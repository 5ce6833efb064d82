----------------------------- MODULE MCPOperator -----------------------------
(***************************************************************************)
(* The mcp operator.  A workspace enables MCP by binding the export; the   *)
(* operator then writes the one ClusterRole and ClusterRoleBinding that    *)
(* let the MCP server impersonate callers there, and reports in an         *)
(* MCPEndpoint how that went.                                              *)
(***************************************************************************)
EXTENDS Integers, FiniteSets

CONSTANTS
  Workspace,
  MaxBindings,   \* bound: how often a binding is created
  MaxFailures    \* bound: calls of the operator that fail, and its restarts

ASSUME MCPOperatorAssumption == MaxBindings \in Nat /\ MaxFailures \in Nat

VARIABLES
  bound,      \* workspaces whose APIBinding to the export exists
  grant,      \* [Workspace -> SUBSET {"role", "binding"}], the RBAC written there
  endpoint,   \* [Workspace -> the phase in its MCPEndpoint, or "none"]
  queue,      \* workspaces to reconcile
  step,       \* [Workspace -> where its reconcile is]
  bindings,   \* bindings created so far
  failures    \* calls failed and restarts so far

opVars == <<bound, grant, endpoint, queue, step, bindings, failures>>

Steps == {"none", "role", "binding", "ready", "error"}

\* The phases an operator reports; Pending is never written.
Phase == {"Ready", "Error"}

OpTypeOK ==
  /\ bound \subseteq Workspace /\ queue \subseteq Workspace
  /\ grant \in [Workspace -> SUBSET {"role", "binding"}]
  /\ endpoint \in [Workspace -> Phase \cup {"none"}]
  /\ step \in [Workspace -> Steps]

OpInit ==
  /\ bound = {} /\ queue = {}
  /\ grant = [w \in Workspace |-> {}]
  /\ endpoint = [w \in Workspace |-> "none"]
  /\ step = [w \in Workspace |-> "none"]
  /\ bindings = 0 /\ failures = 0

\* Binding puts the workspace on the endpoint slice: the provider engages it
\* and its LogicalCluster is listed.
Bind(w) ==
  /\ w \notin bound /\ bindings < MaxBindings
  /\ bound' = bound \cup {w}
  /\ queue' = queue \cup {w}
  /\ bindings' = bindings + 1
  /\ UNCHANGED <<grant, endpoint, step, failures>>

\* Unbinding takes away the bound API with its objects, and every claim.
Unbind(w) ==
  /\ w \in bound
  /\ bound' = bound \ {w}
  /\ endpoint' = [endpoint EXCEPT ![w] = "none"]
  /\ UNCHANGED <<grant, queue, step, bindings, failures>>

\* GetCluster fails for a workspace that has left; it is not tried again.
Reconcile(w) ==
  /\ w \in queue /\ step[w] = "none"
  /\ queue' = queue \ {w}
  /\ step' = IF w \in bound THEN [step EXCEPT ![w] = "role"] ELSE step
  /\ UNCHANGED <<bound, grant, endpoint, bindings, failures>>

\* Create, or bring what exists to what was asked for.
Upsert(w, obj, next) ==
  /\ step[w] = obj /\ w \in bound
  /\ grant' = [grant EXCEPT ![w] = @ \cup {obj}]
  /\ step' = [step EXCEPT ![w] = next]
  /\ UNCHANGED <<bound, endpoint, queue, bindings, failures>>

EnsureImpersonation(w) == Upsert(w, "role", "binding") \/ Upsert(w, "binding", "ready")

\* Mutant: an error of the grant is only logged.
MutantGrantErrorLogged(w) ==
  /\ step[w] \in {"role", "binding"}
  /\ w \notin bound \/ failures < MaxFailures
  /\ failures' = IF w \in bound THEN failures + 1 ELSE failures
  /\ step' = [step EXCEPT ![w] = "ready"]
  /\ UNCHANGED <<bound, grant, endpoint, queue, bindings>>

\* A call for the grant fails: reported in the workspace, and tried again
\* later.  Every call fails once the binding is gone.
GrantFails(w) ==
  /\ step[w] \in {"role", "binding"}
  /\ w \notin bound \/ failures < MaxFailures
  /\ failures' = IF w \in bound THEN failures + 1 ELSE failures
  /\ step' = [step EXCEPT ![w] = "error"]
  /\ UNCHANGED <<bound, grant, endpoint, queue, bindings>>

\* Create the MCPEndpoint if need be and update its status.
Report(w) ==
  /\ step[w] \in {"ready", "error"} /\ w \in bound
  /\ endpoint' = [endpoint EXCEPT ![w] = IF step[w] = "ready" THEN "Ready" ELSE "Error"]
  /\ queue' = IF step[w] = "error" THEN queue \cup {w} ELSE queue
  /\ step' = [step EXCEPT ![w] = "none"]
  /\ UNCHANGED <<bound, grant, bindings, failures>>

\* Mutant: the error of the report is dropped.
MutantReportErrorDropped(w) ==
  /\ step[w] \in {"ready", "error"}
  /\ w \notin bound \/ failures < MaxFailures
  /\ failures' = IF w \in bound THEN failures + 1 ELSE failures
  /\ step' = [step EXCEPT ![w] = "none"]
  /\ UNCHANGED <<bound, grant, endpoint, queue, bindings>>

\* The error is returned, and the workspace queued again.
ReportFails(w) ==
  /\ step[w] \in {"ready", "error"}
  /\ w \notin bound \/ failures < MaxFailures
  /\ failures' = IF w \in bound THEN failures + 1 ELSE failures
  /\ queue' = queue \cup {w}
  /\ step' = [step EXCEPT ![w] = "none"]
  /\ UNCHANGED <<bound, grant, endpoint, bindings>>

\* The operator restarts: what is on the slice is listed.
OpRestart ==
  /\ failures < MaxFailures /\ failures' = failures + 1
  /\ queue' = bound
  /\ step' = [w \in Workspace |-> "none"]
  /\ UNCHANGED <<bound, grant, endpoint, bindings>>

OpStep(w) ==
  \/ Reconcile(w) \/ EnsureImpersonation(w) \/ GrantFails(w)
  \/ Report(w) \/ ReportFails(w)

OpNext ==
  \/ \E w \in Workspace : Bind(w) \/ Unbind(w) \/ OpStep(w)
  \/ OpRestart

\* The operator's queue is worked off; nothing is assumed of its users.
OpFairness == \A w \in Workspace : WF_opVars(OpStep(w))

\* The MCP server may impersonate in the workspace.
MayImpersonate(w) == grant[w] = {"role", "binding"}

-----------------------------------------------------------------------------
\* What an MCPEndpoint reports is so: Ready is only ever written where the
\* whole grant is, however reconciles, failing calls and unbindings follow
\* each other.
ReadyMeansGranted ==
  OpTypeOK /\ \A w \in Workspace : endpoint[w] = "Ready" => MayImpersonate(w)

\* A workspace that has bound the export and stays bound is enabled for good.
EnabledGetsReady ==
  \A w \in Workspace : (w \in bound) ~> (w \notin bound \/ endpoint[w] = "Ready")

\* mcp init's help: binding is the consent to being acted for, and deleting
\* the binding revokes it.
UnbindingRevokes ==
  \A w \in Workspace : (w \notin bound) ~> (w \in bound \/ ~MayImpersonate(w))
=============================================================================
