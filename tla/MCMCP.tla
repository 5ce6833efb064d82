-------------------------------- MODULE MCMCP --------------------------------
(***************************************************************************)
(* The operator and the server share one thing, the grant, so the two are  *)
(* explored one after the other: first the operator alone, on a workspace  *)
(* that binds, unbinds and fails; then the server, on a workspace that was *)
(* enabled, or that never was.  Two callers share a name, so that a key by *)
(* name would confuse them.                                                *)
(***************************************************************************)
EXTENDS MCPServer

VARIABLE focus

MCIdentity == {[name |-> "alice", groups |-> <<>>], [name |-> "alice", groups |-> <<"team">>]}
MCServed == {"logicalclusters", "apibindings", "apiexports", "workspacetypes"}

Settled(on) ==
  /\ bound = IF on THEN Workspace ELSE {}
  /\ grant = [w \in Workspace |-> IF on THEN {"role", "binding"} ELSE {}]
  /\ endpoint = [w \in Workspace |-> IF on THEN "Ready" ELSE "none"]
  /\ queue = {} /\ step = [w \in Workspace |-> "none"]
  /\ bindings = 0 /\ failures = 0

MCInit ==
  \/ focus = "operator" /\ Init /\ rights = [u \in Identity |-> {}]
  \/ focus = "server" /\ SrvInit /\ \E on \in BOOLEAN : Settled(on)

MCNext ==
  \/ focus = "operator" /\ OpNext /\ UNCHANGED <<focus, srvVars>>
  \/ focus = "server" /\ SrvNext /\ UNCHANGED <<focus, opVars>>

MCSpec == MCInit /\ [][MCNext]_<<vars, focus>> /\ OpFairness
=============================================================================
