------------------------- MODULE MCDefinitionCache --------------------------
(***************************************************************************)
(* The ephemeral virtual workspace.  Three parts share nothing that        *)
(* changes - concurrent requests for the definitions of two exports, the   *)
(* requests that are answered by a webhook, and the controllers that       *)
(* publish where it is - so they are explored apart.                       *)
(*                                                                         *)
(* Requests: two providers have an export of one name, one registered by   *)
(* its path and one by its cluster, and may bind it themselves.  Slices:   *)
(* two controllers over one workspace, restarted with other shards.        *)
(***************************************************************************)
EXTENDS DefinitionCache, EphemeralRequest, EndpointSlices, TLC

CONSTANTS eu
VARIABLE focus

MCPathOf == "p1" :> "root:p1" @@ "p2" :> "root:p2"
Entry(path, seconds) ==
  [path |-> path, name |-> "s3", resource |-> "buckets",
   webhook |-> [url |-> "https", ca |-> "", cert |-> "c", key |-> "k", timeoutSeconds |-> seconds]]
MCFile == {<<Entry("root:p1", 0), Entry("p2", 30)>>, <<Entry("root:p1", 30)>>,
           <<Entry("p1", 0), Entry("p1", 30)>>, <<Entry("p2", 31)>>}

Started(e, labels, mount) ==
  [host |-> "h", prefix |-> mount, name |-> "ephemeral", export |-> e, shards |-> labels]
MCPrefix == <<"services">>
MCOptions == {Started("", "none", MCPrefix), Started("s3", eu, MCPrefix), Started("", "none", <<>>)}

MCInit ==
  /\ focus \in {"definitions", "request", "slices"}
  /\ Init /\ (focus # "definitions" => \A r, q \in Request : req[r] = req[q])
  /\ RequestInit /\ (focus # "request" => content = {})
  /\ SlicesInit /\ (focus # "slices" => \A c \in Instance : options[c].shards = eu)

MCNext ==
  /\ UNCHANGED focus
  /\ \/ focus = "definitions" /\ Next /\ UNCHANGED <<requestVars, sliceVars>>
     \/ focus = "request" /\ RequestNext /\ UNCHANGED <<vars, sliceVars>>
     \/ focus = "slices" /\ SlicesNext /\ UNCHANGED <<vars, requestVars>>

MCSpec == MCInit /\ [][MCNext]_<<vars, requestVars, sliceVars, focus>>

HandlerSymmetry == Permutations(Request) \cup Permutations(Handler) \cup Permutations(Instance)
=============================================================================
