----------------------------- MODULE AccessView -----------------------------
(***************************************************************************)
(* What the access graph promises its readers, without locks, reference    *)
(* counts or calls in progress: `named` is the set of (subject, cluster)   *)
(* edges the observed bindings support and `shown` is what a reader gets.  *)
(* The truth changes at will; the view follows it one edge at a time, only *)
(* ever towards the truth, and catches up with an edge that stays put.     *)
(***************************************************************************)
CONSTANT Edge

VARIABLES named, shown

viewVars == <<named, shown>>

Init == named = {} /\ shown = {}

Observe ==
    /\ named' \in SUBSET Edge
    /\ shown' = shown

Show(e) ==
    /\ e \in named \ shown
    /\ shown' = shown \cup {e}
    /\ named' = named

Hide(e) ==
    /\ e \in shown \ named
    /\ shown' = shown \ {e}
    /\ named' = named

Next == Observe \/ \E e \in Edge : Show(e) \/ Hide(e)

SafeSpec == Init /\ [][Next]_viewVars

Spec == SafeSpec /\ \A e \in Edge : WF_viewVars(Show(e)) /\ WF_viewVars(Hide(e))
=============================================================================
