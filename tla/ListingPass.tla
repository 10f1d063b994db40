----------------------------- MODULE ListingPass -----------------------------
(***************************************************************************)
(* What one procfs pass promises (src/kdetect/collectors/procfs.py), and   *)
(* what ProcessCapture takes a pass to be: it lists a directory, then      *)
(* visits the listed pids in order, and a pid is seen if and only if it is *)
(* there at its visit.  A visit that goes wrong otherwise makes the pass   *)
(* PARTIAL and loses no pid.                                               *)
(***************************************************************************)
CONSTANT Pids

VARIABLES
    listed,       \* what a listing would show now
    present,      \* the pids there is something to read of now
    phase, todo, seen, status

vars == <<listed, present, phase, todo, seen, status>>

Init ==
    /\ listed \in SUBSET Pids
    /\ present \in SUBSET Pids
    /\ phase = "list"
    /\ todo = {}
    /\ seen = {}
    /\ status = "OK"

\* The system under observation goes on.
Churn ==
    /\ listed' \in SUBSET Pids
    /\ present' \in SUBSET Pids
    /\ UNCHANGED <<phase, todo, seen, status>>

List ==
    /\ phase = "list"
    /\ phase' = "walk"
    /\ todo' = listed
    /\ UNCHANGED <<listed, present, seen, status>>

ListFails ==
    /\ phase = "list"
    /\ phase' = "done"
    /\ status' = "FAILED"
    /\ UNCHANGED <<listed, present, todo, seen>>

Visit(pid) ==
    /\ phase = "walk"
    /\ pid \in todo
    /\ todo' = todo \ {pid}
    /\ \/ pid \in present /\ seen' = seen \cup {pid} /\ status' \in {status, "PARTIAL"}
       \/ pid \notin present /\ UNCHANGED <<seen, status>>
    /\ UNCHANGED <<listed, present, phase>>

Degrade ==
    /\ phase = "walk"
    /\ status' = "PARTIAL"
    /\ UNCHANGED <<listed, present, phase, todo, seen>>

End ==
    /\ phase = "walk"
    /\ todo = {}
    /\ phase' = "done"
    /\ UNCHANGED <<listed, present, todo, seen, status>>

Next == Churn \/ List \/ ListFails \/ Degrade \/ End \/ \E pid \in Pids : Visit(pid)

Spec == Init /\ [][Next]_vars
=============================================================================
