------------------------------- MODULE JobLog -------------------------------
(***************************************************************************)
(* What the event log promises of every job, whatever the job does: its    *)
(* entry is opened once, while the job runs it says so, it is closed, and  *)
(* a closed entry is never open again.                                     *)
(***************************************************************************)
CONSTANT Jobs

VARIABLE entry

Init == entry = [j \in Jobs |-> "none"]

Open(j) ==
  /\ entry[j] = "none"
  /\ entry' = [entry EXCEPT ![j] = "open"]

\* A restart closes the entries of all the jobs it interrupted at once.
Close(closed) ==
  /\ closed # {}
  /\ \A j \in closed : entry[j] = "open"
  /\ entry' = [j \in Jobs |-> IF j \in closed THEN "closed" ELSE entry[j]]

CloseOne(j) == \E closed \in SUBSET Jobs : j \in closed /\ Close(closed)

Next == (\E j \in Jobs : Open(j)) \/ (\E closed \in SUBSET Jobs : Close(closed))

Safe == Init /\ [][Next]_entry

Spec == Safe /\ \A j \in Jobs : WF_entry(CloseOne(j))
=============================================================================
