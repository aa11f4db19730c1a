----------------------------- MODULE ReportLife -----------------------------
(***************************************************************************)
(* What the status of a report promises to whoever polls it: a report      *)
(* appears as generating, or completed at once; from then on it only has   *)
(* outcomes, never goes back to generating, and once it is deleted it      *)
(* stays deleted, whatever task is still at work on it.                    *)
(***************************************************************************)
CONSTANT Reports

VARIABLE phase  \* phase[r]: what a client sees of report r

Outcomes == {"completed", "failed"}

Init == phase = [r \in Reports |-> "none"]

Appear(r) == /\ phase[r] = "none"
             /\ \E p \in {"generating", "completed"} : phase' = [phase EXCEPT ![r] = p]

Settle(r) == /\ phase[r] \in Outcomes \cup {"generating"}
             /\ \E p \in Outcomes : phase' = [phase EXCEPT ![r] = p]

Delete(r) == /\ phase[r] \in Outcomes \cup {"generating"}
             /\ phase' = [phase EXCEPT ![r] = "deleted"]

Next == \E r \in Reports : Appear(r) \/ Settle(r) \/ Delete(r)

Spec == Init /\ [][Next]_phase
=============================================================================
