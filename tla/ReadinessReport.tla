--------------------------- MODULE ReadinessReport ---------------------------
(***************************************************************************)
(* What the drivers controller promises about the alert it publishes on   *)
(* each spin, abstracted to four classes: no alert yet, "starting up",    *)
(* ready, and a fault.  The controller first reports that the system is   *)
(* starting up, for as long as it likes; once it has reported ready or a  *)
(* fault it moves between those two only, and it does eventually leave    *)
(* the starting-up phase.                                                  *)
(***************************************************************************)
VARIABLE report

Reports == {"none", "not_ready", "ready", "fault"}

Starting == {"none", "not_ready"}
Settled == {"ready", "fault"}

Init == report = "none"

\* A spin during startup that finds the drivers not ready.
StayStarting ==
    /\ report \in Starting
    /\ report' = "not_ready"

\* The first spin that reports ready, or a fault after the grace period.
LeaveStartup ==
    /\ report \in Starting
    /\ report' \in Settled

\* After startup, every report is ready or a fault.
Settle ==
    /\ report \in Settled
    /\ report' \in Settled

Next == StayStarting \/ LeaveStartup \/ Settle

SafeSpec == Init /\ [][Next]_report

Spec == SafeSpec /\ WF_report(LeaveStartup)

\* The report is always one of the four classes.
TypeOK == report \in Reports

=============================================================================
