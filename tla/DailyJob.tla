------------------------------ MODULE DailyJob ------------------------------
(***************************************************************************)
(* What the scheduler lock promises (CR-027): however many replicas the    *)
(* backend has, a scheduled job starts at most once a day.                 *)
(***************************************************************************)
EXTENDS Naturals

VARIABLE started  \* how often the job has started today

Init == started = 0

Start == started = 0 /\ started' = 1

NewDay == started' = 0

Spec == Init /\ [][Start \/ NewDay]_started
=============================================================================
