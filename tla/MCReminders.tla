----------------------------- MODULE MCReminders -----------------------------
(***************************************************************************)
(* Reminders on small instances: one kind of reminder, days of two units, *)
(* and visits on and off the times at which beat enqueues it.              *)
(***************************************************************************)
EXTENDS Reminders, TLC

CONSTANTS a1, a2, day

Visits == {a1, a2}
Starts == (a1 :> 4) @@ (a2 :> 0)
Ends   == (a1 :> 5) @@ (a2 :> 2)
OneKind == {day}
Ahead  == [k \in OneKind |-> 1]
Period == [k \in OneKind |-> 2]
OneRetry == [t \in Tasks |-> IF t = day THEN 1 ELSE 0]

ReminderSymmetry == Permutations(Workers)
=============================================================================
