-------------------------- MODULE MCWakeCoordinator --------------------------
(***************************************************************************)
(* WakeCoordinator on small instances: at most two alarms and two lights.  *)
(***************************************************************************)
EXTENDS WakeCoordinator

CONSTANTS o1, o2, l1, l2

\* Back to back: the first episode ends when the second ramp starts.
RampNear == [o \in Occ |-> IF o = o1 THEN 1 ELSE 3]
WakeNear == [o \in Occ |-> IF o = o1 THEN 2 ELSE 4]

\* The first episode is over when the second ramp starts.
RampApart == [o \in Occ |-> IF o = o1 THEN 1 ELSE 4]
WakeApart == [o \in Occ |-> IF o = o1 THEN 2 ELSE 5]

\* A ramp of two steps.
WakeLate == [o \in Occ |-> 3]

HoldTwo == [o \in Occ |-> 2]

\* Both alarms are held until the same time.
HoldLong == [o \in Occ |-> IF o = o1 THEN 4 ELSE 2]

HoldOne == [o \in Occ |-> 1]

=============================================================================
