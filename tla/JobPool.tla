------------------------------ MODULE JobPool ------------------------------
(***************************************************************************)
(* What a stage's worker pool promises to the engine.  A job it accepts is *)
(* started once and finished once.  After Close nothing is accepted.  The  *)
(* number Stop reports is never smaller than the number of accepted jobs   *)
(* that are not finished at that moment, so a report of 0 means that       *)
(* nobody uses the database or a browser any more.                         *)
(***************************************************************************)
EXTENDS Integers, FiniteSets

CONSTANT Jobs     (* the jobs anybody may submit                           *)

VARIABLES
  waiting,    \* accepted, not started
  active,     \* a worker runs its handler
  finished,   \* the handler has returned and is counted
  closed,
  report      \* what Stop has reported: the number of jobs in flight, or -1

poolVars == <<waiting, active, finished, closed, report>>

InFlight == waiting \cup active

Init ==
  /\ waiting = {} /\ active = {} /\ finished = {}
  /\ closed = FALSE /\ report = -1

Accept(j) ==
  /\ ~closed /\ j \notin InFlight \cup finished
  /\ waiting' = waiting \cup {j}
  /\ UNCHANGED <<active, finished, closed, report>>

Start(j) ==
  /\ j \in waiting
  /\ waiting' = waiting \ {j} /\ active' = active \cup {j}
  /\ UNCHANGED <<finished, closed, report>>

Finish(j) ==
  /\ j \in active
  /\ active' = active \ {j} /\ finished' = finished \cup {j}
  /\ UNCHANGED <<waiting, closed, report>>

Close ==
  /\ ~closed /\ closed' = TRUE
  /\ UNCHANGED <<waiting, active, finished, report>>

Report(n) ==
  /\ closed /\ report = -1
  /\ n >= Cardinality(InFlight)
  /\ report' = n
  /\ UNCHANGED <<waiting, active, finished, closed>>

Next ==
  \/ \E j \in Jobs : Accept(j) \/ Start(j) \/ Finish(j)
  \/ Close
  \/ \E n \in 0..Cardinality(Jobs) : Report(n)

Spec == Init /\ [][Next]_poolVars

\* The caller may close the database once it has been told that all is drained.
DrainedForGood == report = 0 => InFlight = {}

=============================================================================
