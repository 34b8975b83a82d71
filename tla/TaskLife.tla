------------------------------ MODULE TaskLife ------------------------------
(***************************************************************************)
(* What the engine promises about a row of crawler_tasks, whatever copies  *)
(* of it are under way.  A row that is held has one holder, and only the   *)
(* holder changes it: it ends the row, gives it back or lets go of it.     *)
(* Everybody else may only queue, count, fail or delete a row nobody       *)
(* holds.  A deleted row does not come back.                               *)
(***************************************************************************)
EXTENDS Naturals

CONSTANTS
  Rows,       (* the rows of the table                                     *)
  Workers     (* who may hold one                                          *)

VARIABLES
  status,     \* the status column
  round,      \* how often the row was queued again: polling rounds and retries
  held        \* the workers between claim and terminal write of a row

lifeVars == <<status, round, held>>

Ended == {"success", "failed"}

Free(r) == held[r] = {}

Init ==
  /\ status = [r \in Rows |-> "absent"]
  /\ round = [r \in Rows |-> 0]
  /\ held = [r \in Rows |-> {}]

\* A row nobody holds gets another status; a new round may begin with it.
Write(r, s, n) ==
  /\ Free(r)
  /\ status' = [status EXCEPT ![r] = s]
  /\ round' = [round EXCEPT ![r] = @ + n]
  /\ UNCHANGED held

Submit(r)     == status[r] = "absent" /\ Write(r, "pending", 0)
Count(r)      == status[r] = "pending" /\ Write(r, "pending", 1)
Requeue(r)    == status[r] \in Ended /\ \E n \in {0, 1} : Write(r, "pending", n)
Recover(r)    == status[r] = "processing" /\ Write(r, "pending", 0)
MarkFailed(r) == status[r] \in {"pending", "processing"} /\ Write(r, "failed", 0)
Delete(r)     == status[r] \in {"pending"} \cup Ended /\ Write(r, "gone", 0)

\* A claim whose answer is lost leaves a row in processing that nobody holds.
StartLost(r)  == status[r] = "pending" /\ Write(r, "processing", 0)

Start(w, r) ==
  /\ status[r] = "pending" /\ Free(r)
  /\ status' = [status EXCEPT ![r] = "processing"]
  /\ held' = [held EXCEPT ![r] = {w}]
  /\ UNCHANGED round

\* The holder lets go of its row: with its outcome, for another worker to take
\* it, or without a word when it was cancelled and could not write any more.
LetGo(w, r, s) ==
  /\ held[r] = {w}
  /\ status' = [status EXCEPT ![r] = s]
  /\ held' = [held EXCEPT ![r] = {}]
  /\ UNCHANGED round

Finish(w, r)   == \E out \in Ended : LetGo(w, r, out)
GiveBack(w, r) == LetGo(w, r, "pending")
Abandon(w, r)  == LetGo(w, r, status[r])

\* The process ends and all its workers with it.
Crash == held' = [r \in Rows |-> {}] /\ UNCHANGED <<status, round>>

Next ==
  \/ \E r \in Rows :
       \/ Submit(r) \/ Count(r) \/ Requeue(r) \/ Recover(r) \/ MarkFailed(r) \/ Delete(r)
       \/ StartLost(r)
       \/ \E w \in Workers : Start(w, r) \/ Finish(w, r) \/ GiveBack(w, r) \/ Abandon(w, r)
  \/ Crash

Spec == Init /\ [][Next]_lifeVars

\* A row that is held is in processing, and one worker holds it.
OneHolder ==
  \A r \in Rows : ~Free(r) => status[r] = "processing" /\ \E w \in Workers : held[r] = {w}

=============================================================================
