----------------------------- MODULE TaskEngine -----------------------------
(***************************************************************************)
(* The task life cycle of one stage: rows of crawler_tasks, the in-memory  *)
(* copies (Task) that  carry a row id through the stage pool, the spill    *)
(* table and the delay heap, the pool's workers, and the carriers that     *)
(* turn rows back into copies: submission, drain, delay dispatcher, error  *)
(* queue, repeat queue, startup recovery and the admin Retry and Urgent.   *)
(*                                                                         *)
(* A database statement is one atomic step.  Everything a goroutine does   *)
(* between two statements, or between a statement and a queue operation,   *)
(* may be interleaved with every other goroutine.                          *)
(***************************************************************************)
EXTENDS Naturals, Sequences

CONSTANTS
  Rows,         (* row ids the instance may use                            *)
  NoRow,        (* the "no row" of an idle worker or carrier               *)
  Workers,      (* the worker goroutines of the stage pool                 *)
  Polled,       (* rows created with repeatable = yes                      *)
  QueueCap,     (* copies the main lane holds when it reports ErrQueueFull *)
  FastCap,      (* copies the fast lane holds when SubmitUrgent gives up   *)
  MaxRetry,     (* error_queue.max_retry, 0 = no limit                     *)
  RepeatLimit,  (* StageConfig.RepeatLimit, 0 = no limit                   *)
  MaxRounds,    (* bound: SubmitTask of an existing row, by repeat         *)
  MaxReprocess, (* bound: RetryTask, by reprocess                          *)
  MaxRestarts,  (* bound: process restarts                                 *)
  MaxLost,      (* bound: lost answers of a counting UPDATE, by forgot     *)
  Ops,          (* the queues, operators and events of the instance        *)
  Faults        (* database faults of the instance                         *)

Carriers == {"submit", "delay", "drain", "errq", "repq", "recq", "retry", "urgent"}

\* Goroutines counted by tickerWG: Engine.Stop waits for them.
Tickers == {"delay", "drain", "errq", "repq", "recq"}

OpNames == {"again", "delay", "errq", "repq", "retry", "urgent", "mark", "delete",
            "interval", "pause", "reap", "stop"}

\* A statement that fails has no effect; one whose answer is lost has committed.
FaultNames == {"claimError", "claimLost", "persistLost", "release", "write", "writeLost",
               "reread", "reset", "resetLost", "select", "insertLost"}

ASSUME EngineAssumption ==
  /\ NoRow \notin Rows
  /\ Polled \subseteq Rows
  /\ QueueCap \in Nat /\ FastCap \in Nat
  /\ MaxRetry \in Nat /\ RepeatLimit \in Nat
  /\ MaxRounds \in Nat /\ MaxReprocess \in Nat /\ MaxRestarts \in Nat /\ MaxLost \in Nat
  /\ Ops \subseteq OpNames
  /\ Faults \subseteq FaultNames

VARIABLES
  \* columns of crawler_tasks
  status, repeat, reprocess, urgent,
  fresh,      \* updated_at >= startedAt: written by this process
  \* memory of the process
  queue,      \* the main lane of the stage pool
  fast,       \* its fast lane
  delayed,    \* copies in the delay heap, by row
  spill,      \* Engine.spilled
  draining,   \* the table drainSpilled swapped out and still works on
  worker, carrier,
  unsettled,  \* Engine.unsettled
  paused,     \* a pause entry covers the stage
  torecover,  \* rows the startup pass has not reached yet
  phase,      \* how far Engine.Stop has come
  drained,    \* what Engine.Stop reports
  restarts,
  \* history, read by the properties and by the bound MaxLost only
  forgot,     \* how often the memory of having counted a row's round was lost
  forsaken,   \* rows this process gave up with no more than a log or an error
  astray      \* rows whose execution went with a reaped pool

row    == <<status, repeat, reprocess, urgent, fresh>>
lanes  == <<queue, fast>>
spills == <<spill, draining>>
process == <<phase, drained, restarts>>
history == <<forgot, forsaken, astray>>
life   == <<process, history>>
vars   == <<row, lanes, delayed, spills, worker, carrier, unsettled, paused,
            torecover, life>>

-----------------------------------------------------------------------------
(* States                                                                  *)

Terminal == {"success", "failed"}
Statuses == {"absent", "pending", "processing", "gone"} \cup Terminal

Copy == [row : Rows, counted : BOOLEAN, urgent : BOOLEAN]

WorkerState ==
  [pc : {"gate", "ready", "claim", "read", "run", "persist"},
   row : Rows \cup {NoRow}, rep : Nat, rpr : Nat,
   out : Terminal \cup {"none"}, doubt : BOOLEAN,
   away : BOOLEAN]   \* its pool has been reaped

AtGate == [pc |-> "gate", row |-> NoRow, rep |-> 0, rpr |-> 0,
           out |-> "none", doubt |-> FALSE, away |-> FALSE]

CarrierState ==
  [pc : {"idle", "decide", "check", "loop", "reset", "write", "enqueue", "markfail"},
   row : Rows \cup {NoRow}, counted : BOOLEAN, urgent : BOOLEAN, was : Nat]

Idle == [pc |-> "idle", row |-> NoRow, counted |-> FALSE, urgent |-> FALSE, was |-> 0]

TypeOK ==
  /\ status \in [Rows -> Statuses]
  /\ repeat \in [Rows -> Nat] /\ reprocess \in [Rows -> Nat]
  /\ urgent \in [Rows -> BOOLEAN] /\ fresh \in [Rows -> BOOLEAN]
  /\ queue \in Seq(Rows) /\ fast \in Seq(Rows)
  /\ delayed \in [Rows -> Nat]
  /\ spill \in Seq(Copy) /\ draining \in Seq(Copy)
  /\ worker \in [Workers -> WorkerState]
  /\ carrier \in [Carriers -> CarrierState]
  /\ unsettled \subseteq Rows /\ torecover \subseteq Rows
  /\ paused \in BOOLEAN
  /\ phase \in {"up", "stopping", "counted", "returned"}
  /\ drained \in BOOLEAN
  /\ restarts \in 0..MaxRestarts
  /\ forgot \in [Rows -> Nat]
  /\ forsaken \subseteq Rows /\ astray \subseteq Rows

Init ==
  /\ status = [r \in Rows |-> "absent"]
  /\ repeat = [r \in Rows |-> 0] /\ reprocess = [r \in Rows |-> 0]
  /\ urgent = [r \in Rows |-> FALSE] /\ fresh = [r \in Rows |-> FALSE]
  /\ queue = <<>> /\ fast = <<>>
  /\ delayed = [r \in Rows |-> 0]
  /\ spill = <<>> /\ draining = <<>>
  /\ worker = [w \in Workers |-> AtGate]
  /\ carrier = [k \in Carriers |-> Idle]
  /\ unsettled = {} /\ torecover = {}
  /\ paused = FALSE
  /\ phase = "up" /\ drained = FALSE /\ restarts = 0
  /\ forgot = [r \in Rows |-> 0]
  /\ forsaken = {} /\ astray = {}

-----------------------------------------------------------------------------
(* Statements, copies and carriers                                         *)

\* UPDATE ... SET status = s, repeat += dr, reprocess += dp, urgent = u WHERE guard.
\* gorm sets updated_at on every row an UPDATE matches.
Update(guard, r, s, dr, dp, u) ==
  /\ status' = IF guard THEN [status EXCEPT ![r] = s] ELSE status
  /\ repeat' = IF guard THEN [repeat EXCEPT ![r] = @ + dr] ELSE repeat
  /\ reprocess' = IF guard THEN [reprocess EXCEPT ![r] = @ + dp] ELSE reprocess
  /\ urgent' = IF guard THEN [urgent EXCEPT ![r] = u] ELSE urgent
  /\ fresh' = IF guard THEN [fresh EXCEPT ![r] = TRUE] ELSE fresh

SetStatus(guard, r, s) == Update(guard, r, s, 0, 0, urgent[r])

CopyOf(k) == [row |-> carrier[k].row, counted |-> carrier[k].counted,
              urgent |-> carrier[k].urgent]

\* spillTask keeps one copy of a row in the spill table.
Spilled(c) == IF \E i \in 1..Len(spill) : spill[i].row = c.row
              THEN spill ELSE Append(spill, c)

\* submitToStage of a live, unpaused stage: the fast lane for an urgent copy
\* while it has room, else the main lane while it is below the watermark.
IntoFast(c) == c.urgent /\ Len(fast) < FastCap
Accepts(c)  == phase = "up" /\ ~paused /\ (IntoFast(c) \/ Len(queue) < QueueCap)

\* A carrier takes up the copy c of a row, at step pc.
Hold(k, pc, c, was) ==
  carrier' = [carrier EXCEPT ![k] = [pc |-> pc, row |-> c.row, counted |-> c.counted,
                                     urgent |-> c.urgent, was |-> was]]
Step(k, pc) == carrier' = [carrier EXCEPT ![k].pc = pc]

\* A carrier is done with its copy; the drain goes on with its table.
Release(k) ==
  carrier' = [carrier EXCEPT ![k] = IF k = "drain" /\ draining # <<>>
                                    THEN [Idle EXCEPT !.pc = "loop"] ELSE Idle]

\* The code gives up the rows of R: it logs or returns an error, and goes on.
GiveUp(R) == forsaken' = forsaken \cup R /\ UNCHANGED <<process, forgot, astray>>

-----------------------------------------------------------------------------
(* SubmitTask and the way every submission takes into the pool             *)

\* The urgency a caller may give to a task it submits.
Marks == IF "urgent" \in Ops THEN BOOLEAN ELSE {FALSE}

\* A new task is inserted; the row is read back by SubmitIfActive.
SubmitNew(r) ==
  /\ carrier["submit"].pc = "idle" /\ status[r] = "absent"
  /\ \E u \in Marks :
       /\ Update(TRUE, r, "pending", 0, 0, u)
       /\ Hold("submit", "decide", [row |-> r, counted |-> FALSE, urgent |-> u], 0)
  /\ UNCHANGED <<lanes, delayed, spills, worker, unsettled, paused, torecover, life>>

\* The INSERT commits and its answer is lost: SubmitTask finds the row, takes it
\* for somebody else's and returns without submitting it.
SubmitNewLost(r) ==
  /\ "insertLost" \in Faults /\ carrier["submit"].pc = "idle" /\ status[r] = "absent"
  /\ \E u \in Marks : Update(TRUE, r, "pending", 0, 0, u)
  /\ GiveUp({r})
  /\ UNCHANGED <<lanes, delayed, spills, worker, carrier, unsettled, paused, torecover>>

\* A repeatable task that is already in the table is submitted again.
SubmitAgain(r) ==
  /\ "again" \in Ops /\ carrier["submit"].pc = "idle"
  /\ r \in Polled /\ status[r] \notin {"absent", "gone"} /\ repeat[r] < MaxRounds
  /\ \E u \in Marks :
       Hold("submit", "decide", [row |-> r, counted |-> FALSE, urgent |-> u], 0)
  /\ UNCHANGED <<row, lanes, delayed, spills, worker, unsettled, paused, torecover, life>>

\* submitIfActive on the row just read: nothing for a terminal row, else into
\* the pool, or into the delay heap when the task has a delivery time.
SubmitIfActive ==
  /\ carrier["submit"].pc = "decide"
  /\ LET r == carrier["submit"].row IN
     \/ /\ status[r] \in Terminal
        /\ Release("submit") /\ UNCHANGED delayed
     \/ /\ status[r] \notin Terminal
        /\ Step("submit", "write") /\ UNCHANGED delayed
     \/ /\ "delay" \in Ops /\ status[r] \notin Terminal
        /\ delayed' = [delayed EXCEPT ![r] = @ + 1]
        /\ Release("submit")
  /\ UNCHANGED <<row, lanes, spills, worker, unsettled, paused, torecover, life>>

\* deliverDelayed rereads a row that came due: only a pending row is submitted.
\* The heap is kept as a number of copies, so any of their urgencies may be next.
DeliverDelayed(r) ==
  /\ carrier["delay"].pc = "idle" /\ delayed[r] > 0
  /\ delayed' = [delayed EXCEPT ![r] = @ - 1]
  /\ IF status[r] = "pending"
     THEN \E u \in Marks :
            Hold("delay", "write", [row |-> r, counted |-> FALSE, urgent |-> u], 0)
     ELSE UNCHANGED carrier
  /\ UNCHANGED <<row, lanes, spills, worker, unsettled, paused, torecover, life>>

\* Mutant: submitToPool that does not remember having counted the round.
SubmitToPoolUncounted(k) ==
  /\ carrier[k].pc = "write"
  /\ LET r == carrier[k].row
         bump == r \in Polled /\ ~carrier[k].counted
     IN Update(status[r] = "pending", r, "pending", IF bump THEN 1 ELSE 0, 0, urgent[r])
  /\ Step(k, "enqueue")
  /\ UNCHANGED <<lanes, delayed, spills, worker, unsettled, paused, torecover, life>>

\* submitToPool: confirm the row is pending and count the polling round once.
SubmitToPool(k) ==
  /\ carrier[k].pc = "write"
  /\ LET r == carrier[k].row
         bump == r \in Polled /\ ~carrier[k].counted
     IN /\ Update(status[r] = "pending", r, "pending", IF bump THEN 1 ELSE 0, 0, urgent[r])
        /\ carrier' = [carrier EXCEPT ![k].pc = "enqueue", ![k].counted = @ \/ bump]
  /\ UNCHANGED <<lanes, delayed, spills, worker, unsettled, paused, torecover, life>>

\* The UPDATE fails: the copy waits in the spill table, its round uncounted.
SubmitToPoolError(k) ==
  /\ "write" \in Faults /\ carrier[k].pc = "write"
  /\ spill' = Spilled(CopyOf(k)) /\ Release(k)
  /\ UNCHANGED <<row, lanes, delayed, draining, worker, unsettled, paused, torecover, life>>

\* The UPDATE commits and its answer is lost: the copy is spilled just the same,
\* and the drain will count the round again.
SubmitToPoolLost(k) ==
  /\ "writeLost" \in Faults /\ carrier[k].pc = "write"
  /\ LET r == carrier[k].row
         bump == r \in Polled /\ ~carrier[k].counted
     IN /\ status[r] = "pending" /\ forgot[r] < MaxLost
        /\ Update(TRUE, r, "pending", IF bump THEN 1 ELSE 0, 0, urgent[r])
        /\ forgot' = [forgot EXCEPT ![r] = @ + (IF bump THEN 1 ELSE 0)]
  /\ spill' = Spilled(CopyOf(k)) /\ Release(k)
  /\ UNCHANGED <<lanes, delayed, draining, worker, unsettled, paused, torecover,
                 process, forsaken, astray>>

\* submitToStage puts the copy into a lane of the pool.
Enqueue(k) ==
  /\ carrier[k].pc = "enqueue" /\ Accepts(CopyOf(k))
  /\ IF IntoFast(CopyOf(k))
     THEN fast' = Append(fast, carrier[k].row) /\ UNCHANGED queue
     ELSE queue' = Append(queue, carrier[k].row) /\ UNCHANGED fast
  /\ Release(k)
  /\ UNCHANGED <<row, delayed, spills, worker, unsettled, paused, torecover, life>>

\* ErrQueueFull (watermark, pause, or an engine that stops): every carrier spills.
EnqueueFull(k) ==
  /\ carrier[k].pc = "enqueue" /\ ~Accepts(CopyOf(k))
  /\ spill' = Spilled(CopyOf(k)) /\ Release(k)
  /\ UNCHANGED <<row, lanes, delayed, draining, worker, unsettled, paused, torecover, life>>

\* The pool a carrier got hold of was stopped before its Submit: by Stop, or by
\* the idle reaper.  Another pool may be at work by then, so the lanes tell nothing.
PoolStopped == phase # "up" \/ "reap" \in Ops

\* "worker pool already stopped": afterTaskPending spills the copy, the error
\* queue marks the row failed again, RetryTask and UrgentTask give up.
EnqueueRejected(k) ==
  /\ carrier[k].pc = "enqueue" /\ PoolStopped
  /\ spill' = IF k \in {"errq", "retry", "urgent"} THEN spill ELSE Spilled(CopyOf(k))
  /\ IF k = "errq" THEN Step(k, "markfail") ELSE Release(k)
  /\ GiveUp(IF k \in {"retry", "urgent"} THEN {carrier[k].row} ELSE {})
  /\ UNCHANGED <<row, lanes, delayed, draining, worker, unsettled, paused, torecover>>

\* markRequeueFailed puts a row it could not submit back to failed.
MarkRequeueFailed ==
  /\ carrier["errq"].pc = "markfail"
  /\ LET r == carrier["errq"].row
     IN SetStatus(status[r] \notin {"absent", "gone", "failed"}, r, "failed")
  /\ Release("errq")
  /\ UNCHANGED <<lanes, delayed, spills, worker, unsettled, paused, torecover, life>>

-----------------------------------------------------------------------------
(* The governance queues                                                   *)

\* The row as a SELECT read it, with repeatCounted set by the caller.
Snapshot(r, counted, urg) == [row |-> r, counted |-> counted, urgent |-> urg]

\* errorQueueQuery: a failed row whose generations are not used up.
ErrorSelect(r) ==
  /\ "errq" \in Ops /\ carrier["errq"].pc = "idle"
  /\ status[r] = "failed" /\ (MaxRetry = 0 \/ reprocess[r] < MaxRetry)
  /\ Hold("errq", "reset", Snapshot(r, TRUE, urgent[r]), 0)
  /\ UNCHANGED <<row, lanes, delayed, spills, worker, unsettled, paused, torecover, life>>

\* Mutant: the reset without its status guard.
ErrorResetUnguarded ==
  /\ carrier["errq"].pc = "reset"
  /\ Update(TRUE, carrier["errq"].row, "pending", 0, 1, urgent[carrier["errq"].row])
  /\ Step("errq", "enqueue")
  /\ UNCHANGED <<lanes, delayed, spills, worker, unsettled, paused, torecover, life>>

\* requeueFailedTaskIn: reset the row if it is still failed, then submit it.
ErrorReset ==
  /\ carrier["errq"].pc = "reset"
  /\ LET r == carrier["errq"].row
         hit == status[r] = "failed"
     IN /\ Update(hit, r, "pending", 0, 1, urgent[r])
        /\ IF hit THEN Step("errq", "enqueue") ELSE Release("errq")
  /\ UNCHANGED <<lanes, delayed, spills, worker, unsettled, paused, torecover, life>>

\* repeatQueueQuery: a finished polled row that is due and below its limit.
RepeatSelect(r) ==
  /\ "repq" \in Ops /\ carrier["repq"].pc = "idle"
  /\ r \in Polled /\ status[r] \in Terminal
  /\ RepeatLimit = 0 \/ repeat[r] < RepeatLimit
  /\ RepeatLimit > 0 \/ repeat[r] < MaxRounds
  /\ Hold("repq", "reset", Snapshot(r, FALSE, urgent[r]), 0)
  /\ UNCHANGED <<row, lanes, delayed, spills, worker, unsettled, paused, torecover, life>>

\* requeueRepeatTaskIn: reset the row if it is still finished, below the limit.
RepeatReset ==
  /\ carrier["repq"].pc = "reset"
  /\ LET r == carrier["repq"].row
         hit == status[r] \in Terminal /\ (RepeatLimit = 0 \/ repeat[r] < RepeatLimit)
     IN /\ SetStatus(hit, r, "pending")
        /\ IF hit THEN Step("repq", "write") ELSE Release("repq")
  /\ UNCHANGED <<lanes, delayed, spills, worker, unsettled, paused, torecover, life>>

\* submitRecoveredTask: a polled row counts a round, another one is enqueued.
Recovered(r) == IF r \in Polled THEN "write" ELSE "enqueue"

\* Mutant: a startup pass without updated_at < startedAt.
RecoverVisitAny(r) ==
  /\ carrier["recq"].pc = "idle" /\ r \in torecover
  /\ torecover' = torecover \ {r}
  /\ IF status[r] \in {"pending", "processing"}
     THEN Hold("recq", IF status[r] = "processing" THEN "reset" ELSE Recovered(r),
               Snapshot(r, FALSE, TRUE), 0)
     ELSE UNCHANGED carrier
  /\ UNCHANGED <<row, lanes, delayed, spills, worker, unsettled, paused, life>>

\* Mutant: a startup pass that leaves the processing orphans alone.
RecoverVisitPending(r) ==
  /\ carrier["recq"].pc = "idle" /\ r \in torecover
  /\ torecover' = torecover \ {r}
  /\ IF status[r] = "pending" /\ ~fresh[r]
     THEN Hold("recq", Recovered(r), Snapshot(r, FALSE, TRUE), 0)
     ELSE UNCHANGED carrier
  /\ UNCHANGED <<row, lanes, delayed, spills, worker, unsettled, paused, life>>

\* The startup pass reads its next row: pending or processing, and not written
\* by this process.  The copy of a recovered row is urgent.
RecoverVisit(r) ==
  /\ carrier["recq"].pc = "idle" /\ r \in torecover
  /\ torecover' = torecover \ {r}
  /\ LET snap == Snapshot(r, FALSE, TRUE) IN
     \/ /\ status[r] = "pending" /\ ~fresh[r]
        /\ Hold("recq", Recovered(r), snap, 0)
     \/ /\ status[r] = "processing" /\ ~fresh[r]
        /\ Hold("recq", "reset", snap, 0)
     \/ /\ status[r] \notin {"pending", "processing"} \/ fresh[r]
        /\ UNCHANGED carrier
  /\ UNCHANGED <<row, lanes, delayed, spills, worker, unsettled, paused, life>>

\* requeueRecoverTask: an orphan is reset unless it became terminal meanwhile.
RecoverReset ==
  /\ carrier["recq"].pc = "reset"
  /\ LET r == carrier["recq"].row
         hit == status[r] \in {"pending", "processing"}
     IN /\ SetStatus(hit, r, "pending")
        /\ IF hit THEN Step("recq", Recovered(r)) ELSE Release("recq")
  /\ UNCHANGED <<lanes, delayed, spills, worker, unsettled, paused, torecover, life>>

\* The SELECT of a batch fails: the startup pass ends, and nobody starts another.
RecoverSelectError ==
  /\ "select" \in Faults /\ carrier["recq"].pc = "idle" /\ torecover # {}
  /\ torecover' = {} /\ GiveUp(torecover)
  /\ UNCHANGED <<row, lanes, delayed, spills, worker, carrier, unsettled, paused>>

-----------------------------------------------------------------------------
(* Operators of the admin backend                                          *)

\* RetryTask reads the row; the operator's snapshot carries its reprocess.
RetryLoad(r) ==
  /\ "retry" \in Ops /\ carrier["retry"].pc = "idle"
  /\ status[r] \notin {"absent", "gone"} /\ reprocess[r] < MaxReprocess
  /\ Hold("retry", "reset", Snapshot(r, TRUE, urgent[r]), reprocess[r])
  /\ UNCHANGED <<row, lanes, delayed, spills, worker, unsettled, paused, torecover, life>>

\* Mutant: a retry that resets the row and leaves the submission to the queues.
RetryResetOnly ==
  /\ carrier["retry"].pc = "reset"
  /\ LET r == carrier["retry"].row
     IN Update(status[r] \notin {"gone", "processing"} /\ reprocess[r] = carrier["retry"].was,
               r, "pending", 0, 1, urgent[r])
  /\ Release("retry")
  /\ UNCHANGED <<lanes, delayed, spills, worker, unsettled, paused, torecover, life>>

\* taskRetryScope: not processing, and no retry since the snapshot.
RetryReset ==
  /\ carrier["retry"].pc = "reset"
  /\ LET r == carrier["retry"].row
         hit == status[r] \notin {"gone", "processing"} /\ reprocess[r] = carrier["retry"].was
     IN /\ Update(hit, r, "pending", 0, 1, urgent[r])
        /\ IF hit THEN Step("retry", "enqueue") ELSE Release("retry")
  /\ UNCHANGED <<lanes, delayed, spills, worker, unsettled, paused, torecover, life>>

\* UrgentTask reads a pending row ...
UrgentLoad(r) ==
  /\ "urgent" \in Ops /\ carrier["urgent"].pc = "idle" /\ status[r] = "pending"
  /\ Hold("urgent", "reset", Snapshot(r, TRUE, TRUE), 0)
  /\ UNCHANGED <<row, lanes, delayed, spills, worker, unsettled, paused, torecover, life>>

\* Mutant: urgentScope without its status condition.
UrgentResetAnyStatus ==
  /\ carrier["urgent"].pc = "reset"
  /\ LET r == carrier["urgent"].row IN
     /\ Update(~urgent[r], r, status[r], 0, 0, TRUE)
     /\ IF ~urgent[r] THEN Step("urgent", "enqueue") ELSE Release("urgent")
  /\ UNCHANGED <<lanes, delayed, spills, worker, unsettled, paused, torecover, life>>

\* ... marks it if it is still pending and not urgent, and submits another copy.
UrgentReset ==
  /\ carrier["urgent"].pc = "reset"
  /\ LET r == carrier["urgent"].row
         hit == status[r] = "pending" /\ ~urgent[r]
     IN /\ Update(hit, r, "pending", 0, 0, TRUE)
        /\ IF hit THEN Step("urgent", "enqueue") ELSE Release("urgent")
  /\ UNCHANGED <<lanes, delayed, spills, worker, unsettled, paused, torecover, life>>

\* A reset, or the mark of a failed submission, fails without effect.  The queues
\* and the operators leave it at that: an orphan stays in processing, a row that
\* could not be marked stays pending.
ResetError(k) ==
  /\ "reset" \in Faults /\ carrier[k].pc \in {"reset", "markfail"}
  /\ Release(k)
  /\ GiveUp(IF k = "recq" \/ carrier[k].pc = "markfail" THEN {carrier[k].row} ELSE {})
  /\ UNCHANGED <<row, lanes, delayed, spills, worker, unsettled, paused, torecover>>

\* A reset commits and its answer is lost: the row is pending, and the copy that
\* was to follow is never made.
ResetLost(k) ==
  /\ "resetLost" \in Faults /\ carrier[k].pc = "reset"
  /\ LET r == carrier[k].row IN
     /\ \/ /\ k = "errq" /\ status[r] = "failed"
           /\ Update(TRUE, r, "pending", 0, 1, urgent[r])
        \/ /\ k = "repq" /\ status[r] \in Terminal
           /\ RepeatLimit = 0 \/ repeat[r] < RepeatLimit
           /\ SetStatus(TRUE, r, "pending")
        \/ /\ k = "recq" /\ status[r] \in {"pending", "processing"}
           /\ SetStatus(TRUE, r, "pending")
        \/ /\ k = "retry" /\ status[r] \notin {"gone", "processing"}
           /\ reprocess[r] = carrier[k].was
           /\ Update(TRUE, r, "pending", 0, 1, urgent[r])
        \/ /\ k = "urgent" /\ status[r] = "pending" /\ ~urgent[r]
           /\ Update(TRUE, r, "pending", 0, 0, TRUE)
     /\ GiveUp({r})
  /\ Release(k)
  /\ UNCHANGED <<lanes, delayed, spills, worker, unsettled, paused, torecover>>

\* Mutant: markFailedScope without updated_at < startedAt.
MarkTaskFailedAny(r) ==
  /\ "mark" \in Ops /\ status[r] \in {"pending", "processing"}
  /\ SetStatus(TRUE, r, "failed")
  /\ UNCHANGED <<lanes, delayed, spills, worker, carrier, unsettled, paused, torecover, life>>

\* MarkTaskFailed: a pending row, or a processing one this process never wrote.
MarkTaskFailed(r) ==
  /\ "mark" \in Ops
  /\ status[r] = "pending" \/ (status[r] = "processing" /\ ~fresh[r])
  /\ SetStatus(TRUE, r, "failed")
  /\ UNCHANGED <<lanes, delayed, spills, worker, carrier, unsettled, paused, torecover, life>>

\* DeleteTask refuses a row that is being processed.
DeleteTask(r) ==
  /\ "delete" \in Ops
  /\ status[r] \in {"pending"} \cup Terminal
  /\ status' = [status EXCEPT ![r] = "gone"]
  /\ UNCHANGED <<repeat, reprocess, urgent, fresh, lanes, delayed, spills, worker,
                 carrier, unsettled, paused, torecover, life>>

\* SetTaskRepeatInterval writes polling columns of a row in any status.
SetTaskRepeatInterval(r) ==
  /\ "interval" \in Ops /\ status[r] \notin {"absent", "gone"}
  /\ SetStatus(TRUE, r, status[r])
  /\ UNCHANGED <<lanes, delayed, spills, worker, carrier, unsettled, paused, torecover, life>>

Pause ==
  /\ "pause" \in Ops /\ ~paused /\ paused' = TRUE
  /\ UNCHANGED <<row, lanes, delayed, spills, worker, carrier, unsettled, torecover, life>>

Resume ==
  /\ paused /\ paused' = FALSE
  /\ UNCHANGED <<row, lanes, delayed, spills, worker, carrier, unsettled, torecover, life>>

-----------------------------------------------------------------------------
(* drainSpilled                                                            *)

\* Swap the spill table out under its lock.
DrainSwap ==
  /\ carrier["drain"].pc = "idle" /\ spill # <<>>
  /\ draining' = spill /\ spill' = <<>>
  /\ Step("drain", "check")
  /\ UNCHANGED <<row, lanes, delayed, worker, unsettled, paused, torecover, life>>

\* Mutant: the bucket of a paused stage is skipped like that of an unknown one.
DrainPausedSkip ==
  /\ carrier["drain"].pc = "check" /\ paused
  /\ draining' = <<>>
  /\ carrier' = [carrier EXCEPT !["drain"] = Idle]
  /\ UNCHANGED <<row, lanes, delayed, spill, worker, unsettled, paused, torecover, life>>

\* The bucket of a paused stage goes back whole.
DrainPaused ==
  /\ carrier["drain"].pc = "check" /\ paused
  /\ spill' = spill \o draining /\ draining' = <<>>
  /\ carrier' = [carrier EXCEPT !["drain"] = Idle]
  /\ UNCHANGED <<row, lanes, delayed, worker, unsettled, paused, torecover, life>>

DrainOpen ==
  /\ carrier["drain"].pc = "check" /\ ~paused
  /\ Step("drain", "loop")
  /\ UNCHANGED <<row, lanes, delayed, spills, worker, unsettled, paused, torecover, life>>

\* The next copy: only a row that is still pending is submitted again.
DrainNext ==
  /\ carrier["drain"].pc = "loop"
  /\ LET c == Head(draining) IN
     IF status[c.row] = "pending"
     THEN Hold("drain", "write", c, 0)
     ELSE carrier' = [carrier EXCEPT !["drain"] =
                        IF Len(draining) > 1 THEN @ ELSE Idle]
  /\ draining' = Tail(draining)
  /\ UNCHANGED <<row, lanes, delayed, spill, worker, unsettled, paused, torecover, life>>

\* A transient read error keeps the copy for the next round.
DrainRereadError ==
  /\ "reread" \in Faults /\ carrier["drain"].pc = "loop"
  /\ spill' = Spilled(Head(draining))
  /\ draining' = Tail(draining)
  /\ carrier' = [carrier EXCEPT !["drain"] = IF Len(draining) > 1 THEN @ ELSE Idle]
  /\ UNCHANGED <<row, lanes, delayed, worker, unsettled, paused, torecover, life>>

-----------------------------------------------------------------------------
(* Workers                                                                 *)

Move(w, pc) == worker' = [worker EXCEPT ![w].pc = pc]
Leave(w)    == worker' = [worker EXCEPT ![w] = AtGate]
Grab(w, r)  == worker' = [worker EXCEPT ![w] = [AtGate EXCEPT !.pc = "claim", !.row = r]]

\* Behind the gate a worker first looks at the fast lane ...
Gate(w) ==
  /\ worker[w].pc = "gate" /\ ~paused /\ phase = "up"
  /\ IF fast # <<>>
     THEN Grab(w, Head(fast)) /\ fast' = Tail(fast)
     ELSE Move(w, "ready") /\ UNCHANGED fast
  /\ UNCHANGED <<row, queue, delayed, spills, carrier, unsettled, paused, torecover, life>>

\* ... then takes whatever either lane offers, even if a pause came meanwhile.
TakeFast(w) ==
  /\ worker[w].pc = "ready" /\ phase = "up" /\ fast # <<>>
  /\ Grab(w, Head(fast)) /\ fast' = Tail(fast)
  /\ UNCHANGED <<row, queue, delayed, spills, carrier, unsettled, paused, torecover, life>>

TakeMain(w) ==
  /\ worker[w].pc = "ready" /\ phase = "up" /\ queue # <<>>
  /\ Grab(w, Head(queue)) /\ queue' = Tail(queue)
  /\ UNCHANGED <<row, fast, delayed, spills, carrier, unsettled, paused, torecover, life>>

\* drainAndExit: after cancellation a copy is taken and given up unclaimed.
TakeDrop(w) ==
  /\ worker[w].pc \in {"gate", "ready"} /\ phase # "up"
  /\ \/ fast # <<>> /\ fast' = Tail(fast) /\ UNCHANGED queue
     \/ queue # <<>> /\ queue' = Tail(queue) /\ UNCHANGED fast
  /\ UNCHANGED <<row, delayed, spills, worker, carrier, unsettled, paused, torecover, life>>

\* Mutant: claimScope without its status condition.
ClaimUnguarded(w) ==
  /\ worker[w].pc = "claim"
  /\ Update(TRUE, worker[w].row, "processing", 0, 0, FALSE)
  /\ Move(w, "read")
  /\ UNCHANGED <<lanes, delayed, spills, carrier, unsettled, paused, torecover, life>>

\* claimTask: pending -> processing.  No row: another copy was faster, unless an
\* earlier attempt may have committed, then the row is remembered as unsettled.
Claim(w) ==
  /\ worker[w].pc = "claim"
  /\ LET r == worker[w].row
         hit == status[r] = "pending"
     IN /\ Update(hit, r, "processing", 0, 0, FALSE)
        /\ IF hit THEN Move(w, "read") ELSE Leave(w)
        /\ unsettled' = IF ~hit /\ worker[w].doubt THEN unsettled \cup {r} ELSE unsettled
  /\ UNCHANGED <<lanes, delayed, spills, carrier, paused, torecover, life>>

\* The statement fails: without effect, or committed with its answer lost.
ClaimError(w) ==
  /\ "claimError" \in Faults /\ worker[w].pc = "claim"
  /\ worker' = [worker EXCEPT ![w].doubt = TRUE]
  /\ UNCHANGED <<row, lanes, delayed, spills, carrier, unsettled, paused, torecover, life>>

ClaimLost(w) ==
  /\ "claimLost" \in Faults /\ worker[w].pc = "claim"
  /\ status[worker[w].row] = "pending"
  /\ Update(TRUE, worker[w].row, "processing", 0, 0, FALSE)
  /\ worker' = [worker EXCEPT ![w].doubt = TRUE]
  /\ UNCHANGED <<lanes, delayed, spills, carrier, unsettled, paused, torecover, life>>

\* retryTaskState gives up after cancellation and remembers the row.
ClaimCancelled(w) ==
  /\ worker[w].pc = "claim" /\ phase # "up"
  /\ unsettled' = unsettled \cup {worker[w].row}
  /\ Leave(w)
  /\ UNCHANGED <<row, lanes, delayed, spills, carrier, paused, torecover, life>>

\* Read the claimed round: the version that fences the terminal write.  A row
\* deleted meanwhile has no round, and releaseClaim finds no row either.
ReadRound(w) ==
  /\ worker[w].pc = "read"
  /\ LET r == worker[w].row IN
     IF status[r] = "gone" THEN Leave(w)
     ELSE worker' = [worker EXCEPT ![w].pc = "run", ![w].rep = repeat[r],
                                   ![w].rpr = reprocess[r]]
  /\ UNCHANGED <<row, lanes, delayed, spills, carrier, unsettled, paused, torecover, life>>

\* releaseClaim: back to pending, or remembered when that write fails too.
GiveBack(w) ==
  LET r == worker[w].row IN
  /\ Leave(w)
  /\ \/ SetStatus(status[r] = "processing", r, "pending") /\ UNCHANGED unsettled
     \/ "release" \in Faults /\ unsettled' = unsettled \cup {r} /\ UNCHANGED row

ReadCancelled(w) ==
  /\ worker[w].pc = "read" /\ phase # "up"
  /\ LET r == worker[w].row IN
     /\ \/ SetStatus(status[r] = "processing", r, "pending")
        \/ "release" \in Faults /\ UNCHANGED row
     /\ unsettled' = unsettled \cup {r}
  /\ Leave(w)
  /\ UNCHANGED <<lanes, delayed, spills, carrier, paused, torecover, life>>

\* FetchHandler ends; the attempts of one execution are not told apart.
RunEnds(w, out) ==
  /\ worker[w].pc = "run"
  /\ worker' = [worker EXCEPT ![w].pc = "persist", ![w].out = out]
  /\ UNCHANGED <<row, lanes, delayed, spills, carrier, unsettled, paused, torecover, life>>

\* Mutant: a cancelled execution goes on to persist the outcome it does not have.
RunCancelledPersists(w) ==
  /\ worker[w].pc = "run" /\ phase # "up"
  /\ Move(w, "persist")
  /\ UNCHANGED <<row, lanes, delayed, spills, carrier, unsettled, paused, torecover, life>>

\* Cancellation before, between or after attempts that did not succeed.
RunCancelled(w) ==
  /\ worker[w].pc = "run" /\ phase # "up"
  /\ GiveBack(w)
  /\ UNCHANGED <<lanes, delayed, spills, carrier, paused, torecover, life>>

\* terminalScope: the row still is in the round this worker claimed.
Fenced(w) ==
  LET r == worker[w].row IN
  /\ status[r] = "processing"
  /\ repeat[r] = worker[w].rep /\ reprocess[r] = worker[w].rpr

\* The exact terminal round is there: an earlier attempt has committed.
Confirmed(w) ==
  LET r == worker[w].row IN
  /\ status[r] = worker[w].out
  /\ repeat[r] = worker[w].rep /\ reprocess[r] = worker[w].rpr

\* persistTerminal: write the outcome, confirm it, or leave a changed row alone.
Persist(w) ==
  /\ worker[w].pc = "persist"
  /\ LET r == worker[w].row IN
     /\ SetStatus(Fenced(w), r, worker[w].out)
     /\ unsettled' = IF Fenced(w) \/ Confirmed(w) THEN unsettled \ {r} ELSE unsettled
  /\ Leave(w)
  /\ UNCHANGED <<lanes, delayed, spills, carrier, paused, torecover, life>>

\* The write commits and its answer is lost: the worker tries again.
PersistLost(w) ==
  /\ "persistLost" \in Faults /\ worker[w].pc = "persist" /\ Fenced(w)
  /\ SetStatus(TRUE, worker[w].row, worker[w].out)
  /\ UNCHANGED <<lanes, delayed, spills, worker, carrier, unsettled, paused, torecover, life>>

\* Mutant: the worker gives up without remembering the row.
PersistCancelledForgets(w) ==
  /\ worker[w].pc = "persist" /\ phase # "up"
  /\ Leave(w)
  /\ UNCHANGED <<row, lanes, delayed, spills, carrier, unsettled, paused, torecover, life>>

\* After cancellation the worker gives up and remembers the row.
PersistCancelled(w) ==
  /\ worker[w].pc = "persist" /\ phase # "up"
  /\ unsettled' = unsettled \cup {worker[w].row}
  /\ Leave(w)
  /\ UNCHANGED <<row, lanes, delayed, spills, carrier, paused, torecover, life>>

\* reapIdle takes a pool for idle, stops it and drops it from the registry, without
\* a look at what Stop reports.  Its lanes are empty, but a copy whose Submit has
\* not counted it, or that came between Stats and Stop, is executed all the same.
Reap ==
  /\ "reap" \in Ops /\ phase = "up" /\ queue = <<>> /\ fast = <<>>
  /\ LET busy == {w \in Workers : worker[w].pc \notin {"gate", "ready"}} IN
     /\ worker' = [w \in Workers |-> [worker[w] EXCEPT !.away = w \in busy]]
     /\ astray' = astray \cup {worker[w].row : w \in busy}
  /\ UNCHANGED <<row, lanes, delayed, spills, carrier, unsettled, paused, torecover,
                 process, forgot, forsaken>>

-----------------------------------------------------------------------------
(* Engine.Stop and the process                                             *)

\* cancel, then shutdown of the pool registry: no pool takes a copy from here.
Stop ==
  /\ "stop" \in Ops /\ phase = "up" /\ phase' = "stopping"
  /\ UNCHANGED <<row, lanes, delayed, spills, worker, carrier, unsettled, paused,
                 torecover, drained, restarts, history>>

\* What the pools of the registry report of a worker: a reaped pool is not asked.
AtRest(w) == worker[w].pc \in {"gate", "ready"} \/ worker[w].away

\* Mutant: a report that leaves out Engine.unsettled.
CountPoolsOnly ==
  /\ phase = "stopping" /\ phase' = "counted"
  /\ drained' = /\ queue = <<>> /\ fast = <<>>
                /\ \A w \in Workers : AtRest(w)
                /\ spill = <<>>
  /\ UNCHANGED <<row, lanes, delayed, spills, worker, carrier, unsettled, paused,
                 torecover, restarts, history>>

\* The pools have drained or timed out: collect what is left.
Count ==
  /\ phase = "stopping" /\ phase' = "counted"
  /\ drained' = /\ queue = <<>> /\ fast = <<>>
                /\ \A w \in Workers : AtRest(w)
                /\ spill = <<>> /\ unsettled = {}
  /\ UNCHANGED <<row, lanes, delayed, spills, worker, carrier, unsettled, paused,
                 torecover, restarts, history>>

TickersDone == \A k \in Tickers : carrier[k].pc = "idle"

\* Wait for the background goroutines, or time out and say "not drained".
Return ==
  /\ phase = "counted" /\ phase' = "returned"
  /\ \/ TickersDone /\ UNCHANGED drained
     \/ drained' = FALSE
  /\ UNCHANGED <<row, lanes, delayed, spills, worker, carrier, unsettled, paused,
                 torecover, restarts, history>>

\* The process crashes or exits, and starts again on the same table.
Restart ==
  /\ restarts < MaxRestarts /\ restarts' = restarts + 1
  /\ fresh' = [r \in Rows |-> FALSE]
  /\ queue' = <<>> /\ fast' = <<>>
  /\ delayed' = [r \in Rows |-> 0]
  /\ spill' = <<>> /\ draining' = <<>>
  /\ worker' = [w \in Workers |-> AtGate]
  /\ carrier' = [k \in Carriers |-> Idle]
  /\ unsettled' = {} /\ paused' = FALSE
  /\ torecover' = {r \in Rows : status[r] \in {"pending", "processing"}}
  /\ phase' = "up" /\ drained' = FALSE
  /\ forgot' = [r \in Rows |-> forgot[r] + 1]
  /\ forsaken' = {} /\ astray' = {}
  /\ UNCHANGED <<status, repeat, reprocess, urgent>>

-----------------------------------------------------------------------------
(* The next-state relation: nothing moves once Stop has returned            *)

WorkerStep(w) ==
  \/ Gate(w) \/ TakeFast(w) \/ TakeMain(w) \/ TakeDrop(w)
  \/ Claim(w) \/ ClaimCancelled(w)
  \/ ReadRound(w) \/ ReadCancelled(w)
  \/ (\E out \in Terminal : RunEnds(w, out)) \/ RunCancelled(w)
  \/ Persist(w) \/ PersistCancelled(w)

WorkerFault(w) == ClaimError(w) \/ ClaimLost(w) \/ PersistLost(w)

CarrierStep ==
  \/ SubmitIfActive
  \/ \E k \in Carriers : SubmitToPool(k) \/ Enqueue(k) \/ EnqueueFull(k) \/ EnqueueRejected(k)
  \/ MarkRequeueFailed
  \/ ErrorReset \/ RepeatReset \/ RecoverReset \/ RetryReset \/ UrgentReset
  \/ DrainSwap \/ DrainPaused \/ DrainOpen \/ DrainNext
  \/ \E r \in Rows : DeliverDelayed(r) \/ RecoverVisit(r)

CarrierFault ==
  \/ DrainRereadError \/ RecoverSelectError
  \/ \E k \in Carriers :
       SubmitToPoolError(k) \/ SubmitToPoolLost(k) \/ ResetError(k) \/ ResetLost(k)

Trigger ==
  \/ \E r \in Rows :
       \/ SubmitNew(r) \/ SubmitNewLost(r) \/ SubmitAgain(r)
       \/ ErrorSelect(r) \/ RepeatSelect(r)
       \/ RetryLoad(r) \/ UrgentLoad(r)
       \/ MarkTaskFailed(r) \/ DeleteTask(r) \/ SetTaskRepeatInterval(r)
  \/ Pause \/ Resume \/ Reap

Next ==
  \/ /\ phase # "returned"
     /\ \/ \E w \in Workers : WorkerStep(w) \/ WorkerFault(w)
        \/ CarrierStep \/ CarrierFault \/ Trigger
  \/ Stop \/ Count \/ Return \/ Restart

Spec == Init /\ [][Next]_vars

\* Go keeps scheduling the workers, and every carrier finishes what it holds.
\* The drain and the delay dispatcher tick for ever, startup recovery runs once.
\* Nothing obliges anybody to trigger a queue, and no fault has to happen; a
\* database that is asked again and again does not fail the same write for ever.
Writers == {"submit", "delay", "drain", "repq", "recq"}

Fairness ==
  /\ \A w \in Workers :
       WF_vars(\/ Gate(w) \/ TakeFast(w) \/ TakeMain(w) \/ Claim(w) \/ ReadRound(w)
               \/ (\E out \in Terminal : RunEnds(w, out)) \/ Persist(w))
  /\ \A k \in Carriers : WF_vars(Enqueue(k) \/ EnqueueFull(k))
  /\ \A k \in Writers : SF_vars(SubmitToPool(k))
  /\ WF_vars(SubmitIfActive)
  /\ WF_vars(ErrorReset \/ MarkRequeueFailed) /\ WF_vars(RepeatReset) /\ WF_vars(RecoverReset)
  /\ WF_vars(DrainSwap \/ DrainPaused \/ DrainOpen) /\ SF_vars(DrainNext)
  /\ \A r \in Rows : WF_vars(DeliverDelayed(r)) /\ WF_vars(RecoverVisit(r))

FairSpec == Spec /\ Fairness

-----------------------------------------------------------------------------
(* Properties                                                              *)

Holds(w, r) == worker[w].row = r /\ worker[w].pc \in {"read", "run"}

\* One row is never executed by two workers at once, however many copies of it
\* the queues, the spill table, the delay heap and the operators have made.
ExclusiveExecution ==
  \A v, w \in Workers, r \in Rows : Holds(v, r) /\ Holds(w, r) => v = w

\* Nobody changes a row under the worker that runs it: while FetchHandler runs
\* the row is processing, in the round and generation the worker has read.
RunningRowUntouched == \A w \in Workers : worker[w].pc = "run" => Fenced(w)

\* A row this process left in processing is either executed, or under a claim or
\* a terminal write whose answer is missing, or listed for Stop as unsettled.
ProcessingAccounted ==
  \A r \in Rows : status[r] = "processing" /\ fresh[r] =>
    \/ r \in unsettled
    \/ \E w \in Workers : /\ worker[w].row = r
                          /\ worker[w].pc = "claim" => worker[w].doubt

HasCopy(r) ==
  \/ \E i \in 1..Len(queue) : queue[i] = r
  \/ \E i \in 1..Len(fast) : fast[i] = r
  \/ \E i \in 1..Len(spill) : spill[i].row = r
  \/ \E i \in 1..Len(draining) : draining[i].row = r
  \/ delayed[r] > 0
  \/ \E w \in Workers : worker[w].row = r /\ worker[w].pc = "claim"
  \/ \E k \in Carriers :
       /\ carrier[k].row = r
       /\ carrier[k].pc \in {"decide", "write", "enqueue", "markfail"}

\* A row of a running engine is never out of everybody's sight.  Of a pending one
\* a copy is on its way to a worker; an orphan of an earlier process is in the
\* hands of the startup pass; or the pass has yet to reach the row, or a failed
\* statement made the code give it up until the next start.
NoStrandedTask ==
  phase = "up" =>
    \A r \in Rows :
      /\ status[r] = "pending" => HasCopy(r) \/ r \in torecover \cup forsaken
      /\ status[r] = "processing" /\ ~fresh[r] =>
           \/ r \in torecover \cup forsaken
           \/ carrier["recq"].row = r /\ carrier["recq"].pc = "reset"

\* "Urgent" is a place in the queue: a row that was claimed is not urgent any
\* more, so no later retry of it jumps the queue by a stale mark.
UrgentClearedByClaim ==
  \A r \in Rows : status[r] \in {"processing", "success"} => ~urgent[r]

\* A row this process executes only becomes terminal by the worker that
\* executed it, in the round that worker ran, and while nobody else runs it.
TerminalByHolder ==
  [][\A r \in Rows :
       status[r] = "processing" /\ fresh[r] /\ status'[r] \in Terminal =>
         \E w \in Workers :
           /\ worker[w].row = r /\ worker[w].pc = "persist" /\ Fenced(w)
           /\ status'[r] = worker[w].out
           /\ ~ \E v \in Workers : Holds(v, r)]_vars

\* Who holds a row: the worker that claimed it, until its outcome is written.
Owners(r) ==
  {w \in Workers : /\ worker[w].row = r
                   /\ \/ worker[w].pc \in {"read", "run"}
                      \/ worker[w].pc = "persist" /\ Fenced(w)}

\* Whatever copies of a row are under way, the table only shows the life cycle of
\* TaskLife: no carrier, operator or second worker writes a row that is held.
Life == INSTANCE TaskLife WITH
  round <- [r \in Rows |-> repeat[r] + reprocess[r]],
  held <- [r \in Rows |-> Owners(r)]

KeepsLifeCycle == Life!Spec

\* Retrying a delivery, through the spill table or a reset of the same round,
\* never uses up another polling round: the repeat queue stops at its limit, and
\* goes beyond it only by the rounds whose count a restart or a lost answer hid.
RepeatLimitHolds ==
  RepeatLimit > 0 => \A r \in Rows : repeat[r] <= RepeatLimit + forgot[r]

\* Stop reports "drained" only when no row it touched is left in processing, but
\* for the rows whose execution the idle reaper has taken out of its sight.
DrainedMeansSettled ==
  phase = "returned" /\ drained =>
    \A r \in Rows : status[r] = "processing" /\ fresh[r] => r \in astray

\* A task that was accepted is executed to an end, unless it is deleted, or a
\* failed statement makes the process give it up.
Settles ==
  \A r \in Rows :
    status[r] \in {"pending", "processing"} ~>
      status[r] \in Terminal \cup {"gone"} \/ r \in forsaken

\* The same for an engine whose stage is not paused for ever.
SettlesOnceResumed == <>[]~paused => Settles

=============================================================================
