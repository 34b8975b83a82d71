------------------------- MODULE TaskEngineShutdown -------------------------
(***************************************************************************)
(* What Engine.Stop may say: every row this process has left in processing *)
(* is held by a worker or remembered in Engine.unsettled, so a stop that   *)
(* reports "drained" leaves none but those of a reaped pool; a claim takes *)
(* the urgent mark off; and until it is stopped, every row of the engine   *)
(* that waits has a copy on its way, is in the hands of the startup pass,  *)
(* or was given up by a failed statement.  For any number of rows,         *)
(* workers, copies and restarts, and all faults.                           *)
(***************************************************************************)
EXTENDS TaskEngineProofs

USE DEF row, lanes, spills, life, process, history

-----------------------------------------------------------------------------
(* What the carriers, the queues and the operators do to a row               *)

Same(r) ==
  /\ status'[r] = status[r] /\ fresh'[r] = fresh[r] /\ urgent'[r] = urgent[r]
  /\ repeat'[r] = repeat[r] /\ reprocess'[r] = reprocess[r]

\* A row is left alone, or it waits, has failed or is gone.
Parked == \A r \in Rows : Same(r) \/ status'[r] \in {"pending", "failed", "gone"}

\* An UPDATE to pending or failed parks its row, whether it matches or not.
LEMMA UpdateParks ==
  ASSUME RowType, NEW r \in Rows, NEW hit \in BOOLEAN, NEW s \in {"pending", "failed"},
         NEW dr, NEW dp, NEW u, Update(hit, r, s, dr, dp, u)
  PROVE  Parked
  BY DEF Parked, Same, Update, RowType

\* No row is written at all.
LEMMA FrameParks == UNCHANGED row => Parked
  BY DEF Parked, Same

\* The submission of a copy parks the rows.
LEMMA SubmitParks ==
  ASSUME TypeInv,
         \/ \E r \in Rows : SubmitNew(r) \/ SubmitNewLost(r) \/ SubmitAgain(r) \/ DeliverDelayed(r)
         \/ SubmitIfActive
         \/ \E k \in Carriers : \/ SubmitToPool(k) \/ SubmitToPoolError(k) \/ SubmitToPoolLost(k)
                                \/ Enqueue(k) \/ EnqueueFull(k) \/ EnqueueRejected(k)
         \/ MarkRequeueFailed
  PROVE  Parked
<1>1. ASSUME NEW r \in Rows, SubmitNew(r) \/ SubmitNewLost(r) PROVE Parked
  <2>1. PICK u \in Marks : Update(TRUE, r, "pending", 0, 0, u)
    BY <1>1 DEF SubmitNew, SubmitNewLost
  <2>2. QED
    BY <2>1, MarksType, UpdateParks DEF TypeInv
<1>2. ASSUME NEW r \in Rows, SubmitAgain(r) \/ DeliverDelayed(r) PROVE Parked
  BY <1>2, FrameParks DEF SubmitAgain, DeliverDelayed
<1>3. CASE SubmitIfActive
  BY <1>3, FrameParks DEF SubmitIfActive
<1>4. ASSUME NEW k \in Carriers, SubmitToPool(k) \/ SubmitToPoolLost(k) PROVE Parked
  <2>1. PICK q \in Rows : q = carrier[k].row
    BY <1>4 DEF SubmitToPool, SubmitToPoolLost, TypeInv, CarrierType
  <2>2. PICK hit \in BOOLEAN, n \in Nat, u \in BOOLEAN : Update(hit, q, "pending", n, 0, u)
    <3>1. CASE SubmitToPool(k)
      BY <2>1, <3>1 DEF SubmitToPool, TypeInv, RowType
    <3>2. CASE SubmitToPoolLost(k)
      <4>1. \E n \in {0, 1} : Update(TRUE, q, "pending", n, 0, urgent[q])
        BY <2>1, <3>2 DEF SubmitToPoolLost
      <4>2. urgent[q] \in BOOLEAN
        BY DEF TypeInv, RowType
      <4>3. QED
        BY <4>1, <4>2
    <3>3. QED
      BY <1>4, <3>1, <3>2
  <2>3. QED
    BY <2>2, UpdateParks DEF TypeInv
<1>5. ASSUME NEW k \in Carriers,
             \/ SubmitToPoolError(k) \/ Enqueue(k) \/ EnqueueFull(k) \/ EnqueueRejected(k)
      PROVE  Parked
  BY <1>5, FrameParks DEF SubmitToPoolError, Enqueue, EnqueueFull, EnqueueRejected
<1>6. CASE MarkRequeueFailed
  <2>1. PICK q \in Rows : q = carrier["errq"].row
    BY <1>6 DEF MarkRequeueFailed, TypeInv, CarrierType, Carriers
  <2>2. PICK hit \in BOOLEAN, u \in BOOLEAN : Update(hit, q, "failed", 0, 0, u)
    BY <1>6, <2>1 DEF MarkRequeueFailed, SetStatus, TypeInv, RowType
  <2>3. QED
    BY <2>2, UpdateParks DEF TypeInv
<1>7. QED
  BY <1>1, <1>2, <1>3, <1>4, <1>5, <1>6

\* So do the governance queues, their lost resets and the drain ...
LEMMA QueuesPark ==
  ASSUME TypeInv,
         \/ \E r \in Rows : ErrorSelect(r) \/ RepeatSelect(r) \/ RecoverVisit(r)
         \/ ErrorReset \/ RepeatReset \/ RecoverReset \/ RecoverSelectError
         \/ \E k \in Carriers : ResetError(k) \/ ResetLost(k)
         \/ DrainSwap \/ DrainPaused \/ DrainOpen \/ DrainNext \/ DrainRereadError
  PROVE  Parked
<1>1. ASSUME NEW r \in Rows, ErrorSelect(r) \/ RepeatSelect(r) \/ RecoverVisit(r)
      PROVE  Parked
  BY <1>1, FrameParks DEF ErrorSelect, RepeatSelect, RecoverVisit
<1>2. CASE ErrorReset
  <2>1. PICK q \in Rows : q = carrier["errq"].row
    BY <1>2 DEF ErrorReset, TypeInv, CarrierType, Carriers
  <2>2. PICK hit \in BOOLEAN, u \in BOOLEAN : Update(hit, q, "pending", 0, 1, u)
    BY <1>2, <2>1 DEF ErrorReset, TypeInv, RowType
  <2>3. QED
    BY <2>2, UpdateParks DEF TypeInv
<1>3. CASE RepeatReset
  <2>1. PICK q \in Rows : q = carrier["repq"].row
    BY <1>3 DEF RepeatReset, TypeInv, CarrierType, Carriers
  <2>2. PICK hit \in BOOLEAN, u \in BOOLEAN : Update(hit, q, "pending", 0, 0, u)
    BY <1>3, <2>1 DEF RepeatReset, SetStatus, TypeInv, RowType
  <2>3. QED
    BY <2>2, UpdateParks DEF TypeInv
<1>4. CASE RecoverReset
  <2>1. PICK q \in Rows : q = carrier["recq"].row
    BY <1>4 DEF RecoverReset, TypeInv, CarrierType, Carriers
  <2>2. PICK hit \in BOOLEAN, u \in BOOLEAN : Update(hit, q, "pending", 0, 0, u)
    <3>1. SetStatus(status[q] \in {"pending", "processing"}, q, "pending")
      BY <1>4, <2>1 DEF RecoverReset
    <3>2. (status[q] \in {"pending", "processing"}) \in BOOLEAN
      OBVIOUS
    <3>3. PICK hit \in BOOLEAN : SetStatus(hit, q, "pending")
      BY <3>1, <3>2, Zenon
    <3>4. urgent[q] \in BOOLEAN
      BY DEF TypeInv, RowType
    <3>5. QED
      BY <3>3, <3>4 DEF SetStatus
  <2>3. QED
    BY <2>2, UpdateParks DEF TypeInv
<1>5. CASE DrainSwap \/ DrainPaused \/ DrainOpen \/ DrainNext \/ DrainRereadError \/ RecoverSelectError
  BY <1>5, FrameParks DEF DrainSwap, DrainPaused, DrainOpen, DrainNext, DrainRereadError,
                          RecoverSelectError
<1>6. ASSUME NEW k \in Carriers, ResetError(k) PROVE Parked
  BY <1>6, FrameParks DEF ResetError
<1>7. ASSUME NEW k \in Carriers, ResetLost(k) PROVE Parked
  BY <1>7, ResetLostWrites, UpdateParks DEF TypeInv
<1>8. QED
  BY <1>1, <1>2, <1>3, <1>4, <1>5, <1>6, <1>7

\* ... and the operators, but for the one who sets a polling interval.
LEMMA AdminParks ==
  ASSUME TypeInv,
         \/ \E r \in Rows : RetryLoad(r) \/ UrgentLoad(r) \/ MarkTaskFailed(r) \/ DeleteTask(r)
         \/ RetryReset \/ UrgentReset \/ Pause \/ Resume \/ Reap
  PROVE  Parked
<1>1. ASSUME NEW r \in Rows, RetryLoad(r) \/ UrgentLoad(r) PROVE Parked
  BY <1>1, FrameParks DEF RetryLoad, UrgentLoad
<1>2. ASSUME NEW r \in Rows, MarkTaskFailed(r) PROVE Parked
  BY <1>2, UpdateParks DEF MarkTaskFailed, SetStatus, TypeInv
<1>3. ASSUME NEW r \in Rows, DeleteTask(r) PROVE Parked
  BY <1>3 DEF DeleteTask, Parked, Same, TypeInv, RowType
<1>4. CASE RetryReset
  <2>1. PICK q \in Rows : q = carrier["retry"].row
    BY <1>4 DEF RetryReset, TypeInv, CarrierType, Carriers
  <2>2. PICK hit \in BOOLEAN, u \in BOOLEAN : Update(hit, q, "pending", 0, 1, u)
    BY <1>4, <2>1 DEF RetryReset, TypeInv, RowType
  <2>3. QED
    BY <2>2, UpdateParks DEF TypeInv
<1>5. CASE UrgentReset
  <2>1. PICK q \in Rows : q = carrier["urgent"].row
    BY <1>5 DEF UrgentReset, TypeInv, CarrierType, Carriers
  <2>2. PICK hit \in BOOLEAN : Update(hit, q, "pending", 0, 0, TRUE)
    BY <1>5, <2>1 DEF UrgentReset
  <2>3. QED
    BY <2>2, UpdateParks DEF TypeInv
<1>6. CASE Pause \/ Resume \/ Reap
  BY <1>6, FrameParks DEF Pause, Resume, Reap
<1>7. QED
  BY <1>1, <1>2, <1>3, <1>4, <1>5, <1>6

\* Together: whatever is not a worker, the process or SetTaskRepeatInterval.
LEMMA CarriersPark ==
  ASSUME TypeInv, CarrierStep \/ CarrierFault \/ Trigger
  PROVE  Parked \/ \E r \in Rows : SetTaskRepeatInterval(r)
<1>1. CASE CarrierStep
  BY <1>1, SubmitParks, QueuesPark, AdminParks DEF CarrierStep
<1>2. CASE CarrierFault
  BY <1>2, SubmitParks, QueuesPark DEF CarrierFault
<1>3. CASE Trigger
  BY <1>3, SubmitParks, QueuesPark, AdminParks DEF Trigger
<1>4. QED
  BY <1>1, <1>2, <1>3

\* Reap: a worker may be away afterwards, and is what it was otherwise.
Alike(w) ==
  /\ worker'[w].pc = worker[w].pc /\ worker'[w].row = worker[w].row
  /\ worker'[w].rep = worker[w].rep /\ worker'[w].rpr = worker[w].rpr
  /\ worker'[w].doubt = worker[w].doubt

LEMMA ReapAlike ==
  ASSUME TypeInv, Reap
  PROVE  \A w \in Workers : Alike(w)
  BY DEF Reap, Alike, TypeInv, WorkerType, WorkerState

\* None of them moves a worker, Engine.unsettled or Engine.Stop, but the reaper.
LEMMA CarriersLeaveWorkers ==
  ASSUME CarrierStep \/ CarrierFault \/ Trigger
  PROVE  /\ UNCHANGED <<unsettled, process>>
         /\ UNCHANGED <<worker, astray>> \/ Reap
<1>1. CASE CarrierStep
  <2>1. ASSUME NEW k \in Carriers, EnqueueRejected(k) PROVE UNCHANGED <<unsettled, process, worker, astray>>
    BY <2>1 DEF EnqueueRejected, GiveUp
  <2>2. QED
    <3>1. CASE SubmitIfActive \/ MarkRequeueFailed \/ DrainSwap \/ DrainPaused \/ DrainOpen \/ DrainNext
      BY <3>1 DEF SubmitIfActive, MarkRequeueFailed, DrainSwap, DrainPaused, DrainOpen, DrainNext
    <3>2. CASE ErrorReset \/ RepeatReset \/ RecoverReset \/ RetryReset \/ UrgentReset
      BY <3>2 DEF ErrorReset, RepeatReset, RecoverReset, RetryReset, UrgentReset
    <3>3. ASSUME NEW k \in Carriers, SubmitToPool(k) \/ Enqueue(k) \/ EnqueueFull(k)
          PROVE  UNCHANGED <<unsettled, process, worker, astray>>
      BY <3>3 DEF SubmitToPool, Enqueue, EnqueueFull
    <3>4. ASSUME NEW r \in Rows, DeliverDelayed(r) \/ RecoverVisit(r)
          PROVE  UNCHANGED <<unsettled, process, worker, astray>>
      BY <3>4 DEF DeliverDelayed, RecoverVisit
    <3>5. QED
      BY <1>1, <2>1, <3>1, <3>2, <3>3, <3>4 DEF CarrierStep
<1>2. CASE CarrierFault
  <2>1. ASSUME NEW k \in Carriers, ResetError(k) PROVE UNCHANGED <<unsettled, process, worker, astray>>
    BY <2>1 DEF ResetError, GiveUp
  <2>2. ASSUME NEW k \in Carriers, ResetLost(k) PROVE UNCHANGED <<unsettled, process, worker, astray>>
    BY <2>2 DEF ResetLost, GiveUp
  <2>3. ASSUME NEW k \in Carriers, SubmitToPoolError(k) \/ SubmitToPoolLost(k)
        PROVE  UNCHANGED <<unsettled, process, worker, astray>>
    BY <2>3 DEF SubmitToPoolError, SubmitToPoolLost
  <2>4. QED
    BY <1>2, <2>1, <2>2, <2>3 DEF CarrierFault, DrainRereadError, RecoverSelectError, GiveUp
<1>3. CASE Trigger
  BY <1>3 DEF Trigger, SubmitNew, SubmitNewLost, SubmitAgain, ErrorSelect, RepeatSelect, RetryLoad,
              UrgentLoad, MarkTaskFailed, DeleteTask, SetTaskRepeatInterval, Pause, Resume, Reap, GiveUp
<1>4. QED
  BY <1>1, <1>2, <1>3

-----------------------------------------------------------------------------
(* The urgent mark                                                           *)

\* A parked row has no say, and one that is left alone keeps its mark.
LEMMA UrgentParked ==
  ASSUME UrgentClearedByClaim, Parked
  PROVE  UrgentClearedByClaim'
  BY DEF UrgentClearedByClaim, Parked, Same

\* The claim clears the mark, and the terminal write finds it cleared.
LEMMA UrgentWorker ==
  ASSUME TypeInv, UrgentClearedByClaim, NEW w \in Workers, WorkerStep(w) \/ WorkerFault(w)
  PROVE  UrgentClearedByClaim'
<1>1. CASE \/ Gate(w) \/ TakeFast(w) \/ TakeMain(w) \/ TakeDrop(w) \/ ClaimError(w)
           \/ ClaimCancelled(w) \/ ReadRound(w) \/ PersistCancelled(w)
           \/ \E out \in Terminal : RunEnds(w, out)
  BY <1>1, FrameParks, UrgentParked
     DEF Gate, TakeFast, TakeMain, TakeDrop, ClaimError, ClaimCancelled, ReadRound,
         PersistCancelled, RunEnds
<1>2. CASE Claim(w) \/ ClaimLost(w)
  <2>1. PICK r \in Rows : r = worker[w].row
    BY <1>2 DEF Claim, ClaimLost, TypeInv, WorkerType
  <2>2. PICK hit \in BOOLEAN : Update(hit, r, "processing", 0, 0, FALSE)
    BY <1>2, <2>1 DEF Claim, ClaimLost
  <2>3. QED
    BY <2>2 DEF Update, UrgentClearedByClaim, TypeInv, RowType
<1>3. CASE ReadCancelled(w) \/ RunCancelled(w)
  <2>1. PICK r \in Rows : r = worker[w].row
    BY <1>3 DEF ReadCancelled, RunCancelled, TypeInv, WorkerType
  <2>2. SetStatus(status[r] = "processing", r, "pending") \/ UNCHANGED row
    BY <1>3, <2>1 DEF ReadCancelled, RunCancelled, GiveBack
  <2>3. QED
    BY <2>2, FrameParks, UpdateParks, UrgentParked DEF SetStatus, TypeInv
<1>4. CASE Persist(w) \/ PersistLost(w)
  <2>1. PICK r \in Rows : r = worker[w].row
    BY <1>4 DEF Persist, PersistLost, TypeInv, WorkerType
  <2>2. SetStatus(Fenced(w), r, worker[w].out)
    BY <1>4, <2>1 DEF Persist, PersistLost
  <2>3. Fenced(w) => status[r] = "processing"
    BY <2>1 DEF Fenced
  <2>4. QED
    BY <2>2, <2>3 DEF SetStatus, Update, UrgentClearedByClaim, TypeInv, RowType
<1>5. QED
  BY <1>1, <1>2, <1>3, <1>4 DEF WorkerStep, WorkerFault

\* "Urgent" is a place in the queue and nothing else: claimTask takes the mark
\* off in the statement that claims, and neither UrgentTask nor any queue puts
\* it on a row that is being executed or has succeeded.
THEOREM UrgentIsClearedByClaim == Spec => []UrgentClearedByClaim
<1>1. Init => UrgentClearedByClaim
  BY DEF Init, UrgentClearedByClaim
<1>2. TypeInv /\ UrgentClearedByClaim /\ [Next]_vars => UrgentClearedByClaim'
  <2> SUFFICES ASSUME TypeInv, UrgentClearedByClaim, [Next]_vars
               PROVE  UrgentClearedByClaim'
    OBVIOUS
  <2>1. ASSUME NEW w \in Workers, WorkerStep(w) \/ WorkerFault(w)
        PROVE  UrgentClearedByClaim'
    BY <2>1, UrgentWorker
  <2>2. CASE CarrierStep \/ CarrierFault \/ Trigger
    <3>1. ASSUME NEW r \in Rows, SetTaskRepeatInterval(r) PROVE UrgentClearedByClaim'
      BY <3>1 DEF SetTaskRepeatInterval, SetStatus, Update, UrgentClearedByClaim, TypeInv, RowType
    <3>2. QED
      BY <2>2, <3>1, CarriersPark, UrgentParked
  <2>3. CASE Stop \/ Count \/ Return \/ Restart \/ UNCHANGED vars
    BY <2>3 DEF Stop, Count, Return, Restart, vars, UrgentClearedByClaim
  <2>4. QED
    BY <2>1, <2>2, <2>3 DEF Next
<1>3. QED
  BY <1>1, <1>2, TypeInit, TypeNext, PTL DEF Spec

-----------------------------------------------------------------------------
(* Rows in processing                                                        *)

\* SetTaskRepeatInterval refreshes updated_at of a row in any status.  A row the
\* last process left in processing would look like one of this process.
NoOrphanRefreshed == "interval" \notin Ops \/ MaxRestarts = 0

\* The worker w answers for row r: its claim may have committed, or did, and then
\* it is about to read the round, or is in the round the row is in.
Answers(w, r) ==
  /\ worker[w].row = r
  /\ \/ worker[w].pc = "claim" /\ worker[w].doubt
     \/ worker[w].pc = "read"
     \/ worker[w].pc \in {"run", "persist"} /\ Fenced(w)

Accounted(r) == r \in unsettled \/ \E w \in Workers : Answers(w, r)

(* The inductive invariant.  A worker at its terminal write may be behind: a   *)
(* stale one would leave without a trace.  What makes ProcessingAccounted      *)
(* inductive is that some worker that answers for the row is not stale.        *)
AccInv ==
  /\ \A r \in Rows : status[r] = "processing" /\ fresh[r] => Accounted(r)
  /\ MaxRestarts = 0 => \A r \in Rows : status[r] = "processing" => fresh[r]

(* Once the rest is counted and there is none, only workers of a reaped pool   *)
(* are left, and what they add to it are rows that went astray with the pool.  *)
DrainInv ==
  /\ \A w \in Workers : worker[w].away =>
        worker[w].row \in astray /\ worker[w].pc \notin {"gate", "ready"}
  /\ phase \in {"counted", "returned"} /\ drained =>
        unsettled \subseteq astray /\ \A w \in Workers : AtRest(w)

\* The carriers park rows, and nobody has to answer for a parked row.
LEMMA AccParked ==
  ASSUME TypeInv, AccInv, Parked, \A w \in Workers : Alike(w), unsettled' = unsettled
  PROVE  AccInv'
<1>1. \A r \in Rows : status'[r] = "processing" => Same(r)
  BY DEF Parked
<1>2. \A w \in Workers, r \in Rows : Same(r) /\ Answers(w, r) => Answers(w, r)'
  BY DEF Answers, Fenced, Same, Alike
<1>3. QED
  BY <1>1, <1>2 DEF AccInv, Accounted, Same

\* A worker moves and writes at most its own row, which is accounted for again.
LEMMA AccWorker ==
  ASSUME TypeInv, AccInv, NEW w \in Workers, NEW r \in Rows,
         \A v \in Workers : v # w => worker'[v] = worker[v],
         \A q \in Rows : q # r => Same(q) /\ ~Answers(w, q) /\ (q \in unsettled => q \in unsettled'),
         status'[r] = "processing" => Same(r) \/ fresh'[r],
         status'[r] = "processing" /\ fresh'[r] => Accounted(r)'
  PROVE  AccInv'
<1>1. ASSUME NEW q \in Rows, q # r, Accounted(q) PROVE Accounted(q)'
  <2>1. \A v \in Workers : Answers(v, q) => Answers(v, q)'
    BY <1>1 DEF Answers, Fenced, Same
  <2>2. QED
    BY <1>1, <2>1 DEF Accounted
<1>2. \A q \in Rows : status'[q] = "processing" /\ fresh'[q] => Accounted(q)'
  BY <1>1 DEF AccInv, Same
<1>3. MaxRestarts = 0 => \A q \in Rows : status'[q] = "processing" => fresh'[q]
  BY DEF AccInv, Same
<1>4. QED
  BY <1>2, <1>3 DEF AccInv

\* What answered for a row still does, when its columns stay.
LEMMA StaysAccounted ==
  ASSUME NEW w \in Workers, NEW r \in Rows, Same(r), Accounted(r),
         \A v \in Workers : v # w => worker'[v] = worker[v],
         r \in unsettled => r \in unsettled',
         Answers(w, r) => Accounted(r)'
  PROVE  Accounted(r)'
<1>1. \A v \in Workers : v # w /\ Answers(v, r) => Answers(v, r)'
  BY DEF Answers, Fenced, Same
<1>2. QED
  BY <1>1 DEF Accounted

\* Workers that take a copy or give it up hold no row.
LEMMA AccTake ==
  ASSUME TypeInv, AccInv, NEW w \in Workers,
         Gate(w) \/ TakeFast(w) \/ TakeMain(w) \/ TakeDrop(w)
  PROVE  AccInv'
<1>1. UNCHANGED row /\ unsettled' = unsettled
  BY DEF Gate, TakeFast, TakeMain, TakeDrop
<1>2. \A v \in Workers : v # w => worker'[v] = worker[v]
  BY DEF Gate, TakeFast, TakeMain, TakeDrop, Grab, Move, TypeInv, WorkerType
<1>3. \A r \in Rows : ~Answers(w, r)
  BY DEF Gate, TakeFast, TakeMain, TakeDrop, Answers
<1>4. \A r \in Rows : Same(r)
  BY <1>1 DEF Same
<1>5. \A r \in Rows : Accounted(r) => Accounted(r)'
  BY <1>1, <1>2, <1>3, <1>4, StaysAccounted
<1>6. QED
  BY <1>4, <1>5 DEF AccInv, Same

\* A worker that writes no row and moves on with its copy, or remembers the row.
LEMMA AccMove ==
  ASSUME TypeInv, AccInv, NEW w \in Workers,
         \/ ClaimError(w) \/ ClaimCancelled(w) \/ PersistCancelled(w) \/ ReadRound(w)
         \/ \E out \in Terminal : RunEnds(w, out)
  PROVE  AccInv'
<1>1. PICK r \in Rows : r = worker[w].row
  BY DEF ClaimError, ClaimCancelled, PersistCancelled, ReadRound, RunEnds, TypeInv, WorkerType
<1>2. UNCHANGED row /\ unsettled \subseteq unsettled'
  BY DEF ClaimError, ClaimCancelled, PersistCancelled, ReadRound, RunEnds
<1>3. \A v \in Workers : v # w => worker'[v] = worker[v]
  BY DEF ClaimError, ClaimCancelled, PersistCancelled, ReadRound, RunEnds, Leave,
         TypeInv, WorkerType
<1>4. \A q \in Rows : Same(q) /\ (q # r => ~Answers(w, q))
  BY <1>1, <1>2 DEF Same, Answers
<1>5. status[r] = "processing" /\ Answers(w, r) => Accounted(r)'
  <2>1. CASE ClaimError(w)
    BY <1>1, <2>1 DEF ClaimError, Accounted, Answers, TypeInv, WorkerType, WorkerState
  <2>2. CASE ClaimCancelled(w) \/ PersistCancelled(w)
    BY <1>1, <2>2 DEF ClaimCancelled, PersistCancelled, Accounted
  <2>3. CASE ReadRound(w)
    BY <1>1, <2>3 DEF ReadRound, Accounted, Answers, Fenced, TypeInv, WorkerType, WorkerState
  <2>4. CASE \E out \in Terminal : RunEnds(w, out)
    <3>1. /\ worker'[w].row = r /\ worker'[w].pc = "persist"
          /\ worker'[w].rep = worker[w].rep /\ worker'[w].rpr = worker[w].rpr
      <4>1. PICK out : worker' = [worker EXCEPT ![w].pc = "persist", ![w].out = out]
        BY <2>4 DEF RunEnds
      <4>2. worker \in [Workers -> WorkerState]
        BY DEF TypeInv, WorkerType
      <4>3. QED
        BY <1>1, <4>1, <4>2 DEF WorkerState
    <3>2. worker[w].pc = "run"
      BY <2>4 DEF RunEnds
    <3>3. Fenced(w) => Fenced(w)'
      BY <1>1, <1>2, <3>1 DEF Fenced
    <3>4. QED
      BY <3>1, <3>2, <3>3 DEF Accounted, Answers
  <2>5. QED
    BY <2>1, <2>2, <2>3, <2>4
<1>6. status'[r] = "processing" /\ fresh'[r] => Accounted(r)'
  BY <1>2, <1>3, <1>4, <1>5, StaysAccounted DEF AccInv, Same
<1>7. QED
  BY <1>2, <1>3, <1>4, <1>6, AccWorker

\* A claim: the worker answers for the row it got, or leaves another's row to
\* whoever has it; one whose earlier attempt may have committed is remembered.
LEMMA AccClaim ==
  ASSUME TypeInv, AccInv, NEW w \in Workers, Claim(w) \/ ClaimLost(w)
  PROVE  AccInv'
<1>1. PICK r \in Rows : r = worker[w].row
  BY DEF Claim, ClaimLost, TypeInv, WorkerType
<1>2. PICK hit \in BOOLEAN : Update(hit, r, "processing", 0, 0, FALSE) /\ hit = (status[r] = "pending")
  BY <1>1 DEF Claim, ClaimLost
<1>3. \A v \in Workers : v # w => worker'[v] = worker[v]
  BY DEF Claim, ClaimLost, Leave, Move, TypeInv, WorkerType
<1>4. \A q \in Rows : q # r => Same(q) /\ ~Answers(w, q) /\ (q \in unsettled => q \in unsettled')
  BY <1>1, <1>2 DEF Claim, ClaimLost, Same, Answers, Update, TypeInv, RowType
<1>5. hit => fresh'[r] /\ Answers(w, r)'
  <2>1. ASSUME hit
        PROVE  worker'[w].row = r /\ (worker'[w].pc = "read" \/ (worker'[w].pc = "claim" /\ worker'[w].doubt))
    <3>1. worker \in [Workers -> WorkerState] /\ worker[w].pc = "claim"
      BY DEF Claim, ClaimLost, TypeInv, WorkerType
    <3>2. worker' = [worker EXCEPT ![w].pc = "read"] \/ worker' = [worker EXCEPT ![w].doubt = TRUE]
      BY <1>1, <1>2, <2>1 DEF Claim, ClaimLost, Move
    <3>3. CASE worker' = [worker EXCEPT ![w].pc = "read"]
      <4>1. worker'[w].row = worker[w].row /\ worker'[w].pc = "read"
        BY <3>1, <3>3 DEF WorkerState
      <4>2. QED
        BY <1>1, <4>1
    <3>4. CASE worker' = [worker EXCEPT ![w].doubt = TRUE]
      <4>1. worker'[w].row = worker[w].row /\ worker'[w].pc = "claim" /\ worker'[w].doubt
        BY <3>1, <3>4 DEF WorkerState
      <4>2. QED
        BY <1>1, <4>1
    <3>5. QED
      BY <3>2, <3>3, <3>4
  <2>2. hit => fresh'[r]
    BY <1>2 DEF Update, TypeInv, RowType
  <2>3. QED
    BY <2>1, <2>2 DEF Answers
<1>6. ~hit => Same(r) /\ (r \in unsettled => r \in unsettled') /\ (Answers(w, r) => r \in unsettled')
  BY <1>1, <1>2 DEF Claim, ClaimLost, Same, Answers, Update
<1>7. status'[r] = "processing" /\ fresh'[r] => Accounted(r)'
  <2>1. CASE hit
    BY <1>5, <2>1 DEF Accounted
  <2>2. CASE ~hit
    BY <1>3, <1>6, <2>2, StaysAccounted DEF Accounted, AccInv, Same
  <2>3. QED
    BY <2>1, <2>2
<1>8. QED
  BY <1>3, <1>4, <1>5, <1>6, <1>7, AccWorker

\* The end of an execution: the row is released, ended or remembered, and a
\* worker that is behind leaves the row to the one that answers for it.
LEMMA AccEnd ==
  ASSUME TypeInv, AccInv, NEW w \in Workers,
         ReadCancelled(w) \/ RunCancelled(w) \/ Persist(w) \/ PersistLost(w)
  PROVE  AccInv'
<1>1. PICK r \in Rows : r = worker[w].row
  BY DEF ReadCancelled, RunCancelled, Persist, PersistLost, TypeInv, WorkerType
<1>2. \A v \in Workers : v # w => worker'[v] = worker[v]
  BY DEF ReadCancelled, RunCancelled, GiveBack, Persist, PersistLost, Leave, TypeInv, WorkerType
<1>3. PICK hit \in BOOLEAN, s \in {"pending"} \cup Terminal : SetStatus(hit, r, s) /\ (hit => s # "processing")
  <2>1. CASE ReadCancelled(w) \/ RunCancelled(w)
    <3>1. SetStatus(status[r] = "processing", r, "pending") \/ UNCHANGED row
      BY <1>1, <2>1 DEF ReadCancelled, RunCancelled, GiveBack
    <3>2. UNCHANGED row => SetStatus(FALSE, r, "pending")
      BY DEF SetStatus, Update
    <3>3. \E hit \in BOOLEAN : SetStatus(hit, r, "pending")
      BY <3>1, <3>2, Zenon
    <3>4. QED
      BY <3>3
  <2>2. CASE Persist(w) \/ PersistLost(w)
    <3>1. SetStatus(Fenced(w), r, worker[w].out) /\ worker[w].out \in Terminal
      BY <1>1, <2>2 DEF Persist, PersistLost, TypeInv, WorkerType
    <3>2. Fenced(w) \in BOOLEAN /\ worker[w].out # "processing"
      BY <3>1 DEF Fenced, Terminal
    <3>3. PICK hit \in BOOLEAN : hit = Fenced(w)
      BY <3>2, Zenon
    <3>4. SetStatus(hit, r, worker[w].out)
      BY <3>1, <3>3, Zenon
    <3>5. PICK s \in {"pending"} \cup Terminal : s = worker[w].out
      BY <3>1
    <3>6. QED
      BY <3>2, <3>4, <3>5
  <2>3. QED
    BY <2>1, <2>2
<1>4. \A q \in Rows : q # r => Same(q) /\ ~Answers(w, q) /\ (q \in unsettled => q \in unsettled')
  BY <1>1, <1>3 DEF ReadCancelled, RunCancelled, GiveBack, Persist, PersistLost,
                    SetStatus, Same, Answers, Update, TypeInv, RowType
<1>5. status'[r] = "processing" => Same(r)
  BY <1>3 DEF SetStatus, Same, Update, TypeInv, RowType
<1>6. status'[r] = "processing" => (r \in unsettled => r \in unsettled') /\ (Answers(w, r) => r \in unsettled')
  <2>1. CASE ReadCancelled(w)
    BY <1>1, <2>1 DEF ReadCancelled
  <2>2. CASE RunCancelled(w)
    BY <1>1, <2>2 DEF RunCancelled, GiveBack, SetStatus, Update, TypeInv, RowType
  <2>3. CASE Persist(w) \/ PersistLost(w)
    <3>1. status'[r] = "processing" => ~Fenced(w)
      BY <1>1, <2>3 DEF Persist, PersistLost, SetStatus, Update, Terminal, TypeInv, RowType, WorkerType
    <3>2. Confirmed(w) => status[r] # "processing"
      BY <1>1, <2>3 DEF Confirmed, Persist, PersistLost, Terminal, TypeInv, WorkerType
    <3>3. QED
      BY <1>1, <1>5, <2>3, <3>1, <3>2 DEF Persist, PersistLost, Answers, Same
  <2>4. QED
    BY <2>1, <2>2, <2>3
<1>7. status'[r] = "processing" /\ fresh'[r] => Accounted(r)'
  BY <1>2, <1>5, <1>6, StaysAccounted DEF Accounted, AccInv, Same
<1>8. QED
  BY <1>2, <1>4, <1>5, <1>7, AccWorker

\* Every worker step keeps the account.
LEMMA AccWorkers ==
  ASSUME TypeInv, AccInv, NEW w \in Workers, WorkerStep(w) \/ WorkerFault(w)
  PROVE  AccInv'
  BY AccTake, AccMove, AccClaim, AccEnd DEF WorkerStep, WorkerFault

\* A polling interval set in the first life of the process finds no orphan.
LEMMA AccInterval ==
  ASSUME TypeInv, AccInv, NoOrphanRefreshed, NEW r \in Rows, SetTaskRepeatInterval(r)
  PROVE  AccInv'
<1>1. MaxRestarts = 0
  BY DEF NoOrphanRefreshed, SetTaskRepeatInterval
<1>2. /\ \A q \in Rows : status'[q] = status[q]
      /\ \A q \in Rows : fresh[q] => fresh'[q]
      /\ \A q \in Rows : repeat'[q] = repeat[q] /\ reprocess'[q] = reprocess[q]
  <2>1. /\ status' = [status EXCEPT ![r] = status[r]] /\ fresh' = [fresh EXCEPT ![r] = TRUE]
        /\ repeat' = [repeat EXCEPT ![r] = @ + 0] /\ reprocess' = [reprocess EXCEPT ![r] = @ + 0]
    BY DEF SetTaskRepeatInterval, SetStatus, Update
  <2>2. QED
    BY <2>1 DEF TypeInv, RowType
<1>3. worker' = worker /\ unsettled' = unsettled
  BY DEF SetTaskRepeatInterval
<1>4. \A w \in Workers, q \in Rows : Answers(w, q) => Answers(w, q)'
  BY <1>2, <1>3 DEF Answers, Fenced
<1>5. QED
  BY <1>1, <1>2, <1>3, <1>4 DEF AccInv, Accounted

\* What has been counted stays counted, and a row that is away is known astray.
LEMMA DrainWorkers ==
  ASSUME TypeInv, DrainInv, NEW w \in Workers, phase # "returned",
         WorkerStep(w) \/ WorkerFault(w)
  PROVE  DrainInv'
<1>1. UNCHANGED life
  BY DEF WorkerStep, WorkerFault, Gate, TakeFast, TakeMain, TakeDrop, Claim, ClaimCancelled,
         ReadRound, ReadCancelled, RunEnds, RunCancelled, Persist, PersistCancelled,
         ClaimError, ClaimLost, PersistLost
<1>2. CASE worker[w].pc \in {"gate", "ready"}
  <2>1. Gate(w) \/ TakeFast(w) \/ TakeMain(w) \/ TakeDrop(w)
    BY <1>2 DEF WorkerStep, WorkerFault, Claim, ClaimCancelled,
         ReadRound, ReadCancelled, RunEnds, RunCancelled, Persist, PersistCancelled,
         ClaimError, ClaimLost, PersistLost
  <2>2. phase = "up" \/ UNCHANGED <<worker, unsettled>>
    BY <2>1 DEF Gate, TakeFast, TakeMain, TakeDrop
  <2>3. ~worker[w].away
    BY <1>2 DEF DrainInv
  <2>4. (\A v \in Workers : v # w => worker'[v] = worker[v]) /\ ~worker'[w].away
    <3>1. worker \in [Workers -> WorkerState]
      BY DEF TypeInv, WorkerType
    <3>2. CASE worker' = worker
      BY <2>3, <3>2
    <3>3. CASE Move(w, "ready")
      BY <2>3, <3>1, <3>3 DEF Move, WorkerState
    <3>4. ASSUME NEW r, Grab(w, r)
          PROVE  (\A v \in Workers : v # w => worker'[v] = worker[v]) /\ ~worker'[w].away
      BY <3>1, <3>4 DEF Grab, AtGate
    <3>5. QED
      BY <2>1, <3>2, <3>3, <3>4 DEF Gate, TakeFast, TakeMain, TakeDrop
  <2>5. QED
    BY <1>1, <2>2, <2>4 DEF DrainInv, AtRest
<1>3. CASE worker[w].pc \notin {"gate", "ready"}
  <2>1. /\ \A v \in Workers : v # w => worker'[v] = worker[v]
        /\ \/ worker'[w].away = worker[w].away /\ worker'[w].row = worker[w].row
              /\ worker'[w].pc \notin {"gate", "ready"}
           \/ worker'[w] = AtGate
    <3>0. worker \in [Workers -> WorkerState]
      BY DEF TypeInv, WorkerType
    <3>1. CASE \/ ClaimCancelled(w) \/ ReadCancelled(w) \/ RunCancelled(w)
               \/ Persist(w) \/ PersistCancelled(w)
      BY <3>0, <3>1 DEF ClaimCancelled, ReadCancelled, RunCancelled, GiveBack, Persist,
                        PersistCancelled, Leave
    <3>2. CASE Claim(w) \/ ReadRound(w)
      <4>1. CASE Leave(w)
        BY <3>0, <4>1 DEF Leave
      <4>2. CASE Move(w, "read")
        BY <3>0, <4>2 DEF Move, WorkerState
      <4>3. CASE ReadRound(w) /\ ~Leave(w)
        BY <3>0, <4>3 DEF ReadRound, WorkerState
      <4>4. QED
        BY <3>2, <4>1, <4>2, <4>3 DEF Claim
    <3>3. CASE ClaimError(w) \/ ClaimLost(w) \/ PersistLost(w)
      BY <1>3, <3>0, <3>3 DEF ClaimError, ClaimLost, PersistLost, WorkerState
    <3>4. CASE \E out \in Terminal : RunEnds(w, out)
      <4>1. PICK out : worker' = [worker EXCEPT ![w].pc = "persist", ![w].out = out]
        BY <3>4 DEF RunEnds
      <4>2. QED
        BY <3>0, <4>1 DEF WorkerState
    <3>5. QED
      BY <1>3, <3>1, <3>2, <3>3, <3>4
         DEF WorkerStep, WorkerFault, Gate, TakeFast, TakeMain, TakeDrop
  <2>2. unsettled' \subseteq unsettled \cup {worker[w].row}
    BY DEF WorkerStep, WorkerFault, Gate, TakeFast, TakeMain, TakeDrop, Claim, ClaimCancelled,
         ReadRound, ReadCancelled, RunEnds, RunCancelled, GiveBack, Persist, PersistCancelled,
         ClaimError, ClaimLost, PersistLost
  <2>3. \A v \in Workers : worker'[v].away =>
          worker'[v].row \in astray' /\ worker'[v].pc \notin {"gate", "ready"}
    BY <1>1, <2>1 DEF DrainInv, AtGate
  <2>4. ASSUME phase' \in {"counted", "returned"}, drained'
        PROVE  unsettled' \subseteq astray' /\ \A v \in Workers : AtRest(v)'
    <3>1. unsettled \subseteq astray /\ \A v \in Workers : AtRest(v)
      BY <1>1, <2>4 DEF DrainInv
    <3>2. worker[w].away /\ worker[w].row \in astray
      BY <1>3, <3>1 DEF AtRest, DrainInv
    <3>3. unsettled' \subseteq astray'
      BY <1>1, <2>2, <3>1, <3>2
    <3>4. \A v \in Workers : AtRest(v)'
      <4>1. AtRest(w)'
        <5>1. CASE worker'[w] = AtGate
          BY <5>1 DEF AtRest, AtGate
        <5>2. CASE worker'[w].away = worker[w].away
          BY <3>2, <5>2 DEF AtRest
        <5>3. QED
          BY <2>1, <5>1, <5>2
      <4>2. \A v \in Workers : v # w => AtRest(v)'
        BY <2>1, <3>1 DEF AtRest
      <4>3. QED
        BY <4>1, <4>2
    <3>5. QED
      BY <3>3, <3>4
  <2>5. QED
    BY <2>3, <2>4 DEF DrainInv
<1>4. QED
  BY <1>2, <1>3

\* The reaper is at work before Stop only, and marks as away whom it finds busy.
LEMMA DrainReap ==
  ASSUME TypeInv, DrainInv, Reap
  PROVE  DrainInv'
<1>1. worker \in [Workers -> WorkerState] /\ phase' = "up"
  BY DEF Reap, TypeInv, WorkerType
<1>2. \A w \in Workers :
        /\ worker'[w].pc = worker[w].pc /\ worker'[w].row = worker[w].row
        /\ worker'[w].away => worker[w].pc \notin {"gate", "ready"} /\ worker[w].row \in astray'
  BY <1>1 DEF Reap, WorkerState
<1>3. QED
  BY <1>1, <1>2 DEF DrainInv

\* Together they are inductive.
LEMMA ShutdownAlways ==
  ASSUME NoOrphanRefreshed
  PROVE  Spec => [](TypeInv /\ AccInv /\ DrainInv)
<1>1. Init => AccInv /\ DrainInv
  BY DEF Init, AccInv, DrainInv, AtGate
<1>2. TypeInv /\ AccInv /\ DrainInv /\ [Next]_vars => AccInv' /\ DrainInv'
  <2> SUFFICES ASSUME TypeInv, AccInv, DrainInv, [Next]_vars
               PROVE  AccInv' /\ DrainInv'
    OBVIOUS
  <2>1. ASSUME phase # "returned", NEW w \in Workers, WorkerStep(w) \/ WorkerFault(w)
        PROVE  AccInv' /\ DrainInv'
    BY <2>1, AccWorkers, DrainWorkers
  <2>2. CASE CarrierStep \/ CarrierFault \/ Trigger
    <3>1. /\ UNCHANGED <<unsettled, process>>
          /\ UNCHANGED <<worker, astray>> \/ Reap
      BY <2>2, CarriersLeaveWorkers
    <3>2. \A w \in Workers : Alike(w)
      <4>1. worker' = worker => \A w \in Workers : Alike(w)
        BY DEF Alike
      <4>2. QED
        BY <3>1, <4>1, ReapAlike
    <3>3. AccInv'
      BY <2>2, <3>1, <3>2, CarriersPark, AccParked, AccInterval
    <3>4. DrainInv'
      <4>1. UNCHANGED <<worker, astray>> => DrainInv'
        BY <3>1 DEF DrainInv, AtRest
      <4>2. QED
        BY <3>1, <4>1, DrainReap
    <3>5. QED
      BY <3>3, <3>4
  <2>3. CASE Stop \/ Count \/ Return
    <3>1. AccInv'
      <4>1. UNCHANGED row /\ worker' = worker /\ unsettled' = unsettled
        BY <2>3 DEF Stop, Count, Return
      <4>2. \A w \in Workers : Alike(w)
        BY <4>1 DEF Alike
      <4>3. QED
        BY <4>1, <4>2, FrameParks, AccParked
    <3>2. DrainInv'
      <4>1. CASE Stop
        BY <4>1 DEF Stop, DrainInv
      <4>2. CASE Count
        <5>1. worker' = worker /\ astray' = astray /\ unsettled' = unsettled
          BY <4>2 DEF Count
        <5>2. drained' => unsettled = {} /\ \A w \in Workers : AtRest(w)
          BY <4>2 DEF Count
        <5>3. QED
          BY <5>1, <5>2 DEF DrainInv, AtRest
      <4>3. CASE Return
        BY <4>3 DEF Return, DrainInv, AtRest
      <4>4. QED
        BY <2>3, <4>1, <4>2, <4>3
    <3>3. QED
      BY <3>1, <3>2
  <2>4. CASE Restart
    <3>1. MaxRestarts # 0
      BY <2>4, EngineAssumption DEF Restart, TypeInv, LifeType
    <3>2. QED
      BY <2>4, <3>1 DEF Restart, AccInv, DrainInv, AtGate
  <2>5. CASE UNCHANGED vars
    <3>1. UNCHANGED <<row, worker, unsettled, life>>
      BY <2>5 DEF vars
    <3>2. \A w \in Workers : Alike(w)
      BY <3>1 DEF Alike
    <3>3. QED
      BY <3>1, <3>2, FrameParks, AccParked DEF DrainInv, AtRest
  <2>6. QED
    BY <2>1, <2>2, <2>3, <2>4, <2>5 DEF Next
<1>3. QED
  BY <1>1, <1>2, TypeInit, TypeNext, PTL DEF Spec

\* A row this process has left in processing is never forgotten: whichever
\* statement fails or is cancelled, some worker still answers for it, or
\* markUnsettled has put it on the list that Engine.Stop reads.
THEOREM ProcessingIsAccounted ==
  ASSUME NoOrphanRefreshed
  PROVE  Spec => []ProcessingAccounted
<1>1. AccInv => ProcessingAccounted
  BY DEF AccInv, Accounted, Answers, ProcessingAccounted
<1>2. QED
  BY <1>1, ShutdownAlways, PTL

\* When Engine.Stop returns "drained", no row this process has touched is left
\* in processing, although it counts while workers may still be at work: but for
\* the rows whose worker was in a pool the idle reaper has dropped, which Stop
\* does not see.
THEOREM DrainedIsSettled ==
  ASSUME NoOrphanRefreshed
  PROVE  Spec => []DrainedMeansSettled
<1>1. AccInv /\ DrainInv => DrainedMeansSettled
  BY DEF AccInv, DrainInv, AtRest, Accounted, Answers, DrainedMeansSettled
<1>2. QED
  BY <1>1, ShutdownAlways, PTL

-----------------------------------------------------------------------------
(* No pending row is out of sight: where a copy of a row can be               *)

InLane(q, r)  == \E i \in 1..Len(q) : q[i] = r
InTable(t, r) == \E i \in 1..Len(t) : t[i].row = r
AtClaim(r)    == \E w \in Workers : worker[w].row = r /\ worker[w].pc = "claim"
Carrying      == {"decide", "write", "enqueue", "markfail"}
Carried(r)    == \E k \in Carriers : carrier[k].row = r /\ carrier[k].pc \in Carrying

\* HasCopy, place by place.
LEMMA Sight ==
  ASSUME NEW r
  PROVE  /\ HasCopy(r) <=>
              \/ InLane(queue, r) \/ InLane(fast, r) \/ InTable(spill, r) \/ InTable(draining, r)
              \/ delayed[r] > 0 \/ AtClaim(r) \/ Carried(r)
         /\ HasCopy(r)' <=>
              \/ InLane(queue', r) \/ InLane(fast', r) \/ InTable(spill', r) \/ InTable(draining', r)
              \/ delayed'[r] > 0 \/ AtClaim(r)' \/ Carried(r)'
  BY Zenon DEF HasCopy, InLane, InTable, AtClaim, Carried, Carrying

\* A copy put at the end of a lane is in it, with all that were there.
LEMMA LaneAppend ==
  ASSUME NEW S, NEW q \in Seq(S), NEW x \in S
  PROVE  InLane(Append(q, x), x) /\ \A r : InLane(q, r) => InLane(Append(q, x), r)
<1>1. Len(q) \in Nat /\ Len(Append(q, x)) = Len(q) + 1 /\ Append(q, x)[Len(q) + 1] = x
      /\ \A i \in 1..Len(q) : Append(q, x)[i] = q[i]
  OBVIOUS
<1>2. Len(q) + 1 \in 1..Len(Append(q, x)) /\ \A i \in 1..Len(q) : i \in 1..Len(Append(q, x))
  BY <1>1
<1>3. QED
  BY <1>1, <1>2, Zenon DEF InLane

\* Only the first copy leaves a lane.
LEMMA LaneTail ==
  ASSUME NEW S, NEW q \in Seq(S), q # <<>>
  PROVE  \A r : InLane(q, r) => InLane(Tail(q), r) \/ r = Head(q)
<1>1. Len(q) \in Nat /\ Len(Tail(q)) = Len(q) - 1 /\ Head(q) = q[1]
      /\ \A i \in 1..Len(Tail(q)) : Tail(q)[i] = q[i + 1]
  BY EmptySeq, HeadTailProperties
<1>2. ASSUME NEW r, NEW i \in 1..Len(q), q[i] = r, r # Head(q)
      PROVE  InLane(Tail(q), r)
  <2>1. i - 1 \in 1..Len(Tail(q)) /\ i - 1 + 1 = i
    BY <1>1, <1>2
  <2>2. Tail(q)[i - 1] = r
    BY <1>1, <1>2, <2>1
  <2>3. QED
    BY <2>1, <2>2 DEF InLane
<1>3. QED
  BY <1>2 DEF InLane

\* The same of the tables of spilled copies.
LEMMA TableTail ==
  ASSUME NEW S, NEW t \in Seq(S), t # <<>>
  PROVE  \A r : InTable(t, r) => InTable(Tail(t), r) \/ r = Head(t).row
<1>1. ASSUME NEW r, NEW i \in 1..Len(t), t[i].row = r, r # Head(t).row
      PROVE  InTable(Tail(t), r)
  <2>1. InLane(t, t[i]) /\ t[i] # Head(t)
    BY <1>1 DEF InLane
  <2>2. PICK j \in 1..Len(Tail(t)) : Tail(t)[j] = t[i]
    BY <2>1, LaneTail DEF InLane
  <2>3. QED
    BY <1>1, <2>2 DEF InTable
<1>2. QED
  BY <1>1 DEF InTable

LEMMA TableConcat ==
  ASSUME NEW S, NEW t \in Seq(S), NEW u \in Seq(S)
  PROVE  \A r : InTable(t, r) \/ InTable(u, r) => InTable(t \o u, r)
<1>1. /\ Len(t) \in Nat /\ Len(u) \in Nat /\ Len(t \o u) = Len(t) + Len(u)
      /\ \A i \in 1..Len(t) : (t \o u)[i] = t[i]
  OBVIOUS
<1>2. \A i \in 1..Len(u) : (t \o u)[Len(t) + i] = u[i]
  BY <1>1
<1>3. /\ \A i \in 1..Len(t) : i \in 1..Len(t \o u)
      /\ \A i \in 1..Len(u) : Len(t) + i \in 1..Len(t \o u)
  BY <1>1
<1>4. QED
  BY <1>1, <1>2, <1>3, Zenon DEF InTable

\* spillTask: afterwards a copy of the row is in the table.
LEMMA SpillSees ==
  ASSUME SpillType, NEW c \in Copy
  PROVE  InTable(Spilled(c), c.row) /\ \A r : InTable(spill, r) => InTable(Spilled(c), r)
<1>1. CASE InTable(spill, c.row)
  BY <1>1 DEF Spilled, InTable
<1>2. CASE ~InTable(spill, c.row)
  <2>1. Spilled(c) = Append(spill, c)
    BY <1>2 DEF Spilled, InTable
  <2>2. InLane(Append(spill, c), c) /\ \A d : InLane(spill, d) => InLane(Append(spill, c), d)
    BY LaneAppend DEF SpillType
  <2>3. \A r, t : InTable(t, r) <=> \E d : InLane(t, d) /\ d.row = r
    BY Zenon DEF InTable, InLane
  <2>4. QED
    BY <2>1, <2>2, <2>3, Zenon
<1>3. QED
  BY <1>1, <1>2

\* A carrier that carries nothing may change without a copy getting lost ...
LEMMA OthersCarry ==
  ASSUME NEW k \in Carriers, \A j \in Carriers \ {k} : carrier'[j] = carrier[j]
  PROVE  \A r : Carried(r) => Carried(r)' \/ (carrier[k].pc \in Carrying /\ r = carrier[k].row)
<1> SUFFICES ASSUME NEW r, NEW j \in Carriers, carrier[j].row = r, carrier[j].pc \in Carrying
             PROVE  Carried(r)' \/ (carrier[k].pc \in Carrying /\ r = carrier[k].row)
  BY DEF Carried
<1>1. CASE j = k
  BY <1>1
<1>2. CASE j # k
  BY <1>2 DEF Carried
<1>3. QED
  BY <1>1, <1>2

\* ... and what it carries then is seen.
LEMMA NowCarries ==
  ASSUME NEW k \in Carriers, NEW c, carrier'[k].pc \in Carrying, carrier'[k].row = c
  PROVE  Carried(c)'
  BY DEF Carried

\* Taking up a copy, going on with it and letting go of it concern one carrier.
LEMMA OneCarrier ==
  ASSUME CarrierType, NEW k \in Carriers, NEW pc, NEW c, NEW was,
         Hold(k, pc, c, was) \/ Step(k, pc) \/ Release(k)
  PROVE  \A j \in Carriers \ {k} : carrier'[j] = carrier[j]
<1>1. PICK v : carrier' = [carrier EXCEPT ![k] = v]
  BY DEF Hold, Step, Release
<1>2. QED
  BY <1>1 DEF CarrierType

LEMMA HoldCarries ==
  ASSUME CarrierType, NEW k \in Carriers, NEW pc, NEW c, NEW was, Hold(k, pc, c, was)
  PROVE  carrier'[k].pc = pc /\ carrier'[k].row = c.row
  BY DEF Hold, CarrierType

LEMMA StepCarries ==
  ASSUME CarrierType, NEW k \in Carriers, NEW pc, Step(k, pc)
  PROVE  carrier'[k].pc = pc /\ carrier'[k].row = carrier[k].row
  BY DEF Step, CarrierType, CarrierState

\* Of the copies at the workers, only that of the worker that moves can go.
LEMMA OthersClaim ==
  ASSUME NEW w \in Workers, \A v \in Workers \ {w} : worker'[v] = worker[v]
  PROVE  \A r : AtClaim(r) => AtClaim(r)' \/ (worker[w].pc = "claim" /\ r = worker[w].row)
<1> SUFFICES ASSUME NEW r, NEW v \in Workers, worker[v].row = r, worker[v].pc = "claim"
             PROVE  AtClaim(r)' \/ (worker[w].pc = "claim" /\ r = worker[w].row)
  BY DEF AtClaim
<1>1. CASE v = w
  BY <1>1
<1>2. CASE v # w
  BY <1>2 DEF AtClaim
<1>3. QED
  BY <1>1, <1>2

\* An UPDATE of one row leaves the others alone, and a miss its own row too.
LEMMA OneRow ==
  ASSUME RowType, NEW c \in Rows, NEW hit \in BOOLEAN, NEW s, NEW dr, NEW dp, NEW u,
         Update(hit, c, s, dr, dp, u)
  PROVE  /\ \A r \in Rows \ {c} : Same(r)
         /\ hit => status'[c] = s
         /\ ~hit => Same(c)
<1>1. CASE hit
  BY <1>1 DEF Update, Same, RowType
<1>2. CASE ~hit
  BY <1>2 DEF Update, Same
<1>3. QED
  BY <1>1, <1>2

-----------------------------------------------------------------------------
(* The invariant: the drain is idle only over an empty table, and a pending   *)
(* row has a copy, or the startup pass has yet to reach it, or it was given up *)

IdleDrain == carrier["drain"].pc = "idle" => draining = <<>>

Sighted ==
  phase = "up" =>
    \A r \in Rows : status[r] = "pending" =>
      HasCopy(r) \/ (r \in torecover /\ ~fresh[r]) \/ r \in forsaken

StrandInv ==
  /\ IdleDrain /\ Sighted
  /\ MaxRestarts = 0 => torecover = {}

\* What is enough: the row does not become pending without a copy, and no copy
\* of a row that stays as it is gets lost, but when the row is given up.
KeptIn(r) == HasCopy(r) => HasCopy(r)'
SeenIn(r) == status'[r] = "pending" => HasCopy(r)' \/ (Same(r) /\ KeptIn(r)) \/ r \in forsaken'

LEMMA StaysSighted ==
  ASSUME Sighted, phase' = phase \/ phase' # "up", torecover' = torecover,
         forsaken \subseteq forsaken',
         phase' = "up" => \A r \in Rows : SeenIn(r)
  PROVE  Sighted'
  BY DEF Sighted, SeenIn, KeptIn, Same

\* A carrier's step loses no copy but those in D.
LEMMA CarrierKeeps ==
  ASSUME NEW D, NEW k \in Carriers, \A j \in Carriers \ {k} : carrier'[j] = carrier[j],
         UNCHANGED <<lanes, worker>>,
         carrier[k].pc \in Carrying => carrier[k].row \in D,
         \A r \in Rows \ D : InTable(spill, r) \/ InTable(draining, r) =>
                             InTable(spill', r) \/ InTable(draining', r),
         \A r \in Rows \ D : delayed[r] > 0 => delayed'[r] > 0
  PROVE  \A r \in Rows \ D : KeptIn(r)
<1> SUFFICES ASSUME NEW r \in Rows \ D, HasCopy(r)
             PROVE  HasCopy(r)'
  BY DEF KeptIn
<1>1. Carried(r) => Carried(r)'
  BY OthersCarry
<1>2. AtClaim(r) => AtClaim(r)'
  BY DEF AtClaim
<1>3. QED
  BY <1>1, <1>2, Sight

\* A worker's step loses no copy but those in D.
LEMMA WorkerKeeps ==
  ASSUME NEW D, NEW w \in Workers, \A v \in Workers \ {w} : worker'[v] = worker[v],
         UNCHANGED <<carrier, delayed, spills>>,
         \A r \in Rows \ D : InLane(queue, r) => InLane(queue', r) \/ AtClaim(r)',
         \A r \in Rows \ D : InLane(fast, r) => InLane(fast', r) \/ AtClaim(r)',
         worker[w].pc = "claim" => worker[w].row \in D
  PROVE  \A r \in Rows \ D : KeptIn(r)
<1> SUFFICES ASSUME NEW r \in Rows \ D, HasCopy(r)
             PROVE  HasCopy(r)'
  BY DEF KeptIn
<1>1. AtClaim(r) => AtClaim(r)'
  BY OthersClaim
<1>2. Carried(r) => Carried(r)'
  BY DEF Carried
<1>3. QED
  BY <1>1, <1>2, Sight

\* The drain's table under a carrier's step.
LEMMA DrainStays ==
  ASSUME CarrierType, IdleDrain, draining' = draining, NEW k \in Carriers,
         NEW pc, pc # "idle", NEW c, NEW was,
         Hold(k, pc, c, was) \/ Step(k, pc) \/ Release(k)
  PROVE  IdleDrain'
<1>1. CASE k # "drain"
  <2>1. carrier'["drain"] = carrier["drain"]
    BY <1>1, OneCarrier DEF Carriers
  <2>2. QED
    BY <2>1 DEF IdleDrain
<1>2. CASE k = "drain" /\ Release(k)
  BY <1>2 DEF Release, CarrierType, Idle, IdleDrain
<1>3. CASE k = "drain" /\ ~Release(k)
  BY <1>3, HoldCarries, StepCarries DEF IdleDrain
<1>4. QED
  BY <1>1, <1>2, <1>3

-----------------------------------------------------------------------------
(* The steps of the carriers                                                 *)

\* A carrier that carries nothing takes up the copy c.
LEMMA StrandHold ==
  ASSUME TypeInv, StrandInv, NEW k \in Carriers, carrier[k].pc \notin Carrying,
         NEW pc, pc # "idle", NEW c, c.row \in Rows, NEW was, Hold(k, pc, c, was),
         UNCHANGED <<lanes, spills, worker, torecover, life>>,
         \A r \in Rows \ {c.row} : delayed[r] > 0 => delayed'[r] > 0,
         \A r \in Rows \ {c.row} : Same(r),
         pc \in Carrying \/ (Same(c.row) /\ delayed' = delayed)
  PROVE  StrandInv'
<1>1. CarrierType /\ \A j \in Carriers \ {k} : carrier'[j] = carrier[j]
  BY OneCarrier DEF TypeInv
<1>2. \A r \in Rows \ {c.row} : KeptIn(r)
  <2> DEFINE D == {c.row}
  <2>1. \A r \in Rows \ D : KeptIn(r)
    BY <1>1, CarrierKeeps
  <2>2. QED
    BY <2>1
<1>3. pc \in Carrying => HasCopy(c.row)'
  BY <1>1, HoldCarries, NowCarries, Sight
<1>4. delayed' = delayed => KeptIn(c.row)
  <2>1. delayed' = delayed => \A r \in Rows \ {} : KeptIn(r)
    BY <1>1, CarrierKeeps
  <2>2. QED
    BY <2>1
<1>5. \A r \in Rows : SeenIn(r)
  BY <1>2, <1>3, <1>4 DEF SeenIn
<1>6. Sighted'
  BY <1>5, StaysSighted DEF StrandInv
<1>7. IdleDrain'
  BY <1>1, DrainStays DEF StrandInv
<1>8. QED
  BY <1>6, <1>7 DEF StrandInv

\* A carrier goes on with its row, or drops it and leaves it as it was, or has
\* reset it without learning of it and gives it up.
LEMMA StrandReset ==
  ASSUME TypeInv, StrandInv, NEW k \in Carriers, carrier[k].pc = "reset",
         NEW c \in Rows, c = carrier[k].row, NEW hit \in BOOLEAN,
         NEW s, NEW dr, NEW dp, NEW u, Update(hit, c, s, dr, dp, u),
         NEW pc \in {"write", "enqueue"},
         hit => Step(k, pc) \/ (Release(k) /\ c \in forsaken'), ~hit => Release(k),
         UNCHANGED <<lanes, delayed, spills, worker, torecover, phase>>,
         forsaken \subseteq forsaken'
  PROVE  StrandInv'
<1>1. CarrierType /\ \A j \in Carriers \ {k} : carrier'[j] = carrier[j]
  BY OneCarrier DEF TypeInv
<1>2. \A r \in Rows : KeptIn(r)
  <2>1. \A r \in Rows \ {} : KeptIn(r)
    BY <1>1, CarrierKeeps DEF Carrying
  <2>2. QED
    BY <2>1
<1>3. hit => HasCopy(c)' \/ c \in forsaken'
  <2>1. Step(k, pc) => carrier'[k].pc \in Carrying /\ carrier'[k].row = c
    BY <1>1, StepCarries DEF Carrying
  <2>2. Step(k, pc) => HasCopy(c)'
    BY <2>1, NowCarries, Sight
  <2>3. QED
    BY <2>2
<1>4. (\A r \in Rows \ {c} : Same(r)) /\ (~hit => Same(c))
  BY OneRow DEF TypeInv
<1>5. \A r \in Rows : SeenIn(r)
  BY <1>2, <1>3, <1>4 DEF SeenIn
<1>6. Sighted'
  BY <1>5, StaysSighted DEF StrandInv
<1>7. IdleDrain'
  BY <1>1, DrainStays DEF StrandInv
<1>8. QED
  BY <1>6, <1>7 DEF StrandInv

\* The carriers that take up a row.
LEMMA StrandTaken ==
  ASSUME TypeInv, StrandInv, NEW r \in Rows,
         \/ SubmitNew(r) \/ SubmitAgain(r) \/ DeliverDelayed(r)
         \/ ErrorSelect(r) \/ RepeatSelect(r) \/ RetryLoad(r) \/ UrgentLoad(r)
  PROVE  StrandInv'
<1> DEFINE snap(b, u) == [row |-> r, counted |-> b, urgent |-> u]
<1>0. \A b, u : snap(b, u).row = r
  OBVIOUS
<1>1. CASE SubmitNew(r)
  <2>0. PICK u \in Marks : Update(TRUE, r, "pending", 0, 0, u) /\ Hold("submit", "decide", snap(FALSE, u), 0)
    BY <1>1 DEF SubmitNew
  <2>1. \A q \in Rows \ {r} : Same(q)
    BY <2>0, OneRow DEF TypeInv
  <2>2. Hold("submit", "decide", snap(FALSE, u), 0) /\ carrier["submit"].pc = "idle"
        /\ UNCHANGED <<lanes, delayed, spills, worker, torecover, life>>
    BY <1>1, <2>0 DEF SubmitNew
  <2> HIDE DEF snap
  <2>3. QED
    BY <1>0, <2>1, <2>2, StrandHold DEF Carriers, Carrying
<1>2. CASE SubmitAgain(r)
  <2>0. PICK u \in Marks : Hold("submit", "decide", snap(FALSE, u), 0)
    BY <1>2 DEF SubmitAgain
  <2>1. Hold("submit", "decide", snap(FALSE, u), 0) /\ carrier["submit"].pc = "idle"
        /\ UNCHANGED <<row, lanes, delayed, spills, worker, torecover, life>>
    BY <1>2, <2>0 DEF SubmitAgain
  <2> HIDE DEF snap
  <2>2. QED
    BY <1>0, <2>1, StrandHold DEF Carriers, Carrying, Same
<1>3. CASE ErrorSelect(r)
  <2>1. Hold("errq", "reset", snap(TRUE, urgent[r]), 0) /\ carrier["errq"].pc = "idle"
        /\ UNCHANGED <<row, lanes, delayed, spills, worker, torecover, life>>
    BY <1>3 DEF ErrorSelect, Snapshot
  <2> HIDE DEF snap
  <2>2. QED
    BY <1>0, <2>1, StrandHold DEF Carriers, Carrying, Same
<1>4. CASE RepeatSelect(r)
  <2>1. Hold("repq", "reset", snap(FALSE, urgent[r]), 0) /\ carrier["repq"].pc = "idle"
        /\ UNCHANGED <<row, lanes, delayed, spills, worker, torecover, life>>
    BY <1>4 DEF RepeatSelect, Snapshot
  <2> HIDE DEF snap
  <2>2. QED
    BY <1>0, <2>1, StrandHold DEF Carriers, Carrying, Same
<1>5. CASE RetryLoad(r)
  <2>1. Hold("retry", "reset", snap(TRUE, urgent[r]), reprocess[r]) /\ carrier["retry"].pc = "idle"
        /\ UNCHANGED <<row, lanes, delayed, spills, worker, torecover, life>>
    BY <1>5 DEF RetryLoad, Snapshot
  <2> HIDE DEF snap
  <2>2. QED
    BY <1>0, <2>1, StrandHold DEF Carriers, Carrying, Same
<1>6. CASE UrgentLoad(r)
  <2>1. Hold("urgent", "reset", snap(TRUE, TRUE), 0) /\ carrier["urgent"].pc = "idle"
        /\ UNCHANGED <<row, lanes, delayed, spills, worker, torecover, life>>
    BY <1>6 DEF UrgentLoad, Snapshot
  <2> HIDE DEF snap
  <2>2. QED
    BY <1>0, <2>1, StrandHold DEF Carriers, Carrying, Same
<1>7. CASE DeliverDelayed(r) /\ status[r] = "pending"
  <2>0. PICK u \in Marks : Hold("delay", "write", snap(FALSE, u), 0)
    BY <1>7 DEF DeliverDelayed
  <2>1. Hold("delay", "write", snap(FALSE, u), 0) /\ carrier["delay"].pc = "idle"
        /\ UNCHANGED <<row, lanes, spills, worker, torecover, life>>
    BY <1>7, <2>0 DEF DeliverDelayed
  <2>2. \A q \in Rows \ {r} : delayed[q] > 0 => delayed'[q] > 0
    BY <1>7 DEF DeliverDelayed, TypeInv, LaneType
  <2> HIDE DEF snap
  <2>3. QED
    BY <1>0, <2>1, <2>2, StrandHold DEF Carriers, Carrying, Same
<1>8. CASE DeliverDelayed(r) /\ status[r] # "pending"
  <2>1. /\ \A q \in Rows \ {r} : delayed[q] > 0 => delayed'[q] > 0
        /\ UNCHANGED <<row, lanes, spills, worker, carrier, torecover, life>>
        /\ carrier["delay"].pc = "idle"
    BY <1>8 DEF DeliverDelayed, TypeInv, LaneType
  <2> DEFINE D == {r}
  <2>2. \A q \in Rows \ D : KeptIn(q)
    BY <2>1, CarrierKeeps DEF Carriers, Carrying
  <2>3. \A q \in Rows : SeenIn(q)
    BY <1>8, <2>1, <2>2 DEF SeenIn, Same
  <2>4. Sighted'
    BY <2>1, <2>3, StaysSighted DEF StrandInv
  <2>5. QED
    BY <2>1, <2>4 DEF StrandInv, IdleDrain
<1>9. QED
  BY <1>1, <1>2, <1>3, <1>4, <1>5, <1>6, <1>7, <1>8

\* The carriers that reset a row and submit it.
LEMMA StrandResets ==
  ASSUME TypeInv, StrandInv,
         ErrorReset \/ RepeatReset \/ RecoverReset \/ RetryReset \/ UrgentReset
  PROVE  StrandInv'
<1>0. ASSUME NEW k \in {"errq", "repq", "recq", "retry", "urgent"}, carrier[k].pc = "reset"
      PROVE  k \in Carriers /\ carrier[k].row \in Rows
  BY <1>0 DEF TypeInv, CarrierType, Carriers
<1>1. CASE ErrorReset
  <2>1. PICK c \in Rows : c = carrier["errq"].row
    BY <1>0, <1>1 DEF ErrorReset
  <2>2. PICK hit \in BOOLEAN : hit = (status[c] = "failed")
    OBVIOUS
  <2>3. Update(hit, c, "pending", 0, 1, urgent[c]) /\ IF hit THEN Step("errq", "enqueue") ELSE Release("errq")
    BY <1>1, <2>1, <2>2 DEF ErrorReset
  <2>4. carrier["errq"].pc = "reset" /\ UNCHANGED <<lanes, delayed, spills, worker, torecover, life>>
    BY <1>1 DEF ErrorReset
  <2>5. QED
    BY <1>0, <2>1, <2>3, <2>4, StrandReset
<1>2. CASE RepeatReset
  <2>1. PICK c \in Rows : c = carrier["repq"].row
    BY <1>0, <1>2 DEF RepeatReset
  <2>2. PICK hit \in BOOLEAN :
          hit = (status[c] \in Terminal /\ (RepeatLimit = 0 \/ repeat[c] < RepeatLimit))
    OBVIOUS
  <2>3. /\ Update(hit, c, "pending", 0, 0, urgent[c])
        /\ IF hit THEN Step("repq", "write") ELSE Release("repq")
    BY <1>2, <2>1, <2>2 DEF RepeatReset, SetStatus
  <2>4. carrier["repq"].pc = "reset" /\ UNCHANGED <<lanes, delayed, spills, worker, torecover, life>>
    BY <1>2 DEF RepeatReset
  <2>5. QED
    BY <1>0, <2>1, <2>3, <2>4, StrandReset
<1>3. CASE RecoverReset
  <2>1. PICK c \in Rows : c = carrier["recq"].row
    BY <1>0, <1>3 DEF RecoverReset
  <2>2. PICK hit \in BOOLEAN, pc \in {"write", "enqueue"} :
          hit = (status[c] \in {"pending", "processing"}) /\ pc = Recovered(c)
    <3>1. Recovered(c) \in {"write", "enqueue"} /\ (status[c] \in {"pending", "processing"}) \in BOOLEAN
      BY DEF Recovered
    <3>2. QED
      BY <3>1, Zenon
  <2>3. /\ Update(hit, c, "pending", 0, 0, urgent[c])
        /\ IF hit THEN Step("recq", pc) ELSE Release("recq")
    BY <1>3, <2>1, <2>2 DEF RecoverReset, SetStatus
  <2>4. carrier["recq"].pc = "reset" /\ UNCHANGED <<lanes, delayed, spills, worker, torecover, life>>
    BY <1>3 DEF RecoverReset
  <2>5. QED
    BY <1>0, <2>1, <2>3, <2>4, StrandReset
<1>4. CASE RetryReset
  <2>1. PICK c \in Rows : c = carrier["retry"].row
    BY <1>0, <1>4 DEF RetryReset
  <2>2. PICK hit \in BOOLEAN :
          hit = (status[c] \notin {"gone", "processing"} /\ reprocess[c] = carrier["retry"].was)
    OBVIOUS
  <2>3. /\ Update(hit, c, "pending", 0, 1, urgent[c])
        /\ IF hit THEN Step("retry", "enqueue") ELSE Release("retry")
    BY <1>4, <2>1, <2>2 DEF RetryReset
  <2>4. carrier["retry"].pc = "reset" /\ UNCHANGED <<lanes, delayed, spills, worker, torecover, life>>
    BY <1>4 DEF RetryReset
  <2>5. QED
    BY <1>0, <2>1, <2>3, <2>4, StrandReset
<1>5. CASE UrgentReset
  <2>1. PICK c \in Rows : c = carrier["urgent"].row
    BY <1>0, <1>5 DEF UrgentReset
  <2>2. PICK hit \in BOOLEAN : hit = (status[c] = "pending" /\ ~urgent[c])
    OBVIOUS
  <2>3. /\ Update(hit, c, "pending", 0, 0, TRUE)
        /\ IF hit THEN Step("urgent", "enqueue") ELSE Release("urgent")
    BY <1>5, <2>1, <2>2 DEF UrgentReset
  <2>4. carrier["urgent"].pc = "reset" /\ UNCHANGED <<lanes, delayed, spills, worker, torecover, life>>
    BY <1>5 DEF UrgentReset
  <2>5. QED
    BY <1>0, <2>1, <2>3, <2>4, StrandReset
<1>6. QED
  BY <1>1, <1>2, <1>3, <1>4, <1>5

\* A copy goes to the spill table or the delay heap, or is given up: once its row
\* is not pending any more, or with it.
LEMMA StrandRelease ==
  ASSUME TypeInv, StrandInv, NEW k \in Carriers, carrier[k].pc \in Carrying,
         NEW c \in Rows, c = carrier[k].row, Release(k),
         UNCHANGED <<lanes, draining, worker, torecover, phase>>, forsaken \subseteq forsaken',
         spill' = spill \/ spill' = Spilled(CopyOf(k)),
         \A r \in Rows : delayed[r] > 0 => delayed'[r] > 0,
         \A r \in Rows \ {c} : Same(r),
         \/ spill' = Spilled(CopyOf(k)) \/ delayed'[c] > 0
         \/ status'[c] # "pending" \/ c \in forsaken'
  PROVE  StrandInv'
<1>1. CarrierType /\ \A j \in Carriers \ {k} : carrier'[j] = carrier[j]
  BY OneCarrier DEF TypeInv
<1>2. CopyOf(k) \in Copy /\ CopyOf(k).row = c
  BY DEF CopyOf, Copy, TypeInv, CarrierType, CarrierState
<1>3. /\ \A r : InTable(spill, r) => InTable(spill', r)
      /\ spill' = Spilled(CopyOf(k)) => InTable(spill', c)
  BY <1>2, SpillSees DEF TypeInv
<1>4. \A r \in Rows \ {c} : KeptIn(r)
  <2> DEFINE D == {c}
  <2>1. \A r \in Rows \ D : KeptIn(r)
    BY <1>1, <1>3, CarrierKeeps
  <2>2. QED
    BY <2>1
<1>5. spill' = Spilled(CopyOf(k)) \/ delayed'[c] > 0 => HasCopy(c)'
  BY <1>3, Sight
<1>6. phase' = "up" => \A r \in Rows : SeenIn(r)
  BY <1>4, <1>5 DEF SeenIn
<1>7. Sighted'
  BY <1>6, StaysSighted DEF StrandInv
<1>8. IdleDrain'
  <2>1. carrier[k].pc # "idle" /\ "write" # "idle"
    BY DEF Carrying
  <2>2. QED
    BY <1>1, <2>1, DrainStays DEF StrandInv
<1>9. QED
  BY <1>7, <1>8 DEF StrandInv

\* What submission, submitToPool and submitToStage do with a copy.  The two
\* operators give a pending row up when the pool was just reaped.
LEMMA StrandPool ==
  ASSUME TypeInv, StrandInv, NEW k \in Carriers,
         SubmitToPoolError(k) \/ EnqueueFull(k) \/ EnqueueRejected(k)
  PROVE  StrandInv'
<1>1. PICK c \in Rows : c = carrier[k].row
  BY DEF SubmitToPoolError, EnqueueFull, EnqueueRejected, TypeInv, CarrierType
<1>2. /\ carrier[k].pc \in Carrying /\ \A r \in Rows : Same(r)
      /\ UNCHANGED <<lanes, delayed, draining, worker, torecover, phase>>
      /\ forsaken \subseteq forsaken'
  BY DEF SubmitToPoolError, EnqueueFull, EnqueueRejected, GiveUp, Carrying, Same
<1>3. CASE SubmitToPoolError(k) \/ EnqueueFull(k)
  <2>1. Release(k) /\ spill' = Spilled(CopyOf(k))
    BY <1>3 DEF SubmitToPoolError, EnqueueFull
  <2>2. QED
    BY <1>1, <1>2, <2>1, StrandRelease
<1>4. CASE EnqueueRejected(k) /\ k = "errq"
  <2>1. Step(k, "markfail") /\ UNCHANGED spill
    BY <1>4 DEF EnqueueRejected
  <2>2. CarrierType /\ \A j \in Carriers \ {k} : carrier'[j] = carrier[j]
    BY <2>1, OneCarrier DEF TypeInv
  <2>3. HasCopy(c)'
    <3>1. carrier'[k].pc \in Carrying /\ carrier'[k].row = c
      BY <1>1, <2>1, <2>2, StepCarries DEF Carrying
    <3>2. QED
      BY <3>1, NowCarries, Sight
  <2>4. \A r \in Rows \ {c} : KeptIn(r)
    <3> DEFINE D == {c}
    <3>1. \A r \in Rows \ D : KeptIn(r)
      BY <1>1, <1>2, <2>1, <2>2, CarrierKeeps
    <3>2. QED
      BY <3>1
  <2>5. \A r \in Rows : SeenIn(r)
    BY <1>2, <2>3, <2>4 DEF SeenIn
  <2>6. Sighted'
    BY <1>2, <2>5, StaysSighted DEF StrandInv
  <2>7. IdleDrain'
    BY <1>2, <1>4, <2>1, <2>2, DrainStays DEF StrandInv
  <2>8. QED
    BY <1>2, <2>6, <2>7 DEF StrandInv
<1>5. CASE EnqueueRejected(k) /\ k # "errq"
  <2>1. Release(k)
    BY <1>5 DEF EnqueueRejected
  <2>2. CASE k \in {"retry", "urgent"}
    <3>1. c \in forsaken' /\ spill' = spill
      BY <1>1, <1>5, <2>2 DEF EnqueueRejected, GiveUp
    <3>2. QED
      BY <1>1, <1>2, <2>1, <3>1, StrandRelease
  <2>3. CASE k \notin {"retry", "urgent"}
    <3>1. spill' = Spilled(CopyOf(k))
      BY <1>5, <2>3 DEF EnqueueRejected
    <3>2. QED
      BY <1>1, <1>2, <2>1, <3>1, StrandRelease
  <2>4. QED
    BY <2>2, <2>3
<1>6. QED
  BY <1>3, <1>4, <1>5

\* submitIfActive: a terminal row needs no copy, another gets one.
LEMMA StrandDecide ==
  ASSUME TypeInv, StrandInv, SubmitIfActive
  PROVE  StrandInv'
<1>1. /\ "submit" \in Carriers /\ carrier["submit"].pc = "decide" /\ \A r \in Rows : Same(r)
      /\ UNCHANGED <<lanes, spills, worker, torecover, life>>
  BY DEF SubmitIfActive, Carriers, Same
<1>2. PICK c \in Rows : c = carrier["submit"].row
  BY <1>1 DEF TypeInv, CarrierType
<1>3. CASE Step("submit", "write") /\ UNCHANGED delayed
  <2>1. \A j \in Carriers \ {"submit"} : carrier'[j] = carrier[j]
    BY <1>1, <1>3, OneCarrier DEF TypeInv
  <2>2. HasCopy(c)'
    <3>1. carrier'["submit"].pc \in Carrying /\ carrier'["submit"].row = c
      BY <1>1, <1>2, <1>3, StepCarries DEF Carrying, TypeInv
    <3>2. QED
      BY <1>1, <3>1, NowCarries, Sight
  <2>3. \A r \in Rows \ {c} : KeptIn(r)
    <3> DEFINE D == {c}
    <3>1. \A r \in Rows \ D : KeptIn(r)
      BY <1>1, <1>2, <1>3, <2>1, CarrierKeeps
    <3>2. QED
      BY <3>1
  <2>4. \A r \in Rows : SeenIn(r)
    BY <1>1, <2>2, <2>3 DEF SeenIn
  <2>5. Sighted'
    BY <1>1, <2>4, StaysSighted DEF StrandInv
  <2>6. IdleDrain'
    BY <1>1, <1>3, <2>1, DrainStays DEF StrandInv, TypeInv
  <2>7. QED
    BY <1>1, <2>5, <2>6 DEF StrandInv
<1>4. CASE Release("submit")
  <2>1. \/ status[c] \in Terminal /\ delayed' = delayed
        \/ delayed' = [delayed EXCEPT ![c] = @ + 1]
        \/ Step("submit", "write") /\ UNCHANGED delayed
    BY <1>2 DEF SubmitIfActive
  <2>2. ASSUME ~(Step("submit", "write") /\ UNCHANGED delayed)
        PROVE  /\ \A r \in Rows : delayed[r] > 0 => delayed'[r] > 0
               /\ delayed'[c] > 0 \/ status'[c] # "pending"
    <3>1. CASE status[c] \in Terminal /\ delayed' = delayed
      BY <1>1, <3>1 DEF Terminal, Same
    <3>2. CASE delayed' = [delayed EXCEPT ![c] = @ + 1]
      BY <3>2 DEF TypeInv, LaneType
    <3>3. QED
      BY <2>1, <2>2, <3>1, <3>2
  <2>3. "submit" \in Carriers /\ carrier["submit"].pc \in Carrying
    BY <1>1 DEF Carrying
  <2>4. QED
    BY <1>1, <1>2, <1>3, <1>4, <2>2, <2>3, StrandRelease
<1>5. QED
  BY <1>3, <1>4 DEF SubmitIfActive

\* markRequeueFailed: the copy goes, and its row is not pending any more.
LEMMA StrandMark ==
  ASSUME TypeInv, StrandInv, MarkRequeueFailed
  PROVE  StrandInv'
<1>1. "errq" \in Carriers /\ carrier["errq"].pc = "markfail" /\ Release("errq")
      /\ UNCHANGED <<lanes, delayed, spills, worker, torecover, life>>
  BY DEF MarkRequeueFailed, Carriers
<1>2. PICK c \in Rows : c = carrier["errq"].row
  BY <1>1 DEF TypeInv, CarrierType
<1>3. PICK hit \in BOOLEAN : hit = (status[c] \notin {"absent", "gone", "failed"})
  OBVIOUS
<1>4. Update(hit, c, "failed", 0, 0, urgent[c])
  BY <1>2, <1>3 DEF MarkRequeueFailed, SetStatus
<1>5. (\A r \in Rows \ {c} : Same(r)) /\ status'[c] # "pending"
  <2>1. (\A r \in Rows \ {c} : Same(r)) /\ (hit => status'[c] = "failed") /\ (~hit => Same(c))
    BY <1>4, OneRow DEF TypeInv
  <2>2. ~hit => status'[c] # "pending"
    BY <1>3, <2>1 DEF Same
  <2>3. QED
    BY <2>1, <2>2
<1>6. QED
  BY <1>1, <1>2, <1>5, StrandRelease DEF Carrying

\* submitToPool confirms the row and keeps the copy.
LEMMA StrandWrite ==
  ASSUME TypeInv, StrandInv, NEW k \in Carriers, SubmitToPool(k)
  PROVE  StrandInv'
<1>1. PICK c \in Rows : c = carrier[k].row
  BY DEF SubmitToPool, TypeInv, CarrierType
<1>2. PICK n \in Nat, hit \in BOOLEAN :
        hit = (status[c] = "pending") /\ Update(hit, c, "pending", n, 0, urgent[c])
  <2>1. PICK n \in Nat : Update(status[c] = "pending", c, "pending", n, 0, urgent[c])
    BY <1>1 DEF SubmitToPool
  <2>2. (status[c] = "pending") \in BOOLEAN
    OBVIOUS
  <2>3. QED
    BY <2>1, <2>2, Zenon
<1>3. PICK b : carrier' = [carrier EXCEPT ![k].pc = "enqueue", ![k].counted = b]
  BY DEF SubmitToPool
<1>4. carrier[k].pc = "write" /\ UNCHANGED <<lanes, delayed, spills, worker, torecover, life>>
  BY DEF SubmitToPool
<1>5. /\ \A j \in Carriers \ {k} : carrier'[j] = carrier[j]
      /\ carrier'[k].pc = "enqueue" /\ carrier'[k].row = c
  BY <1>1, <1>3 DEF TypeInv, CarrierType, CarrierState
<1>6. HasCopy(c)'
  BY <1>5, NowCarries, Sight DEF Carrying
<1>7. \A r \in Rows \ {c} : Same(r) /\ KeptIn(r)
  <2> DEFINE D == {c}
  <2>1. \A r \in Rows \ D : KeptIn(r)
    BY <1>1, <1>4, <1>5, CarrierKeeps
  <2>2. QED
    BY <1>2, <2>1, OneRow DEF TypeInv
<1>8. \A r \in Rows : SeenIn(r)
  BY <1>6, <1>7 DEF SeenIn
<1>9. Sighted'
  BY <1>4, <1>8, StaysSighted DEF StrandInv
<1>10. IdleDrain'
  <2>1. carrier'["drain"] = carrier["drain"] \/ carrier'["drain"].pc # "idle"
    BY <1>5 DEF Carriers
  <2>2. QED
    BY <1>4, <1>5, <2>1 DEF StrandInv, IdleDrain
<1>11. QED
  BY <1>4, <1>9, <1>10 DEF StrandInv

\* The count commits and its answer is lost: the copy is spilled all the same.
LEMMA StrandWriteLost ==
  ASSUME TypeInv, StrandInv, NEW k \in Carriers, SubmitToPoolLost(k)
  PROVE  StrandInv'
<1>1. PICK c \in Rows : c = carrier[k].row
  BY DEF SubmitToPoolLost, TypeInv, CarrierType
<1>2. \A r \in Rows \ {c} : Same(r)
  <2>1. PICK n : Update(TRUE, c, "pending", n, 0, urgent[c])
    BY <1>1 DEF SubmitToPoolLost
  <2>2. QED
    BY <2>1, OneRow DEF TypeInv
<1>3. /\ carrier[k].pc \in Carrying /\ Release(k) /\ spill' = Spilled(CopyOf(k))
      /\ UNCHANGED <<lanes, delayed, draining, worker, torecover, phase, forsaken>>
  BY DEF SubmitToPoolLost, Carrying
<1>4. QED
  BY <1>1, <1>2, <1>3, StrandRelease

\* A task whose INSERT was not answered is given up where it begins.
LEMMA StrandNewLost ==
  ASSUME TypeInv, StrandInv, NEW r \in Rows, SubmitNewLost(r)
  PROVE  StrandInv'
<1>1. PICK u \in Marks : Update(TRUE, r, "pending", 0, 0, u)
  BY DEF SubmitNewLost
<1>2. \A q \in Rows \ {r} : Same(q)
  BY <1>1, OneRow DEF TypeInv
<1>3. /\ UNCHANGED <<lanes, delayed, spills, worker, carrier, torecover, phase>>
      /\ forsaken' = forsaken \cup {r}
  BY DEF SubmitNewLost, GiveUp
<1>4. \A q \in Rows : KeptIn(q)
  BY <1>3 DEF KeptIn, HasCopy
<1>5. \A q \in Rows : SeenIn(q)
  BY <1>2, <1>3, <1>4 DEF SeenIn
<1>6. Sighted'
  BY <1>3, <1>5, StaysSighted DEF StrandInv
<1>7. QED
  BY <1>3, <1>6 DEF StrandInv, IdleDrain

\* A reset fails, or is not heard of: no copy is there yet, and the row either
\* stays as it was or is given up.
LEMMA StrandResetFaults ==
  ASSUME TypeInv, StrandInv, NEW k \in Carriers, ResetError(k) \/ ResetLost(k)
  PROVE  StrandInv'
<1>1. PICK c \in Rows : c = carrier[k].row
  BY DEF ResetError, ResetLost, TypeInv, CarrierType
<1>2. /\ Release(k) /\ UNCHANGED <<lanes, delayed, spills, worker, torecover, phase>>
      /\ forsaken \subseteq forsaken'
  BY DEF ResetError, ResetLost, GiveUp
<1>3. CASE ResetError(k) /\ carrier[k].pc = "markfail"
  <2>1. c \in forsaken' /\ \A r \in Rows : Same(r)
    BY <1>1, <1>3 DEF ResetError, GiveUp, Same
  <2>2. carrier[k].pc \in Carrying
    BY <1>3 DEF Carrying
  <2>3. QED
    BY <1>1, <1>2, <2>1, <2>2, StrandRelease
<1>4. CASE ResetError(k) /\ carrier[k].pc # "markfail"
  <2>1. carrier[k].pc = "reset" /\ Update(FALSE, c, "pending", 0, 0, FALSE)
    BY <1>4 DEF ResetError, Update
  <2>2. QED
    BY <1>1, <1>2, <2>1, StrandReset
<1>5. CASE ResetLost(k)
  <2>1. carrier[k].pc = "reset" /\ c \in forsaken'
    BY <1>1, <1>5 DEF ResetLost, GiveUp
  <2>2. PICK n, u : Update(TRUE, c, "pending", 0, n, u)
    BY <1>1, <1>5, ResetLostWrites
  <2>3. QED
    BY <1>1, <1>2, <2>1, <2>2, StrandReset
<1>6. QED
  BY <1>3, <1>4, <1>5 DEF ResetError

\* submitToStage hands the copy to a lane.
LEMMA StrandEnqueue ==
  ASSUME TypeInv, StrandInv, NEW k \in Carriers, Enqueue(k)
  PROVE  StrandInv'
<1>1. PICK c \in Rows : c = carrier[k].row
  BY DEF Enqueue, TypeInv, CarrierType
<1>2. /\ Release(k) /\ carrier[k].pc = "enqueue"
      /\ UNCHANGED <<row, delayed, spills, worker, torecover, life>>
  BY DEF Enqueue
<1>3. \A j \in Carriers \ {k} : carrier'[j] = carrier[j]
  BY <1>2, OneCarrier DEF TypeInv
<1>4. \/ fast' = Append(fast, c) /\ queue' = queue
      \/ queue' = Append(queue, c) /\ fast' = fast
  BY <1>1 DEF Enqueue
<1>5. /\ \A r : InLane(queue, r) => InLane(queue', r)
      /\ \A r : InLane(fast, r) => InLane(fast', r)
      /\ InLane(queue', c) \/ InLane(fast', c)
  <2>1. queue \in Seq(Rows) /\ fast \in Seq(Rows)
    BY DEF TypeInv, LaneType
  <2>2. CASE fast' = Append(fast, c) /\ queue' = queue
    BY <2>1, <2>2, LaneAppend
  <2>3. CASE queue' = Append(queue, c) /\ fast' = fast
    BY <2>1, <2>3, LaneAppend
  <2>4. QED
    BY <1>4, <2>2, <2>3
<1>6. ASSUME NEW r \in Rows
      PROVE  SeenIn(r)
  <2>1. Carried(r) => Carried(r)' \/ r = c
    BY <1>1, <1>3, OthersCarry
  <2>2. AtClaim(r) => AtClaim(r)'
    BY <1>2 DEF AtClaim
  <2>3. HasCopy(r) => HasCopy(r)'
    BY <1>2, <1>5, <2>1, <2>2, Sight
  <2>4. QED
    BY <1>2, <2>3 DEF SeenIn, KeptIn, Same
<1>7. Sighted'
  BY <1>2, <1>6, StaysSighted DEF StrandInv
<1>8. IdleDrain'
  <2>1. "enqueue" # "idle"
    OBVIOUS
  <2>2. QED
    BY <1>2, <1>3, <2>1, DrainStays DEF StrandInv, TypeInv
<1>9. QED
  BY <1>2, <1>7, <1>8 DEF StrandInv

\* The startup pass takes a row off its list: an old pending row gets a copy,
\* and a row this process has written has one already.
LEMMA StrandRecover ==
  ASSUME TypeInv, StrandInv, NEW r \in Rows, RecoverVisit(r)
  PROVE  StrandInv'
<1>1. /\ "recq" \in Carriers /\ carrier["recq"].pc = "idle"
      /\ torecover' = torecover \ {r}
      /\ UNCHANGED <<row, lanes, delayed, spills, worker, life>>
  BY DEF RecoverVisit, Carriers
<1>2. \/ /\ status[r] = "pending" /\ ~fresh[r]
         /\ Hold("recq", Recovered(r), Snapshot(r, FALSE, TRUE), 0)
      \/ /\ status[r] # "pending" \/ fresh[r]
         /\ Hold("recq", "reset", Snapshot(r, FALSE, TRUE), 0) \/ UNCHANGED carrier
  BY DEF RecoverVisit
<1>3. Recovered(r) \in Carrying /\ Recovered(r) # "idle" /\ Snapshot(r, FALSE, TRUE).row = r
  BY DEF Recovered, Carrying, Snapshot
<1>4. CarrierType /\ \A j \in Carriers \ {"recq"} : carrier'[j] = carrier[j]
  BY <1>1, <1>2, OneCarrier DEF TypeInv
<1>5. \A q \in Rows : KeptIn(q)
  <2>1. \A q \in Rows \ {} : KeptIn(q)
    BY <1>1, <1>4, CarrierKeeps DEF Carrying
  <2>2. QED
    BY <2>1
<1>6. status[r] = "pending" /\ ~fresh[r] => HasCopy(r)'
  <2>1. status[r] = "pending" /\ ~fresh[r] => carrier'["recq"].pc \in Carrying /\ carrier'["recq"].row = r
    BY <1>1, <1>2, <1>3, <1>4, HoldCarries
  <2>2. QED
    BY <1>1, <2>1, NowCarries, Sight
<1>7. Sighted'
  BY <1>1, <1>5, <1>6 DEF StrandInv, Sighted, KeptIn
<1>8. IdleDrain'
  <2>1. carrier'["drain"] = carrier["drain"]
    BY <1>4 DEF Carriers
  <2>2. QED
    BY <1>1, <1>4, <2>1 DEF StrandInv, IdleDrain
<1>9. QED
  BY <1>1, <1>7, <1>8 DEF StrandInv

\* The startup pass cannot read on and gives up what it has not reached.
LEMMA StrandSelectError ==
  ASSUME TypeInv, StrandInv, RecoverSelectError
  PROVE  StrandInv'
<1>1. /\ UNCHANGED <<row, lanes, delayed, spills, worker, carrier, phase>>
      /\ torecover' = {} /\ forsaken' = forsaken \cup torecover
  BY DEF RecoverSelectError, GiveUp
<1>2. \A r \in Rows : HasCopy(r) => HasCopy(r)'
  BY <1>1 DEF HasCopy
<1>3. QED
  BY <1>1, <1>2 DEF StrandInv, Sighted, IdleDrain

\* drainSpilled moves the copies between its tables and back into submission,
\* and drops one only when it has read that the row is not pending.
LEMMA StrandDrain ==
  ASSUME TypeInv, StrandInv, DrainSwap \/ DrainPaused \/ DrainOpen \/ DrainNext \/ DrainRereadError
  PROVE  StrandInv'
<1>0. PICK c : c = Head(draining)
  OBVIOUS
<1>1. /\ "drain" \in Carriers /\ carrier["drain"].pc \notin Carrying
      /\ \A r \in Rows : Same(r)
      /\ UNCHANGED <<lanes, delayed, worker, torecover, life>>
  BY DEF DrainSwap, DrainPaused, DrainOpen, DrainNext, DrainRereadError, Carriers, Carrying, Same
<1>2. \A j \in Carriers \ {"drain"} : carrier'[j] = carrier[j]
  <2>1. CASE DrainSwap \/ DrainOpen
    BY <1>1, <2>1, OneCarrier DEF DrainSwap, DrainOpen, TypeInv
  <2>2. CASE DrainPaused \/ DrainRereadError
    BY <2>2 DEF DrainPaused, DrainRereadError, TypeInv, CarrierType
  <2>3. CASE DrainNext
    BY <2>3 DEF DrainNext, Hold, TypeInv, CarrierType
  <2>4. QED
    BY <2>1, <2>2, <2>3
<1>3. ASSUME DrainNext \/ DrainRereadError
      PROVE  /\ draining # <<>> /\ draining \in Seq(Copy) /\ c \in Copy /\ c.row \in Rows
             /\ draining' = Tail(draining)
             /\ \A r : InTable(draining, r) => InTable(draining', r) \/ r = c.row
  <2>1. draining # <<>> /\ draining \in Seq(Copy) /\ draining' = Tail(draining)
    BY <1>3 DEF DrainNext, DrainRereadError, TypeInv, CarrierType, SpillType
  <2>2. c \in Copy /\ c.row \in Rows
    <3>1. c \in Copy
      BY <1>0, <2>1, HeadTailProperties
    <3>2. QED
      BY <3>1 DEF Copy
  <2>3. QED
    BY <1>0, <2>1, <2>2, TableTail
<1>4. \A r \in Rows : SeenIn(r)
  <2>1. CASE DrainSwap \/ DrainPaused \/ DrainOpen
    <3>1. \A r : InTable(spill, r) \/ InTable(draining, r) => InTable(spill', r) \/ InTable(draining', r)
      <4>1. CASE DrainSwap
        <5>1. draining' = spill /\ draining = <<>>
          BY <4>1 DEF DrainSwap, StrandInv, IdleDrain
        <5>2. QED
          BY <5>1 DEF InTable
      <4>2. CASE DrainPaused
        <5>1. spill' = spill \o draining /\ spill \in Seq(Copy) /\ draining \in Seq(Copy)
          BY <4>2 DEF DrainPaused, TypeInv, SpillType
        <5>2. QED
          BY <5>1, TableConcat
      <4>3. CASE DrainOpen
        BY <4>3 DEF DrainOpen
      <4>4. QED
        BY <2>1, <4>1, <4>2, <4>3
    <3>2. \A r \in Rows \ {} : KeptIn(r)
      BY <1>1, <1>2, <3>1, CarrierKeeps
    <3>3. QED
      BY <1>1, <3>2 DEF SeenIn
  <2>2. CASE DrainNext
    <3> DEFINE D == {c.row}
    <3>1. spill' = spill
      BY <2>2 DEF DrainNext
    <3>2. \A r \in Rows \ D : KeptIn(r)
      BY <1>1, <1>2, <1>3, <2>2, <3>1, CarrierKeeps
    <3>3. HasCopy(c.row)' \/ status[c.row] # "pending"
      <4>1. ASSUME status[c.row] = "pending"
            PROVE  HasCopy(c.row)'
        <5>1. Hold("drain", "write", c, 0)
          BY <1>0, <2>2, <4>1 DEF DrainNext
        <5>2. carrier'["drain"].pc \in Carrying /\ carrier'["drain"].row = c.row
          BY <1>1, <5>1, HoldCarries DEF Carrying, TypeInv
        <5>3. QED
          BY <1>1, <5>2, NowCarries, Sight
      <4>2. QED
        BY <4>1
    <3>4. QED
      BY <1>1, <3>2, <3>3 DEF SeenIn, Same
  <2>3. CASE DrainRereadError
    <3>1. spill' = Spilled(c)
      BY <1>0, <2>3 DEF DrainRereadError
    <3>2. InTable(spill', c.row) /\ \A r : InTable(spill, r) => InTable(spill', r)
      BY <1>3, <2>3, <3>1, SpillSees DEF TypeInv
    <3>3. \A r \in Rows \ {} : KeptIn(r)
      BY <1>1, <1>2, <1>3, <2>3, <3>2, CarrierKeeps
    <3>4. QED
      BY <1>1, <3>3 DEF SeenIn
  <2>4. QED
    BY <2>1, <2>2, <2>3
<1>5. Sighted'
  BY <1>1, <1>4, StaysSighted DEF StrandInv
<1>6. IdleDrain'
  <2>1. CASE DrainSwap \/ DrainOpen
    <3>1. carrier'["drain"].pc # "idle"
      BY <1>1, <2>1, StepCarries DEF DrainSwap, DrainOpen, TypeInv
    <3>2. QED
      BY <3>1 DEF IdleDrain
  <2>2. CASE DrainPaused
    BY <2>2 DEF DrainPaused, IdleDrain
  <2>3. CASE DrainNext \/ DrainRereadError
    <3>1. \/ carrier'["drain"].pc # "idle"
          \/ ~(Len(draining) > 1)
      <4>1. CASE Hold("drain", "write", c, 0)
        <5>1. "write" # "idle"
          OBVIOUS
        <5>2. QED
          BY <1>1, <4>1, <5>1, HoldCarries DEF TypeInv
      <4>2. CASE carrier' = [carrier EXCEPT !["drain"] = IF Len(draining) > 1 THEN @ ELSE Idle]
        <5>1. carrier["drain"].pc = "loop"
          BY <2>3 DEF DrainNext, DrainRereadError
        <5>2. QED
          BY <1>1, <4>2, <5>1 DEF TypeInv, CarrierType
      <4>3. QED
        BY <1>0, <2>3, <4>1, <4>2 DEF DrainNext, DrainRereadError
    <3>2. Len(draining) \in Nat /\ Len(Tail(draining)) = Len(draining) - 1 /\ Tail(draining) \in Seq(Copy)
      BY <1>3, <2>3, EmptySeq, HeadTailProperties
    <3>3. Len(draining) > 1 \/ Tail(draining) = <<>>
      BY <1>3, <2>3, <3>2, EmptySeq
    <3>4. QED
      BY <1>3, <2>3, <3>1, <3>3 DEF IdleDrain
  <2>4. QED
    BY <2>1, <2>2, <2>3
<1>7. QED
  BY <1>1, <1>5, <1>6 DEF StrandInv

-----------------------------------------------------------------------------
(* The operators' single statements, the workers and the process             *)

\* No copy moves: a row may end or be deleted, and a pending one that gets a
\* polling interval in the first life of the process has a copy already.
LEMMA StrandAdmin ==
  ASSUME TypeInv, StrandInv, NoOrphanRefreshed,
         \/ \E r \in Rows : MarkTaskFailed(r) \/ DeleteTask(r) \/ SetTaskRepeatInterval(r)
         \/ Pause \/ Resume
  PROVE  StrandInv'
<1>1. UNCHANGED <<lanes, delayed, spills, worker, carrier, torecover, life>>
  BY DEF MarkTaskFailed, DeleteTask, SetTaskRepeatInterval, Pause, Resume
<1>2. \A r \in Rows : KeptIn(r)
  <2>1. \A r : Carried(r) => Carried(r)'
    BY <1>1 DEF Carried
  <2>2. \A r : AtClaim(r) => AtClaim(r)'
    BY <1>1 DEF AtClaim
  <2>3. QED
    BY <1>1, <2>1, <2>2, Sight DEF KeptIn
<1>3. CASE Pause \/ Resume
  <2>1. \A r \in Rows : Same(r)
    BY <1>3 DEF Pause, Resume, Same
  <2>2. QED
    BY <1>1, <1>2, <2>1, StaysSighted DEF StrandInv, IdleDrain, SeenIn
<1>4. ASSUME NEW r \in Rows, MarkTaskFailed(r) \/ DeleteTask(r)
      PROVE  StrandInv'
  <2>1. (\A q \in Rows \ {r} : Same(q)) /\ status'[r] # "pending"
    BY <1>4 DEF MarkTaskFailed, DeleteTask, SetStatus, Update, Same, TypeInv, RowType
  <2>2. \A q \in Rows : SeenIn(q)
    BY <1>2, <2>1 DEF SeenIn
  <2>3. QED
    BY <1>1, <2>2, StaysSighted DEF StrandInv, IdleDrain
<1>5. ASSUME NEW r \in Rows, SetTaskRepeatInterval(r)
      PROVE  StrandInv'
  <2>1. torecover = {}
    BY <1>5 DEF SetTaskRepeatInterval, NoOrphanRefreshed, StrandInv
  <2>2. \A q \in Rows : status'[q] = status[q]
    BY <1>5 DEF SetTaskRepeatInterval, SetStatus, Update, TypeInv, RowType
  <2>3. Sighted'
    BY <1>1, <1>2, <2>1, <2>2 DEF StrandInv, Sighted, KeptIn
  <2>4. QED
    BY <1>1, <2>3 DEF StrandInv, IdleDrain
<1>6. QED
  BY <1>3, <1>4, <1>5

\* The reaper leaves the workers what they hold.
LEMMA StrandReap ==
  ASSUME TypeInv, StrandInv, Reap
  PROVE  StrandInv'
<1>1. /\ UNCHANGED <<row, lanes, delayed, spills, carrier, torecover, phase, forsaken>>
      /\ \A w \in Workers : worker'[w].pc = worker[w].pc /\ worker'[w].row = worker[w].row
  BY ReapAlike DEF Reap, Alike
<1>2. \A r \in Rows : SeenIn(r)
  <2>1. \A r : AtClaim(r) => AtClaim(r)'
    BY <1>1 DEF AtClaim
  <2>2. \A r : Carried(r) => Carried(r)'
    BY <1>1 DEF Carried
  <2>3. QED
    BY <1>1, <2>1, <2>2, Sight DEF SeenIn, KeptIn, Same
<1>3. Sighted'
  BY <1>1, <1>2, StaysSighted DEF StrandInv
<1>4. QED
  BY <1>1, <1>3 DEF StrandInv, IdleDrain

\* A worker takes a copy from a lane and holds it until it has claimed the row.
LEMMA StrandTake ==
  ASSUME TypeInv, StrandInv, NEW w \in Workers,
         Gate(w) \/ TakeFast(w) \/ TakeMain(w) \/ TakeDrop(w)
  PROVE  StrandInv'
<1>1. /\ worker[w].pc # "claim" /\ \A v \in Workers \ {w} : worker'[v] = worker[v]
      /\ UNCHANGED <<row, delayed, spills, carrier, torecover, life>>
  <2>1. worker[w].pc # "claim" /\ UNCHANGED <<row, delayed, spills, carrier, torecover, life>>
    BY DEF Gate, TakeFast, TakeMain, TakeDrop
  <2>2. (\E v : worker' = [worker EXCEPT ![w] = v]) \/ worker' = worker
    BY DEF Gate, TakeFast, TakeMain, TakeDrop, Grab, Move
  <2>3. QED
    BY <2>1, <2>2 DEF TypeInv, WorkerType
<1>2. phase' = "up" => /\ \A r \in Rows : InLane(queue, r) => InLane(queue', r) \/ AtClaim(r)'
                       /\ \A r \in Rows : InLane(fast, r) => InLane(fast', r) \/ AtClaim(r)'
  <2>0. queue \in Seq(Rows) /\ fast \in Seq(Rows) /\ worker \in [Workers -> WorkerState]
    BY DEF TypeInv, LaneType, WorkerType
  <2>1. ASSUME NEW r, Grab(w, r)
        PROVE  AtClaim(r)'
    <3>1. worker'[w].row = r /\ worker'[w].pc = "claim"
      BY <2>0, <2>1 DEF Grab, AtGate
    <3>2. QED
      BY <3>1 DEF AtClaim
  <2>2. CASE Gate(w) /\ fast = <<>>
    BY <2>2 DEF Gate
  <2>3. CASE (Gate(w) \/ TakeFast(w)) /\ fast # <<>>
    <3>1. Grab(w, Head(fast)) /\ fast' = Tail(fast) /\ queue' = queue
      BY <2>3 DEF Gate, TakeFast
    <3>2. PICK c : c = Head(fast)
      OBVIOUS
    <3>3. \A r : InLane(fast, r) => InLane(fast', r) \/ r = c
      BY <2>0, <2>3, <3>1, <3>2, LaneTail
    <3>4. AtClaim(c)'
      BY <2>1, <3>1, <3>2
    <3>5. QED
      BY <3>1, <3>3, <3>4
  <2>4. CASE TakeMain(w)
    <3>1. Grab(w, Head(queue)) /\ queue' = Tail(queue) /\ fast' = fast /\ queue # <<>>
      BY <2>4 DEF TakeMain
    <3>2. PICK c : c = Head(queue)
      OBVIOUS
    <3>3. \A r : InLane(queue, r) => InLane(queue', r) \/ r = c
      BY <2>0, <3>1, <3>2, LaneTail
    <3>4. AtClaim(c)'
      BY <2>1, <3>1, <3>2
    <3>5. QED
      BY <3>1, <3>3, <3>4
  <2>5. CASE TakeDrop(w)
    BY <1>1, <2>5 DEF TakeDrop
  <2>6. QED
    BY <2>2, <2>3, <2>4, <2>5 DEF TakeFast
<1>3. phase' = "up" => \A r \in Rows \ {} : KeptIn(r)
  BY <1>1, <1>2, WorkerKeeps
<1>4. Sighted'
  BY <1>1, <1>3, StaysSighted DEF StrandInv, SeenIn, Same
<1>5. QED
  BY <1>1, <1>4 DEF StrandInv, IdleDrain

\* The claim ends the way of a copy: the row is processing, or was not pending.
LEMMA StrandWork ==
  ASSUME TypeInv, StrandInv, NEW w \in Workers,
         \/ Claim(w) \/ ClaimCancelled(w) \/ ReadRound(w) \/ ReadCancelled(w)
         \/ (\E out \in Terminal : RunEnds(w, out)) \/ RunCancelled(w)
         \/ Persist(w) \/ PersistCancelled(w) \/ WorkerFault(w)
  PROVE  StrandInv'
<1>1. UNCHANGED <<lanes, delayed, spills, carrier, torecover, life>>
  BY DEF Claim, ClaimCancelled, ReadRound, ReadCancelled, RunEnds, RunCancelled, Persist,
         PersistCancelled, WorkerFault, ClaimError, ClaimLost, PersistLost
<1>2. IdleDrain' /\ (MaxRestarts = 0 => torecover' = {})
  BY <1>1 DEF StrandInv, IdleDrain
<1>3. PICK c \in Rows : c = worker[w].row
  BY DEF Claim, ClaimCancelled, ReadRound, ReadCancelled, RunEnds, RunCancelled, Persist,
         PersistCancelled, WorkerFault, ClaimError, ClaimLost, PersistLost, TypeInv, WorkerType
<1>4. \A v \in Workers \ {w} : worker'[v] = worker[v]
  BY DEF Claim, ClaimCancelled, ReadRound, ReadCancelled, RunEnds, RunCancelled, Persist, GiveBack,
         PersistCancelled, WorkerFault, ClaimError, ClaimLost, PersistLost, Move, Leave,
         TypeInv, WorkerType
<1>5. \A r \in Rows \ {c} : KeptIn(r)
  <2> DEFINE D == {c}
  <2>1. \A r \in Rows \ D : KeptIn(r)
    BY <1>1, <1>3, <1>4, WorkerKeeps
  <2>2. QED
    BY <2>1
<1>6. worker[w].pc # "claim" => \A r \in Rows : KeptIn(r)
  <2>1. worker[w].pc # "claim" => \A r \in Rows \ {} : KeptIn(r)
    BY <1>1, <1>4, WorkerKeeps
  <2>2. QED
    BY <2>1
<1>7. CASE Claim(w) \/ ClaimLost(w)
  <2>1. PICK hit \in BOOLEAN : Update(hit, c, "processing", 0, 0, FALSE) /\ hit = (status[c] = "pending")
    BY <1>3, <1>7 DEF Claim, ClaimLost
  <2>2. (\A r \in Rows \ {c} : Same(r)) /\ (hit => status'[c] = "processing") /\ (~hit => Same(c))
    BY <2>1, OneRow DEF TypeInv
  <2>3. status'[c] # "pending"
    BY <2>1, <2>2 DEF Same
  <2>4. \A r \in Rows : SeenIn(r)
    BY <1>5, <2>2, <2>3 DEF SeenIn
  <2>5. QED
    BY <1>1, <1>2, <2>4, StaysSighted DEF StrandInv
<1>8. CASE ClaimError(w)
  <2>1. worker'[w].row = c /\ worker'[w].pc = "claim" /\ \A r \in Rows : Same(r)
    BY <1>3, <1>8 DEF ClaimError, TypeInv, WorkerType, WorkerState, Same
  <2>2. HasCopy(c)'
    BY <2>1, Sight DEF AtClaim
  <2>3. \A r \in Rows : SeenIn(r)
    BY <1>5, <2>1, <2>2 DEF SeenIn
  <2>4. QED
    BY <1>1, <1>2, <2>3, StaysSighted DEF StrandInv
<1>9. CASE ReadRound(w) \/ (\E out \in Terminal : RunEnds(w, out))
  <2>1. worker[w].pc # "claim" /\ \A r \in Rows : Same(r)
    BY <1>9 DEF ReadRound, RunEnds, Same
  <2>2. \A r \in Rows : SeenIn(r)
    BY <1>6, <2>1 DEF SeenIn
  <2>3. QED
    BY <1>1, <1>2, <2>2, StaysSighted DEF StrandInv
<1>10. CASE Persist(w) \/ PersistLost(w)
  <2>1. worker[w].pc = "persist" /\ worker[w].out \in Terminal
    BY <1>10 DEF Persist, PersistLost, TypeInv, WorkerType
  <2>2. PICK hit \in BOOLEAN : Update(hit, c, worker[w].out, 0, 0, urgent[c])
    <3>1. Fenced(w) \in BOOLEAN
      BY DEF Fenced
    <3>2. Update(Fenced(w), c, worker[w].out, 0, 0, urgent[c])
      BY <1>3, <1>10 DEF Persist, PersistLost, SetStatus
    <3>3. QED
      BY <3>1, <3>2
  <2>3. (\A r \in Rows \ {c} : Same(r)) /\ (hit => status'[c] # "pending") /\ (~hit => Same(c))
    <3>1. worker[w].out # "pending"
      BY <2>1 DEF Terminal
    <3>2. (\A r \in Rows \ {c} : Same(r)) /\ (hit => status'[c] = worker[w].out) /\ (~hit => Same(c))
      BY <2>2, OneRow DEF TypeInv
    <3>3. QED
      BY <3>1, <3>2
  <2>4. \A r \in Rows : SeenIn(r)
    BY <1>6, <2>1, <2>3 DEF SeenIn
  <2>5. QED
    BY <1>1, <1>2, <2>4, StaysSighted DEF StrandInv
<1>11. CASE ClaimCancelled(w) \/ ReadCancelled(w) \/ RunCancelled(w) \/ PersistCancelled(w)
  <2>1. phase # "up"
    BY <1>11 DEF ClaimCancelled, ReadCancelled, RunCancelled, PersistCancelled
  <2>2. QED
    BY <1>1, <1>2, <2>1 DEF StrandInv, Sighted
<1>12. QED
  BY <1>7, <1>8, <1>9, <1>10, <1>11 DEF WorkerFault

\* Every step keeps the pending rows in sight.
LEMMA StrandNext ==
  ASSUME NoOrphanRefreshed, TypeInv, StrandInv, [Next]_vars
  PROVE  StrandInv'
<1>1. CASE \E w \in Workers : WorkerStep(w) \/ WorkerFault(w)
  BY <1>1, StrandTake, StrandWork DEF WorkerStep
<1>2. CASE CarrierStep
  <2>1. CASE SubmitIfActive \/ MarkRequeueFailed
    BY <2>1, StrandDecide, StrandMark
  <2>2. CASE \E k \in Carriers : SubmitToPool(k) \/ Enqueue(k) \/ EnqueueFull(k) \/ EnqueueRejected(k)
    BY <2>2, StrandWrite, StrandEnqueue, StrandPool
  <2>3. CASE ErrorReset \/ RepeatReset \/ RecoverReset \/ RetryReset \/ UrgentReset
    BY <2>3, StrandResets
  <2>4. CASE DrainSwap \/ DrainPaused \/ DrainOpen \/ DrainNext
    BY <2>4, StrandDrain
  <2>5. CASE \E r \in Rows : DeliverDelayed(r) \/ RecoverVisit(r)
    BY <2>5, StrandTaken, StrandRecover
  <2>6. QED
    BY <1>2, <2>1, <2>2, <2>3, <2>4, <2>5 DEF CarrierStep
<1>3. CASE CarrierFault
  BY <1>3, StrandDrain, StrandSelectError, StrandPool, StrandWriteLost, StrandResetFaults
     DEF CarrierFault
<1>4. CASE Trigger
  BY <1>4, StrandTaken, StrandNewLost, StrandAdmin, StrandReap DEF Trigger
<1>5. CASE Stop \/ Count \/ Return
  BY <1>5 DEF Stop, Count, Return, StrandInv, IdleDrain, Sighted
<1>6. CASE Restart
  <2>1. MaxRestarts # 0
    BY <1>6, EngineAssumption DEF Restart, TypeInv, LifeType
  <2>2. draining' = <<>> /\ \A k \in Carriers : carrier'[k].pc = "idle"
    BY <1>6 DEF Restart, Idle
  <2>3. Sighted'
    BY <1>6 DEF Restart, Sighted
  <2>4. QED
    BY <2>1, <2>2, <2>3 DEF StrandInv, IdleDrain, Carriers
<1>7. CASE UNCHANGED vars
  <2>1. IdleDrain' /\ (MaxRestarts = 0 => torecover' = {})
    BY <1>7 DEF vars, StrandInv, IdleDrain
  <2>2. Sighted'
    BY <1>7 DEF vars, StrandInv, Sighted, HasCopy
  <2>3. QED
    BY <2>1, <2>2 DEF StrandInv
<1>8. QED
  BY <1>1, <1>2, <1>3, <1>4, <1>5, <1>6, <1>7 DEF Next

-----------------------------------------------------------------------------
(* The orphans of an earlier process: on the list of the startup pass, in its *)
(* hands, or given up                                                         *)

AtReset(r) == carrier["recq"].row = r /\ carrier["recq"].pc = "reset"

OrphanInv ==
  phase = "up" =>
    \A r \in Rows : status[r] = "processing" /\ ~fresh[r] =>
      r \in torecover \cup forsaken \/ AtReset(r)

\* Whoever writes a row makes it one of this process.
OldStays ==
  \A r \in Rows : status'[r] = "processing" /\ ~fresh'[r] => status[r] = "processing" /\ ~fresh[r]

LEMMA UpdateRefreshes ==
  ASSUME RowType, NEW c \in Rows, NEW hit \in BOOLEAN, NEW s, NEW dr, NEW dp, NEW u,
         Update(hit, c, s, dr, dp, u)
  PROVE  OldStays
  BY DEF Update, OldStays, RowType

LEMMA OldWorker ==
  ASSUME TypeInv, NEW w \in Workers, WorkerStep(w) \/ WorkerFault(w)
  PROVE  OldStays
<1>1. CASE \/ Gate(w) \/ TakeFast(w) \/ TakeMain(w) \/ TakeDrop(w) \/ ClaimError(w)
           \/ ClaimCancelled(w) \/ ReadRound(w) \/ PersistCancelled(w)
           \/ \E out \in Terminal : RunEnds(w, out)
  BY <1>1 DEF Gate, TakeFast, TakeMain, TakeDrop, ClaimError, ClaimCancelled, ReadRound,
              PersistCancelled, RunEnds, OldStays
<1>2. CASE Claim(w) \/ ClaimLost(w)
  <2>1. PICK r \in Rows : r = worker[w].row
    BY <1>2 DEF Claim, ClaimLost, TypeInv, WorkerType
  <2>2. PICK hit \in BOOLEAN : Update(hit, r, "processing", 0, 0, FALSE)
    BY <1>2, <2>1 DEF Claim, ClaimLost
  <2>3. QED
    BY <2>2, UpdateRefreshes DEF TypeInv
<1>3. CASE ReadCancelled(w) \/ RunCancelled(w)
  <2>1. PICK r \in Rows : r = worker[w].row
    BY <1>3 DEF ReadCancelled, RunCancelled, TypeInv, WorkerType
  <2>2. SetStatus(status[r] = "processing", r, "pending") \/ UNCHANGED row
    BY <1>3, <2>1 DEF ReadCancelled, RunCancelled, GiveBack
  <2>3. UNCHANGED row => OldStays
    BY DEF OldStays
  <2>4. QED
    BY <2>2, <2>3, UpdateRefreshes DEF SetStatus, TypeInv
<1>4. CASE Persist(w) \/ PersistLost(w)
  <2>1. PICK r \in Rows : r = worker[w].row
    BY <1>4 DEF Persist, PersistLost, TypeInv, WorkerType
  <2>2. SetStatus(Fenced(w), r, worker[w].out) /\ Fenced(w) \in BOOLEAN
    BY <1>4, <2>1 DEF Persist, PersistLost, Fenced
  <2>3. QED
    BY <2>1, <2>2, UpdateRefreshes DEF SetStatus, TypeInv
<1>5. QED
  BY <1>1, <1>2, <1>3, <1>4 DEF WorkerStep, WorkerFault

LEMMA OldCarriers ==
  ASSUME TypeInv, CarrierStep \/ CarrierFault \/ Trigger
  PROVE  OldStays
<1>1. Parked => OldStays
  BY DEF Parked, Same, OldStays
<1>2. ASSUME NEW r \in Rows, SetTaskRepeatInterval(r) PROVE OldStays
  BY <1>2, UpdateRefreshes DEF SetTaskRepeatInterval, SetStatus, TypeInv
<1>3. QED
  BY <1>1, <1>2, CarriersPark

\* An orphan leaves the startup pass with a row that is pending, or that had
\* ended, or given up.
LEMMA ResetsEnd ==
  ASSUME TypeInv, NEW r \in Rows, AtReset(r),
         CarrierStep \/ CarrierFault \/ Trigger
  PROVE  AtReset(r)' \/ r \in forsaken' \/ status'[r] # "processing" \/ fresh'[r]
<1>0. /\ CarrierType /\ RowType /\ "recq" \in Carriers
      /\ carrier["recq"].row = r /\ carrier["recq"].pc = "reset"
  BY DEF TypeInv, Carriers, AtReset
<1>1. carrier'["recq"] = carrier["recq"] => AtReset(r)'
  BY <1>0 DEF AtReset
<1>2. CASE RecoverReset
  BY <1>0, <1>2 DEF RecoverReset, SetStatus, Update, RowType
<1>3. ASSUME NEW k \in Carriers, ResetError(k) \/ ResetLost(k)
      PROVE  AtReset(r)' \/ r \in forsaken'
  <2>1. CASE k = "recq"
    BY <1>0, <1>3, <2>1 DEF ResetError, ResetLost, GiveUp
  <2>2. CASE k # "recq"
    BY <1>0, <1>1, <1>3, <2>2, OneCarrier DEF ResetError, ResetLost
  <2>3. QED
    BY <2>1, <2>2
<1>4. ASSUME NEW k \in Carriers, NEW pc, NEW c, NEW was, k # "recq",
             Hold(k, pc, c, was) \/ Step(k, pc) \/ Release(k)
      PROVE  AtReset(r)'
  BY <1>0, <1>1, <1>4, OneCarrier
<1>5. ASSUME NEW k \in Carriers, carrier[k].pc # "reset",
             \/ SubmitToPool(k) \/ Enqueue(k) \/ EnqueueFull(k) \/ EnqueueRejected(k)
             \/ SubmitToPoolError(k) \/ SubmitToPoolLost(k)
      PROVE  AtReset(r)'
  <2>1. k # "recq"
    BY <1>0, <1>5
  <2>2. CASE SubmitToPool(k)
    BY <1>0, <1>1, <2>1, <2>2 DEF SubmitToPool, CarrierType
  <2>3. CASE \/ Enqueue(k) \/ EnqueueFull(k) \/ EnqueueRejected(k)
             \/ SubmitToPoolError(k) \/ SubmitToPoolLost(k)
    <3>1. Release(k) \/ Step(k, "markfail")
      BY <2>3 DEF Enqueue, EnqueueFull, EnqueueRejected, SubmitToPoolError, SubmitToPoolLost
    <3>2. QED
      BY <1>4, <2>1, <3>1
  <2>4. QED
    BY <1>5, <2>2, <2>3
<1>6. CASE \E k \in Carriers : \/ SubmitToPool(k) \/ Enqueue(k) \/ EnqueueFull(k) \/ EnqueueRejected(k)
                               \/ SubmitToPoolError(k) \/ SubmitToPoolLost(k)
  <2>1. PICK k \in Carriers : \/ SubmitToPool(k) \/ Enqueue(k) \/ EnqueueFull(k) \/ EnqueueRejected(k)
                              \/ SubmitToPoolError(k) \/ SubmitToPoolLost(k)
    BY <1>6
  <2>2. carrier[k].pc # "reset"
    BY <2>1 DEF SubmitToPool, Enqueue, EnqueueFull, EnqueueRejected, SubmitToPoolError, SubmitToPoolLost
  <2>3. QED
    BY <1>5, <2>1, <2>2
<1>7. CASE \/ SubmitIfActive \/ MarkRequeueFailed
           \/ ErrorReset \/ RepeatReset \/ RetryReset \/ UrgentReset
           \/ DrainSwap \/ DrainOpen
  <2>1. \E k \in Carriers \ {"recq"}, pc \in {"write", "enqueue", "check", "loop"} :
           Step(k, pc) \/ Release(k)
    <3>1. {"submit", "errq", "repq", "retry", "urgent", "drain"} \subseteq Carriers \ {"recq"}
      BY DEF Carriers
    <3>2. CASE SubmitIfActive \/ MarkRequeueFailed
      BY <3>1, <3>2 DEF SubmitIfActive, MarkRequeueFailed
    <3>3. CASE ErrorReset \/ RepeatReset
      BY <3>1, <3>3 DEF ErrorReset, RepeatReset
    <3>4. CASE RetryReset \/ UrgentReset
      BY <3>1, <3>4 DEF RetryReset, UrgentReset
    <3>5. CASE DrainSwap \/ DrainOpen
      BY <3>1, <3>5 DEF DrainSwap, DrainOpen
    <3>6. QED
      BY <1>7, <3>2, <3>3, <3>4, <3>5
  <2>2. QED
    BY <1>4, <2>1
<1>8. CASE DrainPaused \/ DrainNext \/ DrainRereadError
  BY <1>0, <1>1, <1>8 DEF DrainPaused, DrainNext, DrainRereadError, Hold, CarrierType, Carriers
<1>9. CASE RecoverSelectError \/ Pause \/ Resume \/ Reap
  BY <1>1, <1>9 DEF RecoverSelectError, Pause, Resume, Reap
<1>10. ASSUME NEW q \in Rows,
              \/ DeliverDelayed(q) \/ RecoverVisit(q) \/ SubmitNew(q) \/ SubmitNewLost(q)
              \/ SubmitAgain(q) \/ ErrorSelect(q) \/ RepeatSelect(q) \/ RetryLoad(q) \/ UrgentLoad(q)
              \/ MarkTaskFailed(q) \/ DeleteTask(q) \/ SetTaskRepeatInterval(q)
       PROVE  AtReset(r)'
  <2>1. CASE \/ SubmitNewLost(q) \/ MarkTaskFailed(q) \/ DeleteTask(q) \/ SetTaskRepeatInterval(q)
    BY <1>1, <2>1 DEF SubmitNewLost, MarkTaskFailed, DeleteTask, SetTaskRepeatInterval
  <2>2. CASE RecoverVisit(q)
    BY <1>0, <2>2 DEF RecoverVisit
  <2>3. CASE DeliverDelayed(q) \/ SubmitNew(q) \/ SubmitAgain(q)
    BY <1>0, <1>1, <2>3 DEF DeliverDelayed, SubmitNew, SubmitAgain, Hold, CarrierType, Carriers
  <2>4. CASE ErrorSelect(q) \/ RepeatSelect(q) \/ RetryLoad(q) \/ UrgentLoad(q)
    BY <1>0, <1>1, <2>4 DEF ErrorSelect, RepeatSelect, RetryLoad, UrgentLoad, Hold, CarrierType, Carriers
  <2>5. QED
    BY <1>10, <2>1, <2>2, <2>3, <2>4
<1>11. QED
  BY <1>2, <1>3, <1>6, <1>7, <1>8, <1>9, <1>10 DEF CarrierStep, CarrierFault, Trigger

\* The list of the startup pass shrinks by the row it takes up, or all at once,
\* and what was given up stays given up.
LEMMA ListShrinks ==
  ASSUME TypeInv, CarrierStep \/ CarrierFault \/ Trigger
  PROVE  /\ forsaken \subseteq forsaken'
         /\ \A r \in Rows : r \in torecover /\ status[r] = "processing" /\ ~fresh[r] =>
              r \in torecover' \cup forsaken' \/ AtReset(r)'
<1>1. CASE CarrierStep
  <2>1. ASSUME NEW k \in Carriers, EnqueueRejected(k)
        PROVE  forsaken \subseteq forsaken' /\ torecover' = torecover
    BY <2>1 DEF EnqueueRejected, GiveUp
  <2>2. ASSUME NEW k \in Carriers, SubmitToPool(k) \/ Enqueue(k) \/ EnqueueFull(k)
        PROVE  forsaken' = forsaken /\ torecover' = torecover
    BY <2>2 DEF SubmitToPool, Enqueue, EnqueueFull
  <2>3. ASSUME NEW q \in Rows, RecoverVisit(q)
        PROVE  /\ forsaken' = forsaken /\ torecover' = torecover \ {q}
               /\ status[q] = "processing" /\ ~fresh[q] => AtReset(q)'
    <3>1. Snapshot(q, FALSE, TRUE).row = q /\ "recq" \in Carriers /\ CarrierType
      BY DEF Snapshot, Carriers, TypeInv
    <3>2. Hold("recq", "reset", Snapshot(q, FALSE, TRUE), 0) => AtReset(q)'
      BY <3>1, HoldCarries DEF AtReset
    <3>3. QED
      BY <2>3, <3>2 DEF RecoverVisit
  <2>4. ASSUME \/ SubmitIfActive \/ MarkRequeueFailed \/ ErrorReset \/ RepeatReset \/ RecoverReset
               \/ RetryReset \/ UrgentReset \/ DrainSwap \/ DrainPaused \/ DrainOpen \/ DrainNext
               \/ \E r \in Rows : DeliverDelayed(r)
        PROVE  forsaken' = forsaken /\ torecover' = torecover
    BY <2>4 DEF SubmitIfActive, MarkRequeueFailed, ErrorReset, RepeatReset, RecoverReset,
                RetryReset, UrgentReset, DrainSwap, DrainPaused, DrainOpen, DrainNext, DeliverDelayed
  <2>5. CASE \E r \in Rows : RecoverVisit(r)
    BY <2>3, <2>5
  <2>6. CASE ~ \E r \in Rows : RecoverVisit(r)
    <3>1. forsaken \subseteq forsaken' /\ torecover' = torecover
      BY <1>1, <2>1, <2>2, <2>4, <2>6 DEF CarrierStep
    <3>2. QED
      BY <3>1
  <2>7. QED
    BY <2>5, <2>6
<1>2. CASE CarrierFault
  <2>1. ASSUME NEW k \in Carriers, \/ SubmitToPoolError(k) \/ SubmitToPoolLost(k)
                                   \/ ResetError(k) \/ ResetLost(k)
        PROVE  forsaken \subseteq forsaken' /\ torecover' = torecover
    BY <2>1 DEF SubmitToPoolError, SubmitToPoolLost, ResetError, ResetLost, GiveUp
  <2>2. CASE DrainRereadError
    BY <2>2 DEF DrainRereadError
  <2>3. CASE RecoverSelectError
    BY <2>3 DEF RecoverSelectError, GiveUp
  <2>4. QED
    BY <1>2, <2>1, <2>2, <2>3 DEF CarrierFault
<1>3. CASE Trigger
  BY <1>3 DEF Trigger, SubmitNew, SubmitNewLost, SubmitAgain, ErrorSelect, RepeatSelect, RetryLoad,
              UrgentLoad, MarkTaskFailed, DeleteTask, SetTaskRepeatInterval, Pause, Resume, Reap, GiveUp
<1>4. QED
  BY <1>1, <1>2, <1>3

\* Every step keeps the orphans in sight.
LEMMA OrphanNext ==
  ASSUME TypeInv, OrphanInv, [Next]_vars
  PROVE  OrphanInv'
<1>1. ASSUME NEW w \in Workers, WorkerStep(w) \/ WorkerFault(w)
      PROVE  OrphanInv'
  <2>1. UNCHANGED <<carrier, torecover, life>>
    BY <1>1 DEF WorkerStep, WorkerFault, Gate, TakeFast, TakeMain, TakeDrop, Claim, ClaimCancelled,
         ReadRound, ReadCancelled, RunEnds, RunCancelled, Persist, PersistCancelled,
         ClaimError, ClaimLost, PersistLost
  <2>2. QED
    BY <1>1, <2>1, OldWorker DEF OldStays, OrphanInv, AtReset
<1>2. CASE CarrierStep \/ CarrierFault \/ Trigger
  <2>1. phase' = phase
    BY <1>2, CarriersLeaveWorkers
  <2>2. QED
    BY <1>2, <2>1, OldCarriers, ResetsEnd, ListShrinks DEF OldStays, OrphanInv
<1>3. CASE Stop \/ Count \/ Return
  BY <1>3 DEF Stop, Count, Return, OrphanInv, AtReset
<1>4. CASE Restart
  BY <1>4 DEF Restart, OrphanInv
<1>5. CASE UNCHANGED vars
  BY <1>5 DEF vars, OrphanInv, AtReset
<1>6. QED
  BY <1>1, <1>2, <1>3, <1>4, <1>5 DEF Next

\* No row of a running engine is forgotten: through refused and reordered
\* submissions, statements that fail or are not answered, pauses, several copies,
\* reaped pools, crashes and restarts, a copy of a pending row is on its way or the
\* startup pass will make one, and so it is with an orphan; but for the rows that
\* the engine itself gave up.
THEOREM NothingIsStranded ==
  ASSUME NoOrphanRefreshed
  PROVE  Spec => []NoStrandedTask
<1>1. Init => StrandInv /\ OrphanInv
  BY DEF Init, StrandInv, IdleDrain, Sighted, OrphanInv, Idle, Carriers
<1>2. StrandInv /\ OrphanInv => NoStrandedTask
  BY DEF StrandInv, Sighted, OrphanInv, AtReset, NoStrandedTask
<1>3. QED
  BY <1>1, <1>2, StrandNext, OrphanNext, TypeInit, TypeNext, PTL DEF Spec

=============================================================================
