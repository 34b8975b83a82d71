------------------------- MODULE TaskEngineOwnership -------------------------
(***************************************************************************)
(* Who owns a row: the worker that claimed it is the only one to execute   *)
(* it and the only one to end it, for any number of rows, workers, copies, *)
(* capacities and limits.  Three conditions on the deployment are needed;  *)
(* TLC finds the counterexamples without them.                             *)
(***************************************************************************)
EXTENDS TaskEngineProofs

USE DEF row, lanes, spills, life, process, history

\* A terminal write whose answer is lost is not tried again; an orphan is not
\* marked failed by hand while startup recovery may hold a snapshot of it; the
\* error queue never meets a stopped pool.
SafeDeployment ==
  /\ "persistLost" \notin Faults
  /\ "mark" \notin Ops \/ MaxRestarts = 0
  /\ "errq" \notin Ops \/ Ops \cap {"stop", "reap"} = {}

Owns(w, r) == worker[w].row = r /\ worker[w].pc \in {"read", "run", "persist"}

(* The inductive invariant: an owned row is in processing, was written by     *)
(* this process, has one owner, and is in the round its owner has read.       *)
OwnInv ==
  /\ \A w \in Workers, r \in Rows : Owns(w, r) => status[r] = "processing" /\ fresh[r]
  /\ \A v, w \in Workers, r \in Rows : Owns(v, r) /\ Owns(w, r) => v = w
  /\ \A w \in Workers : worker[w].pc \in {"run", "persist"} => Fenced(w)

\* The orphan that startup recovery is about to reset is nobody's.
RecInv ==
  /\ torecover # {} => "mark" \notin Ops
  /\ carrier["recq"].pc = "reset" =>
       /\ "mark" \notin Ops
       /\ status[carrier["recq"].row] = "processing"
       /\ \A w \in Workers : ~Owns(w, carrier["recq"].row)

\* The error queue is either not in use, or never rejected.
ErrInv ==
  /\ "errq" \notin Ops => carrier["errq"].pc = "idle"
  /\ "stop" \notin Ops => phase = "up"
  /\ carrier["errq"].pc # "markfail"

Ownership == OwnInv /\ RecInv /\ ErrInv

-----------------------------------------------------------------------------
(* A row nobody owns may be written; an owned row may be touched.            *)

\* An UPDATE that only matches a row nobody owns keeps ownership.
LEMMA OwnUpdate ==
  ASSUME TypeInv, OwnInv, NEW r \in Rows, NEW hit \in BOOLEAN, NEW s, NEW dr \in Nat,
         NEW dp \in Nat, NEW u, Update(hit, r, s, dr, dp, u), worker' = worker,
         hit => \A w \in Workers : ~Owns(w, r)
  PROVE  OwnInv'
<1>1. \A q \in Rows : (\E w \in Workers : Owns(w, q)) =>
         status'[q] = status[q] /\ fresh'[q] = fresh[q]
         /\ repeat'[q] = repeat[q] /\ reprocess'[q] = reprocess[q]
  BY DEF Update, TypeInv, RowType
<1>2. \A w \in Workers, q \in Rows : Owns(w, q)' <=> Owns(w, q)
  BY DEF Owns
<1>3. \A w \in Workers : worker[w].pc \in {"run", "persist"} =>
         worker[w].row \in Rows /\ Owns(w, worker[w].row)
  BY DEF TypeInv, WorkerType, Owns
<1>4. QED
  BY <1>1, <1>2, <1>3 DEF OwnInv, Fenced

\* The orphan under recovery stays nobody's, whoever else writes.
LEMMA RecUpdate ==
  ASSUME TypeInv, RecInv, NEW r \in Rows, NEW hit \in BOOLEAN, NEW s, NEW dr, NEW dp, NEW u,
         Update(hit, r, s, dr, dp, u), worker' = worker, torecover' = torecover,
         carrier'["recq"] = carrier["recq"] \/ carrier'["recq"].pc # "reset",
         hit => s = "processing" \/ status[r] # "processing"
  PROVE  RecInv'
<1>1. \A q \in Rows : status[q] = "processing" => status'[q] = "processing"
  BY DEF Update, TypeInv, RowType
<1>2. \A w \in Workers : \A q : Owns(w, q)' <=> Owns(w, q)
  BY DEF Owns
<1>3. carrier["recq"].pc = "reset" => carrier["recq"].row \in Rows
  BY DEF TypeInv, CarrierType, Carriers
<1>4. QED
  BY <1>1, <1>2, <1>3 DEF RecInv

\* Nothing that matters here changes.
LEMMA OwnFrame ==
  ASSUME TypeInv, OwnInv, UNCHANGED row, worker' = worker
  PROVE  OwnInv'
  BY DEF OwnInv, Owns, Fenced

\* The same for the orphan startup recovery holds.
LEMMA RecFrame ==
  ASSUME RecInv, UNCHANGED row, worker' = worker, torecover' = torecover,
         carrier'["recq"] = carrier["recq"] \/ carrier'["recq"].pc # "reset"
  PROVE  RecInv'
  BY DEF RecInv, Owns

\* A worker that does not become an owner.
LEMMA OwnLess ==
  ASSUME TypeInv, OwnInv, RecInv, NEW w \in Workers, UNCHANGED row,
         torecover' = torecover, carrier' = carrier,
         \A v \in Workers : v # w => worker'[v] = worker[v],
         worker'[w].pc \in {"gate", "ready", "claim"}
  PROVE  OwnInv' /\ RecInv'
<1>1. \A v \in Workers : \A q : Owns(v, q)' => v # w /\ Owns(v, q)
  BY DEF Owns
<1>2. QED
  BY <1>1 DEF OwnInv, RecInv, Owns, Fenced

-----------------------------------------------------------------------------
(* The error queue is never rejected                                         *)

\* A carrier that lets go of its copy does not bring the error queue there.
LEMMA ErrRelease ==
  ASSUME TypeInv, ErrInv, NEW k \in Carriers, carrier[k].pc # "idle", Release(k), phase' = phase
  PROVE  ErrInv'
<1>1. /\ carrier'["errq"] = carrier["errq"] \/ carrier'["errq"].pc = "idle"
      /\ carrier["errq"].pc = "idle" => carrier'["errq"] = carrier["errq"]
  BY DEF Release, Idle, TypeInv, CarrierType, Carriers
<1>2. QED
  BY <1>1 DEF ErrInv

\* No carrier brings the error queue to markRequeueFailed.
LEMMA ErrCarrier ==
  ASSUME TypeInv, ErrInv, SafeDeployment,
         \/ \E r \in Rows : SubmitNew(r) \/ SubmitNewLost(r)
         \/ \E r \in Rows : SubmitAgain(r)
         \/ SubmitIfActive
         \/ \E r \in Rows : DeliverDelayed(r)
         \/ \E k \in Carriers : SubmitToPool(k)
         \/ \E k \in Carriers : SubmitToPoolError(k) \/ SubmitToPoolLost(k)
         \/ \E k \in Carriers : Enqueue(k)
         \/ \E k \in Carriers : EnqueueFull(k)
         \/ \E k \in Carriers : EnqueueRejected(k)
         \/ MarkRequeueFailed
         \/ \E r \in Rows : ErrorSelect(r)
         \/ ErrorReset
         \/ \E r \in Rows : RepeatSelect(r)
         \/ RepeatReset
         \/ \E r \in Rows : RecoverVisit(r)
         \/ RecoverReset
         \/ \E r \in Rows : RetryLoad(r)
         \/ RetryReset
         \/ \E r \in Rows : UrgentLoad(r)
         \/ UrgentReset
         \/ DrainSwap
         \/ DrainPaused
         \/ DrainOpen
         \/ DrainNext
         \/ DrainRereadError
         \/ RecoverSelectError
         \/ \E k \in Carriers : ResetError(k) \/ ResetLost(k)
  PROVE  ErrInv'
<1>1. CASE \E r \in Rows : SubmitNew(r) \/ SubmitNewLost(r)
  BY <1>1 DEF SubmitNew, SubmitNewLost, GiveUp, Hold, ErrInv, TypeInv, CarrierType, Carriers
<1>2. CASE \E r \in Rows : SubmitAgain(r)
  BY <1>2 DEF SubmitAgain, Hold, ErrInv, TypeInv, CarrierType, Carriers
<1>3. CASE SubmitIfActive
  BY <1>3 DEF SubmitIfActive, Step, Release, Idle, ErrInv, TypeInv, CarrierType, Carriers
<1>4. CASE \E r \in Rows : DeliverDelayed(r)
  BY <1>4 DEF DeliverDelayed, Hold, ErrInv, TypeInv, CarrierType, Carriers
<1>5. CASE \E k \in Carriers : SubmitToPool(k)
  <2>1. PICK k \in Carriers : SubmitToPool(k)
    BY <1>5
  <2>2. carrier[k].pc = "write" /\ phase' = phase
    BY <2>1 DEF SubmitToPool, life
  <2>3. carrier'[k].pc = "enqueue" /\ \A j \in Carriers \ {k} : carrier'[j] = carrier[j]
    BY <2>1 DEF SubmitToPool, TypeInv, CarrierType, CarrierState
  <2>4. "errq" \in Carriers
    BY DEF Carriers
  <2>5. QED
    BY <2>2, <2>3, <2>4 DEF ErrInv
<1>6. CASE \E k \in Carriers : SubmitToPoolError(k) \/ SubmitToPoolLost(k)
  <2>1. PICK k \in Carriers : SubmitToPoolError(k) \/ SubmitToPoolLost(k)
    BY <1>6
  <2>2. carrier[k].pc # "idle" /\ Release(k) /\ phase' = phase
    BY <2>1 DEF SubmitToPoolError, SubmitToPoolLost
  <2>3. QED
    BY <2>2, ErrRelease
<1>7. CASE \E k \in Carriers : Enqueue(k)
  BY <1>7 DEF Enqueue, Step, Release, Idle, ErrInv, TypeInv, CarrierType, Carriers
<1>8. CASE \E k \in Carriers : EnqueueFull(k)
  BY <1>8 DEF EnqueueFull, Step, Release, Idle, ErrInv, TypeInv, CarrierType, Carriers
<1>9. CASE \E k \in Carriers : EnqueueRejected(k)
  BY <1>9 DEF EnqueueRejected, GiveUp, Step, Release, Idle, PoolStopped, SafeDeployment, ErrInv,
     TypeInv, CarrierType, Carriers
<1>10. CASE MarkRequeueFailed
  BY <1>10 DEF MarkRequeueFailed, Step, Release, Idle, ErrInv, TypeInv, CarrierType, Carriers
<1>11. CASE \E r \in Rows : ErrorSelect(r)
  BY <1>11 DEF ErrorSelect, Hold, ErrInv, TypeInv, CarrierType, Carriers
<1>12. CASE ErrorReset
  <2>1. /\ Step("errq", "enqueue") \/ Release("errq")
        /\ carrier["errq"].pc # "idle" /\ phase' = phase
    BY <1>12 DEF ErrorReset
  <2>2. QED
    BY <2>1 DEF Step, Release, Idle, ErrInv, TypeInv, CarrierType, CarrierState, Carriers
<1>13. CASE \E r \in Rows : RepeatSelect(r)
  BY <1>13 DEF RepeatSelect, Hold, ErrInv, TypeInv, CarrierType, Carriers
<1>14. CASE RepeatReset
  BY <1>14 DEF RepeatReset, Step, Release, Idle, ErrInv, TypeInv, CarrierType, Carriers
<1>15. CASE \E r \in Rows : RecoverVisit(r)
  BY <1>15 DEF RecoverVisit, Hold, ErrInv, TypeInv, CarrierType, Carriers
<1>16. CASE RecoverReset
  BY <1>16 DEF RecoverReset, Step, Release, Idle, Recovered, ErrInv, TypeInv, CarrierType, Carriers
<1>17. CASE \E r \in Rows : RetryLoad(r)
  BY <1>17 DEF RetryLoad, Hold, ErrInv, TypeInv, CarrierType, Carriers
<1>18. CASE RetryReset
  BY <1>18 DEF RetryReset, Step, Release, Idle, ErrInv, TypeInv, CarrierType, Carriers
<1>19. CASE \E r \in Rows : UrgentLoad(r)
  BY <1>19 DEF UrgentLoad, Hold, ErrInv, TypeInv, CarrierType, Carriers
<1>20. CASE UrgentReset
  BY <1>20 DEF UrgentReset, Step, Release, Idle, ErrInv, TypeInv, CarrierType, Carriers
<1>21. CASE DrainSwap
  BY <1>21 DEF DrainSwap, Step, ErrInv, TypeInv, CarrierType, Carriers
<1>22. CASE DrainPaused
  BY <1>22 DEF DrainPaused, Idle, ErrInv, TypeInv, CarrierType, Carriers
<1>23. CASE DrainOpen
  BY <1>23 DEF DrainOpen, Step, ErrInv, TypeInv, CarrierType, Carriers
<1>24. CASE DrainNext
  BY <1>24 DEF DrainNext, Hold, Idle, ErrInv, TypeInv, CarrierType, Carriers
<1>25. CASE DrainRereadError
  BY <1>25 DEF DrainRereadError, Idle, ErrInv, TypeInv, CarrierType, Carriers
<1>26. CASE RecoverSelectError \/ \E k \in Carriers : ResetError(k) \/ ResetLost(k)
  <2>1. CASE RecoverSelectError
    BY <2>1 DEF RecoverSelectError, GiveUp, ErrInv
  <2>2. CASE \E k \in Carriers : ResetError(k) \/ ResetLost(k)
    <3>1. PICK k \in Carriers : ResetError(k) \/ ResetLost(k)
      BY <2>2
    <3>2. carrier[k].pc # "idle" /\ Release(k) /\ phase' = phase
      BY <3>1 DEF ResetError, ResetLost, GiveUp
    <3>3. QED
      BY <3>2, ErrRelease
  <2>3. QED
    BY <1>26, <2>1, <2>2
<1>27. QED
  BY <1>1, <1>2, <1>3, <1>4, <1>5, <1>6, <1>7, <1>8, <1>9, <1>10, <1>11, <1>12, <1>13, <1>14, <1>15, <1>16, <1>17, <1>18, <1>19, <1>20, <1>21, <1>22, <1>23, <1>24, <1>25, <1>26

\* No step at all brings it there.
LEMMA ErrNext ==
  ASSUME TypeInv, ErrInv, SafeDeployment, [Next]_vars
  PROVE  ErrInv'
<1>1. CASE \E w \in Workers : WorkerStep(w) \/ WorkerFault(w)
  <2>1. carrier' = carrier /\ phase' = phase
    BY <1>1 DEF WorkerStep, WorkerFault, Gate, TakeFast, TakeMain, TakeDrop, Claim, ClaimError,
       ClaimLost, ClaimCancelled, ReadRound, ReadCancelled, RunEnds, RunCancelled, Persist,
       PersistLost, PersistCancelled
  <2>2. QED
    BY <2>1 DEF ErrInv
<1>2. CASE CarrierStep
  BY <1>2, ErrCarrier DEF CarrierStep
<1>3. CASE CarrierFault
  BY <1>3, ErrCarrier DEF CarrierFault
<1>4. CASE Trigger
  <2>1. CASE \E r \in Rows : MarkTaskFailed(r) \/ DeleteTask(r) \/ SetTaskRepeatInterval(r)
    BY <2>1 DEF MarkTaskFailed, DeleteTask, SetTaskRepeatInterval, ErrInv
  <2>2. CASE Pause \/ Resume \/ Reap
    BY <2>2 DEF Pause, Resume, Reap, ErrInv
  <2>3. QED
    BY <1>4, <2>1, <2>2, ErrCarrier DEF Trigger
<1>5. CASE Stop \/ Count \/ Return
  BY <1>5 DEF Stop, Count, Return, ErrInv
<1>6. CASE Restart
  BY <1>6 DEF Restart, Idle, Carriers, ErrInv
<1>7. CASE UNCHANGED vars
  BY <1>7 DEF vars, ErrInv
<1>8. QED
  BY <1>1, <1>2, <1>3, <1>4, <1>5, <1>6, <1>7 DEF Next

-----------------------------------------------------------------------------
(* Every step keeps ownership                                                *)

\* Steps that neither write a row nor move a worker.
LEMMA OwnNoRow ==
  ASSUME TypeInv, Ownership, UNCHANGED row, worker' = worker, torecover' = torecover,
         carrier'["recq"] = carrier["recq"] \/ carrier'["recq"].pc # "reset"
  PROVE  OwnInv' /\ RecInv'
  BY OwnFrame, RecFrame DEF Ownership

\* A guarded UPDATE of a row that is not being processed.
LEMMA OwnGuarded ==
  ASSUME TypeInv, Ownership, NEW r \in Rows, NEW hit \in BOOLEAN, NEW s,
         NEW dr \in Nat, NEW dp \in Nat, NEW u, Update(hit, r, s, dr, dp, u),
         hit => status[r] # "processing", worker' = worker, torecover' = torecover,
         carrier'["recq"] = carrier["recq"] \/ carrier'["recq"].pc # "reset"
  PROVE  OwnInv' /\ RecInv'
<1>1. hit => \A w \in Workers : ~Owns(w, r)
  BY DEF Ownership, OwnInv
<1>2. QED
  BY <1>1, OwnUpdate, RecUpdate DEF Ownership

\* A submission keeps ownership ...
LEMMA OwnSubmit ==
  ASSUME TypeInv, Ownership, SafeDeployment,
         \/ \E r \in Rows : SubmitNew(r) \/ SubmitNewLost(r)
         \/ \E r \in Rows : SubmitAgain(r)
         \/ SubmitIfActive
         \/ \E r \in Rows : DeliverDelayed(r)
         \/ \E k \in Carriers : SubmitToPool(k)
         \/ \E k \in Carriers : SubmitToPoolError(k) \/ SubmitToPoolLost(k)
         \/ \E k \in Carriers : Enqueue(k)
         \/ \E k \in Carriers : EnqueueFull(k)
         \/ \E k \in Carriers : EnqueueRejected(k)
         \/ MarkRequeueFailed
  PROVE  OwnInv' /\ RecInv'
<1>1. CASE \E r \in Rows : SubmitNew(r) \/ SubmitNewLost(r)
  <2>1. PICK r \in Rows : SubmitNew(r) \/ SubmitNewLost(r)
    BY <1>1
  <2>2. PICK u \in BOOLEAN : Update(TRUE, r, "pending", 0, 0, u) /\ status[r] # "processing"
    BY <2>1, MarksType DEF SubmitNew, SubmitNewLost
  <2>3. worker' = worker /\ torecover' = torecover /\ carrier'["recq"] = carrier["recq"]
    BY <2>1 DEF SubmitNew, SubmitNewLost, Hold, TypeInv, CarrierType, Carriers
  <2>4. QED
    BY <2>2, <2>3, OwnGuarded
<1>2. CASE \E r \in Rows : SubmitAgain(r)
  BY <1>2, OwnNoRow DEF SubmitAgain, Hold, TypeInv, CarrierType, Carriers
<1>3. CASE SubmitIfActive
  BY <1>3, OwnNoRow DEF SubmitIfActive, Step, Release, Idle, TypeInv, CarrierType, Carriers
<1>4. CASE \E r \in Rows : DeliverDelayed(r)
  BY <1>4, OwnNoRow DEF DeliverDelayed, Hold, TypeInv, CarrierType, Carriers
<1>5. CASE \E k \in Carriers : SubmitToPool(k)
  <2>1. PICK k \in Carriers : SubmitToPool(k)
    BY <1>5
  <2>2. PICK q \in Rows : q = carrier[k].row
    BY <2>1 DEF SubmitToPool, TypeInv, CarrierType
  <2>3. PICK hit \in BOOLEAN, n \in Nat, u \in BOOLEAN :
          Update(hit, q, "pending", n, 0, u) /\ (hit => status[q] # "processing")
    BY <2>1, <2>2 DEF SubmitToPool, TypeInv, RowType
  <2>4. carrier'["recq"] = carrier["recq"] \/ carrier'["recq"].pc # "reset"
    BY <2>1 DEF SubmitToPool, TypeInv, CarrierType, CarrierState, Carriers
  <2>5. QED
    BY <2>1, <2>3, <2>4, OwnGuarded DEF SubmitToPool
<1>6. CASE \E k \in Carriers : SubmitToPoolError(k) \/ SubmitToPoolLost(k)
  <2>1. CASE \E k \in Carriers : SubmitToPoolError(k)
    BY <2>1, OwnNoRow DEF SubmitToPoolError, Step, Release, Idle, TypeInv, CarrierType, Carriers
  <2>2. CASE \E k \in Carriers : SubmitToPoolLost(k)
    <3>1. PICK k \in Carriers : SubmitToPoolLost(k)
      BY <2>2
    <3>2. PICK q \in Rows : q = carrier[k].row
      BY <3>1 DEF SubmitToPoolLost, TypeInv, CarrierType
    <3>3. PICK n \in Nat, u \in BOOLEAN :
            Update(TRUE, q, "pending", n, 0, u) /\ status[q] # "processing"
      BY <3>1, <3>2 DEF SubmitToPoolLost, TypeInv, RowType
    <3>4. carrier'["recq"] = carrier["recq"] \/ carrier'["recq"].pc # "reset"
      BY <3>1 DEF SubmitToPoolLost, Release, Idle, TypeInv, CarrierType, Carriers
    <3>5. QED
      BY <3>1, <3>3, <3>4, OwnGuarded DEF SubmitToPoolLost
  <2>3. QED
    BY <1>6, <2>1, <2>2
<1>7. CASE \E k \in Carriers : Enqueue(k)
  BY <1>7, OwnNoRow DEF Enqueue, Step, Release, Idle, TypeInv, CarrierType, Carriers
<1>8. CASE \E k \in Carriers : EnqueueFull(k)
  BY <1>8, OwnNoRow DEF EnqueueFull, Step, Release, Idle, TypeInv, CarrierType, Carriers
<1>9. CASE \E k \in Carriers : EnqueueRejected(k)
  BY <1>9, OwnNoRow DEF EnqueueRejected, GiveUp, Step, Release, Idle, TypeInv, CarrierType, Carriers
<1>10. CASE MarkRequeueFailed
  BY <1>10 DEF MarkRequeueFailed, Ownership, ErrInv
<1>11. QED
  BY <1>1, <1>2, <1>3, <1>4, <1>5, <1>6, <1>7, <1>8, <1>9, <1>10

\* What a lost answer of a reset leaves behind: a row nobody owns is pending.
LEMMA OwnResetLost ==
  ASSUME TypeInv, Ownership, NEW k \in Carriers, ResetLost(k)
  PROVE  OwnInv' /\ RecInv'
<1>1. PICK q \in Rows : q = carrier[k].row
  BY ResetLostWrites
<1>2. PICK n \in {0, 1}, u \in BOOLEAN : Update(TRUE, q, "pending", 0, n, u)
  BY <1>1, ResetLostWrites
<1>3. /\ worker' = worker /\ torecover' = torecover
      /\ carrier' = [carrier EXCEPT ![k] = carrier'[k]]
      /\ carrier'[k].pc # "reset"
  BY DEF ResetLost, Release, Idle, TypeInv, CarrierType
<1>4. carrier'["recq"] = carrier["recq"] \/ carrier'["recq"].pc # "reset"
  BY <1>3 DEF Carriers, TypeInv, CarrierType
<1>5. n \in Nat
  OBVIOUS
<1>6. CASE status[q] # "processing"
  BY <1>2, <1>3, <1>4, <1>5, <1>6, OwnGuarded
<1>7. CASE status[q] = "processing"
  <2>1. k = "recq" /\ carrier["recq"].pc = "reset"
    BY <1>1, <1>7 DEF ResetLost, Terminal
  <2>2. \A w \in Workers : ~Owns(w, q)
    BY <1>1, <2>1 DEF Ownership, RecInv
  <2>3. OwnInv'
    BY <1>2, <1>3, <1>5, <2>2, OwnUpdate DEF Ownership
  <2>4. QED
    BY <1>3, <2>1, <2>3 DEF Ownership, RecInv
<1>8. QED
  BY <1>6, <1>7

\* The idle reaper takes a pool away, but nobody's row.
LEMMA OwnReap ==
  ASSUME TypeInv, Ownership, Reap
  PROVE  /\ OwnInv' /\ RecInv'
         /\ \A w \in Workers : \A r : Owns(w, r)' <=> Owns(w, r)
<1>1. UNCHANGED row /\ torecover' = torecover /\ carrier' = carrier
  BY DEF Reap
<1>2. \A w \in Workers : /\ worker'[w].pc = worker[w].pc /\ worker'[w].row = worker[w].row
                        /\ worker'[w].rep = worker[w].rep /\ worker'[w].rpr = worker[w].rpr
  BY DEF Reap, TypeInv, WorkerType, WorkerState
<1>3. \A w \in Workers : \A r : Owns(w, r)' <=> Owns(w, r)
  BY <1>2 DEF Owns
<1>4. QED
  BY <1>1, <1>2, <1>3 DEF Ownership, OwnInv, RecInv, Fenced

\* ... and so do the governance queues, the operators and the drain.
LEMMA OwnQueues ==
  ASSUME TypeInv, Ownership, SafeDeployment,
         \/ \E r \in Rows : ErrorSelect(r)
         \/ ErrorReset
         \/ \E r \in Rows : RepeatSelect(r)
         \/ RepeatReset
         \/ \E r \in Rows : RecoverVisit(r)
         \/ RecoverReset
         \/ \E r \in Rows : RetryLoad(r)
         \/ RetryReset
         \/ \E r \in Rows : UrgentLoad(r)
         \/ UrgentReset
         \/ \E r \in Rows : MarkTaskFailed(r)
         \/ \E r \in Rows : DeleteTask(r)
         \/ \E r \in Rows : SetTaskRepeatInterval(r)
         \/ Pause
         \/ Resume
         \/ DrainSwap
         \/ DrainPaused
         \/ DrainOpen
         \/ DrainNext
         \/ DrainRereadError
         \/ RecoverSelectError
         \/ \E k \in Carriers : ResetError(k) \/ ResetLost(k)
         \/ Reap
  PROVE  OwnInv' /\ RecInv'
<1>1. CASE \E r \in Rows : ErrorSelect(r)
  BY <1>1, OwnNoRow DEF ErrorSelect, Hold, TypeInv, CarrierType, Carriers
<1>2. CASE ErrorReset
  <2>1. PICK q \in Rows : q = carrier["errq"].row
    BY <1>2 DEF ErrorReset, TypeInv, CarrierType, Carriers
  <2>2. PICK hit \in BOOLEAN, u \in BOOLEAN :
          Update(hit, q, "pending", 0, 1, u) /\ (hit => status[q] # "processing")
    BY <1>2, <2>1 DEF ErrorReset, TypeInv, RowType
  <2>3. QED
    BY <1>2, <2>2, OwnGuarded DEF ErrorReset, Step, Release, Idle, TypeInv, CarrierType, Carriers
<1>3. CASE \E r \in Rows : RepeatSelect(r)
  BY <1>3, OwnNoRow DEF RepeatSelect, Hold, TypeInv, CarrierType, Carriers
<1>4. CASE RepeatReset
  <2>1. PICK q \in Rows : q = carrier["repq"].row
    BY <1>4 DEF RepeatReset, TypeInv, CarrierType, Carriers
  <2>2. PICK hit \in BOOLEAN, u \in BOOLEAN :
          Update(hit, q, "pending", 0, 0, u) /\ (hit => status[q] # "processing")
    BY <1>4, <2>1 DEF RepeatReset, SetStatus, Terminal, TypeInv, RowType
  <2>3. QED
    BY <1>4, <2>2, OwnGuarded DEF RepeatReset, Step, Release, Idle, TypeInv, CarrierType, Carriers
<1>5. CASE \E r \in Rows : RecoverVisit(r)
  <2>1. PICK r \in Rows : RecoverVisit(r)
    BY <1>5
  <2>2. OwnInv'
    BY <2>1, OwnFrame DEF RecoverVisit, Ownership
  <2>3. "mark" \notin Ops
    BY <2>1 DEF RecoverVisit, Ownership, RecInv
  <2>4. status[r] = "processing" /\ ~fresh[r] => \A w \in Workers : ~Owns(w, r)
    BY DEF Ownership, OwnInv
  <2>5. carrier'["recq"].pc = "reset" =>
          carrier'["recq"].row = r /\ status[r] = "processing" /\ ~fresh[r]
    BY <2>1 DEF RecoverVisit, Hold, Snapshot, Recovered, TypeInv, CarrierType, CarrierState, Carriers
  <2>6. QED
    BY <2>1, <2>2, <2>3, <2>4, <2>5 DEF RecoverVisit, RecInv, Owns
<1>6. CASE RecoverReset
  <2>1. PICK q \in Rows : q = carrier["recq"].row
    BY <1>6 DEF RecoverReset, TypeInv, CarrierType, Carriers
  <2>2. \A w \in Workers : ~Owns(w, q)
    BY <1>6, <2>1 DEF RecoverReset, Ownership, RecInv
  <2>3. PICK hit \in BOOLEAN, u \in BOOLEAN : Update(hit, q, "pending", 0, 0, u)
    <3>1. status[q] = "processing"
      BY <1>6, <2>1 DEF RecoverReset, Ownership, RecInv
    <3>2. Update(TRUE, q, "pending", 0, 0, urgent[q])
      BY <1>6, <2>1, <3>1 DEF RecoverReset, SetStatus, Update
    <3>3. QED
      BY <3>2 DEF TypeInv, RowType
  <2>4. OwnInv'
    BY <1>6, <2>2, <2>3, OwnUpdate DEF RecoverReset, Ownership
  <2>5. carrier'["recq"].pc # "reset"
    BY <1>6 DEF RecoverReset, Recovered, Step, Release, Idle, TypeInv, CarrierType, CarrierState, Carriers
  <2>6. QED
    BY <1>6, <2>4, <2>5 DEF RecoverReset, Ownership, RecInv
<1>7. CASE \E r \in Rows : RetryLoad(r)
  BY <1>7, OwnNoRow DEF RetryLoad, Hold, TypeInv, CarrierType, Carriers
<1>8. CASE RetryReset
  <2>1. PICK q \in Rows : q = carrier["retry"].row
    BY <1>8 DEF RetryReset, TypeInv, CarrierType, Carriers
  <2>2. PICK hit \in BOOLEAN, u \in BOOLEAN :
          Update(hit, q, "pending", 0, 1, u) /\ (hit => status[q] # "processing")
    BY <1>8, <2>1 DEF RetryReset, TypeInv, RowType
  <2>3. QED
    BY <1>8, <2>2, OwnGuarded DEF RetryReset, Step, Release, Idle, TypeInv, CarrierType, Carriers
<1>9. CASE \E r \in Rows : UrgentLoad(r)
  BY <1>9, OwnNoRow DEF UrgentLoad, Hold, TypeInv, CarrierType, Carriers
<1>10. CASE UrgentReset
  <2>1. PICK q \in Rows : q = carrier["urgent"].row
    BY <1>10 DEF UrgentReset, TypeInv, CarrierType, Carriers
  <2>2. PICK hit \in BOOLEAN, u \in BOOLEAN :
          Update(hit, q, "pending", 0, 0, u) /\ (hit => status[q] # "processing")
    BY <1>10, <2>1 DEF UrgentReset, TypeInv, RowType
  <2>3. QED
    BY <1>10, <2>2, OwnGuarded DEF UrgentReset, Step, Release, Idle, TypeInv, CarrierType, Carriers
<1>11. CASE \E r \in Rows : MarkTaskFailed(r)
  <2>1. PICK r \in Rows : MarkTaskFailed(r)
    BY <1>11
  <2>2. "mark" \in Ops /\ \A w \in Workers : ~Owns(w, r)
    BY <2>1 DEF MarkTaskFailed, Ownership, OwnInv
  <2>3. PICK u \in BOOLEAN : Update(TRUE, r, "failed", 0, 0, u)
    BY <2>1 DEF MarkTaskFailed, SetStatus, TypeInv, RowType
  <2>4. OwnInv'
    BY <2>1, <2>2, <2>3, OwnUpdate DEF MarkTaskFailed, Ownership
  <2>5. QED
    BY <2>1, <2>2, <2>4 DEF MarkTaskFailed, Ownership, RecInv
<1>12. CASE \E r \in Rows : DeleteTask(r)
  <2>1. PICK r \in Rows : DeleteTask(r)
    BY <1>12
  <2>2. status[r] # "processing"
    BY <2>1 DEF DeleteTask, Terminal
  <2>3. \A p \in Rows : p # r => status'[p] = status[p]
    BY <2>1 DEF DeleteTask, TypeInv, RowType
  <2>4. OwnInv'
    BY <2>1, <2>2, <2>3 DEF DeleteTask, Ownership, OwnInv, Owns, Fenced, TypeInv, WorkerType
  <2>5. QED
    BY <2>1, <2>2, <2>3, <2>4 DEF DeleteTask, Ownership, RecInv, Owns, TypeInv, CarrierType, Carriers
<1>13. CASE \E r \in Rows : SetTaskRepeatInterval(r)
  <2>1. PICK r \in Rows : SetTaskRepeatInterval(r)
    BY <1>13
  <2>2. /\ status' = status /\ repeat' = repeat /\ reprocess' = reprocess
        /\ \A p \in Rows : fresh[p] => fresh'[p]
    BY <2>1 DEF SetTaskRepeatInterval, SetStatus, Update, TypeInv, RowType
  <2>3. QED
    BY <2>1, <2>2 DEF SetTaskRepeatInterval, Ownership, OwnInv, RecInv, Owns, Fenced
<1>14. CASE Pause
  BY <1>14, OwnNoRow DEF Pause
<1>15. CASE Resume
  BY <1>15, OwnNoRow DEF Resume
<1>16. CASE DrainSwap
  BY <1>16, OwnNoRow DEF DrainSwap, Step, TypeInv, CarrierType, Carriers
<1>17. CASE DrainPaused
  BY <1>17, OwnNoRow DEF DrainPaused, Idle, TypeInv, CarrierType, Carriers
<1>18. CASE DrainOpen
  BY <1>18, OwnNoRow DEF DrainOpen, Step, TypeInv, CarrierType, Carriers
<1>19. CASE DrainNext
  BY <1>19, OwnNoRow DEF DrainNext, Hold, Idle, TypeInv, CarrierType, Carriers
<1>20. CASE DrainRereadError
  BY <1>20, OwnNoRow DEF DrainRereadError, Idle, TypeInv, CarrierType, Carriers
<1>21. CASE RecoverSelectError
  BY <1>21, OwnFrame DEF RecoverSelectError, Ownership, RecInv, Owns
<1>22. CASE \E k \in Carriers : ResetError(k)
  BY <1>22, OwnNoRow DEF ResetError, Release, Idle, TypeInv, CarrierType, Carriers
<1>23. CASE \E k \in Carriers : ResetLost(k)
  BY <1>23, OwnResetLost
<1>24. CASE Reap
  BY <1>24, OwnReap
<1>25. QED
  BY <1>1, <1>2, <1>3, <1>4, <1>5, <1>6, <1>7, <1>8, <1>9, <1>10, <1>11, <1>12, <1>13, <1>14, <1>15, <1>16, <1>17, <1>18, <1>19, <1>20, <1>21, <1>22, <1>23, <1>24

\* A worker that writes its own row, or a row nobody owns, and lets go of it.
LEMMA OwnRelease ==
  ASSUME TypeInv, Ownership, NEW w \in Workers, NEW r \in Rows, r = worker[w].row,
         NEW hit \in BOOLEAN, NEW s, NEW u, Update(hit, r, s, 0, 0, u),
         hit => Owns(w, r), Leave(w), torecover' = torecover, carrier' = carrier
  PROVE  OwnInv' /\ RecInv'
<1>1. \A v \in Workers : \A q : Owns(v, q)' => v # w /\ Owns(v, q) /\ worker'[v] = worker[v]
  BY DEF Owns, Leave, AtGate, TypeInv, WorkerType
<1>2. \A v \in Workers, q \in Rows : Owns(v, q)' =>
         /\ status'[q] = status[q] /\ fresh'[q] = fresh[q]
         /\ repeat'[q] = repeat[q] /\ reprocess'[q] = reprocess[q]
  <2>1. \A v \in Workers, q \in Rows : Owns(v, q)' => ~hit \/ q # r
    BY <1>1 DEF Ownership, OwnInv
  <2>2. QED
    BY <2>1 DEF Update, TypeInv, RowType
<1>3. \A v \in Workers : v # w => worker'[v] = worker[v]
  BY DEF Leave, TypeInv, WorkerType
<1>4. \A v \in Workers : worker'[v].pc \in {"run", "persist"} =>
         v # w /\ worker[v].row \in Rows /\ Owns(v, worker[v].row)'
  BY <1>3 DEF Leave, AtGate, Owns, TypeInv, WorkerType
<1>5. OwnInv'
  BY <1>1, <1>2, <1>3, <1>4 DEF Ownership, OwnInv, Fenced
<1>6. carrier["recq"].pc = "reset" =>
         carrier["recq"].row # r \/ status'[r] = status[r]
  BY DEF Update, Ownership, RecInv, TypeInv, RowType
<1>7. carrier["recq"].pc = "reset" => status'[carrier["recq"].row] = status[carrier["recq"].row]
  BY <1>6 DEF Update, TypeInv, RowType, CarrierType, Carriers
<1>8. RecInv'
  BY <1>1, <1>7 DEF Ownership, RecInv
<1>9. QED
  BY <1>5, <1>8

\* Workers that take a copy, give it up, or fail to claim it.
LEMMA OwnIdle ==
  ASSUME TypeInv, Ownership, NEW w \in Workers,
         \/ Gate(w) \/ TakeFast(w) \/ TakeMain(w) \/ TakeDrop(w)
         \/ ClaimError(w) \/ ClaimCancelled(w)
  PROVE  OwnInv' /\ RecInv'
<1>1. /\ UNCHANGED row /\ torecover' = torecover /\ carrier' = carrier
  BY DEF Gate, TakeFast, TakeMain, TakeDrop, ClaimError, ClaimCancelled
<1>2. /\ \A v \in Workers : v # w => worker'[v] = worker[v]
      /\ worker'[w].pc \in {"gate", "ready", "claim"}
  <2>1. CASE Gate(w)
    BY <2>1 DEF Gate, Grab, Move, AtGate, TypeInv, WorkerType, WorkerState
  <2>2. CASE TakeFast(w) \/ TakeMain(w)
    BY <2>2 DEF TakeFast, TakeMain, Grab, AtGate, TypeInv, WorkerType
  <2>3. CASE TakeDrop(w)
    BY <2>3 DEF TakeDrop
  <2>4. CASE ClaimError(w)
    BY <2>4 DEF ClaimError, TypeInv, WorkerType, WorkerState
  <2>5. CASE ClaimCancelled(w)
    BY <2>5 DEF ClaimCancelled, Leave, AtGate, TypeInv, WorkerType
  <2>6. QED
    BY <2>1, <2>2, <2>3, <2>4, <2>5
<1>3. QED
  BY <1>1, <1>2, OwnLess DEF Ownership

\* The claim makes an owner of a row nobody owns ...
LEMMA OwnClaim ==
  ASSUME TypeInv, Ownership, NEW w \in Workers, Claim(w)
  PROVE  OwnInv' /\ RecInv'
<1>1. PICK r \in Rows : r = worker[w].row
  BY DEF Claim, TypeInv, WorkerType
<1>2. CASE status[r] # "pending"
  <2>1. UNCHANGED row /\ Leave(w) /\ torecover' = torecover /\ carrier' = carrier
    BY <1>1, <1>2 DEF Claim, Update
  <2>2. /\ \A v \in Workers : v # w => worker'[v] = worker[v]
        /\ worker'[w].pc = "gate"
    BY <2>1 DEF Leave, AtGate, TypeInv, WorkerType
  <2>3. QED
    BY <2>1, <2>2, OwnLess DEF Ownership
<1>3. CASE status[r] = "pending"
  <2>1. /\ Update(TRUE, r, "processing", 0, 0, FALSE) /\ Move(w, "read")
        /\ torecover' = torecover /\ carrier' = carrier
    BY <1>1, <1>3 DEF Claim
  <2>2. /\ \A v \in Workers : v # w => worker'[v] = worker[v]
        /\ worker'[w].pc = "read" /\ worker'[w].row = r
    BY <1>1, <2>1 DEF Move, TypeInv, WorkerType, WorkerState
  <2>3. /\ status'[r] = "processing" /\ fresh'[r]
        /\ \A q \in Rows : q # r =>
             /\ status'[q] = status[q] /\ fresh'[q] = fresh[q]
             /\ repeat'[q] = repeat[q] /\ reprocess'[q] = reprocess[q]
    BY <2>1 DEF Update, TypeInv, RowType
  <2>4. \A v \in Workers : ~Owns(v, r)
    BY <1>3 DEF Ownership, OwnInv
  <2>5. \A v \in Workers, q \in Rows : Owns(v, q)' <=> (v = w /\ q = r) \/ (v # w /\ q # r /\ Owns(v, q))
    BY <2>2, <2>4 DEF Owns
  <2>6. \A v \in Workers : worker'[v].pc \in {"run", "persist"} =>
          v # w /\ worker'[v] = worker[v] /\ worker[v].row \in Rows /\ worker[v].row # r
    BY <2>2, <2>4 DEF Owns, TypeInv, WorkerType
  <2>7. OwnInv'
    BY <2>3, <2>5, <2>6 DEF Ownership, OwnInv, Fenced
  <2>8. carrier["recq"].pc = "reset" =>
          carrier["recq"].row \in Rows /\ carrier["recq"].row # r
    BY <1>3 DEF Ownership, RecInv, TypeInv, CarrierType, Carriers
  <2>9. QED
    BY <2>1, <2>3, <2>5, <2>7, <2>8 DEF Ownership, RecInv
<1>4. QED
  BY <1>2, <1>3

\* ... unless its answer is lost, which leaves a row nobody owns.
LEMMA OwnClaimLost ==
  ASSUME TypeInv, Ownership, NEW w \in Workers, ClaimLost(w)
  PROVE  OwnInv' /\ RecInv'
<1>1. PICK r \in Rows : r = worker[w].row
  BY DEF ClaimLost, TypeInv, WorkerType
<1>2. /\ Update(TRUE, r, "processing", 0, 0, FALSE) /\ status[r] = "pending"
      /\ torecover' = torecover /\ carrier' = carrier
  BY <1>1 DEF ClaimLost
<1>3. /\ \A v \in Workers : v # w => worker'[v] = worker[v]
      /\ worker[w].pc = "claim" /\ worker'[w].pc = "claim"
  BY DEF ClaimLost, TypeInv, WorkerType, WorkerState
<1>4. \A v \in Workers : \A q : Owns(v, q)' <=> Owns(v, q)
  BY <1>3 DEF Owns
<1>5. \A v \in Workers : ~Owns(v, r)
  BY <1>2 DEF Ownership, OwnInv
<1>6. \A q \in Rows : q # r =>
        /\ status'[q] = status[q] /\ fresh'[q] = fresh[q]
        /\ repeat'[q] = repeat[q] /\ reprocess'[q] = reprocess[q]
  BY <1>2 DEF Update, TypeInv, RowType
<1>7. \A v \in Workers : worker'[v].pc \in {"run", "persist"} =>
        worker'[v] = worker[v] /\ worker[v].row \in Rows /\ worker[v].row # r
  BY <1>3, <1>5 DEF Owns, TypeInv, WorkerType
<1>8. OwnInv'
  BY <1>4, <1>5, <1>6, <1>7 DEF Ownership, OwnInv, Fenced
<1>9. carrier["recq"].pc = "reset" =>
        carrier["recq"].row \in Rows /\ carrier["recq"].row # r
  BY <1>2 DEF Ownership, RecInv, TypeInv, CarrierType, Carriers
<1>10. QED
  BY <1>2, <1>4, <1>6, <1>8, <1>9 DEF Ownership, RecInv

\* The owner goes on with its row ...
LEMMA OwnProgress ==
  ASSUME TypeInv, Ownership, NEW w \in Workers, NEW out \in Terminal,
         ReadRound(w) \/ RunEnds(w, out)
  PROVE  OwnInv' /\ RecInv'
<1>1. PICK r \in Rows : r = worker[w].row
  BY DEF ReadRound, RunEnds, TypeInv, WorkerType
<1>2. Owns(w, r) /\ status[r] = "processing"
  BY <1>1 DEF ReadRound, RunEnds, Owns, Ownership, OwnInv
<1>3. /\ UNCHANGED row /\ torecover' = torecover /\ carrier' = carrier
  BY DEF ReadRound, RunEnds
<1>4. /\ \A v \in Workers : v # w => worker'[v] = worker[v]
      /\ worker'[w].row = r /\ worker'[w].pc \in {"run", "persist"}
      /\ worker'[w].rep = repeat[r] /\ worker'[w].rpr = reprocess[r]
  <2>1. CASE ReadRound(w)
    BY <1>1, <1>2, <2>1 DEF ReadRound, TypeInv, WorkerType, WorkerState
  <2>2. CASE RunEnds(w, out)
    BY <1>1, <2>2 DEF RunEnds, Ownership, OwnInv, Fenced, TypeInv, WorkerType, WorkerState
  <2>3. QED
    BY <2>1, <2>2
<1>5. \A v \in Workers : \A q : Owns(v, q)' <=> Owns(v, q)
  BY <1>1, <1>2, <1>4 DEF Owns
<1>6. \A v \in Workers : v # w => (Fenced(v)' <=> Fenced(v))
  BY <1>3, <1>4 DEF Fenced
<1>7. Fenced(w)'
  BY <1>2, <1>3, <1>4 DEF Fenced
<1>8. QED
  BY <1>3, <1>4, <1>5, <1>6, <1>7 DEF Ownership, OwnInv, RecInv

\* ... or ends with it: persisted, given back, or left as unsettled.
LEMMA OwnEnd ==
  ASSUME TypeInv, Ownership, NEW w \in Workers,
         ReadCancelled(w) \/ RunCancelled(w) \/ Persist(w) \/ PersistCancelled(w)
  PROVE  OwnInv' /\ RecInv'
<1>1. PICK r \in Rows : r = worker[w].row
  BY DEF ReadCancelled, RunCancelled, Persist, PersistCancelled, TypeInv, WorkerType
<1>2. Owns(w, r) /\ Leave(w) /\ torecover' = torecover /\ carrier' = carrier
  BY <1>1 DEF ReadCancelled, RunCancelled, GiveBack, Persist, PersistCancelled, Owns
<1>3. PICK hit \in BOOLEAN, s \in Statuses : Update(hit, r, s, 0, 0, urgent[r])
  <2>1. CASE ReadCancelled(w) \/ RunCancelled(w)
    <3>1. \/ Update(status[r] = "processing", r, "pending", 0, 0, urgent[r])
          \/ UNCHANGED row
      BY <1>1, <2>1 DEF ReadCancelled, RunCancelled, GiveBack, SetStatus
    <3>2. PICK hit \in BOOLEAN : Update(hit, r, "pending", 0, 0, urgent[r])
      BY <3>1 DEF Update
    <3>3. QED
      BY <3>2 DEF Statuses
  <2>2. CASE Persist(w)
    <3>1. Update(Fenced(w), r, worker[w].out, 0, 0, urgent[r])
      BY <1>1, <2>2 DEF Persist, SetStatus
    <3>2. worker[w].out \in Statuses
      BY <2>2 DEF Persist, TypeInv, WorkerType, Statuses
    <3>3. Fenced(w) \in BOOLEAN
      BY DEF Fenced
    <3>4. QED
      BY <3>1, <3>2, <3>3
  <2>3. CASE PersistCancelled(w)
    <3>1. Update(FALSE, r, "pending", 0, 0, urgent[r])
      BY <2>3 DEF PersistCancelled, Update
    <3>2. QED
      BY <3>1 DEF Statuses
  <2>4. QED
    BY <2>1, <2>2, <2>3
<1>4. PICK u \in BOOLEAN : Update(hit, r, s, 0, 0, u)
  BY <1>3 DEF TypeInv, RowType
<1>5. QED
  BY <1>1, <1>2, <1>4, OwnRelease

\* Every step of a worker keeps ownership.
LEMMA OwnWorker ==
  ASSUME TypeInv, Ownership, SafeDeployment, NEW w \in Workers, WorkerStep(w) \/ WorkerFault(w)
  PROVE  OwnInv' /\ RecInv'
<1>1. "success" \in Terminal
  BY DEF Terminal
<1>2. ~PersistLost(w)
  BY DEF PersistLost, SafeDeployment
<1>3. QED
  BY <1>1, <1>2, OwnIdle, OwnClaim, OwnClaimLost, OwnProgress, OwnEnd
     DEF WorkerStep, WorkerFault

\* Nobody owns a row at the start.
LEMMA OwnershipInit == SafeDeployment /\ Init => Ownership
<1> SUFFICES ASSUME Init PROVE Ownership
  OBVIOUS
<1>1. \A w \in Workers : worker[w].pc = "gate"
  BY DEF Init, AtGate
<1>2. \A k \in Carriers : carrier[k].pc = "idle"
  BY DEF Init, Idle
<1>3. OwnInv
  BY <1>1 DEF OwnInv, Owns
<1>4. RecInv /\ ErrInv
  BY <1>2 DEF Init, RecInv, ErrInv, Carriers
<1>5. QED
  BY <1>3, <1>4 DEF Ownership

\* Every step of the engine keeps ownership.
LEMMA OwnershipNext ==
  ASSUME TypeInv, Ownership, SafeDeployment, [Next]_vars
  PROVE  Ownership'
<1>1. ErrInv'
  BY ErrNext DEF Ownership
<1>2. OwnInv' /\ RecInv'
  <2>1. CASE \E w \in Workers : WorkerStep(w) \/ WorkerFault(w)
    BY <2>1, OwnWorker
  <2>2. CASE CarrierStep
    BY <2>2, OwnSubmit, OwnQueues DEF CarrierStep
  <2>3. CASE CarrierFault
    BY <2>3, OwnSubmit, OwnQueues DEF CarrierFault
  <2>4. CASE Trigger
    BY <2>4, OwnSubmit, OwnQueues DEF Trigger
  <2>5. CASE Stop \/ Count \/ Return \/ UNCHANGED vars
    BY <2>5, OwnNoRow DEF Stop, Count, Return, vars
  <2>6. CASE Restart
    <3>1. "mark" \notin Ops
      BY <2>6 DEF Restart, SafeDeployment, TypeInv, LifeType
    <3>2. /\ \A w \in Workers : worker'[w].pc = "gate"
          /\ carrier'["recq"].pc = "idle"
      BY <2>6 DEF Restart, AtGate, Idle, Carriers
    <3>3. QED
      BY <3>1, <3>2 DEF OwnInv, RecInv, Owns
  <2>7. QED
    BY <2>1, <2>2, <2>3, <2>4, <2>5, <2>6 DEF Next
<1>3. QED
  BY <1>1, <1>2 DEF Ownership

-----------------------------------------------------------------------------
(* What follows for the engine                                               *)

\* Ownership is an invariant of the engine in a safe deployment.
LEMMA OwnershipAlways ==
  ASSUME SafeDeployment
  PROVE  Spec => [](TypeInv /\ Ownership)
<1>1. Init => TypeInv /\ Ownership
  BY TypeInit, OwnershipInit
<1>2. TypeInv /\ Ownership /\ [Next]_vars => (TypeInv /\ Ownership)'
  BY TypeNext, OwnershipNext
<1>3. QED
  BY <1>1, <1>2, PTL DEF Spec

\* However many copies of a row are under way, no two workers execute it at the
\* same time: the guard of claimTask and the status guards of every other writer
\* are enough, whatever the order in which their statements reach the database.
THEOREM ExecutionIsExclusive ==
  ASSUME SafeDeployment
  PROVE  Spec => []ExclusiveExecution
<1>1. Ownership => ExclusiveExecution
  BY DEF Ownership, OwnInv, ExclusiveExecution, Holds, Owns
<1>2. QED
  BY <1>1, OwnershipAlways, PTL

\* While FetchHandler runs, its row stays in processing, in the round and the
\* generation the worker has read after its claim (claimForExecution).
THEOREM RunningRowIsUntouched ==
  ASSUME SafeDeployment
  PROVE  Spec => []RunningRowUntouched
<1>1. Ownership => RunningRowUntouched
  BY DEF Ownership, OwnInv, RunningRowUntouched
<1>2. QED
  BY <1>1, OwnershipAlways, PTL

\* A row this process executes becomes terminal by persistTerminal of the worker
\* that executed it, with that worker's outcome, and while nobody else runs it.
THEOREM TerminalIsByHolder ==
  ASSUME SafeDeployment
  PROVE  Spec => TerminalByHolder
<1> DEFINE Ended(r) == status[r] = "processing" /\ fresh[r] /\ status'[r] \in Terminal
           ByHolder(r) == \E w \in Workers :
             /\ worker[w].row = r /\ worker[w].pc = "persist" /\ Fenced(w)
             /\ status'[r] = worker[w].out
             /\ ~ \E v \in Workers : Holds(v, r)
<1>1. ASSUME TypeInv, Ownership, Next, NEW r \in Rows, Ended(r)
      PROVE  ByHolder(r)
  <2>1. CASE \E w \in Workers : WorkerStep(w) \/ WorkerFault(w)
    <3>1. PICK w \in Workers : WorkerStep(w) \/ WorkerFault(w)
      BY <2>1
    <3>2. /\ worker[w].row = r /\ worker[w].pc = "persist" /\ Fenced(w)
          /\ status'[r] = worker[w].out
      BY <1>1, <3>1, WorkerEnds
    <3>3. \A v \in Workers : ~Holds(v, r)
      BY <1>1, <3>2 DEF Ownership, OwnInv, Owns, Holds
    <3>4. QED
      BY <3>2, <3>3
  <2>2. CASE CarrierStep \/ CarrierFault
    <3>1. ~MarkRequeueFailed
      BY <1>1 DEF MarkRequeueFailed, Ownership, ErrInv
    <3>2. QED
      BY <1>1, <2>2, <3>1, CarrierEnds
  <2>3. CASE Trigger
    BY <1>1, <2>3, TriggerKeeps
  <2>4. CASE Stop \/ Count \/ Return \/ Restart
    BY <1>1, <2>4 DEF Stop, Count, Return, Restart, Terminal
  <2>5. QED
    BY <1>1, <2>1, <2>2, <2>3, <2>4 DEF Next
<1>2. TypeInv /\ Ownership /\ [Next]_vars => [\A r \in Rows : Ended(r) => ByHolder(r)]_vars
  BY <1>1
<1>3. QED
  BY <1>2, OwnershipAlways, PTL DEF Spec, TerminalByHolder

-----------------------------------------------------------------------------
(* The engine implements the life cycle of TaskLife                          *)

\* RetryTask has read a row that exists.
RetryInv == carrier["retry"].pc = "reset" => status[carrier["retry"].row] # "absent"

\* The holders of TaskLife are the owners.
LEMMA OwnersOwn == Ownership => \A r \in Rows : Owners(r) = {w \in Workers : Owns(w, r)}
  BY DEF Ownership, OwnInv, Owners, Owns

\* The same in the next state.
LEMMA OwnersNext ==
  ASSUME Ownership'
  PROVE  \A r \in Rows : Owners(r)' = {w \in Workers : Owns(w, r)'}
<1>1. Ownership' => (\A r \in Rows : Owners(r) = {w \in Workers : Owns(w, r)})'
  BY OwnersOwn, PTL
<1>2. QED
  BY <1>1

\* Where nobody becomes an owner and nobody stops being one, held is unchanged.
LEMMA HeldFrame ==
  ASSUME Ownership, Ownership', \A w \in Workers, r \in Rows : Owns(w, r)' <=> Owns(w, r)
  PROVE  [r \in Rows |-> Owners(r)]' = [r \in Rows |-> Owners(r)]
<1>1. \A r \in Rows : Owners(r)' = Owners(r)
  BY OwnersOwn, OwnersNext
<1>2. QED
  BY <1>1

\* An UPDATE of a row that nobody owns is a write of TaskLife.
LEMMA LifeWrite ==
  ASSUME TypeInv, Ownership, Ownership', NEW r \in Rows, NEW hit \in BOOLEAN, NEW s,
         NEW dr \in Nat, NEW dp \in Nat, NEW u, Update(hit, r, s, dr, dp, u), worker' = worker,
         hit => \A w \in Workers : ~Owns(w, r), NEW n \in Nat, n = dr + dp
  PROVE  /\ hit => Life!Write(r, s, n)
         /\ ~hit => UNCHANGED Life!lifeVars
<1>1. \A w \in Workers, q \in Rows : Owns(w, q)' <=> Owns(w, q)
  BY DEF Owns
<1>2. [q \in Rows |-> Owners(q)]' = [q \in Rows |-> Owners(q)]
  BY <1>1, HeldFrame
<1>3. ASSUME hit
      PROVE  [q \in Rows |-> repeat[q] + reprocess[q]]' =
               [[q \in Rows |-> repeat[q] + reprocess[q]] EXCEPT ![r] = @ + n]
  <2>1. /\ repeat' = [repeat EXCEPT ![r] = repeat[r] + dr]
        /\ reprocess' = [reprocess EXCEPT ![r] = reprocess[r] + dp]
    BY <1>3 DEF Update
  <2>2. repeat \in [Rows -> Nat] /\ reprocess \in [Rows -> Nat]
    BY DEF TypeInv, RowType
  <2>3. \A q \in Rows : repeat'[q] + reprocess'[q] =
          IF q = r THEN repeat[q] + reprocess[q] + n ELSE repeat[q] + reprocess[q]
    BY <2>1, <2>2
  <2>4. QED
    BY <2>3
<1>4. ASSUME hit
      PROVE  Life!Write(r, s, n)
  <2>1. status' = [status EXCEPT ![r] = s]
    BY <1>4 DEF Update
  <2>2. Owners(r) = {}
    BY <1>4, OwnersOwn
  <2>3. QED
    BY <1>2, <1>3, <1>4, <2>1, <2>2 DEF Life!Write, Life!Free
<1>5. ASSUME ~hit
      PROVE  UNCHANGED Life!lifeVars
  <2>1. UNCHANGED <<status, repeat, reprocess>>
    BY <1>5 DEF Update
  <2>2. [q \in Rows |-> repeat[q] + reprocess[q]]' = [q \in Rows |-> repeat[q] + reprocess[q]]
    BY <2>1
  <2>3. QED
    BY <1>2, <2>1, <2>2 DEF Life!lifeVars
<1>6. QED
  BY <1>4, <1>5

\* Nothing TaskLife speaks of changes.
LEMMA LifeFrame ==
  ASSUME Ownership, Ownership', UNCHANGED <<status, repeat, reprocess>>,
         \A w \in Workers, r \in Rows : Owns(w, r)' <=> Owns(w, r)
  PROVE  UNCHANGED Life!lifeVars
<1>1. [q \in Rows |-> Owners(q)]' = [q \in Rows |-> Owners(q)]
  BY HeldFrame
<1>2. [q \in Rows |-> repeat[q] + reprocess[q]]' = [q \in Rows |-> repeat[q] + reprocess[q]]
  OBVIOUS
<1>3. QED
  BY <1>1, <1>2 DEF Life!lifeVars

\* Counting a round, or confirming that a row is pending.
LEMMA LifeCount ==
  ASSUME TypeInv, Ownership, Ownership', NEW r \in Rows, NEW hit \in BOOLEAN, NEW n \in {0, 1},
         hit = (status[r] = "pending"), Update(hit, r, "pending", n, 0, urgent[r]),
         worker' = worker
  PROVE  Life!Next \/ UNCHANGED Life!lifeVars
<1>1. hit => \A w \in Workers : ~Owns(w, r)
  BY DEF Ownership, OwnInv
<1>2. /\ hit => Life!Write(r, "pending", n)
      /\ ~hit => UNCHANGED Life!lifeVars
  <2>1. n \in Nat /\ 0 \in Nat /\ n = n + 0
    OBVIOUS
  <2>2. QED
    BY <1>1, <2>1, LifeWrite
<1>3. CASE n = 1
  BY <1>2, <1>3 DEF Life!Next, Life!Count
<1>4. CASE n = 0
  <2>1. /\ hit => status' = [status EXCEPT ![r] = "pending"]
        /\ hit => repeat' = [repeat EXCEPT ![r] = repeat[r] + 0]
        /\ hit => reprocess' = [reprocess EXCEPT ![r] = reprocess[r] + 0]
        /\ ~hit => UNCHANGED <<status, repeat, reprocess>>
    BY <1>4 DEF Update
  <2>2. repeat[r] + 0 = repeat[r] /\ reprocess[r] + 0 = reprocess[r]
    BY DEF TypeInv, RowType
  <2>3. UNCHANGED <<status, repeat, reprocess>>
    <3>1. CASE hit
      <4>1. /\ status' = [status EXCEPT ![r] = status[r]]
            /\ repeat' = [repeat EXCEPT ![r] = repeat[r]]
            /\ reprocess' = [reprocess EXCEPT ![r] = reprocess[r]]
        BY <2>1, <2>2, <3>1
      <4>2. QED
        BY <4>1 DEF TypeInv, RowType
    <3>2. CASE ~hit
      BY <2>1, <3>2
    <3>3. QED
      BY <3>1, <3>2
  <2>4. QED
    BY <2>3, LifeFrame DEF Owns
<1>5. QED
  BY <1>3, <1>4

\* A reset whose answer is lost is the same write as the reset itself.
LEMMA LifeResetLost ==
  ASSUME TypeInv, Ownership, Ownership', RetryInv, NEW k \in Carriers, ResetLost(k)
  PROVE  Life!Next \/ UNCHANGED Life!lifeVars
<1>0. 0 \in Nat /\ 1 \in Nat /\ 0 = 0 + 0 /\ 1 = 0 + 1
  OBVIOUS
<1>1. PICK r \in Rows : r = carrier[k].row
  BY ResetLostWrites
<1>2. worker' = worker
  BY DEF ResetLost
<1>3. CASE /\ status[r] = "pending" /\ UNCHANGED <<status, repeat, reprocess>>
  BY <1>2, <1>3, LifeFrame DEF Owns
<1>4. ASSUME NEW n \in {0, 1}, NEW u, Update(TRUE, r, "pending", 0, n, u),
             \A w \in Workers : ~Owns(w, r)
      PROVE  Life!Write(r, "pending", n)
  <2>1. n \in Nat /\ 0 \in Nat /\ n = 0 + n
    BY <1>4
  <2>2. QED
    BY <1>2, <1>4, <2>1, LifeWrite
<1>5. status[r] # "processing" => \A w \in Workers : ~Owns(w, r)
  BY DEF Ownership, OwnInv
<1>6. CASE k \in {"errq", "repq"}
  <2>1. PICK n \in {0, 1} : Update(TRUE, r, "pending", 0, n, urgent[r]) /\ status[r] \in Terminal
    BY <1>1, <1>6 DEF ResetLost, SetStatus, Terminal
  <2>2. QED
    BY <1>4, <1>5, <2>1 DEF Life!Next, Life!Requeue, Life!Ended, Terminal
<1>7. CASE k = "recq"
  <2>1. /\ Update(TRUE, r, "pending", 0, 0, urgent[r])
        /\ status[r] = "processing" /\ \A w \in Workers : ~Owns(w, r)
    BY <1>1, <1>7 DEF ResetLost, SetStatus, Ownership, RecInv
  <2>2. QED
    BY <1>4, <2>1 DEF Life!Next, Life!Recover
<1>8. CASE k = "retry"
  <2>1. Update(TRUE, r, "pending", 0, 1, urgent[r]) /\ status[r] \notin {"gone", "processing"}
    BY <1>1, <1>8 DEF ResetLost
  <2>2. status[r] \in {"pending", "success", "failed"}
    BY <1>1, <1>8, <2>1, ResetLostWrites DEF RetryInv, TypeInv, RowType, Statuses, Terminal
  <2>3. QED
    BY <1>4, <1>5, <2>1, <2>2 DEF Life!Next, Life!Requeue, Life!Count, Life!Ended
<1>9. CASE k = "urgent"
  <2>1. Update(TRUE, r, "pending", 0, 0, TRUE) /\ status[r] = "pending"
    BY <1>1, <1>9 DEF ResetLost
  <2>2. UNCHANGED <<status, repeat, reprocess>>
    BY <2>1 DEF Update, TypeInv, RowType
  <2>3. QED
    BY <1>3, <2>1, <2>2
<1>10. k \in {"errq", "repq", "recq", "retry", "urgent"}
  BY DEF ResetLost
<1>11. QED
  BY <1>6, <1>7, <1>8, <1>9, <1>10

\* The submissions and the queues.
LEMMA LifeCarriers ==
  ASSUME TypeInv, Ownership, Ownership', RetryInv, CarrierStep \/ CarrierFault
  PROVE  Life!Next \/ UNCHANGED Life!lifeVars
<1>0. 0 \in Nat /\ 1 \in Nat /\ 0 = 0 + 0 /\ 1 = 0 + 1
  OBVIOUS
<1>1. CASE \E k \in Carriers : SubmitToPool(k) \/ SubmitToPoolLost(k)
  <2>1. PICK k \in Carriers, r \in Rows :
          (SubmitToPool(k) \/ SubmitToPoolLost(k)) /\ r = carrier[k].row
    BY <1>1 DEF SubmitToPool, SubmitToPoolLost, TypeInv, CarrierType
  <2>2. PICK hit \in BOOLEAN, n \in {0, 1} :
          hit = (status[r] = "pending") /\ Update(hit, r, "pending", n, 0, urgent[r])
    BY <2>1 DEF SubmitToPool, SubmitToPoolLost
  <2>3. worker' = worker
    BY <2>1 DEF SubmitToPool, SubmitToPoolLost
  <2>4. QED
    BY <2>2, <2>3, LifeCount
<1>2. CASE ErrorReset
  <2>1. PICK r \in Rows : r = carrier["errq"].row
    BY <1>2 DEF ErrorReset, TypeInv, CarrierType, Carriers
  <2>2. PICK hit \in BOOLEAN :
          hit = (status[r] = "failed") /\ Update(hit, r, "pending", 0, 1, urgent[r])
    BY <1>2, <2>1 DEF ErrorReset
  <2>3. worker' = worker /\ (hit => \A w \in Workers : ~Owns(w, r))
    BY <1>2, <2>2 DEF ErrorReset, Ownership, OwnInv
  <2>4. /\ hit => Life!Write(r, "pending", 1)
        /\ ~hit => UNCHANGED Life!lifeVars
    BY <1>0, <2>2, <2>3, LifeWrite
  <2>5. QED
    BY <2>2, <2>4 DEF Life!Next, Life!Requeue, Life!Ended
<1>3. CASE RepeatReset
  <2>1. PICK r \in Rows : r = carrier["repq"].row
    BY <1>3 DEF RepeatReset, TypeInv, CarrierType, Carriers
  <2>2. PICK hit \in BOOLEAN :
          (hit => status[r] \in Terminal) /\ Update(hit, r, "pending", 0, 0, urgent[r])
    BY <1>3, <2>1 DEF RepeatReset, SetStatus
  <2>3. worker' = worker /\ (hit => \A w \in Workers : ~Owns(w, r))
    BY <1>3, <2>2 DEF RepeatReset, Ownership, OwnInv, Terminal
  <2>4. /\ hit => Life!Write(r, "pending", 0)
        /\ ~hit => UNCHANGED Life!lifeVars
    BY <1>0, <2>2, <2>3, LifeWrite
  <2>5. QED
    BY <2>2, <2>4 DEF Life!Next, Life!Requeue, Life!Ended, Terminal
<1>4. CASE RecoverReset
  <2>1. PICK r \in Rows : r = carrier["recq"].row
    BY <1>4 DEF RecoverReset, TypeInv, CarrierType, Carriers
  <2>2. status[r] = "processing" /\ \A w \in Workers : ~Owns(w, r)
    BY <1>4, <2>1 DEF RecoverReset, Ownership, RecInv
  <2>3. Update(TRUE, r, "pending", 0, 0, urgent[r]) /\ worker' = worker
    BY <1>4, <2>1, <2>2 DEF RecoverReset, SetStatus
  <2>4. Life!Write(r, "pending", 0)
    BY <1>0, <2>2, <2>3, LifeWrite
  <2>5. QED
    BY <2>2, <2>4 DEF Life!Next, Life!Recover
<1>5. CASE RetryReset
  <2>1. PICK r \in Rows : r = carrier["retry"].row
    BY <1>5 DEF RetryReset, TypeInv, CarrierType, Carriers
  <2>2. PICK hit \in BOOLEAN :
          (hit => status[r] \notin {"gone", "processing"}) /\ Update(hit, r, "pending", 0, 1, urgent[r])
    BY <1>5, <2>1 DEF RetryReset
  <2>3. worker' = worker /\ (hit => \A w \in Workers : ~Owns(w, r))
    BY <1>5, <2>2 DEF RetryReset, Ownership, OwnInv
  <2>4. /\ hit => Life!Write(r, "pending", 1)
        /\ ~hit => UNCHANGED Life!lifeVars
    BY <1>0, <2>2, <2>3, LifeWrite
  <2>5. hit => status[r] \in {"pending", "success", "failed"}
    BY <1>5, <2>1, <2>2 DEF RetryReset, RetryInv, TypeInv, RowType, Statuses, Terminal
  <2>6. QED
    BY <2>4, <2>5 DEF Life!Next, Life!Requeue, Life!Count, Life!Ended
<1>6. CASE UrgentReset
  <2>1. PICK r \in Rows : r = carrier["urgent"].row
    BY <1>6 DEF UrgentReset, TypeInv, CarrierType, Carriers
  <2>2. UNCHANGED <<status, repeat, reprocess>> /\ worker' = worker
    BY <1>6, <2>1 DEF UrgentReset, Update, TypeInv, RowType
  <2>3. QED
    BY <2>2, LifeFrame DEF Owns
<1>7. ~MarkRequeueFailed
  BY DEF MarkRequeueFailed, Ownership, ErrInv
<1>8. CASE \/ SubmitIfActive \/ DrainSwap \/ DrainPaused \/ DrainOpen \/ DrainNext
           \/ DrainRereadError \/ RecoverSelectError
           \/ \E q \in Rows : DeliverDelayed(q) \/ RecoverVisit(q)
           \/ \E k \in Carriers : \/ Enqueue(k) \/ EnqueueFull(k) \/ EnqueueRejected(k)
                                  \/ SubmitToPoolError(k) \/ ResetError(k)
  <2>1. UNCHANGED <<status, repeat, reprocess>> /\ worker' = worker
    BY <1>8 DEF SubmitIfActive, DrainSwap, DrainPaused, DrainOpen, DrainNext, DrainRereadError,
       RecoverSelectError, DeliverDelayed, RecoverVisit, Enqueue, EnqueueFull, EnqueueRejected,
       SubmitToPoolError, ResetError
  <2>2. QED
    BY <2>1, LifeFrame DEF Owns
<1>9. CASE \E k \in Carriers : ResetLost(k)
  BY <1>9, LifeResetLost
<1>10. QED
  BY <1>1, <1>2, <1>3, <1>4, <1>5, <1>6, <1>7, <1>8, <1>9 DEF CarrierStep, CarrierFault

\* The triggers and the operators.
LEMMA LifeTrigger ==
  ASSUME TypeInv, Ownership, Ownership', Trigger
  PROVE  Life!Next \/ UNCHANGED Life!lifeVars
<1>0. 0 \in Nat /\ 0 = 0 + 0
  OBVIOUS
<1>1. CASE \E r \in Rows : SubmitNew(r) \/ SubmitNewLost(r)
  <2>1. PICK r \in Rows : SubmitNew(r) \/ SubmitNewLost(r)
    BY <1>1
  <2>2. PICK u \in BOOLEAN :
          /\ Update(TRUE, r, "pending", 0, 0, u) /\ worker' = worker
          /\ status[r] = "absent" /\ \A w \in Workers : ~Owns(w, r)
    BY <2>1, MarksType DEF SubmitNew, SubmitNewLost, Ownership, OwnInv
  <2>3. Life!Write(r, "pending", 0)
    BY <1>0, <2>2, LifeWrite
  <2>4. QED
    BY <2>2, <2>3 DEF Life!Next, Life!Submit
<1>2. CASE \E r \in Rows : MarkTaskFailed(r)
  <2>1. PICK r \in Rows : MarkTaskFailed(r)
    BY <1>2
  <2>2. /\ Update(TRUE, r, "failed", 0, 0, urgent[r]) /\ worker' = worker
        /\ status[r] \in {"pending", "processing"} /\ \A w \in Workers : ~Owns(w, r)
    BY <2>1 DEF MarkTaskFailed, SetStatus, Ownership, OwnInv
  <2>3. Life!Write(r, "failed", 0)
    BY <1>0, <2>2, LifeWrite
  <2>4. QED
    BY <2>2, <2>3 DEF Life!Next, Life!MarkFailed
<1>3. CASE \E r \in Rows : DeleteTask(r)
  <2>1. PICK r \in Rows : DeleteTask(r)
    BY <1>3
  <2>2. /\ status[r] \in {"pending"} \cup Terminal /\ status' = [status EXCEPT ![r] = "gone"]
        /\ UNCHANGED <<repeat, reprocess>> /\ worker' = worker
    BY <2>1 DEF DeleteTask
  <2>3. Owners(r) = {}
    BY <2>2, OwnersOwn DEF Ownership, OwnInv, Terminal
  <2>4. /\ [q \in Rows |-> Owners(q)]' = [q \in Rows |-> Owners(q)]
        /\ [q \in Rows |-> repeat[q] + reprocess[q]]' =
             [[q \in Rows |-> repeat[q] + reprocess[q]] EXCEPT ![r] = @ + 0]
    BY <2>2, HeldFrame DEF Owns, TypeInv, RowType
  <2>5. Life!Write(r, "gone", 0)
    BY <2>2, <2>3, <2>4 DEF Life!Write, Life!Free
  <2>6. QED
    BY <2>2, <2>5 DEF Life!Next, Life!Delete, Life!Ended, Terminal
<1>4. CASE \/ \E r \in Rows : \/ SubmitAgain(r) \/ ErrorSelect(r) \/ RepeatSelect(r)
                              \/ RetryLoad(r) \/ UrgentLoad(r) \/ SetTaskRepeatInterval(r)
           \/ Pause \/ Resume \/ Reap
  <2>1. CASE \E r \in Rows : SetTaskRepeatInterval(r)
    <3>1. PICK r \in Rows : SetTaskRepeatInterval(r)
      BY <2>1
    <3>2. /\ status' = [status EXCEPT ![r] = status[r]]
          /\ repeat' = [repeat EXCEPT ![r] = repeat[r] + 0]
          /\ reprocess' = [reprocess EXCEPT ![r] = reprocess[r] + 0]
          /\ worker' = worker
      BY <3>1 DEF SetTaskRepeatInterval, SetStatus, Update
    <3>3. UNCHANGED <<status, repeat, reprocess>>
      BY <3>2 DEF TypeInv, RowType
    <3>4. QED
      BY <3>2, <3>3, LifeFrame DEF Owns
  <2>2. CASE \/ \E r \in Rows : \/ SubmitAgain(r) \/ ErrorSelect(r) \/ RepeatSelect(r)
                                \/ RetryLoad(r) \/ UrgentLoad(r)
             \/ Pause \/ Resume
    <3>1. UNCHANGED <<status, repeat, reprocess>> /\ worker' = worker
      BY <2>2 DEF SubmitAgain, ErrorSelect, RepeatSelect, RetryLoad, UrgentLoad, Pause, Resume
    <3>2. QED
      BY <3>1, LifeFrame DEF Owns
  <2>3. CASE Reap
    BY <2>3, LifeFrame, OwnReap DEF Reap
  <2>4. QED
    BY <1>4, <2>1, <2>2, <2>3
<1>5. QED
  BY <1>1, <1>2, <1>3, <1>4 DEF Trigger

\* A worker that touches no row of the table and does not own one.
LEMMA LifeIdle ==
  ASSUME TypeInv, Ownership, Ownership', NEW w \in Workers,
         \/ Gate(w) \/ TakeFast(w) \/ TakeMain(w) \/ TakeDrop(w)
         \/ ClaimError(w) \/ ClaimCancelled(w)
         \/ ReadRound(w) \/ \E out \in Terminal : RunEnds(w, out)
  PROVE  UNCHANGED Life!lifeVars
<1>1. UNCHANGED <<status, repeat, reprocess>>
  BY DEF Gate, TakeFast, TakeMain, TakeDrop, ClaimError, ClaimCancelled, ReadRound, RunEnds
<1>2. \A v \in Workers : v # w => worker'[v] = worker[v]
  BY DEF Gate, TakeFast, TakeMain, TakeDrop, ClaimError, ClaimCancelled, ReadRound, RunEnds,
     Grab, Move, Leave, TypeInv, WorkerType
<1>3. \A r \in Rows : Owns(w, r)' <=> Owns(w, r)
  <2>1. CASE \/ Gate(w) \/ TakeFast(w) \/ TakeMain(w) \/ TakeDrop(w)
             \/ ClaimError(w) \/ ClaimCancelled(w)
    <3>1. worker[w].pc \in {"gate", "ready", "claim"}
      BY <2>1 DEF Gate, TakeFast, TakeMain, TakeDrop, ClaimError, ClaimCancelled
    <3>2. worker'[w].pc \in {"gate", "ready", "claim"}
      <4>1. CASE Gate(w)
        BY <4>1 DEF Gate, Grab, Move, AtGate, TypeInv, WorkerType, WorkerState
      <4>2. CASE TakeFast(w) \/ TakeMain(w)
        BY <4>2 DEF TakeFast, TakeMain, Grab, AtGate, TypeInv, WorkerType
      <4>3. CASE TakeDrop(w)
        BY <4>3 DEF TakeDrop
      <4>4. CASE ClaimError(w)
        BY <4>4 DEF ClaimError, TypeInv, WorkerType, WorkerState
      <4>5. CASE ClaimCancelled(w)
        BY <4>5 DEF ClaimCancelled, Leave, AtGate, TypeInv, WorkerType
      <4>6. QED
        BY <2>1, <4>1, <4>2, <4>3, <4>4, <4>5
    <3>3. QED
      BY <3>1, <3>2 DEF Owns
  <2>2. CASE ReadRound(w)
    <3>1. PICK r \in Rows : r = worker[w].row
      BY <2>2 DEF ReadRound, TypeInv, WorkerType
    <3>2. status[r] = "processing"
      BY <2>2, <3>1 DEF ReadRound, Owns, Ownership, OwnInv
    <3>3. worker'[w].pc = "run" /\ worker'[w].row = r
      BY <2>2, <3>1, <3>2 DEF ReadRound, TypeInv, WorkerType, WorkerState
    <3>4. QED
      BY <2>2, <3>1, <3>3 DEF ReadRound, Owns
  <2>3. CASE \E out \in Terminal : RunEnds(w, out)
    <3>1. PICK out \in Terminal : RunEnds(w, out)
      BY <2>3
    <3>2. /\ worker[w].pc = "run"
          /\ worker' = [worker EXCEPT ![w] = [worker[w] EXCEPT !.pc = "persist", !.out = out]]
      BY <3>1 DEF RunEnds
    <3>3. worker'[w].pc = "persist" /\ worker'[w].row = worker[w].row
      BY <3>2 DEF TypeInv, WorkerType, WorkerState
    <3>4. QED
      BY <3>2, <3>3 DEF Owns
  <2>4. QED
    BY <2>1, <2>2, <2>3
<1>4. \A v \in Workers, r \in Rows : Owns(v, r)' <=> Owns(v, r)
  BY <1>2, <1>3 DEF Owns
<1>5. QED
  BY <1>1, <1>4, LifeFrame

\* The claim of a pending row makes its worker the only holder.
LEMMA LifeClaim ==
  ASSUME TypeInv, Ownership, Ownership', NEW w \in Workers, Claim(w) \/ ClaimLost(w)
  PROVE  Life!Next \/ UNCHANGED Life!lifeVars
<1>1. PICK r \in Rows : r = worker[w].row
  BY DEF Claim, ClaimLost, TypeInv, WorkerType
<1>2. worker[w].pc = "claim" /\ \A v \in Workers : v # w => worker'[v] = worker[v]
  BY DEF Claim, ClaimLost, Move, Leave, TypeInv, WorkerType
<1>3. CASE ClaimLost(w)
  <2>1. /\ Update(TRUE, r, "processing", 0, 0, FALSE)
        /\ status[r] = "pending" /\ \A v \in Workers : ~Owns(v, r)
    BY <1>1, <1>3 DEF ClaimLost, Ownership, OwnInv
  <2>2. worker'[w].pc = "claim"
    BY <1>2, <1>3 DEF ClaimLost, TypeInv, WorkerType, WorkerState
  <2>3. \A v \in Workers, q \in Rows : Owns(v, q)' <=> Owns(v, q)
    BY <1>2, <2>2 DEF Owns
  <2>4. status' = [status EXCEPT ![r] = "processing"] /\ Owners(r) = {}
    BY <2>1, OwnersOwn DEF Update
  <2>5. /\ [q \in Rows |-> Owners(q)]' = [q \in Rows |-> Owners(q)]
        /\ \A q \in Rows : repeat'[q] = repeat[q] + 0 /\ reprocess'[q] = reprocess[q] + 0
    BY <2>1, <2>3, HeldFrame DEF Update, TypeInv, RowType
  <2>6. [q \in Rows |-> repeat[q] + reprocess[q]]' =
          [[q \in Rows |-> repeat[q] + reprocess[q]] EXCEPT ![r] = @ + 0]
    BY <2>5 DEF TypeInv, RowType
  <2>7. Life!Write(r, "processing", 0)
    BY <2>4, <2>5, <2>6 DEF Life!Write, Life!Free
  <2>8. QED
    BY <2>1, <2>7 DEF Life!Next, Life!StartLost
<1>4. CASE Claim(w) /\ status[r] # "pending"
  <2>1. UNCHANGED row /\ Leave(w)
    BY <1>1, <1>4 DEF Claim, Update
  <2>2. worker'[w].pc = "gate"
    BY <2>1 DEF Leave, AtGate, TypeInv, WorkerType
  <2>3. \A v \in Workers, q \in Rows : Owns(v, q)' <=> Owns(v, q)
    BY <1>2, <2>2 DEF Owns
  <2>4. QED
    BY <2>1, <2>3, LifeFrame
<1>5. CASE Claim(w) /\ status[r] = "pending"
  <2>1. /\ Update(TRUE, r, "processing", 0, 0, FALSE) /\ Move(w, "read")
        /\ \A v \in Workers : ~Owns(v, r)
    BY <1>1, <1>5 DEF Claim, Ownership, OwnInv
  <2>2. worker'[w].pc = "read" /\ worker'[w].row = r
    BY <1>1, <2>1 DEF Move, TypeInv, WorkerType, WorkerState
  <2>3. \A v \in Workers, q \in Rows : Owns(v, q)' <=> (v = w /\ q = r) \/ Owns(v, q)
    BY <1>1, <1>2, <2>2 DEF Owns
  <2>4. status' = [status EXCEPT ![r] = "processing"] /\ Owners(r) = {}
    BY <2>1, OwnersOwn DEF Update
  <2>5. \A q \in Rows : Owners(q)' = {v \in Workers : Owns(v, q)'}
    BY OwnersNext
  <2>6. \A q \in Rows : Owners(q)' = IF q = r THEN {w} ELSE Owners(q)
    BY <2>1, <2>3, <2>5, OwnersOwn
  <2>7. [q \in Rows |-> Owners(q)]' = [[q \in Rows |-> Owners(q)] EXCEPT ![r] = {w}]
    BY <2>6
  <2>8. \A q \in Rows : repeat'[q] = repeat[q] /\ reprocess'[q] = reprocess[q]
    BY <2>1 DEF Update, TypeInv, RowType
  <2>9. [q \in Rows |-> repeat[q] + reprocess[q]]' = [q \in Rows |-> repeat[q] + reprocess[q]]
    BY <2>8
  <2>10. Life!Start(w, r)
    BY <1>5, <2>4, <2>7, <2>9 DEF Life!Start, Life!Free
  <2>11. QED
    BY <2>10 DEF Life!Next
<1>6. QED
  BY <1>3, <1>4, <1>5

\* Only the holder lets go of a row: with an outcome, giving it back, or silently.
LEMMA LifeEnd ==
  ASSUME TypeInv, Ownership, Ownership', NEW w \in Workers,
         ReadCancelled(w) \/ RunCancelled(w) \/ Persist(w) \/ PersistCancelled(w)
  PROVE  Life!Next
<1>1. PICK r \in Rows : r = worker[w].row
  BY DEF ReadCancelled, RunCancelled, Persist, PersistCancelled, TypeInv, WorkerType
<1>2. Owns(w, r) /\ Leave(w) /\ status[r] = "processing"
  BY <1>1 DEF ReadCancelled, RunCancelled, GiveBack, Persist, PersistCancelled, Owns,
     Ownership, OwnInv
<1>3. PICK s \in {"pending", "processing"} \cup Terminal :
        /\ status' = [status EXCEPT ![r] = s]
        /\ UNCHANGED <<repeat, reprocess>>
  <2>1. \/ Update(TRUE, r, "pending", 0, 0, urgent[r])
        \/ UNCHANGED row
        \/ Update(TRUE, r, worker[w].out, 0, 0, urgent[r]) /\ worker[w].out \in Terminal
    <3>1. CASE ReadCancelled(w) \/ RunCancelled(w)
      BY <1>1, <1>2, <3>1 DEF ReadCancelled, RunCancelled, GiveBack, SetStatus
    <3>2. CASE Persist(w)
      BY <1>1, <3>2 DEF Persist, SetStatus, Ownership, OwnInv, TypeInv, WorkerType
    <3>3. CASE PersistCancelled(w)
      BY <3>3 DEF PersistCancelled
    <3>4. QED
      BY <3>1, <3>2, <3>3
  <2>2. CASE UNCHANGED row
    BY <1>2, <2>2 DEF TypeInv, RowType
  <2>3. ASSUME NEW s \in {"pending"} \cup Terminal, Update(TRUE, r, s, 0, 0, urgent[r])
        PROVE  /\ status' = [status EXCEPT ![r] = s]
               /\ UNCHANGED <<repeat, reprocess>>
    <3>1. /\ status' = [status EXCEPT ![r] = s]
          /\ repeat' = [repeat EXCEPT ![r] = repeat[r] + 0]
          /\ reprocess' = [reprocess EXCEPT ![r] = reprocess[r] + 0]
      BY <2>3 DEF Update
    <3>2. repeat[r] + 0 = repeat[r] /\ reprocess[r] + 0 = reprocess[r]
      BY DEF TypeInv, RowType
    <3>3. QED
      BY <3>1, <3>2 DEF TypeInv, RowType
  <2>4. QED
    BY <2>1, <2>2, <2>3
<1>4. \A v \in Workers, q \in Rows : Owns(v, q)' <=> v # w /\ Owns(v, q)
  BY <1>2 DEF Owns, Leave, AtGate, TypeInv, WorkerType
<1>5. \A v \in Workers, q \in Rows : (v = w /\ Owns(v, q) => q = r) /\ (q = r /\ Owns(v, q) => v = w)
  BY <1>1, <1>2 DEF Ownership, OwnInv, Owns
<1>6. \A q \in Rows : Owners(q)' = {v \in Workers : Owns(v, q)'}
  BY OwnersNext
<1>7. Owners(r) = {w}
  BY <1>2, <1>5, OwnersOwn
<1>8. \A q \in Rows : Owners(q)' = IF q = r THEN {} ELSE Owners(q)
  BY <1>4, <1>5, <1>6, OwnersOwn
<1>9. [q \in Rows |-> Owners(q)]' = [[q \in Rows |-> Owners(q)] EXCEPT ![r] = {}]
  BY <1>8
<1>10. [q \in Rows |-> repeat[q] + reprocess[q]]' = [q \in Rows |-> repeat[q] + reprocess[q]]
  BY <1>3
<1>11. Life!LetGo(w, r, s)
  BY <1>3, <1>7, <1>9, <1>10 DEF Life!LetGo
<1>12. Life!GiveBack(w, r) \/ Life!Abandon(w, r) \/ Life!Finish(w, r)
  BY <1>2, <1>11 DEF Life!GiveBack, Life!Abandon, Life!Finish, Life!Ended, Terminal
<1>13. QED
  BY <1>12 DEF Life!Next

\* Only RetryTask brings its own carrier to the reset, with a row it has read.
LEMMA RetryCarrier ==
  ASSUME TypeInv, Next
  PROVE  \/ carrier'["retry"] = carrier["retry"]
         \/ carrier'["retry"].pc # "reset"
         \/ \E r \in Rows : RetryLoad(r)
<1>1. carrier \in [Carriers -> CarrierState] /\ "retry" \in Carriers
  BY DEF TypeInv, CarrierType, Carriers
<1>2. ASSUME NEW k \in Carriers,
             \/ SubmitToPool(k) \/ SubmitToPoolError(k) \/ SubmitToPoolLost(k)
             \/ Enqueue(k) \/ EnqueueFull(k) \/ EnqueueRejected(k)
             \/ ResetError(k) \/ ResetLost(k)
      PROVE  carrier'["retry"] = carrier["retry"] \/ carrier'["retry"].pc # "reset"
  <2>1. CASE SubmitToPool(k)
    BY <1>1, <2>1 DEF SubmitToPool, CarrierState
  <2>2. CASE ~SubmitToPool(k)
    <3>1. Release(k) \/ (k = "errq" /\ Step(k, "markfail"))
      BY <1>2, <2>2 DEF SubmitToPoolError, SubmitToPoolLost, Enqueue, EnqueueFull,
         EnqueueRejected, ResetError, ResetLost
    <3>2. QED
      BY <1>1, <3>1 DEF Release, Step, Idle, CarrierState
  <2>3. QED
    BY <2>1, <2>2
<1>3. CASE \E k \in Carriers : \/ SubmitToPool(k) \/ SubmitToPoolError(k) \/ SubmitToPoolLost(k)
                              \/ Enqueue(k) \/ EnqueueFull(k) \/ EnqueueRejected(k)
                              \/ ResetError(k) \/ ResetLost(k)
  BY <1>2, <1>3
<1>4. CASE RetryReset
  BY <1>1, <1>4 DEF RetryReset, Step, Release, Idle, CarrierState
<1>5. CASE \/ SubmitIfActive \/ MarkRequeueFailed \/ ErrorReset \/ RepeatReset \/ RecoverReset
           \/ UrgentReset \/ DrainSwap \/ DrainPaused \/ DrainOpen \/ DrainNext \/ DrainRereadError
  <2>1. CASE SubmitIfActive \/ MarkRequeueFailed \/ ErrorReset \/ RepeatReset
    BY <1>1, <2>1 DEF SubmitIfActive, MarkRequeueFailed, ErrorReset, RepeatReset,
       Step, Release, Hold
  <2>2. CASE RecoverReset \/ UrgentReset
    BY <1>1, <2>2 DEF RecoverReset, UrgentReset, Step, Release, Hold
  <2>3. CASE DrainSwap \/ DrainPaused \/ DrainOpen \/ DrainNext \/ DrainRereadError
    BY <1>1, <2>3 DEF DrainSwap, DrainPaused, DrainOpen, DrainNext, DrainRereadError,
       Step, Release, Hold
  <2>4. QED
    BY <1>5, <2>1, <2>2, <2>3
<1>6. CASE \E r \in Rows : \/ DeliverDelayed(r) \/ RecoverVisit(r) \/ SubmitNew(r) \/ SubmitAgain(r)
                          \/ ErrorSelect(r) \/ RepeatSelect(r) \/ UrgentLoad(r)
  <2>1. PICK r \in Rows : \/ DeliverDelayed(r) \/ RecoverVisit(r) \/ SubmitNew(r) \/ SubmitAgain(r)
                          \/ ErrorSelect(r) \/ RepeatSelect(r) \/ UrgentLoad(r)
    BY <1>6
  <2>2. CASE DeliverDelayed(r) \/ RecoverVisit(r) \/ SubmitNew(r)
    BY <1>1, <2>2 DEF DeliverDelayed, RecoverVisit, SubmitNew, Hold
  <2>3. CASE SubmitAgain(r) \/ ErrorSelect(r) \/ RepeatSelect(r) \/ UrgentLoad(r)
    BY <1>1, <2>3 DEF SubmitAgain, ErrorSelect, RepeatSelect, UrgentLoad, Hold
  <2>4. QED
    BY <2>1, <2>2, <2>3
<1>7. CASE \/ \E r \in Rows : MarkTaskFailed(r) \/ DeleteTask(r) \/ SetTaskRepeatInterval(r)
           \/ \E r \in Rows : SubmitNewLost(r)
           \/ RecoverSelectError \/ Reap
           \/ Pause \/ Resume \/ Stop \/ Count \/ Return
           \/ \E w \in Workers : WorkerStep(w) \/ WorkerFault(w)
  BY <1>7 DEF MarkTaskFailed, DeleteTask, SetTaskRepeatInterval, Pause, Resume, Stop, Count, Return,
     WorkerStep, WorkerFault, Gate, TakeFast, TakeMain, TakeDrop, Claim, ClaimError, ClaimLost,
     ClaimCancelled, ReadRound, ReadCancelled, RunEnds, RunCancelled, Persist, PersistLost,
     PersistCancelled, SubmitNewLost, RecoverSelectError, Reap
<1>8. CASE Restart
  BY <1>1, <1>8 DEF Restart, Idle
<1>9. QED
  BY <1>3, <1>4, <1>5, <1>6, <1>7, <1>8 DEF Next, CarrierStep, CarrierFault, Trigger

\* RetryTask goes on to hold a row that exists.
LEMMA RetryNext ==
  ASSUME TypeInv, RetryInv, [Next]_vars, [Life!Next]_(Life!lifeVars)
  PROVE  RetryInv'
<1>1. \A r \in Rows : status[r] # "absent" => status'[r] # "absent"
  BY DEF TypeInv, RowType, Life!Next, Life!lifeVars, Life!Submit, Life!Count, Life!Requeue,
     Life!Recover, Life!MarkFailed, Life!Delete, Life!StartLost, Life!Start, Life!Finish,
     Life!GiveBack, Life!Abandon, Life!LetGo, Life!Write, Life!Crash, Life!Ended
<1>2. carrier["retry"].pc = "reset" => carrier["retry"].row \in Rows
  BY DEF TypeInv, CarrierType, Carriers
<1>3. CASE carrier'["retry"] = carrier["retry"] \/ carrier'["retry"].pc # "reset"
  BY <1>1, <1>2, <1>3 DEF RetryInv
<1>4. CASE \E r \in Rows : RetryLoad(r)
  <2>1. PICK r \in Rows : RetryLoad(r)
    BY <1>4
  <2>2. carrier'["retry"].row = r
    BY <2>1 DEF RetryLoad, Hold, Snapshot, TypeInv, CarrierType, Carriers
  <2>3. QED
    BY <1>1, <2>1, <2>2 DEF RetryLoad, RetryInv
<1>5. CASE UNCHANGED vars
  BY <1>3, <1>5 DEF vars
<1>6. QED
  BY <1>3, <1>4, <1>5, RetryCarrier

\* Every step of the engine is a step of TaskLife or none.
LEMMA LifeNext ==
  ASSUME TypeInv, Ownership, Ownership', RetryInv, SafeDeployment, [Next]_vars
  PROVE  [Life!Next]_(Life!lifeVars)
<1>1. CASE \E w \in Workers : WorkerStep(w) \/ WorkerFault(w)
  <2>1. PICK w \in Workers : WorkerStep(w) \/ WorkerFault(w)
    BY <1>1
  <2>2. ~PersistLost(w)
    BY DEF PersistLost, SafeDeployment
  <2>3. QED
    BY <2>1, <2>2, LifeIdle, LifeClaim, LifeEnd DEF WorkerStep, WorkerFault
<1>2. CASE CarrierStep \/ CarrierFault
  BY <1>2, LifeCarriers
<1>3. CASE Trigger
  BY <1>3, LifeTrigger
<1>4. CASE Stop \/ Count \/ Return \/ UNCHANGED vars
  <2>1. UNCHANGED <<status, repeat, reprocess>> /\ worker' = worker
    BY <1>4 DEF Stop, Count, Return, vars
  <2>2. QED
    BY <2>1, LifeFrame DEF Owns
<1>5. CASE Restart
  <2>1. UNCHANGED <<status, repeat, reprocess>> /\ \A w \in Workers : worker'[w].pc = "gate"
    BY <1>5 DEF Restart, AtGate
  <2>2. \A r \in Rows : Owners(r)' = {}
    BY <2>1 DEF Owners
  <2>3. [r \in Rows |-> Owners(r)]' = [r \in Rows |-> {}]
    BY <2>2
  <2>4. [r \in Rows |-> repeat[r] + reprocess[r]]' = [r \in Rows |-> repeat[r] + reprocess[r]]
    BY <2>1
  <2>5. Life!Crash
    BY <2>1, <2>3, <2>4 DEF Life!Crash
  <2>6. QED
    BY <2>5 DEF Life!Next
<1>6. QED
  BY <1>1, <1>2, <1>3, <1>4, <1>5 DEF Next

\* The engine, with all its copies, queues, operators and restarts, shows the
\* table nothing but the life cycle of TaskLife: every write of a row by anybody
\* but its holder finds the row free (the status guards of submitToPool, the
\* queues, recovery and the admin backend), and the holder is the worker whose
\* claim has hit.
THEOREM EngineKeepsLifeCycle ==
  ASSUME SafeDeployment
  PROVE  Spec => KeepsLifeCycle
<1>1. Init => Life!Init /\ RetryInv
  <2> SUFFICES ASSUME Init PROVE Life!Init /\ RetryInv
    OBVIOUS
  <2>1. \A r \in Rows : Owners(r) = {}
    BY DEF Init, AtGate, Owners
  <2>2. \A r \in Rows : repeat[r] = 0 /\ reprocess[r] = 0
    BY DEF Init
  <2>3. 0 + 0 = 0
    OBVIOUS
  <2>4. QED
    BY <2>1, <2>2, <2>3 DEF Init, Idle, Carriers, RetryInv, Life!Init
<1>2. TypeInv /\ Ownership /\ Ownership' /\ RetryInv /\ [Next]_vars =>
        [Life!Next]_(Life!lifeVars) /\ RetryInv'
  BY LifeNext, RetryNext
<1>3. QED
  BY <1>1, <1>2, OwnershipAlways, PTL DEF Spec, KeepsLifeCycle, Life!Spec

\* TaskLife is what it says: a held row is in processing and has one holder.
THEOREM LifeHasOneHolder == Life!Spec => []Life!OneHolder
<1> DEFINE H == [r \in Rows |-> Owners(r)]
           LifeInv == /\ status = [r \in Rows |-> status[r]]
                      /\ \A r \in Rows : H[r] # {} =>
                           status[r] = "processing" /\ \E w \in Workers : H[r] = {w}
<1>1. Life!Init => LifeInv
  BY DEF Life!Init
<1>2. LifeInv /\ [Life!Next]_(Life!lifeVars) => LifeInv'
  <2> SUFFICES ASSUME LifeInv, [Life!Next]_(Life!lifeVars)
               PROVE  LifeInv'
    OBVIOUS
  <2>1. ASSUME NEW r \in Rows, NEW s, NEW n, Life!Write(r, s, n)
        PROVE  LifeInv'
    <3>1. H' = H /\ H[r] = {} /\ status' = [status EXCEPT ![r] = s]
      BY <2>1 DEF Life!Write, Life!Free
    <3> HIDE DEF H
    <3>2. QED
      BY <3>1
  <2>2. ASSUME NEW r \in Rows, NEW w \in Workers, Life!Start(w, r)
        PROVE  LifeInv'
    <3>1. H' = [H EXCEPT ![r] = {w}] /\ status' = [status EXCEPT ![r] = "processing"]
      BY <2>2 DEF Life!Start
    <3>2. H = [q \in Rows |-> H[q]]
      OBVIOUS
    <3> HIDE DEF H
    <3>3. QED
      BY <3>1, <3>2
  <2>3. ASSUME NEW r \in Rows, NEW w \in Workers, NEW s, Life!LetGo(w, r, s)
        PROVE  LifeInv'
    <3>1. H' = [H EXCEPT ![r] = {}] /\ status' = [status EXCEPT ![r] = s]
      BY <2>3 DEF Life!LetGo
    <3>2. H = [q \in Rows |-> H[q]]
      OBVIOUS
    <3> HIDE DEF H
    <3>3. QED
      BY <3>1, <3>2
  <2>4. CASE Life!Crash
    <3>1. H' = [q \in Rows |-> {}] /\ status' = status
      BY <2>4 DEF Life!Crash
    <3> HIDE DEF H
    <3>2. QED
      BY <3>1
  <2>5. CASE UNCHANGED Life!lifeVars
    <3>1. H' = H /\ status' = status
      BY <2>5 DEF Life!lifeVars
    <3> HIDE DEF H
    <3>2. QED
      BY <3>1
  <2>6. QED
    BY <2>1, <2>2, <2>3, <2>4, <2>5 DEF Life!Next, Life!Submit, Life!Count, Life!Requeue,
       Life!Recover, Life!MarkFailed, Life!Delete, Life!StartLost, Life!Finish, Life!GiveBack,
       Life!Abandon
<1>3. LifeInv => Life!OneHolder
  BY DEF Life!OneHolder, Life!Free
<1>4. QED
  BY <1>1, <1>2, <1>3, PTL DEF Life!Spec

=============================================================================
