-------------------------- MODULE TaskEngineProofs --------------------------
(***************************************************************************)
(* Theorems of TaskEngine for every set of rows and workers, every queue   *)
(* capacity and limit, and every combination of queues, operators, faults  *)
(* and restarts.                                                           *)
(***************************************************************************)
EXTENDS TaskEngine, SequenceTheorems, TLAPS

USE DEF row, lanes, spills, life, process, history

-----------------------------------------------------------------------------
(* The type invariant, strengthened with what the steps rely on: a busy      *)
(* worker or carrier holds a row, an outcome is there when it is persisted,  *)
(* and the drain never works on an empty table.                              *)

RowType ==
  /\ status \in [Rows -> Statuses]
  /\ repeat \in [Rows -> Nat] /\ reprocess \in [Rows -> Nat]
  /\ urgent \in [Rows -> BOOLEAN] /\ fresh \in [Rows -> BOOLEAN]

LaneType ==
  /\ queue \in Seq(Rows) /\ fast \in Seq(Rows)
  /\ delayed \in [Rows -> Nat]

SpillType == spill \in Seq(Copy) /\ draining \in Seq(Copy)

WorkerType ==
  /\ worker \in [Workers -> WorkerState]
  /\ \A w \in Workers : worker[w].pc \notin {"gate", "ready"} => worker[w].row \in Rows
  /\ \A w \in Workers : worker[w].pc = "persist" => worker[w].out \in Terminal

CarrierType ==
  /\ carrier \in [Carriers -> CarrierState]
  /\ \A k \in Carriers : carrier[k].pc \notin {"idle", "check", "loop"} => carrier[k].row \in Rows
  /\ carrier["drain"].pc \in {"check", "loop"} => draining # <<>>

LifeType ==
  /\ unsettled \subseteq Rows /\ torecover \subseteq Rows
  /\ paused \in BOOLEAN
  /\ phase \in {"up", "stopping", "counted", "returned"}
  /\ drained \in BOOLEAN
  /\ restarts \in 0..MaxRestarts
  /\ forgot \in [Rows -> Nat]
  /\ forsaken \subseteq Rows /\ astray \subseteq Rows

TypeInv == RowType /\ LaneType /\ SpillType /\ WorkerType /\ CarrierType /\ LifeType

\* The inductive invariant contains the type invariant the runs check.
LEMMA TypeInvTypeOK == TypeInv => TypeOK
  BY DEF TypeInv, TypeOK, RowType, LaneType, SpillType, WorkerType, CarrierType, LifeType

-----------------------------------------------------------------------------
(* What the helpers of the model preserve                                    *)

\* A carrier that takes up a copy of a row.
LEMMA HoldType ==
  ASSUME CarrierType, NEW k \in Carriers, NEW c \in Copy, NEW was \in Nat,
         NEW pc \in {"decide", "reset", "write", "enqueue", "markfail"},
         Hold(k, pc, c, was), draining' = draining \/ k = "drain"
  PROVE  CarrierType'
<1>1. carrier' \in [Carriers -> CarrierState]
  BY DEF CarrierType, CarrierState, Hold, Copy
<1>2. QED
  BY <1>1 DEF CarrierType, CarrierState, Hold, Copy, Carriers

\* A carrier that goes on to another step with the row it has.
LEMMA StepType ==
  ASSUME CarrierType, NEW k \in Carriers, carrier[k].pc \notin {"idle", "check", "loop"},
         NEW pc \in {"decide", "reset", "write", "enqueue", "markfail"}, Step(k, pc),
         draining' = draining
  PROVE  CarrierType'
<1>1. carrier' \in [Carriers -> CarrierState]
  BY DEF CarrierType, CarrierState, Step
<1>2. QED
  BY <1>1 DEF CarrierType, CarrierState, Step, Carriers

\* A carrier that lets go of its copy.
LEMMA ReleaseType ==
  ASSUME CarrierType, NEW k \in Carriers, Release(k), draining' = draining
  PROVE  CarrierType'
<1>1. carrier' \in [Carriers -> CarrierState]
  BY DEF CarrierType, CarrierState, Release, Idle
<1>2. QED
  BY <1>1 DEF CarrierType, CarrierState, Release, Idle, Carriers

\* A carrier that is left alone.
LEMMA SameCarrierType ==
  ASSUME CarrierType, carrier' = carrier, draining' = draining
  PROVE  CarrierType'
  BY DEF CarrierType

\* The drain skips the first copy of its table.
LEMMA SkipType ==
  ASSUME CarrierType, draining \in Seq(Copy), draining # <<>>, draining' = Tail(draining),
         carrier' = [carrier EXCEPT !["drain"] = IF Len(draining) > 1 THEN @ ELSE Idle]
  PROVE  CarrierType'
<1>1. Len(draining) > 1 => draining' # <<>>
  <2>1. Len(Tail(draining)) = Len(draining) - 1
    BY HeadTailProperties
  <2>2. Len(draining) \in Nat
    BY LenProperties
  <2>3. draining' = <<>> => Len(draining') = 0
    OBVIOUS
  <2>4. QED
    BY <2>1, <2>2, <2>3
<1>2. Idle \in CarrierState /\ Idle.pc = "idle"
  BY DEF Idle, CarrierState
<1>3. QED
  BY <1>1, <1>2 DEF CarrierType, Carriers

\* The urgency of a submitted task is a truth value.
LEMMA MarksType == Marks \subseteq BOOLEAN
  BY DEF Marks

\* What the code gives up are rows.
LEMMA GiveUpType ==
  ASSUME LifeType, NEW R, R \subseteq Rows, GiveUp(R),
         unsettled' = unsettled, torecover' \subseteq torecover, paused' = paused
  PROVE  LifeType'
  BY DEF LifeType, GiveUp

\* The snapshot a SELECT hands to a carrier is a copy.
LEMMA SnapshotType ==
  ASSUME NEW r \in Rows, NEW c \in BOOLEAN, NEW u \in BOOLEAN
  PROVE  Snapshot(r, c, u) \in Copy
  BY DEF Snapshot, Copy

\* The copy a carrier holds, and the spill table with it.
LEMMA SpilledType ==
  ASSUME CarrierType, SpillType, NEW k \in Carriers,
         carrier[k].pc \notin {"idle", "check", "loop"}
  PROVE  CopyOf(k) \in Copy /\ Spilled(CopyOf(k)) \in Seq(Copy)
<1>1. CopyOf(k) \in Copy
  BY DEF CarrierType, CarrierState, CopyOf, Copy
<1>2. QED
  BY <1>1 DEF SpillType, Spilled

\* A worker that goes on with the row it has, leaves it, or takes one.
LEMMA MoveType ==
  ASSUME WorkerType, NEW w \in Workers, Move(w, "ready") \/
         (worker[w].pc \notin {"gate", "ready"} /\ Move(w, "read"))
  PROVE  WorkerType'
<1>1. worker' \in [Workers -> WorkerState]
  BY DEF WorkerType, WorkerState, Move
<1>2. QED
  BY <1>1 DEF WorkerType, WorkerState, Move

\* A worker that goes back to the gate.
LEMMA LeaveType ==
  ASSUME WorkerType, NEW w \in Workers, Leave(w)
  PROVE  WorkerType'
<1>1. worker' \in [Workers -> WorkerState]
  BY DEF WorkerType, WorkerState, Leave, AtGate
<1>2. QED
  BY <1>1 DEF WorkerType, WorkerState, Leave, AtGate

\* A worker that takes the id of a row out of a lane.
LEMMA GrabType ==
  ASSUME WorkerType, NEW w \in Workers, NEW r \in Rows, Grab(w, r)
  PROVE  WorkerType'
<1>1. [AtGate EXCEPT !.pc = "claim", !.row = r] \in WorkerState
  BY DEF WorkerState, AtGate
<1>2. worker' \in [Workers -> WorkerState]
  BY <1>1 DEF WorkerType, Grab
<1>3. QED
  BY <1>2 DEF WorkerType, WorkerState, Grab, AtGate

\* A worker that has read the round of its row, or has an outcome.
LEMMA ReadType ==
  ASSUME WorkerType, NEW w \in Workers, worker[w].pc = "read",
         NEW a \in Nat, NEW b \in Nat,
         worker' = [worker EXCEPT ![w].pc = "run", ![w].rep = a, ![w].rpr = b]
  PROVE  WorkerType'
<1>1. [worker[w] EXCEPT !.pc = "run", !.rep = a, !.rpr = b] \in WorkerState
  BY DEF WorkerType, WorkerState
<1>2. worker' = [worker EXCEPT ![w] = [worker[w] EXCEPT !.pc = "run", !.rep = a, !.rpr = b]]
  BY DEF WorkerType
<1>3. worker' \in [Workers -> WorkerState]
  BY <1>1, <1>2 DEF WorkerType
<1>4. QED
  BY <1>1, <1>2, <1>3 DEF WorkerType, WorkerState

\* A worker whose FetchHandler has ended.
LEMMA OutcomeType ==
  ASSUME WorkerType, NEW w \in Workers, NEW out \in Terminal, RunEnds(w, out)
  PROVE  WorkerType'
<1>1. [worker[w] EXCEPT !.pc = "persist", !.out = out] \in WorkerState
  BY DEF WorkerType, WorkerState
<1>2. worker' = [worker EXCEPT ![w] = [worker[w] EXCEPT !.pc = "persist", !.out = out]]
  BY DEF RunEnds, WorkerType
<1>3. worker' \in [Workers -> WorkerState]
  BY <1>1, <1>2 DEF WorkerType
<1>4. QED
  BY <1>1, <1>2, <1>3 DEF WorkerType, WorkerState, RunEnds

-----------------------------------------------------------------------------
(* Every step keeps the type invariant, group by group                       *)

\* The type invariant is kept by a submission ...
LEMMA SubmitTypes ==
  ASSUME TypeInv, 
         \/ \E r \in Rows : SubmitNew(r)
         \/ \E r \in Rows : SubmitNewLost(r)
         \/ \E r \in Rows : SubmitAgain(r)
         \/ SubmitIfActive
         \/ \E r \in Rows : DeliverDelayed(r)
  PROVE  TypeInv'
<1>1. CASE \E r \in Rows : SubmitNew(r)
  <2>0. PICK r \in Rows : SubmitNew(r)
    BY <1>1
  <2>u. PICK u \in BOOLEAN :
          /\ Update(TRUE, r, "pending", 0, 0, u)
          /\ Hold("submit", "decide", [row |-> r, counted |-> FALSE, urgent |-> u], 0)
    BY <2>0, MarksType DEF SubmitNew
  <2>1. RowType'
    BY <2>u DEF TypeInv, RowType, Statuses, Update
  <2>2. CarrierType'
    BY <2>0, <2>u, HoldType DEF SubmitNew, TypeInv, Carriers, Copy
  <2>3. QED
    BY <2>0, <2>1, <2>2 DEF SubmitNew, TypeInv, LaneType, SpillType, WorkerType, LifeType
<1>2. CASE \E r \in Rows : SubmitAgain(r)
  <2>0. PICK r \in Rows : SubmitAgain(r)
    BY <1>2
  <2>u. PICK u \in BOOLEAN :
          Hold("submit", "decide", [row |-> r, counted |-> FALSE, urgent |-> u], 0)
    BY <2>0, MarksType DEF SubmitAgain
  <2>1. CarrierType'
    BY <2>0, <2>u, HoldType DEF SubmitAgain, TypeInv, Carriers, Copy
  <2>2. QED
    BY <2>0, <2>1 DEF SubmitAgain, TypeInv, RowType, LaneType, SpillType, WorkerType, LifeType
<1>3. CASE SubmitIfActive
  <2>1. CarrierType'
    BY <1>3, ReleaseType, StepType DEF SubmitIfActive, TypeInv, Carriers
  <2>2. PICK q \in Rows : q = carrier["submit"].row
    BY <1>3 DEF SubmitIfActive, TypeInv, CarrierType, Carriers
  <2>3. LaneType'
    BY <1>3, <2>2 DEF SubmitIfActive, TypeInv, LaneType
  <2>4. QED
    BY <1>3, <2>1, <2>3 DEF SubmitIfActive, TypeInv, RowType, SpillType, WorkerType, LifeType
<1>4. CASE \E r \in Rows : DeliverDelayed(r)
  <2>0. PICK r \in Rows : DeliverDelayed(r)
    BY <1>4
  <2>1. CarrierType'
    <3>1. CASE status[r] = "pending"
      <4>1. PICK u \in BOOLEAN :
              Hold("delay", "write", [row |-> r, counted |-> FALSE, urgent |-> u], 0)
        BY <2>0, <3>1, MarksType DEF DeliverDelayed
      <4>2. QED
        BY <2>0, <4>1, HoldType DEF DeliverDelayed, TypeInv, Carriers, Copy
    <3>2. CASE status[r] # "pending"
      BY <2>0, <3>2, SameCarrierType DEF DeliverDelayed, TypeInv
    <3>3. QED
      BY <3>1, <3>2
  <2>2. LaneType'
    BY <2>0 DEF DeliverDelayed, TypeInv, LaneType
  <2>3. QED
    BY <2>0, <2>1, <2>2 DEF DeliverDelayed, TypeInv, RowType, SpillType, WorkerType, LifeType
<1>5. CASE \E r \in Rows : SubmitNewLost(r)
  <2>0. PICK r \in Rows : SubmitNewLost(r)
    BY <1>5
  <2>1. PICK u \in BOOLEAN : Update(TRUE, r, "pending", 0, 0, u)
    BY <2>0, MarksType DEF SubmitNewLost
  <2>2. RowType'
    BY <2>1 DEF TypeInv, RowType, Statuses, Update
  <2>3. LifeType'
    BY <2>0, GiveUpType DEF SubmitNewLost, TypeInv
  <2>4. QED
    BY <2>0, <2>2, <2>3 DEF SubmitNewLost, TypeInv, LaneType, SpillType, WorkerType, CarrierType
<1>6. QED
  BY <1>1, <1>2, <1>3, <1>4, <1>5

\* ... by the way of a copy into the pool or the spill table ...
LEMMA PoolTypes ==
  ASSUME TypeInv, NEW k \in Carriers, 
         \/ SubmitToPool(k)
         \/ SubmitToPoolError(k)
         \/ SubmitToPoolLost(k)
         \/ Enqueue(k)
         \/ EnqueueFull(k)
         \/ EnqueueRejected(k)
  PROVE  TypeInv'
<1>1. CASE SubmitToPool(k)
  <2>1. PICK r \in Rows : r = carrier[k].row
    BY <1>1 DEF SubmitToPool, TypeInv, CarrierType
  <2>2. PICK n \in Nat : Update(status[r] = "pending", r, "pending", n, 0, urgent[r])
    BY <1>1, <2>1 DEF SubmitToPool
  <2>3. RowType'
    BY <2>2 DEF TypeInv, RowType, Statuses, Update
  <2>4. carrier' \in [Carriers -> CarrierState]
    <3>1. carrier \in [Carriers -> CarrierState]
      BY DEF TypeInv, CarrierType
    <3>2. PICK bump \in BOOLEAN : carrier' = [carrier EXCEPT ![k].pc = "enqueue", ![k].counted = @ \/ bump]
      BY <1>1 DEF SubmitToPool
    <3>3. PICK c \in BOOLEAN : carrier' = [carrier EXCEPT ![k] = [@ EXCEPT !.pc = "enqueue", !.counted = c]]
      <4>1. (carrier[k].counted \/ bump) \in BOOLEAN
        BY <3>1, <3>2
      <4>2. carrier' = [carrier EXCEPT ![k] = [@ EXCEPT !.pc = "enqueue", !.counted = carrier[k].counted \/ bump]]
        BY <3>1, <3>2 DEF CarrierState
      <4>3. QED
        BY <4>1, <4>2
    <3>4. QED
      BY <3>1, <3>3 DEF CarrierState
  <2>5. carrier'[k].pc = "enqueue" /\ \A j \in Carriers : carrier'[j].row = carrier[j].row /\ (j # k => carrier'[j] = carrier[j])
    <3>1. carrier \in [Carriers -> CarrierState]
      BY DEF TypeInv, CarrierType
    <3>2. PICK bump \in BOOLEAN : carrier' = [carrier EXCEPT ![k].pc = "enqueue", ![k].counted = @ \/ bump]
      BY <1>1 DEF SubmitToPool
    <3>3. QED
      BY <3>1, <3>2 DEF CarrierState
  <2>6. carrier[k].pc = "write" /\ draining' = draining
    BY <1>1 DEF SubmitToPool
  <2>7. \A j \in Carriers : carrier'[j].pc \notin {"idle", "check", "loop"} =>
                            carrier'[j].row \in Rows
    BY <2>5, <2>6 DEF TypeInv, CarrierType
  <2>8. carrier'["drain"].pc \in {"check", "loop"} => draining' # <<>>
    BY <2>5, <2>6 DEF TypeInv, CarrierType, Carriers
  <2>9. CarrierType'
    BY <2>4, <2>7, <2>8 DEF CarrierType
  <2>10. QED
    BY <1>1, <2>3, <2>9 DEF SubmitToPool, TypeInv, LaneType, SpillType, WorkerType, LifeType
<1>2. CASE SubmitToPoolError(k)
  <2>1. SpillType'
    BY <1>2, SpilledType DEF SubmitToPoolError, TypeInv, SpillType
  <2>2. CarrierType'
    BY <1>2, ReleaseType DEF SubmitToPoolError, TypeInv, Carriers
  <2>3. QED
    BY <1>2, <2>1, <2>2 DEF SubmitToPoolError, TypeInv, RowType, LaneType, WorkerType, LifeType
<1>3. CASE Enqueue(k)
  <2>1. carrier[k].row \in Rows
    BY <1>3 DEF Enqueue, TypeInv, CarrierType
  <2>2. PICK q \in Rows : q = carrier[k].row
    BY <2>1
  <2>3. queue' \in {queue, Append(queue, q)} /\ fast' \in {fast, Append(fast, q)}
    BY <1>3, <2>2 DEF Enqueue
  <2>4. /\ queue \in Seq(Rows) /\ Append(queue, q) \in Seq(Rows)
        /\ fast \in Seq(Rows) /\ Append(fast, q) \in Seq(Rows)
    BY AppendProperties DEF TypeInv, LaneType
  <2>5. LaneType'
    BY <1>3, <2>3, <2>4 DEF Enqueue, TypeInv, LaneType
  <2>6. CarrierType'
    BY <1>3, ReleaseType DEF Enqueue, TypeInv, Carriers
  <2>7. QED
    BY <1>3, <2>5, <2>6 DEF Enqueue, TypeInv, RowType, SpillType, WorkerType, LifeType
<1>4. CASE EnqueueFull(k)
  <2>1. SpillType'
    BY <1>4, SpilledType DEF EnqueueFull, TypeInv, SpillType
  <2>2. CarrierType'
    BY <1>4, ReleaseType DEF EnqueueFull, TypeInv, Carriers
  <2>3. QED
    BY <1>4, <2>1, <2>2 DEF EnqueueFull, TypeInv, RowType, LaneType, WorkerType, LifeType
<1>5. CASE EnqueueRejected(k)
  <2>1. SpillType'
    BY <1>5, SpilledType DEF EnqueueRejected, TypeInv, SpillType
  <2>2. CarrierType'
    BY <1>5, ReleaseType, StepType DEF EnqueueRejected, TypeInv, Carriers
  <2>3. carrier[k].row \in Rows
    BY <1>5 DEF EnqueueRejected, TypeInv, CarrierType
  <2>4. LifeType'
    BY <1>5, <2>3, GiveUpType DEF EnqueueRejected, TypeInv
  <2>5. QED
    BY <1>5, <2>1, <2>2, <2>4 DEF EnqueueRejected, TypeInv, RowType, LaneType, WorkerType
<1>6. CASE SubmitToPoolLost(k)
  <2>1. PICK r \in Rows : r = carrier[k].row
    BY <1>6 DEF SubmitToPoolLost, TypeInv, CarrierType
  <2>2. PICK n \in Nat : /\ Update(TRUE, r, "pending", n, 0, urgent[r])
                         /\ forgot' = [forgot EXCEPT ![r] = @ + n]
    BY <1>6, <2>1 DEF SubmitToPoolLost
  <2>3. RowType'
    BY <2>2 DEF TypeInv, RowType, Statuses, Update
  <2>4. SpillType'
    BY <1>6, SpilledType DEF SubmitToPoolLost, TypeInv, SpillType
  <2>5. CarrierType'
    BY <1>6, ReleaseType DEF SubmitToPoolLost, TypeInv, Carriers
  <2>6. LifeType'
    <3>1. forgot' \in [Rows -> Nat]
      <4>1. forgot \in [Rows -> Nat]
        BY DEF TypeInv, LifeType
      <4>2. forgot[r] + n \in Nat
        BY <4>1
      <4>3. QED
        BY <2>2, <4>1, <4>2
    <3>2. QED
      BY <1>6, <3>1 DEF SubmitToPoolLost, TypeInv, LifeType
  <2>7. QED
    BY <1>6, <2>3, <2>4, <2>5, <2>6 DEF SubmitToPoolLost, TypeInv, LaneType, WorkerType
<1>7. QED
  BY <1>1, <1>2, <1>3, <1>4, <1>5, <1>6

\* ... by the error, repeat and recover queues ...
LEMMA QueueTypes ==
  ASSUME TypeInv, 
         \/ MarkRequeueFailed
         \/ \E r \in Rows : ErrorSelect(r)
         \/ ErrorReset
         \/ \E r \in Rows : RepeatSelect(r)
         \/ RepeatReset
         \/ \E r \in Rows : RecoverVisit(r)
         \/ RecoverReset
  PROVE  TypeInv'
<1>1. CASE MarkRequeueFailed
  <2>1. PICK q \in Rows : q = carrier["errq"].row
    BY <1>1 DEF MarkRequeueFailed, TypeInv, CarrierType, Carriers
  <2>2. PICK hit \in BOOLEAN : Update(hit, q, "failed", 0, 0, urgent[q])
    BY <1>1, <2>1 DEF MarkRequeueFailed, SetStatus
  <2>3. RowType'
    BY <2>2 DEF TypeInv, RowType, Statuses, Terminal, Update
  <2>4. CarrierType'
    BY <1>1, ReleaseType DEF MarkRequeueFailed, TypeInv, Carriers
  <2>5. QED
    BY <1>1, <2>3, <2>4 DEF MarkRequeueFailed, TypeInv, LaneType, SpillType, WorkerType, LifeType
<1>2. CASE \E r \in Rows : ErrorSelect(r)
  <2>0. PICK r \in Rows : ErrorSelect(r)
    BY <1>2
  <2>1. CarrierType'
    BY <2>0, HoldType, SnapshotType DEF ErrorSelect, TypeInv, Carriers, RowType
  <2>2. QED
    BY <2>0, <2>1 DEF ErrorSelect, TypeInv, RowType, LaneType, SpillType, WorkerType, LifeType
<1>3. CASE ErrorReset
  <2>1. PICK q \in Rows : q = carrier["errq"].row
    BY <1>3 DEF ErrorReset, TypeInv, CarrierType, Carriers
  <2>2. Update(status[q] = "failed", q, "pending", 0, 1, urgent[q])
    BY <1>3, <2>1 DEF ErrorReset
  <2>3. RowType'
    BY <2>2 DEF TypeInv, RowType, Statuses, Update
  <2>4. CarrierType'
    BY <1>3, ReleaseType, StepType DEF ErrorReset, TypeInv, Carriers
  <2>5. QED
    BY <1>3, <2>3, <2>4 DEF ErrorReset, TypeInv, LaneType, SpillType, WorkerType, LifeType
<1>4. CASE \E r \in Rows : RepeatSelect(r)
  <2>0. PICK r \in Rows : RepeatSelect(r)
    BY <1>4
  <2>1. CarrierType'
    BY <2>0, HoldType, SnapshotType DEF RepeatSelect, TypeInv, Carriers, RowType
  <2>2. QED
    BY <2>0, <2>1 DEF RepeatSelect, TypeInv, RowType, LaneType, SpillType, WorkerType, LifeType
<1>5. CASE RepeatReset
  <2>1. PICK q \in Rows : q = carrier["repq"].row
    BY <1>5 DEF RepeatReset, TypeInv, CarrierType, Carriers
  <2>2. PICK hit \in BOOLEAN : Update(hit, q, "pending", 0, 0, urgent[q])
    BY <1>5, <2>1 DEF RepeatReset, SetStatus
  <2>3. RowType'
    BY <2>2 DEF TypeInv, RowType, Statuses, Update
  <2>4. CarrierType'
    BY <1>5, ReleaseType, StepType DEF RepeatReset, TypeInv, Carriers
  <2>5. QED
    BY <1>5, <2>3, <2>4 DEF RepeatReset, TypeInv, LaneType, SpillType, WorkerType, LifeType
<1>6. CASE \E r \in Rows : RecoverVisit(r)
  <2>0. PICK r \in Rows : RecoverVisit(r)
    BY <1>6
  <2>1. CarrierType'
    BY <2>0, HoldType, SnapshotType, SameCarrierType DEF RecoverVisit, TypeInv, Carriers, Recovered
  <2>2. LifeType'
    BY <2>0 DEF RecoverVisit, TypeInv, LifeType
  <2>3. QED
    BY <2>0, <2>1, <2>2 DEF RecoverVisit, TypeInv, RowType, LaneType, SpillType, WorkerType
<1>7. CASE RecoverReset
  <2>1. PICK q \in Rows : q = carrier["recq"].row
    BY <1>7 DEF RecoverReset, TypeInv, CarrierType, Carriers
  <2>2. Update(status[q] \in {"pending", "processing"}, q, "pending", 0, 0, urgent[q])
    BY <1>7, <2>1 DEF RecoverReset, SetStatus
  <2>3. RowType'
    BY <2>2 DEF TypeInv, RowType, Statuses, Update
  <2>4. CarrierType'
    BY <1>7, ReleaseType, StepType DEF RecoverReset, TypeInv, Carriers, Recovered
  <2>5. QED
    BY <1>7, <2>3, <2>4 DEF RecoverReset, TypeInv, LaneType, SpillType, WorkerType, LifeType
<1>8. QED
  BY <1>1, <1>2, <1>3, <1>4, <1>5, <1>6, <1>7

\* ... by the operators of the admin backend ...
LEMMA AdminTypes ==
  ASSUME TypeInv, 
         \/ \E r \in Rows : RetryLoad(r)
         \/ RetryReset
         \/ \E r \in Rows : UrgentLoad(r)
         \/ UrgentReset
         \/ \E r \in Rows : MarkTaskFailed(r)
         \/ \E r \in Rows : DeleteTask(r)
         \/ \E r \in Rows : SetTaskRepeatInterval(r)
         \/ Pause
         \/ Resume
  PROVE  TypeInv'
<1>1. CASE \E r \in Rows : RetryLoad(r)
  <2>0. PICK r \in Rows : RetryLoad(r)
    BY <1>1
  <2>1. CarrierType'
    BY <2>0, HoldType, SnapshotType DEF RetryLoad, TypeInv, Carriers, RowType
  <2>2. QED
    BY <2>0, <2>1 DEF RetryLoad, TypeInv, RowType, LaneType, SpillType, WorkerType, LifeType
<1>2. CASE RetryReset
  <2>1. PICK q \in Rows : q = carrier["retry"].row
    BY <1>2 DEF RetryReset, TypeInv, CarrierType, Carriers
  <2>2. PICK hit \in BOOLEAN : Update(hit, q, "pending", 0, 1, urgent[q])
    BY <1>2, <2>1 DEF RetryReset
  <2>3. RowType'
    BY <2>2 DEF TypeInv, RowType, Statuses, Update
  <2>4. CarrierType'
    BY <1>2, ReleaseType, StepType DEF RetryReset, TypeInv, Carriers
  <2>5. QED
    BY <1>2, <2>3, <2>4 DEF RetryReset, TypeInv, LaneType, SpillType, WorkerType, LifeType
<1>3. CASE \E r \in Rows : UrgentLoad(r)
  <2>0. PICK r \in Rows : UrgentLoad(r)
    BY <1>3
  <2>1. CarrierType'
    BY <2>0, HoldType, SnapshotType DEF UrgentLoad, TypeInv, Carriers
  <2>2. QED
    BY <2>0, <2>1 DEF UrgentLoad, TypeInv, RowType, LaneType, SpillType, WorkerType, LifeType
<1>4. CASE UrgentReset
  <2>1. PICK q \in Rows : q = carrier["urgent"].row
    BY <1>4 DEF UrgentReset, TypeInv, CarrierType, Carriers
  <2>2. PICK hit \in BOOLEAN : Update(hit, q, "pending", 0, 0, TRUE)
    BY <1>4, <2>1 DEF UrgentReset
  <2>3. RowType'
    BY <2>2 DEF TypeInv, RowType, Statuses, Update
  <2>4. CarrierType'
    BY <1>4, ReleaseType, StepType DEF UrgentReset, TypeInv, Carriers
  <2>5. QED
    BY <1>4, <2>3, <2>4 DEF UrgentReset, TypeInv, LaneType, SpillType, WorkerType, LifeType
<1>5. CASE \E r \in Rows : MarkTaskFailed(r)
  <2>0. PICK r \in Rows : MarkTaskFailed(r)
    BY <1>5
  <2>1. RowType'
    BY <2>0 DEF MarkTaskFailed, TypeInv, RowType, Statuses, Update, SetStatus, Terminal
  <2>2. QED
    BY <2>0, <2>1 DEF MarkTaskFailed, TypeInv, LaneType, SpillType, WorkerType, CarrierType, LifeType
<1>6. CASE \E r \in Rows : DeleteTask(r)
  <2>0. PICK r \in Rows : DeleteTask(r)
    BY <1>6
  <2>1. RowType'
    BY <2>0 DEF DeleteTask, TypeInv, RowType, Statuses, Update
  <2>2. QED
    BY <2>0, <2>1 DEF DeleteTask, TypeInv, LaneType, SpillType, WorkerType, CarrierType, LifeType
<1>7. CASE \E r \in Rows : SetTaskRepeatInterval(r)
  <2>0. PICK r \in Rows : SetTaskRepeatInterval(r)
    BY <1>7
  <2>1. RowType'
    BY <2>0 DEF SetTaskRepeatInterval, TypeInv, RowType, Statuses, Update, SetStatus
  <2>2. QED
    BY <2>0, <2>1 DEF SetTaskRepeatInterval, TypeInv, LaneType, SpillType, WorkerType, CarrierType, LifeType
<1>8. CASE Pause
  <2>1. LifeType'
    BY <1>8 DEF Pause, TypeInv, LifeType
  <2>2. QED
    BY <1>8, <2>1 DEF Pause, TypeInv, RowType, LaneType, SpillType, WorkerType, CarrierType
<1>9. CASE Resume
  <2>1. LifeType'
    BY <1>9 DEF Resume, TypeInv, LifeType
  <2>2. QED
    BY <1>9, <2>1 DEF Resume, TypeInv, RowType, LaneType, SpillType, WorkerType, CarrierType
<1>10. QED
  BY <1>1, <1>2, <1>3, <1>4, <1>5, <1>6, <1>7, <1>8, <1>9

\* ... by drainSpilled ...
LEMMA DrainTypes ==
  ASSUME TypeInv, 
         \/ DrainSwap
         \/ DrainPaused
         \/ DrainOpen
         \/ DrainNext
         \/ DrainRereadError
  PROVE  TypeInv'
<1>1. CASE DrainSwap
  <2>1. SpillType'
    BY <1>1 DEF DrainSwap, TypeInv, SpillType
  <2>2. carrier' \in [Carriers -> CarrierState]
    <3>1. carrier \in [Carriers -> CarrierState]
      BY DEF TypeInv, CarrierType
    <3>2. carrier' = [carrier EXCEPT !["drain"].pc = "check"]
      BY <1>1 DEF DrainSwap, Step
    <3>3. QED
      BY <3>1, <3>2 DEF CarrierState
  <2>3. CarrierType'
    BY <1>1, <2>2 DEF DrainSwap, Step, TypeInv, CarrierType, CarrierState, Carriers
  <2>4. QED
    BY <1>1, <2>1, <2>3 DEF DrainSwap, TypeInv, RowType, LaneType, WorkerType, LifeType
<1>2. CASE DrainPaused
  <2>1. SpillType'
    BY <1>2 DEF DrainPaused, TypeInv, SpillType
  <2>2. carrier' \in [Carriers -> CarrierState]
    BY <1>2 DEF DrainPaused, Idle, TypeInv, CarrierType, CarrierState
  <2>3. CarrierType'
    BY <1>2, <2>2 DEF DrainPaused, Idle, TypeInv, CarrierType, CarrierState, Carriers
  <2>4. QED
    BY <1>2, <2>1, <2>3 DEF DrainPaused, TypeInv, RowType, LaneType, WorkerType, LifeType
<1>3. CASE DrainOpen
  <2>1. carrier' \in [Carriers -> CarrierState]
    <3>1. carrier \in [Carriers -> CarrierState]
      BY DEF TypeInv, CarrierType
    <3>2. carrier' = [carrier EXCEPT !["drain"].pc = "loop"]
      BY <1>3 DEF DrainOpen, Step
    <3>3. QED
      BY <3>1, <3>2 DEF CarrierState
  <2>2. CarrierType'
    BY <1>3, <2>1 DEF DrainOpen, Step, TypeInv, CarrierType, CarrierState, Carriers
  <2>3. QED
    BY <1>3, <2>2 DEF DrainOpen, TypeInv, RowType, LaneType, SpillType, WorkerType, LifeType
<1>4. CASE DrainNext
  <2>1. draining # <<>> /\ draining \in Seq(Copy)
    BY <1>4 DEF DrainNext, TypeInv, CarrierType, SpillType
  <2>2. Head(draining) \in Copy /\ Tail(draining) \in Seq(Copy)
    BY <2>1, HeadTailProperties
  <2>3. SpillType'
    BY <1>4, <2>2 DEF DrainNext, TypeInv, SpillType
  <2>4. CarrierType'
    BY <1>4, <2>1, <2>2, HoldType, SkipType DEF DrainNext, TypeInv, Carriers
  <2>5. QED
    BY <1>4, <2>3, <2>4 DEF DrainNext, TypeInv, RowType, LaneType, WorkerType, LifeType
<1>5. CASE DrainRereadError
  <2>1. draining # <<>> /\ draining \in Seq(Copy)
    BY <1>5 DEF DrainRereadError, TypeInv, CarrierType, SpillType
  <2>2. Head(draining) \in Copy /\ Tail(draining) \in Seq(Copy)
    BY <2>1, HeadTailProperties
  <2>3. SpillType'
    BY <1>5, <2>2 DEF DrainRereadError, TypeInv, SpillType, Spilled
  <2>4. CarrierType'
    BY <1>5, <2>1, <2>2, SkipType DEF DrainRereadError, TypeInv
  <2>5. QED
    BY <1>5, <2>3, <2>4 DEF DrainRereadError, TypeInv, RowType, LaneType, WorkerType, LifeType
<1>6. QED
  BY <1>1, <1>2, <1>3, <1>4, <1>5

\* What a reset whose answer is lost writes, like the reset it is.
LEMMA ResetLostWrites ==
  ASSUME TypeInv, NEW k \in Carriers, ResetLost(k)
  PROVE  /\ carrier[k].pc = "reset" /\ carrier[k].row \in Rows
         /\ \E n \in {0, 1}, u \in BOOLEAN : Update(TRUE, carrier[k].row, "pending", 0, n, u)
<1>1. carrier[k].pc = "reset" /\ carrier[k].row \in Rows
  BY DEF ResetLost, TypeInv, CarrierType
<1>2. urgent[carrier[k].row] \in BOOLEAN
  BY <1>1 DEF TypeInv, RowType
<1>3. \/ Update(TRUE, carrier[k].row, "pending", 0, 1, urgent[carrier[k].row])
      \/ Update(TRUE, carrier[k].row, "pending", 0, 0, urgent[carrier[k].row])
      \/ Update(TRUE, carrier[k].row, "pending", 0, 0, TRUE)
  BY DEF ResetLost, SetStatus
<1>4. QED
  BY <1>1, <1>2, <1>3

\* ... by a statement that fails or whose answer is lost, and by the idle reaper ...
LEMMA FaultTypes ==
  ASSUME TypeInv,
         \/ RecoverSelectError
         \/ \E k \in Carriers : ResetError(k) \/ ResetLost(k)
         \/ Reap
  PROVE  TypeInv'
<1>1. CASE RecoverSelectError
  <2>1. LifeType'
    BY <1>1, GiveUpType DEF RecoverSelectError, TypeInv, LifeType
  <2>2. QED
    BY <1>1, <2>1 DEF RecoverSelectError, TypeInv, RowType, LaneType, SpillType, WorkerType,
       CarrierType
<1>2. CASE \E k \in Carriers : ResetError(k)
  <2>0. PICK k \in Carriers : ResetError(k)
    BY <1>2
  <2>1. carrier[k].row \in Rows
    BY <2>0 DEF ResetError, TypeInv, CarrierType
  <2>2. CarrierType'
    BY <2>0, ReleaseType DEF ResetError, TypeInv
  <2>3. LifeType'
    BY <2>0, <2>1, GiveUpType DEF ResetError, TypeInv
  <2>4. QED
    BY <2>0, <2>2, <2>3 DEF ResetError, TypeInv, RowType, LaneType, SpillType, WorkerType
<1>3. CASE \E k \in Carriers : ResetLost(k)
  <2>0. PICK k \in Carriers : ResetLost(k)
    BY <1>3
  <2>1. PICK q \in Rows : q = carrier[k].row
    BY <2>0, ResetLostWrites
  <2>2. PICK n \in {0, 1}, u \in BOOLEAN : Update(TRUE, q, "pending", 0, n, u)
    BY <2>0, <2>1, ResetLostWrites
  <2>3. RowType'
    BY <2>2 DEF TypeInv, RowType, Statuses, Update
  <2>4. CarrierType'
    BY <2>0, ReleaseType DEF ResetLost, TypeInv
  <2>5. LifeType'
    BY <2>0, <2>1, GiveUpType DEF ResetLost, TypeInv
  <2>6. QED
    BY <2>0, <2>3, <2>4, <2>5 DEF ResetLost, TypeInv, LaneType, SpillType, WorkerType
<1>4. CASE Reap
  <2>1. worker \in [Workers -> WorkerState]
    BY DEF TypeInv, WorkerType
  <2>2. /\ worker' \in [Workers -> WorkerState]
        /\ \A w \in Workers : /\ worker'[w].pc = worker[w].pc
                              /\ worker'[w].row = worker[w].row
                              /\ worker'[w].out = worker[w].out
    <3>1. PICK busy \in SUBSET Workers :
            worker' = [w \in Workers |-> [worker[w] EXCEPT !.away = w \in busy]]
      BY <1>4 DEF Reap
    <3>2. \A w \in Workers : [worker[w] EXCEPT !.away = w \in busy] \in WorkerState
      <4>1. \A w \in Workers, b \in BOOLEAN : [worker[w] EXCEPT !.away = b] \in WorkerState
        BY <2>1 DEF WorkerState
      <4>2. \A w \in Workers : (w \in busy) \in BOOLEAN
        OBVIOUS
      <4>3. QED
        BY <4>1, <4>2, Zenon
    <3>3. worker' \in [Workers -> WorkerState]
      BY <3>1, <3>2
    <3>4. QED
      BY <2>1, <3>1, <3>3 DEF WorkerState
  <2>3. WorkerType'
    BY <2>2 DEF TypeInv, WorkerType
  <2>4. LifeType'
    BY <1>4 DEF Reap, TypeInv, LifeType, WorkerType
  <2>5. QED
    BY <1>4, <2>3, <2>4 DEF Reap, TypeInv, RowType, LaneType, SpillType, CarrierType
<1>5. QED
  BY <1>1, <1>2, <1>3, <1>4

\* ... by a worker that takes a copy and claims its row ...
LEMMA ClaimTypes ==
  ASSUME TypeInv, NEW w \in Workers, 
         \/ Gate(w)
         \/ TakeFast(w)
         \/ TakeMain(w)
         \/ TakeDrop(w)
         \/ Claim(w)
         \/ ClaimError(w)
         \/ ClaimLost(w)
         \/ ClaimCancelled(w)
         \/ ReadRound(w)
         \/ ReadCancelled(w)
  PROVE  TypeInv'
<1>1. CASE Gate(w)
  <2>1. queue' = queue /\ fast' \in Seq(Rows)
    BY <1>1, HeadTailProperties DEF Gate, TypeInv, LaneType
  <2>2. LaneType'
    BY <1>1, <2>1 DEF Gate, TypeInv, LaneType
  <2>3. WorkerType'
    BY <1>1, GrabType, MoveType DEF Gate, TypeInv, LaneType
  <2>4. QED
    BY <1>1, <2>2, <2>3 DEF Gate, TypeInv, RowType, SpillType, CarrierType, LifeType
<1>2. CASE TakeFast(w)
  <2>1. LaneType'
    BY <1>2 DEF TakeFast, TypeInv, LaneType
  <2>2. WorkerType'
    BY <1>2, GrabType DEF TakeFast, TypeInv, LaneType
  <2>3. QED
    BY <1>2, <2>1, <2>2 DEF TakeFast, TypeInv, RowType, SpillType, CarrierType, LifeType
<1>3. CASE TakeMain(w)
  <2>1. LaneType'
    BY <1>3 DEF TakeMain, TypeInv, LaneType
  <2>2. WorkerType'
    BY <1>3, GrabType DEF TakeMain, TypeInv, LaneType
  <2>3. QED
    BY <1>3, <2>1, <2>2 DEF TakeMain, TypeInv, RowType, SpillType, CarrierType, LifeType
<1>4. CASE TakeDrop(w)
  <2>1. queue' \in Seq(Rows) /\ fast' \in Seq(Rows)
    BY <1>4, HeadTailProperties DEF TakeDrop, TypeInv, LaneType
  <2>2. LaneType'
    BY <1>4, <2>1 DEF TakeDrop, TypeInv, LaneType
  <2>3. QED
    BY <1>4, <2>2 DEF TakeDrop, TypeInv, RowType, SpillType, WorkerType, CarrierType, LifeType
<1>5. CASE Claim(w)
  <2>1. PICK r \in Rows : r = worker[w].row
    BY <1>5 DEF Claim, TypeInv, WorkerType
  <2>2. Update(status[r] = "pending", r, "processing", 0, 0, FALSE)
    BY <1>5, <2>1 DEF Claim
  <2>3. RowType'
    BY <2>2 DEF TypeInv, RowType, Statuses, Update
  <2>4. WorkerType'
    BY <1>5, MoveType, LeaveType DEF Claim, TypeInv
  <2>5. LifeType'
    BY <1>5, <2>1 DEF Claim, TypeInv, LifeType
  <2>6. QED
    BY <1>5, <2>3, <2>4, <2>5 DEF Claim, TypeInv, LaneType, SpillType, CarrierType
<1>6. CASE ClaimError(w)
  <2>1. worker' \in [Workers -> WorkerState]
    <3>1. worker \in [Workers -> WorkerState]
      BY DEF TypeInv, WorkerType
    <3>2. worker' = [worker EXCEPT ![w].doubt = TRUE]
      BY <1>6 DEF ClaimError
    <3>3. QED
      BY <3>1, <3>2 DEF WorkerState
  <2>2. WorkerType'
    BY <1>6, <2>1 DEF ClaimError, TypeInv, WorkerType, WorkerState
  <2>3. QED
    BY <1>6, <2>2 DEF ClaimError, TypeInv, RowType, LaneType, SpillType, CarrierType, LifeType
<1>7. CASE ClaimLost(w)
  <2>1. PICK r \in Rows : r = worker[w].row
    BY <1>7 DEF ClaimLost, TypeInv, WorkerType
  <2>2. Update(TRUE, r, "processing", 0, 0, FALSE)
    BY <1>7, <2>1 DEF ClaimLost
  <2>3. RowType'
    BY <2>2 DEF TypeInv, RowType, Statuses, Update
  <2>4. worker' \in [Workers -> WorkerState]
    <3>1. worker \in [Workers -> WorkerState]
      BY DEF TypeInv, WorkerType
    <3>2. worker' = [worker EXCEPT ![w].doubt = TRUE]
      BY <1>7 DEF ClaimLost
    <3>3. QED
      BY <3>1, <3>2 DEF WorkerState
  <2>5. WorkerType'
    <3>1. \A v \in Workers : /\ worker'[v].pc = worker[v].pc /\ worker'[v].row = worker[v].row
                             /\ worker'[v].out = worker[v].out
      BY <1>7 DEF ClaimLost, TypeInv, WorkerType, WorkerState
    <3>2. QED
      BY <2>4, <3>1 DEF TypeInv, WorkerType
  <2>6. QED
    BY <1>7, <2>3, <2>5 DEF ClaimLost, TypeInv, LaneType, SpillType, CarrierType, LifeType
<1>8. CASE ClaimCancelled(w)
  <2>1. PICK r \in Rows : r = worker[w].row
    BY <1>8 DEF ClaimCancelled, TypeInv, WorkerType
  <2>2. WorkerType'
    BY <1>8, LeaveType DEF ClaimCancelled, TypeInv
  <2>3. LifeType'
    BY <1>8, <2>1 DEF ClaimCancelled, TypeInv, LifeType
  <2>4. QED
    BY <1>8, <2>2, <2>3 DEF ClaimCancelled, TypeInv, RowType, LaneType, SpillType, CarrierType
<1>9. CASE ReadRound(w)
  <2>1. PICK r \in Rows : r = worker[w].row
    BY <1>9 DEF ReadRound, TypeInv, WorkerType
  <2>2. WorkerType'
    BY <1>9, <2>1, LeaveType, ReadType DEF ReadRound, TypeInv, RowType
  <2>3. QED
    BY <1>9, <2>2 DEF ReadRound, TypeInv, RowType, LaneType, SpillType, CarrierType, LifeType
<1>10. CASE ReadCancelled(w)
  <2>1. PICK r \in Rows : r = worker[w].row
    BY <1>10 DEF ReadCancelled, TypeInv, WorkerType
  <2>2. PICK hit \in BOOLEAN : Update(hit, r, "pending", 0, 0, urgent[r])
    BY <1>10, <2>1 DEF ReadCancelled, Update, SetStatus
  <2>3. RowType'
    BY <2>2 DEF TypeInv, RowType, Statuses, Update
  <2>4. WorkerType'
    BY <1>10, LeaveType DEF ReadCancelled, TypeInv
  <2>5. LifeType'
    BY <1>10, <2>1 DEF ReadCancelled, TypeInv, LifeType
  <2>6. QED
    BY <1>10, <2>3, <2>4, <2>5 DEF ReadCancelled, TypeInv, LaneType, SpillType, CarrierType
<1>11. QED
  BY <1>1, <1>2, <1>3, <1>4, <1>5, <1>6, <1>7, <1>8, <1>9, <1>10

\* ... by a worker that runs a task and persists its outcome ...
LEMMA RunTypes ==
  ASSUME TypeInv, NEW w \in Workers, NEW out \in Terminal, 
         \/ RunEnds(w, out)
         \/ RunCancelled(w)
         \/ Persist(w)
         \/ PersistLost(w)
         \/ PersistCancelled(w)
  PROVE  TypeInv'
<1>1. CASE RunEnds(w, out)
  <2>1. WorkerType'
    BY <1>1, OutcomeType DEF RunEnds, TypeInv
  <2>2. QED
    BY <1>1, <2>1 DEF RunEnds, TypeInv, RowType, LaneType, SpillType, CarrierType, LifeType
<1>2. CASE RunCancelled(w)
  <2>1. PICK r \in Rows : r = worker[w].row
    BY <1>2 DEF RunCancelled, TypeInv, WorkerType
  <2>2. PICK hit \in BOOLEAN : Update(hit, r, "pending", 0, 0, urgent[r])
    BY <1>2, <2>1 DEF RunCancelled, Update, SetStatus, GiveBack
  <2>3. RowType'
    BY <2>2 DEF TypeInv, RowType, Statuses, Update
  <2>4. WorkerType'
    BY <1>2, LeaveType DEF RunCancelled, TypeInv, GiveBack
  <2>5. LifeType'
    BY <1>2, <2>1 DEF RunCancelled, TypeInv, LifeType, GiveBack
  <2>6. QED
    BY <1>2, <2>3, <2>4, <2>5 DEF RunCancelled, TypeInv, LaneType, SpillType, CarrierType
<1>3. CASE Persist(w)
  <2>1. PICK r \in Rows : r = worker[w].row
    BY <1>3 DEF Persist, TypeInv, WorkerType
  <2>2. PICK s \in Terminal, hit \in BOOLEAN : Update(hit, r, s, 0, 0, urgent[r])
    BY <1>3, <2>1 DEF Persist, SetStatus, Fenced, TypeInv, WorkerType
  <2>3. RowType'
    BY <2>2 DEF TypeInv, RowType, Statuses, Terminal, Update
  <2>4. WorkerType'
    BY <1>3, LeaveType DEF Persist, TypeInv
  <2>5. LifeType'
    BY <1>3, <2>1 DEF Persist, TypeInv, LifeType
  <2>6. QED
    BY <1>3, <2>3, <2>4, <2>5 DEF Persist, TypeInv, LaneType, SpillType, CarrierType
<1>4. CASE PersistLost(w)
  <2>1. PICK r \in Rows : r = worker[w].row
    BY <1>4 DEF PersistLost, TypeInv, WorkerType
  <2>2. PICK s \in Terminal : Update(TRUE, r, s, 0, 0, urgent[r])
    BY <1>4, <2>1 DEF PersistLost, SetStatus, TypeInv, WorkerType
  <2>3. RowType'
    BY <2>2 DEF TypeInv, RowType, Statuses, Terminal, Update
  <2>4. QED
    BY <1>4, <2>3 DEF PersistLost, TypeInv, LaneType, SpillType, WorkerType, CarrierType, LifeType
<1>5. CASE PersistCancelled(w)
  <2>1. PICK r \in Rows : r = worker[w].row
    BY <1>5 DEF PersistCancelled, TypeInv, WorkerType
  <2>2. WorkerType'
    BY <1>5, LeaveType DEF PersistCancelled, TypeInv
  <2>3. LifeType'
    BY <1>5, <2>1 DEF PersistCancelled, TypeInv, LifeType
  <2>4. QED
    BY <1>5, <2>2, <2>3 DEF PersistCancelled, TypeInv, RowType, LaneType, SpillType, CarrierType
<1>6. QED
  BY <1>1, <1>2, <1>3, <1>4, <1>5

\* ... and by Engine.Stop, a restart, or nothing at all.
LEMMA LifeTypes ==
  ASSUME TypeInv, 
         \/ Stop
         \/ Count
         \/ Return
         \/ Restart
         \/ UNCHANGED vars
  PROVE  TypeInv'
<1>1. CASE Stop
  <2>1. LifeType'
    BY <1>1 DEF Stop, TypeInv, LifeType
  <2>2. QED
    BY <1>1, <2>1 DEF Stop, TypeInv, RowType, LaneType, SpillType, WorkerType, CarrierType
<1>2. CASE Count
  <2>1. LifeType'
    BY <1>2 DEF Count, TypeInv, LifeType
  <2>2. QED
    BY <1>2, <2>1 DEF Count, TypeInv, RowType, LaneType, SpillType, WorkerType, CarrierType
<1>3. CASE Return
  <2>1. LifeType'
    BY <1>3 DEF Return, TypeInv, LifeType
  <2>2. QED
    BY <1>3, <2>1 DEF Return, TypeInv, RowType, LaneType, SpillType, WorkerType, CarrierType
<1>4. CASE Restart
  <2>1. RowType'
    BY <1>4 DEF Restart, TypeInv, RowType
  <2>2. LaneType'
    BY <1>4 DEF Restart, TypeInv, LaneType
  <2>3. SpillType'
    BY <1>4 DEF Restart, SpillType
  <2>4. AtGate \in WorkerState /\ Idle \in CarrierState
    BY <1>4 DEF Restart, AtGate, WorkerState, Idle, CarrierState
  <2>5. WorkerType'
    BY <1>4, <2>4 DEF Restart, WorkerType, AtGate
  <2>6. CarrierType'
    BY <1>4, <2>4 DEF Restart, CarrierType, Idle, Carriers
  <2>7. torecover' \subseteq Rows /\ unsettled' \subseteq Rows
    BY <1>4 DEF Restart
  <2>8. restarts' \in 0..MaxRestarts
    BY <1>4, EngineAssumption DEF Restart, TypeInv, LifeType
  <2>9. LifeType'
    <3>1. forgot' \in [Rows -> Nat]
      BY <1>4 DEF Restart, TypeInv, LifeType
    <3>2. QED
      BY <1>4, <2>7, <2>8, <3>1 DEF Restart, LifeType
  <2>10. QED
    BY <1>4, <2>1, <2>2, <2>3, <2>5, <2>6, <2>9 DEF Restart, TypeInv
<1>5. CASE UNCHANGED vars
  <2>1. QED
    BY <1>5 DEF vars, TypeInv, RowType, LaneType, SpillType, WorkerType, CarrierType, LifeType
<1>6. QED
  BY <1>1, <1>2, <1>3, <1>4, <1>5

-----------------------------------------------------------------------------
(* Type correctness                                                          *)

\* The empty table and the idle process satisfy the type invariant.
LEMMA TypeInit == Init => TypeInv
<1> SUFFICES ASSUME Init PROVE TypeInv
  OBVIOUS
<1>1. AtGate \in WorkerState /\ Idle \in CarrierState
  BY DEF AtGate, WorkerState, Idle, CarrierState
<1>2. WorkerType /\ CarrierType
  BY <1>1 DEF Init, WorkerType, CarrierType, AtGate, Idle, Carriers
<1>3. RowType /\ LaneType /\ SpillType
  BY DEF Init, RowType, LaneType, SpillType, Statuses
<1>4. LifeType
  <2>1. restarts \in 0..MaxRestarts
    BY EngineAssumption DEF Init
  <2>2. QED
    BY <2>1 DEF Init, LifeType
<1>5. QED
  BY <1>2, <1>3, <1>4 DEF TypeInv

\* Every step of the engine keeps the type invariant.
LEMMA TypeNext == TypeInv /\ [Next]_vars => TypeInv'
<1> SUFFICES ASSUME TypeInv, [Next]_vars PROVE TypeInv'
  OBVIOUS
<1>1. CASE \E w \in Workers : WorkerStep(w) \/ WorkerFault(w)
  <2>1. PICK w \in Workers : WorkerStep(w) \/ WorkerFault(w)
    BY <1>1
  <2>2. "success" \in Terminal
    BY DEF Terminal
  <2>3. QED
    BY <2>1, <2>2, ClaimTypes, RunTypes DEF WorkerStep, WorkerFault
<1>2. CASE CarrierStep
  BY <1>2, SubmitTypes, PoolTypes, QueueTypes, AdminTypes, DrainTypes DEF CarrierStep
<1>3. CASE CarrierFault
  <2>1. CASE DrainRereadError
    BY <2>1, DrainTypes
  <2>2. CASE \E k \in Carriers : SubmitToPoolError(k) \/ SubmitToPoolLost(k)
    BY <2>2, PoolTypes
  <2>3. CASE RecoverSelectError \/ \E k \in Carriers : ResetError(k) \/ ResetLost(k)
    BY <2>3, FaultTypes
  <2>4. QED
    BY <1>3, <2>1, <2>2, <2>3 DEF CarrierFault
<1>4. CASE Trigger
  BY <1>4, SubmitTypes, QueueTypes, AdminTypes, FaultTypes DEF Trigger
<1>5. CASE Stop \/ Count \/ Return \/ Restart \/ UNCHANGED vars
  BY <1>5, LifeTypes
<1>6. QED
  BY <1>1, <1>2, <1>3, <1>4, <1>5 DEF Next

\* Every behaviour keeps every variable in its type: no column, copy, worker or
\* carrier of the engine ever leaves the values the code can give it.
THEOREM TypeCorrect == Spec => []TypeOK
<1>1. Spec => []TypeInv
  BY TypeInit, TypeNext, PTL DEF Spec
<1>2. QED
  BY <1>1, TypeInvTypeOK, PTL

-----------------------------------------------------------------------------
(* Who may end a row in processing                                           *)

\* No UPDATE but the three that write an outcome makes a row terminal.
LEMMA NotTerminal ==
  ASSUME TypeInv, NEW r \in Rows, status[r] = "processing",
         status' = status \/ \E q \in Rows, s \in {"pending", "processing", "gone"} :
           status' = [status EXCEPT ![q] = s] \/ status' = [status EXCEPT ![q] = status[q]]
  PROVE  status'[r] \notin Terminal
  BY DEF Terminal, TypeInv, RowType

\* No carrier but that of a rejected retry ends a row that is being processed ...
LEMMA CarrierEnds ==
  ASSUME TypeInv, NEW r \in Rows, status[r] = "processing",
         CarrierStep \/ CarrierFault, ~MarkRequeueFailed
  PROVE  status'[r] \notin Terminal
<1>1. CASE \E k \in Carriers : SubmitToPool(k)
  <2>1. PICK k \in Carriers, q \in Rows : SubmitToPool(k) /\ q = carrier[k].row
    BY <1>1 DEF SubmitToPool, TypeInv, CarrierType
  <2>2. status' = status \/ status' = [status EXCEPT ![q] = "pending"]
    BY <2>1 DEF SubmitToPool, Update
  <2>3. QED
    BY <2>2, NotTerminal
<1>2. CASE ErrorReset
  <2>1. PICK q \in Rows : q = carrier["errq"].row
    BY <1>2 DEF ErrorReset, TypeInv, CarrierType, Carriers
  <2>2. status' = status \/ status' = [status EXCEPT ![q] = "pending"]
    BY <1>2, <2>1 DEF ErrorReset, Update
  <2>3. QED
    BY <2>2, NotTerminal
<1>3. CASE RepeatReset
  <2>1. PICK q \in Rows : q = carrier["repq"].row
    BY <1>3 DEF RepeatReset, TypeInv, CarrierType, Carriers
  <2>2. status' = status \/ status' = [status EXCEPT ![q] = "pending"]
    BY <1>3, <2>1 DEF RepeatReset, SetStatus, Update
  <2>3. QED
    BY <2>2, NotTerminal
<1>4. CASE RecoverReset
  <2>1. PICK q \in Rows : q = carrier["recq"].row
    BY <1>4 DEF RecoverReset, TypeInv, CarrierType, Carriers
  <2>2. status' = status \/ status' = [status EXCEPT ![q] = "pending"]
    BY <1>4, <2>1 DEF RecoverReset, SetStatus, Update
  <2>3. QED
    BY <2>2, NotTerminal
<1>5. CASE RetryReset
  <2>1. PICK q \in Rows : q = carrier["retry"].row
    BY <1>5 DEF RetryReset, TypeInv, CarrierType, Carriers
  <2>2. status' = status \/ status' = [status EXCEPT ![q] = "pending"]
    BY <1>5, <2>1 DEF RetryReset, Update
  <2>3. QED
    BY <2>2, NotTerminal
<1>6. CASE UrgentReset
  <2>1. PICK q \in Rows : q = carrier["urgent"].row
    BY <1>6 DEF UrgentReset, TypeInv, CarrierType, Carriers
  <2>2. status' = status \/ status' = [status EXCEPT ![q] = "pending"]
    BY <1>6, <2>1 DEF UrgentReset, Update
  <2>3. QED
    BY <2>2, NotTerminal
<1>7. CASE status' = status
  BY <1>7, NotTerminal
<1>8. CASE \/ SubmitIfActive \/ DrainSwap \/ DrainPaused \/ DrainOpen \/ DrainNext
           \/ DrainRereadError \/ RecoverSelectError
           \/ \E q \in Rows : DeliverDelayed(q) \/ RecoverVisit(q)
           \/ \E k \in Carriers : \/ Enqueue(k) \/ EnqueueFull(k) \/ EnqueueRejected(k)
                                  \/ SubmitToPoolError(k) \/ ResetError(k)
  <2>1. status' = status
    BY <1>8 DEF SubmitIfActive, DrainSwap, DrainPaused, DrainOpen, DrainNext, DrainRereadError,
       RecoverSelectError, DeliverDelayed, RecoverVisit, Enqueue, EnqueueFull, EnqueueRejected,
       SubmitToPoolError, ResetError
  <2>2. QED
    BY <1>7, <2>1
<1>9. CASE \E k \in Carriers : ResetLost(k)
  <2>1. PICK k \in Carriers : ResetLost(k)
    BY <1>9
  <2>2. PICK q \in Rows : status' = [status EXCEPT ![q] = "pending"]
    BY <2>1, ResetLostWrites DEF Update
  <2>3. QED
    BY <2>2, NotTerminal
<1>10. CASE \E k \in Carriers : SubmitToPoolLost(k)
  <2>1. PICK k \in Carriers, q \in Rows : SubmitToPoolLost(k) /\ q = carrier[k].row
    BY <1>10 DEF SubmitToPoolLost, TypeInv, CarrierType
  <2>2. status' = [status EXCEPT ![q] = "pending"]
    BY <2>1 DEF SubmitToPoolLost, Update
  <2>3. QED
    BY <2>2, NotTerminal
<1>11. QED
  BY <1>1, <1>2, <1>3, <1>4, <1>5, <1>6, <1>8, <1>9, <1>10 DEF CarrierStep, CarrierFault

\* ... nor does an operator or an event, if this process wrote the row ...
LEMMA TriggerKeeps ==
  ASSUME TypeInv, NEW r \in Rows, status[r] = "processing", fresh[r], Trigger
  PROVE  status'[r] \notin Terminal
<1>1. CASE \E q \in Rows : MarkTaskFailed(q)
  <2>1. PICK q \in Rows : MarkTaskFailed(q)
    BY <1>1
  <2>2. q # r /\ status' = [status EXCEPT ![q] = "failed"]
    BY <2>1 DEF MarkTaskFailed, SetStatus, Update
  <2>3. QED
    BY <2>2 DEF Terminal, TypeInv, RowType
<1>2. CASE \E q \in Rows : \/ SubmitNew(q) \/ SubmitNewLost(q)
                           \/ DeleteTask(q) \/ SetTaskRepeatInterval(q)
  <2>1. PICK q \in Rows : \/ SubmitNew(q) \/ SubmitNewLost(q)
                          \/ DeleteTask(q) \/ SetTaskRepeatInterval(q)
    BY <1>2
  <2>2. \/ status' = [status EXCEPT ![q] = "pending"]
        \/ status' = [status EXCEPT ![q] = "gone"]
        \/ status' = [status EXCEPT ![q] = status[q]]
    BY <2>1 DEF SubmitNew, SubmitNewLost, DeleteTask, SetTaskRepeatInterval, SetStatus, Update
  <2>3. QED
    BY <2>2, NotTerminal
<1>3. CASE \/ \E q \in Rows : \/ SubmitAgain(q) \/ ErrorSelect(q) \/ RepeatSelect(q)
                              \/ RetryLoad(q) \/ UrgentLoad(q)
           \/ Pause \/ Resume \/ Reap
  <2>1. status' = status
    BY <1>3 DEF SubmitAgain, ErrorSelect, RepeatSelect, RetryLoad, UrgentLoad, Pause, Resume,
       Reap
  <2>2. QED
    BY <2>1, NotTerminal
<1>4. QED
  BY <1>1, <1>2, <1>3 DEF Trigger

\* ... and a worker only ends its own row, in its round, with its outcome.
LEMMA WorkerEnds ==
  ASSUME TypeInv, NEW w \in Workers, WorkerStep(w) \/ WorkerFault(w),
         NEW r \in Rows, status[r] = "processing", status'[r] \in Terminal
  PROVE  /\ worker[w].row = r /\ worker[w].pc = "persist" /\ Fenced(w)
         /\ status'[r] = worker[w].out
<1>1. CASE Persist(w)
  <2>1. PICK q \in Rows : q = worker[w].row
    BY <1>1 DEF Persist, TypeInv, WorkerType
  <2>2. status' = IF Fenced(w) THEN [status EXCEPT ![q] = worker[w].out] ELSE status
    BY <1>1, <2>1 DEF Persist, SetStatus, Update
  <2>3. Fenced(w) /\ q = r /\ status'[r] = worker[w].out
    BY <2>2 DEF Terminal, TypeInv, RowType
  <2>4. QED
    BY <1>1, <2>1, <2>3 DEF Persist
<1>2. CASE Claim(w) \/ ClaimLost(w) \/ ReadCancelled(w) \/ RunCancelled(w)
  <2>1. PICK q \in Rows : q = worker[w].row
    BY <1>2 DEF Claim, ClaimLost, ReadCancelled, RunCancelled, TypeInv, WorkerType
  <2>2. \/ status' = status
        \/ status' = [status EXCEPT ![q] = "pending"]
        \/ status' = [status EXCEPT ![q] = "processing"]
    BY <1>2, <2>1 DEF Claim, ClaimLost, ReadCancelled, RunCancelled, GiveBack, SetStatus, Update
  <2>3. QED
    BY <2>2, NotTerminal
<1>3. CASE \/ Gate(w) \/ TakeFast(w) \/ TakeMain(w) \/ TakeDrop(w) \/ ClaimCancelled(w)
           \/ ClaimError(w) \/ ReadRound(w) \/ (\E out \in Terminal : RunEnds(w, out))
           \/ PersistCancelled(w)
  <2>1. status' = status
    BY <1>3 DEF Gate, TakeFast, TakeMain, TakeDrop, ClaimCancelled, ClaimError, ReadRound,
       RunEnds, PersistCancelled
  <2>2. QED
    BY <2>1, NotTerminal
<1>4. CASE PersistLost(w)
  <2>1. PICK q \in Rows : q = worker[w].row
    BY <1>4 DEF PersistLost, TypeInv, WorkerType
  <2>2. status' = [status EXCEPT ![q] = worker[w].out]
    BY <1>4, <2>1 DEF PersistLost, SetStatus, Update
  <2>3. q = r /\ status'[r] = worker[w].out
    BY <2>2 DEF Terminal, TypeInv, RowType
  <2>4. QED
    BY <1>4, <2>1, <2>3 DEF PersistLost
<1>5. QED
  BY <1>1, <1>2, <1>3, <1>4 DEF WorkerStep, WorkerFault

=============================================================================
