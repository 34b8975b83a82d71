-------------------------- MODULE WorkerPoolProofs --------------------------
(***************************************************************************)
(* The worker pool keeps the promise of JobPool, for any number of jobs,   *)
(* callers and workers, any capacities and watermarks, and however Stop's  *)
(* three reads of the counters are interleaved with the workers.           *)
(***************************************************************************)
EXTENDS WorkerPool, FiniteSetTheorems, SequenceTheorems, TLAPS

USE DEF lanes, counters, pausing

-----------------------------------------------------------------------------
(* The inductive invariant                                                   *)

TypeInv ==
  /\ TypeOK
  /\ \A w \in Workers : worker[w].pc = "run" => worker[w].job \in Jobs

Distinct(lane) == \A i, k \in 1..Len(lane) : lane[i] = lane[k] => i = k

(* A job is in one place: once in a lane, or at one worker, or done; and it is *)
(* in one of them as soon as it has been sent.                                 *)
PlaceInv ==
  /\ Distinct(main) /\ Distinct(fast)
  /\ LaneJobs(main) \cap LaneJobs(fast) = {}
  /\ \A v, w \in Workers :
       (worker[v].pc = "run" /\ worker[w].pc = "run" /\ worker[v].job = worker[w].job) => v = w
  /\ Queued \cap Running = {}
  /\ (Queued \cup Running) \cap done = {}
  /\ Taken = Queued \cup Running \cup done

(* The close of stopCh shuts out every call that could still send, so nothing  *)
(* comes in behind the back of a worker that drains and leaves.                *)
CloseInv ==
  /\ stopped <=> stop.pc \notin {"no", "lock"}
  /\ stopped => \A j \in Jobs : call[j] \notin {"fastsend", "send", "count"}
  /\ \A w \in Workers : worker[w].last \/ worker[w].pc \in {"drain", "exit"} => stopped
  /\ \A w \in Workers : worker[w].pc = "exit" => Queued = {}

(* The counters count what their names say, and what Stop has read of them     *)
(* errs on the side of too many jobs in flight.                                *)
CountInv ==
  /\ submitted = Cardinality({j \in Jobs : call[j] = "accepted"})
  /\ completed + failed = Cardinality(done)
  /\ stop.pc \in {"sub", "com", "end"} => stop.s = submitted
  /\ stop.pc \in {"com", "end"} => stop.c <= completed
  /\ stop.pc # "end" => inFlight = -1

PoolInv == TypeInv /\ PlaceInv /\ CloseInv /\ CountInv

-----------------------------------------------------------------------------
(* Lanes                                                                     *)

\* A send adds the job at the end of its lane.
LEMMA LaneAppend ==
  ASSUME NEW lane \in Seq(Jobs), NEW j \in Jobs
  PROVE  /\ LaneJobs(Append(lane, j)) = LaneJobs(lane) \cup {j}
         /\ Distinct(lane) /\ j \notin LaneJobs(lane) => Distinct(Append(lane, j))
<1>1. /\ Len(Append(lane, j)) = Len(lane) + 1 /\ Len(lane) \in Nat
      /\ \A i \in 1..Len(lane) : Append(lane, j)[i] = lane[i]
      /\ Append(lane, j)[Len(lane) + 1] = j
  BY AppendProperties, LenProperties
<1>2. 1..(Len(lane) + 1) = 1..Len(lane) \cup {Len(lane) + 1}
  BY <1>1
<1>3. LaneJobs(Append(lane, j)) = LaneJobs(lane) \cup {j}
  BY <1>1, <1>2 DEF LaneJobs
<1>4. ASSUME Distinct(lane), j \notin LaneJobs(lane)
      PROVE  Distinct(Append(lane, j))
  BY <1>1, <1>2, <1>4 DEF Distinct, LaneJobs
<1>5. QED
  BY <1>3, <1>4

\* A receive takes the job at the front, and it is not in the lane twice.
LEMMA LaneTail ==
  ASSUME NEW lane \in Seq(Jobs), lane # <<>>, Distinct(lane)
  PROVE  /\ Head(lane) \in LaneJobs(lane) /\ Head(lane) \in Jobs
         /\ Tail(lane) \in Seq(Jobs)
         /\ LaneJobs(Tail(lane)) = LaneJobs(lane) \ {Head(lane)}
         /\ Distinct(Tail(lane))
<1>1. /\ Len(lane) \in Nat /\ Len(lane) > 0
      /\ Len(Tail(lane)) = Len(lane) - 1 /\ Head(lane) = lane[1]
      /\ \A i \in 1..Len(Tail(lane)) : Tail(lane)[i] = lane[i + 1]
      /\ Tail(lane) \in Seq(Jobs) /\ Head(lane) \in Jobs
  BY HeadTailProperties, EmptySeq, LenProperties
<1>2. Head(lane) \in LaneJobs(lane)
  BY <1>1 DEF LaneJobs
<1>3. Distinct(Tail(lane))
  BY <1>1 DEF Distinct
<1>4. ASSUME NEW i \in 1..Len(Tail(lane))
      PROVE  Tail(lane)[i] \in LaneJobs(lane) \ {Head(lane)}
  BY <1>1, <1>4 DEF LaneJobs, Distinct
<1>5. ASSUME NEW i \in 1..Len(lane), lane[i] # Head(lane)
      PROVE  lane[i] \in LaneJobs(Tail(lane))
  <2>1. i - 1 \in 1..Len(Tail(lane)) /\ Tail(lane)[i - 1] = lane[i]
    BY <1>1, <1>5
  <2>2. QED
    BY <2>1 DEF LaneJobs
<1>6. LaneJobs(Tail(lane)) \subseteq LaneJobs(lane) \ {Head(lane)}
  BY <1>4 DEF LaneJobs
<1>7. LaneJobs(lane) \ {Head(lane)} \subseteq LaneJobs(Tail(lane))
  <2>1. ASSUME NEW j \in LaneJobs(lane) \ {Head(lane)}
        PROVE  j \in LaneJobs(Tail(lane))
    <3>1. PICK i \in 1..Len(lane) : lane[i] = j
      BY DEF LaneJobs
    <3>2. QED
      BY <1>5, <3>1
  <2>2. QED
    BY <2>1
<1>8. QED
  BY <1>1, <1>2, <1>3, <1>6, <1>7

-----------------------------------------------------------------------------
(* Type correctness                                                          *)

\* The steps of a call.
LEMMA TypeSubmission ==
  ASSUME TypeInv, NEW j \in Jobs, Submission(j)
  PROVE  TypeInv'
<1>1. ASSUME NEW pc \in CallState, Goto(j, pc) PROVE call' \in [Jobs -> CallState]
  BY <1>1 DEF TypeInv, TypeOK, Goto
<1>2. \A pc \in {"fasttest", "fastsend", "test", "send", "count", "out", "accepted", "rejected"} :
        pc \in CallState
  BY DEF CallState, Reading
<1>3. call' \in [Jobs -> CallState]
  BY <1>1, <1>2 DEF Submission, Enter, FastTest, FastSend, Test, Send, CountSubmitted
<1>4. main' \in Seq(Jobs) /\ fast' \in Seq(Jobs)
  <2>1. main' \in {main, Append(main, j)} /\ fast' \in {fast, Append(fast, j)}
    BY DEF Submission, Enter, FastTest, FastSend, Test, Send, CountSubmitted
  <2>2. /\ main \in Seq(Jobs) /\ Append(main, j) \in Seq(Jobs)
        /\ fast \in Seq(Jobs) /\ Append(fast, j) \in Seq(Jobs)
    BY AppendProperties DEF TypeInv, TypeOK
  <2>3. QED
    BY <2>1, <2>2
<1>5. submitted' \in Nat
  BY DEF TypeInv, TypeOK, Submission, Enter, FastTest, FastSend, Test, Send, CountSubmitted
<1>6. UNCHANGED <<worker, paused, woken, stopped, completed, failed, stop, inFlight, done>>
  BY DEF Submission, Enter, FastTest, FastSend, Test, Send, CountSubmitted
<1>7. QED
  BY <1>3, <1>4, <1>5, <1>6 DEF TypeInv, TypeOK

\* The steps of a worker.
LEMMA TypeWorker ==
  ASSUME TypeInv, NEW w \in Workers, WorkerStep(w)
  PROVE  TypeInv'
<1>1. worker \in [Workers -> WorkerState] /\ main \in Seq(Jobs) /\ fast \in Seq(Jobs)
  BY DEF TypeInv, TypeOK
<1>2. ASSUME FromFast(w) \/ FromMain(w)
      PROVE  /\ main' \in Seq(Jobs) /\ fast' \in Seq(Jobs)
             /\ worker' \in [Workers -> WorkerState]
             /\ \A v \in Workers : worker'[v].pc = "run" => worker'[v].job \in Jobs
  <2>1. PICK j \in Jobs : Begin(w, j)
    BY <1>1, <1>2, HeadTailProperties, EmptySeq DEF FromFast, FromMain
  <2>2. main' \in Seq(Jobs) /\ fast' \in Seq(Jobs)
    BY <1>1, <1>2, HeadTailProperties, EmptySeq DEF FromFast, FromMain
  <2>3. worker' \in [Workers -> WorkerState]
    BY <1>1, <2>1 DEF Begin, WorkerState
  <2>4. worker'[w].job = j /\ \A v \in Workers \ {w} : worker'[v] = worker[v]
    BY <1>1, <2>1 DEF Begin, WorkerState
  <2>5. QED
    BY <2>1, <2>2, <2>3, <2>4 DEF TypeInv
<1>3. ASSUME NEW pc \in {"gate", "await", "peek", "take", "exit"}, Move(w, pc), UNCHANGED lanes
      PROVE  /\ main' \in Seq(Jobs) /\ fast' \in Seq(Jobs)
             /\ worker' \in [Workers -> WorkerState]
             /\ \A v \in Workers : worker'[v].pc = "run" => worker'[v].job \in Jobs
  <2>1. worker' \in [Workers -> WorkerState]
    BY <1>1, <1>3 DEF Move, WorkerState
  <2>2. worker'[w].pc = pc /\ \A v \in Workers \ {w} : worker'[v] = worker[v]
    BY <1>1, <1>3 DEF Move, WorkerState
  <2>3. QED
    BY <1>1, <1>3, <2>1, <2>2 DEF TypeInv
<1>4. ASSUME worker' = [worker EXCEPT ![w].pc = "drain", ![w].last = TRUE], UNCHANGED lanes
      PROVE  /\ main' \in Seq(Jobs) /\ fast' \in Seq(Jobs)
             /\ worker' \in [Workers -> WorkerState]
             /\ \A v \in Workers : worker'[v].pc = "run" => worker'[v].job \in Jobs
  BY <1>1, <1>4 DEF WorkerState, TypeInv
<1>5. CASE Gate(w) \/ Awake(w) \/ AwaitEnds(w) \/ Peek(w) \/ Take(w) \/ Drain(w)
  <2>1. /\ main' \in Seq(Jobs) /\ fast' \in Seq(Jobs)
        /\ worker' \in [Workers -> WorkerState]
        /\ \A v \in Workers : worker'[v].pc = "run" => worker'[v].job \in Jobs
    BY <1>2, <1>3, <1>4, <1>5 DEF Gate, Awake, AwaitEnds, Peek, Take, Drain
  <2>2. QED
    BY <1>5, <2>1 DEF Gate, Awake, AwaitEnds, Peek, Take, Drain, TypeInv, TypeOK
<1>6. CASE Completed(w) \/ Failed(w)
  <2>1. /\ worker' \in [Workers -> WorkerState]
        /\ \A v \in Workers : worker'[v].pc = "run" => worker'[v].job \in Jobs
    <3>1. Back(w)
      BY <1>6 DEF Completed, Failed
    <3>2. PICK pc \in {"drain", "gate"} :
            worker' = [worker EXCEPT ![w].pc = pc, ![w].job = NoJob]
      BY <3>1 DEF Back
    <3>3. worker \in [Workers -> WorkerState] /\ NoJob \in Jobs \cup {NoJob}
      BY DEF TypeInv, TypeOK
    <3>4. worker' \in [Workers -> WorkerState]
      BY <3>2, <3>3 DEF WorkerState
    <3>5. worker'[w].pc # "run" /\ \A v \in Workers : v # w => worker'[v] = worker[v]
      BY <3>2, <3>3 DEF WorkerState
    <3>6. QED
      BY <3>4, <3>5 DEF TypeInv
  <2>2. done' \subseteq Jobs
    BY <1>6 DEF Completed, Failed, TypeInv, TypeOK
  <2>3. completed' \in Nat /\ failed' \in Nat
    BY <1>6 DEF Completed, Failed, TypeInv, TypeOK
  <2>4. QED
    BY <1>6, <2>1, <2>2, <2>3 DEF Completed, Failed, TypeInv, TypeOK
<1>7. QED
  BY <1>5, <1>6 DEF WorkerStep

\* What Stop reports is a number.
LEMMA TypeReport ==
  ASSUME TypeInv, StopReport, stop.s - stop.c - failed >= 0
  PROVE  inFlight' \in Int /\ inFlight' >= 0
BY DEF TypeInv, TypeOK, StopReport, StopState

\* The steps of Stop and the gate.
LEMMA TypeStop ==
  ASSUME TypeInv, StopCall \/ StopStep \/ Pauses, StopReport => stop.s - stop.c - failed >= 0
  PROVE  TypeInv'
<1>1. stop' \in StopState
  BY DEF TypeInv, TypeOK, StopCall, StopStep, StopClose, StopSubmitted, StopCompleted,
         StopReport, Pauses, SetPause, Resume, StopState
<1>2. inFlight' \in Int /\ (stop'.pc = "end" => inFlight' >= 0)
  <2>1. stop \in StopState /\ inFlight \in Int /\ (stop.pc = "end" => inFlight >= 0)
    BY DEF TypeInv, TypeOK
  <2>2. CASE StopReport
    BY <2>1, <2>2, TypeReport
  <2>3. CASE StopCall \/ StopClose \/ StopSubmitted \/ StopCompleted
    BY <2>1, <2>3 DEF StopCall, StopClose, StopSubmitted, StopCompleted, StopState
  <2>4. CASE Pauses
    BY <2>1, <2>4 DEF Pauses, SetPause, Resume
  <2>5. QED
    BY <2>2, <2>3, <2>4 DEF StopStep
<1>3. stopped' \in BOOLEAN /\ paused' \subseteq Scopes /\ woken' \subseteq Workers
  BY DEF TypeInv, TypeOK, StopCall, StopStep, StopClose, StopSubmitted, StopCompleted,
         StopReport, Pauses, SetPause, Resume, Broadcast
<1>4. UNCHANGED <<main, fast, call, worker, submitted, completed, failed, done>>
  BY DEF StopCall, StopStep, StopClose, StopSubmitted, StopCompleted, StopReport,
         Pauses, SetPause, Resume
<1>5. QED
  BY <1>1, <1>2, <1>3, <1>4 DEF TypeInv, TypeOK

-----------------------------------------------------------------------------
(* Where a job is                                                            *)

\* Steps that move no job.
LEMMA StillPlace ==
  ASSUME PlaceInv, UNCHANGED <<main, fast, done>>, Taken' = Taken,
         \A v \in Workers : /\ worker'[v].pc = "run" <=> worker[v].pc = "run"
                            /\ worker[v].pc = "run" => worker'[v].job = worker[v].job
  PROVE  Queued' = Queued /\ Running' = Running /\ PlaceInv'
<1>1. Queued' = Queued /\ LaneJobs(main)' = LaneJobs(main) /\ LaneJobs(fast)' = LaneJobs(fast)
  BY DEF Queued, LaneJobs
<1>2. Running' = Running
  BY DEF Running
<1>3. QED
  BY <1>1, <1>2 DEF PlaceInv, Distinct

\* A job that is sent was nowhere before.
LEMMA SendPlace ==
  ASSUME TypeInv, PlaceInv, NEW j \in Jobs, call[j] \in {"fastsend", "send"}, Goto(j, "count"),
         UNCHANGED <<worker, done>>,
         \/ fast' = Append(fast, j) /\ main' = main
         \/ main' = Append(main, j) /\ fast' = fast
  PROVE  /\ j \notin Taken /\ Taken' = Taken \cup {j}
         /\ Queued' = Queued \cup {j} /\ Running' = Running
         /\ PlaceInv'
<1>1. j \notin Taken /\ Taken' = Taken \cup {j}
  BY DEF Taken, Goto, TypeInv, TypeOK
<1>2. j \notin LaneJobs(main) /\ j \notin LaneJobs(fast)
  BY <1>1 DEF PlaceInv, Queued
<1>3. \/ LaneJobs(fast)' = LaneJobs(fast) \cup {j} /\ LaneJobs(main)' = LaneJobs(main)
      \/ LaneJobs(main)' = LaneJobs(main) \cup {j} /\ LaneJobs(fast)' = LaneJobs(fast)
  <2>1. CASE fast' = Append(fast, j) /\ main' = main
    BY <2>1, LaneAppend DEF TypeInv, TypeOK, LaneJobs
  <2>2. CASE main' = Append(main, j) /\ fast' = fast
    BY <2>2, LaneAppend DEF TypeInv, TypeOK, LaneJobs
  <2>3. QED
    BY <2>1, <2>2
<1>4. Distinct(main)' /\ Distinct(fast)'
  <2>1. Distinct(Append(main, j)) /\ Distinct(Append(fast, j)) /\ Distinct(main) /\ Distinct(fast)
    BY <1>2, LaneAppend DEF PlaceInv, TypeInv, TypeOK
  <2>2. QED
    BY <2>1 DEF Distinct
<1>5. Running' = Running
  BY DEF Running
<1>6. Queued' = Queued \cup {j}
  BY <1>3 DEF Queued
<1>7. QED
  BY <1>1, <1>2, <1>3, <1>4, <1>5, <1>6 DEF PlaceInv

\* A job that is received leaves its lane for one worker.
LEMMA TakePlace ==
  ASSUME TypeInv, PlaceInv, NEW w \in Workers, worker[w].pc # "run",
         FromFast(w) \/ FromMain(w), UNCHANGED <<call, done>>
  PROVE  /\ \E j \in Queued : Queued' = Queued \ {j} /\ Running' = Running \cup {j}
         /\ PlaceInv'
<1>1. PICK j \in Queued : Begin(w, j) /\ Queued' = Queued \ {j} /\ Distinct(main)' /\ Distinct(fast)'
                          /\ LaneJobs(main)' \cap LaneJobs(fast)' = {}
  <2>1. CASE FromFast(w)
    <3>1. /\ Head(fast) \in LaneJobs(fast)
          /\ LaneJobs(Tail(fast)) = LaneJobs(fast) \ {Head(fast)}
          /\ Distinct(Tail(fast))
      BY <2>1, LaneTail DEF FromFast, PlaceInv, TypeInv, TypeOK
    <3>2. fast' = Tail(fast) /\ main' = main /\ Begin(w, Head(fast))
      BY <2>1 DEF FromFast
    <3>3. LaneJobs(fast)' = LaneJobs(Tail(fast)) /\ LaneJobs(main)' = LaneJobs(main)
          /\ Distinct(fast)' /\ Distinct(main)'
      BY <3>1, <3>2 DEF LaneJobs, Distinct, PlaceInv
    <3>4. QED
      BY <3>1, <3>2, <3>3 DEF Queued, PlaceInv
  <2>2. CASE FromMain(w)
    <3>1. /\ Head(main) \in LaneJobs(main)
          /\ LaneJobs(Tail(main)) = LaneJobs(main) \ {Head(main)}
          /\ Distinct(Tail(main))
      BY <2>2, LaneTail DEF FromMain, PlaceInv, TypeInv, TypeOK
    <3>2. main' = Tail(main) /\ fast' = fast /\ Begin(w, Head(main))
      BY <2>2 DEF FromMain
    <3>3. LaneJobs(main)' = LaneJobs(Tail(main)) /\ LaneJobs(fast)' = LaneJobs(fast)
          /\ Distinct(fast)' /\ Distinct(main)'
      BY <3>1, <3>2 DEF LaneJobs, Distinct, PlaceInv
    <3>4. QED
      BY <3>1, <3>2, <3>3 DEF Queued, PlaceInv
  <2>3. QED
    BY <2>1, <2>2
<1>2. /\ worker'[w].pc = "run" /\ worker'[w].job = j
      /\ \A v \in Workers : v # w => worker'[v] = worker[v]
  BY <1>1 DEF Begin, TypeInv, TypeOK, WorkerState
<1>3. Running' = Running \cup {j}
  BY <1>2 DEF Running
<1>4. j \notin Running /\ j \notin done
  BY <1>1 DEF PlaceInv
<1>5. \A u, v \in Workers : (worker'[u].pc = "run" /\ worker'[v].pc = "run"
                             /\ worker'[u].job = worker'[v].job) => u = v
  BY <1>2, <1>4 DEF PlaceInv, Running
<1>6. Taken' = Taken
  BY DEF Taken
<1>7. QED
  BY <1>1, <1>3, <1>4, <1>5, <1>6 DEF PlaceInv

\* A job that ends leaves its worker, and no other worker has it.
LEMMA EndPlace ==
  ASSUME TypeInv, PlaceInv, NEW w \in Workers, worker[w].pc = "run", Back(w),
         done' = done \cup {worker[w].job}, UNCHANGED <<main, fast, call>>
  PROVE  /\ worker[w].job \in Running /\ worker[w].job \notin done
         /\ Queued' = Queued /\ Running' = Running \ {worker[w].job}
         /\ PlaceInv'
<1>1. /\ worker'[w].pc # "run"
      /\ \A v \in Workers : v # w => worker'[v] = worker[v]
  BY DEF Back, TypeInv, TypeOK, WorkerState
<1>2. worker[w].job \in Running /\ worker[w].job \notin done
  BY DEF Running, PlaceInv
<1>3. Queued' = Queued /\ LaneJobs(main)' = LaneJobs(main) /\ LaneJobs(fast)' = LaneJobs(fast)
      /\ Taken' = Taken
  BY DEF Queued, LaneJobs, Taken
<1>4. Running' = Running \ {worker[w].job}
  BY <1>1 DEF Running, PlaceInv
<1>5. Distinct(main)' /\ Distinct(fast)'
  BY DEF PlaceInv, Distinct
<1>6. \A u, v \in Workers : (worker'[u].pc = "run" /\ worker'[v].pc = "run"
                             /\ worker'[u].job = worker'[v].job) => u = v
  <2>1. SUFFICES ASSUME NEW u \in Workers, NEW v \in Workers,
                        worker'[u].pc = "run", worker'[v].pc = "run",
                        worker'[u].job = worker'[v].job
                 PROVE  u = v
    OBVIOUS
  <2>2. worker'[u] = worker[u] /\ worker'[v] = worker[v]
    BY <1>1, <2>1
  <2>3. QED
    BY <2>1, <2>2 DEF PlaceInv
<1>7. (Queued \cup Running \cup done)' = Queued \cup Running \cup done
  BY <1>2, <1>3, <1>4
<1>8. (Queued \cap Running)' = {} /\ ((Queued \cup Running) \cap done)' = {}
  BY <1>2, <1>3, <1>4 DEF PlaceInv
<1>9. (LaneJobs(main) \cap LaneJobs(fast))' = {} /\ Taken' = (Queued \cup Running \cup done)'
  BY <1>3, <1>7 DEF PlaceInv
<1>10. QED
  BY <1>2, <1>3, <1>4, <1>5, <1>6, <1>8, <1>9 DEF PlaceInv


-----------------------------------------------------------------------------
(* The counters                                                              *)

\* The sets that are counted are finite.
LEMMA CountedSets ==
  ASSUME TypeInv
  PROVE  /\ IsFiniteSet(done) /\ Cardinality(done) \in Nat
         /\ \A S \in SUBSET Jobs : /\ IsFiniteSet(S) /\ Cardinality(S) \in Nat
                                 /\ Cardinality(S) <= Cardinality(Jobs)
         /\ \A S \in SUBSET Jobs : \A j \in Jobs \ S :
              Cardinality(S \cup {j}) = Cardinality(S) + 1
<1>1. IsFiniteSet(Jobs) /\ done \in SUBSET Jobs
  BY PoolAssumption DEF TypeInv, TypeOK
<1>2. ASSUME NEW S \in SUBSET Jobs
      PROVE  IsFiniteSet(S) /\ Cardinality(S) \in Nat /\ Cardinality(S) <= Cardinality(Jobs)
  BY <1>1, FS_Subset, FS_CardinalityType
<1>3. ASSUME NEW S \in SUBSET Jobs, NEW j \in Jobs \ S
      PROVE  Cardinality(S \cup {j}) = Cardinality(S) + 1
  BY <1>2, FS_AddElement
<1>4. QED
  BY <1>1, <1>2, <1>3

Counted == {j \in Jobs : call[j] = "accepted"}

\* No call but the one that counts moves a counter or the set it stands for.
LEMMA StillCount ==
  ASSUME CountInv, UNCHANGED <<submitted, completed, failed, stop, inFlight, done>>,
         Counted' = Counted
  PROVE  CountInv'
BY DEF CountInv, Counted

\* What Stop reports is no smaller than the number of jobs in flight, and no
\* greater than the number of jobs.
LEMMA ReportBound ==
  ASSUME PoolInv, stop.pc = "com"
  PROVE  /\ stop.s - stop.c - failed \in 0..Cardinality(Jobs)
         /\ stop.s - stop.c - failed >= Cardinality(Queued \cup Running)
<1>1. TypeInv /\ PlaceInv /\ CloseInv /\ CountInv
  BY DEF PoolInv
<1>2. Counted = Taken
  BY <1>1 DEF Counted, Taken, CloseInv
<1>3. stop.s = Cardinality(Taken) /\ stop.c <= completed /\ completed + failed = Cardinality(done)
  BY <1>1, <1>2 DEF CountInv, Counted
<1>4. Taken \in SUBSET Jobs /\ IsFiniteSet(Taken) /\ Cardinality(Taken) \in Nat
      /\ Cardinality(Taken) <= Cardinality(Jobs) /\ Cardinality(Jobs) \in Nat
  BY <1>1, CountedSets DEF Taken
<1>5. Queued \cup Running = Taken \ done /\ Taken \cap done = done
  BY <1>1 DEF PlaceInv
<1>6. Cardinality(Queued \cup Running) = Cardinality(Taken) - Cardinality(done)
  BY <1>4, <1>5, FS_Difference
<1>7. Cardinality(Queued \cup Running) \in Nat
  BY <1>1, <1>4, <1>5, CountedSets
<1>8. stop.c \in Nat /\ failed \in Nat /\ completed \in Nat /\ stop.s \in Nat
  BY <1>1 DEF TypeInv, TypeOK, StopState
<1>9. QED
  BY <1>3, <1>4, <1>6, <1>7, <1>8

-----------------------------------------------------------------------------
(* One step                                                                  *)

\* What a step has to do: keep the invariant, and be a step of the promise.
StepOk == PoolInv' /\ (Promise!Next \/ UNCHANGED Promise!poolVars)

\* A call moves between its points without sending or counting.
LEMMA QuietCall ==
  ASSUME PoolInv, NEW j \in Jobs, NEW pc \in CallState,
         call[j] \notin {"count", "accepted"}, pc \notin {"count", "accepted"},
         Goto(j, pc), pc \in {"fastsend", "send"} => ~stopped, Submission(j),
         UNCHANGED <<main, fast, worker, paused, woken, stopped, submitted, completed, failed,
                     stop, inFlight, done>>
  PROVE  StepOk
<1>1. TypeInv /\ PlaceInv /\ CloseInv /\ CountInv
  BY DEF PoolInv
<1>2. /\ call'[j] = pc /\ \A i \in Jobs : i # j => call'[i] = call[i]
  BY <1>1 DEF Goto, TypeInv, TypeOK
<1>3. Taken' = Taken /\ Counted' = Counted
  BY <1>2 DEF Taken, Counted
<1>4. Queued' = Queued /\ Running' = Running /\ PlaceInv'
  BY <1>1, <1>3, StillPlace
<1>5. CountInv'
  BY <1>1, <1>3, StillCount
<1>6. CloseInv'
  BY <1>1, <1>2, <1>4 DEF CloseInv
<1>7. TypeInv'
  BY <1>1, TypeSubmission
<1>8. QED
  BY <1>4, <1>5, <1>6, <1>7 DEF StepOk, PoolInv, Promise!poolVars

\* A call sends: the job is accepted.
LEMMA SendingCall ==
  ASSUME PoolInv, NEW j \in Jobs, call[j] \in {"fastsend", "send"}, Goto(j, "count"),
         \/ fast' = Append(fast, j) /\ main' = main
         \/ main' = Append(main, j) /\ fast' = fast,
         Submission(j),
         UNCHANGED <<worker, paused, woken, stopped, submitted, completed, failed,
                     stop, inFlight, done>>
  PROVE  StepOk
<1>1. TypeInv /\ PlaceInv /\ CloseInv /\ CountInv
  BY DEF PoolInv
<1>2. ~stopped
  BY <1>1 DEF CloseInv
<1>3. /\ j \notin Taken /\ Taken' = Taken \cup {j}
      /\ Queued' = Queued \cup {j} /\ Running' = Running
      /\ PlaceInv'
  BY <1>1, SendPlace
<1>4. Counted' = Counted
  BY <1>1 DEF Counted, Goto, TypeInv, TypeOK
<1>5. CountInv'
  BY <1>1, <1>4, StillCount
<1>6. CloseInv'
  BY <1>1, <1>2 DEF CloseInv
<1>7. TypeInv'
  BY <1>1, TypeSubmission
<1>8. j \notin Queued \cup Running \cup done
  BY <1>1, <1>3 DEF PlaceInv
<1>9. Promise!Accept(j)
  BY <1>2, <1>3, <1>8 DEF Promise!Accept, Promise!InFlight
<1>10. QED
  BY <1>3, <1>5, <1>6, <1>7, <1>9 DEF StepOk, PoolInv, Promise!Next

\* A call counts its job.
LEMMA CountingCall ==
  ASSUME PoolInv, NEW j \in Jobs, CountSubmitted(j)
  PROVE  StepOk
<1>1. TypeInv /\ PlaceInv /\ CloseInv /\ CountInv
  BY DEF PoolInv
<1>2. /\ call[j] = "count" /\ call'[j] = "accepted" /\ \A i \in Jobs : i # j => call'[i] = call[i]
  BY <1>1 DEF CountSubmitted, Goto, TypeInv, TypeOK
<1>3. Taken' = Taken /\ Counted' = Counted \cup {j} /\ j \notin Counted
  BY <1>2 DEF Taken, Counted
<1>4. Queued' = Queued /\ Running' = Running /\ PlaceInv'
  BY <1>1, <1>3, StillPlace DEF CountSubmitted
<1>5. ~stopped
  BY <1>1, <1>2 DEF CloseInv
<1>6. CountInv'
  <2>1. Cardinality(Counted') = Cardinality(Counted) + 1
    BY <1>1, <1>3, CountedSets DEF Counted
  <2>2. submitted' = Cardinality(Counted')
    BY <1>1, <2>1 DEF CountInv, Counted, CountSubmitted
  <2>3. stop'.pc \notin {"sub", "com", "end"}
    BY <1>1, <1>5 DEF CloseInv, CountSubmitted
  <2>4. QED
    BY <1>1, <2>2, <2>3 DEF CountInv, Counted, CountSubmitted
<1>7. CloseInv'
  BY <1>1, <1>4, <1>5 DEF CloseInv, CountSubmitted
<1>8. TypeInv'
  BY <1>1, TypeSubmission DEF Submission
<1>9. QED
  BY <1>4, <1>6, <1>7, <1>8 DEF StepOk, PoolInv, Promise!poolVars, CountSubmitted

\* The steps of a call.
LEMMA SubmissionStep ==
  ASSUME PoolInv, NEW j \in Jobs, Submission(j)
  PROVE  StepOk
<1>1. \A pc \in {"fasttest", "fastsend", "test", "send", "out", "rejected"} : pc \in CallState
  BY DEF CallState, Reading
<1>2. CASE Enter(j)
  BY <1>1, <1>2, QuietCall DEF Enter
<1>3. CASE FastTest(j)
  BY <1>1, <1>3, QuietCall DEF FastTest
<1>4. CASE FastSend(j)
  <2>1. CASE Len(fast) < FastCap
    BY <1>4, <2>1, SendingCall DEF FastSend
  <2>2. CASE ~(Len(fast) < FastCap)
    BY <1>1, <1>4, <2>2, QuietCall DEF FastSend
  <2>3. QED
    BY <2>1, <2>2
<1>5. CASE Test(j)
  BY <1>1, <1>5, QuietCall DEF Test
<1>6. CASE Send(j)
  <2>1. CASE Len(main) < MainCap
    BY <1>6, <2>1, SendingCall DEF Send
  <2>2. CASE ~(Len(main) < MainCap)
    BY <1>1, <1>6, <2>2, QuietCall DEF Send
  <2>3. QED
    BY <2>1, <2>2
<1>7. CASE CountSubmitted(j)
  BY <1>7, CountingCall
<1>8. QED
  BY <1>2, <1>3, <1>4, <1>5, <1>6, <1>7 DEF Submission

\* A worker moves without touching a job.
LEMMA QuietWorker ==
  ASSUME PoolInv, NEW w \in Workers, worker[w].pc # "run", WorkerStep(w),
         UNCHANGED <<main, fast, call, stopped, submitted, completed, failed,
                     stop, inFlight, done>>,
         NEW pc \in {"gate", "await", "peek", "take", "drain", "exit"}, NEW last \in BOOLEAN,
         worker' = [worker EXCEPT ![w] = [@ EXCEPT !.pc = pc, !.last = last]],
         last => last = worker[w].last \/ stopped,
         pc \in {"drain", "exit"} => stopped,
         pc = "exit" => Queued = {}
  PROVE  StepOk
<1>1. TypeInv /\ PlaceInv /\ CloseInv /\ CountInv
  BY DEF PoolInv
<1>2. /\ worker'[w].pc = pc /\ worker'[w].last = last
      /\ \A v \in Workers : v # w => worker'[v] = worker[v]
  BY <1>1 DEF TypeInv, TypeOK, WorkerState
<1>3. Taken' = Taken /\ Counted' = Counted
  BY DEF Taken, Counted
<1>4. \A v \in Workers : /\ worker'[v].pc = "run" <=> worker[v].pc = "run"
                         /\ worker[v].pc = "run" => worker'[v].job = worker[v].job
  BY <1>2
<1>5. Queued' = Queued /\ Running' = Running /\ PlaceInv'
  BY <1>1, <1>3, <1>4, StillPlace
<1>6. CountInv'
  BY <1>1, <1>3, StillCount
<1>7. CloseInv'
  <2>1. \A v \in Workers : worker'[v].last \/ worker'[v].pc \in {"drain", "exit"} => stopped
    BY <1>1, <1>2 DEF CloseInv
  <2>2. \A v \in Workers : worker'[v].pc = "exit" => Queued = {}
    BY <1>1, <1>2 DEF CloseInv
  <2>3. QED
    BY <1>1, <1>5, <2>1, <2>2 DEF CloseInv
<1>8. TypeInv'
  BY <1>1, TypeWorker
<1>9. QED
  BY <1>5, <1>6, <1>7, <1>8 DEF StepOk, PoolInv, Promise!poolVars

\* A worker takes a job: the job is started.
LEMMA TakingWorker ==
  ASSUME PoolInv, NEW w \in Workers, worker[w].pc \in {"peek", "take", "drain"},
         FromFast(w) \/ FromMain(w), WorkerStep(w),
         UNCHANGED <<call, paused, woken, stopped, submitted, completed, failed, stop, inFlight, done>>
  PROVE  StepOk
<1>1. TypeInv /\ PlaceInv /\ CloseInv /\ CountInv
  BY DEF PoolInv
<1>2. PlaceInv' /\ \E j \in Queued : Queued' = Queued \ {j} /\ Running' = Running \cup {j}
  BY <1>1, TakePlace
<1>3. Counted' = Counted
  BY DEF Counted
<1>4. CountInv'
  BY <1>1, <1>3, StillCount
<1>5. CloseInv'
  <2>1. PICK j : Begin(w, j)
    BY DEF FromFast, FromMain
  <2>2. /\ worker'[w].pc = "run" /\ worker'[w].last = worker[w].last
        /\ \A v \in Workers : v # w => worker'[v] = worker[v]
    BY <1>1, <2>1 DEF Begin, TypeInv, TypeOK, WorkerState
  <2>3. \A v \in Workers : worker'[v].last \/ worker'[v].pc \in {"drain", "exit"} => stopped
    BY <1>1, <2>2 DEF CloseInv
  <2>4. \A v \in Workers : worker'[v].pc = "exit" => Queued' = {}
    BY <1>1, <1>2, <2>2 DEF CloseInv
  <2>5. QED
    BY <1>1, <2>3, <2>4 DEF CloseInv
<1>6. TypeInv'
  BY <1>1, TypeWorker
<1>7. PICK j \in Jobs : Promise!Start(j)
  BY <1>1, <1>2 DEF Promise!Start, PlaceInv, Taken
<1>8. QED
  BY <1>2, <1>4, <1>5, <1>6, <1>7 DEF StepOk, PoolInv, Promise!Next

\* A handler returns and is counted: the job is finished.
LEMMA EndingWorker ==
  ASSUME PoolInv, NEW w \in Workers, Completed(w) \/ Failed(w)
  PROVE  StepOk
<1>1. TypeInv /\ PlaceInv /\ CloseInv /\ CountInv
  BY DEF PoolInv
<1>2. /\ worker[w].pc = "run" /\ Back(w) /\ done' = done \cup {worker[w].job}
      /\ UNCHANGED <<main, fast, call, paused, woken, stopped, submitted, stop, inFlight>>
  BY DEF Completed, Failed
<1>3. /\ worker[w].job \in Running /\ worker[w].job \notin done /\ worker[w].job \in Jobs
      /\ Queued' = Queued /\ Running' = Running \ {worker[w].job}
      /\ PlaceInv'
  BY <1>1, <1>2, EndPlace DEF TypeInv
<1>4. CountInv'
  <2>1. Cardinality(done') = Cardinality(done) + 1
    BY <1>1, <1>2, <1>3, CountedSets DEF TypeInv, TypeOK
  <2>2. completed' + failed' = completed + failed + 1 /\ completed' >= completed
    <3>1. completed \in Nat /\ failed \in Nat
      BY <1>1 DEF TypeInv, TypeOK
    <3>2. \/ completed' = completed + 1 /\ failed' = failed
          \/ failed' = failed + 1 /\ completed' = completed
      BY DEF Completed, Failed
    <3>3. QED
      BY <3>1, <3>2
  <2>3. completed' + failed' = Cardinality(done')
    BY <1>1, <2>1, <2>2 DEF CountInv
  <2>4. stop.pc \in {"com", "end"} => stop.c <= completed'
    BY <1>1, <2>2 DEF CountInv, TypeInv, TypeOK, StopState, Completed, Failed
  <2>5. Counted' = Counted
    BY <1>2 DEF Counted
  <2>6. QED
    BY <1>1, <1>2, <2>3, <2>4, <2>5 DEF CountInv, Counted
<1>5. CloseInv'
  <2>1. /\ worker'[w].last = worker[w].last
        /\ worker'[w].pc = IF worker[w].last THEN "drain" ELSE "gate"
        /\ \A v \in Workers : v # w => worker'[v] = worker[v]
    BY <1>1, <1>2 DEF Back, TypeInv, TypeOK, WorkerState
  <2>2. \A v \in Workers : worker'[v].last \/ worker'[v].pc \in {"drain", "exit"} => stopped
    BY <1>1, <2>1 DEF CloseInv
  <2>3. \A v \in Workers : worker'[v].pc = "exit" => Queued' = {}
    BY <1>1, <1>3, <2>1 DEF CloseInv
  <2>4. QED
    BY <1>1, <1>2, <2>2, <2>3 DEF CloseInv
<1>6. TypeInv'
  BY <1>1, TypeWorker DEF WorkerStep
<1>7. Promise!Finish(worker[w].job)
  BY <1>2, <1>3 DEF Promise!Finish
<1>8. QED
  BY <1>3, <1>4, <1>5, <1>6, <1>7 DEF StepOk, PoolInv, Promise!Next

\* The steps of a worker.
LEMMA WorkerStepOk ==
  ASSUME PoolInv, NEW w \in Workers, WorkerStep(w)
  PROVE  StepOk
<1>1. worker \in [Workers -> WorkerState] /\ CloseInv
  BY DEF PoolInv, TypeInv, TypeOK
<1>2. \A pc \in {"peek", "take", "exit"} : Move(w, pc) =>
        worker' = [worker EXCEPT ![w] = [@ EXCEPT !.pc = pc, !.last = worker[w].last]]
  BY <1>1 DEF Move, WorkerState
<1>3. CASE Gate(w) \/ Awake(w) \/ AwaitEnds(w)
  <2>1. CASE Gate(w)
    <3>1. PICK pc \in {"await", "peek"} : Move(w, pc)
      BY <2>1 DEF Gate
    <3>2. worker' = [worker EXCEPT ![w] = [@ EXCEPT !.pc = pc, !.last = worker[w].last]]
      BY <1>1, <3>1 DEF Move, WorkerState
    <3>3. QED
      BY <1>1, <2>1, <3>2, QuietWorker DEF Gate, WorkerState
  <2>2. CASE Awake(w)
    <3>1. worker' = [worker EXCEPT ![w] = [@ EXCEPT !.pc = "gate", !.last = worker[w].last]]
      BY <1>1, <2>2 DEF Awake, Move, WorkerState
    <3>2. QED
      BY <1>1, <2>2, <3>1, QuietWorker DEF Awake, WorkerState
  <2>3. CASE AwaitEnds(w)
    BY <1>1, <2>3, QuietWorker DEF AwaitEnds
  <2>4. QED
    BY <1>3, <2>1, <2>2, <2>3
<1>4. CASE Peek(w)
  <2>1. CASE FromFast(w)
    BY <1>4, <2>1, TakingWorker DEF Peek
  <2>2. CASE Move(w, "take") /\ UNCHANGED lanes
    BY <1>1, <1>2, <1>4, <2>2, QuietWorker DEF Peek, WorkerState
  <2>3. QED
    BY <1>4, <2>1, <2>2 DEF Peek
<1>5. CASE Take(w)
  <2>1. CASE FromFast(w) \/ FromMain(w)
    BY <1>5, <2>1, TakingWorker DEF Take
  <2>2. CASE stopped /\ UNCHANGED lanes
             /\ worker' = [worker EXCEPT ![w].pc = "drain", ![w].last = TRUE]
    BY <1>1, <1>5, <2>2, QuietWorker DEF Take
  <2>3. QED
    BY <1>5, <2>1, <2>2 DEF Take
<1>6. CASE Drain(w)
  <2>1. CASE FromFast(w) \/ FromMain(w)
    BY <1>6, <2>1, TakingWorker DEF Drain
  <2>2. CASE fast = <<>> /\ main = <<>> /\ Move(w, "exit") /\ UNCHANGED lanes
    <3>1. Queued = {}
      BY <2>2, EmptySeq DEF Queued, LaneJobs
    <3>2. stopped
      BY <1>1, <1>6 DEF CloseInv, Drain
    <3>3. QED
      BY <1>1, <1>2, <1>6, <2>2, <3>1, <3>2, QuietWorker DEF Drain, WorkerState
  <2>3. QED
    BY <1>6, <2>1, <2>2 DEF Drain
<1>7. CASE Completed(w) \/ Failed(w)
  BY <1>7, EndingWorker
<1>8. QED
  BY <1>3, <1>4, <1>5, <1>6, <1>7 DEF WorkerStep

\* The instance of the promise brings its own name for the same operator.
LEMMA SameCardinality ==
  ASSUME NEW S
  PROVE  Promise!Cardinality(S) = Cardinality(S)
BY DEF Promise!Cardinality, Cardinality

\* Stop and the gate.
LEMMA StopStepOk ==
  ASSUME PoolInv, StopCall \/ StopStep \/ Pauses
  PROVE  StepOk
<1>1. TypeInv /\ PlaceInv /\ CloseInv /\ CountInv
  BY DEF PoolInv
<1>2. UNCHANGED <<main, fast, call, worker, submitted, completed, failed, done>>
  BY DEF StopCall, StopStep, StopClose, StopSubmitted, StopCompleted, StopReport,
         Pauses, SetPause, Resume
<1>3. Taken' = Taken /\ Counted' = Counted
  BY <1>2 DEF Taken, Counted
<1>4. Queued' = Queued /\ Running' = Running /\ PlaceInv'
  BY <1>1, <1>2, <1>3, StillPlace
<1>5. TypeInv'
  <2>1. StopReport => stop.s - stop.c - failed >= 0
    <3>1. SUFFICES ASSUME StopReport
                   PROVE  stop.s - stop.c - failed >= 0
      OBVIOUS
    <3>2. stop.pc = "com"
      BY <3>1 DEF StopReport
    <3>3. QED
      BY <3>2, ReportBound
  <2>2. QED
    BY <1>1, <2>1, TypeStop
<1>6. SUFFICES CloseInv' /\ CountInv' /\ (Promise!Next \/ UNCHANGED Promise!poolVars)
  BY <1>4, <1>5 DEF StepOk, PoolInv
<1>7. stop \in StopState /\ submitted \in Nat /\ completed \in Nat
  BY <1>1 DEF TypeInv, TypeOK
<1>8. CASE StopCall
  BY <1>1, <1>2, <1>4, <1>7, <1>8 DEF StopCall, CloseInv, CountInv, StopState, Promise!poolVars
<1>9. CASE StopClose
  <2>1. stopped' = TRUE /\ stopped = FALSE /\ stop'.pc = "wait" /\ inFlight' = inFlight
    BY <1>1, <1>7, <1>9 DEF StopClose, CloseInv, StopState, TypeInv, TypeOK
  <2>2. CloseInv'
    <3>1. \A j \in Jobs : call'[j] \notin {"fastsend", "send", "count"}
      BY <1>2, <1>9 DEF StopClose, Reading
    <3>2. QED
      BY <1>1, <1>2, <1>4, <2>1, <3>1 DEF CloseInv
  <2>3. CountInv'
    BY <1>1, <1>2, <1>7, <1>9 DEF StopClose, CountInv, StopState
  <2>4. Promise!Close
    BY <1>2, <1>4, <2>1 DEF Promise!Close
  <2>5. QED
    BY <2>2, <2>3, <2>4 DEF Promise!Next
<1>10. CASE StopSubmitted
  BY <1>1, <1>2, <1>4, <1>7, <1>10 DEF StopSubmitted, CloseInv, CountInv, StopState,
     Promise!poolVars
<1>11. CASE StopCompleted
  BY <1>1, <1>2, <1>4, <1>7, <1>11 DEF StopCompleted, CloseInv, CountInv, StopState,
     Promise!poolVars
<1>12. CASE StopReport
  <2>1. stop.pc = "com" /\ inFlight' = stop.s - stop.c - failed /\ stopped' = stopped
    BY <1>12 DEF StopReport
  <2>2. CloseInv' /\ CountInv'
    BY <1>1, <1>2, <1>4, <1>7, <1>12 DEF StopReport, CloseInv, CountInv, StopState
  <2>3. inFlight = -1 /\ stopped
    BY <1>1, <2>1 DEF CloseInv, CountInv
  <2>4. PICK n \in 0..Cardinality(Jobs) : n = inFlight' /\ n >= Cardinality(Queued \cup Running)
    BY <2>1, ReportBound
  <2>5. Promise!Report(n)
    <3>1. Queued' = Queued /\ Running' = Running /\ done' = done /\ stopped' = stopped
      BY <1>2, <1>4, <2>1
    <3>2. stopped /\ inFlight = -1 /\ inFlight' = n
      BY <2>3, <2>4
    <3>3. n >= Promise!Cardinality(Promise!InFlight)
      BY <2>4, SameCardinality DEF Promise!InFlight
    <3>4. UNCHANGED <<Queued, Running, done, stopped>>
      BY <3>1
    <3>5. QED
      BY <3>2, <3>3, <3>4, Zenon DEF Promise!Report
  <2>6. \E i \in 0..Promise!Cardinality(Jobs) : Promise!Report(i)
    BY <2>5, SameCardinality
  <2>7. Promise!Next
    BY <2>6, Zenon DEF Promise!Next
  <2>8. QED
    BY <2>2, <2>7
<1>13. CASE Pauses
  BY <1>1, <1>2, <1>4, <1>13 DEF Pauses, SetPause, Resume, CloseInv, CountInv, Promise!poolVars
<1>14. QED
  BY <1>8, <1>9, <1>10, <1>11, <1>12, <1>13 DEF StopStep

\* The pool starts as the promise does.
LEMMA PoolInit ==
  ASSUME Init
  PROVE  PoolInv /\ Promise!Init
<1>1. main = <<>> /\ fast = <<>> /\ <<>> \in Seq(Jobs) /\ Len(<<>>) = 0
  BY EmptySeq DEF Init
<1>2. Queued = {} /\ Distinct(main) /\ Distinct(fast) /\ LaneJobs(main) = {}
  BY <1>1 DEF Queued, LaneJobs, Distinct
<1>3. Running = {} /\ Taken = {} /\ done = {} /\ Counted = {}
  BY DEF Init, AtGate, Running, Taken, Counted
<1>4. Cardinality({}) = 0
  BY FS_EmptySet
<1>5. TypeInv
  <2>1. worker \in [Workers -> WorkerState] /\ \A w \in Workers : worker[w].pc # "run"
    BY DEF Init, AtGate, WorkerState
  <2>2. stop \in StopState /\ call \in [Jobs -> CallState]
    BY DEF Init, StopState, CallState
  <2>3. /\ paused \subseteq Scopes /\ woken \subseteq Workers /\ stopped \in BOOLEAN /\ done \subseteq Jobs
        /\ submitted \in Nat /\ completed \in Nat /\ failed \in Nat
    BY DEF Init
  <2>4. inFlight \in Int /\ (stop.pc = "end" => inFlight >= 0)
    BY DEF Init
  <2>5. main \in Seq(Jobs) /\ fast \in Seq(Jobs)
    BY <1>1
  <2>6. QED
    BY <2>1, <2>2, <2>3, <2>4, <2>5 DEF TypeInv, TypeOK
<1>6. PlaceInv
  BY <1>2, <1>3 DEF PlaceInv, Init, AtGate
<1>7. CloseInv
  BY <1>2 DEF CloseInv, Init, AtGate
<1>8. CountInv
  <2>1. submitted = Cardinality(Counted) /\ completed + failed = Cardinality(done)
    BY <1>3, <1>4 DEF Init
  <2>2. stop.pc = "no" /\ inFlight = -1
    BY DEF Init
  <2>3. QED
    BY <2>1, <2>2 DEF CountInv, Counted
<1>9. Promise!Init
  BY <1>2, <1>3 DEF Promise!Init, Init
<1>10. QED
  BY <1>5, <1>6, <1>7, <1>8, <1>9 DEF PoolInv

\* Every step keeps the invariant and is a step of the promise or a stutter.
LEMMA PoolNext ==
  ASSUME PoolInv, [Next]_vars
  PROVE  PoolInv' /\ [Promise!Next]_(Promise!poolVars)
<1>1. CASE UNCHANGED vars
  <2>1. UNCHANGED <<main, fast, call, worker, stopped, submitted, completed, failed, stop,
                    inFlight, done, paused, woken>>
    BY <1>1 DEF vars
  <2>2. TypeInv /\ PlaceInv /\ CloseInv /\ CountInv
    BY DEF PoolInv
  <2>3. Queued' = Queued /\ Running' = Running /\ PlaceInv'
    BY <2>1, <2>2, StillPlace DEF Taken
  <2>4. TypeInv'
    BY <2>1, <2>2 DEF TypeInv, TypeOK
  <2>5. CloseInv' /\ CountInv'
    BY <2>1, <2>2, <2>3 DEF CloseInv, CountInv
  <2>6. QED
    BY <2>1, <2>3, <2>4, <2>5 DEF PoolInv, Promise!poolVars
<1>2. CASE \E j \in Jobs : Submission(j)
  BY <1>2, SubmissionStep DEF StepOk
<1>3. CASE \E w \in Workers : WorkerStep(w)
  BY <1>3, WorkerStepOk DEF StepOk
<1>4. CASE StopCall \/ StopStep \/ Pauses
  BY <1>4, StopStepOk DEF StepOk
<1>5. QED
  BY <1>1, <1>2, <1>3, <1>4 DEF Next

-----------------------------------------------------------------------------
(* The theorems                                                              *)

\* The invariant holds, and with it the type invariant.
THEOREM PoolIsSound == Spec => []PoolInv
<1>1. Init => PoolInv
  BY PoolInit
<1>2. PoolInv /\ [Next]_vars => PoolInv'
  BY PoolNext
<1>3. QED
  BY <1>1, <1>2, PTL DEF Spec

\* Every variable of the pool keeps its type, and the number that Stop reports is never
\* negative although the counters move while it reads them (workerpool.go:294).
THEOREM PoolTypeCorrect == Spec => []TypeOK
<1>1. PoolInv => TypeOK
  BY DEF PoolInv, TypeInv
<1>2. QED
  BY <1>1, PoolIsSound, PTL

\* Every behaviour of Submit, the workers and Stop is one the promise allows.
THEOREM PoolKeepsPromise == Spec => KeepsPromise
<1>1. Init => Promise!Init
  BY PoolInit
<1>2. PoolInv /\ [Next]_vars => [Promise!Next]_(Promise!poolVars)
  BY PoolNext
<1>3. QED
  BY <1>1, <1>2, PoolIsSound, PTL DEF Spec, KeepsPromise, Promise!Spec

\* A worker that has left has left nothing behind, and nothing comes after it.
THEOREM PoolLeavesNothing == Spec => []NothingLeftBehind
<1>1. PoolInv => NothingLeftBehind
  BY DEF PoolInv, CloseInv, NothingLeftBehind
<1>2. QED
  BY <1>1, PoolIsSound, PTL

\* The counters account for every job that was accepted.
THEOREM PoolBooksBalance == Spec => []BooksBalance
<1>1. PoolInv => BooksBalance
  BY DEF PoolInv, PlaceInv, CountInv, BooksBalance
<1>2. QED
  BY <1>1, PoolIsSound, PTL

\* When Stop has answered that all is drained, no job is left and none comes.
THEOREM PoolDrainedForGood == Spec => []DrainedForGood
<1> DEFINE DrainInv == (inFlight # -1 => stopped) /\ DrainedForGood
<1>1. Init => DrainInv
  BY DEF Init, DrainedForGood, Promise!DrainedForGood
<1>2. ASSUME PoolInv, DrainInv, [Next]_vars
      PROVE  DrainInv'
  <2>1. CASE UNCHANGED Promise!poolVars
    BY <1>2, <2>1 DEF DrainedForGood, Promise!DrainedForGood, Promise!InFlight, Promise!poolVars
  <2>2. ASSUME NEW j \in Jobs, Promise!Accept(j)
        PROVE  DrainInv'
    BY <1>2, <2>2 DEF Promise!Accept, DrainedForGood, Promise!DrainedForGood, Promise!InFlight
  <2>3. ASSUME NEW j \in Jobs, Promise!Start(j)
        PROVE  DrainInv'
    BY <1>2, <2>3 DEF Promise!Start, DrainedForGood, Promise!DrainedForGood, Promise!InFlight
  <2>4. ASSUME NEW j \in Jobs, Promise!Finish(j)
        PROVE  DrainInv'
    BY <1>2, <2>4 DEF Promise!Finish, DrainedForGood, Promise!DrainedForGood, Promise!InFlight
  <2>5. CASE Promise!Close
    BY <1>2, <2>5 DEF Promise!Close, DrainedForGood, Promise!DrainedForGood, Promise!InFlight
  <2>6. ASSUME NEW n \in 0..Cardinality(Jobs), Promise!Report(n)
        PROVE  DrainInv'
    <3>1. /\ stopped /\ inFlight' = n /\ n >= Cardinality(Queued \cup Running)
          /\ UNCHANGED <<Queued, Running, done, stopped>>
      BY <2>6, SameCardinality DEF Promise!Report, Promise!InFlight
    <3>2. IsFiniteSet(Queued \cup Running) /\ Cardinality(Queued \cup Running) \in Nat
      <4>1. TypeInv /\ Queued \cup Running \subseteq Jobs
        BY <1>2 DEF PoolInv, PlaceInv, Taken
      <4>2. QED
        BY <4>1, CountedSets
    <3>3. n = 0 => Queued \cup Running = {}
      BY <3>1, <3>2, FS_EmptySet
    <3>4. QED
      BY <3>1, <3>3 DEF DrainedForGood, Promise!DrainedForGood, Promise!InFlight
  <2>7. Promise!Next \/ UNCHANGED Promise!poolVars
    BY <1>2, PoolNext
  <2>8. \A n \in 0..Promise!Cardinality(Jobs) : n \in 0..Cardinality(Jobs)
    BY SameCardinality
  <2>9. QED
    BY <2>1, <2>2, <2>3, <2>4, <2>5, <2>6, <2>7, <2>8 DEF Promise!Next
<1>3. DrainInv => DrainedForGood
  OBVIOUS
<1>4. QED
  BY <1>1, <1>2, <1>3, PoolIsSound, PTL DEF Spec

-----------------------------------------------------------------------------
(* No resume is slept through                                                *)

\* A worker that waits at the gate has a reason to: its stage is paused, or the channel it
\* waits on is closed already and it has not run yet.
GateInv == \A w \in Workers : worker[w].pc = "await" => IsPaused(Home) \/ w \in woken

\* A worker closes the gap itself: it reads the table and its channel in one critical
\* section, and every change of the table closes the channels that were read before.
LEMMA GateNext ==
  ASSUME TypeInv, GateInv, [Next]_vars
  PROVE  GateInv'
<1>1. worker \in [Workers -> WorkerState]
  BY DEF TypeInv, TypeOK
<1>2. SUFFICES ASSUME NEW v \in Workers, worker'[v].pc = "await"
               PROVE  IsPaused(Home)' \/ v \in woken'
  BY DEF GateInv
<1>3. CASE UNCHANGED <<worker, paused, woken>>
  BY <1>2, <1>3 DEF GateInv, IsPaused
<1>4. ASSUME NEW j \in Jobs, Submission(j)
      PROVE  UNCHANGED <<worker, paused, woken>>
  BY <1>4 DEF Submission, Enter, FastTest, FastSend, Test, Send, CountSubmitted
<1>5. CASE StopCall \/ StopStep
  BY <1>3, <1>5 DEF StopCall, StopStep, StopClose, StopSubmitted, StopCompleted, StopReport
<1>6. CASE Pauses
  <2>1. UNCHANGED worker /\ Broadcast
    BY <1>6 DEF Pauses, SetPause, Resume
  <2>2. QED
    BY <1>2, <2>1 DEF Broadcast
<1>7. ASSUME NEW w \in Workers, WorkerStep(w)
      PROVE  IsPaused(Home)' \/ v \in woken'
  <2>1. paused' = paused /\ (v # w => worker'[v] = worker[v] /\ (v \in woken => v \in woken'))
    BY <1>1, <1>7 DEF WorkerStep, Gate, Awake, AwaitEnds, Peek, Take, Drain, Completed, Failed,
       FromFast, FromMain, Begin, Move, Back
  <2>2. CASE v # w
    BY <1>2, <2>1, <2>2 DEF GateInv, IsPaused
  <2>3. CASE v = w
    <3>1. CASE Gate(w)
      BY <1>1, <1>2, <2>1, <2>3, <3>1 DEF Gate, Move, WorkerState, IsPaused
    <3>2. CASE WorkerStep(w) /\ ~Gate(w)
      <4>1. worker'[w].pc # "await"
        BY <1>1, <3>2 DEF WorkerStep, Awake, AwaitEnds, Peek, Take, Drain, Completed, Failed,
           FromFast, FromMain, Begin, Move, Back, WorkerState
      <4>2. QED
        BY <1>2, <2>3, <4>1
    <3>3. QED
      BY <1>7, <3>1, <3>2
  <2>4. QED
    BY <2>2, <2>3
<1>8. CASE UNCHANGED vars
  BY <1>3, <1>8 DEF vars
<1>9. QED
  BY <1>3, <1>4, <1>5, <1>6, <1>7, <1>8 DEF Next

\* When nothing moves in a pool that is not paused, nothing is left to do.
THEOREM PoolRestsWhenDone == Spec => []RestMeansDone
<1>1. Init => GateInv
  BY DEF Init, AtGate, GateInv
<1>2. PoolInv /\ GateInv /\ [Next]_vars => GateInv'
  BY GateNext DEF PoolInv
<1>3. ASSUME PoolInv, GateInv, Workers # {}, ~IsPaused(Home), \A w \in Workers : AtRest(w)
      PROVE  Taken \subseteq done
  <2>1. \A w \in Workers : worker[w].pc \in {"take", "exit"} /\ Queued = {}
    BY <1>3 DEF GateInv, AtRest, PoolInv, CloseInv
  <2>2. Running = {} /\ Queued = {}
    BY <1>3, <2>1 DEF Running
  <2>3. QED
    BY <1>3, <2>2 DEF PoolInv, PlaceInv
<1>4. PoolInv /\ GateInv => RestMeansDone
  BY <1>3 DEF RestMeansDone
<1>5. QED
  BY <1>1, <1>2, <1>4, PoolIsSound, PTL DEF Spec

=============================================================================
