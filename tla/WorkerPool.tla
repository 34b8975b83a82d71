----------------------------- MODULE WorkerPool -----------------------------
(***************************************************************************)
(* One worker pool: Submit and SubmitUrgent, which test and send under a   *)
(* read lock, the workers' loop over two lanes behind a gate, and Stop,    *)
(* which closes the pool under the write lock, waits for the workers or a  *)
(* timeout, and computes what is left from three counters, one by one.     *)
(* The gate is the engine's table of pauses: a worker that finds its scope *)
(* paused waits on a channel, which the next change of the table closes.   *)
(*                                                                         *)
(* A step is one channel operation, one atomic counter, one length read or *)
(* one critical section of the pause table.                                *)
(***************************************************************************)
EXTENDS Integers, Sequences, FiniteSets

CONSTANTS
  Jobs,        (* one goroutine calls Submit for each job                  *)
  Urgent,      (* the jobs that are submitted with SubmitUrgent            *)
  Workers,
  NoJob,
  MainCap,     (* cap(taskQueue)                                           *)
  MainMark,    (* the length at which the main lane is at its watermark    *)
  FastCap,     (* cap(urgentQueue)                                         *)
  FastMark,    (* the length at which the fast lane is at its watermark    *)
  Scopes,      (* the scopes <<site, stage>> that may be paused            *)
  Whole,       (* the stage of a scope that is a whole site                *)
  Home         (* the scope of this pool                                   *)

ASSUME PoolAssumption ==
  /\ IsFiniteSet(Jobs) /\ IsFiniteSet(Workers)
  /\ NoJob \notin Jobs
  /\ Urgent \subseteq Jobs
  /\ MainCap \in Nat /\ MainMark \in Nat /\ FastCap \in Nat /\ FastMark \in Nat
  /\ \A s \in Scopes : s = <<s[1], s[2]>>
  /\ Home \in Scopes /\ Home[2] # Whole

VARIABLES
  main, fast,      \* taskQueue and urgentQueue
  call,            \* where the goroutine of a job is in Submit or SubmitUrgent
  worker,
  paused,          \* Engine.paused: the scopes that are paused
  woken,           \* the workers at the gate whose channel has been closed
  stopped,         \* stopped, and stopCh is closed: both under the write lock
  submitted, completed, failed,   \* the counters
  stop,            \* Stop: where it is and what it has read
  inFlight,        \* stopRes.inFlight, -1 before
  done             \* history: jobs whose handler has returned and is counted

lanes    == <<main, fast>>
pausing  == <<paused, woken>>
counters == <<submitted, completed, failed>>
vars     == <<main, fast, call, worker, paused, woken, stopped, submitted, completed, failed,
              stop, inFlight, done>>

\* A call holds the read lock from its first test to its last counter.
Reading == {"fasttest", "fastsend", "test", "send", "count"}

CallState   == {"out", "accepted", "rejected"} \cup Reading
WorkerState == [pc : {"gate", "await", "peek", "take", "run", "drain", "exit"},
                job : Jobs \cup {NoJob}, last : BOOLEAN]
StopState   == [pc : {"no", "lock", "wait", "sub", "com", "end"}, s : Nat, c : Nat]

TypeOK ==
  /\ main \in Seq(Jobs) /\ fast \in Seq(Jobs)
  /\ call \in [Jobs -> CallState]
  /\ worker \in [Workers -> WorkerState]
  /\ paused \subseteq Scopes /\ woken \subseteq Workers /\ stopped \in BOOLEAN
  /\ submitted \in Nat /\ completed \in Nat /\ failed \in Nat
  /\ stop \in StopState
  /\ inFlight \in Int /\ (stop.pc = "end" => inFlight >= 0)
  /\ done \subseteq Jobs

AtGate == [pc |-> "gate", job |-> NoJob, last |-> FALSE]

Init ==
  /\ main = <<>> /\ fast = <<>>
  /\ call = [j \in Jobs |-> "out"]
  /\ worker = [w \in Workers |-> AtGate]
  /\ paused = {} /\ woken = {} /\ stopped = FALSE
  /\ submitted = 0 /\ completed = 0 /\ failed = 0
  /\ stop = [pc |-> "no", s |-> 0, c |-> 0]
  /\ inFlight = -1
  /\ done = {}

-----------------------------------------------------------------------------
(* Submit and SubmitUrgent                                                 *)

Goto(j, pc) == call' = [call EXCEPT ![j] = pc]

\* RLock: a writer that waits keeps new readers out.
Enter(j) ==
  /\ call[j] = "out" /\ stop.pc # "lock"
  /\ Goto(j, IF j \in Urgent THEN "fasttest" ELSE "test")
  /\ UNCHANGED <<lanes, worker, pausing, stopped, counters, stop, inFlight, done>>

\* SubmitUrgent looks for room in the fast lane ...
FastTest(j) ==
  /\ call[j] = "fasttest"
  /\ Goto(j, IF ~stopped /\ Len(fast) < FastMark THEN "fastsend" ELSE "test")
  /\ UNCHANGED <<lanes, worker, pausing, stopped, counters, stop, inFlight, done>>

\* ... and falls back to the main lane when others have filled it meanwhile.
FastSend(j) ==
  /\ call[j] = "fastsend"
  /\ IF Len(fast) < FastCap
     THEN fast' = Append(fast, j) /\ Goto(j, "count")
     ELSE Goto(j, "test") /\ UNCHANGED fast
  /\ UNCHANGED <<main, worker, pausing, stopped, counters, stop, inFlight, done>>

\* submitLocked: refuse after Stop, refuse at the watermark.  A job that met
\* ErrQueueFull is spilled by the engine and may be submitted again.
Test(j) ==
  /\ call[j] = "test"
  /\ \/ stopped /\ Goto(j, "rejected")
     \/ ~stopped /\ Len(main) >= MainMark /\ Goto(j, "out")
     \/ ~stopped /\ Len(main) < MainMark /\ Goto(j, "send")
  /\ UNCHANGED <<lanes, worker, pausing, stopped, counters, stop, inFlight, done>>

Send(j) ==
  /\ call[j] = "send"
  /\ IF Len(main) < MainCap
     THEN main' = Append(main, j) /\ Goto(j, "count")
     ELSE Goto(j, "out") /\ UNCHANGED main
  /\ UNCHANGED <<fast, worker, pausing, stopped, counters, stop, inFlight, done>>

\* submitted.Add(1), which a worker may overtake, and RUnlock.
CountSubmitted(j) ==
  /\ call[j] = "count"
  /\ submitted' = submitted + 1
  /\ Goto(j, "accepted")
  /\ UNCHANGED <<lanes, worker, pausing, stopped, completed, failed, stop, inFlight, done>>

-----------------------------------------------------------------------------
(* The workers                                                             *)

Move(w, pc)  == worker' = [worker EXCEPT ![w].pc = pc]
Begin(w, j)  == worker' = [worker EXCEPT ![w].pc = "run", ![w].job = j]

\* isPausedLocked: the whole site is paused, or the scope itself.
IsPaused(s) == <<s[1], Whole>> \in paused \/ s \in paused

\* Gate.Wait reads the table and the channel together ...
Gate(w) ==
  /\ worker[w].pc = "gate"
  /\ Move(w, IF IsPaused(Home) THEN "await" ELSE "peek")
  /\ UNCHANGED <<lanes, call, pausing, stopped, counters, stop, inFlight, done>>

\* ... reads them again when its channel is closed, whatever has changed ...
Awake(w) ==
  /\ worker[w].pc = "await" /\ w \in woken
  /\ Move(w, "gate") /\ woken' = woken \ {w}
  /\ UNCHANGED <<lanes, call, paused, stopped, counters, stop, inFlight, done>>

\* Mutant: only a worker that is not paused any more hears of the stop.
AwaitEndsOpen(w) ==
  /\ worker[w].pc = "await" /\ stopped /\ ~IsPaused(Home)
  /\ worker' = [worker EXCEPT ![w].pc = "drain", ![w].last = TRUE]
  /\ woken' = woken \ {w}
  /\ UNCHANGED <<lanes, call, paused, stopped, counters, stop, inFlight, done>>

\* ... and ends when stopCh is.
AwaitEnds(w) ==
  /\ worker[w].pc = "await" /\ stopped
  /\ worker' = [worker EXCEPT ![w].pc = "drain", ![w].last = TRUE]
  /\ woken' = woken \ {w}
  /\ UNCHANGED <<lanes, call, paused, stopped, counters, stop, inFlight, done>>

FromFast(w) == fast # <<>> /\ Begin(w, Head(fast)) /\ fast' = Tail(fast) /\ UNCHANGED main
FromMain(w) == main # <<>> /\ Begin(w, Head(main)) /\ main' = Tail(main) /\ UNCHANGED fast

\* The fast lane is looked at alone first ...
Peek(w) ==
  /\ worker[w].pc = "peek"
  /\ FromFast(w) \/ (fast = <<>> /\ Move(w, "take") /\ UNCHANGED lanes)
  /\ UNCHANGED <<call, pausing, stopped, counters, stop, inFlight, done>>

\* Mutant: the worker leaves when it hears of the stop, without draining.
TakeOrLeave(w) ==
  /\ worker[w].pc = "take"
  /\ FromFast(w) \/ FromMain(w) \/ (stopped /\ Move(w, "exit") /\ UNCHANGED lanes)
  /\ UNCHANGED <<call, pausing, stopped, counters, stop, inFlight, done>>

\* ... then select takes any ready case: either lane, or stopCh.
Take(w) ==
  /\ worker[w].pc = "take"
  /\ \/ FromFast(w) \/ FromMain(w)
     \/ /\ stopped /\ UNCHANGED lanes
        /\ worker' = [worker EXCEPT ![w].pc = "drain", ![w].last = TRUE]
  /\ UNCHANGED <<call, pausing, stopped, counters, stop, inFlight, done>>

\* drainAndExit looks at no gate: it runs what is queued, then leaves.
Drain(w) ==
  /\ worker[w].pc = "drain"
  /\ \/ FromFast(w) \/ FromMain(w)
     \/ fast = <<>> /\ main = <<>> /\ Move(w, "exit") /\ UNCHANGED lanes
  /\ UNCHANGED <<call, pausing, stopped, counters, stop, inFlight, done>>

\* Back to the loop the job was taken in.
Back(w) == worker' = [worker EXCEPT ![w].pc = IF worker[w].last THEN "drain" ELSE "gate",
                                    ![w].job = NoJob]

\* Mutant: the error of a handler is reported and not counted.
FailedUncounted(w) ==
  /\ worker[w].pc = "run"
  /\ done' = done \cup {worker[w].job}
  /\ Back(w)
  /\ UNCHANGED <<lanes, call, pausing, stopped, counters, stop, inFlight>>

\* processTask: the handler returns, or panics into an error; it is counted.
Completed(w) ==
  /\ worker[w].pc = "run"
  /\ completed' = completed + 1 /\ done' = done \cup {worker[w].job}
  /\ Back(w)
  /\ UNCHANGED <<lanes, call, pausing, stopped, submitted, failed, stop, inFlight>>

Failed(w) ==
  /\ worker[w].pc = "run"
  /\ failed' = failed + 1 /\ done' = done \cup {worker[w].job}
  /\ Back(w)
  /\ UNCHANGED <<lanes, call, pausing, stopped, submitted, completed, stop, inFlight>>

-----------------------------------------------------------------------------
(* Stop and the gate                                                       *)

\* stopOnce: the first call does the work, the others wait for its result.
StopCall ==
  /\ stop.pc = "no" /\ stop' = [stop EXCEPT !.pc = "lock"]
  /\ UNCHANGED <<lanes, call, worker, pausing, stopped, counters, inFlight, done>>

\* Mutant: Stop closes the pool without waiting for the calls that read.
StopCloseUnlocked ==
  /\ stop.pc = "lock"
  /\ stopped' = TRUE /\ stop' = [stop EXCEPT !.pc = "wait"]
  /\ UNCHANGED <<lanes, call, worker, pausing, counters, inFlight, done>>

\* Lock once no call reads; set stopped and close stopCh; Unlock.
StopClose ==
  /\ stop.pc = "lock" /\ \A j \in Jobs : call[j] \notin Reading
  /\ stopped' = TRUE /\ stop' = [stop EXCEPT !.pc = "wait"]
  /\ UNCHANGED <<lanes, call, worker, pausing, counters, inFlight, done>>

\* All workers have left, or the timeout fires; then the counters are loaded
\* from left to right.
StopSubmitted ==
  /\ stop.pc = "wait" /\ stop' = [stop EXCEPT !.pc = "sub", !.s = submitted]
  /\ UNCHANGED <<lanes, call, worker, pausing, stopped, counters, inFlight, done>>

StopCompleted ==
  /\ stop.pc = "sub" /\ stop' = [stop EXCEPT !.pc = "com", !.c = completed]
  /\ UNCHANGED <<lanes, call, worker, pausing, stopped, counters, inFlight, done>>

\* Mutant: Stop reports what is queued and forgets what is being run.
StopReportQueued ==
  /\ stop.pc = "com" /\ stop' = [stop EXCEPT !.pc = "end"]
  /\ inFlight' = Len(main) + Len(fast)
  /\ UNCHANGED <<lanes, call, worker, pausing, stopped, counters, done>>

StopReport ==
  /\ stop.pc = "com" /\ stop' = [stop EXCEPT !.pc = "end"]
  /\ inFlight' = stop.s - stop.c - failed
  /\ UNCHANGED <<lanes, call, worker, pausing, stopped, counters, done>>

\* broadcastPauseLocked: the channel everybody waits on is closed and replaced.
Broadcast == woken' = {w \in Workers : worker[w].pc = "await"}

\* setPause: not what is paused already, by itself or with its site.
SetPause(s) ==
  /\ ~IsPaused(s)
  /\ paused' = paused \cup {s}
  /\ Broadcast
  /\ UNCHANGED <<lanes, call, worker, stopped, counters, stop, inFlight, done>>

\* Mutant: the pauses of a site are lifted and nobody is told.
ResumeSilently(scopes) ==
  /\ scopes # {}
  /\ paused' = paused \ scopes
  /\ UNCHANGED woken
  /\ UNCHANGED <<lanes, call, worker, stopped, counters, stop, inFlight, done>>

\* clearScope lifts one pause, clearSite all of a site, clearAllPauses all.
Resume(scopes) ==
  /\ scopes # {}
  /\ paused' = paused \ scopes
  /\ Broadcast
  /\ UNCHANGED <<lanes, call, worker, stopped, counters, stop, inFlight, done>>

OfSite(site) == {s \in paused : s[1] = site}

Pauses ==
  \/ \E s \in Scopes : SetPause(s)
  \/ \E s \in paused : Resume({s}) \/ Resume(OfSite(s[1]))
  \/ Resume(paused)

-----------------------------------------------------------------------------

Submission(j) ==
  \/ Enter(j) \/ FastTest(j) \/ FastSend(j) \/ Test(j) \/ Send(j) \/ CountSubmitted(j)

WorkerStep(w) ==
  \/ Gate(w) \/ Awake(w) \/ AwaitEnds(w)
  \/ Peek(w) \/ Take(w) \/ Drain(w) \/ Completed(w) \/ Failed(w)

StopStep == StopClose \/ StopSubmitted \/ StopCompleted \/ StopReport

Next ==
  \/ \E j \in Jobs : Submission(j)
  \/ \E w \in Workers : WorkerStep(w)
  \/ StopCall \/ StopStep \/ Pauses

Spec == Init /\ [][Next]_vars

\* Go runs every goroutine that can run, and every handler returns; a call to
\* Submit that was entered goes on.  A select whose cases are ready again and again takes
\* each of them some time, as it chooses at random: a gate that is woken for ever does not
\* hide the stop.  Nobody has to call Submit or Stop, to pause or to resume.
FairSpec ==
  /\ Spec
  /\ \A w \in Workers : WF_vars(WorkerStep(w)) /\ SF_vars(AwaitEnds(w))
  /\ \A j \in Jobs : WF_vars(call[j] \in Reading /\ Submission(j))
  /\ WF_vars(StopStep)

-----------------------------------------------------------------------------
(* Properties                                                              *)

LaneJobs(lane) == {lane[i] : i \in 1..Len(lane)}

Queued  == LaneJobs(main) \cup LaneJobs(fast)
Running == {worker[w].job : w \in {v \in Workers : worker[v].pc = "run"}}
Taken   == {j \in Jobs : call[j] \in {"count", "accepted"}}

\* The pool as the engine sees it: a job is accepted when it is sent, and
\* finished when its end is counted.
Promise == INSTANCE JobPool WITH
  waiting <- Queued, active <- Running, finished <- done,
  closed <- stopped, report <- inFlight

\* However Submit, the workers and Stop interleave, the pool keeps its promise:
\* no job is lost, run twice or taken after Stop, and none is left out of the
\* number Stop reports although the counters move while it reads them.
KeepsPromise == Promise!Spec

\* Stop's answer "drained" is not taken back: from then on no job is queued and
\* none runs, so the engine may close the browsers and the database.
DrainedForGood == Promise!DrainedForGood

\* A worker that leaves finds both lanes empty, and they stay empty: no call can
\* send between its test of stopped and the close of stopCh.
NothingLeftBehind == (\E w \in Workers : worker[w].pc = "exit") => Queued = {}

\* Between two moves of a counter the books balance: every job is counted as
\* submitted but the ones whose call has sent and not counted yet.
BooksBalance ==
  /\ submitted = Cardinality({j \in Jobs : call[j] = "accepted"})
  /\ completed + failed = Cardinality(done)
  /\ Taken = Queued \cup Running \cup done

\* A stop is not held up by a pause: all jobs are run and all workers leave
\* (neither a stop nor an exit is taken back).
StopDrains == []<>(stopped => \A w \in Workers : worker[w].pc = "exit")

\* All jobs accepted are run, once the pool stays resumed or stops: no change of the table of
\* pauses is missed by a worker between its look at the table and its wait (pause.go:267).
AcceptedIsRun ==
  <>[](~IsPaused(Home) \/ stopped) => []<>(Taken \subseteq done)

\* A worker that cannot go on by itself: it sleeps behind the gate, waits for a job, or left.
AtRest(w) ==
  \/ worker[w].pc = "await" /\ w \notin woken /\ ~stopped
  \/ worker[w].pc = "take" /\ Queued = {} /\ ~stopped
  \/ worker[w].pc = "exit"

\* When all workers are at rest and the stage is not paused, every accepted job has been run:
\* nobody sleeps through a resume with a job in its lane (pause.go:267).  It is what
\* AcceptedIsRun rests on, without fairness.
RestMeansDone ==
  (Workers # {} /\ ~IsPaused(Home) /\ \A w \in Workers : AtRest(w)) => Taken \subseteq done

=============================================================================
