----------------------------- MODULE BrowserPool -----------------------------
(***************************************************************************)
(* The browser pool: Get borrows an idle browser, launches one while the   *)
(* limit allows it, or sleeps on a condition variable; Put brings it back; *)
(* a reaper closes what has been idle too long; Close ends everything.     *)
(*                                                                         *)
(* The mutex guards the sends, the close of the channel and the sleep; the *)
(* receives and the counter alive are outside it.  A step is one critical  *)
(* section, one channel receive, one launch or close of a browser, or one  *)
(* change of the counter.  The proxied and the direct browsers are two     *)
(* copies of this with their own channel and counter; one is modelled.     *)
(***************************************************************************)
EXTENDS Integers, FiniteSets

CONSTANTS
  Callers,     (* the goroutines that borrow browsers, one at a time each  *)
  Impatient,   (* those whose context may be cancelled                     *)
  Limit        (* cap(ch): browsers alive at once                          *)

ASSUME LimitAssumption ==
  /\ IsFiniteSet(Callers) /\ Impatient \subseteq Callers
  /\ Limit \in Nat \ {0}

VARIABLES
  pc,          \* where a caller is in Get or Put
  getting,     \* the callers whose Get has not returned
  cancel,      \* a caller's context: live, ended, or ended and its AfterFunc has run
  idle,        \* len(ch)
  alive,       \* the counter proxyAlive or directAlive
  open,        \* the browser processes that run
  closed,      \* closed.Load()
  chClosed,    \* the channel is closed
  closer,      \* where Close is
  maxIdle,     \* max_idle_time > 0
  reaperStop,  \* nil, or the channel that stops the reaper: open or closed
  reaper       \* the reaper: where it is, what it has still to check and what it keeps

callers == <<pc, getting, cancel>>
reaping == <<maxIdle, reaperStop, reaper>>
closing == <<closed, chClosed, closer>>
vars    == <<callers, idle, alive, open, closing, reaping>>

CallerPc == {"out", "try", "check", "reserve", "create", "undo", "lock", "asleep",
             "held", "put", "shut", "drop", "tell"}

TypeOK ==
  /\ pc \in [Callers -> CallerPc]
  /\ getting \subseteq Callers
  /\ cancel \in [Callers -> {"live", "ended", "told"}]
  /\ idle \in Nat /\ alive \in Int /\ open \in Int
  /\ closed \in BOOLEAN /\ chClosed \in BOOLEAN /\ maxIdle \in BOOLEAN
  /\ closer \in {"no", "reaper", "channel", "drain", "done"}
  /\ reaperStop \in {"nil", "open", "closed"}
  /\ reaper \in [pc : {"none", "start", "wait", "check", "shut"}, pile : Nat, fresh : Nat]

Init ==
  /\ pc = [c \in Callers |-> "out"] /\ getting = {}
  /\ cancel = [c \in Callers |-> "live"]
  /\ idle = 0 /\ alive = 0 /\ open = 0
  /\ closed = FALSE /\ chClosed = FALSE /\ closer = "no"
  /\ maxIdle = FALSE /\ reaperStop = "nil"
  /\ reaper = [pc |-> "none", pile |-> 0, fresh |-> 0]

Goto(c, next) == pc' = [pc EXCEPT ![c] = next]
Leave(c)      == getting' = getting \ {c}

\* cond.Broadcast under the mutex: every sleeper starts over; c goes on at next.
BroadcastAnd(c, next) ==
  pc' = [d \in Callers |-> IF d = c THEN next ELSE IF pc[d] = "asleep" THEN "try" ELSE pc[d]]

Broadcast == pc' = [d \in Callers |-> IF pc[d] = "asleep" THEN "try" ELSE pc[d]]

-----------------------------------------------------------------------------
(* Get                                                                     *)

Get(c) ==
  /\ pc[c] = "out" /\ ~closed /\ cancel[c] # "ended"
  /\ Goto(c, "try") /\ getting' = getting \cup {c}
  /\ cancel' = [cancel EXCEPT ![c] = "live"]
  /\ UNCHANGED <<idle, alive, open, closing, reaping>>

\* 1. The receive that does not block; a closed and empty channel yields nil.
Receive(c) ==
  /\ pc[c] = "try"
  /\ \/ idle > 0 /\ idle' = idle - 1 /\ Goto(c, "check") /\ UNCHANGED getting
     \/ idle = 0 /\ chClosed /\ Goto(c, "out") /\ Leave(c) /\ UNCHANGED idle
     \/ idle = 0 /\ ~chClosed /\ Goto(c, "reserve") /\ UNCHANGED <<idle, getting>>
  /\ UNCHANGED <<cancel, alive, open, closing, reaping>>

\* Mutant: the slot of a browser that is closed stays taken.
CheckKeepsSlot(c) ==
  /\ pc[c] = "check"
  /\ \/ Goto(c, "held") /\ Leave(c) /\ UNCHANGED open
     \/ Goto(c, "tell") /\ open' = open - 1 /\ UNCHANGED getting
  /\ UNCHANGED <<cancel, idle, alive, closing, reaping>>

\* usable: a browser that is dead or was idle too long is closed.
Check(c) ==
  /\ pc[c] = "check"
  /\ \/ Goto(c, "held") /\ Leave(c)
     \/ Goto(c, "shut") /\ UNCHANGED getting
  /\ UNCHANGED <<cancel, idle, alive, open, closing, reaping>>

\* 2. alive.Add(1) reserves a slot, or shows that there is none.
Reserve(c) ==
  /\ pc[c] = "reserve"
  /\ alive' = alive + 1
  /\ Goto(c, IF alive + 1 <= Limit THEN "create" ELSE "undo")
  /\ UNCHANGED <<getting, cancel, idle, open, closing, reaping>>

\* Mutant: a launch that fails gives its slot back twice.
CreateDropsTwice(c) ==
  /\ pc[c] = "create"
  /\ \/ open' = open + 1 /\ Goto(c, "held") /\ UNCHANGED alive
     \/ alive' = alive - 1 /\ Goto(c, "drop") /\ UNCHANGED open
  /\ Leave(c)
  /\ UNCHANGED <<cancel, idle, closing, reaping>>

\* newBrowserFn, and the slot given back when it fails.
Create(c) ==
  /\ pc[c] = "create"
  /\ \/ open' = open + 1 /\ Goto(c, "held")
     \/ Goto(c, "drop") /\ UNCHANGED open
  /\ Leave(c)
  /\ UNCHANGED <<cancel, idle, alive, closing, reaping>>

Undo(c) ==
  /\ pc[c] = "undo"
  /\ alive' = alive - 1
  /\ Goto(c, "lock")
  /\ UNCHANGED <<getting, cancel, idle, open, closing, reaping>>

\* 3. Under the mutex: give up, start over, or sleep.
Recheck(c) ==
  /\ pc[c] = "lock"
  /\ IF closed \/ cancel[c] # "live" THEN Goto(c, "out") /\ Leave(c)
     ELSE /\ Goto(c, IF idle > 0 \/ alive < Limit THEN "try" ELSE "asleep")
          /\ UNCHANGED getting
  /\ UNCHANGED <<cancel, idle, alive, open, closing, reaping>>

\* The context of a Get ends; its AfterFunc broadcasts in a goroutine of its own.
Cancel(c) ==
  /\ c \in getting \cap Impatient /\ cancel[c] = "live"
  /\ cancel' = [cancel EXCEPT ![c] = "ended"]
  /\ UNCHANGED <<pc, getting, idle, alive, open, closing, reaping>>

AfterFunc(c) ==
  /\ cancel[c] = "ended"
  /\ cancel' = [cancel EXCEPT ![c] = "told"]
  /\ Broadcast
  /\ UNCHANGED <<getting, idle, alive, open, closing, reaping>>

-----------------------------------------------------------------------------
(* Put, and the end of a browser                                           *)

\* Put closes the browser of a closed pool and leaves the counter alone; put
\* closes a dead one.
Put(c) ==
  /\ pc[c] = "held"
  /\ \/ closed /\ open' = open - 1 /\ Goto(c, "out")
     \/ ~closed /\ Goto(c, "put") /\ UNCHANGED open
     \/ ~closed /\ Goto(c, "shut") /\ UNCHANGED open
  /\ UNCHANGED <<getting, cancel, idle, alive, closing, reaping>>

\* Mutant: nobody is told of the browser that came back.
EnqueueSilently(c) ==
  /\ pc[c] = "put"
  /\ IF ~closed /\ idle < Limit THEN idle' = idle + 1 /\ Goto(c, "out")
     ELSE Goto(c, "shut") /\ UNCHANGED idle
  /\ UNCHANGED <<getting, cancel, alive, open, closing, reaping>>

\* The send under the mutex, into a channel with room of a pool that is open.
Enqueue(c) ==
  /\ pc[c] = "put"
  /\ IF ~closed /\ idle < Limit THEN idle' = idle + 1 /\ Goto(c, "tell")
     ELSE Goto(c, "shut") /\ UNCHANGED idle
  /\ UNCHANGED <<getting, cancel, alive, open, closing, reaping>>

\* b.Close ...
Shut(c) ==
  /\ pc[c] = "shut"
  /\ open' = open - 1
  /\ Goto(c, "drop")
  /\ UNCHANGED <<getting, cancel, idle, alive, closing, reaping>>

\* Mutant: nobody is told of the slot of a launch that failed.
DropSilently(c) ==
  /\ pc[c] = "drop"
  /\ alive' = alive - 1
  /\ Goto(c, IF c \in getting THEN "try" ELSE "out")
  /\ UNCHANGED <<getting, cancel, idle, open, closing, reaping>>

\* ... then the counter ...
Drop(c) ==
  /\ pc[c] = "drop"
  /\ alive' = alive - 1
  /\ Goto(c, "tell")
  /\ UNCHANGED <<getting, cancel, idle, open, closing, reaping>>

\* ... then the broadcast; a Get that met a bad browser starts over.
Tell(c) ==
  /\ pc[c] = "tell"
  /\ BroadcastAnd(c, IF c \in getting THEN "try" ELSE "out")
  /\ UNCHANGED <<getting, cancel, idle, alive, open, closing, reaping>>

-----------------------------------------------------------------------------
(* The reaper                                                              *)

\* SetMaxIdleTime and, in one critical section of reaperMu, ensureReaper.
SetMaxIdleTime(on) ==
  /\ maxIdle # on
  /\ maxIdle' = on
  /\ IF on /\ ~closed /\ reaperStop = "nil"
     THEN reaperStop' = "open" /\ reaper' = [reaper EXCEPT !.pc = "start"]
     ELSE UNCHANGED <<reaperStop, reaper>>
  /\ UNCHANGED <<callers, idle, alive, open, closing>>

\* reaperLoop ends at once when the time has been set back to 0, and on its stop.
ReaperLoop ==
  /\ \/ reaper.pc = "start" /\ reaper' = [reaper EXCEPT !.pc = IF maxIdle THEN "wait" ELSE "none"]
     \/ reaper.pc = "wait" /\ reaperStop = "closed" /\ reaper' = [reaper EXCEPT !.pc = "none"]
  /\ UNCHANGED <<callers, idle, alive, open, closing, maxIdle, reaperStop>>

\* A tick of an open pool: the channel is emptied under the mutex.
ReapDrain ==
  /\ reaper.pc = "wait" /\ maxIdle /\ ~closed /\ idle > 0
  /\ reaper' = [pc |-> "check", pile |-> idle, fresh |-> 0]
  /\ idle' = 0
  /\ UNCHANGED <<callers, alive, open, closing, maxIdle, reaperStop>>

\* Outside the mutex: a browser is kept, or closed ...
ReapCheck ==
  /\ reaper.pc = "check" /\ reaper.pile > 0
  /\ \/ /\ reaper' = [reaper EXCEPT !.pile = @ - 1, !.fresh = @ + 1]
        /\ UNCHANGED open
     \/ /\ reaper' = [reaper EXCEPT !.pc = "shut", !.pile = @ - 1]
        /\ open' = open - 1
  /\ UNCHANGED <<callers, idle, alive, closing, maxIdle, reaperStop>>

\* ... and its slot given back.
ReapShut ==
  /\ reaper.pc = "shut"
  /\ alive' = alive - 1
  /\ reaper' = [reaper EXCEPT !.pc = "check"]
  /\ UNCHANGED <<callers, idle, open, closing, maxIdle, reaperStop>>

Least(i, k) == IF i < k THEN i ELSE k

\* Mutant: what was kept goes back without a look at closed.
ReapReturnBlindly ==
  /\ reaper.pc = "check" /\ reaper.pile = 0
  /\ LET back == Least(reaper.fresh, Limit - idle) IN
       /\ idle' = idle + back
       /\ alive' = alive - (reaper.fresh - back)
       /\ open' = open - (reaper.fresh - back)
  /\ reaper' = [pc |-> "wait", pile |-> 0, fresh |-> 0]
  /\ Broadcast
  /\ UNCHANGED <<getting, cancel, closing, maxIdle, reaperStop>>

\* Under the mutex again: what was kept goes back as far as there is room, or is
\* closed with the pool; then the broadcast.
ReapReturn ==
  /\ reaper.pc = "check" /\ reaper.pile = 0
  /\ LET back == IF closed THEN 0 ELSE Least(reaper.fresh, Limit - idle) IN
       /\ idle' = idle + back
       /\ alive' = alive - (reaper.fresh - back)
       /\ open' = open - (reaper.fresh - back)
  /\ reaper' = [pc |-> "wait", pile |-> 0, fresh |-> 0]
  /\ Broadcast
  /\ UNCHANGED <<getting, cancel, closing, maxIdle, reaperStop>>

-----------------------------------------------------------------------------
(* Close                                                                   *)

Close ==
  /\ closer = "no"
  /\ closed' = TRUE /\ closer' = "reaper"
  /\ UNCHANGED <<callers, idle, alive, open, chClosed, reaping>>

CloseReaper ==
  /\ closer = "reaper"
  /\ reaperStop' = IF reaperStop = "nil" THEN "nil" ELSE "closed"
  /\ closer' = "channel"
  /\ UNCHANGED <<callers, idle, alive, open, closed, chClosed, maxIdle, reaper>>

\* Mutant: the channel is closed and nobody is told.
CloseChannelSilently ==
  /\ closer = "channel"
  /\ chClosed' = TRUE /\ closer' = "drain"
  /\ UNCHANGED <<callers, idle, alive, open, closed, reaping>>

\* Under the mutex: the sleepers wake and receive nil.
CloseChannel ==
  /\ closer = "channel"
  /\ chClosed' = TRUE /\ closer' = "drain"
  /\ Broadcast
  /\ UNCHANGED <<getting, cancel, idle, alive, open, closed, reaping>>

\* What is left in the channel is closed; the counter does not matter any more.
CloseDrain ==
  /\ closer = "drain"
  /\ IF idle > 0 THEN idle' = idle - 1 /\ open' = open - 1 /\ UNCHANGED closer
     ELSE closer' = "done" /\ UNCHANGED <<idle, open>>
  /\ UNCHANGED <<callers, alive, closed, chClosed, reaping>>

-----------------------------------------------------------------------------
GetStep(c) == Receive(c) \/ Check(c) \/ Reserve(c) \/ Create(c) \/ Undo(c) \/ Recheck(c)
PutStep(c) == Put(c) \/ Enqueue(c) \/ Shut(c) \/ Drop(c) \/ Tell(c)
ReapStep   == ReaperLoop \/ ReapDrain \/ ReapCheck \/ ReapShut \/ ReapReturn
CloseStep  == CloseReaper \/ CloseChannel \/ CloseDrain

Next ==
  \/ \E c \in Callers :
       Get(c) \/ GetStep(c) \/ Cancel(c) \/ AfterFunc(c) \/ PutStep(c)
  \/ \E on \in BOOLEAN : SetMaxIdleTime(on)
  \/ ReapStep \/ Close \/ CloseStep

Spec == Init /\ [][Next]_vars

\* A goroutine inside the pool goes on, a borrower brings its browser back, and a
\* Close that has begun ends.  Nobody has to call Get or Close.
FairSpec ==
  /\ Spec
  /\ \A c \in Callers : WF_vars(GetStep(c) \/ PutStep(c)) /\ WF_vars(AfterFunc(c))
  /\ WF_vars(ReapStep) /\ WF_vars(CloseStep)

-----------------------------------------------------------------------------
(* Properties                                                              *)

\* The goroutines that own a browser process, and those that own a slot.
Owners  == {c \in Callers : pc[c] \in {"check", "held", "put", "shut"}}
Holders == {c \in Callers : pc[c] \in {"check", "held", "put", "shut", "create", "undo", "drop"}}

\* However Gets, Puts, failed launches and the reaper are interleaved, there are
\* never more browser processes than the pool's size (pool.go, PoolConfig.Size).
Capacity == open <= Limit

\* No slot is lost and none given back twice: until the pool closes, the counter
\* is what is idle, lent, being launched, given up or in the reaper's hands.
SlotsBalance ==
  ~closed => alive = idle + Cardinality(Holders) + reaper.pile + reaper.fresh
                       + (IF reaper.pc = "shut" THEN 1 ELSE 0)

\* Nobody is about to broadcast: every goroutine is outside, asleep or using its
\* browser.
Quiet ==
  /\ \A c \in Callers : pc[c] \in {"out", "held", "asleep"} /\ cancel[c] # "ended"
  /\ reaper.pc \in {"none", "wait"} /\ closer = "no"

Asleep == {c \in Callers : pc[c] = "asleep"}

\* A browser never lies idle while a Get sleeps, unless somebody is on the way to
\* wake it, contexts that end at any moment included (get, put, reapChannel).
IdleIsOffered == Quiet /\ Asleep # {} => idle = 0

\* Every state change that makes room is followed by a broadcast, no wake-up is
\* lost (pool.go:327, 411): nobody sleeps beside a free slot.
NoLostWakeup == Quiet /\ Asleep # {} => idle = 0 /\ alive >= Limit

\* As long as no context ends, no Get sleeps for ever: a broadcast comes, and it
\* wakes them all.
SleepersWake ==
  [](\A c \in Callers : cancel[c] = "live") => (Asleep # {} ~> Asleep = {})

\* Close releases every Get, and once the borrowers are done no browser process
\* is left, whoever held it: the channel, a caller, a launch or the reaper.
CloseReleases ==
  closed ~> [](open = 0 /\ \A c \in Callers : pc[c] = "out")

\* When Close has returned no Get sleeps, the reaper has been told, and the browser processes
\* that still run are owned by a caller or by the reaper, who close them: whoever was about to
\* put one back finds the pool closed (put, reapChannel).
CloseLeavesNothing ==
  closer = "done" =>
    /\ Asleep = {} /\ reaperStop # "open"
    /\ open = Cardinality(Owners) + reaper.pile + reaper.fresh

\* The pool never sends on its closed channel, which would panic.
NoSendOnClosed == [][idle' > idle => ~chClosed]_vars

=============================================================================
