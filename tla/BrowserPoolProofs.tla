-------------------------- MODULE BrowserPoolProofs --------------------------
(***************************************************************************)
(* The browser pool never runs more browsers than its limit and loses no   *)
(* slot before it closes, and it never sends on its closed channel, for    *)
(* any number of callers, any limit and any contexts that end.             *)
(***************************************************************************)
EXTENDS BrowserPool, FiniteSetTheorems, TLAPS

USE DEF callers, reaping, closing

-----------------------------------------------------------------------------
(* The inductive invariant                                                   *)

Creating == {c \in Callers : pc[c] = "create"}

\* What the reaper holds: browsers, and slots.
Reaped == reaper.pile + reaper.fresh
Slot   == IF reaper.pc = "shut" THEN 1 ELSE 0

(* The counter may lag behind once the pool is closed, and only upwards: Put   *)
(* and Close no longer give slots back.  So a reservation that finds room finds *)
(* it for a browser process too.                                              *)
BooksInv ==
  /\ open = idle + Cardinality(Owners) + Reaped
  /\ alive >= idle + Cardinality(Holders) + Reaped + Slot
  /\ ~closed => alive = idle + Cardinality(Holders) + Reaped + Slot
  /\ open + Cardinality(Creating) <= Limit
  /\ chClosed => closed

(* Outside a round the reaper holds nothing, and it runs only with a channel   *)
(* that can stop it.                                                         *)
ReaperInv ==
  /\ reaper.pc \notin {"check", "shut"} => Reaped = 0
  /\ reaperStop = "nil" => reaper.pc = "none"

ClosingInv == closed <=> closer # "no"

PoolInv == TypeOK /\ BooksInv /\ ReaperInv /\ ClosingInv

-----------------------------------------------------------------------------
(* Counting callers                                                          *)

\* Two sets that differ at most in c differ in size by what c contributes.
LEMMA CountOne ==
  ASSUME NEW A, NEW B, NEW c, IsFiniteSet(A), IsFiniteSet(B), A \ {c} = B \ {c}
  PROVE  /\ Cardinality(A) \in Nat /\ Cardinality(B) \in Nat
         /\ Cardinality(B) + (IF c \in A THEN 1 ELSE 0)
              = Cardinality(A) + (IF c \in B THEN 1 ELSE 0)
<1>1. /\ IsFiniteSet(A \ {c}) /\ IsFiniteSet(B \ {c})
      /\ Cardinality(A) \in Nat /\ Cardinality(B) \in Nat /\ Cardinality(A \ {c}) \in Nat
  BY FS_RemoveElement, FS_Subset, FS_CardinalityType
<1>2. Cardinality(A \ {c}) = Cardinality(A) - (IF c \in A THEN 1 ELSE 0)
  BY <1>1, FS_RemoveElement
<1>3. Cardinality(B \ {c}) = Cardinality(B) - (IF c \in B THEN 1 ELSE 0)
  BY <1>1, FS_RemoveElement
<1>4. QED
  BY <1>1, <1>2, <1>3

\* The sets the books count are finite, and an owner or a launch holds a slot.
LEMMA Counts ==
  ASSUME TypeOK
  PROVE  /\ IsFiniteSet(Owners) /\ IsFiniteSet(Holders) /\ IsFiniteSet(Creating)
         /\ Cardinality(Owners) \in Nat /\ Cardinality(Holders) \in Nat
         /\ Cardinality(Creating) \in Nat
         /\ Cardinality(Owners) + Cardinality(Creating) <= Cardinality(Holders)
<1>1. IsFiniteSet(Callers)
  BY LimitAssumption
<1>2. Owners \subseteq Callers /\ Holders \subseteq Callers /\ Creating \subseteq Callers
  BY DEF Owners, Holders, Creating
<1>3. IsFiniteSet(Owners) /\ IsFiniteSet(Holders) /\ IsFiniteSet(Creating)
  BY <1>1, <1>2, FS_Subset
<1>4. Owners \cap Creating = {} /\ Owners \cup Creating \subseteq Holders
  BY DEF Owners, Holders, Creating
<1>5. Cardinality(Owners \cup Creating) = Cardinality(Owners) + Cardinality(Creating)
  <2>1. /\ Cardinality(Owners) \in Nat /\ Cardinality(Creating) \in Nat
        /\ Cardinality(Owners \cap Creating) = 0
    BY <1>3, <1>4, FS_EmptySet, FS_CardinalityType
  <2>2. Cardinality(Owners \cup Creating) =
          Cardinality(Owners) + Cardinality(Creating) - Cardinality(Owners \cap Creating)
    BY <1>3, FS_Union
  <2>3. QED
    BY <2>1, <2>2
<1>6. Cardinality(Owners \cup Creating) <= Cardinality(Holders)
  BY <1>3, <1>4, FS_Subset
<1>7. QED
  BY <1>3, <1>5, <1>6, FS_CardinalityType

Owns(p)  == IF p \in {"check", "held", "put", "shut"} THEN 1 ELSE 0
Holds(p) == IF p \in {"check", "held", "put", "shut", "create", "undo", "drop"} THEN 1 ELSE 0
Makes(p) == IF p = "create" THEN 1 ELSE 0

\* A step of c, with or without a broadcast, changes the counts by what c does.
LEMMA CountStep ==
  ASSUME TypeOK, NEW c \in Callers, pc' \in [Callers -> CallerPc],
         \A d \in Callers \ {c} : pc'[d] = pc[d] \/ (pc[d] = "asleep" /\ pc'[d] = "try")
  PROVE  /\ Cardinality(Owners)' = Cardinality(Owners) + Owns(pc'[c]) - Owns(pc[c])
         /\ Cardinality(Holders)' = Cardinality(Holders) + Holds(pc'[c]) - Holds(pc[c])
         /\ Cardinality(Creating)' = Cardinality(Creating) + Makes(pc'[c]) - Makes(pc[c])
<1>1. /\ Owners \ {c} = Owners' \ {c} /\ Holders \ {c} = Holders' \ {c}
      /\ Creating \ {c} = Creating' \ {c}
  BY DEF Owners, Holders, Creating
<1>2. /\ IsFiniteSet(Owners) /\ IsFiniteSet(Holders) /\ IsFiniteSet(Creating)
  BY Counts
<1>3. IsFiniteSet(Owners') /\ IsFiniteSet(Holders') /\ IsFiniteSet(Creating')
  BY LimitAssumption, FS_Subset DEF Owners, Holders, Creating
<1>4. /\ Cardinality(Owners) \in Nat /\ Cardinality(Owners') \in Nat
      /\ Cardinality(Owners') + (IF c \in Owners THEN 1 ELSE 0)
           = Cardinality(Owners) + (IF c \in Owners' THEN 1 ELSE 0)
  BY <1>1, <1>2, <1>3, CountOne
<1>5. /\ Cardinality(Holders) \in Nat /\ Cardinality(Holders') \in Nat
      /\ Cardinality(Holders') + (IF c \in Holders THEN 1 ELSE 0)
           = Cardinality(Holders) + (IF c \in Holders' THEN 1 ELSE 0)
  BY <1>1, <1>2, <1>3, CountOne
<1>6. /\ Cardinality(Creating) \in Nat /\ Cardinality(Creating') \in Nat
      /\ Cardinality(Creating') + (IF c \in Creating THEN 1 ELSE 0)
           = Cardinality(Creating) + (IF c \in Creating' THEN 1 ELSE 0)
  BY <1>1, <1>2, <1>3, CountOne
<1>7. /\ (c \in Owners <=> Owns(pc[c]) = 1) /\ (c \in Owners' <=> Owns(pc'[c]) = 1)
      /\ (c \in Holders <=> Holds(pc[c]) = 1) /\ (c \in Holders' <=> Holds(pc'[c]) = 1)
      /\ (c \in Creating <=> Makes(pc[c]) = 1) /\ (c \in Creating' <=> Makes(pc'[c]) = 1)
  BY DEF Owners, Holders, Creating, Owns, Holds, Makes
<1>8. /\ Owns(pc[c]) \in {0, 1} /\ Owns(pc'[c]) \in {0, 1}
      /\ Holds(pc[c]) \in {0, 1} /\ Holds(pc'[c]) \in {0, 1}
      /\ Makes(pc[c]) \in {0, 1} /\ Makes(pc'[c]) \in {0, 1}
  BY DEF Owns, Holds, Makes
<1>9. /\ Cardinality(Owners)' = Cardinality(Owners')
      /\ Cardinality(Holders)' = Cardinality(Holders')
      /\ Cardinality(Creating)' = Cardinality(Creating')
  OBVIOUS
<1>10. QED
  BY <1>4, <1>5, <1>6, <1>7, <1>8, <1>9

\* A broadcast alone changes none of them.
LEMMA CountBroadcast ==
  ASSUME TypeOK, Broadcast \/ pc' = pc
  PROVE  /\ pc' \in [Callers -> CallerPc]
         /\ Owners' = Owners /\ Holders' = Holders /\ Creating' = Creating
<1>1. pc' \in [Callers -> CallerPc]
  BY DEF Broadcast, TypeOK, CallerPc
<1>2. \A d \in Callers : pc'[d] = pc[d] \/ (pc[d] = "asleep" /\ pc'[d] = "try")
  BY DEF Broadcast, TypeOK
<1>3. QED
  BY <1>1, <1>2 DEF Owners, Holders, Creating

\* The two ways a caller moves.
LEMMA Moves ==
  ASSUME TypeOK, NEW c \in Callers, NEW next \in CallerPc,
         Goto(c, next) \/ BroadcastAnd(c, next)
  PROVE  /\ pc' \in [Callers -> CallerPc] /\ pc'[c] = next
         /\ \A d \in Callers \ {c} : pc'[d] = pc[d] \/ (pc[d] = "asleep" /\ pc'[d] = "try")
  BY DEF TypeOK, Goto, BroadcastAnd, CallerPc

-----------------------------------------------------------------------------
(* Every step keeps the books                                                *)

CallerStep(c) == Get(c) \/ GetStep(c) \/ Cancel(c) \/ AfterFunc(c) \/ PutStep(c)

\* The types of what a caller changes.
LEMMA CallerTypes ==
  ASSUME PoolInv, NEW c \in Callers, CallerStep(c)
  PROVE  TypeOK'
<1> USE DEF PoolInv
<1>1. pc' \in [Callers -> CallerPc]
  <2>1. CASE Cancel(c) \/ AfterFunc(c)
    BY <2>1, CountBroadcast DEF Cancel, AfterFunc
  <2>2. CASE Tell(c)
    <3>1. (IF c \in getting THEN "try" ELSE "out") \in CallerPc
      BY DEF CallerPc
    <3>2. QED
      BY <2>2, <3>1, Moves DEF Tell
  <2>3. CASE ~(Cancel(c) \/ AfterFunc(c) \/ Tell(c))
    <3>1. PICK next \in CallerPc : Goto(c, next)
      BY <2>3 DEF CallerStep, GetStep, PutStep, Get, Receive, Check, Reserve, Create, Undo,
                  Recheck, Put, Enqueue, Shut, Drop, CallerPc
    <3>2. QED
      BY <3>1, Moves
  <2>4. QED
    BY <2>1, <2>2, <2>3
<1>2. getting' \subseteq Callers /\ cancel' \in [Callers -> {"live", "ended", "told"}]
  BY DEF TypeOK, CallerStep, GetStep, PutStep, Get, Receive, Check, Reserve, Create, Undo,
         Recheck, Cancel, AfterFunc, Put, Enqueue, Shut, Drop, Tell, Leave
<1>3. idle' \in Nat /\ alive' \in Int /\ open' \in Int
  BY DEF TypeOK, CallerStep, GetStep, PutStep, Get, Receive, Check, Reserve, Create, Undo,
         Recheck, Cancel, AfterFunc, Put, Enqueue, Shut, Drop, Tell
<1>4. UNCHANGED <<reaping, closing>>
  BY DEF CallerStep, GetStep, PutStep, Get, Receive, Check, Reserve, Create, Undo,
         Recheck, Cancel, AfterFunc, Put, Enqueue, Shut, Drop, Tell
<1>5. QED
  BY <1>1, <1>2, <1>3, <1>4 DEF TypeOK

\* A step of Get.
LEMMA GetBooks ==
  ASSUME PoolInv, NEW c \in Callers, Get(c) \/ GetStep(c)
  PROVE  BooksInv'
<1> USE DEF PoolInv
<1> DEFINE o == Cardinality(Owners)
           h == Cardinality(Holders)
           k == Cardinality(Creating)
<1>1. /\ o \in Nat /\ h \in Nat /\ k \in Nat /\ o + k <= h
      /\ idle \in Nat /\ alive \in Int /\ open \in Int /\ Limit \in Nat
      /\ Reaped \in Nat /\ Slot \in {0, 1}
  BY Counts, LimitAssumption DEF TypeOK, Reaped, Slot
<1>2. Reaped' = Reaped /\ Slot' = Slot /\ closed' = closed /\ chClosed' = chClosed
  BY DEF GetStep, Get, Receive, Check, Reserve, Create, Undo, Recheck, Reaped, Slot
<1>3. ASSUME NEW next \in CallerPc, Goto(c, next)
      PROVE  /\ o' = o + Owns(next) - Owns(pc[c])
             /\ h' = h + Holds(next) - Holds(pc[c])
             /\ k' = k + Makes(next) - Makes(pc[c])
  BY <1>3, Moves, CountStep
<1> HIDE DEF o, h, k
<1>4. CASE Get(c)
  <2>1. o' = o /\ h' = h /\ k' = k
    BY <1>1, <1>3, <1>4 DEF Get, CallerPc, Owns, Holds, Makes
  <2>2. QED
    BY <1>1, <1>2, <1>4, <2>1 DEF Get, BooksInv, o, h, k
<1>5. CASE Receive(c)
  <2>1. CASE idle > 0
    <3>1. o' = o + 1 /\ h' = h + 1 /\ k' = k
      BY <1>1, <1>3, <1>5, <2>1 DEF Receive, CallerPc, Owns, Holds, Makes
    <3>2. alive' = alive /\ open' = open /\ idle' = idle - 1
      BY <1>1, <1>5, <2>1 DEF Receive
    <3>3. QED
      BY <1>1, <1>2, <3>1, <3>2 DEF BooksInv, o, h, k
  <2>2. CASE idle = 0
    <3>1. o' = o /\ h' = h /\ k' = k
      BY <1>1, <1>3, <1>5, <2>2 DEF Receive, CallerPc, Owns, Holds, Makes
    <3>2. alive' = alive /\ open' = open /\ idle' = idle
      BY <1>5, <2>2 DEF Receive
    <3>3. QED
      BY <1>1, <1>2, <3>1, <3>2 DEF BooksInv, o, h, k
  <2>3. QED
    BY <1>1, <2>1, <2>2
<1>6. CASE Check(c)
  <2>1. o' = o /\ h' = h /\ k' = k
    BY <1>1, <1>3, <1>6 DEF Check, CallerPc, Owns, Holds, Makes
  <2>2. QED
    BY <1>1, <1>2, <1>6, <2>1 DEF Check, BooksInv, o, h, k
<1>7. CASE Reserve(c)
  <2>1. CASE alive + 1 <= Limit
    <3>1. o' = o /\ h' = h + 1 /\ k' = k + 1
      BY <1>1, <1>3, <1>7, <2>1 DEF Reserve, CallerPc, Owns, Holds, Makes
    <3>2. alive' = alive + 1 /\ open' = open /\ idle' = idle
      BY <1>7 DEF Reserve
    <3>3. open + k + 1 <= Limit
      BY <1>1, <2>1 DEF BooksInv, o, h, k
    <3>4. QED
      BY <1>1, <1>2, <3>1, <3>2, <3>3 DEF BooksInv, o, h, k
  <2>2. CASE ~(alive + 1 <= Limit)
    <3>1. o' = o /\ h' = h + 1 /\ k' = k
      BY <1>1, <1>3, <1>7, <2>2 DEF Reserve, CallerPc, Owns, Holds, Makes
    <3>2. alive' = alive + 1 /\ open' = open /\ idle' = idle
      BY <1>7 DEF Reserve
    <3>3. QED
      BY <1>1, <1>2, <3>1, <3>2 DEF BooksInv, o, h, k
  <2>3. QED
    BY <2>1, <2>2
<1>8. CASE Create(c)
  <2>1. CASE open' = open + 1 /\ Goto(c, "held")
    <3>1. o' = o + 1 /\ h' = h /\ k' = k - 1
      BY <1>1, <1>3, <1>8, <2>1 DEF Create, CallerPc, Owns, Holds, Makes
    <3>2. QED
      BY <1>1, <1>2, <1>8, <2>1, <3>1 DEF Create, BooksInv, o, h, k
  <2>2. CASE open' = open /\ Goto(c, "drop")
    <3>1. o' = o /\ h' = h /\ k' = k - 1
      BY <1>1, <1>3, <1>8, <2>2 DEF Create, CallerPc, Owns, Holds, Makes
    <3>2. QED
      BY <1>1, <1>2, <1>8, <2>2, <3>1 DEF Create, BooksInv, o, h, k
  <2>3. QED
    BY <1>8, <2>1, <2>2 DEF Create
<1>9. CASE Undo(c)
  <2>1. o' = o /\ h' = h - 1 /\ k' = k
    BY <1>1, <1>3, <1>9 DEF Undo, CallerPc, Owns, Holds, Makes
  <2>2. alive' = alive - 1 /\ open' = open /\ idle' = idle
    BY <1>9 DEF Undo
  <2>3. QED
    BY <1>1, <1>2, <2>1, <2>2 DEF BooksInv, o, h, k
<1>10. CASE Recheck(c)
  <2>1. o' = o /\ h' = h /\ k' = k
    BY <1>1, <1>3, <1>10 DEF Recheck, CallerPc, Owns, Holds, Makes
  <2>2. QED
    BY <1>1, <1>2, <1>10, <2>1 DEF Recheck, BooksInv, o, h, k
<1>11. QED
  BY <1>4, <1>5, <1>6, <1>7, <1>8, <1>9, <1>10 DEF GetStep

\* A step of Put.
LEMMA PutBooks ==
  ASSUME PoolInv, NEW c \in Callers, PutStep(c)
  PROVE  BooksInv'
<1> USE DEF PoolInv
<1> DEFINE o == Cardinality(Owners)
           h == Cardinality(Holders)
           k == Cardinality(Creating)
<1>1. /\ o \in Nat /\ h \in Nat /\ k \in Nat /\ o + k <= h
      /\ idle \in Nat /\ alive \in Int /\ open \in Int /\ Limit \in Nat
      /\ Reaped \in Nat /\ Slot \in {0, 1}
  BY Counts, LimitAssumption DEF TypeOK, Reaped, Slot
<1>2. Reaped' = Reaped /\ Slot' = Slot /\ closed' = closed /\ chClosed' = chClosed
  BY DEF PutStep, Put, Enqueue, Shut, Drop, Tell, Reaped, Slot
<1>3. ASSUME NEW next \in CallerPc, Goto(c, next) \/ BroadcastAnd(c, next)
      PROVE  /\ o' = o + Owns(next) - Owns(pc[c])
             /\ h' = h + Holds(next) - Holds(pc[c])
             /\ k' = k + Makes(next) - Makes(pc[c])
  BY <1>3, Moves, CountStep
<1> HIDE DEF o, h, k
<1>4. CASE Put(c)
  <2>1. CASE closed
    <3>1. o' = o - 1 /\ h' = h - 1 /\ k' = k
      BY <1>1, <1>3, <1>4, <2>1 DEF Put, CallerPc, Owns, Holds, Makes
    <3>2. QED
      BY <1>1, <1>2, <1>4, <2>1, <3>1 DEF Put, BooksInv, o, h, k
  <2>2. CASE ~closed
    <3>1. o' = o /\ h' = h /\ k' = k
      BY <1>1, <1>3, <1>4, <2>2 DEF Put, CallerPc, Owns, Holds, Makes
    <3>2. QED
      BY <1>1, <1>2, <1>4, <2>2, <3>1 DEF Put, BooksInv, o, h, k
  <2>3. QED
    BY <2>1, <2>2
<1>5. CASE Enqueue(c)
  <2>1. CASE ~closed /\ idle < Limit
    <3>1. o' = o - 1 /\ h' = h - 1 /\ k' = k
      BY <1>1, <1>3, <1>5, <2>1 DEF Enqueue, CallerPc, Owns, Holds, Makes
    <3>2. QED
      BY <1>1, <1>2, <1>5, <2>1, <3>1 DEF Enqueue, BooksInv, o, h, k
  <2>2. CASE ~(~closed /\ idle < Limit)
    <3>1. o' = o /\ h' = h /\ k' = k
      BY <1>1, <1>3, <1>5, <2>2 DEF Enqueue, CallerPc, Owns, Holds, Makes
    <3>2. QED
      BY <1>1, <1>2, <1>5, <2>2, <3>1 DEF Enqueue, BooksInv, o, h, k
  <2>3. QED
    BY <2>1, <2>2
<1>6. CASE Shut(c)
  <2>1. o' = o - 1 /\ h' = h /\ k' = k
    BY <1>1, <1>3, <1>6 DEF Shut, CallerPc, Owns, Holds, Makes
  <2>2. QED
    BY <1>1, <1>2, <1>6, <2>1 DEF Shut, BooksInv, o, h, k
<1>7. CASE Drop(c)
  <2>1. o' = o /\ h' = h - 1 /\ k' = k
    BY <1>1, <1>3, <1>7 DEF Drop, CallerPc, Owns, Holds, Makes
  <2>2. alive' = alive - 1 /\ open' = open /\ idle' = idle
    BY <1>7 DEF Drop
  <2>3. QED
    BY <1>1, <1>2, <2>1, <2>2 DEF BooksInv, o, h, k
<1>8. CASE Tell(c)
  <2>1. (IF c \in getting THEN "try" ELSE "out") \in {"try", "out"}
    OBVIOUS
  <2>2. o' = o /\ h' = h /\ k' = k
    BY <1>1, <1>3, <1>8, <2>1 DEF Tell, CallerPc, Owns, Holds, Makes
  <2>3. QED
    BY <1>1, <1>2, <1>8, <2>2 DEF Tell, BooksInv, o, h, k
<1>9. QED
  BY <1>4, <1>5, <1>6, <1>7, <1>8 DEF PutStep

\* The reaper, the settings and Close.
LEMMA OtherSteps ==
  ASSUME PoolInv,
         (\E on \in BOOLEAN : SetMaxIdleTime(on)) \/ ReapStep \/ Close \/ CloseStep
  PROVE  PoolInv'
<1> USE DEF PoolInv
<1> DEFINE o == Cardinality(Owners)
           h == Cardinality(Holders)
           k == Cardinality(Creating)
<1>1. /\ o \in Nat /\ h \in Nat /\ k \in Nat /\ o + k <= h
      /\ idle \in Nat /\ alive \in Int /\ open \in Int /\ Limit \in Nat
      /\ reaper.pile \in Nat /\ reaper.fresh \in Nat
      /\ Reaped = reaper.pile + reaper.fresh /\ Slot \in {0, 1}
  BY Counts, LimitAssumption DEF TypeOK, Reaped, Slot
<1>2. pc' \in [Callers -> CallerPc] /\ o' = o /\ h' = h /\ k' = k
  <2>1. Broadcast \/ pc' = pc
    BY DEF SetMaxIdleTime, ReapStep, ReaperLoop, ReapDrain, ReapCheck, ReapShut, ReapReturn,
           Close, CloseStep, CloseReaper, CloseChannel, CloseDrain
  <2>2. QED
    BY <2>1, CountBroadcast
<1>3. getting' = getting /\ cancel' = cancel
  BY DEF SetMaxIdleTime, ReapStep, ReaperLoop, ReapDrain, ReapCheck, ReapShut, ReapReturn,
         Close, CloseStep, CloseReaper, CloseChannel, CloseDrain
<1>0. ClosingInv'
  BY DEF ClosingInv, SetMaxIdleTime, ReapStep, ReaperLoop, ReapDrain, ReapCheck, ReapShut,
         ReapReturn, Close, CloseStep, CloseReaper, CloseChannel, CloseDrain
<1> HIDE DEF o, h, k
<1>4. CASE (\E on \in BOOLEAN : SetMaxIdleTime(on)) \/ ReaperLoop
  <2>1. TypeOK'
    BY <1>2, <1>3, <1>4 DEF TypeOK, SetMaxIdleTime, ReaperLoop
  <2>2. /\ idle' = idle /\ alive' = alive /\ open' = open /\ closed' = closed
        /\ chClosed' = chClosed
    BY <1>4 DEF SetMaxIdleTime, ReaperLoop
  <2>3. reaper'.pile = reaper.pile /\ reaper'.fresh = reaper.fresh
    BY <1>4 DEF SetMaxIdleTime, ReaperLoop, TypeOK
  <2>4. Slot' = Slot /\ ReaperInv'
    BY <1>4, <2>3 DEF SetMaxIdleTime, ReaperLoop, TypeOK, Slot, ReaperInv, Reaped
  <2>5. QED
    BY <1>0, <1>1, <1>2, <2>1, <2>2, <2>3, <2>4 DEF BooksInv, Reaped, o, h, k
<1>5. CASE ReapDrain
  <2>1. TypeOK'
    BY <1>1, <1>2, <1>3, <1>5 DEF TypeOK, ReapDrain
  <2>2. /\ idle' = 0 /\ alive' = alive /\ open' = open /\ closed' = closed
        /\ chClosed' = chClosed
    BY <1>5 DEF ReapDrain
  <2>3. Reaped = 0 /\ Reaped' = idle /\ Slot = 0 /\ Slot' = 0
    BY <1>1, <1>5 DEF ReapDrain, ReaperInv, Reaped, Slot
  <2>4. ReaperInv'
    BY <1>5 DEF ReapDrain, ReaperInv
  <2>5. QED
    BY <1>0, <1>1, <1>2, <2>1, <2>2, <2>3, <2>4 DEF BooksInv, o, h, k
<1>6. CASE ReapCheck
  <2>1. CASE reaper' = [reaper EXCEPT !.pile = @ - 1, !.fresh = @ + 1] /\ open' = open
    <3>1. TypeOK'
      <4>1. reaper.pile - 1 \in Nat /\ reaper.fresh + 1 \in Nat
        BY <1>1, <1>6 DEF ReapCheck
      <4>2. QED
        BY <1>1, <1>2, <1>3, <1>6, <2>1, <4>1 DEF TypeOK, ReapCheck
    <3>2. /\ idle' = idle /\ alive' = alive /\ closed' = closed /\ chClosed' = chClosed
      BY <1>6 DEF ReapCheck
    <3>3. Reaped' = Reaped /\ Slot' = Slot
      BY <1>1, <1>6, <2>1 DEF ReapCheck, Reaped, Slot, TypeOK
    <3>4. ReaperInv'
      BY <1>6, <2>1, <3>3 DEF ReapCheck, ReaperInv, TypeOK
    <3>5. QED
      BY <1>0, <1>1, <1>2, <2>1, <3>1, <3>2, <3>3, <3>4 DEF BooksInv, o, h, k
  <2>2. CASE reaper' = [reaper EXCEPT !.pc = "shut", !.pile = @ - 1] /\ open' = open - 1
    <3>1. TypeOK'
      <4>1. reaper.pile - 1 \in Nat
        BY <1>1, <1>6 DEF ReapCheck
      <4>2. reaper' \in [pc : {"none", "start", "wait", "check", "shut"}, pile : Nat, fresh : Nat]
        BY <2>2, <4>1 DEF TypeOK
      <4>3. open' \in Int
        BY <1>1, <2>2
      <4>4. QED
        BY <1>2, <1>3, <1>6, <4>2, <4>3 DEF TypeOK, ReapCheck
    <3>2. /\ idle' = idle /\ alive' = alive /\ closed' = closed /\ chClosed' = chClosed
      BY <1>6 DEF ReapCheck
    <3>3. Reaped' = Reaped - 1 /\ Slot = 0 /\ Slot' = 1
      BY <1>1, <1>6, <2>2 DEF ReapCheck, Reaped, Slot, TypeOK
    <3>4. ReaperInv'
      BY <1>6, <2>2 DEF ReapCheck, ReaperInv, TypeOK
    <3>5. QED
      BY <1>0, <1>1, <1>2, <2>2, <3>1, <3>2, <3>3, <3>4 DEF BooksInv, o, h, k
  <2>3. QED
    BY <1>6, <2>1, <2>2 DEF ReapCheck
<1>7. CASE ReapShut
  <2>1. TypeOK'
    BY <1>1, <1>2, <1>3, <1>7 DEF TypeOK, ReapShut
  <2>2. /\ idle' = idle /\ alive' = alive - 1 /\ open' = open /\ closed' = closed
        /\ chClosed' = chClosed
    BY <1>7 DEF ReapShut
  <2>3. Reaped' = Reaped /\ Slot = 1 /\ Slot' = 0
    BY <1>1, <1>7 DEF ReapShut, Reaped, Slot, TypeOK
  <2>4. ReaperInv'
    BY <1>7, <2>3 DEF ReapShut, ReaperInv, TypeOK
  <2>5. QED
    BY <1>0, <1>1, <1>2, <2>1, <2>2, <2>3, <2>4 DEF BooksInv, o, h, k
<1>8. CASE ReapReturn
  <2> DEFINE back == IF closed THEN 0 ELSE Least(reaper.fresh, Limit - idle)
  <2>1. idle <= Limit
    BY <1>1 DEF BooksInv, o, k
  <2>2. back \in Nat /\ back <= reaper.fresh
    BY <1>1, <2>1 DEF Least
  <2>3. /\ idle' = idle + back /\ alive' = alive - (reaper.fresh - back)
        /\ open' = open - (reaper.fresh - back)
        /\ closed' = closed /\ chClosed' = chClosed
    BY <1>8 DEF ReapReturn
  <2>4. Reaped = reaper.fresh /\ Slot = 0 /\ Reaped' = 0 /\ Slot' = 0
    BY <1>1, <1>8 DEF ReapReturn, Reaped, Slot
  <2> HIDE DEF back
  <2>5. TypeOK'
    <3>1. idle' \in Nat /\ alive' \in Int /\ open' \in Int
      BY <1>1, <2>2, <2>3
    <3>2. reaper' = [pc |-> "wait", pile |-> 0, fresh |-> 0] /\ maxIdle' = maxIdle
          /\ reaperStop' = reaperStop /\ closer' = closer
      BY <1>8 DEF ReapReturn
    <3>3. QED
      BY <1>2, <1>3, <2>3, <3>1, <3>2 DEF TypeOK
  <2>6. ReaperInv'
    BY <1>8, <2>4 DEF ReapReturn, ReaperInv
  <2>7. open' = idle' + o' + Reaped' /\ open' + k' <= Limit
    BY <1>1, <1>2, <2>2, <2>3, <2>4 DEF BooksInv, o, k
  <2>8. alive' >= idle' + h' + Reaped' + Slot'
    BY <1>1, <1>2, <2>2, <2>3, <2>4 DEF BooksInv, h
  <2>9. ~closed' => alive' = idle' + h' + Reaped' + Slot'
    BY <1>1, <1>2, <2>2, <2>3, <2>4 DEF BooksInv, h
  <2>10. QED
    BY <1>0, <2>3, <2>5, <2>6, <2>7, <2>8, <2>9 DEF BooksInv, o, h, k
<1>9. CASE Close \/ CloseReaper \/ CloseChannel
  <2>1. TypeOK'
    BY <1>1, <1>2, <1>3, <1>9 DEF TypeOK, Close, CloseReaper, CloseChannel
  <2>2. /\ idle' = idle /\ alive' = alive /\ open' = open /\ reaper' = reaper
    BY <1>9 DEF Close, CloseReaper, CloseChannel
  <2>3. Reaped' = Reaped /\ Slot' = Slot /\ ReaperInv'
    BY <1>9, <2>2 DEF Close, CloseReaper, CloseChannel, Reaped, Slot, ReaperInv
  <2>4. closed' \/ (closed' = closed /\ chClosed' = chClosed)
    BY <1>9 DEF Close, CloseReaper, CloseChannel, ClosingInv, PoolInv
  <2>5. QED
    BY <1>0, <1>1, <1>2, <2>1, <2>2, <2>3, <2>4 DEF BooksInv, o, h, k
<1>10. CASE CloseDrain
  <2>1. TypeOK'
    BY <1>1, <1>2, <1>3, <1>10 DEF TypeOK, CloseDrain
  <2>2. /\ alive' = alive /\ closed' = closed /\ chClosed' = chClosed /\ reaper' = reaper
        /\ reaperStop' = reaperStop
        /\ (idle' = idle /\ open' = open) \/ (idle' = idle - 1 /\ open' = open - 1)
    BY <1>10 DEF CloseDrain
  <2>3. Reaped' = Reaped /\ Slot' = Slot /\ ReaperInv'
    BY <2>2 DEF Reaped, Slot, ReaperInv
  <2>4. closed
    BY <1>10 DEF CloseDrain, ClosingInv
  <2>5. QED
    BY <1>0, <1>1, <1>2, <2>1, <2>2, <2>3, <2>4 DEF BooksInv, o, h, k
<1>11. QED
  BY <1>4, <1>5, <1>6, <1>7, <1>8, <1>9, <1>10 DEF ReapStep, CloseStep

-----------------------------------------------------------------------------
(* The theorems                                                              *)

(* The books, the reaper's state and the closing flags, after every step of     *)
(* Get, Put, the reaper and Close.                                           *)
THEOREM PoolInvariant == Spec => []PoolInv
<1>1. Init => PoolInv
  <2> SUFFICES ASSUME Init PROVE PoolInv
    OBVIOUS
  <2>1. TypeOK
    <3>1. pc \in [Callers -> CallerPc] /\ getting \subseteq Callers
      BY DEF Init, CallerPc
    <3>2. cancel \in [Callers -> {"live", "ended", "told"}]
      BY DEF Init
    <3>3. reaper \in [pc : {"none", "start", "wait", "check", "shut"}, pile : Nat, fresh : Nat]
      BY DEF Init
    <3>4. /\ idle \in Nat /\ alive \in Int /\ open \in Int
          /\ closer \in {"no", "reaper", "channel", "drain", "done"}
          /\ reaperStop \in {"nil", "open", "closed"}
      BY DEF Init
    <3>5. closed \in BOOLEAN /\ chClosed \in BOOLEAN /\ maxIdle \in BOOLEAN
      BY Zenon DEF Init
    <3>6. QED
      BY <3>1, <3>2, <3>3, <3>4, <3>5 DEF TypeOK
  <2>2. Owners = {} /\ Holders = {} /\ Creating = {}
    BY DEF Init, Owners, Holders, Creating
  <2>3. Reaped = 0 /\ Slot = 0
    BY DEF Init, Reaped, Slot
  <2>4. QED
    BY <2>1, <2>2, <2>3, FS_EmptySet, LimitAssumption
       DEF Init, PoolInv, BooksInv, ReaperInv, ClosingInv
<1>2. PoolInv /\ [Next]_vars => PoolInv'
  <2> SUFFICES ASSUME PoolInv, [Next]_vars PROVE PoolInv'
    OBVIOUS
  <2>1. ASSUME NEW c \in Callers, CallerStep(c) PROVE PoolInv'
    <3>1. TypeOK'
      BY <2>1, CallerTypes
    <3>2. BooksInv'
      <4>1. CASE Cancel(c) \/ AfterFunc(c)
        <5>1. Owners' = Owners /\ Holders' = Holders /\ Creating' = Creating
          BY <4>1, CountBroadcast DEF Cancel, AfterFunc, PoolInv
        <5>2. UNCHANGED <<idle, alive, open, closing, reaping>>
          BY <4>1 DEF Cancel, AfterFunc
        <5>3. QED
          BY <5>1, <5>2 DEF PoolInv, BooksInv, Reaped, Slot
      <4>2. QED
        BY <2>1, <4>1, GetBooks, PutBooks DEF CallerStep
    <3>3. UNCHANGED <<reaping, closing>>
      BY <2>1 DEF CallerStep, GetStep, PutStep, Get, Receive, Check, Reserve, Create, Undo,
             Recheck, Cancel, AfterFunc, Put, Enqueue, Shut, Drop, Tell
    <3>4. QED
      BY <3>1, <3>2, <3>3 DEF PoolInv, ReaperInv, ClosingInv, Reaped
  <2>2. CASE UNCHANGED vars
    BY <2>2 DEF vars, PoolInv, TypeOK, BooksInv, ReaperInv, ClosingInv, Reaped, Slot,
                Owners, Holders, Creating
  <2>3. QED
    BY <2>1, <2>2, OtherSteps DEF Next, CallerStep
<1>3. QED
  BY <1>1, <1>2, PTL DEF Spec

(* However many goroutines call Get and Put, whatever fails and whenever the    *)
(* reaper or Close runs, no more browser processes run than the limit allows.  *)
THEOREM CapacityHolds == Spec => []Capacity
<1>1. PoolInv => Capacity
  <2> SUFFICES ASSUME PoolInv PROVE Capacity
    OBVIOUS
  <2>1. Cardinality(Creating) \in Nat /\ open \in Int /\ Limit \in Nat
    BY Counts, LimitAssumption DEF PoolInv, TypeOK
  <2>2. QED
    BY <2>1 DEF PoolInv, BooksInv, Capacity
<1>2. QED
  BY <1>1, PoolInvariant, PTL

(* Until the pool closes the counter alive accounts for every slot, exactly.   *)
THEOREM SlotsAlwaysBalance == Spec => []SlotsBalance
<1>1. PoolInv => SlotsBalance
  <2> SUFFICES ASSUME PoolInv, ~closed PROVE SlotsBalance
    BY DEF SlotsBalance
  <2>1. /\ idle \in Nat /\ reaper.pile \in Nat /\ reaper.fresh \in Nat
        /\ Cardinality(Holders) \in Nat
    BY Counts DEF PoolInv, TypeOK
  <2>2. QED
    BY <2>1 DEF PoolInv, BooksInv, SlotsBalance, Reaped, Slot
<1>2. QED
  BY <1>1, PoolInvariant, PTL

(* The sends of put and of the reaper never meet a closed channel: the test of  *)
(* closed under the mutex is enough, since Close sets closed first.           *)
THEOREM NeverSendsOnClosed == Spec => NoSendOnClosed
<1>1. PoolInv /\ [Next]_vars => [idle' > idle => ~chClosed]_vars
  <2> SUFFICES ASSUME PoolInv, Next, idle' > idle PROVE ~chClosed
    OBVIOUS
  <2>1. idle \in Nat /\ (chClosed => closed)
    BY DEF PoolInv, TypeOK, BooksInv
  <2>2. CASE \E c \in Callers :
               Get(c) \/ GetStep(c) \/ Cancel(c) \/ AfterFunc(c) \/ PutStep(c)
    BY <2>1, <2>2 DEF GetStep, PutStep, Get, Receive, Check, Reserve, Create, Undo, Recheck,
                      Cancel, AfterFunc, Put, Enqueue, Shut, Drop, Tell
  <2>3. CASE ReapReturn
    <3>1. closed => idle' = idle
      BY <2>1, <2>3 DEF ReapReturn
    <3>2. QED
      BY <2>1, <3>1
  <2>4. CASE ~(\E c \in Callers :
                 Get(c) \/ GetStep(c) \/ Cancel(c) \/ AfterFunc(c) \/ PutStep(c)) /\ ~ReapReturn
    BY <2>1, <2>4 DEF Next, SetMaxIdleTime, ReapStep, ReaperLoop, ReapDrain, ReapCheck, ReapShut,
                      Close, CloseStep, CloseReaper, CloseChannel, CloseDrain
  <2>5. QED
    BY <2>2, <2>3, <2>4
<1>2. QED
  BY <1>1, PoolInvariant, PTL DEF Spec, NoSendOnClosed

\* A Get falls asleep over an empty channel, and whoever fills it goes on to
\* broadcast: so beside a sleeper and an idle browser there is a goroutine at "tell".
Telling == {c \in Callers : pc[c] = "tell"}
TellInv == idle > 0 /\ Asleep # {} => Telling # {}

\* A step keeps TellInv when it leaves nobody asleep, or does not fill the
\* channel, and nobody new sleeps and no one who would tell gives up.
LEMMA StillTold ==
  ASSUME TypeOK, TellInv, idle' \in Nat,
         \/ idle' = 0 \/ Asleep' = {} \/ Telling' # {}
         \/ idle' <= idle /\ Asleep' \subseteq Asleep /\ Telling \subseteq Telling'
  PROVE  TellInv'
  BY DEF TellInv, TypeOK

\* One caller moves: it matters whether it falls asleep or leaves "tell".
LEMMA OneMoves ==
  ASSUME TypeOK, TellInv, NEW c \in Callers, NEW next, Goto(c, next),
         idle' \in Nat, idle' <= idle, pc[c] # "tell", next = "asleep" => idle' = 0
  PROVE  TellInv'
<1>1. \A d \in Callers \ {c} : pc'[d] = pc[d]
  BY DEF Goto, TypeOK
<1>2. pc'[c] = next
  BY DEF Goto, TypeOK
<1>3. Telling \subseteq Telling'
  BY <1>1 DEF Telling
<1>4. next # "asleep" => Asleep' \subseteq Asleep
  BY <1>1, <1>2 DEF Asleep
<1>5. QED
  BY <1>3, <1>4, StillTold

\* The steps of a Get and of a Put.
LEMMA CallersTell ==
  ASSUME TypeOK, TellInv, NEW c \in Callers,
         Get(c) \/ GetStep(c) \/ Cancel(c) \/ AfterFunc(c) \/ PutStep(c)
  PROVE  TellInv'
<1>0. idle \in Nat
  BY DEF TypeOK
<1>1. CASE Get(c)
  BY <1>0, <1>1, OneMoves DEF Get
<1>2. CASE Receive(c)
  <2>1. idle' \in Nat /\ idle' <= idle /\ pc[c] = "try"
    BY <1>0, <1>2 DEF Receive
  <2>2. Goto(c, "check") \/ Goto(c, "out") \/ Goto(c, "reserve")
    BY <1>2 DEF Receive
  <2>3. QED
    BY <2>1, <2>2, OneMoves
<1>3. CASE Check(c) \/ Reserve(c) \/ Create(c) \/ Undo(c)
  <2>1. idle' = idle /\ pc[c] # "tell"
    BY <1>3 DEF Check, Reserve, Create, Undo
  <2>2. PICK next : Goto(c, next) /\ next # "asleep"
    BY <1>3 DEF Check, Reserve, Create, Undo
  <2>3. QED
    BY <1>0, <2>1, <2>2, OneMoves
<1>4. CASE Recheck(c)
  <2>1. PICK next : Goto(c, next) /\ (next = "asleep" => ~(idle > 0))
    BY <1>4 DEF Recheck
  <2>2. idle' = idle /\ pc[c] # "tell"
    BY <1>4 DEF Recheck
  <2>3. QED
    BY <1>0, <2>1, <2>2, OneMoves
<1>5. CASE Cancel(c)
  BY <1>0, <1>5, StillTold DEF Cancel, Asleep, Telling
<1>6. CASE AfterFunc(c)
  <2>1. Asleep' = {} /\ idle' = idle
    BY <1>6 DEF AfterFunc, Broadcast, Asleep, TypeOK
  <2>2. QED
    BY <1>0, <2>1, StillTold
<1>7. CASE Put(c) \/ Shut(c)
  <2>1. idle' = idle /\ pc[c] # "tell"
    BY <1>7 DEF Put, Shut
  <2>2. PICK next : Goto(c, next) /\ next # "asleep"
    BY <1>7 DEF Put, Shut
  <2>3. QED
    BY <1>0, <2>1, <2>2, OneMoves
<1>8. CASE Enqueue(c) \/ Drop(c)
  <2>1. \/ idle' \in Nat /\ Goto(c, "tell")
        \/ idle' = idle /\ Goto(c, "shut") /\ pc[c] = "put"
    BY <1>0, <1>8 DEF Enqueue, Drop
  <2>2. CASE idle' \in Nat /\ Goto(c, "tell")
    <3>1. c \in Telling'
      BY <2>2 DEF Goto, Telling, TypeOK
    <3>2. QED
      BY <2>2, <3>1, StillTold
  <2>3. CASE idle' = idle /\ Goto(c, "shut") /\ pc[c] = "put"
    BY <1>0, <2>3, OneMoves
  <2>4. QED
    BY <2>1, <2>2, <2>3
<1>9. CASE Tell(c)
  <2>1. PICK next \in {"try", "out"} : BroadcastAnd(c, next)
    BY <1>9 DEF Tell
  <2>2. Asleep' = {} /\ idle' = idle
    BY <1>9, <2>1 DEF Tell, BroadcastAnd, Asleep, TypeOK
  <2>3. QED
    BY <1>0, <2>2, StillTold
<1>10. QED
  BY <1>1, <1>2, <1>3, <1>4, <1>5, <1>6, <1>7, <1>8, <1>9 DEF GetStep, PutStep

\* Whoever fills the channel over a sleeper goes on to broadcast.
LEMMA TellInvariant == Spec => []TellInv
<1>1. Init => TellInv
  BY DEF Init, TellInv
<1>2. PoolInv /\ TellInv /\ [Next]_vars => TellInv'
  <2> SUFFICES ASSUME PoolInv, TellInv, [Next]_vars PROVE TellInv'
    OBVIOUS
  <2>0. TypeOK /\ idle \in Nat
    BY DEF PoolInv, TypeOK
  <2>1. CASE \E c \in Callers :
               Get(c) \/ GetStep(c) \/ Cancel(c) \/ AfterFunc(c) \/ PutStep(c)
    BY <2>0, <2>1, CallersTell
  <2>2. CASE ReapReturn \/ CloseChannel
    <3>1. Asleep' = {}
      BY <2>2 DEF ReapReturn, CloseChannel, Broadcast, Asleep, TypeOK
    <3>2. QED
      BY <3>1 DEF TellInv
  <2>3. CASE \/ \E on \in BOOLEAN : SetMaxIdleTime(on)
             \/ ReaperLoop \/ ReapDrain \/ ReapCheck \/ ReapShut
             \/ Close \/ CloseReaper \/ CloseDrain \/ UNCHANGED vars
    <3>1. pc' = pc /\ (idle' = idle \/ idle' = 0 \/ idle' = idle - 1)
      BY <2>3 DEF SetMaxIdleTime, ReaperLoop, ReapDrain, ReapCheck, ReapShut, Close, CloseReaper,
                  CloseDrain, vars
    <3>2. idle' > 0 => idle > 0
      BY <2>0, <3>1
    <3>3. QED
      BY <3>1, <3>2 DEF TellInv, Asleep, Telling
  <2>4. QED
    BY <2>1, <2>2, <2>3 DEF Next, ReapStep, CloseStep
<1>3. QED
  BY <1>1, <1>2, PoolInvariant, PTL DEF Spec

\* No idle browser waits beside a sleeping Get for a broadcast nobody makes: not
\* after a Put, a reaper's round, a context that ended or a Close.
THEOREM IdleBrowserIsOffered == Spec => []IdleIsOffered
<1>1. PoolInv /\ TellInv => IdleIsOffered
  BY DEF PoolInv, TypeOK, TellInv, IdleIsOffered, Quiet, Telling
<1>2. QED
  BY <1>1, TellInvariant, PoolInvariant, PTL DEF Spec

-----------------------------------------------------------------------------
(* No wake-up is lost while contexts live                                    *)

(* The callers that will look for a free slot again before they sleep.  A free  *)
(* slot beside a sleeper is a transient reservation that was taken back: who   *)
(* took it looks again, so there are at least as many of these as free slots. *)
Trying == {c \in Callers : pc[c] \in {"try", "reserve", "lock"}}

Contended == /\ Asleep # {} /\ Telling = {}
             /\ closer = "no" /\ reaper.pc \notin {"check", "shut"}

WakeInv == Contended => Limit - alive <= Cardinality(Trying)

Patient == \A c \in Callers : cancel[c] = "live"

Tries(p) == IF p \in {"try", "reserve", "lock"} THEN 1 ELSE 0

\* One caller that moves changes the number of those who try by what it does.
LEMMA CountTrying ==
  ASSUME TypeOK, NEW c \in Callers, NEW next, Goto(c, next)
  PROVE  /\ Cardinality(Trying) \in Nat /\ Cardinality(Trying') \in Nat
         /\ Cardinality(Trying') = Cardinality(Trying) + Tries(next) - Tries(pc[c])
<1>1. pc'[c] = next /\ \A d \in Callers \ {c} : pc'[d] = pc[d]
  BY DEF Goto, TypeOK
<1>2. Trying \ {c} = Trying' \ {c}
  BY <1>1 DEF Trying
<1>3. IsFiniteSet(Trying) /\ IsFiniteSet(Trying')
  BY LimitAssumption, FS_Subset DEF Trying
<1>4. /\ Cardinality(Trying) \in Nat /\ Cardinality(Trying') \in Nat
      /\ Cardinality(Trying') + (IF c \in Trying THEN 1 ELSE 0)
           = Cardinality(Trying) + (IF c \in Trying' THEN 1 ELSE 0)
  BY <1>2, <1>3, CountOne
<1>5. (c \in Trying <=> Tries(pc[c]) = 1) /\ (c \in Trying' <=> Tries(next) = 1)
  BY <1>1 DEF Trying, Tries
<1>6. Tries(next) \in {0, 1} /\ Tries(pc[c]) \in {0, 1}
  BY DEF Tries
<1>7. QED
  BY <1>4, <1>5, <1>6

\* A caller that moves, awake before and after, without a broadcast: the slots
\* it frees are no more than the tries it adds.
LEMMA OneTries ==
  ASSUME TypeOK, WakeInv, NEW c \in Callers, NEW next, Goto(c, next),
         pc[c] # "tell", next # "asleep", UNCHANGED <<closer, reaper>>,
         alive' \in Int, Tries(pc[c]) - Tries(next) <= alive' - alive
  PROVE  WakeInv'
<1>1. /\ Cardinality(Trying) \in Nat /\ Cardinality(Trying') \in Nat
      /\ Cardinality(Trying') = Cardinality(Trying) + Tries(next) - Tries(pc[c])
  BY CountTrying
<1>2. pc'[c] = next /\ \A d \in Callers \ {c} : pc'[d] = pc[d]
  BY DEF Goto, TypeOK
<1>3. Asleep' \subseteq Asleep /\ Telling \subseteq Telling'
  BY <1>2 DEF Asleep, Telling
<1>4. Contended' => Contended
  BY <1>3 DEF Contended
<1>5. Tries(next) \in {0, 1} /\ Tries(pc[c]) \in {0, 1} /\ alive \in Int /\ Limit \in Int
  BY LimitAssumption DEF Tries, TypeOK
<1>6. (Limit - alive <= Cardinality(Trying)) => (Limit - alive' <= Cardinality(Trying'))
  BY <1>1, <1>5
<1>7. Cardinality(Trying)' = Cardinality(Trying')
  OBVIOUS
<1>8. QED
  BY <1>4, <1>6, <1>7 DEF WakeInv

\* The steps of a Get and of a Put whose context lives.
LEMMA CallersTry ==
  ASSUME PoolInv, TellInv, WakeInv, Patient, Impatient = {}, NEW c \in Callers, CallerStep(c)
  PROVE  WakeInv'
<1>0. /\ TypeOK /\ idle \in Nat /\ alive \in Int /\ Limit \in Nat /\ cancel[c] = "live"
      /\ (chClosed => closed) /\ (closed <=> closer # "no")
  BY LimitAssumption DEF PoolInv, TypeOK, BooksInv, ClosingInv, Patient
<1>1. CASE Get(c)
  <2>1. Goto(c, "try") /\ pc[c] = "out" /\ alive' = alive /\ UNCHANGED <<closer, reaper>>
    BY <1>1 DEF Get
  <2>2. Tries(pc[c]) - Tries("try") <= 0
    BY <2>1 DEF Tries
  <2>3. QED
    BY <1>0, <2>1, <2>2, OneTries
<1>2. CASE Receive(c)
  <2>1. pc[c] = "try" /\ alive' = alive /\ UNCHANGED <<closer, reaper>>
    BY <1>2 DEF Receive
  <2>2. CASE idle > 0 \/ chClosed
    <3>1. ~Contended
      BY <1>0, <2>2 DEF TellInv, Contended
    <3>2. PICK next : Goto(c, next) /\ next # "asleep"
      BY <1>2 DEF Receive
    <3>3. pc'[c] = next /\ \A d \in Callers \ {c} : pc'[d] = pc[d]
      BY <1>0, <3>2 DEF Goto, TypeOK
    <3>4. Asleep' \subseteq Asleep /\ Telling \subseteq Telling'
      BY <2>1, <3>2, <3>3 DEF Asleep, Telling
    <3>5. QED
      BY <2>1, <3>1, <3>4 DEF Contended, WakeInv
  <2>3. CASE ~(idle > 0) /\ ~chClosed
    <3>1. Goto(c, "reserve")
      BY <1>2, <2>3 DEF Receive
    <3>2. Tries(pc[c]) - Tries("reserve") <= 0
      BY <2>1 DEF Tries
    <3>3. QED
      BY <1>0, <2>1, <3>1, <3>2, OneTries
  <2>4. QED
    BY <2>2, <2>3
<1>3. CASE Check(c) \/ Create(c)
  <2>1. pc[c] \in {"check", "create"} /\ alive' = alive /\ UNCHANGED <<closer, reaper>>
    BY <1>3 DEF Check, Create
  <2>2. PICK next : Goto(c, next) /\ next # "asleep"
    BY <1>3 DEF Check, Create
  <2>3. Tries(pc[c]) - Tries(next) <= 0 /\ pc[c] # "tell"
    BY <2>1 DEF Tries
  <2>4. QED
    BY <1>0, <2>1, <2>2, <2>3, OneTries
<1>4. CASE Reserve(c)
  <2>1. pc[c] = "reserve" /\ alive' = alive + 1 /\ UNCHANGED <<closer, reaper>>
    BY <1>4 DEF Reserve
  <2>2. PICK next : Goto(c, next) /\ next # "asleep"
    BY <1>4 DEF Reserve
  <2>3. Tries(pc[c]) - Tries(next) <= 1
    BY <2>1 DEF Tries
  <2>4. QED
    BY <1>0, <2>1, <2>2, <2>3, OneTries
<1>5. CASE Undo(c)
  <2>1. pc[c] = "undo" /\ Goto(c, "lock") /\ alive' = alive - 1 /\ UNCHANGED <<closer, reaper>>
    BY <1>5 DEF Undo
  <2>2. Tries(pc[c]) - Tries("lock") <= -1
    BY <2>1 DEF Tries
  <2>3. QED
    BY <1>0, <2>1, <2>2, OneTries
<1>6. CASE Recheck(c)
  <2>1. pc[c] = "lock" /\ alive' = alive /\ UNCHANGED <<closer, reaper>>
    BY <1>6 DEF Recheck
  <2>2. CASE closed
    BY <1>0, <2>1, <2>2 DEF WakeInv, Contended
  <2>3. CASE ~closed /\ (idle > 0 \/ alive < Limit)
    <3>1. Goto(c, "try")
      BY <1>0, <1>6, <2>3 DEF Recheck
    <3>2. Tries(pc[c]) - Tries("try") <= 0
      BY <2>1 DEF Tries
    <3>3. QED
      BY <1>0, <2>1, <3>1, <3>2, OneTries
  <2>4. CASE ~closed /\ ~(idle > 0 \/ alive < Limit)
    <3>1. Goto(c, "asleep")
      BY <1>0, <1>6, <2>4 DEF Recheck
    <3>2. Cardinality(Trying') \in Nat
      BY <1>0, <3>1, CountTrying
    <3>3. Limit - alive' <= Cardinality(Trying')
      BY <1>0, <2>1, <2>4, <3>2
    <3>4. Cardinality(Trying)' = Cardinality(Trying')
      OBVIOUS
    <3>5. QED
      BY <3>3, <3>4 DEF WakeInv
  <2>5. QED
    BY <2>2, <2>3, <2>4
<1>7. CASE Cancel(c) \/ AfterFunc(c)
  BY <1>0, <1>7 DEF Cancel, AfterFunc
<1>8. CASE Put(c) \/ Enqueue(c) \/ Shut(c)
  <2>1. pc[c] \in {"held", "put", "shut"} /\ alive' = alive /\ UNCHANGED <<closer, reaper>>
    BY <1>8 DEF Put, Enqueue, Shut
  <2>2. PICK next : Goto(c, next) /\ next # "asleep"
    BY <1>8 DEF Put, Enqueue, Shut
  <2>3. Tries(pc[c]) - Tries(next) <= 0 /\ pc[c] # "tell"
    BY <2>1 DEF Tries
  <2>4. QED
    BY <1>0, <2>1, <2>2, <2>3, OneTries
<1>9. CASE Drop(c)
  <2>1. Goto(c, "tell")
    BY <1>9 DEF Drop
  <2>2. c \in Telling'
    BY <1>0, <2>1 DEF Goto, Telling, TypeOK
  <2>3. QED
    BY <2>2 DEF WakeInv, Contended
<1>10. CASE Tell(c)
  <2>1. PICK next \in {"try", "out"} : BroadcastAnd(c, next)
    BY <1>10 DEF Tell
  <2>2. Asleep' = {}
    BY <2>1 DEF BroadcastAnd, Asleep
  <2>3. QED
    BY <2>2 DEF WakeInv, Contended
<1>11. QED
  BY <1>1, <1>2, <1>3, <1>4, <1>5, <1>6, <1>7, <1>8, <1>9, <1>10
     DEF CallerStep, GetStep, PutStep

\* As long as no context ends while its Get looks for a browser, every change that
\* makes room is followed by a broadcast, as pool.go:327 and 411 claim: nobody
\* sleeps beside a free slot, however Gets, Puts, failed launches, dead browsers,
\* the reaper and Close are interleaved.
THEOREM NoWakeupLost == ASSUME Impatient = {} PROVE Spec => []NoLostWakeup
<1>1. Init => Patient /\ WakeInv
  BY DEF Init, Patient, WakeInv, Contended, Asleep
<1>2. PoolInv /\ TellInv /\ WakeInv /\ Patient /\ [Next]_vars => WakeInv' /\ Patient'
  <2> SUFFICES ASSUME PoolInv, TellInv, WakeInv, Patient, [Next]_vars PROVE WakeInv' /\ Patient'
    OBVIOUS
  <2>0. TypeOK
    BY DEF PoolInv
  <2>1. CASE \E c \in Callers :
               Get(c) \/ GetStep(c) \/ Cancel(c) \/ AfterFunc(c) \/ PutStep(c)
    <3>1. PICK c \in Callers : CallerStep(c)
      BY <2>1 DEF CallerStep
    <3>2. WakeInv'
      BY <3>1, CallersTry
    <3>3. cancel' = [cancel EXCEPT ![c] = "live"] \/ cancel' = cancel
      BY <3>1 DEF CallerStep, GetStep, PutStep, Get, Receive, Check, Reserve, Create, Undo, Recheck,
                  Cancel, AfterFunc, Put, Enqueue, Shut, Drop, Tell, Patient
    <3>4. Patient'
      BY <2>0, <3>3 DEF Patient, TypeOK
    <3>5. QED
      BY <3>2, <3>4
  <2>2. CASE ReapReturn \/ CloseChannel
    <3>1. Asleep' = {} /\ cancel' = cancel
      BY <2>2 DEF ReapReturn, CloseChannel, Broadcast, Asleep
    <3>2. QED
      BY <3>1 DEF WakeInv, Contended, Patient
  <2>3. CASE ReapDrain \/ ReapCheck \/ ReapShut \/ Close \/ CloseReaper \/ CloseDrain
    <3>0. reaper = [pc |-> reaper.pc, pile |-> reaper.pile, fresh |-> reaper.fresh]
      BY <2>0 DEF TypeOK
    <3>1. reaper'.pc \in {"check", "shut"} \/ closer' # "no"
      <4>1. CASE ReapDrain \/ ReapShut
        BY <3>0, <4>1 DEF ReapDrain, ReapShut
      <4>2. CASE ReapCheck
        BY <3>0, <4>2 DEF ReapCheck
      <4>3. CASE Close \/ CloseReaper \/ CloseDrain
        BY <4>3 DEF Close, CloseReaper, CloseDrain
      <4>4. QED
        BY <2>3, <4>1, <4>2, <4>3
    <3>2. cancel' = cancel
      BY <2>3 DEF ReapDrain, ReapCheck, ReapShut, Close, CloseReaper, CloseDrain
    <3>3. QED
      BY <3>1, <3>2 DEF WakeInv, Contended, Patient
  <2>4. CASE (\E on \in BOOLEAN : SetMaxIdleTime(on)) \/ ReaperLoop \/ UNCHANGED vars
    <3>1. UNCHANGED <<pc, alive, closer, cancel>>
      BY <2>4 DEF SetMaxIdleTime, ReaperLoop, vars
    <3>2. reaper.pc \in {"check", "shut"} => reaper'.pc \in {"check", "shut"}
      BY <2>0, <2>4 DEF SetMaxIdleTime, ReaperLoop, vars, PoolInv, ReaperInv, TypeOK
    <3>3. Asleep' = Asleep /\ Telling' = Telling /\ Trying' = Trying
      BY <3>1 DEF Asleep, Telling, Trying
    <3>4. QED
      BY <3>1, <3>2, <3>3 DEF WakeInv, Contended, Patient
  <2>5. QED
    BY <2>1, <2>2, <2>3, <2>4 DEF Next, ReapStep, CloseStep
<1>3. PoolInv /\ WakeInv /\ IdleIsOffered => NoLostWakeup
  <2> SUFFICES ASSUME PoolInv, WakeInv, IdleIsOffered, Quiet, Asleep # {}
               PROVE  idle = 0 /\ alive >= Limit
    BY DEF NoLostWakeup
  <2>1. Telling = {} /\ Trying = {}
    BY DEF Quiet, Telling, Trying
  <2>2. Contended
    BY <2>1 DEF Contended, Quiet
  <2>3. Cardinality(Trying) = 0
    BY <2>1, FS_EmptySet
  <2>4. alive \in Int /\ Limit \in Nat
    BY LimitAssumption DEF PoolInv, TypeOK
  <2>5. QED
    BY <2>2, <2>3, <2>4 DEF WakeInv, IdleIsOffered
<1>4. QED
  BY <1>1, <1>2, <1>3, PoolInvariant, IdleBrowserIsOffered, TellInvariant, PTL DEF Spec

-----------------------------------------------------------------------------
(* What Close leaves                                                         *)

\* Once the channel is closed nobody sleeps any more, once it is drained it stays empty, and
\* a reaper that is started late finds the pool closed.
EndInv ==
  /\ closer \in {"channel", "drain", "done"} => reaperStop # "open"
  /\ closer \in {"drain", "done"} => Asleep = {}
  /\ closer = "done" => idle = 0

\* In a closed pool every Get gives up before it sleeps, and nothing is put back.
LEMMA EndNext ==
  ASSUME PoolInv, EndInv, [Next]_vars
  PROVE  EndInv'
<1>0. TypeOK /\ (closed <=> closer # "no")
  BY DEF PoolInv, ClosingInv
<1>1. ASSUME NEW c \in Callers,
             Get(c) \/ GetStep(c) \/ Cancel(c) \/ AfterFunc(c) \/ PutStep(c)
      PROVE  EndInv'
  <2>1. closer' = closer /\ reaperStop' = reaperStop
    BY <1>1 DEF GetStep, PutStep, Get, Receive, Check, Reserve, Create, Undo, Recheck, Cancel,
                AfterFunc, Put, Enqueue, Shut, Drop, Tell
  <2>2. idle' = idle \/ (idle > 0 /\ idle' = idle - 1) \/ ~closed
    BY <1>1 DEF GetStep, PutStep, Get, Receive, Check, Reserve, Create, Undo, Recheck, Cancel,
                AfterFunc, Put, Enqueue, Shut, Drop, Tell
  <2>3. closed => Asleep' \subseteq Asleep
    <3>1. CASE Recheck(c)
      BY <1>0, <3>1 DEF Recheck, Goto, Asleep, TypeOK
    <3>2. CASE AfterFunc(c) \/ Tell(c)
      BY <1>0, <3>2 DEF AfterFunc, Tell, Broadcast, BroadcastAnd, Asleep, TypeOK
    <3>3. CASE Cancel(c)
      BY <3>3 DEF Cancel, Asleep
    <3>4. CASE \/ Get(c) \/ Receive(c) \/ Check(c) \/ Reserve(c) \/ Create(c) \/ Undo(c)
               \/ Put(c) \/ Enqueue(c) \/ Shut(c) \/ Drop(c)
      <4>1. PICK next : Goto(c, next) /\ next # "asleep"
        BY <3>4 DEF Get, Receive, Check, Reserve, Create, Undo, Put, Enqueue, Shut, Drop
      <4>2. QED
        BY <1>0, <4>1 DEF Goto, Asleep, TypeOK
    <3>5. QED
      BY <1>1, <3>1, <3>2, <3>3, <3>4 DEF GetStep, PutStep
  <2>4. idle \in Nat
    BY <1>0 DEF TypeOK
  <2>5. QED
    BY <1>0, <2>1, <2>2, <2>3, <2>4 DEF EndInv
<1>2. ASSUME NEW on \in BOOLEAN, SetMaxIdleTime(on)
      PROVE  EndInv'
  BY <1>0, <1>2 DEF SetMaxIdleTime, EndInv, Asleep
<1>3. CASE ReapStep
  <2>1. UNCHANGED <<closer, reaperStop>>
    BY <1>3 DEF ReapStep, ReaperLoop, ReapDrain, ReapCheck, ReapShut, ReapReturn
  <2>2. Asleep' \subseteq Asleep
    BY <1>3 DEF ReapStep, ReaperLoop, ReapDrain, ReapCheck, ReapShut, ReapReturn, Broadcast, Asleep
  <2>3. closed => idle' = idle
    <3>1. CASE ReapReturn
      <4>1. closed => idle' = idle + 0
        BY <3>1 DEF ReapReturn
      <4>2. QED
        BY <1>0, <4>1 DEF TypeOK
    <3>2. CASE ReaperLoop \/ ReapDrain \/ ReapCheck \/ ReapShut
      BY <3>2 DEF ReaperLoop, ReapDrain, ReapCheck, ReapShut
    <3>3. QED
      BY <1>3, <3>1, <3>2 DEF ReapStep
  <2>4. QED
    BY <1>0, <2>1, <2>2, <2>3 DEF EndInv
<1>4. CASE Close \/ CloseReaper
  BY <1>0, <1>4 DEF Close, CloseReaper, EndInv
<1>5. CASE CloseChannel
  <2>1. Asleep' = {} /\ closer' = "drain" /\ reaperStop' = reaperStop
    BY <1>5 DEF CloseChannel, Broadcast, Asleep
  <2>2. reaperStop # "open"
    BY <1>5 DEF CloseChannel, EndInv
  <2>3. QED
    BY <2>1, <2>2 DEF EndInv
<1>6. CASE CloseDrain
  <2>1. idle \in Nat /\ Asleep' = Asleep /\ reaperStop' = reaperStop
    BY <1>0, <1>6 DEF CloseDrain, Asleep, TypeOK
  <2>2. QED
    BY <1>6, <2>1 DEF CloseDrain, EndInv
<1>7. CASE UNCHANGED vars
  BY <1>7 DEF vars, EndInv, Asleep
<1>8. QED
  BY <1>1, <1>2, <1>3, <1>4, <1>5, <1>6, <1>7 DEF Next, CloseStep

\* After Close the only browsers left are in the hands of a caller or of the reaper, however
\* its steps are interleaved with Gets, Puts, a reaper's round and a reaper being started.
THEOREM ClosedLeavesNothing == Spec => []CloseLeavesNothing
<1>1. Init => EndInv
  BY DEF Init, EndInv
<1>2. PoolInv /\ EndInv /\ [Next]_vars => EndInv'
  BY EndNext
<1>3. PoolInv /\ EndInv => CloseLeavesNothing
  <2> SUFFICES ASSUME PoolInv, EndInv, closer = "done" PROVE CloseLeavesNothing
    BY DEF CloseLeavesNothing
  <2>1. /\ reaper.pile \in Nat /\ reaper.fresh \in Nat /\ Cardinality(Owners) \in Nat
        /\ idle = 0 /\ Asleep = {} /\ reaperStop # "open"
    BY Counts DEF PoolInv, TypeOK, EndInv
  <2>2. open = idle + Cardinality(Owners) + (reaper.pile + reaper.fresh)
    BY DEF PoolInv, BooksInv, Reaped
  <2>3. QED
    BY <2>1, <2>2 DEF CloseLeavesNothing
<1>4. QED
  BY <1>1, <1>2, <1>3, PoolInvariant, PTL DEF Spec

=============================================================================
