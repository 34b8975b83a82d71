-------------------------- MODULE TaskEngineRounds --------------------------
(***************************************************************************)
(* One copy of a row.  Nothing but SubmitTask of an existing row and the   *)
(* operators' Retry, Urgent and MarkFailed makes a second copy of a row    *)
(* that is under way: without them a row is in one place at a time, and    *)
(* the polling round that is counted for a copy is the round it is         *)
(* executed in.  So the repeat queue stops at its limit, plus one round    *)
(* for each count that a restart or a lost answer makes the program        *)
(* forget, and an outcome that is written again after a lost answer never  *)
(* ends a later round.                                                     *)
(***************************************************************************)
EXTENDS TaskEngineShutdown

USE DEF row, lanes, spills, life, process, history

\* Nobody submits or ends a row that is under way but the program itself.
NoResubmission == Ops \cap {"again", "retry", "urgent", "mark"} = {}

-----------------------------------------------------------------------------
(* The places of a copy: place k of kind i holds row r, and c says whether    *)
(* the polling round of that copy has been counted                            *)

Listed(t, r, c) == \E i \in 1..Len(t) : t[i].row = r /\ t[i].counted = c

OnLane(k, i, r, c) ==
  /\ i = NoRow /\ c = TRUE
  /\ (k = "queue" /\ InLane(queue, r)) \/ (k = "fast" /\ InLane(fast, r))

OnTable(k, i, r, c) ==
  /\ i = NoRow
  /\ (k = "spill" /\ Listed(spill, r, c)) \/ (k = "draining" /\ Listed(draining, r, c))

OnList(k, i, r, c) ==
  /\ i = NoRow /\ c = FALSE
  /\ (k = "delayed" /\ delayed[r] > 0) \/ (k = "todo" /\ r \in torecover)

OnWorker(k, i, r, c) ==
  /\ k = "worker" /\ c = TRUE /\ i \in Workers
  /\ worker[i].row = r
  /\ worker[i].pc \in {"claim", "read", "run"} \/ (worker[i].pc = "persist" /\ Fenced(i))

OnCarrier(k, i, r, c) ==
  /\ k = "carrier" /\ i \in Carriers
  /\ carrier[i].row = r /\ carrier[i].counted = c
  /\ carrier[i].pc \in Carrying \/ (i = "recq" /\ carrier[i].pc = "reset")

At(k, i, r, c) == \/ OnLane(k, i, r, c) \/ OnTable(k, i, r, c) \/ OnList(k, i, r, c)
                  \/ OnWorker(k, i, r, c) \/ OnCarrier(k, i, r, c)

Nowhere(r) == \A k, i, c : ~At(k, i, r, c)

-----------------------------------------------------------------------------
(* The invariant, row by row                                                 *)

OneAt(r) == \A k, i, c, l, j, d : At(k, i, r, c) /\ At(l, j, r, d) => k = l /\ i = j /\ c = d

\* A row that has ended, or has not begun, is nowhere.
EndedAt(r) == status[r] \in Terminal \cup {"absent"} => Nowhere(r)

\* A worker about to write an outcome: the row is in its round, or in a later
\* one, or reset in the same round with that round still to be counted.
SameRound(w, r) == worker[w].rep = repeat[r] /\ worker[w].rpr = reprocess[r]
Writes(w, r)    == worker[w].row = r /\ worker[w].pc = "persist"

StaleAt(r) == \A w \in Workers : Writes(w, r) =>
  /\ status[r] # "absent" /\ worker[w].rep <= repeat[r] /\ worker[w].rpr <= reprocess[r]
  /\ SameRound(w, r) /\ status[r] = "pending" => r \in Polled /\ \A k, i : ~At(k, i, r, TRUE)

ActiveAt(r) == \A w \in Workers : worker[w].row = r =>
  /\ worker[w].pc = "read" => status[r] = "processing"
  /\ worker[w].pc = "run" => Fenced(w)

\* A copy whose round is not counted leaves room for it below the limit.
CountAt(r) ==
  /\ r \notin Polled \/ status[r] = "absent" => repeat[r] = 0
  /\ RepeatLimit > 0 /\ r \in Polled =>
       /\ repeat[r] <= RepeatLimit + forgot[r]
       /\ (\E k, i : At(k, i, r, FALSE)) => repeat[r] + 1 <= RepeatLimit + forgot[r]

RowInv(r) == OneAt(r) /\ EndedAt(r) /\ StaleAt(r) /\ ActiveAt(r) /\ CountAt(r)

\* No lane and no table holds a row twice.
NoDup(q)  == \A i, j \in 1..Len(q) : q[i] = q[j] => i = j
NoTwin(t) == \A i, j \in 1..Len(t) : t[i].row = t[j].row => i = j
Once == /\ NoDup(queue) /\ NoDup(fast) /\ NoTwin(spill) /\ NoTwin(draining)
        /\ \A r \in Rows : delayed[r] <= 1

\* What the carriers know of the copy they hold.
CarrierInv ==
  /\ carrier["retry"].pc = "idle" /\ carrier["urgent"].pc = "idle"
  /\ carrier["submit"].pc = "decide" => ~carrier["submit"].counted
  /\ carrier["errq"].pc # "idle" => carrier["errq"].counted
  /\ carrier["repq"].pc = "reset" => ~carrier["repq"].counted /\ carrier["repq"].row \in Polled
  /\ \A k \in Carriers : carrier[k].pc = "enqueue" /\ carrier[k].row \in Polled => carrier[k].counted

RowsInv  == \A r \in Rows : RowInv(r)
RoundInv == RowsInv /\ Once /\ CarrierInv

-----------------------------------------------------------------------------
(* Lanes and tables                                                          *)

\* Append adds its element and nothing else.
LEMMA AppendIn ==
  ASSUME NEW S, NEW q \in Seq(S), NEW x \in S
  PROVE  /\ \A r : InLane(Append(q, x), r) => InLane(q, r) \/ r = x
         /\ NoDup(q) /\ ~InLane(q, x) => NoDup(Append(q, x))
<1>1. /\ Len(q) \in Nat /\ Len(Append(q, x)) = Len(q) + 1
      /\ \A i \in 1..Len(Append(q, x)) : IF i = Len(q) + 1 THEN Append(q, x)[i] = x
                                         ELSE i \in 1..Len(q) /\ Append(q, x)[i] = q[i]
  OBVIOUS
<1>2. QED
  BY <1>1, Zenon DEF InLane, NoDup

\* What leaves at the head is not left behind.
LEMMA TailIn ==
  ASSUME NEW S, NEW q \in Seq(S), q # <<>>
  PROVE  /\ \A r : InLane(Tail(q), r) => InLane(q, r)
         /\ InLane(q, Head(q))
         /\ NoDup(q) => NoDup(Tail(q)) /\ ~InLane(Tail(q), Head(q))
<1>1. Len(q) \in Nat /\ Len(Tail(q)) = Len(q) - 1 /\ Head(q) = q[1] /\ Len(q) > 0
      /\ \A i \in 1..Len(Tail(q)) : Tail(q)[i] = q[i + 1]
  BY EmptySeq, HeadTailProperties
<1>2. 1 \in 1..Len(q) /\ \A i \in 1..Len(Tail(q)) : i + 1 \in 1..Len(q) /\ i + 1 # 1
  BY <1>1
<1>3. \A i, j \in 1..Len(Tail(q)) : i + 1 = j + 1 => i = j
  BY <1>1
<1>4. QED
  BY <1>1, <1>2, <1>3, Zenon DEF InLane, NoDup

\* The same of tables.
LEMMA TableTailIn ==
  ASSUME NEW t \in Seq(Copy), t # <<>>
  PROVE  /\ \A r, c : Listed(Tail(t), r, c) => Listed(t, r, c)
         /\ Listed(t, Head(t).row, Head(t).counted)
         /\ NoTwin(t) => NoTwin(Tail(t)) /\ \A c : ~Listed(Tail(t), Head(t).row, c)
<1>1. Len(t) \in Nat /\ Len(Tail(t)) = Len(t) - 1 /\ Head(t) = t[1] /\ Len(t) > 0
      /\ \A i \in 1..Len(Tail(t)) : Tail(t)[i] = t[i + 1]
  BY EmptySeq, HeadTailProperties
<1>2. 1 \in 1..Len(t) /\ \A i \in 1..Len(Tail(t)) : i + 1 \in 1..Len(t) /\ i + 1 # 1
  BY <1>1
<1>3. \A i, j \in 1..Len(Tail(t)) : i + 1 = j + 1 => i = j
  BY <1>1
<1>4. (\A r, c : Listed(Tail(t), r, c) => Listed(t, r, c)) /\ Listed(t, Head(t).row, Head(t).counted)
  BY <1>1, <1>2, Zenon DEF Listed
<1>5. ASSUME NoTwin(t)
      PROVE  NoTwin(Tail(t)) /\ \A c : ~Listed(Tail(t), Head(t).row, c)
  <2>1. ASSUME NEW i \in 1..Len(Tail(t)), NEW j \in 1..Len(Tail(t)),
               Tail(t)[i].row = Tail(t)[j].row
        PROVE  i = j
    <3>1. i + 1 \in 1..Len(t) /\ j + 1 \in 1..Len(t) /\ t[i + 1].row = t[j + 1].row
      BY <1>1, <1>2, <2>1
    <3>2. QED
      BY <1>3, <1>5, <3>1 DEF NoTwin
  <2>2. \A i \in 1..Len(Tail(t)) : Tail(t)[i].row # Head(t).row
    BY <1>1, <1>2, <1>5, Zenon DEF NoTwin
  <2>3. QED
    BY <2>1, <2>2, Zenon DEF Listed, NoTwin
<1>6. QED
  BY <1>4, <1>5

\* spillTask adds the copy unless one of its row is there already.
LEMMA SpilledIn ==
  ASSUME SpillType, NEW c \in Copy
  PROVE  /\ \A r, d : Listed(Spilled(c), r, d) => Listed(spill, r, d) \/ (r = c.row /\ d = c.counted)
         /\ NoTwin(spill) => NoTwin(Spilled(c))
<1>1. CASE InTable(spill, c.row)
  BY <1>1 DEF Spilled, InTable
<1>2. CASE ~InTable(spill, c.row)
  <2>1. Spilled(c) = Append(spill, c) /\ spill \in Seq(Copy)
    BY <1>2 DEF Spilled, InTable, SpillType
  <2>2. /\ Len(spill) \in Nat /\ Len(Append(spill, c)) = Len(spill) + 1
        /\ \A i \in 1..Len(Append(spill, c)) :
             IF i = Len(spill) + 1 THEN Append(spill, c)[i] = c
             ELSE i \in 1..Len(spill) /\ Append(spill, c)[i] = spill[i]
    BY <2>1
  <2>3. \A i \in 1..Len(spill) : spill[i].row # c.row
    BY <1>2 DEF InTable
  <2>4. \A r, d : Listed(Append(spill, c), r, d) => Listed(spill, r, d) \/ (r = c.row /\ d = c.counted)
    BY <2>2, Zenon DEF Listed
  <2>5. NoTwin(spill) => NoTwin(Append(spill, c))
    BY <2>2, <2>3, Zenon DEF NoTwin
  <2>6. QED
    BY <2>1, <2>4, <2>5
<1>3. QED
  BY <1>1, <1>2

\* A table put behind another one.
LEMMA ConcatIn ==
  ASSUME NEW t \in Seq(Copy), NEW u \in Seq(Copy)
  PROVE  /\ \A r, c : Listed(t \o u, r, c) => Listed(t, r, c) \/ Listed(u, r, c)
         /\ NoTwin(t) /\ NoTwin(u) /\ (\A r \in Rows : ~(InTable(t, r) /\ InTable(u, r)))
              => NoTwin(t \o u)
<1>1. /\ Len(t) \in Nat /\ Len(u) \in Nat /\ Len(t \o u) = Len(t) + Len(u)
      /\ \A i \in 1..Len(t \o u) : IF i <= Len(t) THEN (t \o u)[i] = t[i]
                                   ELSE (t \o u)[i] = u[i - Len(t)]
  OBVIOUS
<1>2. \A i \in 1..Len(t \o u) : IF i <= Len(t) THEN i \in 1..Len(t) ELSE i - Len(t) \in 1..Len(u)
  BY <1>1
<1>3. \A i, j \in 1..Len(t \o u) : i - Len(t) = j - Len(t) => i = j
  BY <1>1
<1>4. \A r, c : Listed(t \o u, r, c) => Listed(t, r, c) \/ Listed(u, r, c)
  BY <1>1, <1>2, Zenon DEF Listed
<1>5. (\A i \in 1..Len(t) : t[i].row \in Rows) /\ (\A i \in 1..Len(u) : u[i].row \in Rows)
  <2>1. (\A i \in 1..Len(t) : t[i] \in Copy) /\ (\A i \in 1..Len(u) : u[i] \in Copy)
    OBVIOUS
  <2>2. QED
    BY <2>1 DEF Copy
<1>6. ASSUME NoTwin(t), NoTwin(u), \A r \in Rows : ~(InTable(t, r) /\ InTable(u, r)),
             NEW i \in 1..Len(t \o u), NEW j \in 1..Len(t \o u), (t \o u)[i].row = (t \o u)[j].row
      PROVE  i = j
  <2>1. CASE i <= Len(t) /\ j <= Len(t)
    BY <1>1, <1>2, <1>6, <2>1, Zenon DEF NoTwin
  <2>2. CASE ~(i <= Len(t)) /\ ~(j <= Len(t))
    <3>1. /\ i - Len(t) \in 1..Len(u) /\ (t \o u)[i] = u[i - Len(t)]
          /\ j - Len(t) \in 1..Len(u) /\ (t \o u)[j] = u[j - Len(t)]
      BY <1>1, <1>2, <2>2, Zenon
    <3>2. i - Len(t) = j - Len(t)
      BY <1>6, <3>1, Zenon DEF NoTwin
    <3>3. QED
      BY <1>3, <3>2
  <2>3. \A m \in 1..Len(t), n \in 1..Len(u) : t[m].row # u[n].row
    BY <1>5, <1>6, Zenon DEF InTable
  <2>4. CASE i <= Len(t) /\ ~(j <= Len(t))
    BY <1>1, <1>2, <1>6, <2>3, <2>4, Zenon
  <2>5. CASE ~(i <= Len(t)) /\ j <= Len(t)
    BY <1>1, <1>2, <1>6, <2>3, <2>5, Zenon
  <2>6. QED
    BY <2>1, <2>2, <2>4, <2>5
<1>7. QED
  BY <1>4, <1>6, Zenon DEF NoTwin

\* A listed copy is in the table, and the other way round.
LEMMA ListedIn ==
  ASSUME NEW t \in Seq(Copy), NEW r
  PROVE  InTable(t, r) <=> \E c : Listed(t, r, c)
  BY Zenon DEF InTable, Listed

-----------------------------------------------------------------------------
(* What a step does to the copies of a row                                   *)

\* No place holds a copy of the row that did not hold it before ...
Fewer(r) == \A k, i, c : At(k, i, r, c)' => At(k, i, r, c)

\* ... or one place only.
Only(r, k, i, c) == \A l, j, d : At(l, j, r, d)' => l = k /\ j = i /\ d = c

LEMMA OnlyOne ==
  ASSUME NEW r, NEW k, NEW i, NEW c, Only(r, k, i, c)
  PROVE  OneAt(r)'
  BY DEF OneAt, Only

\* The columns that make the round of a row stay as they are.
Still(r) == status'[r] = status[r] /\ repeat'[r] = repeat[r] /\ reprocess'[r] = reprocess[r]

\* No worker begins to read, run or write the row.
NoBegin(r) == \A w \in Workers : worker'[w].row = r =>
  worker'[w] = worker[w] \/ worker'[w].pc \in {"gate", "ready", "claim"}

\* A row that is left alone keeps what is said of it, with fewer copies ...
LEMMA RowStays ==
  ASSUME NEW r \in Rows, RowInv(r), Still(r), NoBegin(r), Fewer(r), forgot'[r] = forgot[r]
  PROVE  RowInv(r)'
<1>1. OneAt(r)'
  BY DEF RowInv, OneAt, Fewer
<1>2. EndedAt(r)'
  BY DEF RowInv, EndedAt, Nowhere, Fewer, Still
<1>3. StaleAt(r)'
  BY DEF RowInv, StaleAt, Writes, SameRound, NoBegin, Fewer, Still
<1>4. ActiveAt(r)'
  BY DEF RowInv, ActiveAt, NoBegin, Fenced, Still
<1>5. CountAt(r)'
  BY DEF RowInv, CountAt, Fewer, Still
<1>6. QED
  BY <1>1, <1>2, <1>3, <1>4, <1>5 DEF RowInv

\* ... or with its copy in another place.
LEMMA RowMoves ==
  ASSUME NEW r \in Rows, RowInv(r), Still(r), NoBegin(r), forgot'[r] = forgot[r],
         NEW k, NEW i, NEW c, Only(r, k, i, c),
         NEW l, NEW j, NEW d, At(l, j, r, d), r \in Polled => d = c
  PROVE  RowInv(r)'
<1>1. OneAt(r)'
  BY DEF OneAt, Only
<1>2. EndedAt(r)'
  BY DEF RowInv, EndedAt, Nowhere, Still
<1>3. StaleAt(r)'
  BY DEF RowInv, StaleAt, Writes, SameRound, NoBegin, Only, Still
<1>4. ActiveAt(r)'
  BY DEF RowInv, ActiveAt, NoBegin, Fenced, Still
<1>5. CountAt(r)'
  BY DEF RowInv, CountAt, Only, Still
<1>6. QED
  BY <1>1, <1>2, <1>3, <1>4, <1>5 DEF RowInv

\* The places that are not workers or carriers.
Stored(k, i, r, c) == OnLane(k, i, r, c) \/ OnTable(k, i, r, c) \/ OnList(k, i, r, c)

\* Lanes, tables and lists that do not change hold no more.
LEMMA StoredFrame ==
  ASSUME NEW r
  PROVE  /\ UNCHANGED lanes => \A k, i, c : OnLane(k, i, r, c)' => OnLane(k, i, r, c)
         /\ UNCHANGED spills => \A k, i, c : OnTable(k, i, r, c)' => OnTable(k, i, r, c)
         /\ UNCHANGED <<delayed, torecover>> => \A k, i, c : OnList(k, i, r, c)' => OnList(k, i, r, c)
<1>1. UNCHANGED lanes => \A k, i, c : OnLane(k, i, r, c)' => OnLane(k, i, r, c)
  BY DEF OnLane, InLane
<1>2. UNCHANGED spills => \A k, i, c : OnTable(k, i, r, c)' => OnTable(k, i, r, c)
  BY DEF OnTable, Listed
<1>3. UNCHANGED <<delayed, torecover>> => \A k, i, c : OnList(k, i, r, c)' => OnList(k, i, r, c)
  BY DEF OnList
<1>4. QED
  BY <1>1, <1>2, <1>3

\* The carriers, queues and operators make no worker the holder of a row.
LEMMA WorkersHold ==
  ASSUME Parked, worker' = worker, NEW r \in Rows
  PROVE  (\A k, i, c : OnWorker(k, i, r, c)' => OnWorker(k, i, r, c)) /\ NoBegin(r)
  BY DEF Parked, Same, OnWorker, Fenced, NoBegin

\* Only one carrier makes a step.
OneStep(k) == \A j \in Carriers \ {k} : carrier'[j] = carrier[j]

\* What a carrier holds.
Carries(k, r, c) ==
  /\ carrier[k].row = r /\ carrier[k].counted = c
  /\ carrier[k].pc \in Carrying \/ (k = "recq" /\ carrier[k].pc = "reset")

\* A step of one carrier: the others hold what they held.
LEMMA CarriersHold ==
  ASSUME NEW k \in Carriers, OneStep(k), NEW r
  PROVE  \A l, i, c : OnCarrier(l, i, r, c)' =>
           \/ OnCarrier(l, i, r, c) /\ i # k
           \/ l = "carrier" /\ i = k /\ Carries(k, r, c)'
<1>1. ASSUME NEW l, NEW i, NEW c, OnCarrier(l, i, r, c)', i # k
      PROVE  OnCarrier(l, i, r, c)
  BY <1>1 DEF OnCarrier, OneStep
<1>2. QED
  BY <1>1 DEF OnCarrier, Carries

\* The copy leaves the place s of the row, for the place t ...
LeavesTo(r, s, t, i, c) == \A l, h, e :
  Stored(l, h, r, e)' => (Stored(l, h, r, e) /\ l # s) \/ (l = t /\ h = i /\ e = c)

\* ... which is the carrier k only if that one holds it.
LandsAt(k, r, t, i, c) == \A e : Carries(k, r, e)' => t = "carrier" /\ i = k /\ e = c

\* A carrier that ends up without a copy takes nothing away from the others ...
LEMMA CarrierDrops ==
  ASSUME NEW k \in Carriers, OneStep(k),
         Parked, worker' = worker, NEW r \in Rows,
         \A l, i, c : Stored(l, i, r, c)' => Stored(l, i, r, c),
         \A c : Carries(k, r, c)' => Carries(k, r, c)
  PROVE  Fewer(r) /\ NoBegin(r)
<1>1. \A l, i, c : OnWorker(l, i, r, c)' => OnWorker(l, i, r, c)
  BY WorkersHold
<1>2. \A l, i, c : OnCarrier(l, i, r, c)' => OnCarrier(l, i, r, c)
  BY CarriersHold DEF OnCarrier, Carries
<1>3. QED
  BY <1>1, <1>2, WorkersHold DEF Fewer, At, Stored

\* ... and one that takes a copy from a place, or puts one there, moves it.
LEMMA CarrierMoves ==
  ASSUME NEW k \in Carriers, OneStep(k),
         Parked, worker' = worker, NEW r \in Rows, OneAt(r),
         NEW s, NEW j, NEW d, At(s, j, r, d), j = k \/ s # "carrier",
         NEW t, NEW i, NEW c, s # "worker",
         LeavesTo(r, s, t, i, c), LandsAt(k, r, t, i, c)
  PROVE  Only(r, t, i, c) /\ NoBegin(r)
<1>1. \A l, h, e : OnWorker(l, h, r, e)' => OnWorker(l, h, r, e)
  BY WorkersHold
<1>2. \A l, h, e : OnWorker(l, h, r, e) => l = "worker"
  BY DEF OnWorker
<1>3. \A l, h, e : OnCarrier(l, h, r, e)' =>
        (OnCarrier(l, h, r, e) /\ h # k) \/ (l = t /\ h = i /\ e = c)
  BY CarriersHold DEF LandsAt
<1>4. \A l, h, e : OnCarrier(l, h, r, e) => l = "carrier"
  BY DEF OnCarrier
<1>5. ASSUME NEW l, NEW h, NEW e, At(l, h, r, e)', ~(l = t /\ h = i /\ e = c)
      PROVE  At(l, h, r, e) /\ ~(l = s /\ h = j)
  <2>1. CASE Stored(l, h, r, e)'
    BY <1>5, <2>1 DEF At, Stored, LeavesTo
  <2>2. CASE OnWorker(l, h, r, e)'
    BY <1>1, <1>2, <2>2 DEF At
  <2>3. CASE OnCarrier(l, h, r, e)'
    BY <1>3, <1>4, <1>5, <2>3 DEF At
  <2>4. QED
    BY <1>5, <2>1, <2>2, <2>3 DEF At, Stored
<1>6. QED
  BY <1>5, WorkersHold DEF OneAt, Only

\* One that makes a copy of a row that is nowhere.
LEMMA CarrierBegins ==
  ASSUME NEW k \in Carriers, OneStep(k),
         Parked, worker' = worker, NEW r \in Rows, Nowhere(r),
         \A l, h, e : Stored(l, h, r, e)' => Stored(l, h, r, e),
         NEW c, \A e : Carries(k, r, e)' => e = c
  PROVE  Only(r, "carrier", k, c) /\ NoBegin(r)
<1>1. \A l, h, e : OnWorker(l, h, r, e)' => OnWorker(l, h, r, e)
  BY WorkersHold
<1>2. \A l, h, e : OnCarrier(l, h, r, e)' =>
        OnCarrier(l, h, r, e) \/ (l = "carrier" /\ h = k /\ e = c)
  BY CarriersHold
<1>3. QED
  BY <1>1, <1>2, WorkersHold DEF At, Stored, Nowhere, Only

\* What Hold, Step and Release leave in the carrier.
LEMMA CarrierHas ==
  ASSUME CarrierType, NEW k \in Carriers, NEW pc, NEW c, NEW was
  PROVE  /\ Hold(k, pc, c, was) => /\ carrier'[k].pc = pc /\ carrier'[k].row = c.row
                                  /\ carrier'[k].counted = c.counted
         /\ Step(k, pc) => /\ carrier'[k].pc = pc /\ carrier'[k].row = carrier[k].row
                          /\ carrier'[k].counted = carrier[k].counted
         /\ Release(k) => carrier'[k].pc \in {"idle", "loop"}
         /\ Hold(k, pc, c, was) \/ Step(k, pc) \/ Release(k) =>
              OneStep(k)
<1>1. Hold(k, pc, c, was) => /\ carrier'[k].pc = pc /\ carrier'[k].row = c.row
                           /\ carrier'[k].counted = c.counted
  BY DEF Hold, CarrierType
<1>2. Step(k, pc) => /\ carrier'[k].pc = pc /\ carrier'[k].row = carrier[k].row
                   /\ carrier'[k].counted = carrier[k].counted
  BY DEF Step, CarrierType, CarrierState
<1>3. Release(k) => carrier'[k].pc \in {"idle", "loop"}
  BY DEF Release, CarrierType, Idle
<1>4. QED
  BY <1>1, <1>2, <1>3, OneCarrier DEF OneStep

-----------------------------------------------------------------------------
(* A row begins, is reset, or ends                                           *)

\* A row that was nowhere becomes pending, with one copy.
LEMMA RowBegins ==
  ASSUME TypeInv, NEW r \in Rows, RowInv(r), status[r] \in Terminal \cup {"absent"},
         NEW k, NEW i, NEW c, Only(r, k, i, c), NoBegin(r), forgot'[r] = forgot[r],
         status'[r] = "pending", repeat'[r] = repeat[r],
         reprocess'[r] = reprocess[r] \/ reprocess'[r] = reprocess[r] + 1,
         status[r] = "absent" \/ reprocess'[r] = reprocess[r] + 1 \/ (r \in Polled /\ c = FALSE),
         c = TRUE \/ status[r] = "absent" \/ RepeatLimit = 0 \/ repeat[r] < RepeatLimit
  PROVE  RowInv(r)'
<1>1. repeat[r] \in Nat /\ reprocess[r] \in Nat /\ forgot[r] \in Nat /\ RepeatLimit \in Nat
  BY EngineAssumption DEF TypeInv, RowType, LifeType
<1>2. OneAt(r)' /\ EndedAt(r)'
  BY DEF OneAt, EndedAt, Only, Terminal
<1>3. StaleAt(r)'
  <2> SUFFICES ASSUME NEW w \in Workers, Writes(w, r)'
               PROVE  /\ worker'[w].rep <= repeat'[r] /\ worker'[w].rpr <= reprocess'[r]
                      /\ SameRound(w, r)' => r \in Polled /\ \A l, j : ~At(l, j, r, TRUE)'
    BY DEF StaleAt
  <2>1. worker'[w] = worker[w] /\ Writes(w, r)
    BY DEF NoBegin, Writes
  <2>2. /\ status[r] # "absent" /\ worker[w].rep <= repeat[r] /\ worker[w].rpr <= reprocess[r]
    BY <2>1 DEF RowInv, StaleAt
  <2>3. worker[w].rpr \in Nat
    BY DEF TypeInv, WorkerType, WorkerState
  <2>4. CASE reprocess'[r] = reprocess[r] + 1
    <3>1. worker[w].rpr <= reprocess[r] + 1 /\ worker[w].rpr # reprocess[r] + 1
      BY <1>1, <2>2, <2>3
    <3>2. QED
      BY <2>1, <2>2, <2>4, <3>1 DEF SameRound
  <2>5. CASE reprocess'[r] = reprocess[r] /\ r \in Polled /\ c = FALSE
    BY <2>1, <2>2, <2>5 DEF Only
  <2>6. QED
    BY <2>2, <2>4, <2>5
<1>4. ActiveAt(r)'
  BY DEF RowInv, ActiveAt, Fenced, NoBegin, Terminal
<1>5. CountAt(r)'
  <2>1. r \notin Polled => repeat'[r] = 0
    BY DEF RowInv, CountAt
  <2>2. ASSUME RepeatLimit > 0, r \in Polled
        PROVE  /\ repeat'[r] <= RepeatLimit + forgot[r]
               /\ c = TRUE \/ repeat'[r] + 1 <= RepeatLimit + forgot[r]
    BY <1>1, <2>2 DEF RowInv, CountAt
  <2>3. QED
    BY <2>1, <2>2 DEF CountAt, Only
<1>6. QED
  BY <1>2, <1>3, <1>4, <1>5 DEF RowInv

\* An orphan or a pending row is reset by the carrier that holds its copy.
LEMMA RowResets ==
  ASSUME NEW r \in Rows, RowInv(r), NEW k, NEW i, NEW c, k # "worker",
         At(k, i, r, c), Only(r, k, i, c), NoBegin(r), forgot'[r] = forgot[r],
         status[r] \in {"pending", "processing"}, status'[r] = "pending",
         repeat'[r] = repeat[r], reprocess'[r] = reprocess[r]
  PROVE  RowInv(r)'
<1>1. \A w \in Workers : \A d : ~OnWorker("worker", w, r, d)
  BY DEF RowInv, OneAt, At
<1>2. OneAt(r)' /\ EndedAt(r)' /\ CountAt(r)'
  <2>1. OneAt(r)' /\ EndedAt(r)'
    BY DEF OneAt, EndedAt, Only, Terminal
  <2>2. (\E l, j : At(l, j, r, FALSE)') => \E l, j : At(l, j, r, FALSE)
    BY DEF Only
  <2>3. CountAt(r)'
    BY <2>2 DEF RowInv, CountAt
  <2>4. QED
    BY <2>1, <2>3
<1>3. ActiveAt(r)'
  BY <1>1 DEF ActiveAt, NoBegin, OnWorker
<1>4. StaleAt(r)'
  <2> SUFFICES ASSUME NEW w \in Workers, Writes(w, r)'
               PROVE  /\ worker'[w].rep <= repeat'[r] /\ worker'[w].rpr <= reprocess'[r]
                      /\ SameRound(w, r)' => r \in Polled /\ \A l, j : ~At(l, j, r, TRUE)'
    BY DEF StaleAt
  <2>1. worker'[w] = worker[w] /\ Writes(w, r)
    BY DEF NoBegin, Writes
  <2>2. ~Fenced(w)
    BY <1>1, <2>1 DEF OnWorker, Writes
  <2>3. SameRound(w, r) => status[r] = "pending"
    BY <2>1, <2>2 DEF Fenced, SameRound, Writes
  <2>4. QED
    BY <2>1, <2>3 DEF RowInv, StaleAt, SameRound, Only
<1>5. QED
  BY <1>2, <1>3, <1>4 DEF RowInv

\* A row ends or is deleted, in the round it is in.
LEMMA RowEnds ==
  ASSUME NEW r \in Rows, RowInv(r), Fewer(r), forgot'[r] = forgot[r],
         status'[r] \in Terminal \cup {"gone"}, status'[r] \in Terminal => Nowhere(r)',
         repeat'[r] = repeat[r], reprocess'[r] = reprocess[r], status[r] # "absent",
         \A w \in Workers : worker'[w].row = r =>
           \/ worker'[w].pc \in {"gate", "ready", "claim"}
           \/ worker'[w] = worker[w] /\ worker[w].pc \notin {"read", "run"}
  PROVE  RowInv(r)'
<1>1. OneAt(r)' /\ EndedAt(r)' /\ CountAt(r)'
  <2>1. OneAt(r)'
    BY DEF RowInv, OneAt, Fewer
  <2>2. EndedAt(r)'
    BY DEF EndedAt, Terminal
  <2>3. CountAt(r)'
    BY DEF RowInv, CountAt, Fewer, Terminal
  <2>4. QED
    BY <2>1, <2>2, <2>3
<1>2. ActiveAt(r)'
  BY DEF ActiveAt
<1>3. StaleAt(r)'
  BY DEF RowInv, StaleAt, Writes, Terminal
<1>4. QED
  BY <1>1, <1>2, <1>3 DEF RowInv

-----------------------------------------------------------------------------
(* Submission and the delay heap                                             *)

\* A step of a carrier that leaves the round of every row alone but one.
LEMMA RowsLeft ==
  ASSUME RowsInv, NEW r, \A x \in Rows \ {r} : Still(x) /\ Fewer(x) /\ NoBegin(x),
         \A x \in Rows \ {r} : forgot'[x] = forgot[x], r \in Rows => RowInv(r)'
  PROVE  RowsInv'
  BY RowStays DEF RowsInv

\* The rows a carrier does not hold, before or after its step.
LEMMA OthersFewer ==
  ASSUME NEW k \in Carriers, OneStep(k),
         Parked, worker' = worker, NEW r,
         carrier'[k].row = r \/ carrier'[k].pc \in {"idle", "check", "loop"}
                          \/ (carrier'[k].pc = "reset" /\ k # "recq"),
         \A x \in Rows \ {r} : \A l, i, c : Stored(l, i, x, c)' => Stored(l, i, x, c)
  PROVE  \A x \in Rows \ {r} : Fewer(x) /\ NoBegin(x)
  BY CarrierDrops DEF Carries, Carrying

\* What an UPDATE does to its row, and to the others.
LEMMA UpdateHas ==
  ASSUME RowType, NEW r \in Rows, NEW hit \in BOOLEAN, NEW s, NEW dr \in Nat, NEW dp \in Nat,
         NEW u, Update(hit, r, s, dr, dp, u)
  PROVE  /\ \A x \in Rows \ {r} : Still(x)
         /\ hit => status'[r] = s /\ (dp = 1 => reprocess'[r] = reprocess[r] + 1)
         /\ (dr = 0 => repeat'[r] = repeat[r]) /\ (dp = 0 => reprocess'[r] = reprocess[r])
         /\ ~hit => Still(r)
<1>1. (\A x \in Rows \ {r} : Still(x)) /\ (~hit => Still(r)) /\ (hit => status'[r] = s)
  BY OneRow DEF Same, Still
<1>2. CASE hit
  <2>1. repeat'[r] = repeat[r] + dr /\ reprocess'[r] = reprocess[r] + dp
    BY <1>2 DEF Update, RowType
  <2>2. repeat[r] \in Nat /\ reprocess[r] \in Nat
    BY DEF RowType
  <2>3. QED
    BY <1>1, <2>1, <2>2
<1>3. CASE ~hit
  BY <1>1, <1>3 DEF Still
<1>4. QED
  BY <1>1, <1>2, <1>3

\* A new task: the first copy of its row.
LEMMA RowsSubmitNew ==
  ASSUME TypeInv, RoundInv, NEW r \in Rows, SubmitNew(r)
  PROVE  RowsInv'
<1>1. PICK u \in Marks : /\ Update(TRUE, r, "pending", 0, 0, u)
                        /\ Hold("submit", "decide", [row |-> r, counted |-> FALSE, urgent |-> u], 0)
  BY DEF SubmitNew
<1>copy. PICK c : c = [row |-> r, counted |-> FALSE, urgent |-> u]
  OBVIOUS
<1>2. /\ "submit" \in Carriers /\ status[r] = "absent"
      /\ UNCHANGED <<lanes, delayed, spills, worker, torecover, life>>
  BY DEF SubmitNew, Carriers
<1>3. /\ carrier'["submit"].row = r /\ carrier'["submit"].counted = FALSE
      /\ OneStep("submit")
  <2>1. c.row = r /\ c.counted = FALSE
    BY <1>copy
  <2>2. Hold("submit", "decide", c, 0) /\ CarrierType
    BY <1>1, <1>copy DEF TypeInv
  <2>3. carrier'["submit"].row = c.row /\ carrier'["submit"].counted = c.counted /\ OneStep("submit")
    BY <1>2, <2>2, CarrierHas
  <2>4. QED
    BY <2>1, <2>3
<1>4. Parked
  BY SubmitParks
<1>5. \A x \in Rows : \A l, h, e : Stored(l, h, x, e)' => Stored(l, h, x, e)
  BY <1>2, StoredFrame DEF Stored
<1>6. Nowhere(r) /\ RowInv(r)
  BY <1>2 DEF RoundInv, RowsInv, RowInv, EndedAt
<1>7. Only(r, "carrier", "submit", FALSE) /\ NoBegin(r)
  BY <1>2, <1>3, <1>4, <1>5, <1>6, CarrierBegins DEF Carries
<1>8. /\ status'[r] = "pending" /\ repeat'[r] = repeat[r] /\ reprocess'[r] = reprocess[r]
      /\ \A x \in Rows \ {r} : Still(x)
  BY <1>1, UpdateHas DEF TypeInv
<1>9. RowInv(r)'
  BY <1>2, <1>6, <1>7, <1>8, RowBegins
<1>10. QED
  BY <1>2, <1>3, <1>4, <1>5, <1>8, <1>9, OthersFewer, RowsLeft DEF RoundInv

\* A task whose INSERT has lost its answer is pending, and nowhere.
LEMMA RowsNewLost ==
  ASSUME TypeInv, RoundInv, NEW r \in Rows, SubmitNewLost(r)
  PROVE  RowsInv'
<1>1. PICK u : Update(TRUE, r, "pending", 0, 0, u)
  BY DEF SubmitNewLost
<1>2. /\ "submit" \in Carriers /\ status[r] = "absent" /\ forgot' = forgot
      /\ UNCHANGED <<lanes, delayed, spills, worker, carrier, torecover>>
  BY DEF SubmitNewLost, GiveUp, Carriers
<1>3. Parked
  BY SubmitParks
<1>4. OneStep("submit") /\ \A x, e : Carries("submit", x, e)' => Carries("submit", x, e)
  BY <1>2 DEF OneStep, Carries
<1>5. \A x \in Rows : \A l, h, e : Stored(l, h, x, e)' => Stored(l, h, x, e)
  BY <1>2, StoredFrame DEF Stored
<1>6. \A x \in Rows : Fewer(x) /\ NoBegin(x)
  BY <1>2, <1>3, <1>4, <1>5, CarrierDrops
<1>7. Nowhere(r) /\ RowInv(r)
  BY <1>2 DEF RoundInv, RowsInv, RowInv, EndedAt
<1>8. Only(r, "gone", NoRow, FALSE)
  BY <1>6, <1>7 DEF Fewer, Nowhere, Only
<1>9. /\ status'[r] = "pending" /\ repeat'[r] = repeat[r] /\ reprocess'[r] = reprocess[r]
      /\ \A x \in Rows \ {r} : Still(x)
  BY <1>1, UpdateHas DEF TypeInv
<1>10. RowInv(r)'
  BY <1>2, <1>6, <1>7, <1>8, <1>9, RowBegins
<1>11. QED
  BY <1>2, <1>6, <1>9, <1>10, RowsLeft DEF RoundInv

\* submitIfActive lets go of the copy, goes on with it, or delays it.
LEMMA RowsSubmitIfActive ==
  ASSUME TypeInv, RoundInv, SubmitIfActive
  PROVE  RowsInv'
<1>1. /\ "submit" \in Carriers /\ carrier["submit"].pc = "decide"
      /\ UNCHANGED <<row, lanes, spills, worker, torecover, life>>
  BY DEF SubmitIfActive, Carriers
<1>2. PICK r \in Rows : r = carrier["submit"].row
  BY <1>1 DEF TypeInv, CarrierType
<1>3. Parked
  BY SubmitParks
<1>4. \A x \in Rows : Still(x) /\ RowInv(x)
  BY <1>1 DEF Still, RoundInv, RowsInv
<1>5. CASE /\ UNCHANGED delayed
           /\ Release("submit") \/ Step("submit", "write")
  <2>1. \A x \in Rows : \A l, h, e : Stored(l, h, x, e)' => Stored(l, h, x, e)
    BY <1>1, <1>5, StoredFrame DEF Stored
  <2>2. /\ OneStep("submit")
        /\ \A x, e : Carries("submit", x, e)' => Carries("submit", x, e)
    BY <1>1, <1>5, CarrierHas DEF TypeInv, Carries, Carrying
  <2>3. \A x \in Rows : Fewer(x) /\ NoBegin(x)
    BY <1>1, <1>3, <2>1, <2>2, CarrierDrops
  <2>4. QED
    BY <1>1, <1>4, <2>3, RowStays DEF RowsInv
<1>6. CASE delayed' = [delayed EXCEPT ![r] = @ + 1] /\ Release("submit")
  <2>1. /\ OneStep("submit")
        /\ carrier'["submit"].pc \in {"idle", "loop"}
    BY <1>1, <1>6, CarrierHas DEF TypeInv
  <2>2. \A x \in Rows : \A l, h, e : OnList(l, h, x, e)' =>
          OnList(l, h, x, e) \/ (x = r /\ l = "delayed" /\ h = NoRow /\ e = FALSE)
    BY <1>1, <1>6 DEF OnList, TypeInv, LaneType
  <2>3. \A x \in Rows : \A l, h, e : Stored(l, h, x, e)' =>
          \/ Stored(l, h, x, e) /\ l # "carrier"
          \/ x = r /\ l = "delayed" /\ h = NoRow /\ e = FALSE
    BY <1>1, <2>2, StoredFrame DEF Stored, OnLane, OnTable, OnList
  <2>4. At("carrier", "submit", r, FALSE)
    BY <1>1, <1>2 DEF At, OnCarrier, Carrying, RoundInv, CarrierInv, TypeInv, CarrierType, CarrierState
  <2>5. Only(r, "delayed", NoRow, FALSE) /\ NoBegin(r)
    <3>1. LeavesTo(r, "carrier", "delayed", NoRow, FALSE)
      BY <2>3 DEF LeavesTo
    <3>2. LandsAt("submit", r, "delayed", NoRow, FALSE)
      BY <2>1 DEF Carries, Carrying, LandsAt
    <3>3. OneAt(r) /\ "carrier" # "worker"
      BY <1>4 DEF RowInv
    <3>4. QED
      BY <1>1, <1>3, <2>1, <2>4, <3>1, <3>2, <3>3, CarrierMoves
  <2>6. RowInv(r)'
    BY <1>1, <1>4, <2>4, <2>5, RowMoves
  <2>7. QED
    BY <1>1, <1>3, <1>4, <2>1, <2>3, <2>6, OthersFewer, RowsLeft DEF RoundInv
<1>7. QED
  BY <1>2, <1>5, <1>6 DEF SubmitIfActive

\* A delivery takes the copy out of the delay heap.
LEMMA RowsDeliver ==
  ASSUME TypeInv, RoundInv, NEW r \in Rows, DeliverDelayed(r)
  PROVE  RowsInv'
<1>1. /\ "delay" \in Carriers /\ carrier["delay"].pc = "idle" /\ delayed[r] > 0
      /\ delayed' = [delayed EXCEPT ![r] = @ - 1]
      /\ UNCHANGED <<row, lanes, spills, worker, torecover, life>>
  BY DEF DeliverDelayed, Carriers
<1>2. Parked
  BY SubmitParks
<1>3. \A x \in Rows : Still(x) /\ RowInv(x)
  BY <1>1 DEF Still, RoundInv, RowsInv
<1>4. \A x \in Rows : \A l, h, e : OnList(l, h, x, e)' => OnList(l, h, x, e) /\ (x = r => l # "delayed")
  <2>1. delayed \in [Rows -> Nat] /\ delayed[r] <= 1
    BY DEF TypeInv, LaneType, RoundInv, Once
  <2>2. ~(delayed'[r] > 0) /\ \A x \in Rows \ {r} : delayed'[x] = delayed[x]
    BY <1>1, <2>1
  <2>3. QED
    BY <1>1, <2>2 DEF OnList
<1>5. \A x \in Rows : \A l, h, e : Stored(l, h, x, e)' => Stored(l, h, x, e) /\ (x = r => l # "delayed")
  BY <1>1, <1>4, StoredFrame DEF Stored, OnLane, OnTable
<1>6. At("delayed", NoRow, r, FALSE)
  BY <1>1 DEF At, OnList
<1>7. CASE carrier' = carrier
  <2>1. \A x \in Rows : Fewer(x) /\ NoBegin(x)
    <3>1. OneStep("delay") /\ \A x, e : Carries("delay", x, e)' => Carries("delay", x, e)
      BY <1>7 DEF OneStep, Carries
    <3>2. QED
      BY <1>1, <1>2, <1>5, <3>1, CarrierDrops
  <2>2. QED
    BY <1>1, <1>3, <2>1, RowStays DEF RowsInv
<1>8. ASSUME NEW u \in Marks, NEW c, c = [row |-> r, counted |-> FALSE, urgent |-> u],
             Hold("delay", "write", c, 0)
      PROVE  RowsInv'
  <2>1. /\ OneStep("delay")
        /\ carrier'["delay"].row = r /\ carrier'["delay"].counted = FALSE
    <3>1. c.row = r /\ c.counted = FALSE
      BY <1>8
    <3>2. OneStep("delay") /\ carrier'["delay"].row = c.row /\ carrier'["delay"].counted = c.counted
      <4>1. Hold("delay", "write", c, 0) /\ CarrierType
        BY <1>8 DEF TypeInv
      <4>2. QED
        BY <1>1, <4>1, CarrierHas
    <3>3. QED
      BY <3>1, <3>2
  <2>2. Only(r, "carrier", "delay", FALSE) /\ NoBegin(r)
    <3>1. LeavesTo(r, "delayed", "carrier", "delay", FALSE)
      BY <1>5 DEF LeavesTo
    <3>2. LandsAt("delay", r, "carrier", "delay", FALSE)
      BY <2>1 DEF Carries, LandsAt
    <3>3. OneAt(r) /\ "delayed" # "worker" /\ "delayed" # "carrier"
      BY <1>3 DEF RowInv
    <3>4. QED
      BY <1>1, <1>2, <1>6, <2>1, <3>1, <3>2, <3>3, CarrierMoves
  <2>3. RowInv(r)'
    BY <1>1, <1>3, <1>6, <2>2, RowMoves
  <2>4. QED
    BY <1>1, <1>2, <1>3, <1>5, <2>1, <2>3, OthersFewer, RowsLeft DEF RoundInv
<1>9. QED
  BY <1>7, <1>8 DEF DeliverDelayed

-----------------------------------------------------------------------------
(* Into the pool                                                             *)

\* The carrier holds one copy of its row.
LEMMA CarrierAt ==
  ASSUME TypeInv, NEW k \in Carriers,
         carrier[k].pc \in Carrying \/ (k = "recq" /\ carrier[k].pc = "reset")
  PROVE  /\ carrier[k].row \in Rows /\ carrier[k].counted \in BOOLEAN
         /\ At("carrier", k, carrier[k].row, carrier[k].counted)
  BY DEF At, OnCarrier, TypeInv, CarrierType, CarrierState, Carrying

\* The round of a copy is counted.
LEMMA RowCounts ==
  ASSUME TypeInv, NEW r \in Rows, RowInv(r), r \in Polled, NEW k, At("carrier", k, r, FALSE),
         Only(r, "carrier", k, TRUE), NoBegin(r), forgot'[r] = forgot[r],
         status'[r] = status[r], reprocess'[r] = reprocess[r],
         IF status[r] = "pending" THEN repeat'[r] = repeat[r] + 1 ELSE repeat'[r] = repeat[r]
  PROVE  RowInv(r)'
<1>1. OneAt(r)' /\ EndedAt(r)'
  <2>1. OneAt(r)'
    BY OnlyOne
  <2>2. EndedAt(r)'
    BY DEF EndedAt, RowInv, Nowhere
  <2>3. QED
    BY <2>1, <2>2
<1>2. repeat[r] \in Nat
  BY DEF TypeInv, RowType
<1>3. StaleAt(r)'
  <2> SUFFICES ASSUME NEW w \in Workers, Writes(w, r)'
               PROVE  /\ worker'[w].rep <= repeat'[r] /\ worker'[w].rpr <= reprocess'[r]
                      /\ status'[r] # "absent"
                      /\ ~(SameRound(w, r)' /\ status'[r] = "pending")
    BY DEF StaleAt
  <2>1. worker'[w] = worker[w] /\ Writes(w, r)
    BY DEF NoBegin, Writes
  <2>2. /\ status[r] # "absent" /\ worker[w].rep <= repeat[r] /\ worker[w].rpr <= reprocess[r]
        /\ worker[w].rep \in Nat
    BY <2>1 DEF RowInv, StaleAt, TypeInv, WorkerType, WorkerState
  <2>3. worker[w].rep <= repeat[r] + 1 /\ worker[w].rep # repeat[r] + 1
    BY <1>2, <2>2
  <2>4. QED
    BY <2>1, <2>2, <2>3 DEF SameRound
<1>4. ActiveAt(r)'
  BY DEF RowInv, ActiveAt, NoBegin, Fenced
<1>5. CountAt(r)'
  <2>1. status[r] # "absent"
    BY DEF RowInv, EndedAt, Nowhere
  <2>2. RepeatLimit > 0 => repeat'[r] <= RepeatLimit + forgot[r]
    BY DEF RowInv, CountAt
  <2>3. QED
    BY <2>1, <2>2 DEF CountAt, Only
<1>6. QED
  BY <1>1, <1>3, <1>4, <1>5 DEF RowInv

\* submitToPool counts the round of a copy, if it is a polled one's first time.
LEMMA RowsWrite ==
  ASSUME TypeInv, RoundInv, NEW k \in Carriers, SubmitToPool(k)
  PROVE  RowsInv'
<1>1. /\ carrier[k].pc = "write"
      /\ UNCHANGED <<lanes, delayed, spills, worker, torecover, life>>
  BY DEF SubmitToPool
<1>2. PICK r \in Rows : r = carrier[k].row
  BY <1>1 DEF TypeInv, CarrierType
<1>3. PICK c \in BOOLEAN : c = carrier[k].counted
  BY DEF TypeInv, CarrierType, CarrierState
<1>4. PICK bump \in BOOLEAN : bump = (r \in Polled /\ ~c)
  OBVIOUS
<1>5. PICK hit \in BOOLEAN : hit = (status[r] = "pending")
  OBVIOUS
<1>6. /\ Update(hit, r, "pending", IF bump THEN 1 ELSE 0, 0, urgent[r])
      /\ carrier' = [carrier EXCEPT ![k].pc = "enqueue", ![k].counted = c \/ bump]
  BY <1>2, <1>3, <1>4, <1>5 DEF SubmitToPool
<1>7. /\ OneStep(k) /\ carrier'[k].row = r /\ carrier'[k].counted = (c \/ bump)
  BY <1>2, <1>6 DEF TypeInv, CarrierType, CarrierState, OneStep
<1>8. Parked
  BY SubmitParks
<1>9. RowInv(r) /\ At("carrier", k, r, c)
  BY <1>1, <1>2, <1>3, CarrierAt DEF RoundInv, RowsInv, Carrying
<1>10. \A x \in Rows : \A l, h, e : Stored(l, h, x, e)' => Stored(l, h, x, e) /\ l # "carrier"
  BY <1>1, StoredFrame DEF Stored, OnLane, OnTable, OnList
<1>11. Only(r, "carrier", k, c \/ bump) /\ NoBegin(r)
  <2>1. LeavesTo(r, "carrier", "carrier", k, c \/ bump)
    BY <1>10 DEF LeavesTo
  <2>2. LandsAt(k, r, "carrier", k, c \/ bump)
    BY <1>7 DEF LandsAt, Carries
  <2>3. OneAt(r) /\ "carrier" # "worker"
    BY <1>9 DEF RowInv
  <2>4. QED
    BY <1>1, <1>7, <1>8, <1>9, <2>1, <2>2, <2>3, CarrierMoves
<1>12. (\A x \in Rows \ {r} : Still(x)) /\ status'[r] = status[r] /\ reprocess'[r] = reprocess[r]
  <2>1. \A x \in Rows \ {r} : Still(x)
    BY <1>6, OneRow DEF TypeInv, Same, Still
  <2>2. status'[r] = status[r] /\ reprocess'[r] = reprocess[r]
    <3>1. CASE hit
      <4>1. /\ status' = [status EXCEPT ![r] = "pending"]
            /\ reprocess' = [reprocess EXCEPT ![r] = @ + 0]
        BY <1>6, <3>1 DEF Update
      <4>2. /\ status'[r] = "pending" /\ reprocess'[r] = reprocess[r] + 0
            /\ reprocess[r] \in Nat
        BY <4>1 DEF TypeInv, RowType
      <4>3. status[r] = "pending"
        BY <1>5, <3>1, Zenon
      <4>4. QED
        BY <4>2, <4>3
    <3>2. CASE ~hit
      BY <1>6, <3>2 DEF Update
    <3>3. QED
      BY <3>1, <3>2
  <2>3. QED
    BY <2>1, <2>2
<1>13. RowInv(r)'
  <2>1. CASE bump
    <3>1. r \in Polled /\ c = FALSE /\ (c \/ bump) = TRUE
      BY <1>4, <2>1
    <3>2. IF status[r] = "pending" THEN repeat'[r] = repeat[r] + 1 ELSE repeat'[r] = repeat[r]
      BY <1>5, <1>6, <2>1 DEF Update, TypeInv, RowType
    <3>3. QED
      BY <1>1, <1>9, <1>11, <1>12, <3>1, <3>2, RowCounts
  <2>2. CASE ~bump
    <3>1. (c \/ bump) = c
      BY <2>2
    <3>2. Still(r)
      BY <1>6, <1>12, <2>2 DEF Update, TypeInv, RowType, Still
    <3>3. QED
      BY <1>1, <1>9, <1>11, <3>1, <3>2, RowMoves
  <2>3. QED
    BY <2>1, <2>2
<1>14. QED
  BY <1>1, <1>7, <1>8, <1>10, <1>12, <1>13, OthersFewer, RowsLeft DEF RoundInv

\* A copy goes from its carrier to the spill table.
LEMMA SpillMoves ==
  ASSUME TypeInv, RoundInv, NEW k \in Carriers, Parked, carrier[k].pc \in {"write", "enqueue"},
         spill' = Spilled(CopyOf(k)), Release(k),
         UNCHANGED <<lanes, delayed, draining, worker, torecover>>,
         NEW r \in Rows, NEW c \in BOOLEAN, r = carrier[k].row, c = carrier[k].counted
  PROVE  /\ At("carrier", k, r, c) /\ Only(r, "spill", NoRow, c) /\ NoBegin(r)
         /\ \A x \in Rows \ {r} : Fewer(x) /\ NoBegin(x)
<1>1. RowInv(r) /\ At("carrier", k, r, c)
  BY CarrierAt DEF RoundInv, RowsInv, Carrying
<1>2. OneStep(k) /\ carrier'[k].pc \in {"idle", "loop"}
  BY CarrierHas DEF TypeInv
<1>3. \A x, e : Listed(spill', x, e) => Listed(spill, x, e) \/ (x = r /\ e = c)
  <2>1. CopyOf(k) \in Copy /\ CopyOf(k).row = r /\ CopyOf(k).counted = c
    BY SpilledType DEF TypeInv, CopyOf
  <2>2. QED
    BY <2>1, SpilledIn DEF TypeInv
<1>4. \A x \in Rows : \A l, h, e : Stored(l, h, x, e)' =>
        \/ Stored(l, h, x, e) /\ l # "carrier"
        \/ x = r /\ l = "spill" /\ h = NoRow /\ e = c
  <2>1. \A x, l, h, e : OnTable(l, h, x, e)' =>
          OnTable(l, h, x, e) \/ (x = r /\ l = "spill" /\ h = NoRow /\ e = c)
    <3>1. \A x, e : Listed(spill, x, e)' => Listed(spill, x, e) \/ (x = r /\ e = c)
      BY <1>3 DEF Listed
    <3>2. \A x, e : Listed(draining, x, e)' => Listed(draining, x, e)
      BY DEF Listed
    <3>3. QED
      BY <3>1, <3>2 DEF OnTable
  <2>2. QED
    BY <2>1, StoredFrame DEF Stored, OnLane, OnTable, OnList
<1>5. Only(r, "spill", NoRow, c) /\ NoBegin(r)
  <2>1. LeavesTo(r, "carrier", "spill", NoRow, c)
    BY <1>4 DEF LeavesTo
  <2>2. LandsAt(k, r, "spill", NoRow, c)
    BY <1>2 DEF LandsAt, Carries, Carrying
  <2>3. OneAt(r) /\ "carrier" # "worker"
    BY <1>1 DEF RowInv
  <2>4. QED
    BY <1>1, <1>2, <2>1, <2>2, <2>3, CarrierMoves
<1>6. QED
  BY <1>1, <1>2, <1>4, <1>5, OthersFewer

LEMMA RowsSpill ==
  ASSUME TypeInv, RoundInv, NEW k \in Carriers, Parked, carrier[k].pc \in {"write", "enqueue"},
         spill' = Spilled(CopyOf(k)), Release(k),
         UNCHANGED <<row, lanes, delayed, draining, worker, torecover, forgot>>
  PROVE  RowsInv'
<1>1. PICK r \in Rows, c \in BOOLEAN : r = carrier[k].row /\ c = carrier[k].counted
  BY DEF TypeInv, CarrierType, CarrierState
<1>2. /\ At("carrier", k, r, c) /\ Only(r, "spill", NoRow, c) /\ NoBegin(r)
      /\ \A x \in Rows \ {r} : Fewer(x) /\ NoBegin(x)
  BY <1>1, SpillMoves
<1>3. RowInv(r) /\ \A x \in Rows : Still(x)
  BY DEF Still, RoundInv, RowsInv
<1>4. RowInv(r)'
  BY <1>2, <1>3, RowMoves
<1>5. QED
  BY <1>2, <1>3, <1>4, RowsLeft DEF RoundInv

\* A round is counted and forgotten: the limit moves with it.
LEMMA RowForgets ==
  ASSUME TypeInv, NEW r \in Rows, RowInv(r), r \in Polled, NEW k, NEW i, At(k, i, r, FALSE),
         NEW l, NEW j, Only(r, l, j, FALSE), NoBegin(r), forgot'[r] = forgot[r] + 1,
         status[r] = "pending", status'[r] = "pending", reprocess'[r] = reprocess[r],
         repeat'[r] = repeat[r] + 1
  PROVE  RowInv(r)'
<1>1. OneAt(r)' /\ EndedAt(r)'
  BY OnlyOne DEF EndedAt, Terminal
<1>2. repeat[r] \in Nat /\ forgot[r] \in Nat /\ RepeatLimit \in Nat
  BY EngineAssumption DEF TypeInv, RowType, LifeType
<1>3. StaleAt(r)'
  <2> SUFFICES ASSUME NEW w \in Workers, Writes(w, r)'
               PROVE  /\ worker'[w].rep <= repeat'[r] /\ worker'[w].rpr <= reprocess'[r]
                      /\ ~SameRound(w, r)'
    BY DEF StaleAt
  <2>1. worker'[w] = worker[w] /\ Writes(w, r)
    BY DEF NoBegin, Writes
  <2>2. /\ worker[w].rep <= repeat[r] /\ worker[w].rpr <= reprocess[r]
        /\ worker[w].rep \in Nat
    BY <2>1 DEF RowInv, StaleAt, TypeInv, WorkerType, WorkerState
  <2>3. worker[w].rep <= repeat[r] + 1 /\ worker[w].rep # repeat[r] + 1
    BY <1>2, <2>2
  <2>4. QED
    BY <2>1, <2>2, <2>3 DEF SameRound
<1>4. ActiveAt(r)'
  BY DEF RowInv, ActiveAt, NoBegin, Fenced
<1>5. CountAt(r)'
  <2>1. RepeatLimit > 0 => repeat[r] + 1 <= RepeatLimit + forgot[r]
    BY DEF RowInv, CountAt
  <2>2. RepeatLimit > 0 => /\ repeat'[r] <= RepeatLimit + forgot'[r]
                           /\ repeat'[r] + 1 <= RepeatLimit + forgot'[r]
    BY <1>2, <2>1
  <2>3. QED
    BY <2>2 DEF CountAt
<1>6. QED
  BY <1>1, <1>3, <1>4, <1>5 DEF RowInv

\* The answer of the counting UPDATE is lost: the copy is spilled uncounted.
LEMMA RowsWriteLost ==
  ASSUME TypeInv, RoundInv, NEW k \in Carriers, SubmitToPoolLost(k)
  PROVE  RowsInv'
<1>1. PICK r \in Rows, c \in BOOLEAN : r = carrier[k].row /\ c = carrier[k].counted
  BY DEF SubmitToPoolLost, TypeInv, CarrierType, CarrierState
<1>2. PICK n \in {0, 1} : n = IF r \in Polled /\ ~c THEN 1 ELSE 0
  OBVIOUS
<1>3. /\ status[r] = "pending" /\ Update(TRUE, r, "pending", n, 0, urgent[r])
      /\ forgot' = [forgot EXCEPT ![r] = @ + n]
  BY <1>1, <1>2 DEF SubmitToPoolLost
<1>4. /\ At("carrier", k, r, c) /\ Only(r, "spill", NoRow, c) /\ NoBegin(r)
      /\ \A x \in Rows \ {r} : Fewer(x) /\ NoBegin(x)
  <2>1. /\ carrier[k].pc \in {"write", "enqueue"} /\ spill' = Spilled(CopyOf(k)) /\ Release(k)
        /\ UNCHANGED <<lanes, delayed, draining, worker, torecover>>
    BY DEF SubmitToPoolLost
  <2>2. QED
    BY <1>1, <2>1, SubmitParks, SpillMoves
<1>5. RowInv(r)
  BY DEF RoundInv, RowsInv
<1>6. \A x \in Rows \ {r} : Still(x) /\ forgot'[x] = forgot[x]
  BY <1>3, OneRow DEF Same, Still, TypeInv, LifeType
<1>7. /\ status'[r] = "pending" /\ reprocess'[r] = reprocess[r]
      /\ repeat'[r] = repeat[r] + n /\ forgot'[r] = forgot[r] + n
  BY <1>3 DEF Update, TypeInv, RowType, LifeType
<1>8. RowInv(r)'
  <2>1. CASE n = 1
    <3>1. r \in Polled /\ c = FALSE
      BY <1>2, <2>1
    <3>2. QED
      BY <1>3, <1>4, <1>5, <1>7, <2>1, <3>1, RowForgets
  <2>2. CASE n = 0
    <3>1. Still(r) /\ forgot'[r] = forgot[r]
      BY <1>3, <1>7, <2>2 DEF Still, TypeInv, RowType, LifeType
    <3>2. QED
      BY <1>4, <1>5, <3>1, RowMoves
  <2>3. QED
    BY <2>1, <2>2
<1>9. QED
  BY <1>4, <1>6, <1>8, RowsLeft DEF RoundInv

\* A copy goes from its carrier to a lane of the pool.
LEMMA RowsEnqueue ==
  ASSUME TypeInv, RoundInv, NEW k \in Carriers, Enqueue(k)
  PROVE  RowsInv'
<1>1. /\ carrier[k].pc = "enqueue" /\ Release(k)
      /\ UNCHANGED <<row, delayed, spills, worker, torecover, life>>
  BY DEF Enqueue
<1>2. PICK r \in Rows, c \in BOOLEAN : r = carrier[k].row /\ c = carrier[k].counted
  BY <1>1 DEF TypeInv, CarrierType, CarrierState
<1>3. RowInv(r) /\ At("carrier", k, r, c) /\ (r \in Polled => c = TRUE)
  BY <1>1, <1>2, CarrierAt DEF RoundInv, RowsInv, CarrierInv, Carrying
<1>4. OneStep(k) /\ carrier'[k].pc \in {"idle", "loop"} /\ Parked
  BY <1>1, CarrierHas, SubmitParks DEF TypeInv
<1>5. PICK lane \in {"queue", "fast"} :
        \A x \in Rows : \A l, h, e : OnLane(l, h, x, e)' =>
          OnLane(l, h, x, e) \/ (x = r /\ l = lane /\ h = NoRow /\ e = TRUE)
  <2>1. queue \in Seq(Rows) /\ fast \in Seq(Rows)
    BY DEF TypeInv, LaneType
  <2>2. CASE fast' = Append(fast, r) /\ queue' = queue
    <3>1. \A x : InLane(fast', x) => InLane(fast, x) \/ x = r
      BY <2>1, <2>2, AppendIn
    <3>2. QED
      BY <2>2, <3>1 DEF OnLane, InLane
  <2>3. CASE queue' = Append(queue, r) /\ fast' = fast
    <3>1. \A x : InLane(queue', x) => InLane(queue, x) \/ x = r
      BY <2>1, <2>3, AppendIn
    <3>2. QED
      BY <2>3, <3>1 DEF OnLane, InLane
  <2>4. QED
    BY <1>2, <2>2, <2>3 DEF Enqueue
<1>6. \A x \in Rows : \A l, h, e : Stored(l, h, x, e)' =>
        \/ Stored(l, h, x, e) /\ l # "carrier"
        \/ x = r /\ l = lane /\ h = NoRow /\ e = TRUE
  BY <1>1, <1>5, StoredFrame DEF Stored, OnLane, OnTable, OnList
<1>7. Only(r, lane, NoRow, TRUE) /\ NoBegin(r)
  <2>1. LeavesTo(r, "carrier", lane, NoRow, TRUE)
    BY <1>6 DEF LeavesTo
  <2>2. LandsAt(k, r, lane, NoRow, TRUE)
    BY <1>4 DEF LandsAt, Carries, Carrying
  <2>3. OneAt(r) /\ "carrier" # "worker"
    BY <1>3 DEF RowInv
  <2>4. QED
    BY <1>1, <1>3, <1>4, <2>1, <2>2, <2>3, CarrierMoves
<1>8. (\A x \in Rows : Still(x)) /\ forgot' = forgot
  BY DEF Still, Enqueue
<1>9. RowInv(r)'
  BY <1>3, <1>7, <1>8, RowMoves
<1>10. QED
  BY <1>1, <1>4, <1>6, <1>8, <1>9, OthersFewer, RowsLeft DEF RoundInv

\* A carrier lets go of its copy, or keeps it, and nothing else moves.
LEMMA RowsDrop ==
  ASSUME RoundInv, Parked, NEW k \in Carriers, OneStep(k), worker' = worker, forgot' = forgot,
         \A x \in Rows : \A l, h, e : Stored(l, h, x, e)' => Stored(l, h, x, e),
         \A x, e : Carries(k, x, e)' => Carries(k, x, e),
         \A x \in Rows : Still(x)
  PROVE  RowsInv'
<1>1. \A x \in Rows : Fewer(x) /\ NoBegin(x)
  BY CarrierDrops
<1>2. QED
  BY <1>1, RowStays DEF RowsInv, RoundInv

\* A stopped pool: the copy is spilled, or the error queue keeps it to fail its row.
LEMMA RowsRejected ==
  ASSUME TypeInv, RoundInv, NEW k \in Carriers,
         SubmitToPoolError(k) \/ EnqueueFull(k) \/ EnqueueRejected(k)
  PROVE  RowsInv'
<1>1. /\ carrier[k].pc \in {"write", "enqueue"}
      /\ UNCHANGED <<row, lanes, delayed, draining, worker, torecover, forgot>>
  BY DEF SubmitToPoolError, EnqueueFull, EnqueueRejected, GiveUp
<1>2. Parked
  BY SubmitParks
<1>3. CASE SubmitToPoolError(k) \/ EnqueueFull(k)
  BY <1>1, <1>2, <1>3, RowsSpill DEF SubmitToPoolError, EnqueueFull
<1>4. CASE EnqueueRejected(k) /\ k # "errq"
  <2>1. k \notin {"errq", "retry", "urgent"}
    BY <1>1, <1>4 DEF RoundInv, CarrierInv
  <2>2. spill' = Spilled(CopyOf(k)) /\ Release(k)
    BY <1>4, <2>1 DEF EnqueueRejected
  <2>3. QED
    BY <1>1, <1>2, <2>2, RowsSpill
<1>5. CASE EnqueueRejected(k) /\ k = "errq"
  <2>1. Step(k, "markfail") /\ spill' = spill /\ carrier[k].pc = "enqueue"
    BY <1>5 DEF EnqueueRejected
  <2>2. OneStep(k) /\ \A x, e : Carries(k, x, e)' => Carries(k, x, e)
    BY <2>1, CarrierHas DEF Carries, Carrying, TypeInv
  <2>3. \A x \in Rows : \A l, h, e : Stored(l, h, x, e)' => Stored(l, h, x, e)
    BY <1>1, <2>1, StoredFrame DEF Stored
  <2>4. \A x \in Rows : Still(x)
    BY <1>1 DEF Still
  <2>5. QED
    BY <1>1, <1>2, <2>2, <2>3, <2>4, RowsDrop
<1>6. QED
  BY <1>3, <1>4, <1>5

\* No place is called "gone".
LEMMA NoPlace ==
  ASSUME NEW r, NEW i, NEW c, Only(r, "gone", i, c)
  PROVE  Nowhere(r)'
<1>1. \A k, j, d : At(k, j, r, d)' => k # "gone"
  BY DEF At, OnLane, OnTable, OnList, OnWorker, OnCarrier
<1>2. QED
  BY <1>1 DEF Only, Nowhere

\* A row with a copy outside the workers is not under work.
LEMMA NoWork ==
  ASSUME NEW r, OneAt(r), NEW k, NEW i, NEW c, At(k, i, r, c), k # "worker"
  PROVE  \A w \in Workers : worker[w].row = r =>
           worker[w].pc \notin {"claim", "read", "run"} /\ ~(worker[w].pc = "persist" /\ Fenced(w))
<1>1. \A w, d : ~OnWorker("worker", w, r, d)
  BY DEF OneAt, At
<1>2. QED
  BY <1>1 DEF OnWorker

\* markRequeueFailed ends a row that is nowhere else.
LEMMA RowsMark ==
  ASSUME TypeInv, RoundInv, MarkRequeueFailed
  PROVE  RowsInv'
<1>1. /\ "errq" \in Carriers /\ carrier["errq"].pc = "markfail" /\ Release("errq")
      /\ UNCHANGED <<lanes, delayed, spills, worker, torecover, life>>
  BY DEF MarkRequeueFailed, Carriers
<1>2. PICK r \in Rows : r = carrier["errq"].row
  BY <1>1 DEF TypeInv, CarrierType
<1>3. PICK hit \in BOOLEAN : hit = (status[r] \notin {"absent", "gone", "failed"})
  OBVIOUS
<1>4. Update(hit, r, "failed", 0, 0, urgent[r])
  BY <1>2, <1>3 DEF MarkRequeueFailed, SetStatus
<1>5. PICK c : At("carrier", "errq", r, c)
  BY <1>1, <1>2, CarrierAt DEF Carrying
<1>6. OneStep("errq") /\ carrier'["errq"].pc \in {"idle", "loop"} /\ Parked
  BY <1>1, CarrierHas, SubmitParks DEF TypeInv
<1>7. \A x \in Rows : \A l, h, e : Stored(l, h, x, e)' => Stored(l, h, x, e) /\ l # "carrier"
  BY <1>1, StoredFrame DEF Stored, OnLane, OnTable, OnList
<1>8. \A x \in Rows : Fewer(x) /\ NoBegin(x)
  BY <1>1, <1>6, <1>7, CarrierDrops DEF Carries, Carrying
<1>9. RowInv(r) /\ OneAt(r)
  BY DEF RoundInv, RowsInv, RowInv
<1>10. /\ \A x \in Rows \ {r} : Still(x)
       /\ hit => status'[r] = "failed"
       /\ repeat'[r] = repeat[r] /\ reprocess'[r] = reprocess[r]
       /\ ~hit => Still(r)
  BY <1>4, UpdateHas DEF TypeInv
<1>11. RowInv(r)'
  <2>1. CASE hit
    <3>1. LeavesTo(r, "carrier", "gone", NoRow, c) /\ LandsAt("errq", r, "gone", NoRow, c)
      BY <1>6, <1>7 DEF LeavesTo, LandsAt, Carries, Carrying
    <3>2. Only(r, "gone", NoRow, c)
      <4>1. "carrier" # "worker"
        OBVIOUS
      <4>2. QED
        BY <1>1, <1>5, <1>6, <1>9, <3>1, <4>1, CarrierMoves
    <3>3. Nowhere(r)'
      BY <3>2, NoPlace
    <3>4. \A w \in Workers : worker[w].row = r => worker[w].pc \notin {"read", "run"}
      BY <1>5, <1>9, NoWork
    <3>5. status[r] # "absent" /\ status'[r] \in Terminal
      BY <1>5, <1>9, <1>10, <2>1 DEF RowInv, EndedAt, Nowhere, Terminal
    <3>6. QED
      BY <1>1, <1>8, <1>9, <1>10, <3>3, <3>4, <3>5, RowEnds
  <2>2. CASE ~hit
    BY <1>1, <1>8, <1>9, <1>10, <2>2, RowStays
  <2>3. QED
    BY <2>1, <2>2
<1>12. QED
  BY <1>1, <1>8, <1>10, <1>11, RowsLeft DEF RoundInv

-----------------------------------------------------------------------------
(* The governance queues                                                     *)

\* A SELECT reads a row; nothing is copied yet.
LEMMA RowsSelect ==
  ASSUME TypeInv, RoundInv, NEW r \in Rows, ErrorSelect(r) \/ RepeatSelect(r)
  PROVE  RowsInv'
<1>1. PICK k \in Carriers, s \in {Snapshot(r, c, urgent[r]) : c \in BOOLEAN} :
        /\ k # "recq" /\ Hold(k, "reset", s, 0)
        /\ UNCHANGED <<row, lanes, delayed, spills, worker, torecover, life>>
  BY DEF ErrorSelect, RepeatSelect, Carriers
<1>2. Parked
  BY QueuesPark
<1>3. OneStep(k) /\ \A x, e : Carries(k, x, e)' => Carries(k, x, e)
  BY <1>1, CarrierHas DEF Carries, Carrying, TypeInv
<1>4. \A x \in Rows : \A l, h, e : Stored(l, h, x, e)' => Stored(l, h, x, e)
  BY <1>1, StoredFrame DEF Stored
<1>5. \A x \in Rows : Still(x)
  BY <1>1 DEF Still
<1>6. QED
  BY <1>1, <1>2, <1>3, <1>4, <1>5, RowsDrop

\* The reset of a finished row makes the first copy of its new round.
LEMMA RowsReset ==
  ASSUME TypeInv, RoundInv, ErrorReset \/ RepeatReset
  PROVE  RowsInv'
<1>1. PICK k \in {"errq", "repq"} :
        (k = "errq" /\ ErrorReset) \/ (k = "repq" /\ RepeatReset)
  OBVIOUS
<1>2. /\ k \in Carriers /\ k # "recq" /\ carrier[k].pc = "reset"
      /\ UNCHANGED <<lanes, delayed, spills, worker, torecover, life>>
  BY <1>1 DEF ErrorReset, RepeatReset, Carriers
<1>3. PICK r \in Rows, c \in BOOLEAN : r = carrier[k].row /\ c = carrier[k].counted
  BY <1>2 DEF TypeInv, CarrierType, CarrierState
<1>4. PICK hit \in BOOLEAN, dp \in {0, 1}, pc \in {"write", "enqueue"} :
        /\ Update(hit, r, "pending", 0, dp, urgent[r])
        /\ IF hit THEN Step(k, pc) ELSE Release(k)
        /\ hit => status[r] \in Terminal
        /\ k = "errq" => dp = 1
        /\ k = "repq" => dp = 0 /\ (hit => RepeatLimit = 0 \/ repeat[r] < RepeatLimit)
  <2>1. CASE k = "errq"
    <3>1. PICK hit \in BOOLEAN : hit = (status[r] = "failed")
      OBVIOUS
    <3>2. /\ Update(hit, r, "pending", 0, 1, urgent[r])
          /\ IF hit THEN Step(k, "enqueue") ELSE Release(k)
      BY <1>1, <1>3, <2>1, <3>1 DEF ErrorReset
    <3>3. hit => status[r] \in Terminal
      BY <3>1 DEF Terminal
    <3>4. QED
      BY <2>1, <3>2, <3>3
  <2>2. CASE k = "repq"
    <3>1. PICK hit \in BOOLEAN :
            hit = (status[r] \in Terminal /\ (RepeatLimit = 0 \/ repeat[r] < RepeatLimit))
      OBVIOUS
    <3>2. /\ Update(hit, r, "pending", 0, 0, urgent[r])
          /\ IF hit THEN Step(k, "write") ELSE Release(k)
      BY <1>1, <1>3, <2>2, <3>1 DEF RepeatReset, SetStatus
    <3>3. QED
      BY <2>2, <3>1, <3>2
  <2>3. QED
    BY <2>1, <2>2
<1>5. Parked
  BY QueuesPark
<1>6. /\ OneStep(k)
      /\ hit => carrier'[k].row = r /\ carrier'[k].counted = c
      /\ ~hit => carrier'[k].pc \in {"idle", "loop"}
  BY <1>2, <1>3, <1>4, CarrierHas DEF TypeInv
<1>7. \A x \in Rows : \A l, h, e : Stored(l, h, x, e)' => Stored(l, h, x, e)
  BY <1>2, StoredFrame DEF Stored
<1>8. /\ \A x \in Rows \ {r} : Still(x)
      /\ hit => status'[r] = "pending" /\ (dp = 1 => reprocess'[r] = reprocess[r] + 1)
      /\ repeat'[r] = repeat[r] /\ (dp = 0 => reprocess'[r] = reprocess[r])
      /\ ~hit => Still(r)
  <2>1. dp \in Nat /\ 0 \in Nat
    OBVIOUS
  <2>2. PICK s, u : s = "pending" /\ Update(hit, r, s, 0, dp, u)
    BY <1>4
  <2>3. /\ \A x \in Rows \ {r} : Still(x)
        /\ hit => status'[r] = s /\ (dp = 1 => reprocess'[r] = reprocess[r] + 1)
        /\ (0 = 0 => repeat'[r] = repeat[r]) /\ (dp = 0 => reprocess'[r] = reprocess[r])
        /\ ~hit => Still(r)
    BY <2>1, <2>2, UpdateHas DEF TypeInv
  <2>4. QED
    BY <2>2, <2>3
<1>9. CASE hit
  <2>1. RowInv(r) /\ Nowhere(r)
    BY <1>4, <1>9 DEF RoundInv, RowsInv, RowInv, EndedAt
  <2>2. Only(r, "carrier", k, c) /\ NoBegin(r)
    BY <1>2, <1>5, <1>6, <1>7, <1>9, <2>1, CarrierBegins DEF Carries
  <2>3. RowInv(r)'
    <3>1. CASE k = "errq"
      <4>1. c = TRUE /\ reprocess'[r] = reprocess[r] + 1
        BY <1>2, <1>3, <1>4, <1>8, <1>9, <3>1 DEF RoundInv, CarrierInv
      <4>2. QED
        BY <1>2, <1>4, <1>8, <1>9, <2>1, <2>2, <4>1, RowBegins
    <3>2. CASE k = "repq" /\ r \in Polled
      <4>1. c = FALSE /\ reprocess'[r] = reprocess[r]
        BY <1>2, <1>3, <1>4, <1>8, <3>2 DEF RoundInv, CarrierInv
      <4>2. QED
        BY <1>2, <1>4, <1>8, <1>9, <2>1, <2>2, <3>2, <4>1, RowBegins
    <3>3. QED
      BY <1>1, <1>2, <1>3, <3>1, <3>2 DEF RoundInv, CarrierInv
  <2>4. QED
    BY <1>2, <1>5, <1>6, <1>7, <1>8, <1>9, <2>3, OthersFewer, RowsLeft DEF RoundInv
<1>10. CASE ~hit
  <2>1. \A x, e : Carries(k, x, e)' => Carries(k, x, e)
    BY <1>2, <1>6, <1>10 DEF Carries, Carrying
  <2>2. \A x \in Rows : Still(x)
    BY <1>8, <1>10
  <2>3. QED
    BY <1>2, <1>5, <1>6, <1>7, <2>1, <2>2, RowsDrop
<1>11. QED
  BY <1>9, <1>10

\* The startup pass takes its copy from its list.
LEMMA RowsRecover ==
  ASSUME TypeInv, RoundInv, NEW r \in Rows, RecoverVisit(r)
  PROVE  RowsInv'
<1>1. /\ "recq" \in Carriers /\ carrier["recq"].pc = "idle" /\ r \in torecover
      /\ torecover' = torecover \ {r}
      /\ UNCHANGED <<row, lanes, delayed, spills, worker, life>>
  BY DEF RecoverVisit, Carriers
<1>2. Parked
  BY QueuesPark
<1>3. \A x \in Rows : Still(x) /\ RowInv(x)
  BY <1>1 DEF Still, RoundInv, RowsInv
<1>4. \A x \in Rows : \A l, h, e : OnList(l, h, x, e)' => OnList(l, h, x, e) /\ (x = r => l # "todo")
  BY <1>1 DEF OnList
<1>5. \A x \in Rows : \A l, h, e : Stored(l, h, x, e)' => Stored(l, h, x, e) /\ (x = r => l # "todo")
  BY <1>1, <1>4, StoredFrame DEF Stored, OnLane, OnTable
<1>6. At("todo", NoRow, r, FALSE)
  BY <1>1 DEF At, OnList
<1>7. CASE carrier' = carrier
  <2>1. OneStep("recq") /\ \A x, e : Carries("recq", x, e)' => Carries("recq", x, e)
    BY <1>7 DEF OneStep, Carries
  <2>2. QED
    BY <1>1, <1>2, <1>3, <1>5, <2>1, RowsDrop
<1>8. CASE \E pc : Hold("recq", pc, Snapshot(r, FALSE, TRUE), 0)
  <2>1. PICK pc : Hold("recq", pc, Snapshot(r, FALSE, TRUE), 0)
    BY <1>8
  <2>2. OneStep("recq") /\ carrier'["recq"].row = r /\ carrier'["recq"].counted = FALSE
    <3>1. PICK c : c = Snapshot(r, FALSE, TRUE) /\ Hold("recq", pc, c, 0)
      BY <2>1
    <3>2. c.row = r /\ c.counted = FALSE
      BY <3>1 DEF Snapshot
    <3>3. OneStep("recq") /\ carrier'["recq"].row = c.row /\ carrier'["recq"].counted = c.counted
      <4>1. Hold("recq", pc, c, 0) /\ CarrierType
        BY <3>1 DEF TypeInv
      <4>2. QED
        BY <1>1, <4>1, CarrierHas
    <3>4. QED
      BY <3>2, <3>3
  <2>3. Only(r, "carrier", "recq", FALSE) /\ NoBegin(r)
    <3>1. LeavesTo(r, "todo", "carrier", "recq", FALSE)
      BY <1>5 DEF LeavesTo
    <3>2. LandsAt("recq", r, "carrier", "recq", FALSE)
      BY <2>2 DEF Carries, LandsAt
    <3>3. OneAt(r) /\ "todo" # "worker" /\ "todo" # "carrier"
      BY <1>3 DEF RowInv
    <3>4. QED
      BY <1>1, <1>2, <1>6, <2>2, <3>1, <3>2, <3>3, CarrierMoves
  <2>4. RowInv(r)'
    BY <1>1, <1>3, <1>6, <2>3, RowMoves
  <2>5. QED
    BY <1>1, <1>2, <1>3, <1>5, <2>2, <2>4, OthersFewer, RowsLeft DEF RoundInv
<1>9. QED
  BY <1>7, <1>8 DEF RecoverVisit

\* The orphan it reads is held by nobody, so its reset brings back one copy.
LEMMA RowsRecoverReset ==
  ASSUME TypeInv, RoundInv, RecoverReset
  PROVE  RowsInv'
<1>1. /\ "recq" \in Carriers /\ carrier["recq"].pc = "reset"
      /\ UNCHANGED <<lanes, delayed, spills, worker, torecover, life>>
  BY DEF RecoverReset, Carriers
<1>2. PICK r \in Rows, c \in BOOLEAN : r = carrier["recq"].row /\ c = carrier["recq"].counted
  BY <1>1 DEF TypeInv, CarrierType, CarrierState
<1>3. PICK hit \in BOOLEAN : hit = (status[r] \in {"pending", "processing"})
  <2>1. (status[r] \in {"pending", "processing"}) \in BOOLEAN
    OBVIOUS
  <2>2. QED
    BY <2>1, Zenon
<1>4. /\ Update(hit, r, "pending", 0, 0, urgent[r])
      /\ IF hit THEN Step("recq", Recovered(r)) ELSE Release("recq")
  BY <1>2, <1>3 DEF RecoverReset, SetStatus
<1>5. Parked
  BY QueuesPark
<1>6. RowInv(r) /\ OneAt(r) /\ At("carrier", "recq", r, c)
  BY <1>1, <1>2, CarrierAt DEF RoundInv, RowsInv, RowInv
<1>7. /\ OneStep("recq")
      /\ hit => carrier'["recq"].row = r /\ carrier'["recq"].counted = c
      /\ ~hit => carrier'["recq"].pc \in {"idle", "loop"}
  BY <1>1, <1>2, <1>4, CarrierHas DEF TypeInv
<1>8. \A x \in Rows : \A l, h, e : Stored(l, h, x, e)' => Stored(l, h, x, e) /\ l # "carrier"
  BY <1>1, StoredFrame DEF Stored, OnLane, OnTable, OnList
<1>9. /\ \A x \in Rows \ {r} : Still(x)
      /\ hit => status'[r] = "pending"
      /\ repeat'[r] = repeat[r] /\ reprocess'[r] = reprocess[r]
      /\ ~hit => Still(r)
  BY <1>4, UpdateHas DEF TypeInv
<1>10. CASE hit
  <2>1. LeavesTo(r, "carrier", "carrier", "recq", c) /\ LandsAt("recq", r, "carrier", "recq", c)
    BY <1>7, <1>8, <1>10 DEF LeavesTo, LandsAt, Carries
  <2>2. Only(r, "carrier", "recq", c) /\ NoBegin(r)
    <3>1. "carrier" # "worker"
      OBVIOUS
    <3>2. QED
      BY <1>1, <1>5, <1>6, <1>7, <2>1, <3>1, CarrierMoves
  <2>3. RowInv(r)'
    <3>1. "carrier" # "worker" /\ status[r] \in {"pending", "processing"} /\ forgot' = forgot
      BY <1>1, <1>3, <1>10, Zenon
    <3>2. QED
      BY <1>6, <1>9, <1>10, <2>2, <3>1, RowResets
  <2>4. QED
    BY <1>1, <1>5, <1>7, <1>8, <1>9, <1>10, <2>3, OthersFewer, RowsLeft DEF RoundInv
<1>11. CASE ~hit
  <2>1. \A x, e : Carries("recq", x, e)' => Carries("recq", x, e)
    BY <1>1, <1>7, <1>11 DEF Carries, Carrying
  <2>2. \A x \in Rows : Still(x)
    BY <1>9, <1>11
  <2>3. QED
    BY <1>1, <1>5, <1>7, <1>8, <2>1, <2>2, RowsDrop
<1>12. QED
  BY <1>10, <1>11

\* A reset that fails takes the copy of its carrier away, and so does the SELECT
\* of the startup pass with the rest of its list.
LEMMA RowsResetError ==
  ASSUME TypeInv, RoundInv, RecoverSelectError \/ \E k \in Carriers : ResetError(k)
  PROVE  RowsInv'
<1>1. PICK k \in Carriers : /\ RecoverSelectError /\ k = "recq"
                            \/ ResetError(k)
  BY DEF Carriers
<1>2. /\ UNCHANGED <<row, lanes, delayed, spills, worker, forgot>> /\ torecover' \subseteq torecover
      /\ carrier' = carrier \/ Release(k)
  BY <1>1 DEF RecoverSelectError, ResetError, GiveUp
<1>3. OneStep(k) /\ \A x, e : Carries(k, x, e)' => Carries(k, x, e)
  <2>1. CASE carrier' = carrier
    BY <2>1 DEF OneStep, Carries
  <2>2. CASE Release(k)
    BY <2>2, CarrierHas DEF TypeInv, Carries, Carrying
  <2>3. QED
    BY <1>2, <2>1, <2>2
<1>4. \A x \in Rows : \A l, h, e : Stored(l, h, x, e)' => Stored(l, h, x, e)
  BY <1>2, StoredFrame DEF Stored, OnList
<1>5. \A x \in Rows : Still(x)
  BY <1>2 DEF Still
<1>6. QED
  BY <1>2, <1>3, <1>4, <1>5, QueuesPark, RowsDrop

\* A reset whose answer is lost leaves a pending row that is nowhere.
LEMMA RowsResetLost ==
  ASSUME TypeInv, RoundInv, NEW k \in Carriers, ResetLost(k)
  PROVE  RowsInv'
<1>1. /\ carrier[k].pc = "reset" /\ Release(k) /\ forgot' = forgot
      /\ UNCHANGED <<lanes, delayed, spills, worker, torecover>>
  BY DEF ResetLost, GiveUp
<1>2. PICK r \in Rows, n \in {0, 1}, u \in BOOLEAN :
        r = carrier[k].row /\ Update(TRUE, r, "pending", 0, n, u)
  BY ResetLostWrites
<1>3. PICK c \in BOOLEAN : c = carrier[k].counted
  BY DEF TypeInv, CarrierType, CarrierState
<1>4. OneStep(k) /\ carrier'[k].pc \in {"idle", "loop"} /\ Parked
  BY <1>1, CarrierHas, QueuesPark DEF TypeInv
<1>5. \A x \in Rows : \A l, h, e : Stored(l, h, x, e)' => Stored(l, h, x, e) /\ l # "carrier"
  BY <1>1, StoredFrame DEF Stored, OnLane, OnTable, OnList
<1>6. \A x \in Rows : Fewer(x) /\ NoBegin(x)
  BY <1>1, <1>4, <1>5, CarrierDrops DEF Carries, Carrying
<1>7. RowInv(r) /\ OneAt(r)
  BY DEF RoundInv, RowsInv, RowInv
<1>8. /\ \A x \in Rows \ {r} : Still(x)
      /\ status'[r] = "pending" /\ repeat'[r] = repeat[r]
      /\ n = 0 => reprocess'[r] = reprocess[r]
      /\ n = 1 => reprocess'[r] = reprocess[r] + 1
  <2>1. n \in Nat /\ 0 \in Nat
    OBVIOUS
  <2>2. PICK s : s = "pending" /\ Update(TRUE, r, s, 0, n, u)
    BY <1>2
  <2>3. /\ \A x \in Rows \ {r} : Still(x)
        /\ status'[r] = s /\ (n = 1 => reprocess'[r] = reprocess[r] + 1)
        /\ (0 = 0 => repeat'[r] = repeat[r]) /\ (n = 0 => reprocess'[r] = reprocess[r])
    BY <2>1, <2>2, UpdateHas DEF TypeInv
  <2>4. QED
    BY <2>2, <2>3
<1>9. RowInv(r)'
  <2>1. CASE k \in {"errq", "repq"}
    <3>1. status[r] \in Terminal
      BY <1>2, <2>1 DEF ResetLost, Terminal
    <3>2. Nowhere(r)'
      BY <1>6, <1>7, <3>1 DEF RowInv, EndedAt, Nowhere, Fewer
    <3>3. CASE k = "errq"
      <4>1. Only(r, "gone", NoRow, TRUE)
        BY <3>2 DEF Nowhere, Only
      <4>2. reprocess'[r] = reprocess[r] + 1
        BY <1>2, <3>3 DEF ResetLost, Update, TypeInv, RowType
      <4>3. QED
        BY <1>1, <1>6, <1>7, <1>8, <3>1, <4>1, <4>2, RowBegins
    <3>4. CASE k = "repq"
      <4>1. Only(r, "gone", NoRow, FALSE) /\ r \in Polled
        BY <1>1, <1>2, <3>2, <3>4 DEF Nowhere, Only, RoundInv, CarrierInv
      <4>2. RepeatLimit = 0 \/ repeat[r] < RepeatLimit
        BY <1>2, <3>4 DEF ResetLost
      <4>3. reprocess'[r] = reprocess[r] \/ reprocess'[r] = reprocess[r] + 1
        BY <1>8
      <4>4. QED
        BY <1>1, <1>6, <1>7, <1>8, <3>1, <4>1, <4>2, <4>3, RowBegins
    <3>5. QED
      BY <2>1, <3>3, <3>4
  <2>2. CASE k = "recq"
    <3>1. At("carrier", k, r, c)
      BY <1>1, <1>2, <1>3, <2>2, CarrierAt
    <3>2. "carrier" # "worker"
      OBVIOUS
    <3>3. Nowhere(r)'
      <4>1. LeavesTo(r, "carrier", "gone", NoRow, c) /\ LandsAt(k, r, "gone", NoRow, c)
        BY <1>4, <1>5 DEF LeavesTo, LandsAt, Carries, Carrying
      <4>2. Only(r, "gone", NoRow, c)
        BY <1>1, <1>4, <1>7, <3>1, <3>2, <4>1, CarrierMoves
      <4>3. QED
        BY <4>2, NoPlace
    <3>4. Only(r, "carrier", k, c)
      BY <3>3 DEF Nowhere, Only
    <3>5. status[r] \in {"pending", "processing"} /\ reprocess'[r] = reprocess[r]
      BY <1>2, <2>2 DEF ResetLost, SetStatus, Update, TypeInv, RowType
    <3>6. QED
      BY <1>1, <1>6, <1>7, <1>8, <3>1, <3>2, <3>4, <3>5, RowResets
  <2>3. k \in {"errq", "repq", "recq"}
    BY <1>1 DEF ResetLost, RoundInv, CarrierInv
  <2>4. QED
    BY <2>1, <2>2, <2>3
<1>10. QED
  BY <1>1, <1>6, <1>8, <1>9, RowsLeft DEF RoundInv

-----------------------------------------------------------------------------
(* The drain                                                                 *)

\* Every copy of one table goes to the other one.
LEMMA TablesMove ==
  ASSUME RoundInv, Parked, worker' = worker, forgot' = forgot,
         NEW s \in {"spill", "draining"}, NEW t \in {"spill", "draining"},
         OneStep("drain"), \A x, e : ~Carries("drain", x, e)',
         \A x \in Rows : Still(x),
         UNCHANGED <<lanes, delayed, torecover>>,
         \A x \in Rows : \A l, h, e : OnTable(l, h, x, e)' =>
           h = NoRow /\ l = t /\ l # s /\ (OnTable(s, h, x, e) \/ OnTable(t, h, x, e))
  PROVE  RowsInv'
<1>1. "drain" \in Carriers
  BY DEF Carriers
<1>2. ASSUME NEW x \in Rows, NEW l, NEW h, NEW e, At(l, h, x, e)'
      PROVE  \/ At(l, h, x, e) /\ l # s
             \/ l = t /\ h = NoRow /\ At(s, NoRow, x, e)
  <2>1. CASE OnLane(l, h, x, e)' \/ OnList(l, h, x, e)'
    BY <2>1, StoredFrame DEF At, OnLane, OnList
  <2>2. CASE OnTable(l, h, x, e)'
    BY <2>2 DEF At
  <2>3. CASE OnWorker(l, h, x, e)'
    BY <2>3, WorkersHold DEF At, OnWorker
  <2>4. CASE OnCarrier(l, h, x, e)'
    BY <1>1, <2>4, CarriersHold DEF At, OnCarrier
  <2>5. QED
    BY <1>2, <2>1, <2>2, <2>3, <2>4 DEF At
<1>3. ASSUME NEW x \in Rows
      PROVE  RowInv(x)'
  <2>1. RowInv(x) /\ Still(x) /\ NoBegin(x)
    BY <1>3, WorkersHold DEF RoundInv, RowsInv
  <2>2. CASE \E e : At(s, NoRow, x, e)
    <3>1. PICK e : At(s, NoRow, x, e)
      BY <2>2
    <3>2. Only(x, t, NoRow, e)
      BY <1>2, <2>1, <3>1 DEF Only, RowInv, OneAt
    <3>3. QED
      BY <2>1, <3>1, <3>2, RowMoves
  <2>3. CASE ~ \E e : At(s, NoRow, x, e)
    <3>1. Fewer(x)
      BY <1>2, <2>3 DEF Fewer
    <3>2. QED
      BY <2>1, <3>1, RowStays
  <2>4. QED
    BY <2>2, <2>3
<1>4. QED
  BY <1>3 DEF RowsInv

\* The table is swapped out, put back, or left for the loop.
LEMMA RowsSwap ==
  ASSUME TypeInv, RoundInv, DrainSwap \/ DrainPaused \/ DrainOpen
  PROVE  RowsInv'
<1>1. /\ "drain" \in Carriers
      /\ UNCHANGED <<row, lanes, delayed, worker, torecover, life>>
  BY DEF DrainSwap, DrainPaused, DrainOpen, Carriers
<1>2. Parked /\ \A x \in Rows : Still(x)
  BY <1>1, QueuesPark DEF Still
<1>3. OneStep("drain") /\ carrier'["drain"].pc \in {"check", "loop", "idle"}
  <2>1. CASE DrainSwap \/ DrainOpen
    BY <1>1, <2>1, CarrierHas DEF DrainSwap, DrainOpen, TypeInv
  <2>2. CASE DrainPaused
    BY <1>1, <2>2 DEF DrainPaused, TypeInv, CarrierType, Idle, OneStep
  <2>3. QED
    BY <2>1, <2>2
<1>4. \A x, e : ~Carries("drain", x, e)'
  BY <1>3 DEF Carries, Carrying
<1>5. CASE DrainSwap
  <2>1. spill' = <<>> /\ draining' = spill
    BY <1>5 DEF DrainSwap
  <2>2. \A x \in Rows : \A e : ~Listed(spill, x, e)' /\ (Listed(draining, x, e)' => Listed(spill, x, e))
    BY <2>1 DEF Listed
  <2>3. \A x \in Rows : \A l, h, e : OnTable(l, h, x, e)' =>
          h = NoRow /\ l = "draining" /\ l # "spill"
          /\ (OnTable("spill", h, x, e) \/ OnTable("draining", h, x, e))
    BY <2>2 DEF OnTable
  <2>4. QED
    BY <1>1, <1>2, <1>3, <1>4, <2>3, TablesMove
<1>6. CASE DrainPaused
  <2>1. spill' = spill \o draining /\ draining' = <<>> /\ spill \in Seq(Copy) /\ draining \in Seq(Copy)
    BY <1>6 DEF DrainPaused, TypeInv, SpillType
  <2>2. \A x, e : Listed(spill \o draining, x, e) => Listed(spill, x, e) \/ Listed(draining, x, e)
    BY <2>1, ConcatIn
  <2>3. \A x \in Rows : \A e : ~Listed(draining, x, e)' /\ (Listed(spill, x, e)' => Listed(spill \o draining, x, e))
    BY <2>1 DEF Listed
  <2>4. \A x \in Rows : \A l, h, e : OnTable(l, h, x, e)' =>
          h = NoRow /\ l = "spill" /\ l # "draining"
          /\ (OnTable("draining", h, x, e) \/ OnTable("spill", h, x, e))
    BY <2>2, <2>3 DEF OnTable
  <2>5. QED
    BY <1>1, <1>2, <1>3, <1>4, <2>4, TablesMove
<1>7. CASE DrainOpen
  <2>1. spill' = spill /\ draining' = draining
    BY <1>7 DEF DrainOpen
  <2>2. \A x \in Rows : \A l, h, e : Stored(l, h, x, e)' => Stored(l, h, x, e)
    BY <1>1, <2>1, StoredFrame DEF Stored
  <2>3. QED
    BY <1>1, <1>2, <1>3, <1>4, <2>2, RowsDrop
<1>8. QED
  BY <1>5, <1>6, <1>7

\* The next copy of the table goes on, is dropped, or back into the spill table.
LEMMA RowsDrain ==
  ASSUME TypeInv, RoundInv, DrainNext \/ DrainRereadError
  PROVE  RowsInv'
<1>1. /\ "drain" \in Carriers /\ carrier["drain"].pc = "loop"
      /\ draining # <<>> /\ draining \in Seq(Copy) /\ draining' = Tail(draining)
      /\ UNCHANGED <<row, lanes, delayed, worker, torecover, life>>
  BY DEF DrainNext, DrainRereadError, TypeInv, CarrierType, SpillType, Carriers
<1>2. PICK c \in Copy : c = Head(draining)
  BY <1>1, HeadTailProperties
<1>3. PICK r \in Rows, f \in BOOLEAN : r = c.row /\ f = c.counted
  BY DEF Copy
<1>4. /\ \A x, e : Listed(draining, x, e)' => Listed(draining, x, e) /\ x # r
      /\ Listed(draining, r, f)
  <2>1. NoTwin(draining)
    BY DEF RoundInv, Once
  <2>2. /\ \A x, e : Listed(Tail(draining), x, e) => Listed(draining, x, e)
        /\ Listed(draining, r, f)
        /\ \A e : ~Listed(Tail(draining), r, e)
    BY <1>1, <1>2, <1>3, <2>1, TableTailIn
  <2>3. \A x, e : Listed(draining, x, e)' => Listed(Tail(draining), x, e)
    BY <1>1 DEF Listed
  <2>4. QED
    BY <2>2, <2>3
<1>5. At("draining", NoRow, r, f)
  BY <1>4 DEF At, OnTable
<1>6. Parked /\ \A x \in Rows : Still(x) /\ RowInv(x)
  BY <1>1, QueuesPark DEF Still, RoundInv, RowsInv
<1>7. CASE DrainNext
  <2>1. spill' = spill
    BY <1>7 DEF DrainNext
  <2>2. \A x, l, h, e : OnTable(l, h, x, e)' => OnTable(l, h, x, e) /\ (x = r => l # "draining")
    <3>1. \A x, e : Listed(spill, x, e)' => Listed(spill, x, e)
      BY <2>1 DEF Listed
    <3>2. QED
      BY <1>4, <3>1 DEF OnTable
  <2>3. \A x \in Rows : \A l, h, e : Stored(l, h, x, e)' => Stored(l, h, x, e) /\ (x = r => l # "draining")
    BY <1>1, <2>2, StoredFrame DEF Stored, OnLane, OnList
  <2>4. CASE Hold("drain", "write", c, 0)
    <3>1. OneStep("drain") /\ carrier'["drain"].row = r /\ carrier'["drain"].counted = f
      BY <1>1, <1>3, <2>4, CarrierHas DEF TypeInv
    <3>2. LeavesTo(r, "draining", "carrier", "drain", f) /\ LandsAt("drain", r, "carrier", "drain", f)
      BY <2>3, <3>1 DEF LeavesTo, LandsAt, Carries
    <3>3. OneAt(r) /\ "draining" # "worker" /\ "draining" # "carrier"
      BY <1>6 DEF RowInv
    <3>4. Only(r, "carrier", "drain", f) /\ NoBegin(r)
      BY <1>1, <1>5, <1>6, <3>1, <3>2, <3>3, CarrierMoves
    <3>5. RowInv(r)'
      BY <1>1, <1>5, <1>6, <3>4, RowMoves
    <3>6. \A x \in Rows \ {r} : Fewer(x) /\ NoBegin(x)
      <4>1. \A x \in Rows \ {r} : \A l, h, e : Stored(l, h, x, e)' => Stored(l, h, x, e)
        BY <2>3
      <4>2. /\ Parked /\ "drain" \in Carriers /\ worker' = worker /\ OneStep("drain")
            /\ carrier'["drain"].row = r
        BY <1>1, <1>6, <3>1
      <4>3. QED
        BY <4>1, <4>2, OthersFewer
    <3>7. QED
      BY <1>1, <1>6, <3>5, <3>6, RowsLeft DEF RoundInv
  <2>5. CASE carrier' = [carrier EXCEPT !["drain"] = IF Len(draining) > 1 THEN @ ELSE Idle]
    <3>1. OneStep("drain") /\ carrier'["drain"].pc \in {"idle", "loop"}
      BY <1>1, <2>5 DEF OneStep, TypeInv, CarrierType, Idle
    <3>2. \A x, e : Carries("drain", x, e)' => Carries("drain", x, e)
      BY <3>1 DEF Carries, Carrying
    <3>3. QED
      BY <1>1, <1>6, <2>3, <3>1, <3>2, RowsDrop
  <2>6. QED
    BY <1>2, <1>7, <2>4, <2>5 DEF DrainNext
<1>8. CASE DrainRereadError
  <2>1. /\ spill' = Spilled(c)
        /\ carrier' = [carrier EXCEPT !["drain"] = IF Len(draining) > 1 THEN @ ELSE Idle]
    BY <1>2, <1>8 DEF DrainRereadError
  <2>2. OneStep("drain") /\ carrier'["drain"].pc \in {"idle", "loop"}
    BY <1>1, <2>1 DEF OneStep, TypeInv, CarrierType, Idle
  <2>3. \A x, l, h, e : OnTable(l, h, x, e)' =>
          \/ OnTable(l, h, x, e) /\ (x = r => l # "draining")
          \/ x = r /\ l = "spill" /\ h = NoRow /\ e = f
    <3>1. \A x, e : Listed(Spilled(c), x, e) => Listed(spill, x, e) \/ (x = r /\ e = f)
      BY <1>3, SpilledIn DEF TypeInv
    <3>2. \A x, e : Listed(spill, x, e)' => Listed(Spilled(c), x, e)
      BY <2>1 DEF Listed
    <3>3. QED
      BY <1>4, <3>1, <3>2 DEF OnTable
  <2>4. \A x \in Rows : \A l, h, e : Stored(l, h, x, e)' =>
          \/ Stored(l, h, x, e) /\ (x = r => l # "draining")
          \/ x = r /\ l = "spill" /\ h = NoRow /\ e = f
    BY <1>1, <2>3, StoredFrame DEF Stored, OnLane, OnList
  <2>5. LeavesTo(r, "draining", "spill", NoRow, f) /\ LandsAt("drain", r, "spill", NoRow, f)
    BY <2>2, <2>4 DEF LeavesTo, LandsAt, Carries, Carrying
  <2>6. OneAt(r) /\ "draining" # "worker" /\ "draining" # "carrier"
    BY <1>6 DEF RowInv
  <2>7. Only(r, "spill", NoRow, f) /\ NoBegin(r)
    BY <1>1, <1>5, <1>6, <2>2, <2>5, <2>6, CarrierMoves
  <2>8. RowInv(r)'
    BY <1>1, <1>5, <1>6, <2>7, RowMoves
  <2>9. QED
    BY <1>1, <1>6, <2>2, <2>4, <2>8, OthersFewer, RowsLeft DEF RoundInv
<1>9. QED
  BY <1>7, <1>8

-----------------------------------------------------------------------------
(* Operators and the process                                                 *)

\* A step that neither moves a copy nor touches a round.
LEMMA RowsAsTheyAre ==
  ASSUME RoundInv, TypeInv, \A x \in Rows : Still(x), forgot' = forgot,
         UNCHANGED <<lanes, delayed, spills, worker, carrier, torecover>>
  PROVE  RowsInv'
<1>1. ASSUME NEW x \in Rows
      PROVE  Fewer(x) /\ NoBegin(x)
  <2>1. \A l, h, e : Stored(l, h, x, e)' => Stored(l, h, x, e)
    BY StoredFrame DEF Stored
  <2>2. \A l, h, e : OnWorker(l, h, x, e)' => OnWorker(l, h, x, e)
    BY <1>1 DEF OnWorker, Fenced, Still
  <2>3. \A l, h, e : OnCarrier(l, h, x, e)' => OnCarrier(l, h, x, e)
    BY DEF OnCarrier
  <2>4. QED
    BY <2>1, <2>2, <2>3 DEF Fewer, NoBegin, At, Stored
<1>2. QED
  BY <1>1, RowStays DEF RowsInv, RoundInv

\* Delete, the polling interval, pause and resume.
LEMMA RowsAdmin ==
  ASSUME TypeInv, RoundInv,
         \/ \E r \in Rows : DeleteTask(r) \/ SetTaskRepeatInterval(r)
         \/ Pause \/ Resume
  PROVE  RowsInv'
<1>1. CASE Pause \/ Resume
  BY <1>1, RowsAsTheyAre DEF Pause, Resume, Still
<1>2. ASSUME NEW r \in Rows, SetTaskRepeatInterval(r)
      PROVE  RowsInv'
  <2>1. PICK s : s = status[r] /\ Update(TRUE, r, s, 0, 0, urgent[r])
    BY <1>2 DEF SetTaskRepeatInterval, SetStatus
  <2>2. \A x \in Rows : Still(x)
    <3>1. /\ \A x \in Rows \ {r} : Still(x)
          /\ status'[r] = s /\ repeat'[r] = repeat[r] /\ reprocess'[r] = reprocess[r]
      BY <2>1, UpdateHas DEF TypeInv
    <3>2. QED
      BY <2>1, <3>1 DEF Still
  <2>3. QED
    BY <1>2, <2>2, RowsAsTheyAre DEF SetTaskRepeatInterval
<1>3. ASSUME NEW r \in Rows, DeleteTask(r)
      PROVE  RowsInv'
  <2>1. /\ status[r] \in {"pending"} \cup Terminal /\ status' = [status EXCEPT ![r] = "gone"]
        /\ UNCHANGED <<repeat, reprocess, lanes, delayed, spills, worker, carrier, torecover, life>>
    BY <1>3 DEF DeleteTask
  <2>2. (\A x \in Rows \ {r} : Still(x)) /\ status'[r] = "gone"
    BY <2>1 DEF Still, TypeInv, RowType
  <2>3. \A x \in Rows : Fewer(x) /\ NoBegin(x)
    <3>1. Parked /\ OneStep("errq") /\ \A x, e : Carries("errq", x, e)' => Carries("errq", x, e)
      BY <1>3, <2>1, AdminParks DEF OneStep, Carries
    <3>2. \A x \in Rows : \A l, h, e : Stored(l, h, x, e)' => Stored(l, h, x, e)
      BY <2>1, StoredFrame DEF Stored
    <3>3. "errq" \in Carriers
      BY DEF Carriers
    <3>4. QED
      BY <2>1, <3>1, <3>2, <3>3, CarrierDrops
  <2>4. \A w \in Workers : worker[w].row = r => worker[w].pc \notin {"read", "run"}
    BY <2>1 DEF RoundInv, RowsInv, RowInv, ActiveAt, Fenced, Terminal
  <2>5. RowInv(r)'
    <3>1. RowInv(r) /\ status[r] # "absent" /\ status'[r] \notin Terminal
      BY <2>1, <2>2 DEF RoundInv, RowsInv, Terminal
    <3>2. QED
      BY <2>1, <2>2, <2>3, <2>4, <3>1, RowEnds
  <2>6. QED
    BY <2>1, <2>2, <2>3, <2>5, RowsLeft DEF RoundInv
<1>4. QED
  BY <1>1, <1>2, <1>3

\* After a restart a row is on the list of the startup pass or nowhere, and the
\* round that list may count again is the one the restart allows for.
LEMMA RowsRestart ==
  ASSUME TypeInv, RoundInv, Restart
  PROVE  RowsInv'
<1>1. /\ forgot' = [r \in Rows |-> forgot[r] + 1] /\ queue' = <<>> /\ fast' = <<>>
      /\ delayed' = [r \in Rows |-> 0] /\ spill' = <<>> /\ draining' = <<>>
      /\ worker' = [w \in Workers |-> AtGate] /\ carrier' = [k \in Carriers |-> Idle]
      /\ torecover' = {r \in Rows : status[r] \in {"pending", "processing"}}
      /\ UNCHANGED <<status, repeat, reprocess>>
  BY DEF Restart
<1>2. PICK f : f = FALSE
  OBVIOUS
<1>3. \A r \in Rows : Only(r, "todo", NoRow, f) /\ (r \notin torecover' => Nowhere(r)')
  <2> SUFFICES ASSUME NEW r \in Rows, NEW k, NEW i, NEW c, At(k, i, r, c)'
               PROVE  k = "todo" /\ i = NoRow /\ c = f /\ r \in torecover'
    BY DEF Only, Nowhere
  <2>1. ~OnLane(k, i, r, c)' /\ ~OnTable(k, i, r, c)'
    BY <1>1 DEF OnLane, OnTable, InLane, Listed
  <2>2. ~OnWorker(k, i, r, c)' /\ ~OnCarrier(k, i, r, c)'
    BY <1>1 DEF OnWorker, OnCarrier, AtGate, Idle, Carrying
  <2>3. ~(delayed'[r] > 0)
    BY <1>1
  <2>4. QED
    BY <1>2, <2>1, <2>2, <2>3 DEF At, OnList
<1>4. ASSUME NEW r \in Rows
      PROVE  RowInv(r)'
  <2>1. OneAt(r)'
    BY <1>3, OnlyOne
  <2>2. EndedAt(r)'
    BY <1>1, <1>3 DEF EndedAt, Terminal
  <2>3. StaleAt(r)' /\ ActiveAt(r)'
    BY <1>1 DEF StaleAt, ActiveAt, Writes, AtGate
  <2>4. CountAt(r)'
    <3>1. /\ forgot[r] \in Nat /\ RepeatLimit \in Nat /\ repeat[r] \in Nat
          /\ repeat'[r] = repeat[r] /\ status'[r] = status[r]
      BY <1>1, EngineAssumption DEF TypeInv, RowType, LifeType
    <3>2. CountAt(r)
      BY DEF RoundInv, RowsInv, RowInv
    <3>3. RepeatLimit > 0 /\ r \in Polled =>
            /\ repeat'[r] <= RepeatLimit + forgot'[r]
            /\ repeat'[r] + 1 <= RepeatLimit + forgot'[r]
      BY <1>1, <3>1, <3>2 DEF CountAt
    <3>4. QED
      BY <3>1, <3>2, <3>3 DEF CountAt
  <2>5. QED
    BY <2>1, <2>2, <2>3, <2>4 DEF RowInv
<1>5. QED
  BY <1>4 DEF RowsInv

\* The idle reaper takes a pool away and leaves everything else as it is.
LEMMA RowsReap ==
  ASSUME TypeInv, RoundInv, Reap
  PROVE  RowsInv'
<1>1. UNCHANGED <<row, lanes, delayed, spills, carrier, torecover, forgot>>
  BY DEF Reap
<1>2. \A w \in Workers : Alike(w)
  BY ReapAlike
<1>3. \A w \in Workers : Fenced(w)' <=> Fenced(w)
  BY <1>1, <1>2 DEF Fenced, Alike
<1>4. ASSUME NEW r \in Rows
      PROVE  RowInv(r)'
  <2>1. Fewer(r)
    <3>1. \A l, h, e : Stored(l, h, r, e)' => Stored(l, h, r, e)
      BY <1>1, StoredFrame DEF Stored
    <3>2. \A l, h, e : OnWorker(l, h, r, e)' => OnWorker(l, h, r, e)
      BY <1>2, <1>3 DEF OnWorker, Alike
    <3>3. \A l, h, e : OnCarrier(l, h, r, e)' => OnCarrier(l, h, r, e)
      BY <1>1 DEF OnCarrier
    <3>4. QED
      BY <3>1, <3>2, <3>3 DEF Fewer, At, Stored
  <2>2. RowInv(r) /\ Still(r)
    BY <1>1 DEF RoundInv, RowsInv, Still
  <2>3. OneAt(r)' /\ EndedAt(r)'
    BY <2>1, <2>2 DEF RowInv, OneAt, EndedAt, Nowhere, Fewer, Still
  <2>4. StaleAt(r)'
    BY <1>2, <2>1, <2>2 DEF RowInv, StaleAt, Writes, SameRound, Alike, Fewer, Still
  <2>5. ActiveAt(r)'
    BY <1>2, <1>3, <2>2 DEF RowInv, ActiveAt, Alike, Still
  <2>6. CountAt(r)'
    BY <1>1, <2>1, <2>2 DEF RowInv, CountAt, Fewer, Still
  <2>7. QED
    BY <2>2, <2>3, <2>4, <2>5, <2>6 DEF RowInv
<1>5. QED
  BY <1>4 DEF RowsInv

-----------------------------------------------------------------------------
(* The workers                                                               *)

OneWorker(w) == \A v \in Workers \ {w} : worker'[v] = worker[v]

\* The other workers hold what they held, as long as no row is claimed.
LEMMA WorkersKeep ==
  ASSUME NEW w \in Workers, OneWorker(w), NEW x \in Rows,
         Still(x) \/ status'[x] # "processing"
  PROVE  \A l, i, c : OnWorker(l, i, x, c)' /\ i # w => OnWorker(l, i, x, c)
<1>1. ASSUME NEW l, NEW i, NEW c, OnWorker(l, i, x, c)', i # w
      PROVE  OnWorker(l, i, x, c)
  <2>1. l = "worker" /\ c = TRUE /\ i \in Workers /\ worker'[i] = worker[i]
    BY <1>1 DEF OnWorker, OneWorker
  <2>2. worker[i].row = x
    BY <1>1, <2>1 DEF OnWorker
  <2>3. CASE worker[i].pc \in {"claim", "read", "run"}
    BY <2>1, <2>2, <2>3 DEF OnWorker
  <2>4. CASE worker[i].pc = "persist" /\ Fenced(i)'
    BY <2>1, <2>2, <2>4 DEF OnWorker, Fenced, Still
  <2>5. QED
    BY <1>1, <2>1, <2>3, <2>4 DEF OnWorker
<1>2. QED
  BY <1>1

\* A worker that lets go of its row, or still is about to claim it.
LEMMA RowsIdle ==
  ASSUME RoundInv, NEW w \in Workers, OneWorker(w), \A x \in Rows : Still(x),
         forgot' = forgot, carrier' = carrier,
         \A x \in Rows : \A l, h, e : Stored(l, h, x, e)' => Stored(l, h, x, e),
         \/ worker'[w].pc \in {"gate", "ready"}
         \/ /\ worker'[w].pc = "claim" /\ worker[w].pc = "claim"
            /\ worker'[w].row = worker[w].row
  PROVE  RowsInv'
<1>1. ASSUME NEW x \in Rows
      PROVE  Fewer(x) /\ NoBegin(x)
  <2>1. ASSUME NEW l, NEW i, NEW c, OnWorker(l, i, x, c)'
        PROVE  OnWorker(l, i, x, c)
    <3>1. CASE i # w
      BY <2>1, <3>1, WorkersKeep
    <3>2. CASE i = w
      BY <2>1, <3>2 DEF OnWorker
    <3>3. QED
      BY <3>1, <3>2
  <2>2. \A l, i, c : OnCarrier(l, i, x, c)' => OnCarrier(l, i, x, c)
    BY DEF OnCarrier
  <2>3. NoBegin(x)
    BY DEF NoBegin, OneWorker
  <2>4. QED
    BY <1>1, <2>1, <2>2, <2>3 DEF Fewer, At, Stored
<1>2. QED
  BY <1>1, RowStays DEF RowsInv, RoundInv

\* A worker takes the first copy of a lane.
LEMMA RowsGrab ==
  ASSUME TypeInv, RoundInv, NEW w \in Workers, NEW lane \in {"queue", "fast"},
         NEW q \in Seq(Rows), q # <<>>, NoDup(q), Grab(w, Head(q)),
         worker[w].pc \in {"gate", "ready"},
         IF lane = "queue" THEN q = queue /\ queue' = Tail(q) /\ fast' = fast
                           ELSE q = fast /\ fast' = Tail(q) /\ queue' = queue,
         UNCHANGED <<row, delayed, spills, carrier, torecover, life>>
  PROVE  RowsInv'
<1>1. PICK r \in Rows : r = Head(q)
  BY HeadTailProperties
<1>2. /\ \A x : InLane(Tail(q), x) => InLane(q, x) /\ x # r
      /\ InLane(q, r)
  BY <1>1, TailIn
<1>3. \A x, l, h, e : OnLane(l, h, x, e)' => OnLane(l, h, x, e) /\ (x = r => l # lane)
  <2>1. CASE lane = "queue"
    <3>1. \A x : InLane(queue, x)' => InLane(queue, x) /\ x # r
      BY <1>2, <2>1 DEF InLane
    <3>2. \A x : InLane(fast, x)' => InLane(fast, x)
      BY <2>1 DEF InLane
    <3>3. QED
      BY <2>1, <3>1, <3>2 DEF OnLane
  <2>2. CASE lane = "fast"
    <3>1. \A x : InLane(fast, x)' => InLane(fast, x) /\ x # r
      BY <1>2, <2>2 DEF InLane
    <3>2. \A x : InLane(queue, x)' => InLane(queue, x)
      BY <2>2 DEF InLane
    <3>3. QED
      BY <2>2, <3>1, <3>2 DEF OnLane
  <2>3. QED
    BY <2>1, <2>2
<1>4. PICK t : t = TRUE
  OBVIOUS
<1>5. At(lane, NoRow, r, t)
  BY <1>2, <1>4 DEF At, OnLane
<1>6. \A x \in Rows : Still(x) /\ RowInv(x)
  BY DEF Still, RoundInv, RowsInv
<1>7. /\ OneWorker(w) /\ worker'[w].pc = "claim" /\ worker'[w].row = r
  BY <1>1 DEF Grab, OneWorker, AtGate, TypeInv, WorkerType
<1>8. ASSUME NEW x \in Rows, NEW l, NEW h, NEW e, At(l, h, x, e)'
      PROVE  \/ At(l, h, x, e) /\ (x = r => l # lane)
             \/ x = r /\ l = "worker" /\ h = w /\ e = t
  <2>1. CASE OnLane(l, h, x, e)'
    BY <1>3, <2>1 DEF At
  <2>2. CASE OnTable(l, h, x, e)' \/ OnList(l, h, x, e)'
    BY <2>2, StoredFrame DEF At, OnTable, OnList
  <2>3. CASE OnWorker(l, h, x, e)'
    <3>1. CASE h # w
      <4>1. OnWorker(l, h, x, e)
        BY <1>6, <1>7, <2>3, <3>1, WorkersKeep
      <4>2. l # lane
        BY <4>1 DEF OnWorker
      <4>3. QED
        BY <4>1, <4>2 DEF At
    <3>2. CASE h = w
      BY <1>4, <1>7, <2>3, <3>2 DEF OnWorker
    <3>3. QED
      BY <3>1, <3>2
  <2>4. CASE OnCarrier(l, h, x, e)'
    BY <2>4 DEF At, OnCarrier
  <2>5. QED
    BY <1>8, <2>1, <2>2, <2>3, <2>4 DEF At
<1>9. \A x \in Rows : NoBegin(x)
  BY <1>7 DEF NoBegin, OneWorker
<1>10. Only(r, "worker", w, t)
  BY <1>5, <1>6, <1>8 DEF Only, RowInv, OneAt
<1>11. \A x \in Rows \ {r} : Fewer(x)
  BY <1>8 DEF Fewer
<1>12. RowInv(r)'
  BY <1>5, <1>6, <1>9, <1>10, RowMoves
<1>13. QED
  BY <1>6, <1>9, <1>11, <1>12, RowsLeft DEF RoundInv

\* Steps of a worker that have no row to do with, or let go of one.
LEMMA RowsTake ==
  ASSUME TypeInv, RoundInv, NEW w \in Workers,
         \/ Gate(w) \/ TakeFast(w) \/ TakeMain(w) \/ TakeDrop(w)
         \/ ClaimError(w) \/ ClaimCancelled(w) \/ PersistCancelled(w)
  PROVE  RowsInv'
<1>1. UNCHANGED <<row, delayed, spills, carrier, torecover, life>>
  BY DEF Gate, TakeFast, TakeMain, TakeDrop, ClaimError, ClaimCancelled, PersistCancelled
<1>2. \A x \in Rows : Still(x)
  BY <1>1 DEF Still
<1>3. queue \in Seq(Rows) /\ fast \in Seq(Rows) /\ NoDup(queue) /\ NoDup(fast)
  BY DEF TypeInv, LaneType, RoundInv, Once
<1>4. CASE (Gate(w) /\ fast # <<>>) \/ TakeFast(w)
  <2>1. /\ fast # <<>> /\ Grab(w, Head(fast)) /\ fast' = Tail(fast) /\ queue' = queue
        /\ worker[w].pc \in {"gate", "ready"}
    BY <1>4 DEF Gate, TakeFast
  <2>2. PICK lane \in {"queue", "fast"} : lane = "fast" /\ lane # "queue"
    OBVIOUS
  <2>3. QED
    BY <1>1, <1>3, <2>1, <2>2, RowsGrab
<1>5. CASE TakeMain(w)
  <2>1. /\ queue # <<>> /\ Grab(w, Head(queue)) /\ queue' = Tail(queue) /\ fast' = fast
        /\ worker[w].pc \in {"gate", "ready"}
    BY <1>5 DEF TakeMain
  <2>2. PICK lane \in {"queue", "fast"} : lane = "queue"
    OBVIOUS
  <2>3. QED
    BY <1>1, <1>3, <2>1, <2>2, RowsGrab
<1>6. CASE TakeDrop(w)
  <2>1. /\ worker' = worker /\ worker[w].pc \in {"gate", "ready"}
        /\ \/ fast # <<>> /\ fast' = Tail(fast) /\ queue' = queue
           \/ queue # <<>> /\ queue' = Tail(queue) /\ fast' = fast
    BY <1>6 DEF TakeDrop
  <2>2. \A x : (InLane(queue, x)' => InLane(queue, x)) /\ (InLane(fast, x)' => InLane(fast, x))
    <3>1. CASE fast # <<>> /\ fast' = Tail(fast) /\ queue' = queue
      <4>1. \A x : InLane(Tail(fast), x) => InLane(fast, x)
        BY <1>3, <3>1, TailIn
      <4>2. QED
        BY <3>1, <4>1 DEF InLane
    <3>2. CASE queue # <<>> /\ queue' = Tail(queue) /\ fast' = fast
      <4>1. \A x : InLane(Tail(queue), x) => InLane(queue, x)
        BY <1>3, <3>2, TailIn
      <4>2. QED
        BY <3>2, <4>1 DEF InLane
    <3>3. QED
      BY <2>1, <3>1, <3>2
  <2>3. \A x \in Rows : \A l, h, e : Stored(l, h, x, e)' => Stored(l, h, x, e)
    BY <1>1, <2>2, StoredFrame DEF Stored, OnLane
  <2>4. OneWorker(w)
    BY <2>1 DEF OneWorker
  <2>5. QED
    BY <1>1, <1>2, <2>1, <2>3, <2>4, RowsIdle
<1>7. CASE \/ Gate(w) /\ fast = <<>>
           \/ ClaimError(w) \/ ClaimCancelled(w) \/ PersistCancelled(w)
  <2>1. /\ UNCHANGED lanes
        /\ \/ Move(w, "ready") \/ Leave(w)
           \/ worker[w].pc = "claim" /\ worker' = [worker EXCEPT ![w].doubt = TRUE]
    BY <1>7 DEF Gate, ClaimError, ClaimCancelled, PersistCancelled
  <2>2. /\ OneWorker(w)
        /\ \/ worker'[w].pc \in {"gate", "ready"}
           \/ /\ worker'[w].pc = "claim" /\ worker[w].pc = "claim"
              /\ worker'[w].row = worker[w].row
    BY <2>1 DEF Move, Leave, AtGate, OneWorker, TypeInv, WorkerType, WorkerState
  <2>3. \A x \in Rows : \A l, h, e : Stored(l, h, x, e)' => Stored(l, h, x, e)
    BY <1>1, <2>1, StoredFrame DEF Stored
  <2>4. QED
    BY <1>1, <1>2, <2>2, <2>3, RowsIdle
<1>8. QED
  BY <1>4, <1>5, <1>6, <1>7

\* The rows a worker has nothing to do with.
LEMMA WorkerOthers ==
  ASSUME NEW w \in Workers, OneWorker(w), NEW r,
         worker'[w].row = r \/ worker'[w].pc \in {"gate", "ready"},
         \A x \in Rows \ {r} : Still(x), carrier' = carrier,
         \A x \in Rows : \A l, h, e : Stored(l, h, x, e)' => Stored(l, h, x, e)
  PROVE  \A x \in Rows \ {r} : Fewer(x) /\ NoBegin(x)
<1>1. ASSUME NEW x \in Rows \ {r}
      PROVE  Fewer(x) /\ NoBegin(x)
  <2>1. ASSUME NEW l, NEW i, NEW c, OnWorker(l, i, x, c)'
        PROVE  OnWorker(l, i, x, c)
    <3>1. CASE i # w
      BY <2>1, <3>1, WorkersKeep
    <3>2. CASE i = w
      BY <2>1, <3>2 DEF OnWorker
    <3>3. QED
      BY <3>1, <3>2
  <2>2. \A l, i, c : OnCarrier(l, i, x, c)' => OnCarrier(l, i, x, c)
    BY DEF OnCarrier
  <2>3. NoBegin(x)
    BY DEF NoBegin, OneWorker
  <2>4. QED
    BY <2>1, <2>2, <2>3 DEF Fewer, At, Stored
<1>2. QED
  BY <1>1

\* A worker at its row has the only copy of it.
Alone(w, r, t) ==
  /\ t = TRUE /\ RowInv(r) /\ At("worker", w, r, t)
  /\ \A l, h, e : ~OnLane(l, h, r, e) /\ ~OnTable(l, h, r, e) /\ ~OnList(l, h, r, e)
                   /\ ~OnCarrier(l, h, r, e)
  /\ \A v \in Workers \ {w} : worker[v].row = r =>
       /\ worker[v].pc \notin {"claim", "read", "run"}
       /\ ~(worker[v].pc = "persist" /\ Fenced(v))

LEMMA WorkerAt ==
  ASSUME TypeInv, RoundInv, NEW w \in Workers,
         worker[w].pc \in {"claim", "read", "run"} \/ (worker[w].pc = "persist" /\ Fenced(w))
  PROVE  \E r \in Rows, t \in BOOLEAN : r = worker[w].row /\ Alone(w, r, t)
<1>1. PICK r \in Rows : r = worker[w].row
  BY DEF TypeInv, WorkerType
<1>2. PICK t \in BOOLEAN : t = TRUE
  OBVIOUS
<1>3. RowInv(r) /\ OneAt(r)
  BY DEF RoundInv, RowsInv, RowInv
<1>4. At("worker", w, r, t)
  BY <1>1, <1>2 DEF At, OnWorker
<1>5. \A l, h, e : At(l, h, r, e) => l = "worker" /\ h = w
  BY <1>3, <1>4 DEF OneAt
<1>6. \A l, h, e : ~OnLane(l, h, r, e) /\ ~OnTable(l, h, r, e) /\ ~OnList(l, h, r, e)
                   /\ ~OnCarrier(l, h, r, e)
  BY <1>5 DEF At, OnLane, OnTable, OnList, OnCarrier
<1>7. ASSUME NEW v \in Workers \ {w}, worker[v].row = r,
             worker[v].pc \in {"claim", "read", "run"} \/ (worker[v].pc = "persist" /\ Fenced(v))
      PROVE  FALSE
  <2>1. OnWorker("worker", v, r, t)
    BY <1>2, <1>7 DEF OnWorker
  <2>2. QED
    BY <1>5, <2>1 DEF At
<1>8. QED
  BY <1>1, <1>2, <1>3, <1>4, <1>6, <1>7 DEF Alone

\* A claim: the copy of the worker is the only one, and no outcome of the same
\* round is still to be written.
LEMMA RowsClaim ==
  ASSUME TypeInv, RoundInv, NEW w \in Workers, worker[w].pc = "claim",
         NEW r \in Rows, r = worker[w].row, status[r] = "pending",
         Update(TRUE, r, "processing", 0, 0, FALSE), OneWorker(w),
         worker'[w].row = r, worker'[w].pc \in {"claim", "read"},
         UNCHANGED <<lanes, delayed, spills, carrier, torecover, life>>
  PROVE  RowsInv'
<1>1. /\ \A x \in Rows \ {r} : Still(x)
      /\ status'[r] = "processing" /\ repeat'[r] = repeat[r] /\ reprocess'[r] = reprocess[r]
  <2>1. PICK s : s = "processing" /\ Update(TRUE, r, s, 0, 0, FALSE)
    OBVIOUS
  <2>2. /\ \A x \in Rows \ {r} : Still(x)
        /\ status'[r] = s /\ repeat'[r] = repeat[r] /\ reprocess'[r] = reprocess[r]
    BY <2>1, UpdateHas DEF TypeInv
  <2>3. QED
    BY <2>1, <2>2
<1>2. PICK t \in BOOLEAN : Alone(w, r, t)
  BY WorkerAt
<1>3. \A v \in Workers : Writes(v, r) => ~SameRound(v, r)
  BY <1>2 DEF Alone, RowInv, StaleAt
<1>4. \A x \in Rows : \A l, h, e : Stored(l, h, x, e)' => Stored(l, h, x, e)
  BY StoredFrame DEF Stored
<1>5. ASSUME NEW l, NEW h, NEW e, At(l, h, r, e)'
      PROVE  l = "worker" /\ h = w /\ e = t
  <2>1. ~OnCarrier(l, h, r, e)'
    BY <1>2 DEF Alone, OnCarrier
  <2>2. OnWorker(l, h, r, e)'
    BY <1>2, <1>4, <1>5, <2>1 DEF Alone, At, Stored
  <2>3. l = "worker" /\ h \in Workers /\ e = t
    BY <1>2, <2>2 DEF Alone, OnWorker
  <2>4. ASSUME h # w
        PROVE  FALSE
    <3>1. worker'[h] = worker[h] /\ worker[h].row = r
      BY <2>2, <2>3, <2>4 DEF OnWorker, OneWorker
    <3>2. worker[h].pc = "persist" /\ Fenced(h)'
      BY <1>2, <2>2, <2>3, <2>4, <3>1 DEF Alone, OnWorker
    <3>3. Writes(h, r) /\ SameRound(h, r)
      BY <1>1, <3>1, <3>2 DEF Writes, SameRound, Fenced
    <3>4. QED
      BY <1>3, <2>3, <3>3
  <2>5. QED
    BY <2>3, <2>4
<1>6. RowInv(r)'
  <2>1. OneAt(r)' /\ EndedAt(r)'
    BY <1>1, <1>5 DEF OneAt, EndedAt, Terminal
  <2>2. ActiveAt(r)'
    BY <1>1, <1>2 DEF Alone, ActiveAt, OneWorker
  <2>3. StaleAt(r)'
    <3>1. ASSUME NEW v \in Workers, Writes(v, r)'
          PROVE  worker'[v] = worker[v] /\ Writes(v, r)
      BY <3>1 DEF Writes, OneWorker
    <3>2. QED
      BY <1>1, <1>2, <3>1 DEF Alone, RowInv, StaleAt
  <2>4. CountAt(r)'
    BY <1>1, <1>2, <1>5 DEF Alone, RowInv, CountAt
  <2>5. QED
    BY <2>1, <2>2, <2>3, <2>4 DEF RowInv
<1>7. \A x \in Rows \ {r} : Fewer(x) /\ NoBegin(x)
  BY <1>1, <1>4, WorkerOthers
<1>8. QED
  BY <1>1, <1>6, <1>7, RowsLeft DEF RoundInv

\* Claim and ClaimLost; a claim that finds no row lets go of the copy.
LEMMA RowsClaims ==
  ASSUME TypeInv, RoundInv, NEW w \in Workers, Claim(w) \/ ClaimLost(w)
  PROVE  RowsInv'
<1>1. /\ worker[w].pc = "claim"
      /\ UNCHANGED <<lanes, delayed, spills, carrier, torecover, life>>
  BY DEF Claim, ClaimLost
<1>2. PICK r \in Rows : r = worker[w].row
  BY <1>1 DEF TypeInv, WorkerType
<1>3. PICK hit \in BOOLEAN : hit = (status[r] = "pending")
  OBVIOUS
<1>4. CASE ClaimLost(w)
  <2>1. /\ status[r] = "pending" /\ Update(TRUE, r, "processing", 0, 0, FALSE)
        /\ worker' = [worker EXCEPT ![w].doubt = TRUE]
    BY <1>2, <1>4 DEF ClaimLost
  <2>2. OneWorker(w) /\ worker'[w].row = r /\ worker'[w].pc \in {"claim", "read"}
    BY <1>1, <1>2, <2>1 DEF OneWorker, TypeInv, WorkerType, WorkerState
  <2>3. QED
    BY <1>1, <1>2, <2>1, <2>2, RowsClaim
<1>5. CASE Claim(w) /\ hit
  <2>1. Update(hit, r, "processing", 0, 0, FALSE) /\ (IF hit THEN Move(w, "read") ELSE Leave(w))
    BY <1>2, <1>3, <1>5 DEF Claim
  <2>2. hit = TRUE /\ status[r] = "pending"
    BY <1>3, <1>5
  <2>3. Update(TRUE, r, "processing", 0, 0, FALSE) /\ Move(w, "read")
    BY <2>1, <2>2
  <2>4. OneWorker(w) /\ worker'[w].row = r /\ worker'[w].pc \in {"claim", "read"}
    BY <1>2, <2>3 DEF Move, OneWorker, TypeInv, WorkerType, WorkerState
  <2>5. QED
    BY <1>1, <1>2, <2>2, <2>3, <2>4, RowsClaim
<1>6. CASE Claim(w) /\ ~hit
  <2>1. Update(hit, r, "processing", 0, 0, FALSE) /\ (IF hit THEN Move(w, "read") ELSE Leave(w))
    BY <1>2, <1>3, <1>6 DEF Claim
  <2>2. Leave(w) /\ \A x \in Rows : Still(x)
    BY <1>6, <2>1 DEF Update, Still
  <2>3. OneWorker(w) /\ worker'[w].pc \in {"gate", "ready"}
    BY <2>2 DEF Leave, AtGate, OneWorker, TypeInv, WorkerType
  <2>4. \A x \in Rows : \A l, h, e : Stored(l, h, x, e)' => Stored(l, h, x, e)
    BY <1>1, StoredFrame DEF Stored
  <2>5. QED
    BY <1>1, <2>2, <2>3, <2>4, RowsIdle
<1>7. QED
  BY <1>4, <1>5, <1>6

\* The round is read, and later an outcome is there to be written: the worker
\* still has the only copy of its row, in the round the row is in.
LEMMA RowsRun ==
  ASSUME TypeInv, RoundInv, NEW w \in Workers,
         ReadRound(w) \/ \E out \in Terminal : RunEnds(w, out)
  PROVE  RowsInv'
<1>1. /\ worker[w].pc \in {"read", "run"}
      /\ UNCHANGED <<row, lanes, delayed, spills, carrier, torecover, life>>
  BY DEF ReadRound, RunEnds
<1>2. PICK r \in Rows, t \in BOOLEAN : r = worker[w].row /\ Alone(w, r, t)
  BY <1>1, WorkerAt
<1>3. \A x \in Rows : Still(x)
  BY <1>1 DEF Still
<1>4. \A x \in Rows : \A l, h, e : Stored(l, h, x, e)' => Stored(l, h, x, e)
  BY <1>1, StoredFrame DEF Stored
<1>5. ActiveAt(r) /\ repeat[r] \in Nat /\ reprocess[r] \in Nat
  BY <1>2 DEF Alone, RowInv, TypeInv, RowType
<1>6. CASE worker[w].pc = "read" /\ status[r] = "gone"
  BY <1>2, <1>5, <1>6 DEF ActiveAt
<1>7. CASE ~(worker[w].pc = "read" /\ status[r] = "gone")
  <2>1. /\ OneWorker(w) /\ worker'[w].row = r /\ worker'[w].pc \in {"run", "persist"}
        /\ worker'[w].rep = repeat[r] /\ worker'[w].rpr = reprocess[r] /\ status[r] = "processing"
    <3>1. CASE ReadRound(w)
      <4>1. /\ worker[w].pc = "read"
            /\ worker' = [worker EXCEPT ![w].pc = "run", ![w].rep = repeat[r],
                                        ![w].rpr = reprocess[r]]
        BY <1>2, <1>7, <3>1 DEF ReadRound
      <4>2. QED
        BY <1>2, <1>5, <4>1 DEF OneWorker, ActiveAt, TypeInv, WorkerType, WorkerState
    <3>2. ASSUME NEW out \in Terminal, RunEnds(w, out)
          PROVE  <2>1!1 /\ <2>1!2
      <4>1. /\ worker[w].pc = "run"
            /\ worker' = [worker EXCEPT ![w].pc = "persist", ![w].out = out]
        BY <3>2 DEF RunEnds
      <4>2. Fenced(w)
        BY <1>2, <1>5, <4>1 DEF ActiveAt
      <4>3. QED
        BY <1>2, <4>1, <4>2 DEF OneWorker, Fenced, TypeInv, WorkerType, WorkerState
    <3>3. QED
      BY <3>1, <3>2
  <2>2. Fewer(r)
    <3>1. ASSUME NEW l, NEW h, NEW e, OnWorker(l, h, r, e)'
          PROVE  At(l, h, r, e)
      <4>1. CASE h # w
        BY <1>3, <2>1, <3>1, <4>1, WorkersKeep DEF At
      <4>2. CASE h = w
        <5>1. l = "worker" /\ e = t
          BY <1>2, <3>1 DEF OnWorker, Alone
        <5>2. QED
          BY <1>2, <4>2, <5>1 DEF Alone
      <4>3. QED
        BY <4>1, <4>2
    <3>2. \A l, i, c : OnCarrier(l, i, r, c)' => OnCarrier(l, i, r, c)
      BY <1>1 DEF OnCarrier
    <3>3. QED
      BY <1>4, <3>1, <3>2 DEF Fewer, At, Stored
  <2>3. RowInv(r)'
    <3>1. OneAt(r)' /\ EndedAt(r)' /\ CountAt(r)'
      <4>1. OneAt(r)'
        BY <1>2, <2>2 DEF Alone, RowInv, OneAt, Fewer
      <4>2. EndedAt(r)'
        BY <1>3, <2>1 DEF EndedAt, Still, Terminal
      <4>3. CountAt(r)'
        BY <1>1, <1>2, <2>2 DEF Alone, RowInv, CountAt, Fewer
      <4>4. QED
        BY <4>1, <4>2, <4>3
    <3>2. ActiveAt(r)'
      BY <1>1, <1>2, <2>1 DEF Alone, ActiveAt, OneWorker, Fenced
    <3>3. StaleAt(r)'
      <4> SUFFICES ASSUME NEW v \in Workers, Writes(v, r)'
                   PROVE  /\ status'[r] # "absent" /\ status'[r] # "pending"
                          /\ worker'[v].rep <= repeat'[r] /\ worker'[v].rpr <= reprocess'[r]
        BY DEF StaleAt
      <4>1. CASE v = w
        BY <1>1, <1>5, <2>1, <4>1
      <4>2. CASE v # w
        <5>1. worker'[v] = worker[v] /\ Writes(v, r)
          BY <2>1, <4>2 DEF OneWorker, Writes
        <5>2. QED
          BY <1>1, <1>2, <2>1, <5>1 DEF Alone, RowInv, StaleAt
      <4>3. QED
        BY <4>1, <4>2
    <3>4. QED
      BY <3>1, <3>2, <3>3 DEF RowInv
  <2>4. \A x \in Rows \ {r} : Fewer(x) /\ NoBegin(x)
    BY <1>1, <1>3, <1>4, <2>1, WorkerOthers
  <2>5. QED
    BY <1>1, <1>3, <2>3, <2>4, RowsLeft DEF RoundInv
<1>8. QED
  BY <1>6, <1>7

\* The worker with the only copy of a row gives it up, or has its outcome written.
LEMMA WorkerGone ==
  ASSUME NEW w \in Workers, OneWorker(w), NEW r \in Rows, NEW t, Alone(w, r, t),
         status'[r] # "processing", worker'[w].pc \notin {"claim", "read", "run"},
         \A l, h, e : Stored(l, h, r, e)' => Stored(l, h, r, e), carrier' = carrier
  PROVE  Nowhere(r)' /\ Fewer(r)
<1>1. ASSUME NEW l, NEW h, NEW e, At(l, h, r, e)'
      PROVE  FALSE
  <2>1. ~OnCarrier(l, h, r, e)'
    BY DEF Alone, OnCarrier
  <2>2. OnWorker(l, h, r, e)'
    BY <1>1, <2>1 DEF Alone, At, Stored
  <2>3. CASE h = w
    BY <2>2, <2>3 DEF OnWorker, Fenced
  <2>4. CASE h # w
    <3>1. OnWorker(l, h, r, e)
      BY <2>2, <2>4, WorkersKeep
    <3>2. QED
      BY <2>4, <3>1 DEF Alone, OnWorker
  <2>5. QED
    BY <2>3, <2>4
<1>2. QED
  BY <1>1 DEF Nowhere, Fewer

\* A claim that is given back leaves a pending row without a copy, and no
\* outcome of its round under way.
LEMMA RowsGiveBack ==
  ASSUME TypeInv, RoundInv, NEW w \in Workers, ReadCancelled(w) \/ RunCancelled(w)
  PROVE  RowsInv'
<1>1. /\ worker[w].pc \in {"read", "run"} /\ Leave(w)
      /\ UNCHANGED <<lanes, delayed, spills, carrier, torecover, life>>
  BY DEF ReadCancelled, RunCancelled, GiveBack
<1>2. PICK r \in Rows, t \in BOOLEAN : r = worker[w].row /\ Alone(w, r, t)
  BY <1>1, WorkerAt
<1>3. status[r] = "processing"
  BY <1>1, <1>2 DEF Alone, RowInv, ActiveAt, Fenced
<1>4. \A x \in Rows : \A l, h, e : Stored(l, h, x, e)' => Stored(l, h, x, e)
  BY <1>1, StoredFrame DEF Stored
<1>5. OneWorker(w) /\ worker'[w].pc \in {"gate", "ready"}
  BY <1>1 DEF Leave, AtGate, OneWorker, TypeInv, WorkerType
<1>6. CASE UNCHANGED row
  <2>1. \A x \in Rows : Still(x)
    BY <1>6 DEF Still
  <2>2. QED
    BY <1>1, <1>4, <1>5, <2>1, RowsIdle
<1>7. CASE ~UNCHANGED row
  <2>1. PICK hit \in BOOLEAN : hit = (status[r] = "processing")
    OBVIOUS
  <2>2. Update(hit, r, "pending", 0, 0, urgent[r])
    BY <1>2, <1>7, <2>1 DEF ReadCancelled, RunCancelled, GiveBack, SetStatus
  <2>3. /\ \A x \in Rows \ {r} : Still(x)
        /\ hit => status'[r] = "pending"
        /\ repeat'[r] = repeat[r] /\ reprocess'[r] = reprocess[r]
    BY <2>2, UpdateHas DEF TypeInv
  <2>4. status'[r] = "pending"
    BY <1>3, <2>1, <2>3
  <2>5. Nowhere(r)' /\ Fewer(r)
    BY <1>1, <1>2, <1>4, <1>5, <2>4, WorkerGone
  <2>6. RowInv(r)'
    <3>1. OneAt(r)' /\ EndedAt(r)'
      BY <2>5 DEF OneAt, EndedAt, Nowhere
    <3>2. ActiveAt(r)'
      BY <1>2, <1>5 DEF Alone, ActiveAt, OneWorker
    <3>3. CountAt(r)'
      <4>1. ~ \E k, i : At(k, i, r, FALSE)'
        BY <2>5 DEF Nowhere
      <4>2. CountAt(r) /\ forgot' = forgot
        BY <1>1, <1>2 DEF Alone, RowInv
      <4>3. QED
        BY <1>3, <2>3, <2>4, <4>1, <4>2 DEF CountAt
    <3>4. StaleAt(r)'
      <4> SUFFICES ASSUME NEW v \in Workers, Writes(v, r)'
                   PROVE  /\ status'[r] # "absent" /\ ~SameRound(v, r)'
                          /\ worker'[v].rep <= repeat'[r] /\ worker'[v].rpr <= reprocess'[r]
        BY DEF StaleAt
      <4>1. v # w /\ worker'[v] = worker[v] /\ Writes(v, r)
        BY <1>5 DEF OneWorker, Writes
      <4>2. ~Fenced(v)
        BY <1>2, <4>1 DEF Alone, Writes
      <4>3. ~SameRound(v, r)
        BY <1>3, <4>1, <4>2 DEF SameRound, Fenced, Writes
      <4>4. QED
        BY <1>2, <2>3, <2>4, <4>1, <4>3 DEF Alone, RowInv, StaleAt, SameRound
    <3>5. QED
      BY <3>1, <3>2, <3>3, <3>4 DEF RowInv
  <2>7. \A x \in Rows \ {r} : Fewer(x) /\ NoBegin(x)
    BY <1>1, <1>4, <1>5, <2>3, WorkerOthers
  <2>8. QED
    BY <1>1, <2>3, <2>6, <2>7, RowsLeft DEF RoundInv
<1>8. QED
  BY <1>6, <1>7

\* An outcome is written in the round of its worker, or not at all.
LEMMA RowsPersist ==
  ASSUME TypeInv, RoundInv, NEW w \in Workers, Persist(w) \/ PersistLost(w)
  PROVE  RowsInv'
<1>1. /\ worker[w].pc = "persist"
      /\ Leave(w) \/ worker' = worker
      /\ UNCHANGED <<lanes, delayed, spills, carrier, torecover, life>>
  BY DEF Persist, PersistLost
<1>2. \A x \in Rows : \A l, h, e : Stored(l, h, x, e)' => Stored(l, h, x, e)
  BY <1>1, StoredFrame DEF Stored
<1>3. /\ OneWorker(w) /\ worker'[w].pc \in {"gate", "ready", "persist"}
      /\ worker'[w].pc = "persist" => worker' = worker
  BY <1>1 DEF Leave, AtGate, OneWorker, TypeInv, WorkerType
<1>4. CASE Fenced(w)
  <2>1. PICK r \in Rows, t \in BOOLEAN : r = worker[w].row /\ Alone(w, r, t)
    BY <1>1, <1>4, WorkerAt
  <2>2. PICK s : s = worker[w].out /\ Update(TRUE, r, s, 0, 0, urgent[r])
    BY <1>4, <2>1 DEF Persist, PersistLost, SetStatus
  <2>3. /\ \A x \in Rows \ {r} : Still(x)
        /\ status'[r] = s /\ repeat'[r] = repeat[r] /\ reprocess'[r] = reprocess[r]
    BY <2>2, UpdateHas DEF TypeInv
  <2>4. status'[r] \in Terminal /\ status'[r] # "processing" /\ status[r] # "absent"
    BY <1>1, <1>4, <2>1, <2>2, <2>3 DEF TypeInv, WorkerType, Terminal, Fenced
  <2>5. Nowhere(r)' /\ Fewer(r)
    BY <1>1, <1>2, <1>3, <2>1, <2>4, WorkerGone
  <2>6. RowInv(r)'
    <3>1. \A v \in Workers : worker'[v].row = r =>
            \/ worker'[v].pc \in {"gate", "ready", "claim"}
            \/ worker'[v] = worker[v] /\ worker[v].pc \notin {"read", "run"}
      BY <1>1, <1>3, <2>1 DEF Alone, OneWorker
    <3>2. RowInv(r)
      BY <2>1 DEF Alone
    <3>3. QED
      BY <1>1, <2>3, <2>4, <2>5, <3>1, <3>2, RowEnds
  <2>7. \A x \in Rows \ {r} : Fewer(x) /\ NoBegin(x)
    BY <1>1, <1>2, <1>3, <2>1, <2>3, WorkerOthers
  <2>8. QED
    BY <1>1, <2>3, <2>6, <2>7, RowsLeft DEF RoundInv
<1>5. CASE ~Fenced(w)
  <2>1. Leave(w) /\ \A x \in Rows : Still(x)
    BY <1>5 DEF Persist, PersistLost, SetStatus, Update, Still
  <2>2. worker'[w].pc \in {"gate", "ready"}
    BY <2>1 DEF Leave, AtGate, TypeInv, WorkerType
  <2>3. QED
    BY <1>1, <1>2, <1>3, <2>1, <2>2, RowsIdle
<1>6. QED
  BY <1>4, <1>5

-----------------------------------------------------------------------------
(* Every step keeps the rows                                                 *)

LEMMA RowsNext ==
  ASSUME NoResubmission, TypeInv, RoundInv, [Next]_vars
  PROVE  RowsInv'
<1>1. CASE \E w \in Workers : WorkerStep(w) \/ WorkerFault(w)
  BY <1>1, RowsTake, RowsClaims, RowsRun, RowsGiveBack, RowsPersist DEF WorkerStep, WorkerFault
<1>2. CASE CarrierStep
  <2>1. CASE SubmitIfActive \/ MarkRequeueFailed
    BY <2>1, RowsSubmitIfActive, RowsMark
  <2>2. CASE \E k \in Carriers : SubmitToPool(k) \/ Enqueue(k) \/ EnqueueFull(k) \/ EnqueueRejected(k)
    BY <2>2, RowsWrite, RowsEnqueue, RowsRejected
  <2>3. CASE ErrorReset \/ RepeatReset \/ RecoverReset
    BY <2>3, RowsReset, RowsRecoverReset
  <2>4. CASE RetryReset \/ UrgentReset
    BY <2>4 DEF RetryReset, UrgentReset, RoundInv, CarrierInv
  <2>5. CASE DrainSwap \/ DrainPaused \/ DrainOpen \/ DrainNext
    BY <2>5, RowsSwap, RowsDrain
  <2>6. CASE \E r \in Rows : DeliverDelayed(r) \/ RecoverVisit(r)
    BY <2>6, RowsDeliver, RowsRecover
  <2>7. QED
    BY <1>2, <2>1, <2>2, <2>3, <2>4, <2>5, <2>6 DEF CarrierStep
<1>3. CASE CarrierFault
  BY <1>3, RowsDrain, RowsRejected, RowsWriteLost, RowsResetError, RowsResetLost DEF CarrierFault
<1>4. CASE Trigger
  <2>1. CASE Pause \/ Resume \/ Reap
    BY <2>1, RowsAdmin, RowsReap
  <2>2. ASSUME NEW r \in Rows,
               SubmitAgain(r) \/ RetryLoad(r) \/ UrgentLoad(r) \/ MarkTaskFailed(r)
        PROVE  FALSE
    BY <2>2 DEF NoResubmission, SubmitAgain, RetryLoad, UrgentLoad, MarkTaskFailed
  <2>3. ASSUME NEW r \in Rows,
               \/ SubmitNew(r) \/ SubmitNewLost(r) \/ ErrorSelect(r) \/ RepeatSelect(r)
               \/ DeleteTask(r) \/ SetTaskRepeatInterval(r)
        PROVE  RowsInv'
    BY <2>3, RowsSubmitNew, RowsNewLost, RowsSelect, RowsAdmin
  <2>4. QED
    BY <1>4, <2>1, <2>2, <2>3 DEF Trigger
<1>5. CASE Stop \/ Count \/ Return \/ UNCHANGED vars
  <2>1. /\ forgot' = forgot
        /\ UNCHANGED <<row, lanes, delayed, spills, worker, carrier, torecover>>
    BY <1>5 DEF Stop, Count, Return, vars
  <2>2. \A x \in Rows : Still(x)
    BY <2>1 DEF Still
  <2>3. QED
    BY <2>1, <2>2, RowsAsTheyAre
<1>6. CASE Restart
  BY <1>6, RowsRestart
<1>7. QED
  BY <1>1, <1>2, <1>3, <1>4, <1>5, <1>6 DEF Next

-----------------------------------------------------------------------------
(* No place holds a row twice                                                *)

LEMMA OnceFrame ==
  ASSUME Once
  PROVE  /\ UNCHANGED lanes => NoDup(queue)' /\ NoDup(fast)'
         /\ UNCHANGED spills => NoTwin(spill)' /\ NoTwin(draining)'
         /\ UNCHANGED delayed => \A r \in Rows : delayed'[r] <= 1
  BY DEF Once, NoDup, NoTwin

\* A worker takes from the head of a lane.
LEMMA OnceWorker ==
  ASSUME TypeInv, Once, NEW w \in Workers, WorkerStep(w) \/ WorkerFault(w)
  PROVE  Once'
<1>1. UNCHANGED <<delayed, spills>>
  BY DEF WorkerStep, WorkerFault, Gate, TakeFast, TakeMain, TakeDrop, Claim, ClaimCancelled,
         ReadRound, ReadCancelled, RunEnds, RunCancelled, Persist, PersistCancelled,
         ClaimError, ClaimLost, PersistLost
<1>2. \/ UNCHANGED lanes
      \/ fast # <<>> /\ fast' = Tail(fast) /\ queue' = queue
      \/ queue # <<>> /\ queue' = Tail(queue) /\ fast' = fast
  BY DEF WorkerStep, WorkerFault, Gate, TakeFast, TakeMain, TakeDrop, Claim, ClaimCancelled,
         ReadRound, ReadCancelled, RunEnds, RunCancelled, Persist, PersistCancelled,
         ClaimError, ClaimLost, PersistLost
<1>3. queue \in Seq(Rows) /\ fast \in Seq(Rows) /\ NoDup(queue) /\ NoDup(fast)
  BY DEF TypeInv, LaneType, Once
<1>4. CASE UNCHANGED lanes
  BY <1>1, <1>4, OnceFrame DEF Once
<1>5. CASE fast # <<>> /\ fast' = Tail(fast) /\ queue' = queue
  <2>1. NoDup(Tail(fast))
    BY <1>3, <1>5, TailIn
  <2>2. NoDup(fast)' /\ NoDup(queue)'
    BY <1>3, <1>5, <2>1 DEF NoDup
  <2>3. QED
    BY <1>1, <2>2, OnceFrame DEF Once
<1>6. CASE queue # <<>> /\ queue' = Tail(queue) /\ fast' = fast
  <2>1. NoDup(Tail(queue))
    BY <1>3, <1>6, TailIn
  <2>2. NoDup(fast)' /\ NoDup(queue)'
    BY <1>3, <1>6, <2>1 DEF NoDup
  <2>3. QED
    BY <1>1, <2>2, OnceFrame DEF Once
<1>7. QED
  BY <1>2, <1>4, <1>5, <1>6

\* A carrier that puts its copy into a lane had the only one.
LEMMA OnceEnqueue ==
  ASSUME TypeInv, RoundInv, NEW k \in Carriers, Enqueue(k)
  PROVE  Once'
<1>1. carrier[k].pc = "enqueue" /\ UNCHANGED <<delayed, spills>>
  BY DEF Enqueue
<1>2. PICK r \in Rows, c \in BOOLEAN : r = carrier[k].row /\ c = carrier[k].counted
  BY <1>1 DEF TypeInv, CarrierType, CarrierState
<1>3. At("carrier", k, r, c) /\ OneAt(r) /\ Once
  BY <1>1, <1>2, CarrierAt DEF RoundInv, RowsInv, RowInv, Carrying
<1>4. \A l, i, d : ~OnLane(l, i, r, d)
  <2>1. \A l, i, d : OnLane(l, i, r, d) => l # "carrier"
    BY DEF OnLane
  <2>2. QED
    BY <1>3, <2>1 DEF OneAt, At
<1>5. ~InLane(queue, r) /\ ~InLane(fast, r)
  <2>1. InLane(queue, r) => OnLane("queue", NoRow, r, TRUE)
    BY DEF OnLane
  <2>2. InLane(fast, r) => OnLane("fast", NoRow, r, TRUE)
    BY DEF OnLane
  <2>3. QED
    BY <1>4, <2>1, <2>2
<1>6. queue \in Seq(Rows) /\ fast \in Seq(Rows) /\ NoDup(queue) /\ NoDup(fast)
  BY <1>3 DEF TypeInv, LaneType, Once
<1>7. NoDup(Append(queue, r)) /\ NoDup(Append(fast, r))
  BY <1>5, <1>6, AppendIn
<1>8. \/ fast' = Append(fast, r) /\ queue' = queue
      \/ queue' = Append(queue, r) /\ fast' = fast
  BY <1>2 DEF Enqueue
<1>9. NoDup(queue)' /\ NoDup(fast)'
  BY <1>6, <1>7, <1>8 DEF NoDup
<1>10. QED
  BY <1>1, <1>3, <1>9, OnceFrame DEF Once

\* spillTask does not spill a row twice.
LEMMA OnceSpill ==
  ASSUME TypeInv, Once, NEW k \in Carriers,
         \/ SubmitToPoolError(k) \/ SubmitToPoolLost(k)
         \/ EnqueueFull(k) \/ EnqueueRejected(k)
  PROVE  Once'
<1>1. /\ UNCHANGED <<lanes, delayed, draining>>
      /\ carrier[k].pc \in {"write", "enqueue"}
      /\ spill' = Spilled(CopyOf(k)) \/ spill' = spill
  BY DEF SubmitToPoolError, SubmitToPoolLost, EnqueueFull, EnqueueRejected
<1>2. CopyOf(k) \in Copy
  BY <1>1, SpilledType DEF TypeInv
<1>3. NoTwin(spill) /\ NoTwin(Spilled(CopyOf(k))) /\ NoTwin(draining)
  BY <1>2, SpilledIn DEF TypeInv, Once
<1>4. NoTwin(spill)' /\ NoTwin(draining)'
  BY <1>1, <1>3 DEF NoTwin
<1>5. QED
  BY <1>1, <1>4, OnceFrame DEF Once

\* The bucket of a paused stage goes back behind copies of other rows.
LEMMA OnceDrain ==
  ASSUME TypeInv, RoundInv,
         DrainSwap \/ DrainPaused \/ DrainOpen \/ DrainNext \/ DrainRereadError
  PROVE  Once'
<1>1. UNCHANGED <<lanes, delayed>> /\ Once
  BY DEF DrainSwap, DrainPaused, DrainOpen, DrainNext, DrainRereadError, RoundInv
<1>2. spill \in Seq(Copy) /\ draining \in Seq(Copy) /\ NoTwin(spill) /\ NoTwin(draining)
  BY <1>1 DEF TypeInv, SpillType, Once
<1>3. NoTwin(spill)' /\ NoTwin(draining)'
  <2>1. CASE DrainSwap
    BY <1>2, <2>1 DEF DrainSwap, NoTwin
  <2>2. CASE DrainOpen
    BY <1>2, <2>2 DEF DrainOpen, NoTwin
  <2>3. CASE DrainPaused
    <3>1. ASSUME NEW r \in Rows, InTable(spill, r), InTable(draining, r)
          PROVE  FALSE
      <4>1. PICK c, d : Listed(spill, r, c) /\ Listed(draining, r, d)
        BY <1>2, <3>1, ListedIn
      <4>2. At("spill", NoRow, r, c) /\ At("draining", NoRow, r, d)
        BY <4>1 DEF At, OnTable
      <4>3. OneAt(r)
        BY <3>1 DEF RoundInv, RowsInv, RowInv
      <4>4. QED
        BY <4>2, <4>3 DEF OneAt
    <3>2. NoTwin(spill \o draining)
      BY <1>2, <3>1, ConcatIn
    <3>3. QED
      BY <2>3, <3>2 DEF DrainPaused, NoTwin
  <2>4. CASE DrainNext \/ DrainRereadError
    <3>1. draining # <<>> /\ draining' = Tail(draining)
      BY <2>4 DEF DrainNext, DrainRereadError, TypeInv, CarrierType
    <3>2. NoTwin(Tail(draining))
      BY <1>2, <3>1, TableTailIn
    <3>3. PICK c \in Copy : c = Head(draining)
      BY <1>2, <3>1, HeadTailProperties
    <3>4. spill' = spill \/ spill' = Spilled(c)
      BY <2>4, <3>3 DEF DrainNext, DrainRereadError
    <3>5. NoTwin(Spilled(c))
      BY <1>2, SpilledIn DEF TypeInv
    <3>6. QED
      BY <1>2, <3>1, <3>2, <3>4, <3>5 DEF NoTwin
  <2>5. QED
    BY <2>1, <2>2, <2>3, <2>4
<1>4. QED
  BY <1>1, <1>3, OnceFrame DEF Once

\* The delay heap gets a copy the submitter had, and gives up the one it has.
LEMMA OnceDelay ==
  ASSUME TypeInv, RoundInv, SubmitIfActive \/ \E r \in Rows : DeliverDelayed(r)
  PROVE  Once'
<1>1. UNCHANGED <<lanes, spills>> /\ Once /\ delayed \in [Rows -> Nat]
  BY DEF SubmitIfActive, DeliverDelayed, RoundInv, TypeInv, LaneType
<1>2. \A r \in Rows : delayed'[r] <= 1
  <2>1. CASE SubmitIfActive
    <3>1. carrier["submit"].pc = "decide" /\ "submit" \in Carriers
      BY <2>1 DEF SubmitIfActive, Carriers
    <3>2. PICK r \in Rows, c \in BOOLEAN : r = carrier["submit"].row /\ c = carrier["submit"].counted
      BY <3>1 DEF TypeInv, CarrierType, CarrierState
    <3>3. At("carrier", "submit", r, c) /\ OneAt(r)
      BY <3>1, <3>2, CarrierAt DEF RoundInv, RowsInv, RowInv, Carrying
    <3>4. ~(delayed[r] > 0)
      <4>1. delayed[r] > 0 => At("delayed", NoRow, r, FALSE)
        BY DEF At, OnList
      <4>2. QED
        BY <3>3, <4>1 DEF OneAt
    <3>5. delayed' = delayed \/ delayed' = [delayed EXCEPT ![r] = @ + 1]
      BY <2>1, <3>2 DEF SubmitIfActive
    <3>6. delayed[r] = 0 /\ delayed[r] + 1 <= 1
      BY <1>1, <3>4
    <3>7. QED
      BY <1>1, <3>5, <3>6 DEF Once
  <2>2. ASSUME NEW r \in Rows, DeliverDelayed(r)
        PROVE  \A x \in Rows : delayed'[x] <= 1
    <3>1. delayed[r] - 1 <= 1 /\ delayed' = [delayed EXCEPT ![r] = @ - 1]
      BY <1>1, <2>2 DEF DeliverDelayed, Once
    <3>2. QED
      BY <1>1, <3>1 DEF Once
  <2>3. QED
    BY <2>1, <2>2
<1>3. QED
  BY <1>1, <1>2, OnceFrame DEF Once

LEMMA OnceNext ==
  ASSUME TypeInv, RoundInv, [Next]_vars
  PROVE  Once'
<1>1. Once
  BY DEF RoundInv
<1>2. ASSUME UNCHANGED <<lanes, delayed, spills>>
      PROVE  Once'
  BY <1>1, <1>2, OnceFrame DEF Once
<1>3. CASE \E w \in Workers : WorkerStep(w) \/ WorkerFault(w)
  BY <1>1, <1>3, OnceWorker
<1>4. CASE CarrierStep
  <2>1. CASE SubmitIfActive \/ \E r \in Rows : DeliverDelayed(r)
    BY <2>1, OnceDelay
  <2>2. CASE \E k \in Carriers : Enqueue(k) \/ EnqueueFull(k) \/ EnqueueRejected(k)
    BY <1>1, <2>2, OnceEnqueue, OnceSpill
  <2>3. CASE DrainSwap \/ DrainPaused \/ DrainOpen \/ DrainNext
    BY <2>3, OnceDrain
  <2>4. CASE \/ MarkRequeueFailed \/ ErrorReset \/ RepeatReset \/ RecoverReset
             \/ RetryReset \/ UrgentReset \/ \E k \in Carriers : SubmitToPool(k)
             \/ \E r \in Rows : RecoverVisit(r)
    BY <1>2, <2>4 DEF MarkRequeueFailed, ErrorReset, RepeatReset, RecoverReset, RetryReset,
                      UrgentReset, SubmitToPool, RecoverVisit
  <2>5. QED
    BY <1>4, <2>1, <2>2, <2>3, <2>4 DEF CarrierStep
<1>5. CASE CarrierFault
  <2>1. CASE RecoverSelectError \/ \E k \in Carriers : ResetError(k) \/ ResetLost(k)
    BY <1>2, <2>1 DEF RecoverSelectError, ResetError, ResetLost
  <2>2. QED
    BY <1>1, <1>5, <2>1, OnceDrain, OnceSpill DEF CarrierFault
<1>6. CASE Trigger
  <2>1. UNCHANGED <<lanes, delayed, spills>>
    BY <1>6 DEF Trigger, SubmitNew, SubmitNewLost, SubmitAgain, ErrorSelect, RepeatSelect, RetryLoad,
                UrgentLoad, MarkTaskFailed, DeleteTask, SetTaskRepeatInterval, Pause, Resume, Reap
  <2>2. QED
    BY <1>2, <2>1
<1>7. CASE Stop \/ Count \/ Return \/ UNCHANGED vars
  BY <1>2, <1>7 DEF Stop, Count, Return, vars
<1>8. CASE Restart
  BY <1>8 DEF Restart, Once, NoDup, NoTwin
<1>9. QED
  BY <1>3, <1>4, <1>5, <1>6, <1>7, <1>8 DEF Next

-----------------------------------------------------------------------------
(* What the carriers know                                                    *)

Knows(k) ==
  /\ k \in {"retry", "urgent"} => carrier[k].pc = "idle"
  /\ k = "submit" /\ carrier[k].pc = "decide" => ~carrier[k].counted
  /\ k = "errq" /\ carrier[k].pc # "idle" => carrier[k].counted
  /\ k = "repq" /\ carrier[k].pc = "reset" => ~carrier[k].counted /\ carrier[k].row \in Polled
  /\ carrier[k].pc = "enqueue" /\ carrier[k].row \in Polled => carrier[k].counted

LEMMA CarrierKnows ==
  /\ CarrierInv <=> \A k \in Carriers : Knows(k)
  /\ CarrierInv' <=> \A k \in Carriers : Knows(k)'
  BY Zenon DEF CarrierInv, Knows, Carriers

\* A step of one carrier.
LEMMA KnowsOne ==
  ASSUME CarrierInv, NEW k \in Carriers, OneStep(k), Knows(k)'
  PROVE  CarrierInv'
<1>1. \A j \in Carriers \ {k} : Knows(j)'
  BY CarrierKnows DEF Knows, OneStep
<1>2. QED
  BY <1>1, CarrierKnows

\* A carrier that goes on to count a round, or is done with its copy.
LEMMA KnowsFree ==
  ASSUME CarrierInv, CarrierType, NEW k \in Carriers \ {"retry", "urgent"},
         Release(k) \/ Step(k, "write") \/ \E c, was : Hold(k, "write", c, was),
         k # "errq" \/ Release(k)
  PROVE  CarrierInv'
<1>1. OneStep(k) /\ carrier'[k].pc \in {"idle", "loop", "write"}
  BY CarrierHas
<1>2. Release(k) /\ k = "errq" => carrier'[k].pc = "idle"
  BY DEF Release, CarrierType, Idle
<1>3. Knows(k)'
  BY <1>1, <1>2 DEF Knows
<1>4. QED
  BY <1>1, <1>3, KnowsOne

\* The carriers of the pool and of the table.
LEMMA KnowsPool ==
  ASSUME TypeInv, CarrierInv, NEW k \in Carriers,
         \/ SubmitToPool(k) \/ SubmitToPoolError(k) \/ SubmitToPoolLost(k) \/ Enqueue(k)
         \/ EnqueueFull(k) \/ EnqueueRejected(k)
  PROVE  CarrierInv'
<1>1. carrier[k].pc \in {"write", "enqueue"}
  BY DEF SubmitToPool, SubmitToPoolError, SubmitToPoolLost, Enqueue, EnqueueFull, EnqueueRejected
<1>2. k \notin {"retry", "urgent"} /\ Knows(k) /\ CarrierType
  BY <1>1, CarrierKnows DEF CarrierInv, TypeInv
<1>3. CASE Release(k)
  BY <1>2, <1>3, KnowsFree
<1>4. CASE SubmitToPool(k)
  <2>1. PICK r \in Rows, c \in BOOLEAN : r = carrier[k].row /\ c = carrier[k].counted
    BY <1>1 DEF TypeInv, CarrierType, CarrierState
  <2>2. PICK bump \in BOOLEAN : bump = (r \in Polled /\ ~c)
    OBVIOUS
  <2>3. carrier' = [carrier EXCEPT ![k].pc = "enqueue", ![k].counted = c \/ bump]
    BY <1>4, <2>1, <2>2 DEF SubmitToPool
  <2>4. /\ OneStep(k) /\ carrier'[k].pc = "enqueue"
        /\ carrier'[k].row = r /\ carrier'[k].counted = (c \/ bump)
    BY <2>1, <2>3 DEF TypeInv, CarrierType, CarrierState, OneStep
  <2>5. r \in Polled => (c \/ bump) = TRUE
    BY <2>2
  <2>6. k = "errq" => c = TRUE
    BY <1>1, <1>2, <2>1 DEF Knows
  <2>7. Knows(k)'
    BY <1>2, <2>4, <2>5, <2>6 DEF Knows
  <2>8. QED
    BY <2>4, <2>7, KnowsOne
<1>5. CASE EnqueueRejected(k) /\ k = "errq"
  <2>1. Step(k, "markfail")
    BY <1>5 DEF EnqueueRejected
  <2>2. OneStep(k) /\ carrier'[k].pc = "markfail" /\ carrier'[k].counted = carrier[k].counted
    BY <1>2, <2>1, CarrierHas
  <2>3. Knows(k)'
    BY <1>1, <1>2, <1>5, <2>2 DEF Knows
  <2>4. QED
    BY <2>2, <2>3, KnowsOne
<1>6. QED
  BY <1>3, <1>4, <1>5 DEF SubmitToPoolError, SubmitToPoolLost, Enqueue, EnqueueFull, EnqueueRejected

\* The error queue never counts a round, the repeat queue has one to count.
LEMMA KnowsQueues ==
  ASSUME TypeInv, CarrierInv,
         \/ \E r \in Rows : ErrorSelect(r) \/ RepeatSelect(r)
         \/ ErrorReset \/ RepeatReset \/ MarkRequeueFailed
  PROVE  CarrierInv'
<1>1. /\ "errq" \in Carriers \ {"retry", "urgent"} /\ "repq" \in Carriers \ {"retry", "urgent"}
      /\ CarrierType /\ Knows("errq") /\ Knows("repq")
  BY CarrierKnows DEF Carriers, TypeInv
<1>2. ASSUME NEW r \in Rows, ErrorSelect(r)
      PROVE  CarrierInv'
  <2>1. PICK pc, c : pc = "reset" /\ c = Snapshot(r, TRUE, urgent[r]) /\ Hold("errq", pc, c, 0)
    BY <1>2 DEF ErrorSelect
  <2>2. c.counted
    BY <2>1 DEF Snapshot
  <2>3. /\ OneStep("errq") /\ carrier'["errq"].pc = pc
        /\ carrier'["errq"].counted = c.counted
    <3>1. Hold("errq", pc, c, 0) /\ CarrierType /\ "errq" \in Carriers
      BY <1>1, <2>1
    <3>2. QED
      BY <3>1, CarrierHas
  <2>4. Knows("errq")'
    BY <2>1, <2>2, <2>3 DEF Knows
  <2>5. QED
    BY <1>1, <2>3, <2>4, KnowsOne
<1>3. ASSUME NEW r \in Rows, RepeatSelect(r)
      PROVE  CarrierInv'
  <2>1. PICK pc, c : pc = "reset" /\ c = Snapshot(r, FALSE, urgent[r]) /\ Hold("repq", pc, c, 0)
    BY <1>3 DEF RepeatSelect
  <2>2. ~c.counted /\ c.row = r /\ r \in Polled
    BY <1>3, <2>1 DEF Snapshot, RepeatSelect
  <2>3. /\ OneStep("repq") /\ carrier'["repq"].pc = pc
        /\ carrier'["repq"].row = c.row /\ carrier'["repq"].counted = c.counted
    <3>1. Hold("repq", pc, c, 0) /\ CarrierType /\ "repq" \in Carriers
      BY <1>1, <2>1
    <3>2. QED
      BY <3>1, CarrierHas
  <2>4. Knows("repq")'
    BY <2>1, <2>2, <2>3 DEF Knows
  <2>5. QED
    BY <1>1, <2>3, <2>4, KnowsOne
<1>4. CASE ErrorReset
  <2>1. carrier["errq"].pc = "reset" /\ (Step("errq", "enqueue") \/ Release("errq"))
    BY <1>4 DEF ErrorReset
  <2>2. CASE Step("errq", "enqueue")
    <3>1. OneStep("errq") /\ carrier'["errq"].pc = "enqueue"
          /\ carrier'["errq"].counted = carrier["errq"].counted
      BY <1>1, <2>2, CarrierHas
    <3>2. Knows("errq")'
      BY <1>1, <2>1, <3>1 DEF Knows
    <3>3. QED
      BY <1>1, <3>1, <3>2, KnowsOne
  <2>3. CASE Release("errq")
    BY <1>1, <2>3, KnowsFree
  <2>4. QED
    BY <2>1, <2>2, <2>3
<1>5. CASE RepeatReset
  <2>1. Step("repq", "write") \/ Release("repq")
    BY <1>5 DEF RepeatReset
  <2>2. QED
    BY <1>1, <2>1, KnowsFree
<1>6. CASE MarkRequeueFailed
  BY <1>1, <1>6, KnowsFree DEF MarkRequeueFailed
<1>7. QED
  BY <1>2, <1>3, <1>4, <1>5, <1>6

\* The copies of submissions, deliveries, orphans and the table.
LEMMA KnowsTaken ==
  ASSUME TypeInv, CarrierInv,
         \/ \E r \in Rows : SubmitNew(r) \/ DeliverDelayed(r) \/ RecoverVisit(r)
         \/ SubmitIfActive \/ RecoverReset
         \/ DrainSwap \/ DrainPaused \/ DrainOpen \/ DrainNext \/ DrainRereadError
  PROVE  CarrierInv'
<1>1. /\ {"submit", "delay", "recq", "drain"} \subseteq Carriers \ {"retry", "urgent", "errq"}
      /\ CarrierType
  BY DEF Carriers, TypeInv
<1>2. ASSUME NEW r \in Rows, SubmitNew(r)
      PROVE  CarrierInv'
  <2>1. PICK u, pc, c : /\ pc = "decide"
                        /\ c = [row |-> r, counted |-> FALSE, urgent |-> u]
                        /\ Hold("submit", pc, c, 0)
    BY <1>2 DEF SubmitNew
  <2>2. ~c.counted
    BY <2>1
  <2>3. /\ OneStep("submit") /\ carrier'["submit"].pc = pc
        /\ carrier'["submit"].counted = c.counted
    <3>1. Hold("submit", pc, c, 0) /\ CarrierType /\ "submit" \in Carriers
      BY <1>1, <2>1
    <3>2. QED
      BY <3>1, CarrierHas
  <2>4. Knows("submit")'
    BY <2>1, <2>2, <2>3 DEF Knows
  <2>5. QED
    BY <1>1, <2>3, <2>4, KnowsOne
<1>3. ASSUME NEW r \in Rows, DeliverDelayed(r)
      PROVE  CarrierInv'
  <2>1. carrier' = carrier \/ \E c : Hold("delay", "write", c, 0)
    BY <1>3 DEF DeliverDelayed
  <2>2. CASE carrier' = carrier
    BY <2>2 DEF CarrierInv
  <2>3. QED
    BY <1>1, <2>1, <2>2, KnowsFree
<1>4. ASSUME NEW pc \in {"write", "enqueue", "reset"}, NEW r \in Rows,
             pc = Recovered(r) \/ pc = "reset",
             OneStep("recq"), carrier'["recq"].pc = pc, carrier'["recq"].row = r
      PROVE  CarrierInv'
  <2>1. pc = "enqueue" => r \notin Polled
    BY <1>4 DEF Recovered
  <2>2. Knows("recq")'
    BY <1>4, <2>1 DEF Knows
  <2>3. QED
    BY <1>1, <1>4, <2>2, KnowsOne
<1>5. ASSUME NEW r \in Rows, RecoverVisit(r)
      PROVE  CarrierInv'
  <2>1. PICK c : c = Snapshot(r, FALSE, TRUE)
    OBVIOUS
  <2>2. carrier' = carrier \/ \E pc \in {Recovered(r), "reset"} : Hold("recq", pc, c, 0)
    BY <1>5, <2>1 DEF RecoverVisit
  <2>3. CASE carrier' = carrier
    BY <2>3 DEF CarrierInv
  <2>4. ASSUME NEW pc \in {Recovered(r), "reset"}, Hold("recq", pc, c, 0)
        PROVE  CarrierInv'
    <3>1. OneStep("recq") /\ carrier'["recq"].pc = pc /\ carrier'["recq"].row = c.row
      BY <1>1, <2>4, CarrierHas
    <3>2. c.row = r /\ pc \in {"write", "enqueue", "reset"}
      BY <2>1, <2>4 DEF Snapshot, Recovered
    <3>3. QED
      BY <1>4, <3>1, <3>2
  <2>5. QED
    BY <2>2, <2>3, <2>4
<1>6. CASE RecoverReset
  <2>1. PICK r \in Rows : r = carrier["recq"].row
    BY <1>1, <1>6 DEF RecoverReset, CarrierType
  <2>2. Step("recq", Recovered(r)) \/ Release("recq")
    BY <1>6, <2>1 DEF RecoverReset
  <2>3. CASE Step("recq", Recovered(r))
    <3>1. PICK pc \in {"write", "enqueue", "reset"} : pc = Recovered(r)
      BY DEF Recovered
    <3>2. OneStep("recq") /\ carrier'["recq"].pc = pc /\ carrier'["recq"].row = r
      BY <1>1, <2>1, <2>3, <3>1, CarrierHas
    <3>3. QED
      BY <1>4, <3>1, <3>2
  <2>4. QED
    BY <1>1, <2>2, <2>3, KnowsFree
<1>7. CASE SubmitIfActive
  <2>1. Release("submit") \/ Step("submit", "write")
    BY <1>7 DEF SubmitIfActive
  <2>2. QED
    BY <1>1, <2>1, KnowsFree
<1>8. CASE DrainSwap \/ DrainPaused \/ DrainOpen \/ DrainNext \/ DrainRereadError
  <2>1. OneStep("drain") /\ carrier'["drain"].pc \in {"check", "idle", "loop", "write"}
    <3>1. CASE DrainSwap \/ DrainOpen
      BY <1>1, <3>1, CarrierHas DEF DrainSwap, DrainOpen
    <3>2. CASE DrainPaused
      BY <1>1, <3>2 DEF DrainPaused, CarrierType, Idle, OneStep
    <3>3. CASE DrainNext /\ \E c : Hold("drain", "write", c, 0)
      BY <1>1, <3>3, CarrierHas
    <3>4. CASE (DrainNext \/ DrainRereadError) /\
               carrier' = [carrier EXCEPT !["drain"] = IF Len(draining) > 1 THEN @ ELSE Idle]
      BY <1>1, <3>4 DEF DrainNext, DrainRereadError, CarrierType, Idle, OneStep
    <3>5. QED
      BY <1>8, <3>1, <3>2, <3>3, <3>4 DEF DrainNext, DrainRereadError
  <2>2. Knows("drain")'
    BY <2>1 DEF Knows
  <2>3. QED
    BY <1>1, <2>1, <2>2, KnowsOne
<1>9. QED
  BY <1>2, <1>3, <1>5, <1>6, <1>7, <1>8

LEMMA KnowsNext ==
  ASSUME NoResubmission, TypeInv, CarrierInv, [Next]_vars
  PROVE  CarrierInv'
<1>1. ASSUME carrier' = carrier
      PROVE  CarrierInv'
  BY <1>1 DEF CarrierInv
<1>2. CASE \E w \in Workers : WorkerStep(w) \/ WorkerFault(w)
  <2>1. carrier' = carrier
    BY <1>2 DEF WorkerStep, WorkerFault, Gate, TakeFast, TakeMain, TakeDrop, Claim, ClaimCancelled,
                ReadRound, ReadCancelled, RunEnds, RunCancelled, Persist, PersistCancelled,
                ClaimError, ClaimLost, PersistLost
  <2>2. QED
    BY <1>1, <2>1
<1>3. CASE CarrierStep
  <2>1. CASE \E k \in Carriers : SubmitToPool(k) \/ Enqueue(k) \/ EnqueueFull(k) \/ EnqueueRejected(k)
    BY <2>1, KnowsPool
  <2>2. CASE ErrorReset \/ RepeatReset \/ MarkRequeueFailed
    BY <2>2, KnowsQueues
  <2>3. CASE RetryReset \/ UrgentReset
    BY <2>3 DEF RetryReset, UrgentReset, CarrierInv
  <2>4. CASE \/ SubmitIfActive \/ RecoverReset
             \/ DrainSwap \/ DrainPaused \/ DrainOpen \/ DrainNext
             \/ \E r \in Rows : DeliverDelayed(r) \/ RecoverVisit(r)
    BY <2>4, KnowsTaken
  <2>5. QED
    BY <1>3, <2>1, <2>2, <2>3, <2>4 DEF CarrierStep
<1>4. CASE CarrierFault
  <2>1. ASSUME NEW k \in Carriers, ResetError(k) \/ ResetLost(k)
        PROVE  CarrierInv'
    <3>1. Release(k) /\ carrier[k].pc # "idle" /\ CarrierType
      BY <2>1 DEF ResetError, ResetLost, TypeInv
    <3>2. k \notin {"retry", "urgent"}
      BY <3>1 DEF CarrierInv
    <3>3. QED
      BY <3>1, <3>2, KnowsFree
  <2>2. CASE RecoverSelectError
    BY <1>1, <2>2 DEF RecoverSelectError
  <2>3. QED
    BY <1>4, <2>1, <2>2, KnowsPool, KnowsTaken DEF CarrierFault
<1>5. CASE Trigger
  <2>1. ASSUME NEW r \in Rows,
               SubmitAgain(r) \/ RetryLoad(r) \/ UrgentLoad(r) \/ MarkTaskFailed(r)
        PROVE  FALSE
    BY <2>1 DEF NoResubmission, SubmitAgain, RetryLoad, UrgentLoad, MarkTaskFailed
  <2>2. ASSUME NEW r \in Rows, SubmitNew(r) \/ ErrorSelect(r) \/ RepeatSelect(r)
        PROVE  CarrierInv'
    BY <2>2, KnowsTaken, KnowsQueues
  <2>3. ASSUME NEW r \in Rows, SubmitNewLost(r) \/ DeleteTask(r) \/ SetTaskRepeatInterval(r)
        PROVE  CarrierInv'
    BY <1>1, <2>3 DEF SubmitNewLost, DeleteTask, SetTaskRepeatInterval
  <2>4. CASE Pause \/ Resume \/ Reap
    BY <1>1, <2>4 DEF Pause, Resume, Reap
  <2>5. QED
    BY <1>5, <2>1, <2>2, <2>3, <2>4 DEF Trigger
<1>6. CASE Stop \/ Count \/ Return \/ UNCHANGED vars
  BY <1>1, <1>6 DEF Stop, Count, Return, vars
<1>7. CASE Restart
  BY <1>7 DEF Restart, CarrierInv, Idle, Carriers
<1>8. QED
  BY <1>2, <1>3, <1>4, <1>5, <1>6, <1>7 DEF Next

-----------------------------------------------------------------------------
(* The theorems                                                              *)

LEMMA RoundInit == Init => RoundInv
<1> SUFFICES ASSUME Init PROVE RoundInv
  OBVIOUS
<1>1. Once
  BY DEF Init, Once, NoDup, NoTwin
<1>2. CarrierInv
  BY DEF Init, CarrierInv, Idle, Carriers
<1>3. ASSUME NEW r \in Rows
      PROVE  RowInv(r)
  <2>1. Nowhere(r)
    <3> SUFFICES ASSUME NEW k, NEW i, NEW c, At(k, i, r, c) PROVE FALSE
      BY DEF Nowhere
    <3>1. ~OnLane(k, i, r, c) /\ ~OnTable(k, i, r, c)
      BY DEF Init, OnLane, OnTable, InLane, Listed
    <3>2. ~OnList(k, i, r, c)
      BY DEF Init, OnList
    <3>3. ~OnWorker(k, i, r, c) /\ ~OnCarrier(k, i, r, c)
      BY DEF Init, OnWorker, OnCarrier, AtGate, Idle, Carrying
    <3>4. QED
      BY <3>1, <3>2, <3>3 DEF At
  <2>2. OneAt(r) /\ EndedAt(r)
    BY <2>1 DEF OneAt, EndedAt, Nowhere
  <2>3. StaleAt(r) /\ ActiveAt(r)
    BY DEF Init, StaleAt, ActiveAt, Writes, AtGate
  <2>4. CountAt(r)
    <3>1. repeat[r] = 0 /\ forgot[r] = 0 /\ RepeatLimit \in Nat /\ status[r] = "absent"
      BY EngineAssumption DEF Init
    <3>2. ~ \E k, i : At(k, i, r, FALSE)
      BY <2>1 DEF Nowhere
    <3>3. repeat[r] <= RepeatLimit + forgot[r]
      BY <3>1
    <3>4. QED
      BY <3>1, <3>2, <3>3, Zenon DEF CountAt
  <2>5. QED
    BY <2>2, <2>3, <2>4 DEF RowInv
<1>4. QED
  BY <1>1, <1>2, <1>3 DEF RoundInv, RowsInv

LEMMA RoundAlways ==
  ASSUME NoResubmission
  PROVE  Spec => [](TypeInv /\ RoundInv)
<1>1. TypeInv /\ RoundInv /\ [Next]_vars => RoundInv'
  <2> SUFFICES ASSUME TypeInv, RoundInv, [Next]_vars
               PROVE  RoundInv'
    OBVIOUS
  <2>1. RowsInv' /\ Once' /\ CarrierInv'
    BY RowsNext, OnceNext, KnowsNext DEF RoundInv
  <2>2. QED
    BY <2>1 DEF RoundInv
<1>2. QED
  BY <1>1, RoundInit, TypeInit, TypeNext, PTL DEF Spec

\* The repeat queue stops at its limit.  A copy whose round is not counted yet
\* is the only copy of its row, so the count that brings the row to its limit is
\* the last one, whether the copy was spilled, delayed or drained in between.
\* Only a restart, or a counting UPDATE that commits and loses its answer, makes
\* the program forget a count and may add one round each; no failure that is
\* reported as it happened does.
THEOREM RepeatLimitIsKept ==
  ASSUME NoResubmission
  PROVE  Spec => []RepeatLimitHolds
<1>1. TypeInv /\ RoundInv => RepeatLimitHolds
  <2> SUFFICES ASSUME TypeInv, RoundInv, RepeatLimit > 0, NEW r \in Rows
               PROVE  repeat[r] <= RepeatLimit + forgot[r]
    BY DEF RepeatLimitHolds
  <2>1. CountAt(r)
    BY DEF RoundInv, RowsInv, RowInv
  <2>2. CASE r \in Polled
    BY <2>1, <2>2 DEF CountAt
  <2>3. CASE r \notin Polled
    <3>1. repeat[r] = 0 /\ forgot[r] \in Nat /\ RepeatLimit \in Nat
      BY <2>1, <2>3, EngineAssumption DEF CountAt, TypeInv, LifeType
    <3>2. QED
      BY <3>1
  <2>4. QED
    BY <2>2, <2>3
<1>2. QED
  BY <1>1, RoundAlways, PTL

\* Through refusals, spills, delays, resets, recovery and lost answers a row is
\* in one place at a time, and in none once it has ended: a lane, a table, the
\* delay heap, the startup list, one carrier or one worker.
THEOREM OneCopyPerRow ==
  ASSUME NoResubmission
  PROVE  Spec => [](\A r \in Rows : OneAt(r) /\ EndedAt(r))
<1>1. RoundInv => \A r \in Rows : OneAt(r) /\ EndedAt(r)
  BY DEF RoundInv, RowsInv, RowInv
<1>2. QED
  BY <1>1, RoundAlways, PTL

\* One row is never executed twice at once.  Unlike ExecutionIsExclusive this
\* holds although an outcome whose answer was lost is written again, and although
\* the error queue may meet a stopped pool: nobody makes the second copy either
\* of them would need.
THEOREM OneCopyIsExclusive ==
  ASSUME NoResubmission
  PROVE  Spec => []ExclusiveExecution
<1>1. RoundInv => ExclusiveExecution
  <2> SUFFICES ASSUME RoundInv, NEW v \in Workers, NEW w \in Workers, NEW r \in Rows,
                      Holds(v, r), Holds(w, r)
               PROVE  v = w
    BY DEF ExclusiveExecution
  <2>1. PICK t : t = TRUE
    OBVIOUS
  <2>2. At("worker", v, r, t) /\ At("worker", w, r, t)
    BY <2>1 DEF Holds, At, OnWorker
  <2>3. OneAt(r)
    BY DEF RoundInv, RowsInv, RowInv
  <2>4. QED
    BY <2>2, <2>3 DEF OneAt
<1>2. QED
  BY <1>1, RoundAlways, PTL

\* Nor does anybody change the round of a row that is executed: a repeated write
\* of an earlier outcome finds another round or another status.
THEOREM OneCopyIsUntouched ==
  ASSUME NoResubmission
  PROVE  Spec => []RunningRowUntouched
<1>1. TypeInv /\ RoundInv => RunningRowUntouched
  <2> SUFFICES ASSUME TypeInv, RoundInv, NEW w \in Workers, worker[w].pc = "run"
               PROVE  Fenced(w)
    BY DEF RunningRowUntouched
  <2>1. PICK r \in Rows : r = worker[w].row
    BY DEF TypeInv, WorkerType
  <2>2. ActiveAt(r)
    BY DEF RoundInv, RowsInv, RowInv
  <2>3. QED
    BY <2>1, <2>2 DEF ActiveAt
<1>2. QED
  BY <1>1, RoundAlways, PTL

-----------------------------------------------------------------------------
(* The life cycle of TaskLife                                                *)

\* A held row is in processing, has one holder and no copy elsewhere.
LEMMA HolderHas ==
  ASSUME NEW r \in Rows, RowInv(r), NEW w \in Owners(r)
  PROVE  status[r] = "processing" /\ Owners(r) = {w} /\ \A k, c : ~At("carrier", k, r, c)
<1>1. \A v \in Owners(r) : v \in Workers /\ worker[v].row = r
  BY DEF Owners
<1>2. PICK t : t = TRUE
  OBVIOUS
<1>3. \A v \in Owners(r) : At("worker", v, r, t)
  BY <1>2 DEF Owners, At, OnWorker
<1>4. \A v \in Owners(r) : v = w
  BY <1>3 DEF RowInv, OneAt
<1>5. status[r] = "processing"
  BY <1>1 DEF RowInv, ActiveAt, Owners, Fenced
<1>6. "carrier" # "worker"
  OBVIOUS
<1>7. \A k, c : ~At("carrier", k, r, c)
  BY <1>3, <1>6 DEF RowInv, OneAt
<1>8. QED
  BY <1>4, <1>5, <1>7

LEMMA HolderIs ==
  RowsInv => \A q \in Rows : /\ \A v, w \in Owners(q) : v = w
                             /\ Owners(q) # {} => status[q] = "processing"
  BY HolderHas DEF RowsInv

\* The same in the next state.
LEMMA HolderNext ==
  ASSUME RowsInv'
  PROVE  \A q \in Rows : /\ \A v, w \in Owners(q)' : v = w
                         /\ Owners(q)' # {} => status'[q] = "processing"
<1>1. RowsInv' => (\A q \in Rows : /\ \A v, w \in Owners(q) : v = w
                                   /\ Owners(q) # {} => status[q] = "processing")'
  BY HolderIs, PTL
<1>2. QED
  BY <1>1

\* Who holds a row is a matter of its round and of the workers with that row.
LEMMA OwnersStay ==
  ASSUME NEW r, Still(r),
         \A w \in Workers : worker[w].row = r \/ worker'[w].row = r => worker'[w] = worker[w]
  PROVE  Owners(r)' = Owners(r)
  BY DEF Owners, Fenced, Still

\* A write of a row that is free before and after, nobody else's holder changing.
LEMMA LifeWrites ==
  ASSUME TypeInv, NEW r \in Rows, NEW s, NEW dr \in Nat, NEW dp \in Nat,
         status' = [status EXCEPT ![r] = s],
         repeat' = [repeat EXCEPT ![r] = @ + dr], reprocess' = [reprocess EXCEPT ![r] = @ + dp],
         Owners(r) = {}, Owners(r)' = {}, \A q \in Rows \ {r} : Owners(q)' = Owners(q),
         NEW n, n = dr + dp
  PROVE  Life!Write(r, s, n)
<1>1. [q \in Rows |-> Owners(q)]' = [q \in Rows |-> Owners(q)]
  OBVIOUS
<1>2. \A q \in Rows : repeat'[q] + reprocess'[q] =
        IF q = r THEN repeat[q] + reprocess[q] + n ELSE repeat[q] + reprocess[q]
  BY DEF TypeInv, RowType
<1>3. [q \in Rows |-> repeat[q] + reprocess[q]]' =
        [[q \in Rows |-> repeat[q] + reprocess[q]] EXCEPT ![r] = @ + n]
  BY <1>2
<1>4. QED
  BY <1>1, <1>3 DEF Life!Write, Life!Free

\* The holder of a row lets go of it.
LEMMA LifeLetsGo ==
  ASSUME NEW r \in Rows, NEW w \in Workers, NEW s,
         status' = [status EXCEPT ![r] = s], UNCHANGED <<repeat, reprocess>>,
         Owners(r) = {w}, Owners(r)' = {}, \A q \in Rows \ {r} : Owners(q)' = Owners(q)
  PROVE  Life!LetGo(w, r, s)
<1>1. [q \in Rows |-> Owners(q)]' = [[q \in Rows |-> Owners(q)] EXCEPT ![r] = {}]
  OBVIOUS
<1>2. [q \in Rows |-> repeat[q] + reprocess[q]]' = [q \in Rows |-> repeat[q] + reprocess[q]]
  OBVIOUS
<1>3. QED
  BY <1>1, <1>2 DEF Life!LetGo

\* Neither a column nor a holder changes.
LEMMA LifeStays ==
  ASSUME UNCHANGED <<status, repeat, reprocess>>, \A q \in Rows : Owners(q)' = Owners(q)
  PROVE  UNCHANGED Life!lifeVars
<1>1. [q \in Rows |-> Owners(q)]' = [q \in Rows |-> Owners(q)]
  OBVIOUS
<1>2. [q \in Rows |-> repeat[q] + reprocess[q]]' = [q \in Rows |-> repeat[q] + reprocess[q]]
  OBVIOUS
<1>3. QED
  BY <1>1, <1>2 DEF Life!lifeVars

\* An UPDATE that takes no row to processing, of a row nobody holds.
LEMMA LifeUpdates ==
  ASSUME TypeInv, RowsInv', NEW r \in Rows, NEW hit \in BOOLEAN, NEW s, s # "processing",
         NEW dr \in Nat, NEW dp \in Nat, NEW u, Update(hit, r, s, dr, dp, u), worker' = worker,
         hit => Owners(r) = {}, NEW n, n = dr + dp
  PROVE  /\ hit => Life!Write(r, s, n)
         /\ ~hit => UNCHANGED Life!lifeVars
<1>1. (\A q \in Rows \ {r} : Still(q)) /\ (hit => status'[r] = s) /\ (~hit => Still(r))
  BY UpdateHas DEF TypeInv
<1>2. \A q \in Rows : Still(q) => Owners(q)' = Owners(q)
  BY OwnersStay
<1>3. CASE hit
  <2>1. /\ status' = [status EXCEPT ![r] = s]
        /\ repeat' = [repeat EXCEPT ![r] = @ + dr] /\ reprocess' = [reprocess EXCEPT ![r] = @ + dp]
    BY <1>3 DEF Update
  <2>2. Owners(r)' = {}
    BY <1>1, <1>3, HolderNext DEF RowsInv
  <2>3. QED
    BY <1>1, <1>2, <1>3, <2>1, <2>2, LifeWrites
<1>4. CASE ~hit
  <2>1. UNCHANGED <<status, repeat, reprocess>>
    BY <1>4 DEF Update
  <2>2. QED
    BY <1>1, <1>2, <1>4, <2>1, LifeStays
<1>5. QED
  BY <1>3, <1>4

\* A row that is not in processing, or that a carrier has, is free.
LEMMA FreeRow ==
  ASSUME NEW r \in Rows, RowInv(r), status[r] # "processing" \/ \E k, c : At("carrier", k, r, c)
  PROVE  Owners(r) = {}
  BY HolderHas

\* A reset whose answer is lost is the same write as the reset itself.
LEMMA LifeResets ==
  ASSUME TypeInv, RoundInv, RowsInv', NEW k \in Carriers, ResetLost(k)
  PROVE  Life!Next \/ UNCHANGED Life!lifeVars
<1>1. PICK r \in Rows, n \in {0, 1}, u \in BOOLEAN :
        r = carrier[k].row /\ Update(TRUE, r, "pending", 0, n, u)
  BY ResetLostWrites
<1>2. carrier[k].pc = "reset" /\ worker' = worker
  BY DEF ResetLost
<1>3. k \in {"errq", "repq", "recq"}
  BY <1>2 DEF ResetLost, RoundInv, CarrierInv
<1>4. Owners(r) = {}
  <2>1. CASE k = "recq"
    <3>1. PICK c \in BOOLEAN : c = carrier[k].counted
      BY DEF TypeInv, CarrierType, CarrierState
    <3>2. At("carrier", k, r, c)
      BY <1>1, <1>2, <2>1, <3>1, CarrierAt
    <3>3. QED
      BY <3>2, FreeRow DEF RoundInv, RowsInv
  <2>2. CASE k \in {"errq", "repq"}
    <3>1. status[r] # "processing"
      BY <1>1, <2>2 DEF ResetLost, Terminal
    <3>2. QED
      BY <3>1, FreeRow DEF RoundInv, RowsInv
  <2>3. QED
    BY <1>3, <2>1, <2>2
<1>5. Life!Write(r, "pending", n)
  <2>1. n \in Nat /\ 0 \in Nat /\ n = 0 + n
    OBVIOUS
  <2>2. PICK hit, s : hit = TRUE /\ s = "pending" /\ s # "processing" /\ Update(hit, r, s, 0, n, u)
    BY <1>1
  <2>3. hit => Life!Write(r, s, n)
    BY <1>2, <1>4, <2>1, <2>2, LifeUpdates
  <2>4. QED
    BY <2>2, <2>3
<1>6. CASE k \in {"errq", "repq"}
  <2>1. status[r] \in Terminal
    BY <1>1, <1>6 DEF ResetLost, Terminal
  <2>2. QED
    BY <1>5, <2>1 DEF Life!Next, Life!Requeue, Life!Ended, Terminal
<1>7. CASE k = "recq"
  <2>1. status[r] \in {"pending", "processing"} /\ n = 0
    <3>1. /\ status[r] \in {"pending", "processing"}
          /\ reprocess' = [reprocess EXCEPT ![r] = @ + 0]
      BY <1>1, <1>7 DEF ResetLost, SetStatus, Update
    <3>2. reprocess' = [reprocess EXCEPT ![r] = @ + n]
      BY <1>1 DEF Update
    <3>3. QED
      BY <3>1, <3>2 DEF TypeInv, RowType
  <2>2. CASE status[r] = "processing"
    BY <1>5, <2>1, <2>2 DEF Life!Next, Life!Recover
  <2>3. CASE status[r] = "pending"
    <3>1. /\ status' = [status EXCEPT ![r] = status[r]]
          /\ repeat' = [repeat EXCEPT ![r] = repeat[r] + 0]
          /\ reprocess' = [reprocess EXCEPT ![r] = reprocess[r] + 0]
      BY <1>1, <2>1, <2>3 DEF Update
    <3>2. UNCHANGED <<status, repeat, reprocess>>
      BY <3>1 DEF TypeInv, RowType
    <3>3. QED
      BY <1>2, <3>2, LifeStays, OwnersStay DEF Still
  <2>4. QED
    BY <2>1, <2>2, <2>3
<1>8. QED
  BY <1>3, <1>6, <1>7

\* Submissions and queues find the rows they write free.
LEMMA LifeQueues ==
  ASSUME TypeInv, RoundInv, RowsInv', CarrierStep \/ CarrierFault
  PROVE  Life!Next \/ UNCHANGED Life!lifeVars
<1>0. 0 \in Nat /\ 1 \in Nat /\ 0 = 0 + 0 /\ 1 = 0 + 1 /\ \A n \in {0, 1} : n \in Nat /\ n = n + 0
  OBVIOUS
<1>1. CASE \E k \in Carriers : SubmitToPool(k) \/ SubmitToPoolLost(k)
  <2>1. PICK k \in Carriers, r \in Rows :
          (SubmitToPool(k) \/ SubmitToPoolLost(k)) /\ r = carrier[k].row
    BY <1>1 DEF SubmitToPool, SubmitToPoolLost, TypeInv, CarrierType
  <2>2. PICK hit \in BOOLEAN, n \in {0, 1}, s \in {"pending"} :
          hit = (status[r] = s) /\ Update(hit, r, s, n, 0, urgent[r])
    <3>1. CASE SubmitToPool(k)
      BY <2>1, <3>1 DEF SubmitToPool
    <3>2. CASE SubmitToPoolLost(k)
      <4>1. \E n \in {0, 1} : Update(TRUE, r, "pending", n, 0, urgent[r])
        BY <2>1, <3>2 DEF SubmitToPoolLost
      <4>2. status[r] = "pending"
        BY <2>1, <3>2 DEF SubmitToPoolLost
      <4>3. QED
        BY <4>1, <4>2
    <3>3. QED
      BY <2>1, <3>1, <3>2
  <2>3. worker' = worker /\ s # "processing" /\ (hit => Owners(r) = {})
    BY <2>1, <2>2, FreeRow DEF SubmitToPool, SubmitToPoolLost, RoundInv, RowsInv
  <2>4. /\ hit => Life!Write(r, s, n)
        /\ ~hit => UNCHANGED Life!lifeVars
    BY <1>0, <2>2, <2>3, LifeUpdates
  <2>5. CASE n = 1
    BY <2>2, <2>4, <2>5 DEF Life!Next, Life!Count
  <2>6. CASE n = 0
    <3>1. CASE hit
      <4>1. /\ status' = [status EXCEPT ![r] = status[r]]
            /\ repeat' = [repeat EXCEPT ![r] = repeat[r] + 0]
            /\ reprocess' = [reprocess EXCEPT ![r] = reprocess[r] + 0]
        BY <2>2, <2>6, <3>1 DEF Update
      <4>2. UNCHANGED <<status, repeat, reprocess>>
        BY <4>1 DEF TypeInv, RowType
      <4>3. QED
        BY <2>3, <4>2, LifeStays, OwnersStay DEF Still
    <3>2. QED
      BY <2>4, <3>1
  <2>7. QED
    BY <2>5, <2>6
<1>2. CASE ErrorReset
  <2>1. PICK r \in Rows : r = carrier["errq"].row
    BY <1>2 DEF ErrorReset, TypeInv, CarrierType, Carriers
  <2>2. PICK hit \in BOOLEAN, s \in {"pending"} :
          /\ hit = (status[r] = "failed")
          /\ Update(hit, r, s, 0, 1, urgent[r])
    BY <1>2, <2>1 DEF ErrorReset
  <2>3. worker' = worker /\ s # "processing" /\ (hit => Owners(r) = {})
    BY <1>2, <2>2, FreeRow DEF ErrorReset, RoundInv, RowsInv
  <2>4. /\ hit => Life!Write(r, s, 1)
        /\ ~hit => UNCHANGED Life!lifeVars
    BY <1>0, <2>2, <2>3, LifeUpdates
  <2>5. QED
    BY <2>2, <2>4 DEF Life!Next, Life!Requeue, Life!Ended
<1>3. CASE RepeatReset
  <2>1. PICK r \in Rows : r = carrier["repq"].row
    BY <1>3 DEF RepeatReset, TypeInv, CarrierType, Carriers
  <2>2. PICK hit \in BOOLEAN, s \in {"pending"} :
          /\ (hit => status[r] \in Terminal)
          /\ Update(hit, r, s, 0, 0, urgent[r])
    BY <1>3, <2>1 DEF RepeatReset, SetStatus
  <2>3. worker' = worker /\ s # "processing" /\ (hit => Owners(r) = {})
    BY <1>3, <2>2, FreeRow DEF RepeatReset, RoundInv, RowsInv, Terminal
  <2>4. /\ hit => Life!Write(r, s, 0)
        /\ ~hit => UNCHANGED Life!lifeVars
    BY <1>0, <2>2, <2>3, LifeUpdates
  <2>5. QED
    BY <2>2, <2>4 DEF Life!Next, Life!Requeue, Life!Ended, Terminal
<1>4. CASE RecoverReset
  <2>1. PICK r \in Rows, c \in BOOLEAN : r = carrier["recq"].row /\ c = carrier["recq"].counted
    <3>1. carrier["recq"] \in CarrierState
      BY DEF TypeInv, CarrierType, Carriers
    <3>2. carrier["recq"].row \in Rows
      BY <1>4 DEF RecoverReset, TypeInv, CarrierType, Carriers
    <3>3. QED
      BY <3>1, <3>2 DEF CarrierState
  <2>2. PICK hit \in BOOLEAN, s \in {"pending"} :
          /\ hit => status[r] \in {"pending", "processing"}
          /\ Update(hit, r, s, 0, 0, urgent[r])
    <3>1. Update(status[r] \in {"pending", "processing"}, r, "pending", 0, 0, urgent[r])
      BY <1>4, <2>1 DEF RecoverReset, SetStatus
    <3>2. PICK hit \in BOOLEAN : hit <=> status[r] \in {"pending", "processing"}
      OBVIOUS
    <3>3. QED
      BY <3>1, <3>2 DEF Update
  <2>3. worker' = worker /\ s # "processing" /\ Owners(r) = {}
    <3>1. PICK k, i : k = "carrier" /\ i = "recq" /\ At(k, i, r, c)
      BY <1>4, <2>1 DEF RecoverReset, At, OnCarrier, Carriers
    <3>2. QED
      BY <1>4, <2>2, <3>1, FreeRow DEF RecoverReset, RoundInv, RowsInv
  <2>4. /\ hit => Life!Write(r, s, 0)
        /\ ~hit => UNCHANGED Life!lifeVars
    BY <1>0, <2>2, <2>3, LifeUpdates
  <2>5. CASE hit /\ status[r] = "pending"
    <3>1. /\ status' = [status EXCEPT ![r] = status[r]]
          /\ repeat' = [repeat EXCEPT ![r] = repeat[r] + 0]
          /\ reprocess' = [reprocess EXCEPT ![r] = reprocess[r] + 0]
      BY <2>2, <2>5 DEF Update
    <3>2. UNCHANGED <<status, repeat, reprocess>>
      BY <3>1 DEF TypeInv, RowType
    <3>3. QED
      BY <2>3, <3>2, LifeStays, OwnersStay DEF Still
  <2>6. QED
    BY <2>2, <2>4, <2>5 DEF Life!Next, Life!Recover
<1>5. CASE MarkRequeueFailed
  <2>1. PICK r \in Rows, c \in BOOLEAN : r = carrier["errq"].row /\ c = carrier["errq"].counted
    <3>1. carrier["errq"] \in CarrierState
      BY DEF TypeInv, CarrierType, Carriers
    <3>2. carrier["errq"].row \in Rows
      BY <1>5 DEF MarkRequeueFailed, TypeInv, CarrierType, Carriers
    <3>3. QED
      BY <3>1, <3>2 DEF CarrierState
  <2>2. PICK hit \in BOOLEAN, s \in {"failed"} :
          /\ (hit => status[r] \notin {"absent", "gone", s})
          /\ Update(hit, r, s, 0, 0, urgent[r])
    BY <1>5, <2>1 DEF MarkRequeueFailed, SetStatus
  <2>3. PICK k, i : k = "carrier" /\ i = "errq" /\ At(k, i, r, c)
    BY <1>5, <2>1 DEF MarkRequeueFailed, At, OnCarrier, Carriers, Carrying
  <2>4. worker' = worker /\ s # "processing" /\ Owners(r) = {}
    BY <1>5, <2>2, <2>3, FreeRow DEF MarkRequeueFailed, RoundInv, RowsInv
  <2>5. hit => status[r] \in {"pending", "processing"}
    <3>1. status[r] \notin Terminal
      BY <2>3 DEF RoundInv, RowsInv, RowInv, EndedAt, Nowhere
    <3>2. status[r] \in Statuses
      BY DEF TypeInv, RowType
    <3>3. QED
      BY <2>2, <3>1, <3>2 DEF Statuses, Terminal
  <2>6. /\ hit => Life!Write(r, s, 0)
        /\ ~hit => UNCHANGED Life!lifeVars
    BY <1>0, <2>2, <2>4, LifeUpdates
  <2>7. QED
    BY <2>2, <2>5, <2>6 DEF Life!Next, Life!MarkFailed
<1>6. ~RetryReset /\ ~UrgentReset
  BY DEF RetryReset, UrgentReset, RoundInv, CarrierInv
<1>7. CASE \/ SubmitIfActive \/ DrainSwap \/ DrainPaused \/ DrainOpen \/ DrainNext
           \/ DrainRereadError
           \/ \E q \in Rows : DeliverDelayed(q) \/ RecoverVisit(q)
           \/ \E k \in Carriers : \/ Enqueue(k) \/ EnqueueFull(k) \/ EnqueueRejected(k)
                                  \/ SubmitToPoolError(k) \/ ResetError(k)
           \/ RecoverSelectError
  <2>1. UNCHANGED <<status, repeat, reprocess>> /\ worker' = worker
    BY <1>7 DEF SubmitIfActive, DrainSwap, DrainPaused, DrainOpen, DrainNext, DrainRereadError,
       DeliverDelayed, RecoverVisit, Enqueue, EnqueueFull, EnqueueRejected, SubmitToPoolError,
       ResetError, RecoverSelectError
  <2>2. QED
    BY <2>1, LifeStays, OwnersStay DEF Still
<1>8. CASE \E k \in Carriers : ResetLost(k)
  BY <1>8, LifeResets
<1>9. QED
  BY <1>1, <1>2, <1>3, <1>4, <1>5, <1>6, <1>7, <1>8 DEF CarrierStep, CarrierFault

\* So do a new submission and a delete; the operators that do not are excluded.
LEMMA LifeOperators ==
  ASSUME NoResubmission, TypeInv, RoundInv, RowsInv', Trigger
  PROVE  Life!Next \/ UNCHANGED Life!lifeVars
<1>0. 0 \in Nat /\ 0 = 0 + 0
  OBVIOUS
<1>1. CASE \E r \in Rows : SubmitNew(r) \/ SubmitNewLost(r)
  <2>1. PICK r \in Rows : SubmitNew(r) \/ SubmitNewLost(r)
    BY <1>1
  <2>2. PICK hit \in BOOLEAN, s \in {"pending"}, u \in BOOLEAN : hit /\ Update(hit, r, s, 0, 0, u)
    <3>1. PICK u \in Marks : Update(TRUE, r, "pending", 0, 0, u)
      BY <2>1 DEF SubmitNew, SubmitNewLost
    <3>2. QED
      BY <3>1, MarksType
  <2>3. worker' = worker /\ status[r] = "absent" /\ s # "processing" /\ Owners(r) = {}
    BY <2>1, <2>2, FreeRow DEF SubmitNew, SubmitNewLost, RoundInv, RowsInv
  <2>4. Life!Write(r, s, 0)
    BY <1>0, <2>2, <2>3, LifeUpdates
  <2>5. QED
    BY <2>2, <2>3, <2>4 DEF Life!Next, Life!Submit
<1>2. CASE \E r \in Rows : DeleteTask(r)
  <2>1. PICK r \in Rows : DeleteTask(r)
    BY <1>2
  <2>2. /\ status[r] \in {"pending"} \cup Terminal /\ status' = [status EXCEPT ![r] = "gone"]
        /\ UNCHANGED <<repeat, reprocess>> /\ worker' = worker
    BY <2>1 DEF DeleteTask
  <2>3. Owners(r) = {}
    BY <2>2, FreeRow DEF RoundInv, RowsInv, Terminal
  <2>4. /\ status'[r] # "processing"
        /\ repeat' = [repeat EXCEPT ![r] = @ + 0] /\ reprocess' = [reprocess EXCEPT ![r] = @ + 0]
    BY <2>2 DEF TypeInv, RowType
  <2>5. Owners(r)' = {} /\ \A q \in Rows \ {r} : Owners(q)' = Owners(q)
    BY <2>2, <2>4, HolderNext, OwnersStay DEF RowsInv, Still
  <2>6. Life!Write(r, "gone", 0)
    BY <1>0, <2>2, <2>3, <2>4, <2>5, LifeWrites
  <2>7. QED
    BY <2>2, <2>6 DEF Life!Next, Life!Delete, Life!Ended, Terminal
<1>3. CASE \E r \in Rows : SetTaskRepeatInterval(r)
  <2>1. PICK r \in Rows : SetTaskRepeatInterval(r)
    BY <1>3
  <2>2. /\ status' = [status EXCEPT ![r] = status[r]]
        /\ repeat' = [repeat EXCEPT ![r] = repeat[r] + 0]
        /\ reprocess' = [reprocess EXCEPT ![r] = reprocess[r] + 0]
        /\ worker' = worker
    BY <2>1 DEF SetTaskRepeatInterval, SetStatus, Update
  <2>3. UNCHANGED <<status, repeat, reprocess>>
    BY <2>2 DEF TypeInv, RowType
  <2>4. QED
    BY <2>2, <2>3, LifeStays, OwnersStay DEF Still
<1>4. CASE Pause \/ Resume \/ \E r \in Rows : ErrorSelect(r) \/ RepeatSelect(r)
  <2>1. UNCHANGED <<status, repeat, reprocess>> /\ worker' = worker
    BY <1>4 DEF ErrorSelect, RepeatSelect, Pause, Resume
  <2>2. QED
    BY <2>1, LifeStays, OwnersStay DEF Still
<1>5. ASSUME NEW r \in Rows
      PROVE  ~SubmitAgain(r) /\ ~RetryLoad(r) /\ ~UrgentLoad(r) /\ ~MarkTaskFailed(r)
  BY DEF NoResubmission, SubmitAgain, RetryLoad, UrgentLoad, MarkTaskFailed
<1>6. CASE Reap
  <2>1. UNCHANGED <<status, repeat, reprocess>>
    BY <1>6 DEF Reap
  <2>2. \A w \in Workers : worker'[w].row = worker[w].row /\ worker'[w].pc = worker[w].pc
                          /\ (Fenced(w)' <=> Fenced(w))
    BY <1>6, <2>1, ReapAlike DEF Alike, Fenced
  <2>3. \A q \in Rows : Owners(q)' = Owners(q)
    BY <2>2 DEF Owners
  <2>4. QED
    BY <2>1, <2>3, LifeStays
<1>7. QED
  BY <1>1, <1>2, <1>3, <1>4, <1>5, <1>6 DEF Trigger

\* The step of one worker: whether it holds a row is all that may change ...
LEMMA OwnersOf ==
  ASSUME NEW w \in Workers, OneWorker(w), NEW q \in Rows, Still(q),
         w \in Owners(q)' <=> w \in Owners(q)
  PROVE  Owners(q)' = Owners(q)
<1>1. \A v \in Workers \ {w} : v \in Owners(q)' <=> v \in Owners(q)
  BY DEF OneWorker, Owners, Fenced, Still
<1>2. \A v \in Owners(q) \cup Owners(q)' : v \in Workers
  BY DEF Owners
<1>3. QED
  BY <1>1, <1>2

\* ... and that only of the row it works on.
LEMMA OwnersElse ==
  ASSUME NEW w \in Workers, OneWorker(w), NEW r, worker[w].row = r,
         worker'[w].row = r \/ worker'[w].pc = "gate", \A q \in Rows \ {r} : Still(q)
  PROVE  \A q \in Rows \ {r} : Owners(q)' = Owners(q)
<1>1. ASSUME NEW q \in Rows \ {r}
      PROVE  w \notin Owners(q)' /\ w \notin Owners(q)
  BY DEF Owners
<1>2. QED
  BY <1>1, OwnersOf

\* A worker that holds nothing before and after, or goes on with what it holds.
LEMMA LifeGoesOn ==
  ASSUME TypeInv, RoundInv, NEW w \in Workers,
         \/ Gate(w) \/ TakeFast(w) \/ TakeMain(w) \/ TakeDrop(w)
         \/ ClaimError(w) \/ ClaimCancelled(w)
         \/ ReadRound(w) \/ \E out \in Terminal : RunEnds(w, out)
  PROVE  UNCHANGED Life!lifeVars
<1>1. UNCHANGED <<status, repeat, reprocess>>
  BY DEF Gate, TakeFast, TakeMain, TakeDrop, ClaimError, ClaimCancelled, ReadRound, RunEnds
<1>2. OneWorker(w)
  BY DEF OneWorker, Gate, TakeFast, TakeMain, TakeDrop, ClaimError, ClaimCancelled, ReadRound,
     RunEnds, Grab, Move, Leave, TypeInv, WorkerType
<1>3. \A q \in Rows : w \in Owners(q)' <=> w \in Owners(q)
  <2>1. CASE worker[w].pc \in {"gate", "ready", "claim"} /\ worker'[w].pc \in {"gate", "ready", "claim"}
    BY <2>1 DEF Owners
  <2>2. CASE \/ Gate(w) \/ TakeFast(w) \/ TakeMain(w) \/ TakeDrop(w)
             \/ ClaimError(w) \/ ClaimCancelled(w)
    <3>1. worker[w].pc \in {"gate", "ready", "claim"}
      BY <2>2 DEF Gate, TakeFast, TakeMain, TakeDrop, ClaimError, ClaimCancelled
    <3>2. worker'[w].pc \in {"gate", "ready", "claim"}
      <4>1. CASE Gate(w)
        BY <4>1 DEF Gate, Grab, Move, AtGate, TypeInv, WorkerType, WorkerState
      <4>2. CASE TakeFast(w) \/ TakeMain(w)
        BY <4>2 DEF TakeFast, TakeMain, Grab, AtGate, TypeInv, WorkerType
      <4>3. CASE TakeDrop(w)
        BY <4>3 DEF TakeDrop
      <4>4. CASE ClaimError(w)
        BY <4>4 DEF ClaimError, TypeInv, WorkerType, WorkerState
      <4>5. CASE ClaimCancelled(w)
        BY <4>5 DEF ClaimCancelled, Leave, AtGate, TypeInv, WorkerType
      <4>6. QED
        BY <2>2, <4>1, <4>2, <4>3, <4>4, <4>5
    <3>3. QED
      BY <2>1, <3>1, <3>2
  <2>3. CASE ReadRound(w)
    <3>1. PICK r \in Rows : r = worker[w].row
      BY <2>3 DEF ReadRound, TypeInv, WorkerType
    <3>2. worker[w].pc = "read" /\ status[r] = "processing"
      BY <2>3, <3>1 DEF ReadRound, RoundInv, RowsInv, RowInv, ActiveAt
    <3>3. worker'[w].pc = "run" /\ worker'[w].row = r
      BY <2>3, <3>1, <3>2 DEF ReadRound, TypeInv, WorkerType, WorkerState
    <3>4. QED
      BY <3>1, <3>2, <3>3 DEF Owners
  <2>4. CASE \E out \in Terminal : RunEnds(w, out)
    <3>1. PICK r \in Rows, out \in Terminal : r = worker[w].row /\ RunEnds(w, out)
      <4>1. PICK out \in Terminal : RunEnds(w, out)
        BY <2>4
      <4>2. worker[w].row \in Rows
        <5>1. worker[w].pc = "run"
          BY <4>1 DEF RunEnds
        <5>2. QED
          BY <5>1 DEF TypeInv, WorkerType
      <4>3. QED
        BY <4>1, <4>2
    <3>2. /\ worker[w].pc = "run"
          /\ worker' = [worker EXCEPT ![w].pc = "persist", ![w].out = out]
      BY <3>1 DEF RunEnds
    <3>3. worker'[w].pc = "persist" /\ worker'[w].row = r
          /\ worker'[w].rep = worker[w].rep /\ worker'[w].rpr = worker[w].rpr
      BY <3>1, <3>2 DEF TypeInv, WorkerType, WorkerState
    <3>4. Fenced(w)
      BY <3>1, <3>2 DEF RoundInv, RowsInv, RowInv, ActiveAt
    <3>5. Fenced(w)'
      BY <1>1, <3>1, <3>3, <3>4 DEF Fenced
    <3>6. QED
      BY <3>1, <3>2, <3>3, <3>5 DEF Owners
  <2>5. QED
    BY <2>2, <2>3, <2>4
<1>4. \A q \in Rows : Owners(q)' = Owners(q)
  BY <1>1, <1>2, <1>3, OwnersOf DEF Still
<1>5. QED
  BY <1>1, <1>4, LifeStays

\* A claim makes its worker the holder of a free row, or nobody if its answer is
\* lost; a worker with an outcome of an earlier round does not become one.
LEMMA LifeClaims ==
  ASSUME TypeInv, RoundInv, RowsInv', NEW w \in Workers, Claim(w) \/ ClaimLost(w)
  PROVE  Life!Next \/ UNCHANGED Life!lifeVars
<1>1. PICK r \in Rows : r = worker[w].row /\ RowInv(r) /\ RowInv(r)'
  BY DEF Claim, ClaimLost, TypeInv, WorkerType, RoundInv, RowsInv
<1>2. worker[w].pc = "claim" /\ OneWorker(w)
  BY DEF Claim, ClaimLost, Move, Leave, TypeInv, WorkerType, OneWorker
<1>3. CASE Claim(w) /\ status[r] # "pending"
  <2>1. UNCHANGED <<status, repeat, reprocess>> /\ Leave(w)
    BY <1>1, <1>3 DEF Claim, Update
  <2>2. worker'[w].pc = "gate"
    BY <2>1 DEF Leave, AtGate, TypeInv, WorkerType
  <2>3. \A q \in Rows : w \notin Owners(q) /\ w \notin Owners(q)'
    BY <1>2, <2>2 DEF Owners
  <2>4. \A q \in Rows : Owners(q)' = Owners(q)
    BY <1>2, <2>1, <2>3, OwnersOf DEF Still
  <2>5. QED
    BY <2>1, <2>4, LifeStays
<1>4. CASE status[r] = "pending" /\ worker'[w].row = r /\ worker'[w].pc \in {"claim", "read"}
           /\ Update(TRUE, r, "processing", 0, 0, FALSE)
  <2>1. PICK hit \in BOOLEAN, s \in {"processing"} :
          hit /\ Update(hit, r, s, 0, 0, FALSE)
    BY <1>4
  <2>2. /\ status' = [status EXCEPT ![r] = s]
        /\ repeat' = [repeat EXCEPT ![r] = @ + 0] /\ reprocess' = [reprocess EXCEPT ![r] = @ + 0]
    BY <2>1 DEF Update
  <2>3. \A q \in Rows \ {r} : Still(q)
    BY <2>2 DEF Still, TypeInv, RowType
  <2>4. Owners(r) = {} /\ \A q \in Rows \ {r} : Owners(q)' = Owners(q)
    BY <1>1, <1>2, <1>4, <2>3, FreeRow, OwnersElse
  <2>5. \A v \in Owners(r)' : v = w
    <3>1. PICK k, t : k = "worker" /\ t = TRUE
      OBVIOUS
    <3>2. At(k, w, r, t)'
      BY <1>4, <3>1 DEF At, OnWorker
    <3>3. \A v \in Owners(r)' : At(k, v, r, t)'
      BY <3>1 DEF At, OnWorker, Owners
    <3>4. QED
      BY <1>1, <3>2, <3>3 DEF RowInv, OneAt
  <2>6. CASE worker'[w].pc = "claim"
    <3>1. Owners(r)' = {}
      BY <2>5, <2>6 DEF Owners
    <3>2. 0 \in Nat /\ 0 = 0 + 0
      OBVIOUS
    <3>3. Life!Write(r, s, 0)
      BY <2>2, <2>4, <3>1, <3>2, LifeWrites
    <3>4. QED
      BY <1>4, <2>1, <3>3 DEF Life!Next, Life!StartLost
  <2>7. CASE worker'[w].pc = "read"
    <3>1. Owners(r)' = {w}
      BY <1>4, <2>5, <2>7 DEF Owners
    <3>2. [q \in Rows |-> Owners(q)]' = [[q \in Rows |-> Owners(q)] EXCEPT ![r] = {w}]
      BY <2>4, <3>1
    <3>3. UNCHANGED <<repeat, reprocess>>
      BY <2>2 DEF TypeInv, RowType
    <3>4. [q \in Rows |-> repeat[q] + reprocess[q]]' = [q \in Rows |-> repeat[q] + reprocess[q]]
      BY <3>3
    <3>5. Life!Start(w, r)
      BY <1>4, <2>1, <2>2, <2>4, <3>2, <3>4 DEF Life!Start, Life!Free
    <3>6. QED
      BY <3>5 DEF Life!Next
  <2>8. QED
    BY <1>4, <2>6, <2>7
<1>5. CASE ClaimLost(w)
  <2>1. worker'[w].row = r /\ worker'[w].pc = "claim"
    BY <1>1, <1>5 DEF ClaimLost, TypeInv, WorkerType, WorkerState
  <2>2. QED
    BY <1>1, <1>4, <1>5, <2>1 DEF ClaimLost
<1>6. CASE Claim(w) /\ status[r] = "pending"
  <2>1. Update(TRUE, r, "processing", 0, 0, FALSE) /\ Move(w, "read")
    BY <1>1, <1>6 DEF Claim
  <2>2. worker'[w].row = r /\ worker'[w].pc = "read"
    BY <1>1, <2>1 DEF Move, TypeInv, WorkerType, WorkerState
  <2>3. QED
    BY <1>4, <1>6, <2>1, <2>2
<1>7. QED
  BY <1>3, <1>5, <1>6

\* The end of a claim: the holder gives the row back, lets go of it or ends it;
\* an outcome that was overtaken ends nothing.
LEMMA LifeEnds ==
  ASSUME TypeInv, RoundInv, RowsInv', NEW w \in Workers,
         ReadCancelled(w) \/ RunCancelled(w) \/ Persist(w) \/ PersistCancelled(w) \/ PersistLost(w)
  PROVE  Life!Next \/ UNCHANGED Life!lifeVars
<1>1. PICK r \in Rows : r = worker[w].row /\ RowInv(r) /\ RowInv(r)'
  BY DEF ReadCancelled, RunCancelled, Persist, PersistCancelled, PersistLost, TypeInv, WorkerType,
     RoundInv, RowsInv
<1>2. OneWorker(w) /\ (Leave(w) \/ PersistLost(w))
  BY DEF ReadCancelled, RunCancelled, GiveBack, Persist, PersistCancelled, PersistLost, Leave,
     TypeInv, WorkerType, OneWorker
<1>3. Leave(w) => worker'[w].pc = "gate"
  BY DEF Leave, AtGate, TypeInv, WorkerType
<1>4. PersistLost(w) => worker' = worker
  BY DEF PersistLost
<1>5. \/ UNCHANGED <<status, repeat, reprocess>> /\ Leave(w)
      \/ w \in Owners(r) /\ Update(TRUE, r, "pending", 0, 0, urgent[r])
      \/ w \in Owners(r) /\ worker[w].out \in Terminal
           /\ Update(TRUE, r, worker[w].out, 0, 0, urgent[r])
  <2>1. CASE ReadCancelled(w) \/ RunCancelled(w)
    <3>1. w \in Owners(r)
      BY <1>1, <2>1 DEF ReadCancelled, RunCancelled, Owners
    <3>2. status[r] = "processing"
      BY <1>1, <3>1, HolderHas
    <3>3. QED
      BY <1>1, <2>1, <3>1, <3>2 DEF ReadCancelled, RunCancelled, GiveBack, SetStatus
  <2>2. CASE Persist(w)
    <3>1. worker[w].pc = "persist" /\ worker[w].out \in Terminal
      BY <2>2 DEF Persist, TypeInv, WorkerType
    <3>2. CASE Fenced(w)
      BY <1>1, <2>2, <3>1, <3>2 DEF Persist, SetStatus, Owners
    <3>3. CASE ~Fenced(w)
      BY <1>1, <2>2, <3>3 DEF Persist, SetStatus, Update
    <3>4. QED
      BY <3>2, <3>3
  <2>3. CASE PersistCancelled(w)
    BY <2>3 DEF PersistCancelled
  <2>4. CASE PersistLost(w)
    BY <1>1, <2>4 DEF PersistLost, SetStatus, Owners, TypeInv, WorkerType
  <2>5. QED
    BY <2>1, <2>2, <2>3, <2>4
<1>6. \A q \in Rows \ {r} : Still(q) => Owners(q)' = Owners(q)
  <2>1. worker'[w].row = r \/ worker'[w].pc = "gate"
    BY <1>1, <1>2, <1>3, <1>4
  <2>2. \A q \in Rows \ {r} : w \notin Owners(q) /\ w \notin Owners(q)'
    BY <1>1, <2>1 DEF Owners
  <2>3. QED
    BY <1>2, <2>2, OwnersOf
<1>7. CASE UNCHANGED <<status, repeat, reprocess>> /\ Leave(w)
  <2>1. \A q \in Rows : Still(q)
    BY <1>7 DEF Still
  <2>2. w \notin Owners(r)'
    BY <1>3, <1>7 DEF Owners
  <2>3. CASE w \in Owners(r)
    <3>1. Owners(r) = {w} /\ status[r] = "processing"
      BY <1>1, <2>3, HolderHas
    <3>2. \A v \in Owners(r)' : v \in Owners(r)
      BY <1>2, <2>1, <2>2 DEF Owners, OneWorker, Fenced, Still
    <3>3. status' = [status EXCEPT ![r] = status[r]]
      BY <1>7 DEF TypeInv, RowType
    <3>4. Life!LetGo(w, r, status[r])
      BY <1>6, <1>7, <2>1, <2>2, <3>1, <3>2, <3>3, LifeLetsGo
    <3>5. QED
      BY <3>4 DEF Life!Next, Life!Abandon
  <2>4. CASE w \notin Owners(r)
    BY <1>2, <1>6, <1>7, <2>1, <2>2, <2>4, LifeStays, OwnersOf
  <2>5. QED
    BY <2>3, <2>4
<1>8. ASSUME NEW s \in {"pending"} \cup Terminal, w \in Owners(r),
             Update(TRUE, r, s, 0, 0, urgent[r])
      PROVE  Life!Next
  <2>1. /\ status' = [status EXCEPT ![r] = s]
        /\ repeat' = [repeat EXCEPT ![r] = @ + 0] /\ reprocess' = [reprocess EXCEPT ![r] = @ + 0]
    BY <1>8 DEF Update
  <2>2. UNCHANGED <<repeat, reprocess>> /\ (\A q \in Rows \ {r} : Still(q)) /\ status'[r] = s
    BY <2>1 DEF Still, TypeInv, RowType
  <2>3. Owners(r) = {w}
    BY <1>1, <1>8, HolderHas
  <2>4. Owners(r)' = {}
    BY <1>1, <1>8, <2>2, HolderNext DEF Terminal
  <2>5. Life!LetGo(w, r, s)
    BY <1>6, <2>1, <2>2, <2>3, <2>4, LifeLetsGo
  <2>6. Life!GiveBack(w, r) \/ Life!Finish(w, r)
    BY <2>5 DEF Life!GiveBack, Life!Finish, Life!Ended, Terminal
  <2>7. QED
    BY <2>6 DEF Life!Next
<1>9. QED
  BY <1>5, <1>7, <1>8

\* Every step of the engine is a step of TaskLife or none.
LEMMA LifeSteps ==
  ASSUME NoResubmission, TypeInv, RoundInv, RoundInv', [Next]_vars
  PROVE  [Life!Next]_(Life!lifeVars)
<1>1. RowsInv'
  BY DEF RoundInv
<1>2. CASE \E w \in Workers : WorkerStep(w) \/ WorkerFault(w)
  BY <1>1, <1>2, LifeGoesOn, LifeClaims, LifeEnds DEF WorkerStep, WorkerFault
<1>3. CASE CarrierStep \/ CarrierFault
  BY <1>1, <1>3, LifeQueues
<1>4. CASE Trigger
  BY <1>1, <1>4, LifeOperators
<1>5. CASE Stop \/ Count \/ Return \/ UNCHANGED vars
  <2>1. UNCHANGED <<status, repeat, reprocess>> /\ worker' = worker
    BY <1>5 DEF Stop, Count, Return, vars
  <2>2. QED
    BY <2>1, LifeStays, OwnersStay DEF Still
<1>6. CASE Restart
  <2>1. UNCHANGED <<status, repeat, reprocess>> /\ \A w \in Workers : worker'[w].pc = "gate"
    BY <1>6 DEF Restart, AtGate
  <2>2. \A r \in Rows : Owners(r)' = {}
    BY <2>1 DEF Owners
  <2>3. [r \in Rows |-> Owners(r)]' = [r \in Rows |-> {}]
    BY <2>2
  <2>4. [r \in Rows |-> repeat[r] + reprocess[r]]' = [r \in Rows |-> repeat[r] + reprocess[r]]
    BY <2>1
  <2>5. Life!Crash
    BY <2>1, <2>3, <2>4 DEF Life!Crash
  <2>6. QED
    BY <2>5 DEF Life!Next
<1>7. QED
  BY <1>2, <1>3, <1>4, <1>5, <1>6 DEF Next

\* Where nobody submits a row again the engine keeps the life cycle of TaskLife
\* in every deployment: with terminal writes that are repeated after a lost
\* answer, and with an error queue that fails a row whose pool has just stopped.
\* Both write a row without having claimed it; neither finds it held.
THEOREM OneCopyKeepsLifeCycle ==
  ASSUME NoResubmission
  PROVE  Spec => KeepsLifeCycle
<1>1. Init => Life!Init
  <2> SUFFICES ASSUME Init PROVE Life!Init
    OBVIOUS
  <2>1. \A r \in Rows : Owners(r) = {}
    <3>1. \A w \in Workers : worker[w].pc = "gate"
      BY DEF Init, AtGate
    <3>2. QED
      BY <3>1 DEF Owners
  <2>2. \A r \in Rows : repeat[r] = 0 /\ reprocess[r] = 0
    BY Zenon DEF Init
  <2>3. 0 + 0 = 0
    OBVIOUS
  <2>4. QED
    BY <2>1, <2>2, <2>3 DEF Init, Life!Init
<1>2. TypeInv /\ RoundInv /\ RoundInv' /\ [Next]_vars => [Life!Next]_(Life!lifeVars)
  BY LifeSteps
<1>3. QED
  BY <1>1, <1>2, RoundAlways, PTL DEF Spec, KeepsLifeCycle, Life!Spec

-----------------------------------------------------------------------------
(* Outcomes that are written again                                           *)

\* What the error queue could not submit is a row nobody has claimed since.
ErrWaits ==
  carrier["errq"].pc \in {"write", "enqueue", "markfail"} => status[carrier["errq"].row] # "processing"

\* The UPDATEs that do not put a row to processing.
LEMMA NotProcessing ==
  ASSUME TypeInv, NEW r \in Rows, status[r] # "processing",
         status' = status \/ \E q \in Rows, s \in {"pending", "gone"} \cup Terminal :
           status' = [status EXCEPT ![q] = s] \/ status' = [status EXCEPT ![q] = status[q]]
  PROVE  status'[r] # "processing"
  BY DEF Terminal, TypeInv, RowType

\* A carrier writes the row of its copy.
Rewrites(k) ==
  \/ SubmitToPool(k)
  \/ k = "errq" /\ (ErrorReset \/ MarkRequeueFailed)
  \/ k = "repq" /\ RepeatReset
  \/ k = "recq" /\ RecoverReset
  \/ k = "retry" /\ RetryReset
  \/ k = "urgent" /\ UrgentReset

\* Only a claim of the row does.
LEMMA OnlyClaims ==
  ASSUME TypeInv, NEW r \in Rows, status[r] # "processing", status'[r] = "processing", Next
  PROVE  \E w \in Workers : worker[w].pc = "claim" /\ worker[w].row = r
<1>1. CASE \E w \in Workers : Claim(w) \/ ClaimLost(w)
  <2>1. PICK w \in Workers, q \in Rows : (Claim(w) \/ ClaimLost(w)) /\ q = worker[w].row
    BY <1>1 DEF Claim, ClaimLost, TypeInv, WorkerType
  <2>2. worker[w].pc = "claim"
    BY <2>1 DEF Claim, ClaimLost
  <2>3. status' = status \/ status' = [status EXCEPT ![q] = "processing"]
    BY <2>1 DEF Claim, ClaimLost, Update
  <2>4. q = r
    BY <2>3 DEF TypeInv, RowType
  <2>5. QED
    BY <2>1, <2>2, <2>4
<1>2. ASSUME NEW w \in Workers, NEW q \in Rows, q = worker[w].row,
             ReadCancelled(w) \/ RunCancelled(w) \/ Persist(w) \/ PersistLost(w)
      PROVE  FALSE
  <2>1. worker[w].pc = "persist" => worker[w].out \in Terminal
    BY DEF TypeInv, WorkerType
  <2>2. \/ status' = status \/ status' = [status EXCEPT ![q] = "pending"]
        \/ worker[w].out \in Terminal /\ status' = [status EXCEPT ![q] = worker[w].out]
    BY <1>2, <2>1 DEF ReadCancelled, RunCancelled, GiveBack, Persist, PersistLost, SetStatus, Update
  <2>3. QED
    BY <2>2, NotProcessing
<1>3. ASSUME NEW w \in Workers, ReadCancelled(w) \/ RunCancelled(w) \/ Persist(w) \/ PersistLost(w)
      PROVE  FALSE
  <2>1. worker[w].row \in Rows
    <3>1. worker[w].pc \in {"read", "run", "persist"}
      <4>1. ReadCancelled(w) \/ RunCancelled(w) => worker[w].pc \in {"read", "run"}
        BY DEF ReadCancelled, RunCancelled
      <4>2. Persist(w) \/ PersistLost(w) => worker[w].pc = "persist"
        BY DEF Persist, PersistLost
      <4>3. QED
        BY <1>3, <4>1, <4>2
    <3>2. QED
      BY <3>1 DEF TypeInv, WorkerType
  <2>2. QED
    BY <1>2, <1>3, <2>1
<1>4. ASSUME NEW q \in Rows, NEW k \in Carriers, q = carrier[k].row, Rewrites(k)
      PROVE  FALSE
  <2>1. \/ status' = status \/ status' = [status EXCEPT ![q] = "pending"]
        \/ status' = [status EXCEPT ![q] = "failed"]
    <3>1. CASE SubmitToPool(k)
      BY <1>4, <3>1 DEF SubmitToPool, Update
    <3>2. CASE k = "errq" /\ (ErrorReset \/ MarkRequeueFailed)
      BY <1>4, <3>2 DEF ErrorReset, MarkRequeueFailed, SetStatus, Update
    <3>3. CASE (k = "repq" /\ RepeatReset) \/ (k = "recq" /\ RecoverReset)
      BY <1>4, <3>3 DEF RepeatReset, RecoverReset, SetStatus, Update
    <3>4. CASE (k = "retry" /\ RetryReset) \/ (k = "urgent" /\ UrgentReset)
      BY <1>4, <3>4 DEF RetryReset, UrgentReset, Update
    <3>5. QED
      BY <1>4, <3>1, <3>2, <3>3, <3>4 DEF Rewrites
  <2>2. QED
    BY <2>1, NotProcessing DEF Terminal
<1>5. ASSUME NEW k \in Carriers, Rewrites(k)
      PROVE  FALSE
  <2>1. carrier[k].pc \notin {"idle", "check", "loop"}
    BY <1>5 DEF Rewrites, SubmitToPool, ErrorReset, MarkRequeueFailed, RepeatReset, RecoverReset, RetryReset,
       UrgentReset
  <2>2. carrier[k].row \in Rows
    BY <2>1 DEF TypeInv, CarrierType
  <2>3. QED
    BY <1>4, <1>5, <2>2
<1>6. ~ErrorReset /\ ~MarkRequeueFailed /\ ~RepeatReset /\ ~RecoverReset /\ ~RetryReset /\ ~UrgentReset
  <2>1. {"errq", "repq", "recq", "retry", "urgent"} \subseteq Carriers
    BY DEF Carriers
  <2>2. ~Rewrites("errq") /\ ~Rewrites("repq") /\ ~Rewrites("recq") /\ ~Rewrites("retry")
        /\ ~Rewrites("urgent")
    BY <1>5, <2>1
  <2>3. QED
    BY <2>2 DEF Rewrites
<1>7. ASSUME NEW q \in Rows,
             \/ SubmitNew(q) \/ SubmitNewLost(q)
             \/ MarkTaskFailed(q) \/ DeleteTask(q) \/ SetTaskRepeatInterval(q)
      PROVE  FALSE
  <2>1. \/ status' = [status EXCEPT ![q] = "pending"] \/ status' = [status EXCEPT ![q] = "failed"]
        \/ status' = [status EXCEPT ![q] = "gone"] \/ status' = [status EXCEPT ![q] = status[q]]
    BY <1>7 DEF SubmitNew, SubmitNewLost, MarkTaskFailed, DeleteTask, SetTaskRepeatInterval, SetStatus,
                Update
  <2>2. QED
    BY <2>1, NotProcessing DEF Terminal
<1>8. ~Stop /\ ~Count /\ ~Return /\ ~Restart /\ ~Pause /\ ~Resume /\ ~Reap
  BY DEF Stop, Count, Return, Restart, Pause, Resume, Reap
<1>9. ASSUME NEW w \in Workers, WorkerStep(w) \/ WorkerFault(w)
      PROVE  Claim(w) \/ ClaimLost(w)
  BY <1>3, <1>9 DEF WorkerStep, WorkerFault, Gate, TakeFast, TakeMain, TakeDrop, ClaimCancelled,
     ClaimError, ReadRound, RunEnds, PersistCancelled
<1>10. ~CarrierStep /\ ~CarrierFault
  <2>1. ASSUME NEW k \in Carriers, SubmitToPoolLost(k) \/ ResetLost(k)
        PROVE  FALSE
    <3>1. PICK q \in Rows : q = carrier[k].row
      BY <2>1, ResetLostWrites DEF SubmitToPoolLost, TypeInv, CarrierType
    <3>2. status' = [status EXCEPT ![q] = "pending"]
      BY <2>1, <3>1, ResetLostWrites DEF SubmitToPoolLost, Update
    <3>3. QED
      BY <3>2, NotProcessing
  <2>2. QED
    BY <1>5, <1>6, <2>1 DEF Rewrites, CarrierStep, CarrierFault, SubmitIfActive, DrainSwap, DrainPaused,
       DrainOpen, DrainNext, DrainRereadError, DeliverDelayed, RecoverVisit, Enqueue, EnqueueFull,
       EnqueueRejected, SubmitToPoolError, ResetError, RecoverSelectError
<1>11. ~Trigger
  BY <1>7, <1>8 DEF Trigger, SubmitAgain, ErrorSelect, RepeatSelect, RetryLoad, UrgentLoad
<1>12. QED
  BY <1>1, <1>8, <1>9, <1>10, <1>11 DEF Next

\* The error queue takes a row up to submit it only when its reset has hit.
LEMMA ErrFollows ==
  ASSUME TypeInv, Next
  PROVE  \/ carrier'["errq"].pc \notin {"write", "enqueue", "markfail"}
         \/ /\ carrier["errq"].pc \in {"write", "enqueue", "markfail"}
            /\ carrier'["errq"].row = carrier["errq"].row
         \/ status'[carrier'["errq"].row] = "pending"
<1>1. CarrierType /\ "errq" \in Carriers /\ {"submit", "delay", "drain", "repq", "recq", "retry", "urgent"}
        \subseteq Carriers \ {"errq"}
  BY DEF TypeInv, Carriers
<1>2. ASSUME NEW k \in Carriers \ {"errq"},
             \/ \E pc : Step(k, pc)
             \/ Release(k) \/ \E pc, c, was : Hold(k, pc, c, was)
      PROVE  carrier'["errq"] = carrier["errq"]
  BY <1>1, <1>2 DEF Step, Release, Hold, CarrierType
<1>3. CASE carrier'["errq"] = carrier["errq"]
  BY <1>3
<1>4. CASE Release("errq")
  BY <1>1, <1>4 DEF Release, Idle, CarrierType
<1>5. ASSUME NEW k \in Carriers,
             \/ SubmitToPool(k) \/ SubmitToPoolError(k) \/ SubmitToPoolLost(k)
             \/ Enqueue(k) \/ EnqueueFull(k) \/ EnqueueRejected(k)
             \/ ResetError(k) \/ ResetLost(k)
      PROVE  \/ carrier'["errq"] = carrier["errq"] \/ Release("errq")
             \/ /\ carrier["errq"].pc \in {"write", "enqueue", "markfail"}
                /\ carrier'["errq"].row = carrier["errq"].row
  <2>1. CASE SubmitToPool(k)
    <3>1. PICK c : carrier' = [carrier EXCEPT ![k].pc = "enqueue", ![k].counted = c]
      BY <2>1 DEF SubmitToPool
    <3>2. carrier["errq"] \in CarrierState /\ carrier \in [Carriers -> CarrierState]
      BY <1>1 DEF CarrierType
    <3>3. carrier[k].pc = "write"
      BY <2>1 DEF SubmitToPool
    <3>4. CASE k = "errq"
      BY <3>1, <3>2, <3>3, <3>4 DEF CarrierState
    <3>5. CASE k # "errq"
      BY <1>1, <3>1, <3>2, <3>5
    <3>6. QED
      BY <3>4, <3>5
  <2>2. CASE \/ SubmitToPoolError(k) \/ SubmitToPoolLost(k) \/ Enqueue(k) \/ EnqueueFull(k)
             \/ ResetError(k) \/ ResetLost(k)
    <3>1. Release(k)
      BY <2>2 DEF SubmitToPoolError, SubmitToPoolLost, Enqueue, EnqueueFull, ResetError, ResetLost
    <3>2. QED
      BY <1>2, <3>1
  <2>3. CASE EnqueueRejected(k)
    <3>1. /\ carrier[k].pc = "enqueue"
          /\ (k = "errq" /\ Step(k, "markfail")) \/ (k # "errq" /\ Release(k))
      BY <2>3 DEF EnqueueRejected
    <3>2. CASE k # "errq"
      BY <1>2, <3>1, <3>2
    <3>3. CASE k = "errq"
      <4>1. carrier["errq"] \in CarrierState
        BY <1>1 DEF CarrierType
      <4>2. carrier'["errq"] = [carrier["errq"] EXCEPT !.pc = "markfail"]
        BY <1>1, <3>1, <3>3 DEF Step, CarrierType
      <4>3. QED
        BY <3>1, <3>3, <4>1, <4>2 DEF CarrierState
    <3>4. QED
      BY <3>2, <3>3
  <2>4. QED
    BY <1>5, <2>1, <2>2, <2>3
<1>6. CASE ErrorReset
  <2>1. PICK r \in Rows : r = carrier["errq"].row
    BY <1>6 DEF ErrorReset, TypeInv, CarrierType, Carriers
  <2>2. CASE status[r] = "failed"
    <3>1. status' = [status EXCEPT ![r] = "pending"] /\ Step("errq", "enqueue")
      BY <1>6, <2>1, <2>2 DEF ErrorReset, Update
    <3>2. carrier'["errq"] = [carrier["errq"] EXCEPT !.pc = "enqueue"]
      BY <1>1, <3>1 DEF Step, CarrierType
    <3>3. carrier["errq"] \in CarrierState
      BY <1>1 DEF CarrierType
    <3>4. carrier'["errq"].row = r
      BY <2>1, <3>2, <3>3 DEF CarrierState
    <3>5. QED
      BY <3>1, <3>4 DEF TypeInv, RowType
  <2>3. QED
    BY <1>4, <1>6, <2>1, <2>2 DEF ErrorReset
<1>7. CASE MarkRequeueFailed
  BY <1>4, <1>7 DEF MarkRequeueFailed
<1>8. CASE SubmitIfActive \/ RepeatReset \/ RecoverReset \/ RetryReset \/ UrgentReset
  <2>1. \/ \E pc : \/ Step("submit", pc) \/ Step("repq", pc) \/ Step("recq", pc)
                   \/ Step("retry", pc) \/ Step("urgent", pc)
        \/ Release("submit") \/ Release("repq") \/ Release("recq") \/ Release("retry") \/ Release("urgent")
    <3>1. CASE SubmitIfActive \/ RepeatReset
      BY <3>1 DEF SubmitIfActive, RepeatReset
    <3>2. CASE RecoverReset
      BY <3>2 DEF RecoverReset
    <3>3. CASE RetryReset \/ UrgentReset
      BY <3>3 DEF RetryReset, UrgentReset
    <3>4. QED
      BY <1>8, <3>1, <3>2, <3>3
  <2>2. QED
    BY <1>1, <1>2, <1>3, <2>1
<1>9. CASE DrainSwap \/ DrainPaused \/ DrainOpen \/ DrainNext \/ DrainRereadError
  <2>1. \/ \E pc : Step("drain", pc)
        \/ \E pc, c, was : Hold("drain", pc, c, was)
        \/ \E x : carrier' = [carrier EXCEPT !["drain"] = x]
    BY <1>9 DEF DrainSwap, DrainPaused, DrainOpen, DrainNext, DrainRereadError
  <2>2. QED
    BY <1>1, <1>2, <1>3, <2>1 DEF CarrierType
<1>10. ASSUME NEW r \in Rows,
             \/ DeliverDelayed(r) \/ RecoverVisit(r) \/ SubmitNew(r) \/ SubmitAgain(r)
             \/ RepeatSelect(r) \/ RetryLoad(r) \/ UrgentLoad(r)
      PROVE  carrier'["errq"] = carrier["errq"]
  <2>1. \/ carrier' = carrier
        \/ \E pc, c, was : \/ Hold("delay", pc, c, was) \/ Hold("recq", pc, c, was)
                           \/ Hold("submit", pc, c, was) \/ Hold("repq", pc, c, was)
                           \/ Hold("retry", pc, c, was) \/ Hold("urgent", pc, c, was)
    <3>1. CASE DeliverDelayed(r)
      BY <3>1 DEF DeliverDelayed
    <3>2. CASE RecoverVisit(r)
      BY <3>2 DEF RecoverVisit
    <3>3. CASE SubmitNew(r) \/ SubmitAgain(r)
      BY <3>3 DEF SubmitNew, SubmitAgain
    <3>4. CASE RepeatSelect(r)
      BY <3>4 DEF RepeatSelect
    <3>5. CASE RetryLoad(r)
      BY <3>5 DEF RetryLoad
    <3>6. CASE UrgentLoad(r)
      BY <3>6 DEF UrgentLoad
    <3>7. QED
      BY <1>10, <3>1, <3>2, <3>3, <3>4, <3>5, <3>6
  <2>2. QED
    BY <1>1, <1>2, <2>1
<1>11. ASSUME NEW r \in Rows, ErrorSelect(r)
      PROVE  carrier'["errq"].pc = "reset"
  BY <1>1, <1>11 DEF ErrorSelect, Hold, CarrierType
<1>12. CASE Restart
  BY <1>1, <1>12 DEF Restart, Idle
<1>13. CASE \/ \E r \in Rows : SubmitNewLost(r) \/ MarkTaskFailed(r) \/ DeleteTask(r)
                            \/ SetTaskRepeatInterval(r)
           \/ RecoverSelectError \/ Reap \/ Pause \/ Resume \/ Stop \/ Count \/ Return
           \/ \E w \in Workers : WorkerStep(w) \/ WorkerFault(w)
  <2>1. CASE \E w \in Workers : WorkerStep(w) \/ WorkerFault(w)
    <3>1. carrier' = carrier
      BY <2>1 DEF WorkerStep, WorkerFault, Gate, TakeFast, TakeMain, TakeDrop, Claim, ClaimError,
         ClaimLost, ClaimCancelled, ReadRound, ReadCancelled, RunEnds, RunCancelled, Persist,
         PersistLost, PersistCancelled
    <3>2. QED
      BY <1>3, <3>1
  <2>2. CASE \/ \E r \in Rows : SubmitNewLost(r) \/ MarkTaskFailed(r) \/ DeleteTask(r)
                             \/ SetTaskRepeatInterval(r)
             \/ RecoverSelectError \/ Reap \/ Pause \/ Resume \/ Stop \/ Count \/ Return
    <3>1. carrier' = carrier
      BY <2>2 DEF SubmitNewLost, MarkTaskFailed, DeleteTask, SetTaskRepeatInterval, RecoverSelectError,
         Reap, Pause, Resume, Stop, Count, Return
    <3>2. QED
      BY <1>3, <3>1
  <2>3. QED
    BY <1>13, <2>1, <2>2
<1>14. QED
  BY <1>3, <1>4, <1>5, <1>6, <1>7, <1>8, <1>9, <1>10, <1>11, <1>12, <1>13
     DEF Next, CarrierStep, CarrierFault, Trigger

\* So the row of its copy is not claimed: there is no other copy to claim it.
LEMMA ErrNext ==
  ASSUME TypeInv, RoundInv, ErrWaits, [Next]_vars
  PROVE  ErrWaits'
<1> DEFINE W == {"write", "enqueue", "markfail"}
<1>1. CASE UNCHANGED vars
  BY <1>1 DEF vars, ErrWaits
<1>2. ASSUME Next, carrier["errq"].pc \in W, carrier'["errq"].row = carrier["errq"].row,
             status'[carrier["errq"].row] = "processing"
      PROVE  FALSE
  <2>1. PICK r \in Rows, c \in BOOLEAN : r = carrier["errq"].row /\ c = carrier["errq"].counted
    <3>1. carrier["errq"] \in CarrierState /\ carrier["errq"].row \in Rows
      BY <1>2 DEF TypeInv, CarrierType, Carriers
    <3>2. QED
      BY <3>1 DEF CarrierState
  <2>2. status[r] # "processing"
    BY <1>2, <2>1 DEF ErrWaits
  <2>3. PICK w \in Workers : worker[w].pc = "claim" /\ worker[w].row = r
    BY <1>2, <2>1, <2>2, OnlyClaims
  <2>4. OnCarrier("carrier", "errq", r, c)
    BY <1>2, <2>1 DEF OnCarrier, Carriers, Carrying
  <2>5. \A l, h, e : ~OnCarrier(l, h, r, e)
    <3>1. PICK q \in Rows, t \in BOOLEAN : q = worker[w].row /\ Alone(w, q, t)
      BY <2>3, WorkerAt
    <3>2. QED
      BY <2>3, <3>1 DEF Alone
  <2>6. QED
    BY <2>4, <2>5
<1>3. CASE Next
  BY <1>2, <1>3, ErrFollows DEF ErrWaits
<1>4. QED
  BY <1>1, <1>3

\* A row this process executes is ended by the worker that executed it, also when
\* its answer was lost and it writes the outcome again: by then the row is in a
\* later round, or has ended, or was reset and is not claimed.  The finding of
\* the stale round needs the second copy that UrgentTask makes.
THEOREM OneCopyIsEndedByHolder ==
  ASSUME NoResubmission
  PROVE  Spec => TerminalByHolder
<1> DEFINE Ended(r) == status[r] = "processing" /\ fresh[r] /\ status'[r] \in Terminal
           ByHolder(r) == \E w \in Workers :
             /\ worker[w].row = r /\ worker[w].pc = "persist" /\ Fenced(w)
             /\ status'[r] = worker[w].out
             /\ ~ \E v \in Workers : Holds(v, r)
<1>1. ASSUME TypeInv, RoundInv, ErrWaits, Next, NEW r \in Rows, Ended(r)
      PROVE  ByHolder(r)
  <2>1. CASE \E w \in Workers : WorkerStep(w) \/ WorkerFault(w)
    <3>1. PICK w \in Workers : WorkerStep(w) \/ WorkerFault(w)
      BY <2>1
    <3>2. /\ worker[w].row = r /\ worker[w].pc = "persist" /\ Fenced(w)
          /\ status'[r] = worker[w].out
      BY <1>1, <3>1, WorkerEnds
    <3>3. \A v \in Workers \ {w} : ~Holds(v, r)
      BY <1>1, <3>2, WorkerAt DEF Alone, Holds
    <3>4. ~Holds(w, r)
      BY <3>2 DEF Holds
    <3>5. QED
      BY <3>2, <3>3, <3>4
  <2>2. CASE CarrierStep \/ CarrierFault
    <3>1. CASE MarkRequeueFailed
      <4>1. PICK q \in Rows : q = carrier["errq"].row /\ carrier["errq"].pc = "markfail"
        BY <1>1, <3>1 DEF MarkRequeueFailed, TypeInv, CarrierType, Carriers
      <4>2. q # r
        BY <1>1, <4>1 DEF ErrWaits
      <4>3. status' = status \/ status' = [status EXCEPT ![q] = "failed"]
        BY <3>1, <4>1 DEF MarkRequeueFailed, SetStatus, Update
      <4>4. status'[r] = status[r]
        BY <1>1, <4>2, <4>3 DEF TypeInv, RowType
      <4>5. QED
        BY <1>1, <4>4 DEF Terminal
    <3>2. QED
      BY <1>1, <2>2, <3>1, CarrierEnds
  <2>3. CASE Trigger
    BY <1>1, <2>3, TriggerKeeps
  <2>4. CASE Stop \/ Count \/ Return \/ Restart
    BY <1>1, <2>4 DEF Stop, Count, Return, Restart, Terminal
  <2>5. QED
    BY <1>1, <2>1, <2>2, <2>3, <2>4 DEF Next
<1>2. TypeInv /\ RoundInv /\ ErrWaits /\ [Next]_vars => [\A r \in Rows : Ended(r) => ByHolder(r)]_vars
  BY <1>1
<1>3. Init => ErrWaits
  BY DEF Init, ErrWaits, Idle, Carriers
<1>4. TypeInv /\ RoundInv /\ ErrWaits /\ [Next]_vars => ErrWaits'
  BY ErrNext
<1>5. QED
  BY <1>2, <1>3, <1>4, RoundAlways, PTL DEF Spec, TerminalByHolder

=============================================================================
