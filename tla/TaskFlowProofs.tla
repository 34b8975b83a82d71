--------------------------- MODULE TaskFlowProofs ---------------------------
(***************************************************************************)
(* The order that a task flow keeps, for any stages, lanes and policies,   *)
(* any number of tasks, retries, restarts and policy updates.              *)
(*                                                                         *)
(* The waiting rules have no cycle while all lanes have one mode, or while *)
(* no task has become pending again: some pending task may start whenever  *)
(* none runs.  A first task exists in every order the rules follow, since  *)
(* there are finitely many.                                                *)
(***************************************************************************)
EXTENDS TaskFlow, FiniteSetTheorems, SequenceTheorems, WellFoundedInduction, TLAPS

-----------------------------------------------------------------------------
(* The inductive invariant                                                   *)

(* A path goes on from the parent's and ends with the task's own id, the     *)
(* largest of it; a branch is as old as its first task.                      *)
TreeInv ==
  \A t \in Ids :
    /\ rows[t].parent \in 0..(t - 1)
    /\ rows[t].branch \in 1..t
    /\ Depth(t) >= 1 /\ rows[t].path[Depth(t)] = t
    /\ \A i \in 1..Depth(t) : rows[t].path[i] \in 1..t

(* The widest policy a lane has had is at least the current one.             *)
WidthInv == \A l \in Lanes : widest[l] \in Nat /\ policy[l].parallel <= widest[l]

FlowInv == TypeOK /\ TreeInv

-----------------------------------------------------------------------------
(* What the steps do to the rows                                             *)

\* A task's fields have their types.
LEMMA Fields ==
  ASSUME TypeOK, NEW t \in Ids
  PROVE  /\ t \in Nat /\ t >= 1 /\ t <= Len(rows) /\ Len(rows) \in Nat
         /\ rows[t] \in Row
         /\ rows[t].parent \in Nat /\ rows[t].branch \in Nat
         /\ rows[t].path \in Seq(Nat) /\ Depth(t) \in Nat
         /\ rows[t].stage \in Stages /\ rows[t].status \in Status
         /\ Lane(t) \in Lanes /\ policy[Lane(t)] \in FlowLane
<1>1. /\ t \in Nat /\ t >= 1 /\ t <= Len(rows) /\ Len(rows) \in Nat /\ rows[t] \in Row
  BY DEF TypeOK, Ids
<1>2. /\ rows[t].parent \in Nat /\ rows[t].branch \in Nat /\ rows[t].path \in Seq(Nat)
      /\ rows[t].stage \in Stages /\ rows[t].status \in Status
  BY <1>1 DEF Row
<1>3. Lane(t) \in Lanes
  BY <1>2, FlowAssumption DEF Lane
<1>4. policy[Lane(t)] \in FlowLane
  BY <1>3 DEF TypeOK
<1>5. QED
  BY <1>1, <1>2, <1>3, <1>4 DEF Depth

\* A registration appends a row and leaves the others alone.
LEMMA Registered ==
  ASSUME TypeOK, NEW parent, NEW s \in Stages, MayRegister(parent, s),
         rows' = Append(rows, NewRow(parent, s))
  PROVE  /\ parent = 0 \/ parent \in Ids
         /\ rows' \in Seq(Row) /\ Len(rows') = Len(rows) + 1
         /\ \A t \in Ids : rows'[t] = rows[t]
         /\ rows'[Len(rows) + 1] = NewRow(parent, s)
<1>1. parent = 0 \/ parent \in Ids
  BY DEF MayRegister, Executed, Running
<1>2. NewRow(parent, s) \in Row
  <2>1. CASE parent = 0
    BY <2>1 DEF NewRow, Row, Status, TypeOK
  <2>2. CASE parent # 0
    <3>1. /\ rows[parent].path \in Seq(Nat) /\ rows[parent].branch \in Nat
          /\ Len(rows) \in Nat /\ parent \in Nat
      BY <1>1, <2>2, Fields
    <3>2. Append(rows[parent].path, Len(rows) + 1) \in Seq(Nat)
      BY <3>1
    <3>3. QED
      BY <2>2, <3>1, <3>2 DEF NewRow, Row, Status
  <2>3. QED
    BY <2>1, <2>2
<1>3. QED
  BY <1>1, <1>2 DEF TypeOK, Ids

\* The fields that place a task in the tree never change.
SamePlace(u) ==
  /\ rows'[u].parent = rows[u].parent /\ rows'[u].stage = rows[u].stage
  /\ rows'[u].branch = rows[u].branch /\ rows'[u].path = rows[u].path

\* A change of status leaves all other fields and rows alone.
LEMMA StatusSet ==
  ASSUME TypeOK, NEW t \in Ids, NEW status \in Status, SetStatus(t, status)
  PROVE  /\ rows' \in Seq(Row) /\ Len(rows') = Len(rows)
         /\ \A u \in Ids : /\ SamePlace(u)
                          /\ rows'[u].status = IF u = t THEN status ELSE rows[u].status
<1>1. Len(rows) \in Nat /\ rows \in [1..Len(rows) -> Row]
  BY DEF TypeOK
<1>2. DEFINE row == [rows[t] EXCEPT !.status = status]
<1>3. /\ row \in Row /\ row.status = status
      /\ row.parent = rows[t].parent /\ row.stage = rows[t].stage
      /\ row.branch = rows[t].branch /\ row.path = rows[t].path
  BY <1>1 DEF Ids, Row
<1>4. rows' = [rows EXCEPT ![t] = row]
  BY DEF SetStatus
<1>5. /\ rows' \in Seq(Row) /\ Len(rows') = Len(rows)
      /\ \A u \in Ids : rows'[u] = IF u = t THEN row ELSE rows[u]
  <2>. HIDE DEF row
  <2>. QED
    BY <1>1, <1>3, <1>4, ExceptSeq DEF TypeOK, Ids
<1>6. QED
  <2>. HIDE DEF row
  <2>. QED
    BY <1>3, <1>5 DEF SamePlace

\* A restart only turns what was being processed back into pending rows.
LEMMA Restarted ==
  ASSUME TypeOK, Crash
  PROVE  /\ rows' \in Seq(Row) /\ Len(rows') = Len(rows)
         /\ \A u \in Ids :
              /\ SamePlace(u)
              /\ rows'[u].status = IF rows[u].status = "ended" THEN "ended" ELSE "pending"
<1>1. Len(rows) \in Nat /\ rows \in [1..Len(rows) -> Row]
  BY DEF TypeOK
<1>2. DEFINE row(u) == [rows[u] EXCEPT !.status = IF @ = "ended" THEN @ ELSE "pending"]
<1>3. ASSUME NEW u \in Ids
      PROVE  /\ row(u) \in Row
             /\ row(u).status = IF rows[u].status = "ended" THEN "ended" ELSE "pending"
             /\ row(u).parent = rows[u].parent /\ row(u).stage = rows[u].stage
             /\ row(u).branch = rows[u].branch /\ row(u).path = rows[u].path
  BY <1>1 DEF Ids, Row, Status
<1>4. rows' = [u \in Ids |-> row(u)]
  BY DEF Crash
<1>5. /\ rows' \in Seq(Row) /\ Len(rows') = Len(rows)
      /\ \A u \in Ids : rows'[u] = row(u)
  <2>. HIDE DEF row
  <2>1. rows' \in [1..Len(rows) -> Row] /\ \A u \in Ids : rows'[u] = row(u)
    BY <1>1, <1>3, <1>4 DEF Ids
  <2>2. QED
    BY <1>1, <2>1, SeqDef, LenProperties
<1>6. QED
  <2>. HIDE DEF row
  <2>. QED
    BY <1>3, <1>5 DEF SamePlace

\* A status changes by a claim the policy allows, a terminal write, an operator who takes
\* out a task that waits, a restart or a retry.
Moves(u) ==
  \/ rows'[u].status = rows[u].status
  \/ /\ rows[u].status = "pending" /\ rows'[u].status = "processing"
     /\ Eligible(u) /\ UNCHANGED policy
  \/ rows[u].status \in {"processing", "pending"} /\ rows'[u].status = "ended"
  \/ rows[u].status = "processing" /\ rows'[u].status = "pending" /\ crashes' # 0
  \/ rows[u].status = "ended" /\ rows'[u].status = "pending" /\ u \in retried'

\* A row is new only as the child of a running task of the same step.
Fresh(n) ==
  \E parent \in Nat, s \in Stages :
     /\ MayRegister(parent, s) /\ (parent = 0 \/ parent \in Ids)
     /\ n = Len(rows) + 1 /\ rows'[n] = NewRow(parent, s)
     /\ \A u \in Ids : rows'[u] = rows[u]

\* What the past remembers is kept, and a lane that has not been switched keeps its mode.
Remembers ==
  /\ retried \subseteq retried' /\ switched \subseteq switched' /\ crashes <= crashes'
  /\ \A l \in Lanes \ switched' : policy'[l].mode = policy[l].mode

\* A task begins by a claim, and only by one that the policy allows.
Starts == \A u \in begun' \ begun : u \in Ids /\ Eligible(u) /\ UNCHANGED policy

\* Every step, seen from one task.
LEMMA Steps ==
  ASSUME TypeOK, Next
  PROVE  /\ rows' \in Seq(Row) /\ Len(rows') \in Nat /\ Len(rows') >= Len(rows)
         /\ \A u \in Ids : SamePlace(u) /\ Moves(u)
         /\ \A n \in Ids' \ Ids : Fresh(n)
         /\ Remembers /\ Starts
<1> DEFINE Goal == /\ rows' \in Seq(Row) /\ Len(rows') \in Nat /\ Len(rows') >= Len(rows)
                   /\ \A u \in Ids : SamePlace(u) /\ Moves(u)
                   /\ \A n \in Ids' \ Ids : Fresh(n)
                   /\ Remembers /\ Starts
<1>a. Len(rows) \in Nat /\ rows \in Seq(Row)
  BY DEF TypeOK
<1>b. ASSUME UNCHANGED <<policy, retried, switched, crashes>>
      PROVE  Remembers
  BY <1>b DEF Remembers, TypeOK
<1>e. ASSUME UNCHANGED begun
      PROVE  Starts
  BY <1>e DEF Starts
<1>c. ASSUME NEW t \in Ids, NEW status \in Status, SetStatus(t, status)
      PROVE  /\ rows' \in Seq(Row) /\ Len(rows') \in Nat /\ Len(rows') >= Len(rows) /\ Ids' = Ids
             /\ \A u \in Ids : SamePlace(u)
             /\ \A u \in Ids \ {t} : rows'[u].status = rows[u].status
             /\ rows'[t].status = status
  BY <1>a, <1>c, StatusSet DEF Ids
<1>d. ASSUME UNCHANGED rows
      PROVE  /\ rows' \in Seq(Row) /\ Len(rows') \in Nat /\ Len(rows') >= Len(rows) /\ Ids' = Ids
             /\ \A u \in Ids : SamePlace(u) /\ Moves(u)
  BY <1>a, <1>d DEF SamePlace, Moves, Ids
<1>1. ASSUME NEW parent \in 0..Len(rows), NEW s \in Stages, MayRegister(parent, s),
             rows' = Append(rows, NewRow(parent, s)),
             UNCHANGED <<policy, begun, retried, switched, crashes>>
      PROVE  Goal
  <2>1. /\ parent = 0 \/ parent \in Ids
        /\ rows' \in Seq(Row) /\ Len(rows') = Len(rows) + 1
        /\ \A t \in Ids : rows'[t] = rows[t]
        /\ rows'[Len(rows) + 1] = NewRow(parent, s)
    BY <1>1, Registered
  <2>2. \A u \in Ids : SamePlace(u) /\ Moves(u)
    BY <2>1 DEF SamePlace, Moves
  <2>3. \A n \in Ids' \ Ids : n = Len(rows) + 1
    BY <1>a, <2>1 DEF Ids
  <2>4. \A n \in Ids' \ Ids : Fresh(n)
    <3>1. parent \in Nat
      BY <1>a
    <3>2. QED
      BY <1>1, <2>1, <2>3, <3>1, Zenon DEF Fresh
  <2>5. QED
    BY <1>1, <1>a, <1>b, <1>e, <2>1, <2>2, <2>4
<1>2. ASSUME NEW t \in Ids, Resubmit(t)
      PROVE  Goal
  <2>1. UNCHANGED <<rows, policy, begun, retried, switched, crashes>>
    BY <1>2 DEF Resubmit
  <2>2. QED
    BY <1>b, <1>d, <1>e, <2>1
<1>3. ASSUME NEW t \in Ids, Claim(t) \/ ClaimLost(t)
      PROVE  Goal
  <2>1. UNCHANGED <<policy, retried, switched, crashes>> /\ Start(t)
    BY <1>3 DEF Claim, ClaimLost
  <2>2. CASE rows[t].status = "pending"
    <3>1. SetStatus(t, "processing") /\ begun' = begun \cup {t}
      BY <2>1, <2>2 DEF Start
    <3>2. Eligible(t)
      BY <1>3, <2>2 DEF Claim, ClaimLost
    <3>3. \A u \in Ids : Moves(u)
      BY <1>c, <2>1, <2>2, <3>1, <3>2 DEF Moves, Status
    <3>4. Starts
      BY <2>1, <3>1, <3>2 DEF Starts
    <3>5. QED
      BY <1>b, <1>c, <2>1, <3>1, <3>3, <3>4 DEF Status
  <2>3. CASE rows[t].status # "pending"
    BY <1>b, <1>d, <1>e, <2>1, <2>3 DEF Start
  <2>4. QED
    BY <2>2, <2>3
<1>4. ASSUME NEW t \in Ids, Finish(t) \/ MarkTaskFailed(t)
      PROVE  Goal
  <2>1. /\ UNCHANGED <<policy, begun, retried, switched, crashes>>
        /\ SetStatus(t, "ended") /\ rows[t].status \in {"processing", "pending"}
    BY <1>4 DEF Finish, MarkTaskFailed, past, Executed, Running, Pending
  <2>2. \A u \in Ids : Moves(u)
    BY <1>c, <2>1 DEF Moves, Status
  <2>3. QED
    BY <1>b, <1>c, <1>e, <2>1, <2>2 DEF Status
<1>5. ASSUME NEW t \in Ids, Retry(t) \/ RetryLost(t)
      PROVE  Goal
  <2>1. /\ UNCHANGED <<policy, switched, crashes>> /\ retried' = retried \cup {t}
        /\ SetStatus(t, "pending") /\ rows[t].status = "ended" /\ begun' = begun \ {t}
    BY <1>5 DEF Retry, RetryLost, Reset
  <2>2. \A u \in Ids : Moves(u)
    BY <1>c, <2>1 DEF Moves, Status
  <2>3. Remembers /\ Starts
    BY <2>1 DEF Remembers, Starts, TypeOK
  <2>4. QED
    BY <1>c, <2>1, <2>2, <2>3 DEF Status
<1>6. ASSUME NEW new \in Choices, UpdateTaskFlow(new)
      PROVE  Goal
  <2>1. /\ UNCHANGED <<rows, begun, retried, crashes>>
        /\ policy' = new
        /\ switched' = switched \cup {l \in Lanes : policy[l].mode # new[l].mode}
    BY <1>6 DEF UpdateTaskFlow
  <2>2. Remembers
    BY <2>1 DEF Remembers, TypeOK
  <2>3. QED
    BY <1>d, <1>e, <2>1, <2>2
<1>7. ASSUME Crash
      PROVE  Goal
  <2>1. /\ rows' \in Seq(Row) /\ Len(rows') = Len(rows)
        /\ \A u \in Ids :
             /\ SamePlace(u)
             /\ rows'[u].status = IF rows[u].status = "ended" THEN "ended" ELSE "pending"
    BY <1>7, Restarted
  <2>2. \A u \in Ids : rows[u].status \in Status
    BY Fields
  <2>3. \A u \in Ids : SamePlace(u) /\ Moves(u)
    <3>1. crashes' # 0
      BY <1>7 DEF Crash, TypeOK
    <3>2. QED
      BY <2>1, <2>2, <3>1 DEF Moves, Status
  <2>4. Remembers /\ Starts
    BY <1>7 DEF Crash, Remembers, Starts, TypeOK
  <2>5. QED
    BY <1>a, <2>1, <2>3, <2>4 DEF Ids
<1>8. QED
  <2>1. CASE \E parent \in 0..Len(rows), s \in Stages :
               Submit(parent, s) \/ SubmitUnacknowledged(parent, s)
    BY <1>1, <2>1 DEF Submit, SubmitUnacknowledged, past
  <2>2. CASE \E t \in Ids : \/ Resubmit(t) \/ Claim(t) \/ ClaimLost(t) \/ Finish(t)
                            \/ MarkTaskFailed(t) \/ Retry(t) \/ RetryLost(t)
    BY <1>2, <1>3, <1>4, <1>5, <2>2
  <2>3. CASE \E new \in Choices : UpdateTaskFlow(new)
    BY <1>6, <2>3
  <2>4. CASE Crash
    BY <1>7, <2>4
  <2>5. QED
    BY <2>1, <2>2, <2>3, <2>4 DEF Next

-----------------------------------------------------------------------------
(* The invariant                                                             *)

\* A policy that may be chosen has a mode and a width for each lane.
LEMMA ChoicesType ==
  ASSUME NEW new \in Choices
  PROVE  new \in [Lanes -> FlowLane] /\ \A l \in Lanes : new[l].parallel \in Nat
<1>1. new \in [Lanes -> FlowLane]
  BY FlowAssumption DEF Choices
<1>2. QED
  BY <1>1 DEF FlowLane

\* Registration, execution and policy updates keep the types.
LEMMA TypeStep ==
  ASSUME TypeOK, Next
  PROVE  TypeOK'
<1>1. rows' \in Seq(Row) /\ Ids \subseteq Ids'
  BY Steps DEF TypeOK, Ids
<1>2. ASSUME NEW parent \in 0..Len(rows), NEW s \in Stages,
             Submit(parent, s) \/ SubmitUnacknowledged(parent, s)
      PROVE  TypeOK'
  <2>1. Len(rows) + 1 \in Ids'
    BY <1>2, Registered DEF Submit, SubmitUnacknowledged, Ids, TypeOK
  <2>2. QED
    BY <1>1, <1>2, <2>1 DEF Submit, SubmitUnacknowledged, past, TypeOK
<1>3. ASSUME NEW t \in Ids,
             \/ Resubmit(t) \/ Claim(t) \/ ClaimLost(t) \/ Finish(t)
             \/ MarkTaskFailed(t) \/ Retry(t) \/ RetryLost(t)
      PROVE  TypeOK'
  BY <1>1, <1>3 DEF Resubmit, Claim, ClaimLost, Start, Finish, MarkTaskFailed, Retry, RetryLost,
                    Reset, past, TypeOK
<1>4. ASSUME NEW new \in Choices, UpdateTaskFlow(new)
      PROVE  TypeOK'
  <2>1. new \in [Lanes -> FlowLane] /\ \A l \in Lanes : new[l].parallel \in Nat
    BY ChoicesType
  <2>2. policy' \in [Lanes -> FlowLane] /\ widest' \in [Lanes -> Nat]
    BY <1>4, <2>1 DEF UpdateTaskFlow, TypeOK
  <2>3. QED
    BY <1>1, <1>4, <2>2 DEF UpdateTaskFlow, TypeOK
<1>5. ASSUME Crash
      PROVE  TypeOK'
  <2>1. Active \subseteq Ids
    BY DEF Active
  <2>2. QED
    BY <1>1, <1>5, <2>1 DEF Crash, TypeOK
<1>6. QED
  BY <1>2, <1>3, <1>4, <1>5 DEF Next

\* A new task continues the path of its parent.
LEMMA TreeStep ==
  ASSUME FlowInv, Next
  PROVE  TreeInv'
<1>1. /\ \A u \in Ids : SamePlace(u)
      /\ \A n \in Ids' \ Ids : Fresh(n)
  BY Steps DEF FlowInv
<1>2. ASSUME NEW t \in Ids' \cap Ids
      PROVE  /\ rows'[t].parent \in 0..(t - 1) /\ rows'[t].branch \in 1..t
             /\ Depth(t)' >= 1 /\ rows'[t].path[Depth(t)'] = t
             /\ \A i \in 1..Depth(t)' : rows'[t].path[i] \in 1..t
  BY <1>1 DEF FlowInv, TreeInv, SamePlace, Depth
<1>3. ASSUME NEW t \in Ids' \ Ids
      PROVE  /\ rows'[t].parent \in 0..(t - 1) /\ rows'[t].branch \in 1..t
             /\ Depth(t)' >= 1 /\ rows'[t].path[Depth(t)'] = t
             /\ \A i \in 1..Depth(t)' : rows'[t].path[i] \in 1..t
  <2>1. PICK parent \in Nat, s \in Stages :
          (parent = 0 \/ parent \in Ids) /\ t = Len(rows) + 1 /\ rows'[t] = NewRow(parent, s)
    BY <1>1 DEF Fresh
  <2>2. Len(rows) \in Nat
    BY DEF FlowInv, TypeOK
  <2>3. CASE parent = 0
    <3>1. rows'[t].path = <<t>> /\ rows'[t].branch = t /\ rows'[t].parent = 0
      BY <2>1, <2>2, <2>3 DEF NewRow
    <3>2. QED
      BY <2>1, <2>2, <3>1 DEF Depth
  <2>4. CASE parent # 0
    <3>1. /\ parent \in 1..Len(rows) /\ rows[parent].path \in Seq(Nat)
          /\ rows[parent].branch \in 1..parent
          /\ \A i \in 1..Len(rows[parent].path) : rows[parent].path[i] \in 1..parent
      BY <2>1, <2>4, Fields DEF FlowInv, TreeInv, Depth, Ids
    <3>2. /\ rows'[t].path = Append(rows[parent].path, t) /\ rows'[t].parent = parent
          /\ rows'[t].branch = t \/ rows'[t].branch = rows[parent].branch
      BY <2>1, <2>2, <2>4 DEF NewRow
    <3>3. /\ Len(rows'[t].path) = Len(rows[parent].path) + 1
          /\ Len(rows[parent].path) \in Nat
          /\ rows'[t].path[Len(rows[parent].path) + 1] = t
          /\ \A i \in 1..Len(rows[parent].path) : rows'[t].path[i] = rows[parent].path[i]
      BY <2>1, <2>2, <3>1, <3>2
    <3>4. \A i \in 1..Len(rows'[t].path) : rows'[t].path[i] \in 1..t
      <4>1. ASSUME NEW i \in 1..Len(rows'[t].path)
            PROVE  rows'[t].path[i] \in 1..t
        <5>1. CASE i = Len(rows[parent].path) + 1
          BY <2>1, <2>2, <3>3, <5>1
        <5>2. CASE i \in 1..Len(rows[parent].path)
          <6>1. rows'[t].path[i] = rows[parent].path[i]
            BY <3>3, <5>2
          <6>2. rows[parent].path[i] \in 1..parent
            BY <3>1, <5>2
          <6>3. QED
            BY <2>1, <2>2, <3>1, <6>1, <6>2
        <5>3. i = Len(rows[parent].path) + 1 \/ i \in 1..Len(rows[parent].path)
          BY <3>3
        <5>4. QED
          BY <5>1, <5>2, <5>3
      <4>2. QED
        BY <4>1
    <3>5. QED
      BY <2>1, <2>2, <3>1, <3>2, <3>3, <3>4 DEF Depth
  <2>5. QED
    BY <2>3, <2>4
<1>4. QED
  BY <1>2, <1>3 DEF TreeInv

\* Every reachable state is a tree of typed rows.
THEOREM FlowInvariant == Spec => []FlowInv
<1>1. Init => FlowInv
  <2>1. ASSUME Init
        PROVE  FlowInv
    <3>1. policy \in [Lanes -> FlowLane] /\ \A l \in Lanes : policy[l].parallel \in Nat
      BY <2>1, ChoicesType DEF Init
    <3>2. widest \in [Lanes -> Nat]
      BY <2>1, <3>1 DEF Init
    <3>3. TypeOK
      BY <2>1, <3>1, <3>2 DEF Init, TypeOK
    <3>4. TreeInv
      BY <2>1 DEF Init, TreeInv, Ids
    <3>5. QED
      BY <3>3, <3>4 DEF FlowInv
  <2>2. QED
    BY <2>1
<1>2. FlowInv /\ [Next]_vars => FlowInv'
  <2>1. ASSUME FlowInv, Next
        PROVE  FlowInv'
    BY <2>1, TypeStep, TreeStep DEF FlowInv
  <2>2. ASSUME FlowInv, UNCHANGED vars
        PROVE  FlowInv'
    BY <2>2 DEF FlowInv, vars, past, TypeOK, TreeInv, Ids, Depth
  <2>3. QED
    BY <2>1, <2>2
<1>3. QED
  BY <1>1, <1>2, PTL DEF Spec

-----------------------------------------------------------------------------
(* Parents first                                                             *)

\* Once a task has ended, it stays ended until it is retried.
LEMMA EndedStays ==
  ASSUME TypeOK, Next, NEW u \in Ids, Done(u) \/ u \in retried
  PROVE  Done(u)' \/ u \in retried'
<1>1. Moves(u) /\ retried \subseteq retried'
  BY Steps DEF Remembers
<1>2. QED
  BY <1>1 DEF Moves, Done

\* A task that begins in a step was claimed, as the policy allows.
LEMMA BegunByClaim ==
  ASSUME TypeOK, Next, NEW t \in Ids', Begun(t)'
  PROVE  /\ t \in Ids
         /\ Begun(t) \/ (Eligible(t) /\ UNCHANGED policy)
<1>1. t \in begun' /\ begun \subseteq Ids /\ Starts
  BY Steps DEF Begun, TypeOK
<1>2. QED
  BY <1>1 DEF Begun, Starts

\* What is not active has ended.
LEMMA InactiveIsDone ==
  ASSUME TypeOK, NEW u \in Ids, u \notin Active
  PROVE  Done(u)
BY Fields DEF Active, Done, Status

LEMMA ParentStep ==
  ASSUME FlowInv, ParentEndsFirst, Next
  PROVE  ParentEndsFirst'
<1>1. SUFFICES ASSUME NEW t \in Ids', rows'[t].parent # 0, Begun(t)'
               PROVE  (Done(rows[t].parent) \/ rows[t].parent \in retried)'
  BY DEF ParentEndsFirst
<1>2. t \in Ids /\ (Begun(t) \/ Eligible(t))
  BY <1>1, BegunByClaim DEF FlowInv
<1>3. rows'[t].parent = rows[t].parent
  BY <1>2, Steps DEF FlowInv, SamePlace
<1>4. rows[t].parent \in Ids
  BY <1>1, <1>2, <1>3, Fields DEF FlowInv, TreeInv, Ids
<1>5. Done(rows[t].parent) \/ rows[t].parent \in retried
  <2>1. CASE Begun(t)
    BY <1>1, <1>2, <1>3, <2>1 DEF ParentEndsFirst
  <2>2. CASE Eligible(t)
    BY <1>4, <2>2, InactiveIsDone DEF Eligible, FlowInv
  <2>3. QED
    BY <1>2, <2>1, <2>2
<1>6. Done(rows[t].parent)' \/ rows'[t].parent \in retried'
  BY <1>3, <1>4, <1>5, EndedStays DEF FlowInv, Done
<1>7. QED
  BY <1>6

\* No task starts while its parent may still register children.
THEOREM ParentsFirst == Spec => []ParentEndsFirst
<1>1. Init => ParentEndsFirst
  BY DEF Init, ParentEndsFirst, Ids
<1>2. FlowInv /\ ParentEndsFirst /\ [Next]_vars => ParentEndsFirst'
  <2>1. ASSUME ParentEndsFirst, UNCHANGED vars
        PROVE  ParentEndsFirst'
    BY <2>1 DEF ParentEndsFirst, vars, past, Ids, Begun, Done
  <2>2. QED
    BY <2>1, ParentStep
<1>3. QED
  BY <1>1, <1>2, FlowInvariant, PTL DEF Spec

-----------------------------------------------------------------------------
(* Breadth first                                                             *)

LEMMA BreadthStep ==
  ASSUME FlowInv, BreadthOrder, Next
  PROVE  BreadthOrder'
<1>1. SUFFICES ASSUME NEW s \in Ids', NEW t \in Ids',
                      Lane(s)' = Lane(t)', Lane(t)' \notin switched',
                      policy'[Lane(t)'].mode = "breadth",
                      s < t, Depth(s)' < Depth(t)', Begun(t)'
               PROVE  Done(s)' \/ s \in retried'
  BY DEF BreadthOrder
<1>2. t \in Ids /\ (Begun(t) \/ (Eligible(t) /\ UNCHANGED policy))
  BY <1>1, BegunByClaim DEF FlowInv
<1>3. s \in Ids
  BY <1>1, <1>2, Fields DEF FlowInv, Ids
<1>4. /\ Lane(s)' = Lane(s) /\ Lane(t)' = Lane(t)
      /\ Depth(s)' = Depth(s) /\ Depth(t)' = Depth(t)
  BY <1>2, <1>3, Steps DEF FlowInv, SamePlace, Lane, Depth
<1>5. Lane(t) \notin switched /\ policy[Lane(t)].mode = "breadth"
  BY <1>1, <1>2, <1>4, Steps, Fields DEF FlowInv, Remembers
<1>6. Done(s) \/ s \in retried
  <2>1. CASE Begun(t)
    BY <1>1, <1>2, <1>3, <1>4, <1>5, <2>1 DEF BreadthOrder
  <2>2. CASE Eligible(t)
    <3>1. \A r \in In(Lane(t), Active) : Depth(r) >= Depth(t)
      BY <1>5, <2>2 DEF Eligible, BreadthReady
    <3>2. s \notin In(Lane(t), Active)
      BY <1>1, <1>2, <1>3, <1>4, <3>1, Fields DEF FlowInv
    <3>3. s \notin Active
      BY <1>1, <1>4, <3>2 DEF In
    <3>4. QED
      BY <1>3, <3>3, InactiveIsDone DEF FlowInv
  <2>3. QED
    BY <1>2, <2>1, <2>2
<1>7. QED
  BY <1>3, <1>6, EndedStays DEF FlowInv

\* A breadth-first lane starts no task while a shallower one, registered before it, has
\* not ended.
THEOREM BreadthHolds == Spec => []BreadthOrder
<1>1. Init => BreadthOrder
  BY DEF Init, BreadthOrder, Ids
<1>2. FlowInv /\ BreadthOrder /\ [Next]_vars => BreadthOrder'
  <2>1. ASSUME BreadthOrder, UNCHANGED vars
        PROVE  BreadthOrder'
    BY <2>1 DEF BreadthOrder, vars, past, Ids, Begun, Done, Lane, Depth
  <2>2. QED
    BY <2>1, BreadthStep
<1>3. QED
  BY <1>1, <1>2, FlowInvariant, PTL DEF Spec

-----------------------------------------------------------------------------
(* Depth first                                                               *)

\* A task, or one of those above it, was retried.
Reopened(s) == \E i \in 1..Depth(s) : rows[s].path[i] \in retried

\* A new task comes before a task that was registered earlier only if its parent does:
\* the earlier one is not below the parent, whose descendants all have smaller ids.
LEMMA BeforeParent ==
  ASSUME NEW p \in Seq(Nat), NEW q \in Seq(Nat), NEW n \in Nat,
         \A i \in 1..Len(q) : q[i] < n,
         Before(Append(p, n), q)
  PROVE  Before(p, q)
<1> DEFINE pn == Append(p, n)
<1>1. /\ Len(p) \in Nat /\ Len(q) \in Nat /\ Len(pn) = Len(p) + 1 /\ pn[Len(p) + 1] = n
      /\ \A i \in 1..Len(p) : pn[i] = p[i]
  OBVIOUS
<1>2. ~(Len(pn) < Len(q) /\ \A i \in 1..Len(pn) : pn[i] = q[i])
  <2>1. ASSUME Len(pn) < Len(q), \A i \in 1..Len(pn) : pn[i] = q[i]
        PROVE  FALSE
    <3>1. Len(p) + 1 \in 1..Len(pn) /\ Len(p) + 1 \in 1..Len(q)
      BY <1>1, <2>1
    <3>2. q[Len(p) + 1] = n /\ q[Len(p) + 1] < n
      BY <1>1, <2>1, <3>1
    <3>3. QED
      BY <3>2
  <2>2. QED
    BY <2>1
<1>3. PICK i \in 1..Len(pn) : /\ i <= Len(q) /\ pn[i] < q[i]
                              /\ \A k \in 1..(i - 1) : pn[k] = q[k]
  BY <1>2 DEF Before
<1>4. i # Len(p) + 1
  <2>1. ASSUME i = Len(p) + 1
        PROVE  FALSE
    <3>1. q[i] \in Nat /\ q[i] < n /\ n < q[i]
      BY <1>1, <1>3, <2>1
    <3>2. QED
      BY <3>1
  <2>2. QED
    BY <2>1
<1>5. i \in 1..Len(p)
  BY <1>1, <1>3, <1>4
<1>6. p[i] < q[i] /\ \A k \in 1..(i - 1) : p[k] = q[k]
  BY <1>1, <1>3, <1>5
<1>7. QED
  BY <1>3, <1>5, <1>6 DEF Before

\* A task that is reopened stays so.
LEMMA ReopenedStays ==
  ASSUME FlowInv, Next, NEW s \in Ids, Reopened(s)
  PROVE  Reopened(s)'
BY Steps DEF FlowInv, SamePlace, Remembers, Reopened, Depth

\* The pairs of tasks that existed before the step.
LEMMA DepthOfOld ==
  ASSUME FlowInv, DepthOrder, Next, NEW s \in Ids, NEW t \in Ids,
         Lane(s) = Lane(t), Lane(t) \notin switched', policy'[Lane(t)].mode = "depth",
         rows[s].branch = rows[t].branch,
         Before(rows[s].path, rows[t].path), Begun(t)'
  PROVE  Done(s)' \/ Reopened(s)'
<1>1. Begun(t) \/ (Eligible(t) /\ UNCHANGED policy)
  <2>1. t \in Ids'
    BY Steps DEF FlowInv, TypeOK, Ids
  <2>2. QED
    BY <2>1, BegunByClaim DEF FlowInv
<1>2. Lane(t) \notin switched /\ policy[Lane(t)].mode = "depth"
  BY Steps, Fields DEF FlowInv, Remembers
<1>3. Done(s) \/ Reopened(s)
  <2>1. CASE Begun(t)
    BY <1>2, <2>1 DEF DepthOrder, Reopened
  <2>2. CASE Eligible(t)
    <3>1. \A r \in In(Lane(t), Active) :
            rows[r].branch = rows[t].branch => ~Before(rows[r].path, rows[t].path)
      BY <1>2, <2>2 DEF Eligible, DepthReady
    <3>2. s \notin Active
      BY <3>1 DEF In
    <3>3. QED
      BY <3>2, InactiveIsDone DEF FlowInv
  <2>3. QED
    BY <1>1, <2>1, <2>2
<1>4. CASE Reopened(s)
  BY <1>4, ReopenedStays
<1>5. CASE Done(s)
  <2>1. Done(s)' \/ s \in retried'
    BY <1>5, EndedStays DEF FlowInv
  <2>2. ASSUME s \in retried'
        PROVE  Reopened(s)'
    <3>1. Depth(s)' = Depth(s) /\ rows'[s].path = rows[s].path
      BY Steps DEF FlowInv, SamePlace, Depth
    <3>2. Depth(s) \in 1..Depth(s) /\ rows[s].path[Depth(s)] = s
      BY Fields DEF FlowInv, TreeInv
    <3>3. QED
      BY <2>2, <3>1, <3>2 DEF Reopened
  <2>3. QED
    BY <2>1, <2>2
<1>6. QED
  BY <1>3, <1>4, <1>5

\* A task that is registered before others in preorder finds its parent running, so what
\* has begun after the parent has done so because of a retry above.
LEMMA DepthOfNew ==
  ASSUME FlowInv, DepthOrder, Next, NEW s \in Ids' \ Ids, NEW t \in Ids,
         Lane(s)' = Lane(t), Lane(t) \notin switched', policy'[Lane(t)].mode = "depth",
         rows'[s].branch = rows[t].branch,
         Before(rows'[s].path, rows[t].path), Begun(t)'
  PROVE  Reopened(s)'
<1>1. PICK parent \in Nat, u \in Stages :
        /\ MayRegister(parent, u) /\ (parent = 0 \/ parent \in Ids)
        /\ s = Len(rows) + 1 /\ rows'[s] = NewRow(parent, u)
        /\ \A v \in Ids : rows'[v] = rows[v]
  BY Steps DEF FlowInv, Fresh
<1>2. /\ Len(rows) \in Nat /\ t \in Nat /\ t < s /\ s \in Nat
      /\ rows[t].branch \in 1..t /\ rows[t].path \in Seq(Nat)
      /\ \A i \in 1..Len(rows[t].path) : rows[t].path[i] \in 1..t
  BY <1>1, Fields DEF FlowInv, TreeInv, Depth
<1>3. /\ parent # 0 /\ Lane(parent) = LaneOf[u]
      /\ rows'[s].branch = rows[parent].branch
  <2>1. rows'[s].branch # s
    BY <1>2
  <2>2. rows'[s].branch = IF parent # 0 /\ Lane(parent) = LaneOf[u] THEN rows[parent].branch ELSE s
    BY <1>1 DEF NewRow
  <2>3. QED
    BY <2>1, <2>2
<1>4. rows[parent].path \in Seq(Nat) /\ rows'[s].path = Append(rows[parent].path, s)
  BY <1>1, <1>3, Fields DEF FlowInv, NewRow
<1>5. Before(rows[parent].path, rows[t].path)
  <2>1. \A i \in 1..Len(rows[t].path) : rows[t].path[i] < s
    <3>1. \A n \in 1..t : n < s
      BY <1>2
    <3>2. QED
      BY <1>2, <3>1, Zenon
  <2>2. QED
    BY <1>2, <1>4, <2>1, BeforeParent
<1>6. Lane(s)' = Lane(parent)
  BY <1>1, <1>3 DEF Lane, NewRow
<1>7. Done(parent)' \/ Reopened(parent)'
  BY <1>1, <1>3, <1>5, <1>6, DepthOfOld
<1>8. ~Done(parent)'
  BY <1>1, <1>3 DEF MayRegister, Executed, Running, Done
<1>9. PICK i \in 1..Len(rows[parent].path) : rows[parent].path[i] \in retried'
  BY <1>1, <1>3, <1>7, <1>8 DEF Reopened, Depth
<1>10. i \in 1..Len(rows'[s].path) /\ rows'[s].path[i] = rows[parent].path[i]
  BY <1>2, <1>4, <1>9
<1>11. QED
  BY <1>9, <1>10 DEF Reopened, Depth

LEMMA DepthStep ==
  ASSUME FlowInv, DepthOrder, Next
  PROVE  DepthOrder'
<1>1. SUFFICES ASSUME NEW s \in Ids', NEW t \in Ids',
                      Lane(s)' = Lane(t)', Lane(t)' \notin switched',
                      policy'[Lane(t)'].mode = "depth",
                      rows'[s].branch = rows'[t].branch,
                      Before(rows'[s].path, rows'[t].path), Begun(t)'
               PROVE  Done(s)' \/ Reopened(s)'
  BY DEF DepthOrder, Reopened, Before
<1>2. t \in Ids
  BY <1>1, BegunByClaim DEF FlowInv
<1>3. /\ Lane(t)' = Lane(t) /\ rows'[t].branch = rows[t].branch
      /\ rows'[t].path = rows[t].path
  BY <1>2, Steps DEF FlowInv, SamePlace, Lane
<1>4. CASE s \in Ids
  <2>1. /\ Lane(s)' = Lane(s) /\ rows'[s].branch = rows[s].branch
        /\ rows'[s].path = rows[s].path
    BY <1>4, Steps DEF FlowInv, SamePlace, Lane
  <2>2. QED
    BY <1>1, <1>2, <1>3, <1>4, <2>1, DepthOfOld
<1>5. CASE s \notin Ids
  BY <1>1, <1>2, <1>3, <1>5, DepthOfNew
<1>6. QED
  BY <1>4, <1>5

\* A depth-first lane takes each branch in preorder, across registrations, restarts and
\* the policy updates of other lanes.
THEOREM DepthHolds == Spec => []DepthOrder
<1>1. Init => DepthOrder
  BY DEF Init, DepthOrder, Ids
<1>2. FlowInv /\ DepthOrder /\ [Next]_vars => DepthOrder'
  <2>1. ASSUME DepthOrder, UNCHANGED vars
        PROVE  DepthOrder'
    BY <2>1 DEF DepthOrder, vars, past, Ids, Begun, Done, Lane, Depth
  <2>2. QED
    BY <2>1, DepthStep
<1>3. QED
  BY <1>1, <1>2, FlowInvariant, PTL DEF Spec

-----------------------------------------------------------------------------
(* The width of a lane                                                       *)

WidthOf(l) ==
  LET running == In(l, Running) IN
  /\ policy[l].mode = "breadth" => Cardinality(running) <= widest[l]
  /\ policy[l].mode = "depth"   => /\ Cardinality(Branches(running)) <= widest[l]
                                   /\ \A s, t \in running : rows[s].branch = rows[t].branch => s = t

\* Sets of tasks and of branches are finite.
LEMMA FiniteFlow ==
  ASSUME FlowInv
  PROVE  /\ \A S \in SUBSET Ids : IsFiniteSet(S) /\ Cardinality(S) \in Nat
         /\ \A S \in SUBSET Ids : \A B \in SUBSET Branches(S) :
              IsFiniteSet(B) /\ Cardinality(B) \in Nat
<1>1. Len(rows) \in Nat /\ IsFiniteSet(Ids)
  BY FS_Interval DEF FlowInv, TypeOK, Ids
<1>2. \A S \in SUBSET Ids : Branches(S) \subseteq Ids
  BY <1>1 DEF FlowInv, TreeInv, Branches, Ids
<1>3. \A S \in SUBSET Ids : IsFiniteSet(S) /\ Cardinality(S) \in Nat
  BY <1>1, FS_Subset, FS_CardinalityType
<1>4. QED
  BY <1>2, <1>3

\* A lane in which no task starts stays within its width.
LEMMA WidthShrinks ==
  ASSUME FlowInv, WidthInv, NEW l \in Lanes, WidthOf(l),
         policy'[l].mode = policy[l].mode, widest'[l] \in Nat, widest[l] <= widest'[l],
         In(l, Running)' \subseteq In(l, Running),
         \A u \in Ids : rows'[u].branch = rows[u].branch
  PROVE  WidthOf(l)'
<1> DEFINE R == In(l, Running)
           S == In(l, Running)'
           B == Branches(In(l, Running))'
<1>1. S \subseteq R /\ R \subseteq Ids
  BY DEF In, Running
<1>2. B \subseteq Branches(R)
  BY <1>1 DEF Branches
<1>3. /\ IsFiniteSet(R) /\ IsFiniteSet(Branches(R))
      /\ Cardinality(R) \in Nat /\ Cardinality(Branches(R)) \in Nat
  BY <1>1, FiniteFlow
<1>4. /\ Cardinality(S) \in Nat /\ Cardinality(S) <= Cardinality(R)
      /\ Cardinality(B) \in Nat
      /\ Cardinality(B) <= Cardinality(Branches(R))
  BY <1>1, <1>2, <1>3, FS_Subset, FS_CardinalityType
<1>5. widest[l] \in Nat
  BY DEF WidthInv
<1>6. QED
  <2>1. ASSUME policy[l].mode = "breadth"
        PROVE  Cardinality(S) <= widest'[l]
    BY <1>4, <1>3, <1>5, <2>1 DEF WidthOf
  <2>2. ASSUME policy[l].mode = "depth"
        PROVE  /\ Cardinality(B) <= widest'[l]
               /\ \A s, t \in S : rows'[s].branch = rows'[t].branch => s = t
    <3>1. Cardinality(Branches(R)) <= widest[l]
      BY <2>2 DEF WidthOf
    <3>2. \A s, t \in R : rows[s].branch = rows[t].branch => s = t
      BY <2>2 DEF WidthOf
    <3>3. QED
      BY <1>1, <1>3, <1>4, <1>5, <3>1, <3>2
  <2>3. QED
    BY <1>2, <2>1, <2>2 DEF WidthOf

\* A claim adds one task, or one branch, where the policy has room for it.
LEMMA WidthClaim ==
  ASSUME FlowInv, WidthInv, NEW t \in Ids, Eligible(t), SetStatus(t, "processing"),
         UNCHANGED <<policy, widest>>, rows[t].status = "pending", WidthOf(Lane(t))
  PROVE  WidthOf(Lane(t))'
<1> DEFINE l == Lane(t)
           R == In(l, Running)
           p == policy[l]
<1>1. Eligible(t) /\ SetStatus(t, "processing") /\ UNCHANGED <<policy, widest>>
  OBVIOUS
<1>2. /\ Len(rows') = Len(rows)
      /\ \A u \in Ids : /\ SamePlace(u)
                       /\ rows'[u].status = IF u = t THEN "processing" ELSE rows[u].status
  BY <1>1, StatusSet DEF FlowInv, Status
<1>3. Lane(t)' = l /\ In(l, Running)' = R \cup {t} /\ t \notin R /\ R \subseteq Ids
  BY <1>2 DEF SamePlace, Lane, In, Running, Ids
<1>4. R = In(l, Active) \cap Running
  BY DEF In, Running, Active
<1>5. l \in Lanes /\ p.parallel \in Nat /\ widest[l] \in Nat /\ p.parallel <= widest[l]
  BY Fields DEF FlowInv, FlowLane, WidthInv
<1>6. IsFiniteSet(R) /\ Cardinality(R) \in Nat /\ Cardinality(R \cup {t}) = Cardinality(R) + 1
  BY <1>3, FiniteFlow, FS_AddElement
<1>7. ASSUME p.mode = "breadth"
      PROVE  Cardinality(R \cup {t}) <= widest[l]
  <2>1. Cardinality(R) < p.parallel
    BY <1>1, <1>4, <1>7 DEF Eligible, BreadthReady
  <2>2. QED
    BY <1>5, <1>6, <2>1
<1>8. ASSUME p.mode = "depth"
      PROVE  /\ Cardinality(Branches(R \cup {t})) <= widest[l]
             /\ \A s, u \in R \cup {t} : rows[s].branch = rows[u].branch => s = u
  <2> DEFINE occupied == Branches(R)
             earlier  == {b \in Branches(In(l, Active)) \ occupied : b < rows[t].branch}
  <2>1. rows[t].branch \notin occupied /\ Cardinality(earlier) < p.parallel - Cardinality(occupied)
    BY <1>1, <1>4, <1>8 DEF Eligible, DepthReady
  <2>2. Cardinality(earlier) \in Nat /\ IsFiniteSet(occupied) /\ Cardinality(occupied) \in Nat
    <3>1. In(l, Active) \in SUBSET Ids /\ earlier \in SUBSET Branches(In(l, Active))
      BY DEF In, Active
    <3>2. QED
      BY <1>3, <3>1, FiniteFlow
  <2>3. Branches(R \cup {t}) = occupied \cup {rows[t].branch}
    BY DEF Branches
  <2>4. Cardinality(Branches(R \cup {t})) = Cardinality(occupied) + 1
    BY <2>1, <2>2, <2>3, FS_AddElement
  <2>5. Cardinality(Branches(R \cup {t})) <= widest[l]
    BY <1>5, <2>1, <2>2, <2>4
  <2>6. \A s, u \in R : rows[s].branch = rows[u].branch => s = u
    BY <1>8 DEF WidthOf
  <2>7. \A s \in R : rows[s].branch # rows[t].branch
    BY <2>1 DEF Branches
  <2>8. QED
    BY <2>5, <2>6, <2>7
<1>9. Branches(In(Lane(t), Running))' = Branches(R \cup {t})
  <2>1. \A u \in R \cup {t} : rows'[u].branch = rows[u].branch
    BY <1>2, <1>3 DEF SamePlace
  <2>2. In(Lane(t), Running)' = R \cup {t}
    BY <1>3 DEF In
  <2>3. QED
    BY <2>1, <2>2 DEF Branches
<1>10. In(Lane(t), Running)' = R \cup {t}
  BY <1>3 DEF In
<1>11. \A u \in R \cup {t} : rows'[u].branch = rows[u].branch
  BY <1>2, <1>3 DEF SamePlace
<1>12. policy'[Lane(t)'] = p /\ widest'[Lane(t)'] = widest[l]
  BY <1>1, <1>3
<1>13. QED
  <2>. HIDE DEF R, p
  <2>. QED
    BY <1>7, <1>8, <1>9, <1>10, <1>11, <1>12 DEF WidthOf

\* The widest policy keeps up with the updates.
LEMMA WidthInvStep ==
  ASSUME FlowInv, WidthInv, Next
  PROVE  WidthInv' /\ \A l \in Lanes : widest[l] <= widest'[l]
<1>1. CASE UNCHANGED <<policy, widest>>
  BY <1>1 DEF WidthInv
<1>2. ASSUME NEW new \in Choices, UpdateTaskFlow(new)
      PROVE  WidthInv' /\ \A k \in Lanes : widest[k] <= widest'[k]
  <2>1. \A l \in Lanes : new[l].parallel \in Nat
    BY ChoicesType
  <2>2. /\ policy' = new
        /\ widest' = [l \in Lanes |-> IF widest[l] < new[l].parallel
                                      THEN new[l].parallel ELSE widest[l]]
    BY <1>2 DEF UpdateTaskFlow
  <2>3. widest \in [Lanes -> Nat]
    BY DEF FlowInv, TypeOK
  <2>4. \A k \in Lanes : /\ widest'[k] \in Nat /\ widest[k] <= widest'[k]
                         /\ policy'[k].parallel <= widest'[k]
    BY <2>1, <2>2, <2>3
  <2>5. QED
    BY <2>4 DEF WidthInv
<1>3. QED
  BY <1>1, <1>2 DEF Next, Submit, SubmitUnacknowledged, Resubmit, Claim, ClaimLost, Finish,
                    MarkTaskFailed, Retry, RetryLost, Crash, past

\* Of all steps only a claim adds a running task, and at most one.
LEMMA WidthStep ==
  ASSUME FlowInv, WidthInv, LaneWidth, Next
  PROVE  LaneWidth'
<1>1. /\ WidthInv' /\ \A l \in Lanes : widest[l] <= widest'[l]
      /\ \A u \in Ids : SamePlace(u) /\ Moves(u)
      /\ \A n \in Ids' \ Ids : Fresh(n)
      /\ Remembers
  BY WidthInvStep, Steps DEF FlowInv
<1>2. SUFFICES ASSUME NEW l \in Lanes \ switched'
               PROVE  WidthOf(l)'
  BY DEF LaneWidth, WidthOf
<1>3. WidthOf(l) /\ policy'[l].mode = policy[l].mode
  BY <1>1, <1>2 DEF LaneWidth, WidthOf, Remembers
<1>4. CASE In(l, Running)' \subseteq In(l, Running)
  BY <1>1, <1>3, <1>4, WidthShrinks DEF SamePlace, WidthInv
<1>5. ASSUME NEW t \in In(l, Running)', t \notin In(l, Running)
      PROVE  WidthOf(l)'
  <2>1. t \in Ids' /\ rows'[t].status = "processing" /\ Lane(t)' = l
    BY <1>5 DEF In, Running
  <2>2. t \in Ids
    <3>1. ASSUME t \notin Ids
          PROVE  rows'[t].status = "pending"
      <4>1. PICK parent \in Nat, s \in Stages : rows'[t] = NewRow(parent, s)
        BY <1>1, <2>1, <3>1 DEF Fresh
      <4>2. QED
        BY <4>1 DEF NewRow
    <3>2. QED
      BY <2>1, <3>1
  <2>3. Lane(t) = l /\ rows[t].status # "processing"
    BY <1>1, <1>5, <2>1, <2>2 DEF In, Running, SamePlace, Lane
  <2>4. rows[t].status = "pending"
    BY <1>1, <2>1, <2>2, <2>3 DEF Moves
  <2>5. Claim(t) \/ ClaimLost(t)
    <3>1. ASSUME NEW parent \in 0..Len(rows), NEW s \in Stages,
                 Submit(parent, s) \/ SubmitUnacknowledged(parent, s)
          PROVE  FALSE
      <4>1. rows'[t] = rows[t]
        BY <2>2, <3>1, Registered DEF Submit, SubmitUnacknowledged, FlowInv
      <4>2. QED
        BY <2>1, <2>4, <4>1
    <3>2. ASSUME NEW u \in Ids,
                 \/ Finish(u) \/ MarkTaskFailed(u) \/ Retry(u) \/ RetryLost(u) \/ Resubmit(u)
                 \/ (Claim(u) \/ ClaimLost(u)) /\ u # t
          PROVE  FALSE
      <4>1. \/ UNCHANGED rows
            \/ \E status \in Status : SetStatus(u, status) /\ (u # t \/ status # "processing")
        BY <3>2 DEF Finish, MarkTaskFailed, Retry, RetryLost, Reset, Resubmit, Claim, ClaimLost,
           Start, Status
      <4>2. CASE UNCHANGED rows
        BY <2>1, <2>4, <4>2
      <4>3. CASE \E status \in Status : SetStatus(u, status) /\ (u # t \/ status # "processing")
        BY <2>1, <2>2, <2>4, <4>3, StatusSet DEF FlowInv
      <4>4. QED
        BY <4>1, <4>2, <4>3
    <3>3. ASSUME NEW new \in Choices, UpdateTaskFlow(new)
          PROVE  FALSE
      BY <2>1, <2>4, <3>3 DEF UpdateTaskFlow
    <3>4. ASSUME Crash
          PROVE  FALSE
      BY <2>1, <2>2, <3>4, Restarted DEF FlowInv
    <3>5. QED
      BY <3>1, <3>2, <3>3, <3>4 DEF Next
  <2>6. /\ Eligible(t) /\ SetStatus(t, "processing") /\ UNCHANGED <<policy, widest>>
    BY <2>4, <2>5 DEF Claim, ClaimLost, Start
  <2>7. QED
    BY <1>3, <2>2, <2>3, <2>4, <2>6, <2>1, WidthClaim
<1>6. QED
  BY <1>4, <1>5

\* A lane runs no more tasks, and no more branches, than it has ever been allowed.
THEOREM WidthHolds == Spec => []LaneWidth
<1>1. Init => LaneWidth /\ WidthInv
  <2>1. ASSUME Init
        PROVE  LaneWidth /\ WidthInv
    <3>1. policy \in [Lanes -> FlowLane] /\ \A l \in Lanes : policy[l].parallel \in Nat
      BY <2>1, ChoicesType DEF Init
    <3>2. WidthInv
      BY <2>1, <3>1 DEF Init, WidthInv
    <3>3. Running = {} /\ Ids = {}
      BY <2>1 DEF Init, Ids, Running
    <3>4. \A l \in Lanes : In(l, Running) = {} /\ Branches(In(l, Running)) = {}
      BY <3>3 DEF In, Branches
    <3>5. \A l \in Lanes : WidthOf(l)
      <4>1. ASSUME NEW l \in Lanes
            PROVE  WidthOf(l)
        <5>1. /\ Cardinality(In(l, Running)) = 0 /\ Cardinality(Branches(In(l, Running))) = 0
              /\ widest[l] \in Nat
          BY <3>2, <3>4, FS_EmptySet DEF WidthInv
        <5>2. QED
          BY <3>4, <5>1 DEF WidthOf
      <4>2. QED
        BY <4>1
    <3>6. QED
      BY <3>2, <3>5 DEF LaneWidth, WidthOf
  <2>2. QED
    BY <2>1
<1>2. FlowInv /\ LaneWidth /\ WidthInv /\ [Next]_vars => (LaneWidth /\ WidthInv)'
  <2>1. ASSUME LaneWidth, WidthInv, UNCHANGED vars
        PROVE  (LaneWidth /\ WidthInv)'
    <3>1. UNCHANGED <<rows, policy, widest, switched>>
      BY <2>1 DEF vars, past
    <3>2. \A l \in Lanes : In(l, Running)' = In(l, Running)
      BY <3>1 DEF In, Running, Ids, Lane
    <3>3. \A l \in Lanes : Branches(In(l, Running))' = Branches(In(l, Running))
      BY <3>1, <3>2 DEF Branches
    <3>4. \A l \in Lanes : WidthOf(l)' = WidthOf(l)
      BY <3>1, <3>2, <3>3 DEF WidthOf
    <3>5. QED
      BY <2>1, <3>1, <3>4 DEF LaneWidth, WidthOf, WidthInv
  <2>2. QED
    BY <2>1, WidthStep, WidthInvStep
<1>3. QED
  BY <1>1, <1>2, FlowInvariant, PTL DEF Spec

-----------------------------------------------------------------------------
(* First elements                                                            *)

\* A finite set that is not empty has a minimal element in every strict order.
LEMMA Minimal ==
  ASSUME NEW M, IsFiniteSet(M), M # {}, NEW R,
         \A x \in M : <<x, x>> \notin R,
         \A x, y, z \in M : <<x, y>> \in R /\ <<y, z>> \in R => <<x, z>> \in R
  PROVE  \E x \in M : \A y \in M : <<y, x>> \notin R
<1> DEFINE Below(x) == {y \in M : <<y, x>> \in R}
           T == {Below(x) : x \in M}
<1>1. T \subseteq FiniteSubsetsOf(M) /\ T # {}
  <2>1. \A x \in M : Below(x) \in SUBSET M
    OBVIOUS
  <2>2. \A x \in M : IsFiniteSet(Below(x))
    BY <2>1, FS_Subset
  <2>3. \A x \in M : Below(x) \in FiniteSubsetsOf(M)
    BY <2>1, <2>2 DEF FiniteSubsetsOf
  <2>4. PICK x \in M : TRUE
    OBVIOUS
  <2>5. QED
    <3>. HIDE DEF Below
    <3>. QED
      BY <2>3, <2>4
<1>2. PICK D \in T : \A E \in T : <<E, D>> \notin StrictSubsetOrdering(M)
  <2>1. IsWellFoundedOn(StrictSubsetOrdering(M), FiniteSubsetsOf(M))
    BY FS_StrictSubsetOrderingWellFounded
  <2>2. QED
    BY <1>1, <2>1, WFMin
<1>3. PICK x \in M : D = Below(x)
  OBVIOUS
<1>4. ASSUME NEW y \in M, <<y, x>> \in R
      PROVE  FALSE
  <2>1. Below(y) \subseteq Below(x) /\ y \in Below(x) /\ y \notin Below(y)
    BY <1>4
  <2>2. <<Below(y), Below(x)>> \in StrictSubsetOrdering(M)
    BY <2>1 DEF StrictSubsetOrdering
  <2>3. QED
    BY <1>2, <1>3, <2>2
<1>5. QED
  BY <1>4

\* The order of paths is strict.
LEMMA BeforeIsStrict ==
  /\ \A p \in Seq(Nat) : ~Before(p, p)
  /\ \A p, q, r \in Seq(Nat) : Before(p, q) /\ Before(q, r) => Before(p, r)
<1>1. ASSUME NEW p \in Seq(Nat)
      PROVE  ~Before(p, p)
  <2>1. Len(p) \in Nat /\ \A i \in 1..Len(p) : p[i] \in Nat
    OBVIOUS
  <2>2. QED
    BY <2>1 DEF Before
<1>2. ASSUME NEW p \in Seq(Nat), NEW q \in Seq(Nat), NEW r \in Seq(Nat),
             Before(p, q), Before(q, r)
      PROVE  Before(p, r)
  <2>1. /\ Len(p) \in Nat /\ Len(q) \in Nat /\ Len(r) \in Nat
        /\ \A i \in 1..Len(p) : p[i] \in Nat
        /\ \A i \in 1..Len(q) : q[i] \in Nat
        /\ \A i \in 1..Len(r) : r[i] \in Nat
    OBVIOUS
  <2>2. CASE Len(p) < Len(q) /\ \A i \in 1..Len(p) : p[i] = q[i]
    <3>1. CASE Len(q) < Len(r) /\ \A i \in 1..Len(q) : q[i] = r[i]
      BY <2>1, <2>2, <3>1 DEF Before
    <3>2. ASSUME NEW j \in 1..Len(q), j <= Len(r), q[j] < r[j], \A k \in 1..(j - 1) : q[k] = r[k]
          PROVE  Before(p, r)
      <4>1. CASE j <= Len(p)
        <5>1. j \in 1..Len(p) /\ p[j] < r[j] /\ \A k \in 1..(j - 1) : p[k] = r[k]
          <6>1. j \in 1..Len(p) /\ p[j] = q[j]
            BY <2>1, <2>2, <3>2, <4>1
          <6>2. \A k \in 1..(j - 1) : k \in 1..Len(p)
            BY <2>1, <3>2, <4>1
          <6>3. QED
            BY <2>2, <3>2, <6>1, <6>2
        <5>2. QED
          BY <3>2, <5>1 DEF Before
      <4>2. CASE Len(p) < j
        <5>1. Len(p) < Len(r) /\ \A k \in 1..Len(p) : p[k] = r[k]
          BY <2>1, <2>2, <3>2, <4>2
        <5>2. QED
          BY <5>1 DEF Before
      <4>3. QED
        BY <2>1, <4>1, <4>2
    <3>3. QED
      BY <1>2, <3>1, <3>2 DEF Before
  <2>3. ASSUME NEW i \in 1..Len(p), i <= Len(q), p[i] < q[i], \A k \in 1..(i - 1) : p[k] = q[k]
        PROVE  Before(p, r)
    <3>1. CASE Len(q) < Len(r) /\ \A k \in 1..Len(q) : q[k] = r[k]
      <4>1. i <= Len(r) /\ p[i] < r[i] /\ \A k \in 1..(i - 1) : p[k] = r[k]
        <5>1. i \in 1..Len(q) /\ i <= Len(r) /\ q[i] = r[i]
          BY <2>1, <2>3, <3>1
        <5>2. \A k \in 1..(i - 1) : k \in 1..Len(q)
          BY <2>1, <2>3
        <5>3. \A k \in 1..(i - 1) : p[k] = r[k]
          BY <2>3, <3>1, <5>2
        <5>4. QED
          BY <2>3, <5>1, <5>3
      <4>2. QED
        BY <2>3, <4>1 DEF Before
    <3>2. ASSUME NEW j \in 1..Len(q), j <= Len(r), q[j] < r[j], \A k \in 1..(j - 1) : q[k] = r[k]
          PROVE  Before(p, r)
      <4>1. CASE i < j
        <5>1. i <= Len(r) /\ p[i] < r[i] /\ \A k \in 1..(i - 1) : p[k] = r[k]
          <6>1. i \in 1..(j - 1) /\ i <= Len(r) /\ q[i] = r[i]
            BY <2>1, <2>3, <3>2, <4>1
          <6>2. \A k \in 1..(i - 1) : k \in 1..(j - 1)
            BY <2>1, <2>3, <3>2, <4>1
          <6>3. \A k \in 1..(i - 1) : p[k] = r[k]
            BY <2>3, <3>2, <6>2
          <6>4. QED
            BY <2>3, <6>1, <6>3
        <5>2. QED
          BY <2>3, <5>1 DEF Before
      <4>2. CASE i = j
        <5>1. p[i] < r[i] /\ \A k \in 1..(i - 1) : p[k] = r[k]
          <6>1. p[i] \in Nat /\ q[i] \in Nat /\ r[i] \in Nat
            BY <2>1, <3>2, <4>2
          <6>2. p[i] < q[i] /\ q[i] < r[i]
            BY <2>3, <3>2, <4>2
          <6>3. \A k \in 1..(i - 1) : p[k] = r[k]
            BY <2>3, <3>2, <4>2
          <6>4. p[i] < r[i]
            <7>1. \A a, b, c \in Nat : a < b /\ b < c => a < c
              OBVIOUS
            <7>2. QED
              BY <6>1, <6>2, <7>1, Zenon
          <6>5. QED
            BY <6>3, <6>4
        <5>2. QED
          BY <2>3, <3>2, <4>2, <5>1 DEF Before
      <4>3. CASE j < i
        <5>1. j \in 1..Len(p) /\ p[j] < r[j] /\ \A k \in 1..(j - 1) : p[k] = r[k]
          <6>1. j \in 1..(i - 1) /\ j \in 1..Len(p) /\ p[j] = q[j]
            BY <2>1, <2>3, <3>2, <4>3
          <6>2. \A k \in 1..(j - 1) : k \in 1..(i - 1)
            BY <2>1, <2>3, <3>2, <4>3
          <6>3. \A k \in 1..(j - 1) : p[k] = r[k]
            BY <2>3, <3>2, <6>2
          <6>4. QED
            BY <3>2, <6>1, <6>3
        <5>2. QED
          BY <3>2, <5>1 DEF Before
      <4>4. QED
        BY <2>1, <4>1, <4>2, <4>3
    <3>3. QED
      BY <1>2, <3>1, <3>2 DEF Before
  <2>4. QED
    BY <1>2, <2>2, <2>3 DEF Before
<1>3. QED
  BY <1>1, <1>2

\* Among some tasks there is one that no other is shallower than.
LEMMA Shallowest ==
  ASSUME FlowInv, NEW M \in SUBSET Ids, M # {}
  PROVE  \E t \in M : \A r \in M : Depth(r) >= Depth(t)
<1> DEFINE R == {e \in Ids \X Ids : Depth(e[1]) < Depth(e[2])}
<1>1. \A t \in M : Depth(t) \in Nat
  BY Fields DEF FlowInv
<1>2. \A x, y \in M : <<x, y>> \in R <=> Depth(x) < Depth(y)
  OBVIOUS
<1>3. \E t \in M : \A r \in M : <<r, t>> \notin R
  <2>1. IsFiniteSet(M)
    BY FiniteFlow
  <2>2. \A x \in M : <<x, x>> \notin R
    BY <1>1, <1>2
  <2>3. \A x, y, z \in M : <<x, y>> \in R /\ <<y, z>> \in R => <<x, z>> \in R
    BY <1>1, <1>2
  <2>4. QED
    <3>. HIDE DEF R
    <3>. QED
      BY <2>1, <2>2, <2>3, Minimal
<1>4. QED
  <2>. HIDE DEF R
  <2>1. PICK t \in M : \A r \in M : <<r, t>> \notin R
    BY <1>3
  <2>2. \A r \in M : ~(Depth(r) < Depth(t))
    BY <1>2, <2>1
  <2>3. QED
    BY <1>1, <2>2

\* Among some tasks there is one of the earliest branch that comes first in it.
LEMMA Foremost ==
  ASSUME FlowInv, NEW M \in SUBSET Ids, M # {}
  PROVE  \E t \in M : \A r \in M :
            /\ rows[r].branch >= rows[t].branch
            /\ rows[r].branch = rows[t].branch => ~Before(rows[r].path, rows[t].path)
<1> DEFINE R == {e \in Ids \X Ids :
                   \/ rows[e[1]].branch < rows[e[2]].branch
                   \/ /\ rows[e[1]].branch = rows[e[2]].branch
                      /\ Before(rows[e[1]].path, rows[e[2]].path)}
<1>1. \A t \in M : rows[t].branch \in Nat /\ rows[t].path \in Seq(Nat)
  BY Fields DEF FlowInv
<1>2. \A x, y \in M : <<x, y>> \in R <=> \/ rows[x].branch < rows[y].branch
                                        \/ /\ rows[x].branch = rows[y].branch
                                           /\ Before(rows[x].path, rows[y].path)
  OBVIOUS
<1>3. \E t \in M : \A r \in M : <<r, t>> \notin R
  <2>1. IsFiniteSet(M)
    BY FiniteFlow
  <2>2. \A x \in M : <<x, x>> \notin R
    <3>1. \A x \in M : ~Before(rows[x].path, rows[x].path)
      BY <1>1, BeforeIsStrict
    <3>2. \A x \in M : ~(rows[x].branch < rows[x].branch)
      BY <1>1
    <3>3. QED
      BY <1>2, <3>1, <3>2
  <2>3. \A x, y, z \in M : <<x, y>> \in R /\ <<y, z>> \in R => <<x, z>> \in R
    <3>. HIDE DEF R
    <3>1. ASSUME NEW x \in M, NEW y \in M, NEW z \in M, <<x, y>> \in R, <<y, z>> \in R
          PROVE  <<x, z>> \in R
      <4>1. CASE rows[x].branch = rows[y].branch /\ rows[y].branch = rows[z].branch
        <5>1. Before(rows[x].path, rows[y].path) /\ Before(rows[y].path, rows[z].path)
          BY <1>1, <1>2, <3>1, <4>1
        <5>2. Before(rows[x].path, rows[z].path)
          BY <1>1, <5>1, BeforeIsStrict
        <5>3. QED
          BY <1>2, <4>1, <5>2
      <4>2. CASE ~(rows[x].branch = rows[y].branch /\ rows[y].branch = rows[z].branch)
        <5>1. /\ rows[x].branch <= rows[y].branch /\ rows[y].branch <= rows[z].branch
          BY <1>1, <1>2, <3>1
        <5>2. rows[x].branch < rows[z].branch
          BY <1>1, <4>2, <5>1
        <5>3. QED
          BY <1>2, <5>2
      <4>3. QED
        BY <4>1, <4>2
    <3>2. QED
      BY <3>1
  <2>4. QED
    <3>. HIDE DEF R
    <3>. QED
      BY <2>1, <2>2, <2>3, Minimal
<1>4. QED
  <2>. HIDE DEF R
  <2>1. PICK t \in M : \A r \in M : <<r, t>> \notin R
    BY <1>3
  <2>2. \A r \in M : /\ ~(rows[r].branch < rows[t].branch)
                     /\ ~(rows[r].branch = rows[t].branch /\ Before(rows[r].path, rows[t].path))
    BY <1>2, <2>1
  <2>3. \A r \in M : /\ rows[r].branch >= rows[t].branch
                     /\ rows[r].branch = rows[t].branch => ~Before(rows[r].path, rows[t].path)
    BY <1>1, <2>2
  <2>4. QED
    BY <2>1, <2>3

-----------------------------------------------------------------------------
(* Progress                                                                  *)

(* The path of a task goes on from its parent's, and so does its branch,     *)
(* unless it opens one.                                                      *)
LinkInv ==
  \A t \in Ids :
    /\ rows[t].parent # 0 => rows[t].path = Append(rows[rows[t].parent].path, t)
    /\ \/ rows[t].branch = t
       \/ rows[t].parent # 0 /\ rows[t].branch = rows[rows[t].parent].branch

(* A parent has begun: only a retry or a restart takes that back.            *)
BegunInv ==
  retried = {} /\ crashes = 0 =>
    \A t \in Ids : rows[t].parent # 0 => rows[rows[t].parent].status # "pending"

LEMMA LinkStep ==
  ASSUME FlowInv, LinkInv, Next
  PROVE  LinkInv'
<1>1. /\ \A u \in Ids : SamePlace(u)
      /\ \A n \in Ids' \ Ids : Fresh(n)
  BY Steps DEF FlowInv
<1>2. \A u \in Ids : rows[u].parent # 0 => rows[u].parent \in Ids
  BY Fields DEF FlowInv, TreeInv, Ids
<1>3. ASSUME NEW t \in Ids' \cap Ids
      PROVE  /\ rows'[t].parent # 0 => rows'[t].path = Append(rows'[rows'[t].parent].path, t)
             /\ \/ rows'[t].branch = t
                \/ rows'[t].parent # 0 /\ rows'[t].branch = rows'[rows'[t].parent].branch
  <2>1. /\ rows[t].parent # 0 => rows[t].path = Append(rows[rows[t].parent].path, t)
        /\ \/ rows[t].branch = t
           \/ rows[t].parent # 0 /\ rows[t].branch = rows[rows[t].parent].branch
    BY DEF LinkInv
  <2>2. /\ rows'[t].parent = rows[t].parent /\ rows'[t].branch = rows[t].branch
        /\ rows'[t].path = rows[t].path
    BY <1>1 DEF SamePlace
  <2>3. ASSUME rows[t].parent # 0
        PROVE  /\ rows'[rows[t].parent].path = rows[rows[t].parent].path
               /\ rows'[rows[t].parent].branch = rows[rows[t].parent].branch
    BY <1>1, <1>2, <2>3 DEF SamePlace
  <2>4. QED
    BY <2>1, <2>2, <2>3
<1>4. ASSUME NEW t \in Ids' \ Ids
      PROVE  /\ rows'[t].parent # 0 => rows'[t].path = Append(rows'[rows'[t].parent].path, t)
             /\ \/ rows'[t].branch = t
                \/ rows'[t].parent # 0 /\ rows'[t].branch = rows'[rows'[t].parent].branch
  <2>1. PICK parent \in Nat, s \in Stages :
          /\ parent = 0 \/ parent \in Ids
          /\ t = Len(rows) + 1 /\ rows'[t] = NewRow(parent, s)
          /\ \A u \in Ids : rows'[u] = rows[u]
    BY <1>1 DEF Fresh
  <2>2. /\ rows'[t].parent = parent
        /\ parent # 0 => rows'[t].path = Append(rows[parent].path, t)
        /\ rows'[t].branch = t \/ (parent # 0 /\ rows'[t].branch = rows[parent].branch)
    BY <2>1 DEF NewRow
  <2>3. QED
    BY <2>1, <2>2
<1>5. QED
  BY <1>3, <1>4 DEF LinkInv

LEMMA BegunStep ==
  ASSUME FlowInv, BegunInv, Next
  PROVE  BegunInv'
<1>1. /\ \A u \in Ids : SamePlace(u) /\ Moves(u)
      /\ \A n \in Ids' \ Ids : Fresh(n)
      /\ retried \subseteq retried' /\ crashes <= crashes'
  BY Steps DEF FlowInv, Remembers
<1>2. SUFFICES ASSUME retried' = {}, crashes' = 0, NEW t \in Ids', rows'[t].parent # 0
               PROVE  (rows[rows[t].parent].status # "pending")'
  BY DEF BegunInv
<1>3. retried = {} /\ crashes = 0
  BY <1>1, <1>2 DEF FlowInv, TypeOK
<1>4. ASSUME NEW u \in Ids, rows[u].status # "pending"
      PROVE  rows'[u].status # "pending"
  BY <1>1, <1>2, <1>4 DEF Moves
<1>5. CASE t \in Ids
  <2>1. rows'[t].parent = rows[t].parent /\ rows[t].parent \in Ids
    <3>1. rows'[t].parent = rows[t].parent
      BY <1>1, <1>5 DEF SamePlace
    <3>2. QED
      BY <1>2, <1>5, <3>1, Fields DEF FlowInv, TreeInv, Ids
  <2>2. rows[rows[t].parent].status # "pending"
    BY <1>2, <1>3, <1>5, <2>1 DEF BegunInv
  <2>3. QED
    BY <1>4, <2>1, <2>2
<1>6. CASE t \notin Ids
  <2>1. PICK parent \in Nat, s \in Stages :
          /\ MayRegister(parent, s) /\ rows'[t] = NewRow(parent, s)
          /\ \A u \in Ids : rows'[u] = rows[u]
    BY <1>1, <1>2, <1>6 DEF Fresh
  <2>2. rows'[t].parent = parent
    BY <2>1 DEF NewRow
  <2>3. parent \in Ids /\ rows[parent].status = "processing"
    BY <1>2, <2>1, <2>2 DEF MayRegister, Executed, Running
  <2>4. QED
    BY <2>1, <2>2, <2>3
<1>7. QED
  BY <1>5, <1>6

\* The shallowest pending task of a breadth-first lane may start when nothing runs.
LEMMA BreadthFree ==
  ASSUME FlowInv, Running = {}, NEW t \in Pending, rows[t].parent \notin Active,
         policy[Lane(t)].mode = "breadth",
         \A r \in In(Lane(t), Pending) : Depth(r) >= Depth(t)
  PROVE  Eligible(t)
<1>1. t \in Ids /\ Active = Pending
  BY DEF Running, Pending, Active
<1>2. policy[Lane(t)].parallel \in Nat \ {0}
  BY <1>1, Fields DEF FlowInv, FlowLane
<1>3. In(Lane(t), Active) \cap Running = {} /\ Cardinality({}) = 0
  BY FS_EmptySet
<1>4. BreadthReady(t, In(Lane(t), Active), policy[Lane(t)].parallel)
  BY <1>1, <1>2, <1>3 DEF BreadthReady
<1>5. QED
  BY <1>4 DEF Eligible

\* The foremost pending task of a depth-first lane may start when nothing runs.
LEMMA DepthFree ==
  ASSUME FlowInv, Running = {}, NEW t \in Pending, rows[t].parent \notin Active,
         policy[Lane(t)].mode = "depth",
         \A r \in In(Lane(t), Pending) :
            /\ rows[r].branch >= rows[t].branch
            /\ rows[r].branch = rows[t].branch => ~Before(rows[r].path, rows[t].path)
  PROVE  Eligible(t)
<1> DEFINE active == In(Lane(t), Active)
<1>1. t \in Ids /\ Active = Pending /\ \A r \in active : r \in Ids
  BY DEF Running, Pending, Active, In
<1>2. policy[Lane(t)].parallel \in Nat \ {0} /\ rows[t].branch \in Nat
  BY <1>1, Fields DEF FlowInv, FlowLane
<1>3. active \cap Running = {} /\ Branches({}) = {} /\ Cardinality({}) = 0
  BY FS_EmptySet DEF Branches
<1>4. {b \in Branches(active) \ {} : b < rows[t].branch} = {}
  <2>1. \A r \in active : rows[r].branch \in Nat /\ rows[r].branch >= rows[t].branch
    BY <1>1, Fields DEF FlowInv
  <2>2. \A r \in active : ~(rows[r].branch < rows[t].branch)
    BY <1>2, <2>1
  <2>3. QED
    BY <2>2 DEF Branches
<1>5. DepthReady(t, active, policy[Lane(t)].parallel)
  <2>1. \A r \in active : rows[r].branch = rows[t].branch => ~Before(rows[r].path, rows[t].path)
    BY <1>1
  <2>2. 0 < policy[Lane(t)].parallel - 0
    BY <1>2
  <2>. HIDE DEF active
  <2>3. QED
    BY <1>3, <1>4, <2>1, <2>2 DEF DepthReady
<1>6. QED
  BY <1>1, <1>5 DEF Eligible

\* Where all lanes have one mode, the first of all pending tasks may start.
LEMMA OneModeRuns ==
  ASSUME FlowInv, LinkInv, Running = {}, Pending # {},
         \A k, l \in Lanes : policy[k].mode = policy[l].mode
  PROVE  \E t \in Pending : Eligible(t)
<1>1. Pending \in SUBSET Ids /\ Active = Pending
  BY DEF Pending, Running, Active
<1>2. PICK l \in Lanes : TRUE
  BY <1>1, Fields DEF FlowInv
<1>3. \A t \in Pending : Lane(t) \in Lanes /\ policy[Lane(t)].mode = policy[l].mode
  BY <1>1, Fields DEF FlowInv
<1>4. policy[l].mode \in {"breadth", "depth"}
  BY DEF FlowInv, TypeOK, FlowLane
<1>5. ASSUME NEW t \in Pending, rows[t].parent \in Pending
      PROVE  LET u == rows[t].parent IN
             /\ u \in Ids /\ u < t /\ u # 0 /\ Depth(u) < Depth(t)
             /\ rows[u].branch <= u
             /\ rows[t].branch = t \/ rows[t].branch = rows[u].branch
             /\ Before(rows[u].path, rows[t].path)
  <2> DEFINE u == rows[t].parent
  <2>1. /\ u \in Ids /\ t \in Ids /\ u # 0 /\ u < t /\ rows[u].branch <= u
        /\ rows[u].path \in Seq(Nat) /\ t \in Nat
    <3>1. u \in Ids /\ t \in Ids /\ Len(rows) \in Nat
      BY <1>1, <1>5 DEF FlowInv, TypeOK
    <3>2. u \in 0..(t - 1) /\ rows[u].branch \in 1..u
      BY <3>1 DEF FlowInv, TreeInv
    <3>3. u \in Nat /\ t \in Nat /\ u # 0
      BY <3>1 DEF Ids
    <3>4. rows[u].path \in Seq(Nat)
      BY <3>1, Fields DEF FlowInv
    <3>5. QED
      BY <3>1, <3>2, <3>3, <3>4
  <2>2. /\ rows[t].path = Append(rows[u].path, t)
        /\ rows[t].branch = t \/ rows[t].branch = rows[u].branch
    BY <2>1 DEF LinkInv
  <2>3. /\ Len(rows[u].path) < Len(rows[t].path)
        /\ \A i \in 1..Len(rows[u].path) : rows[u].path[i] = rows[t].path[i]
    <3>1. ASSUME NEW p \in Seq(Nat), NEW n \in Nat
          PROVE  Len(p) < Len(Append(p, n)) /\ \A i \in 1..Len(p) : p[i] = Append(p, n)[i]
      OBVIOUS
    <3>2. QED
      BY <2>1, <2>2, <3>1
  <2>4. QED
    BY <2>1, <2>2, <2>3 DEF Before, Depth
<1>6. CASE policy[l].mode = "breadth"
  <2>1. PICK t \in Pending : \A r \in Pending : Depth(r) >= Depth(t)
    BY <1>1, Shallowest
  <2>2. rows[t].parent \notin Pending
    <3>1. ASSUME rows[t].parent \in Pending
          PROVE  FALSE
      <4>1. /\ Depth(rows[t].parent) < Depth(t) /\ Depth(rows[t].parent) >= Depth(t)
            /\ Depth(rows[t].parent) \in Nat /\ Depth(t) \in Nat
        BY <1>1, <1>5, <2>1, <3>1, Fields DEF FlowInv
      <4>2. QED
        BY <4>1
    <3>2. QED
      BY <3>1
  <2>3. QED
    BY <1>1, <1>3, <1>6, <2>1, <2>2, BreadthFree DEF In
<1>7. CASE policy[l].mode = "depth"
  <2>1. PICK t \in Pending : \A r \in Pending :
          /\ rows[r].branch >= rows[t].branch
          /\ rows[r].branch = rows[t].branch => ~Before(rows[r].path, rows[t].path)
    BY <1>1, Foremost
  <2>2. rows[t].parent \notin Pending
    <3>1. ASSUME rows[t].parent \in Pending
          PROVE  FALSE
      <4> DEFINE u == rows[t].parent
      <4>1. /\ u < t /\ rows[u].branch <= u
            /\ rows[t].branch = t \/ rows[t].branch = rows[u].branch
            /\ Before(rows[u].path, rows[t].path)
        BY <1>5, <3>1
      <4>2. rows[u].branch >= rows[t].branch /\ rows[u].branch # rows[t].branch
        BY <2>1, <3>1, <4>1
      <4>3. u \in Nat /\ t \in Nat /\ rows[u].branch \in Nat
        BY <1>1, <3>1, Fields DEF FlowInv
      <4>4. rows[t].branch = t
        BY <4>1, <4>2
      <4>. HIDE DEF u
      <4>5. QED
        BY <4>1, <4>2, <4>3, <4>4
    <3>2. QED
      BY <3>1
  <2>3. QED
    BY <1>1, <1>3, <1>7, <2>1, <2>2, DepthFree DEF In
<1>8. QED
  BY <1>4, <1>6, <1>7

\* Where all parents have begun and nothing runs, every lane can go on by itself.
LEMMA LaneRuns ==
  ASSUME FlowInv, Running = {}, Pending # {},
         \A t \in Ids : rows[t].parent # 0 => rows[rows[t].parent].status # "pending"
  PROVE  \E t \in Pending : Eligible(t)
<1>1. Pending \in SUBSET Ids /\ Active = Pending
  BY DEF Pending, Running, Active
<1>2. \A t \in Pending : rows[t].parent \notin Active
  <2>1. ASSUME NEW t \in Pending, rows[t].parent \in Pending
        PROVE  FALSE
    <3>1. rows[t].parent \in Ids /\ rows[rows[t].parent].status = "pending"
      BY <2>1 DEF Pending
    <3>2. rows[t].parent # 0
      BY <3>1, Fields DEF FlowInv
    <3>3. QED
      BY <1>1, <3>1, <3>2
  <2>2. QED
    BY <1>1, <2>1
<1>3. PICK l \in Lanes : In(l, Pending) # {}
  <2>1. PICK t \in Pending : TRUE
    OBVIOUS
  <2>2. Lane(t) \in Lanes /\ t \in In(Lane(t), Pending)
    BY <1>1, <2>1, Fields DEF FlowInv, In
  <2>3. QED
    BY <2>2
<1>4. In(l, Pending) \in SUBSET Ids /\ \A t \in In(l, Pending) : t \in Pending /\ Lane(t) = l
  BY <1>1 DEF In
<1>5. policy[l].mode \in {"breadth", "depth"}
  BY DEF FlowInv, TypeOK, FlowLane
<1>6. CASE policy[l].mode = "breadth"
  <2>1. PICK t \in In(l, Pending) : \A r \in In(l, Pending) : Depth(r) >= Depth(t)
    BY <1>3, <1>4, Shallowest
  <2>2. QED
    BY <1>2, <1>4, <1>6, <2>1, BreadthFree
<1>7. CASE policy[l].mode = "depth"
  <2>1. PICK t \in In(l, Pending) : \A r \in In(l, Pending) :
          /\ rows[r].branch >= rows[t].branch
          /\ rows[r].branch = rows[t].branch => ~Before(rows[r].path, rows[t].path)
    BY <1>3, <1>4, Foremost
  <2>2. QED
    BY <1>2, <1>4, <1>7, <2>1, DepthFree
<1>8. QED
  BY <1>5, <1>6, <1>7

\* Lanes of one mode never block each other for good, and neither do lanes of different
\* modes as long as no task has become pending again.
THEOREM AlikeLanesGoOn == Spec => []NeverStuckAlike
<1>1. Init => LinkInv /\ BegunInv
  BY DEF Init, LinkInv, BegunInv, Ids
<1>2. FlowInv /\ LinkInv /\ BegunInv /\ [Next]_vars => (LinkInv /\ BegunInv)'
  <2>1. ASSUME LinkInv, BegunInv, UNCHANGED vars
        PROVE  (LinkInv /\ BegunInv)'
    BY <2>1 DEF LinkInv, BegunInv, vars, past, Ids
  <2>2. QED
    BY <2>1, LinkStep, BegunStep
<1>3. FlowInv /\ LinkInv /\ BegunInv => NeverStuckAlike
  <2>1. ASSUME FlowInv, LinkInv, BegunInv, Stuck, Alike
        PROVE  FALSE
    <3>1. \E t \in Pending : Eligible(t)
      BY <2>1, OneModeRuns, LaneRuns DEF Stuck, Alike, BegunInv
    <3>2. QED
      BY <2>1, <3>1 DEF Stuck
  <2>2. QED
    BY <2>1 DEF NeverStuckAlike
<1>4. QED
  BY <1>1, <1>2, <1>3, FlowInvariant, PTL DEF Spec
=============================================================================
