------------------------------ MODULE TaskFlow ------------------------------
(***************************************************************************)
(* One run of the task flow scheduler: tasks are registered below a parent *)
(* that is being processed, wait in the pools' queues or in the spill      *)
(* table, and are claimed when the policy of their lane lets them: breadth *)
(* first, level by level, or depth first, one branch after the other.      *)
(*                                                                         *)
(* Registration, claim and policy update lock the row of the run, so each  *)
(* is one step.  A terminal write does not, and neither do retries.        *)
(* Copies of one task in one queue are one copy; TaskEngine models them.   *)
(***************************************************************************)
EXTENDS Integers, Sequences, FiniteSets

CONSTANTS
  Lanes,
  Stages,
  LaneOf,      (* FlowPolicy.Stages, which never changes                   *)
  Links,       (* <<s, u>>: the handler of stage s registers tasks of u    *)
  Root,        (* <<Root, s>>: stage s has tasks without a parent          *)
  Policies,    (* the values the policy of each lane may take: mode, width *)
  TaskLimit,   (* flowTaskLimit                                            *)
  MaxDepth,    (* the longest path, 32 in the code                         *)
  MaxRevision, (* bound on policy updates                                  *)
  MaxLost,     (* bound on tasks whose answer is lost, at a time           *)
  MaxMarked,   (* bound on tasks marked failed                                 *)
  MaxRetries,  (* bound on retries                                         *)
  MaxCrashes   (* bound on restarts                                        *)

FlowLane == [mode : {"breadth", "depth"}, parallel : Nat \ {0}]

ASSUME FlowAssumption ==
  /\ LaneOf \in [Stages -> Lanes]
  /\ Links \subseteq (Stages \cup {Root}) \X Stages
  /\ Root \notin Stages
  /\ Policies \in [Lanes -> SUBSET FlowLane]
  /\ TaskLimit \in Nat /\ MaxDepth \in Nat /\ MaxRevision \in Nat
  /\ MaxLost \in Nat /\ MaxMarked \in Nat /\ MaxRetries \in Nat /\ MaxCrashes \in Nat

VARIABLES
  rows,        \* the task table of the run: a row's id is its position
  policy,      \* the policy of each lane
  revision,
  held,        \* tasks with a copy in a pool's queue or in the spill table
  unsettled,   \* Engine.unsettled: claimed, and nobody knows by whom
  lost,        \* history: pending tasks that nobody delivered, as an answer was lost
  begun,       \* history: tasks started since they last became pending
  retried,     \* history: tasks that were set pending again after they ended
  switched,    \* history: lanes whose mode has changed
  widest,      \* history: the largest Parallel a lane has had
  crashes

past   == <<lost, begun, retried, switched, widest>>
vars   == <<rows, policy, revision, held, unsettled, past, crashes>>

Ids    == 1..Len(rows)
Status == {"pending", "processing", "ended"}
Row    == [parent : Nat, stage : Stages, branch : Nat, path : Seq(Nat), status : Status]

TypeOK ==
  /\ rows \in Seq(Row)
  /\ policy \in [Lanes -> FlowLane]
  /\ revision \in Nat /\ crashes \in Nat
  /\ held \subseteq Ids /\ unsettled \subseteq Ids
  /\ lost \subseteq Ids /\ begun \subseteq Ids /\ retried \subseteq Ids
  /\ switched \subseteq Lanes
  /\ widest \in [Lanes -> Nat]

\* A policy names a mode and a width for each lane.
Choices == {f \in [Lanes -> UNION {Policies[l] : l \in Lanes}] :
              \A l \in Lanes : f[l] \in Policies[l]}

Init ==
  /\ rows = <<>>
  /\ policy \in Choices
  /\ revision = 1
  /\ held = {} /\ unsettled = {}
  /\ lost = {} /\ begun = {} /\ retried = {} /\ switched = {}
  /\ widest = [l \in Lanes |-> policy[l].parallel]
  /\ crashes = 0

-----------------------------------------------------------------------------
(* The policy                                                              *)

Lane(t)   == LaneOf[rows[t].stage]
Depth(t)  == Len(rows[t].path)
Active    == {t \in Ids : rows[t].status \in {"pending", "processing"}}
Running   == {t \in Ids : rows[t].status = "processing"}
Pending   == {t \in Ids : rows[t].status = "pending"}
In(l, S)  == {t \in S : Lane(t) = l}
Branches(S) == {rows[t].branch : t \in S}

\* The order of FlowPath strings: fixed-width ids, a parent before its children.
Before(p, q) ==
  \/ Len(p) < Len(q) /\ \A i \in 1..Len(p) : p[i] = q[i]
  \/ \E i \in 1..Len(p) : /\ i <= Len(q) /\ p[i] < q[i]
                          /\ \A k \in 1..(i - 1) : p[k] = q[k]

\* Mutant: only what runs is waited for.
BreadthReadyRunning(t, active, parallel) ==
  /\ \A r \in active \cap Running : Depth(r) >= Depth(t)
  /\ Cardinality(active \cap Running) < parallel

BreadthReady(t, active, parallel) ==
  /\ \A r \in active : Depth(r) >= Depth(t)
  /\ Cardinality(active \cap Running) < parallel

\* Mutant: the tasks of a branch in any order.
DepthReadyAnyOrder(t, active, parallel) ==
  LET occupied == Branches(active \cap Running)
      earlier  == {b \in Branches(active) \ occupied : b < rows[t].branch}
  IN /\ rows[t].branch \notin occupied
     /\ Cardinality(earlier) < parallel - Cardinality(occupied)

\* Mutant: the branch of the task itself counts as an earlier one.
DepthReadyAfterItself(t, active, parallel) ==
  LET occupied == Branches(active \cap Running)
      earlier  == {b \in Branches(active) \ occupied : b <= rows[t].branch}
  IN /\ rows[t].branch \notin occupied
     /\ Cardinality(earlier) < parallel - Cardinality(occupied)
     /\ \A r \in active : rows[r].branch = rows[t].branch => ~Before(rows[r].path, rows[t].path)

\* Of the branches that do not run, the first ones get what is left of Parallel.
DepthReady(t, active, parallel) ==
  LET occupied == Branches(active \cap Running)
      earlier  == {b \in Branches(active) \ occupied : b < rows[t].branch}
  IN /\ rows[t].branch \notin occupied
     /\ Cardinality(earlier) < parallel - Cardinality(occupied)
     /\ \A r \in active : rows[r].branch = rows[t].branch => ~Before(rows[r].path, rows[t].path)

\* Mutant: a lane that has been reduced takes one more.
EligibleLate(t) ==
  LET active == In(Lane(t), Active)
      p      == policy[Lane(t)]
  IN /\ rows[t].parent \notin Active
     /\ IF p.mode = "breadth" THEN BreadthReady(t, active, p.parallel + 1)
                              ELSE DepthReady(t, active, p.parallel + 1)

\* Mutant: only a parent of the same lane is waited for.
EligibleLaneOnly(t) ==
  LET active == In(Lane(t), Active)
      p      == policy[Lane(t)]
  IN /\ rows[t].parent \notin active
     /\ IF p.mode = "breadth" THEN BreadthReady(t, active, p.parallel)
                              ELSE DepthReady(t, active, p.parallel)

\* flowEligible for a pending task.
Eligible(t) ==
  LET active == In(Lane(t), Active)
      p      == policy[Lane(t)]
  IN /\ rows[t].parent \notin Active
     /\ IF p.mode = "breadth" THEN BreadthReady(t, active, p.parallel)
                              ELSE DepthReady(t, active, p.parallel)

\* UpdateTaskFlow with the current revision replaces the policy of all lanes.  A stale
\* revision or another set of stages is refused and changes nothing; an update that
\* repeats the policy only counts the revision.
UpdateTaskFlow(new) ==
  /\ revision <= MaxRevision /\ policy # new
  /\ policy' = new
  /\ revision' = revision + 1
  /\ switched' = switched \cup {l \in Lanes : policy[l].mode # new[l].mode}
  /\ widest' = [l \in Lanes |-> IF widest[l] < new[l].parallel THEN new[l].parallel ELSE widest[l]]
  /\ UNCHANGED <<rows, held, unsettled, lost, begun, retried, crashes>>

-----------------------------------------------------------------------------
(* Registration                                                            *)

SetStatus(t, status) == rows' = [rows EXCEPT ![t].status = status]

\* The row of a new task of stage s below parent, 0 for none: its path goes on from
\* the parent's, its branch too if it stays in the parent's lane.
NewRow(parent, s) ==
  LET id == Len(rows) + 1 IN
  [parent |-> parent, stage |-> s, status |-> "pending",
   path   |-> Append(IF parent = 0 THEN <<>> ELSE rows[parent].path, id),
   branch |-> IF parent # 0 /\ Lane(parent) = LaneOf[s] THEN rows[parent].branch ELSE id]

\* The tasks whose handler is at work.
Executed == Running \ unsettled

\* One more answer may be lost.
MayLose == Cardinality(lost \cup unsettled) < MaxLost

MayRegister(parent, s) ==
  /\ Len(rows) < TaskLimit
  /\ \/ parent = 0 /\ <<Root, s>> \in Links
     \/ /\ parent \in Executed /\ Depth(parent) < MaxDepth
        /\ <<rows[parent].stage, s>> \in Links

\* SubmitFlowTask: the row, its lineage, then the queue.
Submit(parent, s) ==
  /\ MayRegister(parent, s)
  /\ rows' = Append(rows, NewRow(parent, s))
  /\ held' = held \cup {Len(rows) + 1}
  /\ UNCHANGED <<policy, revision, unsettled, past, crashes>>

\* The commit took effect and its acknowledgement is lost: the caller sees an error
\* and nothing is enqueued.
SubmitUnacknowledged(parent, s) ==
  /\ MayRegister(parent, s) /\ MayLose
  /\ rows' = Append(rows, NewRow(parent, s))
  /\ lost' = lost \cup {Len(rows) + 1}
  /\ UNCHANGED <<policy, revision, held, unsettled, begun, retried, switched, widest, crashes>>

\* The same URL again, by the same parent: no new row, one more delivery.  RetryTask of
\* a pending task comes to the same.
Resubmit(t) ==
  /\ rows[t].status = "pending"
  /\ held' = held \cup {t}
  /\ lost' = lost \ {t}
  /\ UNCHANGED <<rows, policy, revision, unsettled, begun, retried, switched, widest, crashes>>

-----------------------------------------------------------------------------
(* Execution                                                               *)

\* A claim of a pending task starts it, or finds nothing to do.
Start(t) ==
  IF rows[t].status = "pending"
  THEN SetStatus(t, "processing") /\ begun' = begun \cup {t}
  ELSE UNCHANGED <<rows, begun>>

\* Mutant: a copy that has to wait is thrown away.
ClaimOrForget(t) ==
  /\ t \in held
  /\ held' = held \ {t}
  /\ IF rows[t].status = "pending" /\ Eligible(t) THEN Start(t) ELSE UNCHANGED <<rows, begun>>
  /\ UNCHANGED <<policy, revision, unsettled, lost, retried, switched, widest, crashes>>

\* claimFlowTask by a worker that has taken the copy.  A copy that has to wait goes to
\* the spill table and comes back with the drain, which the end of a task, a
\* registration or an update wakes and its interval in any case: it stays held.
Claim(t) ==
  /\ t \in held
  /\ rows[t].status = "pending" => Eligible(t)
  /\ held' = held \ {t}
  /\ Start(t)
  /\ UNCHANGED <<policy, revision, unsettled, lost, retried, switched, widest, crashes>>

\* The claim commits and its answer is lost: the claim is repeated, finds the row being
\* processed, and remembers it as unsettled instead of executing it.
ClaimLost(t) ==
  /\ t \in held /\ rows[t].status = "pending" /\ Eligible(t) /\ MayLose
  /\ held' = held \ {t}
  /\ unsettled' = unsettled \cup {t}
  /\ Start(t)
  /\ UNCHANGED <<policy, revision, lost, retried, switched, widest, crashes>>

\* The terminal write, success or failure.
Finish(t) ==
  /\ t \in Executed
  /\ SetStatus(t, "ended")
  /\ UNCHANGED <<policy, revision, held, unsettled, past, crashes>>

\* MarkTaskFailed takes a task out that waits: it ends without having started.
MarkTaskFailed(t) ==
  /\ t \in Pending /\ Cardinality({u \in Ids \ begun : rows[u].status = "ended"}) < MaxMarked
  /\ SetStatus(t, "ended")
  /\ lost' = lost \ {t}
  /\ UNCHANGED <<policy, revision, held, unsettled, begun, retried, switched, widest, crashes>>

\* The error queue or an operator sets an ended task pending ...
Reset(t) ==
  /\ rows[t].status = "ended"
  /\ t \notin retried /\ Cardinality(retried) < MaxRetries
  /\ SetStatus(t, "pending")
  /\ retried' = retried \cup {t}
  /\ begun' = begun \ {t}

\* ... and delivers it ...
Retry(t) ==
  /\ Reset(t)
  /\ held' = held \cup {t}
  /\ UNCHANGED <<policy, revision, unsettled, lost, switched, widest, crashes>>

\* ... or does not, because the answer of the reset was lost.
RetryLost(t) ==
  /\ Reset(t) /\ MayLose
  /\ lost' = lost \cup {t}
  /\ UNCHANGED <<policy, revision, held, unsettled, switched, widest, crashes>>

\* The process restarts: queues are lost, startup recovery sets what was being
\* processed to pending and delivers every active row.
Crash ==
  /\ crashes < MaxCrashes
  /\ crashes' = crashes + 1
  /\ rows' = [t \in Ids |-> [rows[t] EXCEPT !.status = IF @ = "ended" THEN @ ELSE "pending"]]
  /\ held' = Active
  /\ unsettled' = {} /\ lost' = {} /\ begun' = begun \ Active
  /\ UNCHANGED <<policy, revision, retried, switched, widest>>

Work(t) == Claim(t) \/ Finish(t)

Next ==
  \/ \E parent \in 0..Len(rows), s \in Stages :
       Submit(parent, s) \/ SubmitUnacknowledged(parent, s)
  \/ \E t \in Ids :
       \/ Resubmit(t) \/ Claim(t) \/ ClaimLost(t) \/ Finish(t)
       \/ MarkTaskFailed(t) \/ Retry(t) \/ RetryLost(t)
  \/ \E new \in Choices : UpdateTaskFlow(new)
  \/ Crash

Spec == Init /\ [][Next]_vars

\* A worker takes what is queued, a handler returns, the drain comes round.
FairSpec == Spec /\ \A t \in 1..TaskLimit : WF_vars(t \in Ids /\ Work(t))

-----------------------------------------------------------------------------
(* Properties                                                              *)

Begun(t) == t \in begun
Done(t)  == rows[t].status = "ended"

\* A task never starts before its parent has ended, in whatever lanes the two are and
\* however the policies change; only a retry may set the parent active again
\* (flowEligible: the parent may still be producing children).
ParentEndsFirst ==
  \A t \in Ids : rows[t].parent # 0 /\ Begun(t) =>
     Done(rows[t].parent) \/ rows[t].parent \in retried

\* In a lane that has always been breadth first, a task has started only if all the
\* shallower ones that were registered before it have ended; policy changes of other
\* lanes, restarts and lost acknowledgements included.
BreadthOrder ==
  \A s, t \in Ids :
     /\ Lane(s) = Lane(t) /\ Lane(t) \notin switched /\ policy[Lane(t)].mode = "breadth"
     /\ s < t /\ Depth(s) < Depth(t) /\ Begun(t)
     => Done(s) \/ s \in retried

\* In a lane that has always been depth first, the tasks of a branch start in preorder,
\* each after everything before it has ended, unless an ancestor was retried.
DepthOrder ==
  \A s, t \in Ids :
     /\ Lane(s) = Lane(t) /\ Lane(t) \notin switched /\ policy[Lane(t)].mode = "depth"
     /\ rows[s].branch = rows[t].branch
     /\ Before(rows[s].path, rows[t].path) /\ Begun(t)
     => Done(s) \/ \E i \in 1..Depth(s) : rows[s].path[i] \in retried

\* A lane whose mode has not changed never runs more tasks, or more branches, than the
\* largest Parallel it has had, and no branch twice.
LaneWidth ==
  \A l \in Lanes \ switched :
     LET running == In(l, Running) IN
     /\ policy[l].mode = "breadth" => Cardinality(running) <= widest[l]
     /\ policy[l].mode = "depth"   => /\ Cardinality(Branches(running)) <= widest[l]
                                      /\ \A s, t \in running : rows[s].branch = rows[t].branch => s = t

\* All lanes have the same mode, or no task has become pending again.
Alike ==
  \/ retried = {} /\ crashes = 0
  \/ \A k, l \in Lanes : policy[k].mode = policy[l].mode

Stuck == Running = {} /\ Pending # {} /\ \A t \in Pending : ~Eligible(t)

\* The waiting rules of one mode have no cycle: as long as all lanes have the same mode,
\* or no task has become pending again, some pending task may start whenever nothing runs.
NeverStuckAlike == Alike => ~Stuck

\* After a switch the order of the tasks may differ from the new policy for a while, which
\* is a normal transition (docs/TASK_FLOW.md:43): whatever the lanes' modes, the run goes on.
NeverStuck == ~Stuck

\* Every task that was delivered ends, whatever order the claims were tried in, once the
\* lanes stay alike and every lost answer has been made good: the registration or retry
\* repeated, the engine restarted after an unsettled claim (lanes that differ may wait for
\* each other for ever, see NeverStuck).
DeliveredIsDone ==
  <>[](Alike /\ lost = {} /\ unsettled = {}) =>
    \A t \in 1..TaskLimit : (t \in held) ~> (t \in Ids /\ Done(t))

=============================================================================
