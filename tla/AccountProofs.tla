--------------------------- MODULE AccountProofs ---------------------------
(***************************************************************************)
(* A logout is final, what a pause overtook is never published, a          *)
(* generation names one set of credentials, and the chain of waiting ends, *)
(* for any number of callers, operations, pauses and restarts.             *)
(***************************************************************************)
EXTENDS Account, TLAPS

USE AccountAssumption

-----------------------------------------------------------------------------
(* The inductive invariant                                                   *)

Leading == {"check", "bridge", "login"}

(* Who is in a round leads it, and the browser is with the one who uses it. *)
ControlInv ==
  /\ \A p \in Callers :
       /\ pc[p] \in {"ensure", "join", "check", "bridge", "login", "request"} => p \in Http
       /\ pc[p] \in {"slot", "read", "use"} => p \in Browsers
       /\ pc[p] = "join" => flight # nil
       /\ pc[p] \in Leading <=> flight = p
       /\ browserSlot = p <=> (pc[p] \in {"read", "use"} \/ (autoBridge /\ pc[p] = "login"))
       /\ pc[p] = "bridge" => autoBridge

(* A browser operation publishes over the snapshot it has read: no other     *)
(* one has the browser.                                                      *)
BrowserInv == \A p \in Callers :
  pc[p] = "use" \/ (autoBridge /\ pc[p] = "login") => (autoBridge => op[p].brev = browserRevision)

(* Generations only grow, and change with the credentials: one that is still *)
(* the account's names the credentials in use.                               *)
VersionInv == \A p \in Callers :
  /\ pc[p] \in Leading \cup {"request"} => op[p].ver <= version
  /\ pc[p] \in {"check", "request"} => op[p].cred # nil
  /\ pc[p] \in {"check", "request"} /\ op[p].ver = version => op[p].cred = current

(* The epoch moves with every pause, so an operation whose epoch is still the *)
(* account's was begun after the last one.                                   *)
EpochInv == \A p \in Callers :
  pc[p] \in Leading \cup {"use"} =>
    /\ op[p].rev <= revision
    /\ op[p].rev = revision => op[p].since = halts

(* A process that logged out never loads again.                              *)
LogoutInv ==
  /\ lastLogout <= halts /\ logoutRun <= restarts
  /\ undeleted /\ restarts = logoutRun => loaded
  /\ NoResurrection

AccountInv == TypeOK /\ ControlInv /\ BrowserInv /\ VersionInv /\ EpochInv /\ LogoutInv

-----------------------------------------------------------------------------
(* How a round lands                                                         *)

Landed(p, cred, ver) ==
  /\ pc' \in [Callers -> Places] /\ op' \in [Callers -> Operation]
  /\ flight' = nil /\ browserSlot' = IF browserSlot = p THEN nil ELSE browserSlot
  /\ \A q \in Callers :
       IF q = p \/ pc[q] = "join"
       THEN /\ pc'[q] = IF cred # nil THEN "request" ELSE "idle"
            /\ cred # nil => op'[q].cred = cred /\ op'[q].ver = ver
       ELSE pc'[q] = pc[q] /\ op'[q] = op[q]

\* Everybody in the round gets what its leader gets.
LEMMA LandEffect ==
  ASSUME TypeOK, NEW p \in Callers, NEW cred \in Credential \cup {nil}, NEW ver \in Nat,
         Land(p, cred, ver)
  PROVE  Landed(p, cred, ver)
<1> DEFINE fresh(q) == [Blank EXCEPT !.cred = cred, !.ver = ver, !.again = op[q].again]
<1>1. ASSUME NEW q \in Callers PROVE fresh(q) \in Operation /\ fresh(q).cred = cred /\ fresh(q).ver = ver
  BY DEF Blank, Operation, TypeOK
<1>2. Blank \in Operation
  BY DEF Blank, Operation
<1>3. /\ pc' = [q \in Callers |-> IF ~(q = p \/ pc[q] = "join") THEN pc[q]
                              ELSE IF cred # nil THEN "request" ELSE "idle"]
      /\ op' = [q \in Callers |-> IF ~(q = p \/ pc[q] = "join") THEN op[q]
                              ELSE IF cred # nil THEN fresh(q) ELSE Blank]
      /\ flight' = nil /\ browserSlot' = IF browserSlot = p THEN nil ELSE browserSlot
  BY DEF Land
<1> HIDE DEF fresh
<1>4. QED
  BY <1>1, <1>2, <1>3 DEF Landed, TypeOK, Places

\* What a caller has read has the type of it.
LEMMA BlankType == Blank \in Operation /\ [Blank EXCEPT !.again = TRUE] \in Operation
BY DEF Blank, Operation

LEMMA EnsureTypes ==
  ASSUME TypeOK, NEW p \in Callers
  PROVE  /\ [Blank EXCEPT !.cred = current, !.ver = version, !.again = op[p].again] \in Operation
         /\ [rev |-> revision, ver |-> version, brev |-> browserRevision, since |-> halts,
             cred |-> current, again |-> op[p].again] \in Operation
BY DEF Blank, Operation, TypeOK

LEMMA ReadTypes ==
  ASSUME TypeOK
  PROVE  [Blank EXCEPT !.rev = revision, !.brev = browserRevision, !.since = halts] \in Operation
BY DEF Blank, Operation, TypeOK

LEMMA OperationTypes ==
  ASSUME TypeOK, NEW p \in Callers
  PROVE  /\ [op[p] EXCEPT !.brev = browserRevision] \in Operation
         /\ [op[p] EXCEPT !.cred = nil] \in Operation
         /\ op[p].cred \in Credential \cup {nil} /\ op[p].since \in Nat
BY DEF Operation, TypeOK

\* Records built from parts of the right types, and the parts of records.
LEMMA DataTypesOf ==
  /\ \A c \in Credential \cup {nil}, w \in Snapshot \cup {nil} : [http |-> c, browser |-> w] \in Saved
  /\ \A x \in Saved : x.http \in Credential \cup {nil} /\ x.browser \in Snapshot \cup {nil}
  /\ \A n, m \in Nat : /\ [login |-> n + 1, turn |-> 0, since |-> m] \in Credential
                       /\ [login |-> n + 1, turn |-> 0, since |-> m].since = m
                       /\ [since |-> m] \in Snapshot /\ [since |-> m].since = m
  /\ \A c \in Credential : /\ [c EXCEPT !.turn = @ + 1] \in Credential
                           /\ [c EXCEPT !.turn = @ + 1].since = c.since
                           /\ [c EXCEPT !.turn = @ + 1].login = c.login
                           /\ c.since \in Nat
  /\ \A w \in Snapshot : w.since \in Nat
BY DEF Saved, Credential, Snapshot

-----------------------------------------------------------------------------
(* The steps of a round, by what they do                                     *)

Rest == <<autoBridge, loaded, lastLogout, logoutRun, undeleted, calls, restarts>>

RoundFails(p) ==
  /\ pc[p] \in Leading /\ Landed(p, nil, 0)
  /\ cooling' \in BOOLEAN
  /\ Halt \/ UNCHANGED <<paused, revision, halts>>
  /\ UNCHANGED <<current, version, recent, pageState, browserRevision, stored, made, Rest>>

\* With what was checked, or with what is new, and then with a snapshot or without.
Publishing(p, cred, state) ==
  /\ ~Moved(p)
  /\ cred \in Credential /\ state \in Snapshot \cup {nil}
  /\ \/ /\ pc[p] = "check" /\ cred = op[p].cred /\ cred = current /\ state = nil
        /\ UNCHANGED made
     \/ /\ pc[p] = "login" /\ cred.since = op[p].since
        /\ state # nil => state.since = op[p].since /\ browserRevision = op[p].brev
        /\ made' = made + 1
  /\ pageState' = IF state # nil THEN state ELSE pageState
  /\ browserRevision' = IF state # nil THEN browserRevision + 1 ELSE browserRevision
  /\ recent' \in BOOLEAN /\ cooling' \in BOOLEAN
  /\ UNCHANGED <<paused, revision, halts, Rest>>

RoundPublishes(p, cred, state) ==
  /\ Publishing(p, cred, state)
  /\ version' = IF pc[p] = "login" THEN version + 1 ELSE version
  /\ current' = cred /\ stored' = [http |-> cred, browser |-> pageState']
  /\ Landed(p, cred, version')

\* What cannot be saved is no longer in use.
RoundIsUnsaved(p, cred, state) ==
  /\ Publishing(p, cred, state)
  /\ version' = IF pc[p] = "login" THEN version + 2 ELSE version + 1
  /\ current' = nil /\ stored' = stored
  /\ Landed(p, nil, 0)

\* The old credentials are done with.
ToLogin(p) ==
  /\ pc[p] = "check" /\ Go(p, LoginPlace) /\ Keep(p, [op[p] EXCEPT !.cred = nil])
  /\ UNCHANGED <<flight, browserSlot, stored, current, version, recent, cooling, pageState,
                 browserRevision, paused, revision, halts, made, Rest>>

\* The browser is free for a login.
AtBridge(p) ==
  /\ pc[p] = "bridge" /\ browserSlot = nil /\ ~Moved(p)
  /\ Go(p, "login") /\ Keep(p, [op[p] EXCEPT !.brev = browserRevision])
  /\ browserSlot' = p /\ cooling' = FALSE
  /\ UNCHANGED <<flight, stored, current, version, recent, pageState,
                 browserRevision, paused, revision, halts, made, Rest>>

\* A call gives up waiting, outside its round.
LeavesEarly(p) ==
  /\ pc[p] \in {"enter", "slot", "join"} /\ Return(p)
  /\ UNCHANGED <<flight, stored, current, version, recent, cooling, pageState,
                 browserRevision, paused, revision, halts, made, Rest>>

\* An answer, by what it says.
Answered == <<autoBridge, pageState, browserRevision, loaded, flight, made, lastLogout, logoutRun,
              undeleted, calls, restarts>>

AnswerExpired(p)  == pc[p] = "request" /\ Expired(p) /\ UNCHANGED Answered
AnswerRefused(p)  == pc[p] = "request" /\ Refused(p) /\ UNCHANGED Answered
AnswerObserved(p) == pc[p] = "request" /\ Observe(p) /\ UNCHANGED Answered

\* A caller that goes somewhere with something moves no other.
LEMMA MoveEffect ==
  ASSUME TypeOK, NEW p \in Callers, NEW o \in Operation, NEW place \in Places,
         Keep(p, o), Go(p, place)
  PROVE  /\ \A q \in Callers \ {p} : pc'[q] = pc[q] /\ op'[q] = op[q]
         /\ pc' \in [Callers -> Places] /\ op' \in [Callers -> Operation]
         /\ pc'[p] = place /\ op'[p] = o
BY DEF Keep, Go, TypeOK

\* What a browser operation reads when it begins.
LEMMA ReadEffect ==
  ASSUME TypeOK, NEW p \in Callers, BrowserRead(p)
  PROVE  /\ \A q \in Callers \ {p} : pc'[q] = pc[q] /\ op'[q] = op[q]
         /\ \/ pc'[p] = "idle" /\ browserSlot' = IF browserSlot = p THEN nil ELSE browserSlot
            \/ /\ pc'[p] = "use" /\ op'[p].rev = revision /\ op'[p].brev = browserRevision
               /\ op'[p].since = halts /\ browserSlot' = browserSlot
<1>1. CASE Return(p)
  BY <1>1 DEF Return, Go, Keep, TypeOK
<1>2. CASE ~Return(p)
  <2> DEFINE o == [Blank EXCEPT !.rev = revision, !.brev = browserRevision, !.since = halts]
  <2>1. o.rev = revision /\ o.brev = browserRevision /\ o.since = halts
    BY DEF Blank
  <2>2. pc' = [pc EXCEPT ![p] = "use"] /\ op' = [op EXCEPT ![p] = o] /\ browserSlot' = browserSlot
    BY <1>2 DEF BrowserRead, Go, Keep
  <2> HIDE DEF o
  <2>3. QED
    BY <2>1, <2>2 DEF TypeOK
<1>3. QED
  BY <1>1, <1>2

\* What a request takes, or what the leader of a round reads when it begins.
LEMMA EnsureEffect ==
  ASSUME TypeOK, NEW p \in Callers, Ensure(p)
  PROVE  /\ \A q \in Callers \ {p} : pc'[q] = pc[q] /\ op'[q] = op[q]
         /\ pc' \in [Callers -> Places] /\ op' \in [Callers -> Operation]
         /\ \/ pc'[p] \in {"idle", "join"}
            \/ /\ pc'[p] = "request" /\ op'[p].cred = current /\ op'[p].ver = version
               /\ current # nil
            \/ /\ pc'[p] = IF current = nil THEN LoginPlace ELSE "check"
               /\ op'[p].cred = current /\ op'[p].ver = version
<1>1. CASE Return(p) \/ (Go(p, "join") /\ UNCHANGED op)
  BY <1>1, BlankType DEF Return, Go, Keep, TypeOK, Places
<1>2. CASE /\ Go(p, "request") /\ current # nil
           /\ Keep(p, [Blank EXCEPT !.cred = current, !.ver = version, !.again = op[p].again])
  <2> DEFINE o == [Blank EXCEPT !.cred = current, !.ver = version, !.again = op[p].again]
  <2>1. o \in Operation /\ o.cred = current /\ o.ver = version
    BY EnsureTypes DEF Blank
  <2> HIDE DEF o
  <2>2. QED
    BY <1>2, <2>1, MoveEffect DEF o, Places
<1>3. CASE /\ Go(p, IF current = nil THEN LoginPlace ELSE "check")
           /\ Keep(p, [rev |-> revision, ver |-> version, brev |-> browserRevision, since |-> halts,
                       cred |-> current, again |-> op[p].again])
  <2> DEFINE o == [rev |-> revision, ver |-> version, brev |-> browserRevision, since |-> halts,
                   cred |-> current, again |-> op[p].again]
             place == IF current = nil THEN LoginPlace ELSE "check"
  <2>1. o \in Operation /\ o.cred = current /\ o.ver = version
    BY EnsureTypes
  <2>2. place \in Places /\ Go(p, place) /\ Keep(p, o)
    BY <1>3 DEF Places, LoginPlace
  <2> HIDE DEF o, place
  <2>3. pc'[p] = place /\ op'[p] = o /\ (\A q \in Callers \ {p} : pc'[q] = pc[q] /\ op'[q] = op[q])
        /\ pc' \in [Callers -> Places] /\ op' \in [Callers -> Operation]
    BY <2>1, <2>2, MoveEffect
  <2>4. QED
    BY <2>1, <2>3 DEF place
<1>4. QED
  BY <1>1, <1>2, <1>3 DEF Ensure

\* A round that ends with an error changes no credentials.
LEMMA FailEffect ==
  ASSUME TypeOK, NEW p \in Callers, NEW error, pc[p] \in Leading, Fail(p, error),
         UNCHANGED <<made, Rest>>
  PROVE  RoundFails(p)
<1>1. Landed(p, nil, 0)
  BY LandEffect DEF Fail
<1>2. QED
  BY <1>1 DEF Fail, RoundFails, TypeOK, Rest

\* A check, a login and a wait for the browser end in one of these ways.
LEMMA RoundSteps ==
  ASSUME TypeOK, VersionInv, NEW p \in Callers,
         Check(p) \/ Bridge(p) \/ Login(p) \/ GiveUp(p)
  PROVE  \/ RoundFails(p) \/ ToLogin(p) \/ AtBridge(p) \/ LeavesEarly(p)
         \/ \E cred \in Credential, state \in Snapshot \cup {nil} :
              RoundPublishes(p, cred, state) \/ RoundIsUnsaved(p, cred, state)
<1>1. ASSUME NEW error, pc[p] \in Leading, Fail(p, error), UNCHANGED <<made, Rest>>
      PROVE  RoundFails(p)
  BY <1>1, FailEffect
<1>2. CASE Check(p)
  <2>1. /\ pc[p] = "check" /\ pc[p] \in Leading /\ UNCHANGED <<made, Rest>>
        /\ op[p].cred \in Credential \cup {nil} /\ op[p].cred # nil
        /\ op[p].ver = version => op[p].cred = current
    BY <1>2, OperationTypes DEF Check, Leading, Rest, VersionInv
  <2>2. CASE \E error : Fail(p, error)
    BY <2>1, <2>2, <1>1
  <2>3. CASE ~Moved(p) /\ Publish(p, op[p].cred, FALSE, nil)
    <3>1. ASSUME NEW v \in Nat, Land(p, op[p].cred, v) PROVE Landed(p, op[p].cred, v)
      BY <2>1, <3>1, LandEffect
    <3>2. ASSUME Land(p, nil, 0) PROVE Landed(p, nil, 0)
      BY <3>2, LandEffect
    <3>3. RoundPublishes(p, op[p].cred, nil) \/ RoundIsUnsaved(p, op[p].cred, nil)
      BY <2>1, <2>3, <3>1, <3>2
         DEF Publish, Publishing, RoundPublishes, RoundIsUnsaved, Save, Rest,
         Moved, TypeOK
    <3>4. QED
      BY <2>1, <3>3
  <2>4. CASE /\ Go(p, LoginPlace) /\ Keep(p, [op[p] EXCEPT !.cred = nil])
             /\ UNCHANGED <<flight, browserSlot, stored, current, version, recent, cooling,
                            pageState, browserRevision, paused, revision, halts>>
    BY <2>1, <2>4 DEF ToLogin
  <2>5. QED
    BY <1>2, <2>2, <2>3, <2>4 DEF Check
<1>3. CASE Bridge(p)
  <2>1. pc[p] = "bridge" /\ pc[p] \in Leading /\ UNCHANGED <<made, Rest>>
    BY <1>3 DEF Bridge, Leading, Rest
  <2>2. CASE \E error : Fail(p, error)
    BY <2>1, <2>2, <1>1
  <2>3. CASE ~(\E error : Fail(p, error))
    BY <1>3, <2>1, <2>3 DEF Bridge, AtBridge
  <2>4. QED
    BY <2>2, <2>3
<1>4. CASE Login(p)
  <2>1. pc[p] = "login" /\ pc[p] \in Leading /\ UNCHANGED Rest
    BY <1>4 DEF Login, Leading, Rest
  <2>2. CASE (\E error : Fail(p, error)) /\ UNCHANGED made
    BY <2>1, <2>2, <1>1
  <2>3. ASSUME NEW withState \in {TRUE, autoBridge}, ~Moved(p),
               ~(withState /\ browserRevision # op[p].brev), made' = made + 1,
               Publish(p, [login |-> made + 1, turn |-> 0, since |-> op[p].since], TRUE,
                       IF withState THEN [since |-> op[p].since] ELSE nil)
        PROVE  \E cred \in Credential, state \in Snapshot \cup {nil} :
                 RoundPublishes(p, cred, state) \/ RoundIsUnsaved(p, cred, state)
    <3> DEFINE cred  == [login |-> made + 1, turn |-> 0, since |-> op[p].since]
               state == IF withState THEN [since |-> op[p].since] ELSE nil
    <3>1. /\ cred \in Credential /\ cred.since = op[p].since /\ state \in Snapshot \cup {nil}
          /\ state # nil => state.since = op[p].since /\ browserRevision = op[p].brev
      BY <2>3, DataTypesOf, OperationTypes DEF TypeOK
    <3>2. Publish(p, cred, TRUE, state)
      BY <2>3
    <3> HIDE DEF cred, state
    <3>3. ASSUME NEW v \in Nat, Land(p, cred, v) PROVE Landed(p, cred, v)
      BY <3>1, <3>3, LandEffect
    <3>4. ASSUME Land(p, nil, 0) PROVE Landed(p, nil, 0)
      BY <3>4, LandEffect
    <3>5. Publishing(p, cred, state)
      BY <2>1, <2>3, <3>1, <3>2 DEF Publish, Publishing, Rest, TypeOK
    <3>6. RoundPublishes(p, cred, state) \/ RoundIsUnsaved(p, cred, state)
      BY <2>1, <3>2, <3>3, <3>4, <3>5 DEF Publish, RoundPublishes, RoundIsUnsaved, Save, TypeOK
    <3>7. QED
      BY <3>1, <3>6
  <2>4. QED
    BY <1>4, <2>2, <2>3 DEF Login
<1>5. CASE GiveUp(p)
  <2>1. CASE pc[p] = "bridge" /\ Fail(p, "cancelled")
    BY <1>5, <2>1, <1>1 DEF GiveUp, Leading, Rest
  <2>2. CASE ~(pc[p] = "bridge" /\ Fail(p, "cancelled"))
    BY <1>5, <2>2 DEF GiveUp, LeavesEarly, Rest
  <2>3. QED
    BY <2>1, <2>2
<1>6. QED
  BY <1>2, <1>3, <1>4, <1>5

-----------------------------------------------------------------------------
(* Each part is kept by every step                                           *)

CallTypes ==
  /\ pc \in [Callers -> Places] /\ op \in [Callers -> Operation]
  /\ flight \in Http \cup {nil} /\ browserSlot \in Callers \cup {nil}

FlagTypes ==
  /\ autoBridge \in BOOLEAN /\ loaded \in BOOLEAN /\ paused \in BOOLEAN
  /\ cooling \in BOOLEAN /\ recent \in BOOLEAN /\ undeleted \in BOOLEAN

NumberTypes ==
  /\ version \in Nat /\ revision \in Nat /\ browserRevision \in Nat
  /\ made \in Nat /\ halts \in Nat /\ lastLogout \in Nat /\ logoutRun \in Nat
  /\ calls \in [Callers -> Nat] /\ restarts \in Nat

DataTypes ==
  /\ current \in Credential \cup {nil} /\ pageState \in Snapshot \cup {nil}
  /\ stored \in Saved \cup {nil}

\* Types are kept.
LEMMA TypeKept ==
  ASSUME TypeOK, ControlInv, VersionInv, [Next]_vars
  PROVE  TypeOK'
<1>1. ASSUME NEW p \in Callers, Call(p)
      PROVE  TypeOK'
  <2>1. CallTypes'
    BY <1>1 DEF Call, vars, entry, past, Go, Keep, Return, CallTypes, Places, TypeOK, ControlInv
  <2>2. FlagTypes'
    BY <1>1 DEF Call, vars, entry, past, FlagTypes, TypeOK
  <2>3. NumberTypes'
    BY <1>1 DEF Call, vars, entry, past, NumberTypes, TypeOK
  <2>4. DataTypes'
    BY <1>1, DataTypesOf DEF Call, vars, entry, past, Keep, DataTypes, TypeOK
  <2>5. QED
    BY <2>1, <2>2, <2>3, <2>4 DEF TypeOK, CallTypes, FlagTypes, NumberTypes, DataTypes
<1>2. ASSUME NEW p \in Callers, Enter(p)
      PROVE  TypeOK'
  <2>1. CallTypes'
    BY <1>2, BlankType
       DEF Enter, Load, vars, entry, past, Go, Keep, Return, CallTypes, Places, TypeOK,
           ControlInv
  <2>2. FlagTypes'
    BY <1>2 DEF Enter, Load, vars, entry, past, FlagTypes, TypeOK
  <2>3. NumberTypes'
    BY <1>2 DEF Enter, Load, vars, entry, past, NumberTypes, TypeOK
  <2>4. DataTypes'
    BY <1>2, DataTypesOf DEF Enter, Load, vars, entry, past, Keep, DataTypes, TypeOK
  <2>5. QED
    BY <2>1, <2>2, <2>3, <2>4 DEF TypeOK, CallTypes, FlagTypes, NumberTypes, DataTypes
<1>3. ASSUME NEW p \in Callers, EnterBrowser(p)
      PROVE  TypeOK'
  <2>1. CallTypes'
    BY <1>3, BlankType
       DEF EnterBrowser, Load, vars, entry, past, Go, Keep, Return, CallTypes, Places,
           TypeOK, ControlInv
  <2>2. FlagTypes'
    BY <1>3 DEF EnterBrowser, Load, vars, entry, past, FlagTypes, TypeOK
  <2>3. NumberTypes'
    BY <1>3 DEF EnterBrowser, Load, vars, entry, past, NumberTypes, TypeOK
  <2>4. DataTypes'
    BY <1>3, DataTypesOf DEF EnterBrowser, Load, vars, entry, past, Keep, DataTypes, TypeOK
  <2>5. QED
    BY <2>1, <2>2, <2>3, <2>4 DEF TypeOK, CallTypes, FlagTypes, NumberTypes, DataTypes
<1>4. ASSUME NEW p \in Callers, Ensure(p)
      PROVE  TypeOK'
  <2>1. CallTypes'
    BY <1>4, EnsureEffect DEF Ensure, Return, CallTypes, TypeOK, ControlInv
  <2>2. FlagTypes'
    BY <1>4 DEF Ensure, LoginPlace, vars, entry, past, FlagTypes, TypeOK
  <2>3. NumberTypes'
    BY <1>4 DEF Ensure, LoginPlace, vars, entry, past, NumberTypes, TypeOK
  <2>4. DataTypes'
    BY <1>4, DataTypesOf DEF Ensure, LoginPlace, vars, entry, past, Keep, DataTypes, TypeOK
  <2>5. QED
    BY <2>1, <2>2, <2>3, <2>4 DEF TypeOK, CallTypes, FlagTypes, NumberTypes, DataTypes
<1>5. ASSUME NEW p \in Callers, RoundFails(p)
      PROVE  TypeOK'
  <2>1. CallTypes'
    BY <1>5
       DEF RoundFails, Landed, Halt, Rest, vars, entry, past, Go, Keep, Return, CallTypes,
           Places, TypeOK, ControlInv
  <2>2. FlagTypes'
    BY <1>5 DEF RoundFails, Halt, Rest, vars, entry, past, FlagTypes, TypeOK
  <2>3. NumberTypes'
    BY <1>5 DEF RoundFails, Halt, Rest, vars, entry, past, NumberTypes, TypeOK
  <2>4. DataTypes'
    BY <1>5, DataTypesOf DEF RoundFails, Halt, Rest, vars, entry, past, Keep, DataTypes, TypeOK
  <2>5. QED
    BY <2>1, <2>2, <2>3, <2>4 DEF TypeOK, CallTypes, FlagTypes, NumberTypes, DataTypes
<1>6. ASSUME NEW p \in Callers, NEW cred \in Credential, NEW state \in Snapshot \cup {nil},
             RoundPublishes(p, cred, state)
      PROVE  TypeOK'
  <2>1. CallTypes'
    BY <1>6
       DEF RoundPublishes, Publishing, Landed, Rest, Moved, vars, entry, past, Go, Keep,
           Return, CallTypes, Places, TypeOK, ControlInv
  <2>2. FlagTypes'
    BY <1>6 DEF RoundPublishes, Publishing, Rest, Moved, vars, entry, past, FlagTypes, TypeOK
  <2>3. NumberTypes'
    BY <1>6 DEF RoundPublishes, Publishing, Rest, Moved, vars, entry, past, NumberTypes, TypeOK
  <2>4. DataTypes'
    BY <1>6, DataTypesOf
       DEF RoundPublishes, Publishing, Rest, Moved, vars, entry, past, Keep, DataTypes, TypeOK
  <2>5. QED
    BY <2>1, <2>2, <2>3, <2>4 DEF TypeOK, CallTypes, FlagTypes, NumberTypes, DataTypes
<1>7. ASSUME NEW p \in Callers, NEW cred \in Credential, NEW state \in Snapshot \cup {nil},
             RoundIsUnsaved(p, cred, state)
      PROVE  TypeOK'
  <2>1. CallTypes'
    BY <1>7
       DEF RoundIsUnsaved, Publishing, Landed, Rest, Moved, vars, entry, past, Go, Keep,
           Return, CallTypes, Places, TypeOK, ControlInv
  <2>2. FlagTypes'
    BY <1>7 DEF RoundIsUnsaved, Publishing, Rest, Moved, vars, entry, past, FlagTypes, TypeOK
  <2>3. NumberTypes'
    BY <1>7 DEF RoundIsUnsaved, Publishing, Rest, Moved, vars, entry, past, NumberTypes, TypeOK
  <2>4. DataTypes'
    BY <1>7, DataTypesOf
       DEF RoundIsUnsaved, Publishing, Rest, Moved, vars, entry, past, Keep, DataTypes, TypeOK
  <2>5. QED
    BY <2>1, <2>2, <2>3, <2>4 DEF TypeOK, CallTypes, FlagTypes, NumberTypes, DataTypes
<1>8. ASSUME NEW p \in Callers, ToLogin(p)
      PROVE  TypeOK'
  <2>1. CallTypes'
    BY <1>8, OperationTypes
       DEF ToLogin, LoginPlace, Rest, vars, entry, past, Go, Keep, Return, CallTypes, Places,
           TypeOK, ControlInv
  <2>2. FlagTypes'
    BY <1>8 DEF ToLogin, LoginPlace, Rest, vars, entry, past, FlagTypes, TypeOK
  <2>3. NumberTypes'
    BY <1>8 DEF ToLogin, LoginPlace, Rest, vars, entry, past, NumberTypes, TypeOK
  <2>4. DataTypes'
    BY <1>8, DataTypesOf
       DEF ToLogin, LoginPlace, Rest, vars, entry, past, Keep, DataTypes, TypeOK
  <2>5. QED
    BY <2>1, <2>2, <2>3, <2>4 DEF TypeOK, CallTypes, FlagTypes, NumberTypes, DataTypes
<1>9. ASSUME NEW p \in Callers, AtBridge(p)
      PROVE  TypeOK'
  <2>1. CallTypes'
    BY <1>9, OperationTypes
       DEF AtBridge, Moved, Rest, vars, entry, past, Go, Keep, Return, CallTypes, Places,
           TypeOK, ControlInv
  <2>2. FlagTypes'
    BY <1>9 DEF AtBridge, Moved, Rest, vars, entry, past, FlagTypes, TypeOK
  <2>3. NumberTypes'
    BY <1>9 DEF AtBridge, Moved, Rest, vars, entry, past, NumberTypes, TypeOK
  <2>4. DataTypes'
    BY <1>9, DataTypesOf DEF AtBridge, Moved, Rest, vars, entry, past, Keep, DataTypes, TypeOK
  <2>5. QED
    BY <2>1, <2>2, <2>3, <2>4 DEF TypeOK, CallTypes, FlagTypes, NumberTypes, DataTypes
<1>10. ASSUME NEW p \in Callers, AnswerExpired(p)
      PROVE  TypeOK'
  <2>1. CallTypes'
    <3>1. UNCHANGED <<flight, browserSlot>> \/ (UNCHANGED flight /\ Return(p))
      BY <1>10 DEF AnswerExpired, Answered, Expired
    <3>2. pc' \in [Callers -> Places] /\ op' \in [Callers -> Operation]
      <4>1. "idle" \in Places /\ "ensure" \in Places
        BY DEF Places
      <4>2. QED
        BY <1>10, <4>1, BlankType, MoveEffect DEF AnswerExpired, Expired, Return
    <3>3. QED
      BY <3>1, <3>2 DEF Return, CallTypes, TypeOK
  <2>2. FlagTypes'
    BY <1>10
       DEF AnswerExpired, Answered, Expired, Invalidate, vars, entry, past, FlagTypes, TypeOK
  <2>3. NumberTypes'
    BY <1>10
       DEF AnswerExpired, Answered, Expired, Invalidate, vars, entry, past, NumberTypes, TypeOK
  <2>4. DataTypes'
    BY <1>10, DataTypesOf
       DEF AnswerExpired, Answered, Expired, Invalidate, vars, entry, past, Keep, DataTypes,
           TypeOK
  <2>5. QED
    BY <2>1, <2>2, <2>3, <2>4 DEF TypeOK, CallTypes, FlagTypes, NumberTypes, DataTypes
<1>11. ASSUME NEW p \in Callers, AnswerRefused(p)
      PROVE  TypeOK'
  <2>1. CallTypes'
    BY <1>11, BlankType
       DEF AnswerRefused, Answered, Refused, Halt, vars, entry, past, Go, Keep, Return,
           CallTypes, Places, TypeOK, ControlInv
  <2>2. FlagTypes'
    BY <1>11 DEF AnswerRefused, Answered, Refused, Halt, vars, entry, past, FlagTypes, TypeOK
  <2>3. NumberTypes'
    BY <1>11 DEF AnswerRefused, Answered, Refused, Halt, vars, entry, past, NumberTypes, TypeOK
  <2>4. DataTypes'
    BY <1>11, DataTypesOf
       DEF AnswerRefused, Answered, Refused, Halt, vars, entry, past, Keep, DataTypes, TypeOK
  <2>5. QED
    BY <2>1, <2>2, <2>3, <2>4 DEF TypeOK, CallTypes, FlagTypes, NumberTypes, DataTypes
<1>12. ASSUME NEW p \in Callers, AnswerObserved(p)
      PROVE  TypeOK'
  <2>1. CallTypes'
    BY <1>12, BlankType
       DEF AnswerObserved, Answered, Observe, Numbered, Save, vars, entry, past, Go, Keep,
           Return, CallTypes, Places, TypeOK, ControlInv
  <2>2. FlagTypes'
    BY <1>12
       DEF AnswerObserved, Answered, Observe, Numbered, Save, vars, entry, past, FlagTypes,
           TypeOK
  <2>3. NumberTypes'
    BY <1>12
       DEF AnswerObserved, Answered, Observe, Numbered, Save, vars, entry, past, NumberTypes,
           TypeOK
  <2>4. DataTypes'
    <3>1. CASE version # op[p].ver \/ paused
      BY <1>12, <3>1 DEF AnswerObserved, Answered, Observe, DataTypes, TypeOK
    <3>2. CASE ~(version # op[p].ver \/ paused)
      <4>1. current \in Credential
        BY <1>12, <3>2 DEF AnswerObserved, VersionInv, TypeOK
      <4>2. \A c \in {current, [current EXCEPT !.turn = @ + 1]} :
              c \in Credential /\ [http |-> c, browser |-> pageState] \in Saved
        BY <4>1, DataTypesOf DEF TypeOK
      <4>3. QED
        BY <1>12, <3>2, <4>2 DEF AnswerObserved, Answered, Observe, Save, DataTypes, TypeOK
    <3>3. QED
      BY <3>1, <3>2
  <2>5. QED
    BY <2>1, <2>2, <2>3, <2>4 DEF TypeOK, CallTypes, FlagTypes, NumberTypes, DataTypes
<1>13. ASSUME NEW p \in Callers, BrowserRead(p)
      PROVE  TypeOK'
  <2>1. CallTypes'
    BY <1>13, BlankType, ReadTypes
       DEF BrowserRead, vars, entry, past, Go, Keep, Return, CallTypes, Places, TypeOK,
           ControlInv
  <2>2. FlagTypes'
    BY <1>13 DEF BrowserRead, vars, entry, past, FlagTypes, TypeOK
  <2>3. NumberTypes'
    BY <1>13 DEF BrowserRead, vars, entry, past, NumberTypes, TypeOK
  <2>4. DataTypes'
    BY <1>13, DataTypesOf DEF BrowserRead, vars, entry, past, Keep, DataTypes, TypeOK
  <2>5. QED
    BY <2>1, <2>2, <2>3, <2>4 DEF TypeOK, CallTypes, FlagTypes, NumberTypes, DataTypes
<1>14. ASSUME NEW p \in Callers, Finish(p)
      PROVE  TypeOK'
  <2>1. CallTypes'
    BY <1>14, BlankType
       DEF Finish, KeepState, DropState, Halt, Save, vars, entry, past, Go, Keep, Return,
           CallTypes, Places, TypeOK, ControlInv
  <2>2. FlagTypes'
    BY <1>14 DEF Finish, KeepState, DropState, Halt, Save, vars, entry, past, FlagTypes, TypeOK
  <2>3. NumberTypes'
    BY <1>14
       DEF Finish, KeepState, DropState, Halt, Save, vars, entry, past, NumberTypes, TypeOK
  <2>4. DataTypes'
    <3>1. CASE KeepState(p) /\ UNCHANGED current
      <4>1. /\ [since |-> op[p].since] \in Snapshot
            /\ [http |-> current, browser |-> [since |-> op[p].since]] \in Saved
        BY OperationTypes, DataTypesOf DEF TypeOK
      <4>2. QED
        BY <3>1, <4>1 DEF KeepState, Save, DataTypes, TypeOK
    <3>2. CASE ~(KeepState(p) /\ UNCHANGED current)
      BY <1>14, <3>2 DEF Finish, DropState, DataTypes, TypeOK, entry
    <3>3. QED
      BY <3>1, <3>2
  <2>5. QED
    BY <2>1, <2>2, <2>3, <2>4 DEF TypeOK, CallTypes, FlagTypes, NumberTypes, DataTypes
<1>15. ASSUME NEW p \in Callers, LeavesEarly(p)
      PROVE  TypeOK'
  <2>1. CallTypes'
    BY <1>15, BlankType
       DEF LeavesEarly, Rest, vars, entry, past, Go, Keep, Return, CallTypes, Places, TypeOK,
           ControlInv
  <2>2. FlagTypes'
    BY <1>15 DEF LeavesEarly, Rest, vars, entry, past, FlagTypes, TypeOK
  <2>3. NumberTypes'
    BY <1>15 DEF LeavesEarly, Rest, vars, entry, past, NumberTypes, TypeOK
  <2>4. DataTypes'
    BY <1>15, DataTypesOf DEF LeavesEarly, Rest, vars, entry, past, Keep, DataTypes, TypeOK
  <2>5. QED
    BY <2>1, <2>2, <2>3, <2>4 DEF TypeOK, CallTypes, FlagTypes, NumberTypes, DataTypes
<1>16. CASE Pause
  <2>1. CallTypes'
    BY <1>16
       DEF Pause, Halt, vars, entry, past, Go, Keep, Return, CallTypes, Places, TypeOK,
           ControlInv
  <2>2. FlagTypes'
    BY <1>16 DEF Pause, Halt, vars, entry, past, FlagTypes, TypeOK
  <2>3. NumberTypes'
    BY <1>16 DEF Pause, Halt, vars, entry, past, NumberTypes, TypeOK
  <2>4. DataTypes'
    BY <1>16, DataTypesOf DEF Pause, Halt, vars, entry, past, Keep, DataTypes, TypeOK
  <2>5. QED
    BY <2>1, <2>2, <2>3, <2>4 DEF TypeOK, CallTypes, FlagTypes, NumberTypes, DataTypes
<1>17. CASE Resume
  <2>1. CallTypes'
    BY <1>17
       DEF Resume, vars, entry, past, Go, Keep, Return, CallTypes, Places, TypeOK, ControlInv
  <2>2. FlagTypes'
    BY <1>17 DEF Resume, vars, entry, past, FlagTypes, TypeOK
  <2>3. NumberTypes'
    BY <1>17 DEF Resume, vars, entry, past, NumberTypes, TypeOK
  <2>4. DataTypes'
    BY <1>17, DataTypesOf DEF Resume, vars, entry, past, Keep, DataTypes, TypeOK
  <2>5. QED
    BY <2>1, <2>2, <2>3, <2>4 DEF TypeOK, CallTypes, FlagTypes, NumberTypes, DataTypes
<1>18. CASE Logout
  <2>1. CallTypes'
    BY <1>18
       DEF Logout, Halt, vars, entry, past, Go, Keep, Return, CallTypes, Places, TypeOK,
           ControlInv
  <2>2. FlagTypes'
    BY <1>18 DEF Logout, Halt, vars, entry, past, FlagTypes, TypeOK
  <2>3. NumberTypes'
    BY <1>18 DEF Logout, Halt, vars, entry, past, NumberTypes, TypeOK
  <2>4. DataTypes'
    BY <1>18, DataTypesOf DEF Logout, Halt, vars, entry, past, Keep, DataTypes, TypeOK
  <2>5. QED
    BY <2>1, <2>2, <2>3, <2>4 DEF TypeOK, CallTypes, FlagTypes, NumberTypes, DataTypes
<1>19. CASE Restart
  <2>1. CallTypes'
    BY <1>19, BlankType
       DEF Restart, vars, entry, past, Go, Keep, Return, CallTypes, Places, TypeOK, ControlInv
  <2>2. FlagTypes'
    BY <1>19 DEF Restart, vars, entry, past, FlagTypes, TypeOK
  <2>3. NumberTypes'
    BY <1>19 DEF Restart, vars, entry, past, NumberTypes, TypeOK
  <2>4. DataTypes'
    BY <1>19, DataTypesOf DEF Restart, vars, entry, past, Keep, DataTypes, TypeOK
  <2>5. QED
    BY <2>1, <2>2, <2>3, <2>4 DEF TypeOK, CallTypes, FlagTypes, NumberTypes, DataTypes
<1>20. CASE UNCHANGED vars
  BY <1>20 DEF vars, entry, past, TypeOK
<1>21. ASSUME NEW p \in Callers, Check(p) \/ Bridge(p) \/ Login(p) \/ GiveUp(p)
      PROVE  TypeOK'
  BY <1>21, <1>5, <1>6, <1>7, <1>8, <1>9, <1>15, RoundSteps
<1>22. ASSUME NEW p \in Callers, Respond(p)
      PROVE  TypeOK'
  BY <1>22, <1>10, <1>11, <1>12
     DEF Respond, AnswerExpired, AnswerRefused, AnswerObserved, Answered
<1>23. QED
  BY <1>1, <1>2, <1>3, <1>4, <1>13, <1>14, <1>16, <1>17, <1>18, <1>19, <1>20, <1>21, <1>22
     DEF Next, Step

\* Rounds have one leader and the browser has one user.
LEMMA ControlKept ==
  ASSUME TypeOK, ControlInv, VersionInv, [Next]_vars
  PROVE  ControlInv'
<1> USE DEF TypeOK, ControlInv, Leading
<1>1. ASSUME NEW p \in Callers, Call(p)
      PROVE  ControlInv'
  BY <1>1 DEF Call, vars, entry, past, Go, Keep, Return, Blank, Callers
<1>2. ASSUME NEW p \in Callers, Enter(p)
      PROVE  ControlInv'
  BY <1>2 DEF Enter, Load, vars, entry, past, Go, Keep, Return, Blank, Callers
<1>3. ASSUME NEW p \in Callers, EnterBrowser(p)
      PROVE  ControlInv'
  BY <1>3 DEF EnterBrowser, Load, vars, entry, past, Go, Keep, Return, Blank, Callers
<1>4. ASSUME NEW p \in Callers, Ensure(p)
      PROVE  ControlInv'
  BY <1>4 DEF Ensure, LoginPlace, vars, entry, past, Go, Keep, Return, Blank, Callers
<1>5. ASSUME NEW p \in Callers, RoundFails(p)
      PROVE  ControlInv'
  BY <1>5
     DEF RoundFails, Landed, Halt, Rest, vars, entry, past, Go, Keep, Return, Blank, Callers
<1>6. ASSUME NEW p \in Callers, NEW cred \in Credential, NEW state \in Snapshot \cup {nil},
             RoundPublishes(p, cred, state)
      PROVE  ControlInv'
  BY <1>6
     DEF RoundPublishes, Publishing, Landed, Rest, Moved, vars, entry, past, Go, Keep,
         Return, Blank, Callers
<1>7. ASSUME NEW p \in Callers, NEW cred \in Credential, NEW state \in Snapshot \cup {nil},
             RoundIsUnsaved(p, cred, state)
      PROVE  ControlInv'
  BY <1>7
     DEF RoundIsUnsaved, Publishing, Landed, Rest, Moved, vars, entry, past, Go, Keep,
         Return, Blank, Callers
<1>8. ASSUME NEW p \in Callers, ToLogin(p)
      PROVE  ControlInv'
  BY <1>8 DEF ToLogin, LoginPlace, Rest, vars, entry, past, Go, Keep, Return, Blank, Callers
<1>9. ASSUME NEW p \in Callers, AtBridge(p)
      PROVE  ControlInv'
  BY <1>9 DEF AtBridge, Moved, Rest, vars, entry, past, Go, Keep, Return, Blank, Callers
<1>10. ASSUME NEW p \in Callers, AnswerExpired(p)
      PROVE  ControlInv'
  BY <1>10
     DEF AnswerExpired, Answered, Expired, Invalidate, vars, entry, past, Go, Keep, Return,
         Blank, Callers
<1>11. ASSUME NEW p \in Callers, AnswerRefused(p)
      PROVE  ControlInv'
  BY <1>11
     DEF AnswerRefused, Answered, Refused, Halt, vars, entry, past, Go, Keep, Return, Blank,
         Callers
<1>12. ASSUME NEW p \in Callers, AnswerObserved(p)
      PROVE  ControlInv'
  BY <1>12
     DEF AnswerObserved, Answered, Observe, Numbered, Save, vars, entry, past, Go, Keep,
         Return, Blank, Callers
<1>13. ASSUME NEW p \in Callers, BrowserRead(p)
      PROVE  ControlInv'
  BY <1>13 DEF BrowserRead, vars, entry, past, Go, Keep, Return, Blank, Callers
<1>14. ASSUME NEW p \in Callers, Finish(p)
      PROVE  ControlInv'
  BY <1>14
     DEF Finish, KeepState, DropState, Halt, Save, vars, entry, past, Go, Keep, Return,
         Blank, Callers
<1>15. ASSUME NEW p \in Callers, LeavesEarly(p)
      PROVE  ControlInv'
  BY <1>15 DEF LeavesEarly, Rest, vars, entry, past, Go, Keep, Return, Blank, Callers
<1>16. CASE Pause
  BY <1>16 DEF Pause, Halt, vars, entry, past, Go, Keep, Return, Blank, Callers
<1>17. CASE Resume
  BY <1>17 DEF Resume, vars, entry, past, Go, Keep, Return, Blank, Callers
<1>18. CASE Logout
  BY <1>18 DEF Logout, Halt, vars, entry, past, Go, Keep, Return, Blank, Callers
<1>19. CASE Restart
  BY <1>19 DEF Restart, vars, entry, past, Go, Keep, Return, Blank, Callers
<1>20. CASE UNCHANGED vars
  BY <1>20 DEF vars, entry, past
<1>21. ASSUME NEW p \in Callers, Check(p) \/ Bridge(p) \/ Login(p) \/ GiveUp(p)
      PROVE  ControlInv'
  BY <1>21, <1>5, <1>6, <1>7, <1>8, <1>9, <1>15, RoundSteps
<1>22. ASSUME NEW p \in Callers, Respond(p)
      PROVE  ControlInv'
  BY <1>22, <1>10, <1>11, <1>12
     DEF Respond, AnswerExpired, AnswerRefused, AnswerObserved, Answered
<1>23. QED
  BY <1>1, <1>2, <1>3, <1>4, <1>13, <1>14, <1>16, <1>17, <1>18, <1>19, <1>20, <1>21, <1>22
     DEF Next, Step

\* Only who has the browser publishes a snapshot, if logins are made in it.
LEMMA BrowserKept ==
  ASSUME TypeOK, ControlInv, VersionInv, BrowserInv, [Next]_vars
  PROVE  BrowserInv'
<1> USE DEF TypeOK, ControlInv, BrowserInv, Leading, Operation
<1>1. ASSUME NEW p \in Callers, Call(p)
      PROVE  BrowserInv'
  BY <1>1 DEF Call, vars, entry, past, Go, Keep, Return, Blank, Callers
<1>2. ASSUME NEW p \in Callers, Enter(p)
      PROVE  BrowserInv'
  BY <1>2 DEF Enter, Load, vars, entry, past, Go, Keep, Return, Blank, Callers
<1>3. ASSUME NEW p \in Callers, EnterBrowser(p)
      PROVE  BrowserInv'
  BY <1>3 DEF EnterBrowser, Load, vars, entry, past, Go, Keep, Return, Blank, Callers
<1>4. ASSUME NEW p \in Callers, Ensure(p)
      PROVE  BrowserInv'
  BY <1>4 DEF Ensure, LoginPlace, vars, entry, past, Go, Keep, Return, Blank, Callers
<1>5. ASSUME NEW p \in Callers, RoundFails(p)
      PROVE  BrowserInv'
  BY <1>5
     DEF RoundFails, Landed, Halt, Rest, vars, entry, past, Go, Keep, Return, Blank, Callers
<1>6. ASSUME NEW p \in Callers, NEW cred \in Credential, NEW state \in Snapshot \cup {nil},
             RoundPublishes(p, cred, state)
      PROVE  BrowserInv'
  BY <1>6
     DEF RoundPublishes, Publishing, Landed, Rest, Moved, vars, entry, past, Go, Keep,
         Return, Blank, Callers
<1>7. ASSUME NEW p \in Callers, NEW cred \in Credential, NEW state \in Snapshot \cup {nil},
             RoundIsUnsaved(p, cred, state)
      PROVE  BrowserInv'
  BY <1>7
     DEF RoundIsUnsaved, Publishing, Landed, Rest, Moved, vars, entry, past, Go, Keep,
         Return, Blank, Callers
<1>8. ASSUME NEW p \in Callers, ToLogin(p)
      PROVE  BrowserInv'
  BY <1>8 DEF ToLogin, LoginPlace, Rest, vars, entry, past, Go, Keep, Return, Blank, Callers
<1>9. ASSUME NEW p \in Callers, AtBridge(p)
      PROVE  BrowserInv'
  BY <1>9 DEF AtBridge, Moved, Rest, vars, entry, past, Go, Keep, Return, Blank, Callers
<1>10. ASSUME NEW p \in Callers, AnswerExpired(p)
      PROVE  BrowserInv'
  BY <1>10
     DEF AnswerExpired, Answered, Expired, Invalidate, vars, entry, past, Go, Keep, Return,
         Blank, Callers
<1>11. ASSUME NEW p \in Callers, AnswerRefused(p)
      PROVE  BrowserInv'
  BY <1>11
     DEF AnswerRefused, Answered, Refused, Halt, vars, entry, past, Go, Keep, Return, Blank,
         Callers
<1>12. ASSUME NEW p \in Callers, AnswerObserved(p)
      PROVE  BrowserInv'
  BY <1>12
     DEF AnswerObserved, Answered, Observe, Numbered, Save, vars, entry, past, Go, Keep,
         Return, Blank, Callers
<1>13. ASSUME NEW p \in Callers, BrowserRead(p)
      PROVE  BrowserInv'
  <2>1. browserRevision' = browserRevision /\ autoBridge' = autoBridge
    BY <1>13 DEF BrowserRead
  <2>2. QED
    BY <1>13, <2>1, ReadEffect
<1>14. ASSUME NEW p \in Callers, Finish(p)
      PROVE  BrowserInv'
  BY <1>14
     DEF Finish, KeepState, DropState, Halt, Save, vars, entry, past, Go, Keep, Return,
         Blank, Callers
<1>15. ASSUME NEW p \in Callers, LeavesEarly(p)
      PROVE  BrowserInv'
  BY <1>15 DEF LeavesEarly, Rest, vars, entry, past, Go, Keep, Return, Blank, Callers
<1>16. CASE Pause
  BY <1>16 DEF Pause, Halt, vars, entry, past, Go, Keep, Return, Blank, Callers
<1>17. CASE Resume
  BY <1>17 DEF Resume, vars, entry, past, Go, Keep, Return, Blank, Callers
<1>18. CASE Logout
  BY <1>18 DEF Logout, Halt, vars, entry, past, Go, Keep, Return, Blank, Callers
<1>19. CASE Restart
  BY <1>19 DEF Restart, vars, entry, past, Go, Keep, Return, Blank, Callers
<1>20. CASE UNCHANGED vars
  BY <1>20 DEF vars, entry, past
<1>21. ASSUME NEW p \in Callers, Check(p) \/ Bridge(p) \/ Login(p) \/ GiveUp(p)
      PROVE  BrowserInv'
  BY <1>21, <1>5, <1>6, <1>7, <1>8, <1>9, <1>15, RoundSteps
<1>22. ASSUME NEW p \in Callers, Respond(p)
      PROVE  BrowserInv'
  BY <1>22, <1>10, <1>11, <1>12
     DEF Respond, AnswerExpired, AnswerRefused, AnswerObserved, Answered
<1>23. QED
  BY <1>1, <1>2, <1>3, <1>4, <1>13, <1>14, <1>16, <1>17, <1>18, <1>19, <1>20, <1>21, <1>22
     DEF Next, Step

\* Credentials never change within a generation.
LEMMA VersionKept ==
  ASSUME TypeOK, ControlInv, VersionInv, [Next]_vars
  PROVE  VersionInv'
<1> USE DEF TypeOK, ControlInv, VersionInv, Leading, Operation
<1>1. ASSUME NEW p \in Callers, Call(p)
      PROVE  VersionInv'
  BY <1>1 DEF Call, vars, entry, past, Go, Keep, Return, Blank, Callers
<1>2. ASSUME NEW p \in Callers, Enter(p)
      PROVE  VersionInv'
  BY <1>2 DEF Enter, Load, vars, entry, past, Go, Keep, Return, Blank, Callers
<1>3. ASSUME NEW p \in Callers, EnterBrowser(p)
      PROVE  VersionInv'
  BY <1>3 DEF EnterBrowser, Load, vars, entry, past, Go, Keep, Return, Blank, Callers
<1>4. ASSUME NEW p \in Callers, Ensure(p)
      PROVE  VersionInv'
  <2>1. UNCHANGED <<version, current>> /\ pc[p] = "ensure"
    BY <1>4 DEF Ensure
  <2>2. QED
    BY <1>4, <2>1, EnsureEffect DEF LoginPlace
<1>5. ASSUME NEW p \in Callers, RoundFails(p)
      PROVE  VersionInv'
  BY <1>5
     DEF RoundFails, Landed, Halt, Rest, vars, entry, past, Go, Keep, Return, Blank, Callers
<1>6. ASSUME NEW p \in Callers, NEW cred \in Credential, NEW state \in Snapshot \cup {nil},
             RoundPublishes(p, cred, state)
      PROVE  VersionInv'
  BY <1>6
     DEF RoundPublishes, Publishing, Landed, Rest, Moved, vars, entry, past, Go, Keep,
         Return, Blank, Callers
<1>7. ASSUME NEW p \in Callers, NEW cred \in Credential, NEW state \in Snapshot \cup {nil},
             RoundIsUnsaved(p, cred, state)
      PROVE  VersionInv'
  BY <1>7
     DEF RoundIsUnsaved, Publishing, Landed, Rest, Moved, vars, entry, past, Go, Keep,
         Return, Blank, Callers
<1>8. ASSUME NEW p \in Callers, ToLogin(p)
      PROVE  VersionInv'
  BY <1>8 DEF ToLogin, LoginPlace, Rest, vars, entry, past, Go, Keep, Return, Blank, Callers
<1>9. ASSUME NEW p \in Callers, AtBridge(p)
      PROVE  VersionInv'
  BY <1>9 DEF AtBridge, Moved, Rest, vars, entry, past, Go, Keep, Return, Blank, Callers
<1>10. ASSUME NEW p \in Callers, AnswerExpired(p)
      PROVE  VersionInv'
  BY <1>10
     DEF AnswerExpired, Answered, Expired, Invalidate, vars, entry, past, Go, Keep, Return,
         Blank, Callers
<1>11. ASSUME NEW p \in Callers, AnswerRefused(p)
      PROVE  VersionInv'
  BY <1>11
     DEF AnswerRefused, Answered, Refused, Halt, vars, entry, past, Go, Keep, Return, Blank,
         Callers
<1>12. ASSUME NEW p \in Callers, AnswerObserved(p)
      PROVE  VersionInv'
  BY <1>12
     DEF AnswerObserved, Answered, Observe, Numbered, Save, vars, entry, past, Go, Keep,
         Return, Blank, Callers
<1>13. ASSUME NEW p \in Callers, BrowserRead(p)
      PROVE  VersionInv'
  BY <1>13 DEF BrowserRead, vars, entry, past, Go, Keep, Return, Blank, Callers
<1>14. ASSUME NEW p \in Callers, Finish(p)
      PROVE  VersionInv'
  BY <1>14
     DEF Finish, KeepState, DropState, Halt, Save, vars, entry, past, Go, Keep, Return,
         Blank, Callers
<1>15. ASSUME NEW p \in Callers, LeavesEarly(p)
      PROVE  VersionInv'
  BY <1>15 DEF LeavesEarly, Rest, vars, entry, past, Go, Keep, Return, Blank, Callers
<1>16. CASE Pause
  BY <1>16 DEF Pause, Halt, vars, entry, past, Go, Keep, Return, Blank, Callers
<1>17. CASE Resume
  BY <1>17 DEF Resume, vars, entry, past, Go, Keep, Return, Blank, Callers
<1>18. CASE Logout
  BY <1>18 DEF Logout, Halt, vars, entry, past, Go, Keep, Return, Blank, Callers
<1>19. CASE Restart
  BY <1>19 DEF Restart, vars, entry, past, Go, Keep, Return, Blank, Callers
<1>20. CASE UNCHANGED vars
  BY <1>20 DEF vars, entry, past
<1>21. ASSUME NEW p \in Callers, Check(p) \/ Bridge(p) \/ Login(p) \/ GiveUp(p)
      PROVE  VersionInv'
  BY <1>21, <1>5, <1>6, <1>7, <1>8, <1>9, <1>15, RoundSteps
<1>22. ASSUME NEW p \in Callers, Respond(p)
      PROVE  VersionInv'
  BY <1>22, <1>10, <1>11, <1>12
     DEF Respond, AnswerExpired, AnswerRefused, AnswerObserved, Answered
<1>23. QED
  BY <1>1, <1>2, <1>3, <1>4, <1>13, <1>14, <1>16, <1>17, <1>18, <1>19, <1>20, <1>21, <1>22
     DEF Next, Step

\* An epoch has no pause in it.
LEMMA EpochKept ==
  ASSUME TypeOK, ControlInv, VersionInv, EpochInv, [Next]_vars
  PROVE  EpochInv'
<1> USE DEF TypeOK, ControlInv, EpochInv, Leading, Operation
<1>1. ASSUME NEW p \in Callers, Call(p)
      PROVE  EpochInv'
  BY <1>1 DEF Call, vars, entry, past, Go, Keep, Return, Blank, Callers
<1>2. ASSUME NEW p \in Callers, Enter(p)
      PROVE  EpochInv'
  BY <1>2 DEF Enter, Load, vars, entry, past, Go, Keep, Return, Blank, Callers
<1>3. ASSUME NEW p \in Callers, EnterBrowser(p)
      PROVE  EpochInv'
  BY <1>3 DEF EnterBrowser, Load, vars, entry, past, Go, Keep, Return, Blank, Callers
<1>4. ASSUME NEW p \in Callers, Ensure(p)
      PROVE  EpochInv'
  BY <1>4 DEF Ensure, LoginPlace, vars, entry, past, Go, Keep, Return, Blank, Callers
<1>5. ASSUME NEW p \in Callers, RoundFails(p)
      PROVE  EpochInv'
  BY <1>5
     DEF RoundFails, Landed, Halt, Rest, vars, entry, past, Go, Keep, Return, Blank, Callers
<1>6. ASSUME NEW p \in Callers, NEW cred \in Credential, NEW state \in Snapshot \cup {nil},
             RoundPublishes(p, cred, state)
      PROVE  EpochInv'
  BY <1>6
     DEF RoundPublishes, Publishing, Landed, Rest, Moved, vars, entry, past, Go, Keep,
         Return, Blank, Callers
<1>7. ASSUME NEW p \in Callers, NEW cred \in Credential, NEW state \in Snapshot \cup {nil},
             RoundIsUnsaved(p, cred, state)
      PROVE  EpochInv'
  BY <1>7
     DEF RoundIsUnsaved, Publishing, Landed, Rest, Moved, vars, entry, past, Go, Keep,
         Return, Blank, Callers
<1>8. ASSUME NEW p \in Callers, ToLogin(p)
      PROVE  EpochInv'
  BY <1>8 DEF ToLogin, LoginPlace, Rest, vars, entry, past, Go, Keep, Return, Blank, Callers
<1>9. ASSUME NEW p \in Callers, AtBridge(p)
      PROVE  EpochInv'
  BY <1>9 DEF AtBridge, Moved, Rest, vars, entry, past, Go, Keep, Return, Blank, Callers
<1>10. ASSUME NEW p \in Callers, AnswerExpired(p)
      PROVE  EpochInv'
  BY <1>10
     DEF AnswerExpired, Answered, Expired, Invalidate, vars, entry, past, Go, Keep, Return,
         Blank, Callers
<1>11. ASSUME NEW p \in Callers, AnswerRefused(p)
      PROVE  EpochInv'
  BY <1>11
     DEF AnswerRefused, Answered, Refused, Halt, vars, entry, past, Go, Keep, Return, Blank,
         Callers
<1>12. ASSUME NEW p \in Callers, AnswerObserved(p)
      PROVE  EpochInv'
  BY <1>12
     DEF AnswerObserved, Answered, Observe, Numbered, Save, vars, entry, past, Go, Keep,
         Return, Blank, Callers
<1>13. ASSUME NEW p \in Callers, BrowserRead(p)
      PROVE  EpochInv'
  <2>1. UNCHANGED <<revision, halts>>
    BY <1>13 DEF BrowserRead, past
  <2>2. QED
    BY <1>13, <2>1, ReadEffect
<1>14. ASSUME NEW p \in Callers, Finish(p)
      PROVE  EpochInv'
  BY <1>14
     DEF Finish, KeepState, DropState, Halt, Save, vars, entry, past, Go, Keep, Return,
         Blank, Callers
<1>15. ASSUME NEW p \in Callers, LeavesEarly(p)
      PROVE  EpochInv'
  BY <1>15 DEF LeavesEarly, Rest, vars, entry, past, Go, Keep, Return, Blank, Callers
<1>16. CASE Pause
  BY <1>16 DEF Pause, Halt, vars, entry, past, Go, Keep, Return, Blank, Callers
<1>17. CASE Resume
  BY <1>17 DEF Resume, vars, entry, past, Go, Keep, Return, Blank, Callers
<1>18. CASE Logout
  BY <1>18 DEF Logout, Halt, vars, entry, past, Go, Keep, Return, Blank, Callers
<1>19. CASE Restart
  BY <1>19 DEF Restart, vars, entry, past, Go, Keep, Return, Blank, Callers
<1>20. CASE UNCHANGED vars
  BY <1>20 DEF vars, entry, past
<1>21. ASSUME NEW p \in Callers, Check(p) \/ Bridge(p) \/ Login(p) \/ GiveUp(p)
      PROVE  EpochInv'
  BY <1>21, <1>5, <1>6, <1>7, <1>8, <1>9, <1>15, RoundSteps
<1>22. ASSUME NEW p \in Callers, Respond(p)
      PROVE  EpochInv'
  BY <1>22, <1>10, <1>11, <1>12
     DEF Respond, AnswerExpired, AnswerRefused, AnswerObserved, Answered
<1>23. QED
  BY <1>1, <1>2, <1>3, <1>4, <1>13, <1>14, <1>16, <1>17, <1>18, <1>19, <1>20, <1>21, <1>22
     DEF Next, Step

\* What is published after a logout was begun after it.
LEMMA LogoutKept ==
  ASSUME TypeOK, ControlInv, VersionInv, EpochInv, LogoutInv, [Next]_vars
  PROVE  LogoutInv'
<1> USE DEF TypeOK, VersionInv, EpochInv, LogoutInv, Leading, Operation, Credential, Snapshot, Saved,
            NoResurrection, Held, Kept, Since
<1>1. ASSUME NEW p \in Callers, Call(p)
      PROVE  LogoutInv'
  BY <1>1 DEF Call, vars, entry, past, Go, Keep, Return, Blank, Callers
<1>2. ASSUME NEW p \in Callers, Enter(p)
      PROVE  LogoutInv'
  BY <1>2 DEF Enter, Load, vars, entry, past, Go, Keep, Return, Blank, Callers
<1>3. ASSUME NEW p \in Callers, EnterBrowser(p)
      PROVE  LogoutInv'
  BY <1>3 DEF EnterBrowser, Load, vars, entry, past, Go, Keep, Return, Blank, Callers
<1>4. ASSUME NEW p \in Callers, Ensure(p)
      PROVE  LogoutInv'
  BY <1>4 DEF Ensure, LoginPlace, vars, entry, past, Go, Keep, Return, Blank, Callers
<1>5. ASSUME NEW p \in Callers, RoundFails(p)
      PROVE  LogoutInv'
  BY <1>5
     DEF RoundFails, Landed, Halt, Rest, vars, entry, past, Go, Keep, Return, Blank, Callers
<1>6. ASSUME NEW p \in Callers, NEW cred \in Credential, NEW state \in Snapshot \cup {nil},
             RoundPublishes(p, cred, state)
      PROVE  LogoutInv'
  BY <1>6
     DEF RoundPublishes, Publishing, Landed, Rest, Moved, vars, entry, past, Go, Keep,
         Return, Blank, Callers
<1>7. ASSUME NEW p \in Callers, NEW cred \in Credential, NEW state \in Snapshot \cup {nil},
             RoundIsUnsaved(p, cred, state)
      PROVE  LogoutInv'
  BY <1>7
     DEF RoundIsUnsaved, Publishing, Landed, Rest, Moved, vars, entry, past, Go, Keep,
         Return, Blank, Callers
<1>8. ASSUME NEW p \in Callers, ToLogin(p)
      PROVE  LogoutInv'
  BY <1>8 DEF ToLogin, LoginPlace, Rest, vars, entry, past, Go, Keep, Return, Blank, Callers
<1>9. ASSUME NEW p \in Callers, AtBridge(p)
      PROVE  LogoutInv'
  BY <1>9 DEF AtBridge, Moved, Rest, vars, entry, past, Go, Keep, Return, Blank, Callers
<1>10. ASSUME NEW p \in Callers, AnswerExpired(p)
      PROVE  LogoutInv'
  BY <1>10
     DEF AnswerExpired, Answered, Expired, Invalidate, vars, entry, past, Go, Keep, Return,
         Blank, Callers
<1>11. ASSUME NEW p \in Callers, AnswerRefused(p)
      PROVE  LogoutInv'
  BY <1>11
     DEF AnswerRefused, Answered, Refused, Halt, vars, entry, past, Go, Keep, Return, Blank,
         Callers
<1>12. ASSUME NEW p \in Callers, AnswerObserved(p)
      PROVE  LogoutInv'
  BY <1>12
     DEF AnswerObserved, Answered, Observe, Numbered, Save, vars, entry, past, Go, Keep,
         Return, Blank, Callers
<1>13. ASSUME NEW p \in Callers, BrowserRead(p)
      PROVE  LogoutInv'
  BY <1>13 DEF BrowserRead, vars, entry, past, Go, Keep, Return, Blank, Callers
<1>14. ASSUME NEW p \in Callers, Finish(p)
      PROVE  LogoutInv'
  BY <1>14
     DEF Finish, KeepState, DropState, Halt, Save, vars, entry, past, Go, Keep, Return,
         Blank, Callers
<1>15. ASSUME NEW p \in Callers, LeavesEarly(p)
      PROVE  LogoutInv'
  BY <1>15 DEF LeavesEarly, Rest, vars, entry, past, Go, Keep, Return, Blank, Callers
<1>16. CASE Pause
  BY <1>16 DEF Pause, Halt, vars, entry, past, Go, Keep, Return, Blank, Callers
<1>17. CASE Resume
  BY <1>17 DEF Resume, vars, entry, past, Go, Keep, Return, Blank, Callers
<1>18. CASE Logout
  <2>1. current' = nil /\ pageState' = nil /\ halts' = halts + 1 /\ lastLogout' = halts + 1
        /\ logoutRun' = restarts /\ restarts' = restarts /\ loaded' = TRUE
    BY <1>18 DEF Logout, Halt
  <2>2. ~undeleted' => stored' = nil
    BY <1>18 DEF Logout
  <2>3. QED
    BY <2>1, <2>2
<1>19. CASE Restart
  BY <1>19 DEF Restart, vars, entry, past, Go, Keep, Return, Blank, Callers
<1>20. CASE UNCHANGED vars
  BY <1>20 DEF vars, entry, past
<1>21. ASSUME NEW p \in Callers, Check(p) \/ Bridge(p) \/ Login(p) \/ GiveUp(p)
      PROVE  LogoutInv'
  BY <1>21, <1>5, <1>6, <1>7, <1>8, <1>9, <1>15, RoundSteps
<1>22. ASSUME NEW p \in Callers, Respond(p)
      PROVE  LogoutInv'
  BY <1>22, <1>10, <1>11, <1>12
     DEF Respond, AnswerExpired, AnswerRefused, AnswerObserved, Answered
<1>23. QED
  BY <1>1, <1>2, <1>3, <1>4, <1>13, <1>14, <1>16, <1>17, <1>18, <1>19, <1>20, <1>21, <1>22
     DEF Next, Step

\* What is published was begun after the last pause.
LEMMA TimelySteps ==
  ASSUME TypeOK, ControlInv, VersionInv, EpochInv, [Next]_vars
  PROVE  Timely
<1> USE DEF TypeOK, VersionInv, EpochInv, Leading, Operation, Timely
<1>1. ASSUME NEW p \in Callers, Call(p)
      PROVE  Timely
  BY <1>1 DEF Call, vars, entry, past, Go, Keep, Return, Blank, Callers
<1>2. ASSUME NEW p \in Callers, Enter(p)
      PROVE  Timely
  BY <1>2 DEF Enter, Load, vars, entry, past, Go, Keep, Return, Blank, Callers
<1>3. ASSUME NEW p \in Callers, EnterBrowser(p)
      PROVE  Timely
  BY <1>3 DEF EnterBrowser, Load, vars, entry, past, Go, Keep, Return, Blank, Callers
<1>4. ASSUME NEW p \in Callers, Ensure(p)
      PROVE  Timely
  BY <1>4 DEF Ensure, LoginPlace, vars, entry, past, Go, Keep, Return, Blank, Callers
<1>5. ASSUME NEW p \in Callers, RoundFails(p)
      PROVE  Timely
  BY <1>5
     DEF RoundFails, Landed, Halt, Rest, vars, entry, past, Go, Keep, Return, Blank, Callers
<1>6. ASSUME NEW p \in Callers, NEW cred \in Credential, NEW state \in Snapshot \cup {nil},
             RoundPublishes(p, cred, state)
      PROVE  Timely
  BY <1>6
     DEF RoundPublishes, Publishing, Landed, Rest, Moved, vars, entry, past, Go, Keep,
         Return, Blank, Callers
<1>7. ASSUME NEW p \in Callers, NEW cred \in Credential, NEW state \in Snapshot \cup {nil},
             RoundIsUnsaved(p, cred, state)
      PROVE  Timely
  BY <1>7
     DEF RoundIsUnsaved, Publishing, Landed, Rest, Moved, vars, entry, past, Go, Keep,
         Return, Blank, Callers
<1>8. ASSUME NEW p \in Callers, ToLogin(p)
      PROVE  Timely
  BY <1>8 DEF ToLogin, LoginPlace, Rest, vars, entry, past, Go, Keep, Return, Blank, Callers
<1>9. ASSUME NEW p \in Callers, AtBridge(p)
      PROVE  Timely
  BY <1>9 DEF AtBridge, Moved, Rest, vars, entry, past, Go, Keep, Return, Blank, Callers
<1>10. ASSUME NEW p \in Callers, AnswerExpired(p)
      PROVE  Timely
  BY <1>10
     DEF AnswerExpired, Answered, Expired, Invalidate, vars, entry, past, Go, Keep, Return,
         Blank, Callers
<1>11. ASSUME NEW p \in Callers, AnswerRefused(p)
      PROVE  Timely
  BY <1>11
     DEF AnswerRefused, Answered, Refused, Halt, vars, entry, past, Go, Keep, Return, Blank,
         Callers
<1>12. ASSUME NEW p \in Callers, AnswerObserved(p)
      PROVE  Timely
  <2>1. UNCHANGED browserRevision
    BY <1>12 DEF AnswerObserved, Answered
  <2>2. CASE UNCHANGED current
    BY <2>1, <2>2
  <2>3. CASE ~(UNCHANGED current)
    <3>1. current \in Credential /\ current' = [current EXCEPT !.turn = @ + 1]
      BY <1>12, <2>3 DEF AnswerObserved, Observe
    <3>2. current'.login = current.login
      BY <3>1, DataTypesOf
    <3>3. QED
      BY <2>1, <3>1, <3>2
  <2>4. QED
    BY <2>2, <2>3
<1>13. ASSUME NEW p \in Callers, BrowserRead(p)
      PROVE  Timely
  BY <1>13 DEF BrowserRead, vars, entry, past, Go, Keep, Return, Blank, Callers
<1>14. ASSUME NEW p \in Callers, Finish(p)
      PROVE  Timely
  <2>1. UNCHANGED current
    BY <1>14 DEF Finish, entry
  <2>2. CASE KeepState(p) /\ revision = op[p].rev
    <3>1. [since |-> op[p].since].since = halts
      BY <1>14, <2>2 DEF Finish
    <3>2. QED
      BY <2>1, <2>2, <3>1 DEF KeepState
  <2>3. CASE DropState
    BY <2>1, <2>3 DEF DropState
  <2>4. CASE UNCHANGED browserRevision
    BY <2>1, <2>4
  <2>5. QED
    BY <1>14, <2>2, <2>3, <2>4 DEF Finish, entry
<1>15. ASSUME NEW p \in Callers, LeavesEarly(p)
      PROVE  Timely
  BY <1>15 DEF LeavesEarly, Rest, vars, entry, past, Go, Keep, Return, Blank, Callers
<1>16. CASE Pause
  BY <1>16 DEF Pause, Halt, vars, entry, past, Go, Keep, Return, Blank, Callers
<1>17. CASE Resume
  BY <1>17 DEF Resume, vars, entry, past, Go, Keep, Return, Blank, Callers
<1>18. CASE Logout
  BY <1>18 DEF Logout, Halt, vars, entry, past, Go, Keep, Return, Blank, Callers
<1>19. CASE Restart
  BY <1>19 DEF Restart, vars, entry, past, Go, Keep, Return, Blank, Callers
<1>20. CASE UNCHANGED vars
  BY <1>20 DEF vars, entry, past
<1>21. ASSUME NEW p \in Callers, Check(p) \/ Bridge(p) \/ Login(p) \/ GiveUp(p)
      PROVE  Timely
  BY <1>21, <1>5, <1>6, <1>7, <1>8, <1>9, <1>15, RoundSteps
<1>22. ASSUME NEW p \in Callers, Respond(p)
      PROVE  Timely
  BY <1>22, <1>10, <1>11, <1>12
     DEF Respond, AnswerExpired, AnswerRefused, AnswerObserved, Answered
<1>23. QED
  BY <1>1, <1>2, <1>3, <1>4, <1>13, <1>14, <1>16, <1>17, <1>18, <1>19, <1>20, <1>21, <1>22
     DEF Next, Step

-----------------------------------------------------------------------------
(* Theorems                                                                  *)

\* The invariant holds in every reachable state.
THEOREM AccountInvariant == Spec => []AccountInv
<1>1. Init => AccountInv
  <2>1. ASSUME Init PROVE TypeOK
    BY <2>1 DEF Init, Fresh, Blank, Operation, Places, TypeOK
  <2>2. ASSUME Init PROVE ControlInv /\ BrowserInv /\ VersionInv /\ EpochInv
    BY <2>2 DEF Init, Fresh, Callers, ControlInv, BrowserInv, VersionInv, EpochInv, Leading
  <2>3. ASSUME Init PROVE LogoutInv
    BY <2>3 DEF Init, Fresh, LogoutInv, NoResurrection, Held, Kept, Since
  <2>4. QED
    BY <2>1, <2>2, <2>3 DEF AccountInv
<1>2. AccountInv /\ [Next]_vars => AccountInv'
  BY TypeKept, ControlKept, BrowserKept, VersionKept, EpochKept, LogoutKept DEF AccountInv
<1>3. QED
  BY <1>1, <1>2, PTL DEF Spec

\* Nothing begun before a logout (store.go:115) comes back, in memory or in the store.
THEOREM LogoutIsFinal == Spec => []NoResurrection
<1>1. AccountInv => NoResurrection
  BY DEF AccountInv, LogoutInv
<1>2. QED
  BY <1>1, AccountInvariant, PTL

\* A late answer acts on the credentials it was made with or on none (manager.go:446).
THEOREM GenerationsName == Spec => []VersionNames
<1>1. AccountInv => VersionNames
  BY DEF AccountInv, VersionInv, VersionNames, Callers
<1>2. QED
  BY <1>1, AccountInvariant, PTL

\* With logins in the browser no operation in it is overtaken by another (manager.go:250).
THEOREM SnapshotsAreFresh == Spec => []SnapshotFresh
<1>1. AccountInv => SnapshotFresh
  BY DEF AccountInv, ControlInv, BrowserInv, SnapshotFresh, Leading
<1>2. QED
  BY <1>1, AccountInvariant, PTL

\* The chain of waiting of a request ends at a call to the site (manager.go:268).
THEOREM WaitingEnds == Spec => []WaitersAreServed
<1>1. AccountInv => WaitersAreServed
  BY DEF AccountInv, TypeOK, ControlInv, WaitersAreServed, Leading, Callers
<1>2. QED
  BY <1>1, AccountInvariant, PTL

\* What a pause or a logout overtook is never published (manager.go:323, browser.go:251).
THEOREM NothingStaleIsPublished == Spec => NothingStale
<1>1. AccountInv /\ [Next]_vars => [Timely]_vars
  BY TimelySteps DEF AccountInv
<1>2. QED
  BY <1>1, AccountInvariant, PTL DEF Spec, NothingStale
=============================================================================
