------------------------------ MODULE Account ------------------------------
(***************************************************************************)
(* One account of the account manager.  Requests (Do) share one round of   *)
(* authentication at a time, browser operations (WithBrowser) run one at a *)
(* time, and an operator pauses, resumes or logs out in between.  Checks,  *)
(* logins, requests and callbacks are calls to the site: they take time,   *)
(* end in some way, and what they found is applied under the account's     *)
(* lock only if it is still current.                                       *)
(*                                                                         *)
(* Credentials are told apart by their login and rotation, they and browser*)
(* snapshots by when they were begun; their contents, the cookies a session*)
(* collects, and the values that seed a login are left out.                *)
(***************************************************************************)
EXTENDS Integers, FiniteSets

CONSTANTS
  Http,          (* callers of Do                                          *)
  Browsers,      (* callers of WithBrowser                                 *)
  nil,
  MaxConcurrent, (* operations of the account at a time                    *)
  MaxCalls,      (* bound on the calls of each caller                      *)
  MaxHalts,      (* bound on pauses and logouts                            *)
  MaxRestarts    (* bound on restarts of the process                       *)

Callers == Http \cup Browsers

\* since: the pauses there had been when the login, or the browser operation, was begun.
Credential == [login : Nat, turn : Nat, since : Nat]
Snapshot   == [since : Nat]
Saved      == [http : Credential \cup {nil}, browser : Snapshot \cup {nil}]

ASSUME AccountAssumption ==
  /\ Http \cap Browsers = {} /\ nil \notin Callers \cup Credential \cup Snapshot \cup Saved
  /\ MaxConcurrent \in Nat \ {0}
  /\ MaxCalls \in Nat /\ MaxHalts \in Nat /\ MaxRestarts \in Nat

VARIABLES
  autoBridge,    \* HTTP logins are made in the browser
  current,       \* the HTTP credentials in use, nil if none
  version,       \* their generation
  revision,      \* lifecycle epoch: loads, pauses, logouts
  pageState,     \* the browser snapshot, nil if none
  browserRevision,
  loaded,
  paused,
  cooling,       \* a failure is remembered and its cooldown has not passed
  recent,        \* there was a check, and CheckInterval has not passed
  flight,        \* who leads the round of authentication
  browserSlot,   \* who has the account's browser
  stored,        \* the snapshot in the store, nil if there is none
  pc,            \* where each caller is
  op,            \* what it has read and found
  made,          \* history: logins published
  halts,         \* history: pauses and logouts
  lastLogout,    \* history: the value of halts after the last logout
  logoutRun,     \* history: the process it was in
  undeleted,     \* history: the last logout could not delete the snapshot
  calls, restarts

entry == <<autoBridge, current, version, revision, pageState, browserRevision, loaded,
           paused, cooling, recent>>
past  == <<made, halts, lastLogout, logoutRun, undeleted>>
vars  == <<entry, flight, browserSlot, stored, pc, op, past, calls, restarts>>

Places == {"idle", "enter", "slot", "ensure", "join", "check", "bridge", "login", "request",
           "read", "use"}

\* rev, ver, brev and since are what an operation read before it called the site; a
\* request is made with cred, of generation ver.
Operation == [rev : Nat, ver : Nat, brev : Nat, since : Nat, cred : Credential \cup {nil},
              again : BOOLEAN]

Blank == [rev |-> 0, ver |-> 0, brev |-> 0, since |-> 0, cred |-> nil, again |-> FALSE]

TypeOK ==
  /\ autoBridge \in BOOLEAN /\ loaded \in BOOLEAN /\ paused \in BOOLEAN
  /\ cooling \in BOOLEAN /\ recent \in BOOLEAN /\ undeleted \in BOOLEAN
  /\ current \in Credential \cup {nil} /\ pageState \in Snapshot \cup {nil}
  /\ version \in Nat /\ revision \in Nat /\ browserRevision \in Nat
  /\ made \in Nat /\ halts \in Nat /\ lastLogout \in Nat /\ logoutRun \in Nat
  /\ flight \in Http \cup {nil} /\ browserSlot \in Callers \cup {nil}
  /\ stored \in Saved \cup {nil}
  /\ pc \in [Callers -> Places] /\ op \in [Callers -> Operation]
  /\ calls \in [Callers -> Nat] /\ restarts \in Nat

\* An account as Register leaves it, over what an earlier process has stored.
Fresh ==
  /\ current = nil /\ pageState = nil
  /\ version = 0 /\ revision = 0 /\ browserRevision = 0
  /\ loaded = FALSE /\ paused = FALSE /\ cooling = FALSE /\ recent = FALSE
  /\ flight = nil /\ browserSlot = nil
  /\ pc = [p \in Callers |-> "idle"]
  /\ op = [p \in Callers |-> Blank]

Init ==
  /\ Fresh
  /\ autoBridge \in BOOLEAN
  /\ stored = nil
  /\ made = 0 /\ halts = 0 /\ lastLogout = 0 /\ logoutRun = 0 /\ undeleted = FALSE
  /\ calls = [p \in Callers |-> 0] /\ restarts = 0

-----------------------------------------------------------------------------
(* Calls                                                                   *)

Go(p, place) == pc' = [pc EXCEPT ![p] = place]
Keep(p, o)   == op' = [op EXCEPT ![p] = o]

\* The call returns and gives back what it holds.
Return(p) ==
  /\ Go(p, "idle") /\ Keep(p, Blank)
  /\ browserSlot' = IF browserSlot = p THEN nil ELSE browserSlot

Call(p) ==
  /\ pc[p] = "idle" /\ calls[p] < MaxCalls
  /\ calls' = [calls EXCEPT ![p] = @ + 1]
  /\ Go(p, "enter")
  /\ UNCHANGED <<entry, flight, browserSlot, stored, op, past, restarts>>

\* load: the first call of the process reads the store, or fails to.
Load(p, next) ==
  \/ /\ ~paused /\ Go(p, next) /\ UNCHANGED op
     /\ loaded' = TRUE
     /\ IF loaded \/ stored = nil
        THEN UNCHANGED <<current, pageState, version, revision>>
        ELSE /\ current' = stored.http /\ pageState' = stored.browser
             /\ version' = version + 1 /\ revision' = revision + 1
  \/ /\ paused \/ ~loaded
     /\ Return(p) /\ UNCHANGED <<loaded, current, pageState, version, revision>>

\* enter: a free slot, and the account not paused; a request loads at once, a browser
\* operation when it has the browser.  (A pause between the two locks ends the call too.)
Enter(p) ==
  /\ pc[p] = "enter"
  /\ Cardinality({q \in Callers : pc[q] \notin {"idle", "enter"}}) < MaxConcurrent
  /\ \/ p \in Http /\ Load(p, "ensure") /\ UNCHANGED browserSlot
     \/ /\ p \in Browsers
        /\ IF paused THEN Return(p) ELSE Go(p, "slot") /\ UNCHANGED <<op, browserSlot>>
        /\ UNCHANGED <<loaded, current, pageState, version, revision>>
  /\ UNCHANGED <<autoBridge, browserRevision, paused, cooling, recent, flight, stored, past,
                 calls, restarts>>

\* enterBrowser of WithBrowser.
EnterBrowser(p) ==
  /\ pc[p] = "slot" /\ browserSlot = nil
  /\ Load(p, "read")
  /\ browserSlot' = IF pc'[p] = "read" THEN p ELSE nil
  /\ UNCHANGED <<autoBridge, browserRevision, paused, cooling, recent, flight, stored, past,
                 calls, restarts>>

-----------------------------------------------------------------------------
(* One round of authentication                                             *)

LoginPlace == IF autoBridge THEN "bridge" ELSE "login"

\* ensure up to its first unlock: refuse, join the round of another request, take what
\* was checked recently, or lead a round.  That a cooldown or an interval has passed is
\* known when it is looked at.
Ensure(p) ==
  /\ pc[p] = "ensure"
  /\ \/ /\ paused \/ cooling
        /\ Return(p) /\ UNCHANGED <<flight, cooling, recent>>
     \/ /\ ~paused /\ cooling' = FALSE
        /\ \/ /\ flight # nil
              /\ Go(p, "join") /\ UNCHANGED <<op, flight, recent>>
           \/ /\ flight = nil /\ current # nil /\ recent
              /\ Go(p, "request")
              /\ Keep(p, [Blank EXCEPT !.cred = current, !.ver = version, !.again = op[p].again])
              /\ UNCHANGED <<flight, recent>>
           \/ /\ flight = nil /\ flight' = p /\ recent' = FALSE
              /\ Keep(p, [rev |-> revision, ver |-> version, brev |-> browserRevision,
                          since |-> halts, cred |-> current, again |-> op[p].again])
              /\ Go(p, IF current = nil THEN LoginPlace ELSE "check")
        /\ UNCHANGED browserSlot
  /\ UNCHANGED <<autoBridge, current, version, revision, pageState, browserRevision, loaded, paused,
                 stored, past, calls, restarts>>

\* Mutant: only the generation is compared.
MovedByVersion(p) == version # op[p].ver \/ paused

Moved(p) == revision # op[p].rev \/ version # op[p].ver \/ paused

\* Mutant: a round that failed leaves its waiters behind.
LandAlone(p, cred, ver) ==
  LET all == {p} \cup {q \in Callers : pc[q] = "join" /\ cred # nil} IN
  /\ flight' = nil
  /\ pc' = [q \in Callers |-> IF q \notin all THEN pc[q]
                              ELSE IF cred # nil THEN "request" ELSE "idle"]
  /\ op' = [q \in Callers |-> IF q \notin all THEN op[q]
                              ELSE IF cred # nil THEN [Blank EXCEPT !.cred = cred, !.ver = ver,
                                                                    !.again = op[q].again]
                              ELSE Blank]
  /\ browserSlot' = IF browserSlot = p THEN nil ELSE browserSlot

\* Those who wait for the round get what its leader gets: credentials, or an error.
Land(p, cred, ver) ==
  LET all == {p} \cup {q \in Callers : pc[q] = "join"} IN
  /\ flight' = nil
  /\ pc' = [q \in Callers |-> IF q \notin all THEN pc[q]
                              ELSE IF cred # nil THEN "request" ELSE "idle"]
  /\ op' = [q \in Callers |-> IF q \notin all THEN op[q]
                              ELSE IF cred # nil THEN [Blank EXCEPT !.cred = cred, !.ver = ver,
                                                                    !.again = op[q].again]
                              ELSE Blank]
  /\ browserSlot' = IF browserSlot = p THEN nil ELSE browserSlot

\* saveLocked: the file is replaced last, or not at all.
Save(snapshot, ok) == stored' = IF ok THEN snapshot ELSE stored

\* The account is paused, and what was begun before counts no more.
Halt == paused' = TRUE /\ revision' = revision + 1 /\ halts' = halts + 1

\* The round ends with credentials, checked or new (then with a snapshot or without):
\* they are published and saved, or no longer in use if they cannot be saved.
Publish(p, cred, isNew, state) ==
  LET newVersion == IF isNew THEN version + 1 ELSE version
      newState   == IF state # nil THEN state ELSE pageState
  IN /\ pageState' = newState
     /\ browserRevision' = IF state # nil THEN browserRevision + 1 ELSE browserRevision
     /\ \/ /\ Save([http |-> cred, browser |-> newState], TRUE)
           /\ current' = cred /\ version' = newVersion
           /\ recent' = TRUE /\ cooling' = FALSE
           /\ Land(p, cred, newVersion)
        \/ /\ Save([http |-> cred, browser |-> newState], FALSE)
           /\ current' = nil /\ version' = newVersion + 1
           /\ recent' = FALSE /\ cooling' \in BOOLEAN
           /\ Land(p, nil, 0)
     /\ UNCHANGED <<paused, revision, halts>>

\* The round ends with an error: a failure, a challenge, an ended context.
Fail(p, error) ==
  /\ cooling' = (cooling \/ error \in {"failed", "challenge"})
  /\ IF error = "challenge" THEN Halt ELSE UNCHANGED <<paused, revision, halts>>
  /\ Land(p, nil, 0)
  /\ UNCHANGED <<current, version, recent, pageState, browserRevision, stored>>

CallErrors == {"failed", "challenge", "cancelled"}

\* The site is asked about the old credentials; with another answer they are done with.
Check(p) ==
  /\ pc[p] = "check"
  /\ \/ IF Moved(p) THEN Fail(p, "superseded")
        ELSE Publish(p, op[p].cred, FALSE, nil) \/ \E error \in CallErrors : Fail(p, error)
     \/ /\ Go(p, LoginPlace) /\ Keep(p, [op[p] EXCEPT !.cred = nil])
        /\ UNCHANGED <<flight, browserSlot, stored, current, version, recent, cooling, pageState,
                       browserRevision, paused, revision, halts>>
  /\ UNCHANGED <<autoBridge, loaded, made, lastLogout, logoutRun, undeleted, calls, restarts>>

\* Mutant: a login in the browser does not wait for the browser.
BridgeWithoutSlot(p) ==
  /\ pc[p] = "bridge"
  /\ \/ Moved(p) /\ Fail(p, "superseded")
     \/ ~Moved(p) /\ cooling /\ Fail(p, "failed")
     \/ /\ ~Moved(p) /\ cooling' = FALSE
        /\ Go(p, "login") /\ Keep(p, [op[p] EXCEPT !.brev = browserRevision])
        /\ UNCHANGED <<flight, browserSlot, stored, current, version, recent, pageState,
                       browserRevision, paused, revision, halts>>
  /\ UNCHANGED <<autoBridge, loaded, made, lastLogout, logoutRun, undeleted, calls, restarts>>

\* A login in the browser waits for the account's browser, and looks again.
Bridge(p) ==
  /\ pc[p] = "bridge" /\ browserSlot = nil
  /\ \/ Moved(p) /\ Fail(p, "superseded")
     \/ ~Moved(p) /\ cooling /\ Fail(p, "failed")
     \/ /\ ~Moved(p) /\ cooling' = FALSE
        /\ Go(p, "login") /\ Keep(p, [op[p] EXCEPT !.brev = browserRevision])
        /\ browserSlot' = p
        /\ UNCHANGED <<flight, stored, current, version, recent, pageState,
                       browserRevision, paused, revision, halts>>
  /\ UNCHANGED <<autoBridge, loaded, made, lastLogout, logoutRun, undeleted, calls, restarts>>

\* Login and its verification, the second attempt from a clean state included.  A login in
\* the browser brings a snapshot too, another may; then no other may have been published.
Login(p) ==
  /\ pc[p] = "login"
  /\ \/ Moved(p) /\ Fail(p, "superseded") /\ UNCHANGED made
     \/ ~Moved(p) /\ (\E error \in CallErrors : Fail(p, error)) /\ UNCHANGED made
     \/ /\ ~Moved(p)
        /\ \E withState \in {TRUE, autoBridge} :
             IF withState /\ browserRevision # op[p].brev
             THEN Fail(p, "superseded") /\ UNCHANGED made
             ELSE /\ made' = made + 1
                  /\ Publish(p, [login |-> made + 1, turn |-> 0, since |-> op[p].since], TRUE,
                             IF withState THEN [since |-> op[p].since] ELSE nil)
  /\ UNCHANGED <<autoBridge, loaded, lastLogout, logoutRun, undeleted, calls, restarts>>

\* The context of a call that waits has ended.  A round that waits for the browser is over;
\* any other call returns.
GiveUp(p) ==
  /\ \/ /\ pc[p] \in {"enter", "slot", "join"} /\ Return(p)
        /\ UNCHANGED <<flight, stored, current, version, recent, cooling, pageState,
                       browserRevision, paused, revision, halts>>
     \/ pc[p] = "bridge" /\ Fail(p, "cancelled")
  /\ UNCHANGED <<autoBridge, loaded, made, lastLogout, logoutRun, undeleted, calls, restarts>>

-----------------------------------------------------------------------------
(* The answer to a request                                                 *)

\* Invalidate: only the generation that was used.
Invalidate(p) ==
  IF version = op[p].ver /\ current # nil
  THEN current' = nil /\ version' = version + 1 /\ recent' = FALSE /\ cooling' = FALSE
  ELSE UNCHANGED <<current, version, recent, cooling>>

\* Expired: what may be replayed is, once, after another round.
Expired(p) ==
  /\ Invalidate(p)
  /\ \/ /\ ~op[p].again
        /\ Go(p, "ensure") /\ Keep(p, [Blank EXCEPT !.again = TRUE]) /\ UNCHANGED browserSlot
     \/ Return(p)
  /\ UNCHANGED <<paused, revision, halts, stored>>

\* Forbidden; or a challenge, which pauses the account of the generation that met it.
Refused(p) ==
  /\ Return(p)
  /\ \/ UNCHANGED <<paused, revision, halts>>
     \/ version = op[p].ver /\ Halt
  /\ UNCHANGED <<current, version, recent, cooling, stored>>

\* Mutant: a rotated token keeps its generation.
Unnumbered(rotated) == version

Numbered(rotated) == IF rotated = current THEN version ELSE version + 1

\* observe: a valid response may rotate the token; the account is saved.
Observe(p) ==
  /\ Return(p)
  /\ IF version # op[p].ver \/ paused
     THEN UNCHANGED <<current, version, stored>>
     ELSE \E rotated \in {current, [current EXCEPT !.turn = @ + 1]}, ok \in BOOLEAN :
            /\ current' = rotated
            /\ version' = Numbered(rotated)
            /\ Save([http |-> rotated, browser |-> pageState], ok)
  /\ UNCHANGED <<recent, cooling, paused, revision, halts>>

\* The request, and what Do makes of its answer.
Respond(p) ==
  /\ pc[p] = "request"
  /\ Expired(p) \/ Refused(p) \/ Observe(p)
  /\ UNCHANGED <<autoBridge, pageState, browserRevision, loaded, flight, made, lastLogout,
                 logoutRun, undeleted, calls, restarts>>

-----------------------------------------------------------------------------
(* WithBrowser                                                             *)

BrowserRead(p) ==
  /\ pc[p] = "read"
  /\ \/ (paused \/ cooling) /\ Return(p) /\ UNCHANGED cooling
     \/ /\ ~paused /\ cooling' = FALSE
        /\ Go(p, "use")
        /\ Keep(p, [Blank EXCEPT !.rev = revision, !.brev = browserRevision, !.since = halts])
        /\ UNCHANGED browserSlot
  /\ UNCHANGED <<autoBridge, current, version, revision, pageState, browserRevision, loaded, paused,
                 recent, flight, stored, past, calls, restarts>>

\* A check, a login or a challenge went wrong: the snapshot is dropped.
DropState ==
  /\ pageState' = nil /\ cooling' = TRUE /\ browserRevision' = browserRevision + 1
  /\ Halt \/ UNCHANGED <<paused, revision, halts>>
  /\ UNCHANGED stored

\* A new snapshot is kept and saved.
KeepState(p) ==
  LET new == [since |-> op[p].since] IN
  /\ pageState' = new /\ cooling' = FALSE /\ browserRevision' = browserRevision + 1
  /\ \E ok \in BOOLEAN : Save([http |-> current, browser |-> new], ok)
  /\ UNCHANGED <<paused, revision, halts>>

\* Mutant: the lifecycle is not looked at again.
FinishLate(p) ==
  /\ pc[p] = "use" /\ Return(p)
  /\ IF browserRevision # op[p].brev \/ paused
     THEN UNCHANGED <<entry, stored, halts>>
     ELSE /\ KeepState(p) \/ DropState \/ UNCHANGED <<pageState, cooling, browserRevision, paused,
                                                       revision, stored, halts>>
          /\ UNCHANGED <<autoBridge, current, version, loaded, recent>>
  /\ UNCHANGED <<flight, made, lastLogout, logoutRun, undeleted, calls, restarts>>

\* The callback is over; an error of its own, and a context that ended, change nothing.
Finish(p) ==
  /\ pc[p] = "use" /\ Return(p)
  /\ IF revision # op[p].rev \/ browserRevision # op[p].brev \/ paused
     THEN UNCHANGED <<entry, stored, halts>>
     ELSE /\ KeepState(p) \/ DropState \/ UNCHANGED <<pageState, cooling, browserRevision, paused,
                                                       revision, stored, halts>>
          /\ UNCHANGED <<autoBridge, current, version, loaded, recent>>
  /\ UNCHANGED <<flight, made, lastLogout, logoutRun, undeleted, calls, restarts>>

-----------------------------------------------------------------------------
(* The operator, the clock, and the process                                *)

Pause ==
  /\ halts < MaxHalts /\ Halt
  /\ UNCHANGED <<autoBridge, current, version, pageState, browserRevision, loaded, cooling, recent,
                 flight, browserSlot, stored, pc, op, made, lastLogout, logoutRun, undeleted,
                 calls, restarts>>

Resume ==
  /\ paused' = FALSE /\ cooling' = FALSE /\ recent' = FALSE
  /\ UNCHANGED <<autoBridge, current, version, revision, pageState, browserRevision, loaded,
                 flight, browserSlot, stored, pc, op, past, calls, restarts>>

Logout ==
  /\ halts < MaxHalts /\ Halt
  /\ version' = version + 1
  /\ current' = nil /\ pageState' = nil /\ recent' = FALSE /\ loaded' = TRUE
  /\ \E deleted \in BOOLEAN :
       stored' = (IF deleted THEN nil ELSE stored) /\ undeleted' = ~deleted
  /\ lastLogout' = halts' /\ logoutRun' = restarts
  /\ UNCHANGED <<autoBridge, browserRevision, cooling, flight, browserSlot, pc, op, made, calls,
                 restarts>>

\* The process ends and is started again, at any point.
Restart ==
  /\ restarts < MaxRestarts /\ restarts' = restarts + 1
  /\ current' = nil /\ pageState' = nil
  /\ version' = 0 /\ revision' = 0 /\ browserRevision' = 0
  /\ loaded' = FALSE /\ paused' = FALSE /\ cooling' = FALSE /\ recent' = FALSE
  /\ flight' = nil /\ browserSlot' = nil
  /\ pc' = [p \in Callers |-> "idle"] /\ op' = [p \in Callers |-> Blank]
  /\ UNCHANGED <<autoBridge, stored, past, calls>>

Step(p) ==
  \/ Enter(p) \/ EnterBrowser(p) \/ Ensure(p) \/ Check(p) \/ Bridge(p) \/ Login(p)
  \/ Respond(p) \/ BrowserRead(p) \/ Finish(p)

Next ==
  \/ \E p \in Callers : Call(p) \/ Step(p) \/ GiveUp(p)
  \/ Pause \/ Resume \/ Logout \/ Restart

Spec == Init /\ [][Next]_vars

-----------------------------------------------------------------------------
(* Properties                                                              *)

Since(x) == IF x = nil THEN {} ELSE {x.since}
Held     == Since(current) \cup Since(pageState)
Kept     == IF stored = nil THEN {} ELSE Since(stored.http) \cup Since(stored.browser)

\* Logout is final (store.go:115): nothing that was begun before it, a login, a callback
\* in the browser, an answer, a save, brings a session or a snapshot back, in memory or in
\* the store, whatever is resumed or restarted later.  (A snapshot that Logout reported it
\* could not delete stays in the store, and in memory comes back only with a new process.)
NoResurrection ==
  /\ (undeleted => restarts = logoutRun) => \A since \in Held : since >= lastLogout
  /\ ~undeleted => \A since \in Kept : since >= lastLogout

\* A step of a loaded account publishes only what was begun after the last pause.
Timely ==
  loaded =>
    /\ \/ current' \in {nil, current} \/ current'.since = halts
       \/ current # nil /\ current'.login = current.login
    /\ (browserRevision' # browserRevision /\ pageState' # nil) => pageState'.since = halts

\* A login or a snapshot that a pause or a logout overtook is never published, even if the
\* account was resumed meanwhile (manager.go:323, browser.go:251).
NothingStale == [][Timely]_vars

\* A generation names one set of credentials: a request whose generation is still the
\* account's was made with the credentials in use, so its answer may invalidate, rotate,
\* save or pause them (manager.go:446, 614).
VersionNames ==
  \A p \in Http : (pc[p] = "request" /\ op[p].ver = version) => op[p].cred = current

\* Where HTTP logins are made in the browser, no snapshot is published while another
\* operation has the browser, so no login or callback is made for nothing.
SnapshotFresh ==
  autoBridge => \A p \in Callers : pc[p] \in {"login", "use"} => op[p].brev = browserRevision

\* Nobody waits for nobody: a request that waits has a round to wait for, a round has
\* its leader at work, and whoever has the browser is using it, so the chain of waiting
\* always ends at a call to the site, which has a time limit (manager.go:293, 320).
WaitersAreServed ==
  /\ \A p \in Callers : pc[p] = "join" => flight # nil
  /\ flight # nil => pc[flight] \in {"check", "bridge", "login"}
  /\ browserSlot # nil => pc[browserSlot] \in {"read", "use", "login"}
=============================================================================
