------------------------------ MODULE Accounts ------------------------------
(***************************************************************************)
(* Accounts and their credentials: the Account rows in PostgreSQL, the     *)
(* encrypted credential file both processes share, the copy of it each of  *)
(* them keeps in memory (account.service.ts), the calls of the API that    *)
(* create, reconnect, check and remove an account, the sync jobs and the   *)
(* token refresh job of the worker.  A credential is a number: a password, *)
(* or a grant with the tokens issued under it.                             *)
(***************************************************************************)
EXTENDS Integers, FiniteSets

CONSTANTS
  Account,     \* ids of accounts
  User,        \* users
  Call,        \* calls the API serves at the same time
  Job,         \* sync jobs the worker runs at the same time
  Refresher,   \* the token refresh job
  None,        \* nobody, nothing
  OAuth,       \* accounts with authType oauth
  Gmail,       \* accounts at Gmail
  MaxGrant,    \* bound: passwords and grants there ever are
  MaxEvents    \* bound: calls, manual syncs, failures of networks, restarts, decisions of providers

ASSUME ConstantsAssumption ==
  /\ OAuth \subseteq Account /\ Gmail \subseteq Account
  /\ MaxGrant \in Nat \ {0} /\ MaxEvents \in Nat
  /\ User # {} /\ None \notin User \cup Account
  /\ Refresher \notin Call \cup Job /\ Call \cap Job = {}

Grant == 1 .. MaxGrant
Missing == 0
Actor == Call \cup Job \cup {Refresher}
Process == {"api", "worker"}
Home(p) == IF p \in Call THEN "api" ELSE "worker"
Copies == [Account -> Grant \cup {Missing}]
Blank == [a \in Account |-> Missing]

VARIABLES
  file,     \* credentials.json
  memory,   \* process -> AccountService.credentials
  row,      \* account -> its row: owner, status, whether its backoff is running
  task,     \* actor -> what it is for: the operation, the user, the account
  act,      \* actor -> how far it is, and what it holds
  granted,  \* credentials handed out so far
  refused,  \* credentials the provider does not honour any more
  shut,     \* accounts whose IMAP server lets nobody in
  used,     \* ids of accounts handed out (randomUUID)
  events    \* events left

world == <<granted, refused, shut, used, events>>
doing == <<task, act>>
vars == <<file, memory, row, doing, world>>

-----------------------------------------------------------------------------
(* Helpers *)

Row(u, s, held) == [owner |-> u, status |-> s, held |-> held]
NoRow == Row(None, "none", FALSE)
Exists(a) == row[a] # NoRow

For(op, u, a) == [op |-> op, user |-> u, acct |-> a]
Nothing == For("idle", None, None)
Rest == [at |-> "idle", given |-> Missing, prev |-> Missing, cred |-> Missing,
         again |-> FALSE, goal |-> "none", snap |-> Blank, todo |-> Blank]

At(p, step) == act[p].at = step
Is(p, op) == task[p].op = op
Turn(p, t, r) == task' = [task EXCEPT ![p] = t] /\ act' = [act EXCEPT ![p] = r]
End(p) == Turn(p, Nothing, Rest)
Become(p, r) == act' = [act EXCEPT ![p] = r] /\ UNCHANGED task
Goto(p, step) == Become(p, [act[p] EXCEPT !.at = step])

Event == events > 0 /\ events' = events - 1
\* updateMany: a row that is gone is not written.
Update(a, s, held) ==
  row' = IF Exists(a) THEN [row EXCEPT ![a] = Row(row[a].owner, s, held)] ELSE row
Status(a, s) == Update(a, s, row[a].held)
Put(home, a, c) == memory' = [memory EXCEPT ![home][a] = c]
Credential(p) == memory[Home(p)][task[p].acct]
Accepts(c, a) == c \notin refused /\ a \notin shut

\* saveAndTest's catch: the credentials in use before are in use again.
Restore(p) ==
  IF Is(p, "save") /\ act[p].prev # Missing
  THEN Put("api", task[p].acct, act[p].prev)
  ELSE UNCHANGED memory

\* recordSyncFailure: another delay starts, longer with every failure.
Held(a, loud) == row[a].held \/ loud

\* What a failure leaves in the row.  refresh and withClient write needs_reauth
\* first; performSync and connect write their own status over it.
FailureRow(p, loud, reauth) ==
  LET a == task[p].acct IN
  \/ Is(p, "sync") /\ Update(a, "error", Held(a, loud))
  \/ Is(p, "check") /\ Status(a, "error")
  \/ ~Is(p, "sync") /\ ~Is(p, "check") /\ reauth /\ Status(a, "needs_reauth")
  \/ ~Is(p, "sync") /\ ~Is(p, "check") /\ ~reauth /\ UNCHANGED row

\* A call is over; the refresh job goes on with its next account.
Done(p) ==
  IF act[p].todo = Blank THEN End(p)
  ELSE Turn(p, For("plan", None, None), [Rest EXCEPT !.at = "pick", !.todo = act[p].todo])

\* An error ends it.
\* loud: isConnectionOrAuthError knows the message.
Fail(p, loud, reauth) ==
  /\ FailureRow(p, loud, reauth)
  /\ Restore(p)
  /\ Done(p)

\* The connection stands: the operation behind it runs.
Pass(p) ==
  LET a == task[p].acct IN
  \/ Is(p, "sync") /\ Update(a, "connected", FALSE) /\ End(p)
  \/ Is(p, "check") /\ Status(a, "connected") /\ End(p)
  \/ /\ ~Is(p, "sync") /\ ~Is(p, "check")
     /\ Become(p, [act[p] EXCEPT !.at = "load", !.goal = "persist", !.cred = act[p].given])
     /\ UNCHANGED row

-----------------------------------------------------------------------------
(* Calls of the API *)

\* POST /accounts: a new id, and its credentials in use before they are tested.
Create(p, u, a) ==
  /\ p \in Call /\ Is(p, "idle") /\ Event
  /\ a \notin used /\ granted < MaxGrant
  /\ used' = used \cup {a} /\ granted' = granted + 1
  /\ Put("api", a, granted')
  /\ Turn(p, For("save", u, a), [Rest EXCEPT !.at = "test", !.given = granted'])
  /\ UNCHANGED <<file, row, refused, shut>>

\* PUT, connect and DELETE, of a credential the user has got, of none, of none.
Request(p, u, a) ==
  \/ /\ granted < MaxGrant /\ granted' = granted + 1
     /\ Turn(p, For("save", u, a), [Rest EXCEPT !.at = "begin", !.given = granted'])
  \/ /\ Turn(p, For("check", u, a), [Rest EXCEPT !.at = "test"])
     /\ UNCHANGED granted
  \/ /\ Turn(p, For("remove", u, a), [Rest EXCEPT !.at = "load", !.goal = "delete"])
     /\ UNCHANGED granted

\* (mutant of Ask: nobody looks whose account it is)
AskAnything(p, u, a) ==
  /\ p \in Call /\ Is(p, "idle") /\ Event
  /\ Exists(a) /\ Request(p, u, a)
  /\ UNCHANGED <<file, memory, row, refused, shut, used>>

\* Each of them looks first whether the account is the user's.
Ask(p, u, a) ==
  /\ p \in Call /\ Is(p, "idle") /\ Event
  /\ Exists(a) /\ row[a].owner = u /\ Request(p, u, a)
  /\ UNCHANGED <<file, memory, row, refused, shut, used>>

\* saveAndTest: remembers what is in use and uses what came.
Begin(p) ==
  /\ Is(p, "save") /\ At(p, "begin")
  /\ Put("api", task[p].acct, act[p].given)
  /\ Become(p, [act[p] EXCEPT !.at = "test", !.prev = Credential(p)])
  /\ UNCHANGED <<file, row, world>>

\* saveConnected is an upsert; remove deletes the row of this user.
WriteRow(p) ==
  LET a == task[p].acct  u == task[p].user IN
  /\ At(p, "row")
  /\ \/ /\ Is(p, "save")
        /\ row' = [row EXCEPT ![a] = Row(u, "connected", FALSE)]
        /\ Goto(p, "get")
     \/ /\ Is(p, "remove")
        /\ row' = IF row[a].owner = u THEN [row EXCEPT ![a] = NoRow] ELSE row
        /\ End(p)
  /\ UNCHANGED <<file, memory, world>>

\* The answer of saveAndTest: get throws when the account has been removed meanwhile.
Answer(p) ==
  LET a == task[p].acct IN
  /\ At(p, "get")
  /\ IF Exists(a) /\ row[a].owner = task[p].user THEN UNCHANGED memory ELSE Restore(p)
  /\ End(p)
  /\ UNCHANGED <<file, row, world>>

-----------------------------------------------------------------------------
(* A session with the mail server: withClient *)

\* (mutant of EnsureFresh: the missing credential is not noticed)
EnsureFreshBlindly(p) ==
  /\ At(p, "test")
  /\ Become(p, [act[p] EXCEPT !.at = "connect", !.cred = Credential(p)])
  /\ UNCHANGED <<file, memory, row, world>>

\* ensureFresh: the credential in use, refreshed first when its access token is over.
EnsureFresh(p) ==
  /\ At(p, "test")
  /\ \/ Credential(p) = Missing /\ Fail(p, TRUE, FALSE)
     \/ /\ Credential(p) # Missing
        /\ \E next \in IF task[p].acct \in OAuth THEN {"connect", "refresh"} ELSE {"connect"} :
             Become(p, [act[p] EXCEPT !.at = next, !.cred = Credential(p), !.goal = "connect"])
        /\ UNCHANGED <<row, memory>>
  /\ UNCHANGED <<file, world>>

\* The token endpoint answers: invalid_grant, nothing, or a new token, which may be
\* a new grant that ends the old one.
RefreshRefused(p) ==
  /\ At(p, "refresh") /\ act[p].cred \in refused
  /\ Fail(p, FALSE, TRUE)
  /\ UNCHANGED <<file, world>>

\* No answer, or an error that is not invalid_grant; its words may be known or not, but
\* those of a second attempt are hidden behind an expired session.
RefreshLost(p) ==
  /\ At(p, "refresh") /\ Event
  /\ \E loud \in {FALSE, ~act[p].again} : Fail(p, loud, act[p].again)
  /\ UNCHANGED <<file, granted, refused, shut, used>>

Refreshed(p) ==
  /\ At(p, "refresh") /\ act[p].cred \notin refused
  /\ \/ Goto(p, "load") /\ UNCHANGED world
     \/ /\ Event /\ granted < MaxGrant
        /\ granted' = granted + 1
        /\ refused' = refused \cup {act[p].cred}
        /\ Become(p, [act[p] EXCEPT !.at = "load", !.cred = granted'])
        /\ UNCHANGED <<shut, used>>
  /\ UNCHANGED <<file, memory, row>>

\* save and delete read the whole file ...
Load(p) ==
  /\ At(p, "load")
  /\ Become(p, [act[p] EXCEPT !.at = "store", !.snap = file])
  /\ UNCHANGED <<file, memory, row, world>>

WriteFile(accounts, a, c) == file' = [accounts EXCEPT ![a] = c]

\* ... and write the whole file, then the copy in memory.
Store(p) ==
  LET a == task[p].acct
      goal == act[p].goal
      c == IF goal = "delete" THEN Missing ELSE act[p].cred IN
  /\ At(p, "store")
  /\ WriteFile(act[p].snap, a, c)
  /\ Put(Home(p), a, c)
  /\ \/ Is(p, "plan") /\ Done(p)
     \/ /\ ~Is(p, "plan") /\ goal = "connect"
        /\ Become(p, [act[p] EXCEPT !.at = "connect", !.snap = Blank])
     \/ /\ ~Is(p, "plan") /\ goal # "connect"
        /\ Become(p, [act[p] EXCEPT !.at = "row", !.snap = Blank, !.goal = "none", !.cred = Missing])
  /\ UNCHANGED <<row, world>>

Accepted(p) ==
  /\ At(p, "connect") /\ Accepts(act[p].cred, task[p].acct)
  /\ Pass(p)
  /\ UNCHANGED <<file, memory, world>>

\* (mutant of Rejected: every refusal is answered with a refresh)
RejectedAgain(p) ==
  /\ At(p, "connect") /\ ~Accepts(act[p].cred, task[p].acct)
  /\ Become(p, [act[p] EXCEPT !.at = "refresh", !.cred = Credential(p), !.again = TRUE])
  /\ UNCHANGED <<file, memory, row, world>>

\* The server refuses the login: an OAuth account refreshes once and tries again.
Rejected(p) ==
  LET a == task[p].acct IN
  /\ At(p, "connect") /\ ~Accepts(act[p].cred, a)
  /\ \/ a \notin OAuth /\ Fail(p, a \notin Gmail, FALSE)
     \/ a \in OAuth /\ (act[p].again \/ Credential(p) = Missing) /\ Fail(p, FALSE, TRUE)
     \/ /\ a \in OAuth /\ ~act[p].again /\ Credential(p) # Missing
        /\ Become(p, [act[p] EXCEPT !.at = "refresh", !.cred = Credential(p), !.again = TRUE])
        /\ UNCHANGED <<row, memory>>
  /\ UNCHANGED <<file, world>>

\* No connection, the retries included; after a refresh every error reads as an expired session.
Disconnected(p) ==
  /\ At(p, "connect") /\ Event
  /\ Fail(p, ~act[p].again, act[p].again)
  /\ UNCHANGED <<file, granted, refused, shut, used>>

-----------------------------------------------------------------------------
(* Jobs of the worker *)

\* (mutant of Reload: the worker trusts its memory once it has a credential)
ReloadMissing(p, a) ==
  LET c == IF memory["worker"][a] # Missing THEN memory["worker"][a] ELSE file[a] IN
  /\ Put("worker", a, c)
  /\ IF c = Missing THEN End(p) ELSE Turn(p, For("sync", None, a), [Rest EXCEPT !.at = "begin"])
  /\ UNCHANGED <<file, row, granted, refused, shut, used>>

\* reloadCredential, before every job.
Reload(p, a) ==
  /\ Put("worker", a, file[a])
  /\ IF file[a] = Missing THEN End(p) ELSE Turn(p, For("sync", None, a), [Rest EXCEPT !.at = "begin"])
  /\ UNCHANGED <<file, row, granted, refused, shut, used>>

Ready(p, a) ==
  /\ p \in Job /\ Is(p, "idle")
  /\ \A q \in Job : task[q].acct # a
  /\ Exists(a) /\ ~row[a].held

\* A tick enqueues the accounts the worker has credentials of; a user enqueues any.
TickSync(p, a) == Ready(p, a) /\ memory["worker"][a] # Missing /\ Reload(p, a) /\ UNCHANGED events
ManualSync(p, a) == Ready(p, a) /\ Event /\ Reload(p, a)

\* performSync
BeginSync(p) ==
  /\ Is(p, "sync") /\ At(p, "begin")
  /\ Status(task[p].acct, "syncing")
  /\ IF Exists(task[p].acct) THEN Goto(p, "test") ELSE End(p)
  /\ UNCHANGED <<file, memory, world>>

\* refreshDue: the list is taken once, from memory, and nothing is reloaded.
Plan(p) ==
  /\ p = Refresher /\ Is(p, "idle") /\ memory["worker"] # Blank
  /\ Turn(p, For("plan", None, None), [Rest EXCEPT !.at = "pick", !.todo = memory["worker"]])
  /\ UNCHANGED <<file, memory, row, world>>

Pick(p) ==
  /\ Is(p, "plan") /\ At(p, "pick")
  /\ \E a \in Account :
       LET rest == [act[p].todo EXCEPT ![a] = Missing] IN
       /\ act[p].todo[a] # Missing
       /\ \/ IF rest = Blank THEN End(p) ELSE Become(p, [act[p] EXCEPT !.todo = rest])
          \/ /\ a \in OAuth
             /\ Turn(p, For("plan", None, a),
                     [act[p] EXCEPT !.at = "refresh", !.cred = act[p].todo[a], !.todo = rest])
  /\ UNCHANGED <<file, memory, row, world>>

\* The delay of a backoff passes.
BackoffEnds(a) ==
  /\ row[a].held
  /\ row' = [row EXCEPT ![a].held = FALSE]
  /\ UNCHANGED <<file, memory, doing, world>>

-----------------------------------------------------------------------------
(* The world *)

\* upsertStored: credentials without a row get one that nobody owns.
Upserted(a) == IF file[a] # Missing /\ ~Exists(a) THEN Row(None, "disconnected", FALSE) ELSE row[a]

\* onModuleInit of one of the two processes; what it was doing is lost.
Boot(h) ==
  /\ Event
  /\ memory' = [memory EXCEPT ![h] = file]
  /\ task' = [p \in Actor |-> IF Home(p) = h THEN Nothing ELSE task[p]]
  /\ act' = [p \in Actor |-> IF Home(p) = h THEN Rest ELSE act[p]]
  /\ row' = [a \in Account |->
               IF h = "api" /\ Exists(a) THEN Row(row[a].owner, "disconnected", row[a].held) ELSE Upserted(a)]
  /\ UNCHANGED <<file, granted, refused, shut, used>>

\* A password is changed, a consent withdrawn.
Revoke(c) ==
  /\ Event /\ c \in (1 .. granted) \ refused
  /\ refused' = refused \cup {c}
  /\ UNCHANGED <<file, memory, row, doing, granted, shut, used>>

\* IMAP is switched off or on in the settings of the mailbox.
Toggle(a) ==
  /\ Event
  /\ shut' = IF a \in shut THEN shut \ {a} ELSE shut \cup {a}
  /\ UNCHANGED <<file, memory, row, doing, granted, refused, used>>

\* Some accounts are there already, connected with the credential they were created with.
Start(there, u) ==
  LET given == [a \in Account |-> IF a \in there THEN 1 ELSE Missing] IN
  /\ file = given /\ memory = [h \in Process |-> given]
  /\ row = [a \in Account |-> IF a \in there THEN Row(u, "connected", FALSE) ELSE NoRow]
  /\ task = [p \in Actor |-> Nothing] /\ act = [p \in Actor |-> Rest]
  /\ granted = (IF there = {} THEN 0 ELSE 1) /\ used = there
  /\ refused = {} /\ shut = {}
  /\ events = MaxEvents
Init == \E there \in SUBSET Account : Cardinality(there) <= 1 /\ Start(there, CHOOSE u \in User : TRUE)

\* What an actor does once it has begun.
Session(p) ==
  \/ EnsureFresh(p) \/ RefreshRefused(p) \/ Refreshed(p) \/ Load(p) \/ Store(p)
  \/ Accepted(p) \/ Rejected(p)
Continue(p) == Session(p) \/ Begin(p) \/ WriteRow(p) \/ Answer(p) \/ BeginSync(p) \/ Pick(p)
Trouble(p) == RefreshLost(p) \/ Disconnected(p)

Next ==
  \/ \E p \in Actor : Continue(p) \/ Trouble(p) \/ Plan(p)
  \/ \E p \in Call, u \in User, a \in Account : Create(p, u, a) \/ Ask(p, u, a)
  \/ \E p \in Job, a \in Account : TickSync(p, a) \/ ManualSync(p, a)
  \/ \E a \in Account : BackoffEnds(a) \/ Toggle(a)
  \/ \E h \in Process : Boot(h)
  \/ \E c \in Grant : Revoke(c)

Spec == Init /\ [][Next]_vars

\* Calls and jobs run on, ticks come again and again, delays pass.
Fairness ==
  /\ \A p \in Actor : WF_vars(Continue(p))
  /\ \A a \in Account : WF_vars(\E p \in Job : TickSync(p, a)) /\ WF_vars(BackoffEnds(a))
FairSpec == Spec /\ Fairness

-----------------------------------------------------------------------------
(* Properties *)

\* Types, and: a login or a refresh always has a credential (account.service.ts:65,
\* getConfig throws when there is none).
TypeOK ==
  /\ file \in Copies /\ memory \in [Process -> Copies]
  /\ row \in [Account -> [owner : User \cup {None}, held : BOOLEAN,
                          status : {"none", "disconnected", "syncing", "connected", "error", "needs_reauth"}]]
  /\ granted \in 0 .. MaxGrant /\ refused \subseteq Grant /\ shut \subseteq Account /\ used \subseteq Account
  /\ events \in 0 .. MaxEvents
  /\ \A p \in Actor :
       /\ task[p].op \in {"idle", "save", "check", "remove", "sync", "plan"}
       /\ act[p].snap \in Copies /\ act[p].todo \in Copies
       /\ act[p].at \in {"connect", "refresh"} => act[p].cred # Missing /\ task[p].acct \in Account

\* An account that a user owns stays with that user until its row is gone, whatever
\* reconnects, removals and restarts are under way (saveConnected writes the owner
\* into the row of whoever calls it).
OwnersKept ==
  [][\A a \in Account :
       row[a].owner # None => row'[a] = NoRow \/ row'[a].owner = row[a].owner]_vars

\* Every call of the API and every job comes to an end, also one that is refused
\* after it has refreshed (imap.service.ts:304).
EveryCallEnds == \A p \in Actor : []<>Is(p, "idle")

\* Once the file holds a credential the server accepts, and the worker knows the
\* account, the account is connected again and again: neither stale copies in memory
\* nor backoffs nor late failures keep it out.
Usable(a) ==
  /\ file[a] # Missing /\ Accepts(file[a], a)
  /\ Exists(a) /\ memory["worker"][a] # Missing
Recovers == \A a \in Account : <>[]Usable(a) => []<>(row[a].status = "connected")

\* docs/current-snapshot.md:213: "IMAP test -> persist credentials + Postgres".  When
\* no call is under way every stored credential belongs to an account. It does not hold, see
\* the known limits in the README.
TestedBeforeStored ==
  (\A p \in Call : Is(p, "idle")) => \A a \in Account : file[a] # Missing => Exists(a)

\* account.service.ts:136: "Exponential backoff for connection/auth failures." It does not
\* hold, see the known limits in the README.
FailuresBackOff ==
  [][\A p \in Job :
       Is(p, "sync") /\ (At(p, "refresh") \/ At(p, "connect")) /\ row'[task[p].acct].status = "error"
         => row'[task[p].acct].held]_vars
=============================================================================
