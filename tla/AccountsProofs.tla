--------------------------- MODULE AccountsProofs ---------------------------
(* Proofs about Accounts: whose account it is, and that whoever talks to a server has a
   credential to do it with. *)
EXTENDS Accounts, TLAPS

RowSet == [owner : User \cup {None}, held : BOOLEAN,
           status : {"none", "disconnected", "syncing", "connected", "error", "needs_reauth"}]
TaskSet == [op : {"idle", "save", "check", "remove", "sync", "plan"},
            user : User \cup {None}, acct : Account \cup {None}]

Saves(p) == task[p].op = "save"

(* The strengthening: a save under way belongs to the user who owns the account,
   or to the only user who can come to own it. *)
Typed == row \in [Account -> RowSet] /\ task \in [Actor -> TaskSet]
Known == \A a \in Account : row[a].owner # None => a \in used
SavesOwned ==
  \A p \in Actor : Saves(p) =>
    /\ task[p].acct \in Account /\ task[p].acct \in used /\ task[p].user \in User
    /\ row[task[p].acct].owner \in {None, task[p].user}
SavesAgree ==
  \A p, q \in Actor : Saves(p) /\ Saves(q) /\ task[p].acct = task[q].acct => task[p].user = task[q].user
Inv == Typed /\ Known /\ SavesOwned /\ SavesAgree

(* What almost every step does: it starts no save and changes no owner. *)
NoNewSave == \A p \in Actor : task'[p] = task[p] \/ task'[p].op # "save"
OwnersSame == \A a \in Account : row'[a].owner = row[a].owner
Kept == \A a \in Account : row[a].owner # None => row'[a] = NoRow \/ row'[a].owner = row[a].owner

(* A step that starts no save, changes no owner and keeps the types is harmless. *)
LEMMA Harmless ==
  ASSUME Inv, Typed', NoNewSave, OwnersSame, used' = used
  PROVE  Inv' /\ Kept
  BY DEF Inv, Typed, Known, SavesOwned, SavesAgree, Saves, NoNewSave, OwnersSame, Kept

(* Rows are written where they exist, and only in status and backoff. *)
LEMMA RowWritten ==
  ASSUME Typed, NEW a, NEW s \in {"none", "disconnected", "syncing", "connected", "error", "needs_reauth"},
         NEW h \in BOOLEAN, Update(a, s, h)
  PROVE  row' \in [Account -> RowSet] /\ OwnersSame
<1>1. CASE a \in Account
  BY <1>1 DEF Typed, Update, Row, OwnersSame, RowSet, Exists
<1>2. CASE a \notin Account
  BY <1>2 DEF Typed, Update, Row, OwnersSame
<1> QED BY <1>1, <1>2

LEMMA StatusWritten ==
  ASSUME Typed, NEW a, NEW s \in {"none", "disconnected", "syncing", "connected", "error", "needs_reauth"},
         Status(a, s)
  PROVE  row' \in [Account -> RowSet] /\ OwnersSame
<1>1. CASE a \in Account
  BY <1>1 DEF Typed, Status, Update, Row, OwnersSame, RowSet, Exists
<1>2. CASE a \notin Account
  BY <1>2 DEF Typed, Status, Update, Row, OwnersSame
<1> QED BY <1>1, <1>2

LEMMA RowUnchanged ==
  ASSUME Typed, row' = row
  PROVE  row' \in [Account -> RowSet] /\ OwnersSame
  BY DEF Typed, OwnersSame

(* An actor that goes on keeps its task. *)
LEMMA BecomeKeeps ==
  ASSUME Typed, NEW p \in Actor, NEW r, Become(p, r)
  PROVE  task' \in [Actor -> TaskSet] /\ NoNewSave
  BY DEF Typed, Become, NoNewSave

LEMMA EndKeeps ==
  ASSUME Typed, NEW p \in Actor, End(p)
  PROVE  task' \in [Actor -> TaskSet] /\ NoNewSave
  BY DEF Typed, End, Turn, Nothing, For, NoNewSave, TaskSet

LEMMA TurnKeeps ==
  ASSUME Typed, NEW p \in Actor, NEW op \in {"check", "remove", "sync", "plan"},
         NEW u \in User \cup {None}, NEW a \in Account \cup {None}, NEW r, Turn(p, For(op, u, a), r)
  PROVE  task' \in [Actor -> TaskSet] /\ NoNewSave
  BY DEF Typed, Turn, For, NoNewSave, TaskSet

LEMMA DoneKeeps ==
  ASSUME Typed, NEW p \in Actor, Done(p)
  PROVE  task' \in [Actor -> TaskSet] /\ NoNewSave
  BY EndKeeps, TurnKeeps DEF Done

(* However a call or a job fails. *)
LEMMA FailKeeps ==
  ASSUME Typed, NEW p \in Actor, NEW loud \in BOOLEAN, NEW reauth, Fail(p, loud, reauth)
  PROVE  Typed' /\ NoNewSave /\ OwnersSame
<1>1. task' \in [Actor -> TaskSet] /\ NoNewSave
  BY DoneKeeps DEF Fail
<1>2. row' \in [Account -> RowSet] /\ OwnersSame
  <2> DEFINE a == task[p].acct
  <2>1. FailureRow(p, loud, reauth)
    BY DEF Fail
  <2>2. CASE Is(p, "sync")
    <3>1. Update(a, "error", Held(a, loud))
      BY <2>1, <2>2 DEF FailureRow, Is
    <3>2. Held(a, loud) \in BOOLEAN
      BY DEF Held
    <3> QED BY <3>1, <3>2, RowWritten
  <2>3. CASE ~Is(p, "sync")
    <3>1. Status(a, "error") \/ Status(a, "needs_reauth") \/ row' = row
      BY <2>1, <2>3 DEF FailureRow
    <3> QED BY <3>1, StatusWritten, RowUnchanged
  <2> QED BY <2>2, <2>3
<1> QED BY <1>1, <1>2 DEF Typed

(* The steps of a session, whoever runs it. *)
LEMMA SessionKeeps ==
  ASSUME Inv, NEW p \in Actor, Session(p) \/ Trouble(p)
  PROVE  Inv' /\ Kept
<1>1. Typed /\ used' = used
  BY DEF Inv, Session, Trouble, EnsureFresh, RefreshRefused, Refreshed, Load, Store, Accepted, Rejected,
         RefreshLost, Disconnected, world
<1>2. Typed' /\ NoNewSave /\ OwnersSame
  <2>1. CASE EnsureFresh(p)
    <3>1. Fail(p, TRUE, FALSE) \/ (row' = row /\ \E r : Become(p, r))
      BY <2>1 DEF EnsureFresh
    <3> QED BY <1>1, <3>1, FailKeeps, BecomeKeeps, RowUnchanged DEF Typed
  <2>2. CASE RefreshRefused(p)
    BY <1>1, <2>2, FailKeeps DEF RefreshRefused
  <2>3. CASE Refreshed(p)
    <3>1. row' = row /\ \E r : Become(p, r)
      BY <2>3 DEF Refreshed, Goto
    <3> QED BY <1>1, <3>1, BecomeKeeps, RowUnchanged DEF Typed
  <2>4. CASE Load(p)
    <3>1. row' = row /\ \E r : Become(p, r)
      BY <2>4 DEF Load
    <3> QED BY <1>1, <3>1, BecomeKeeps, RowUnchanged DEF Typed
  <2>5. CASE Store(p)
    <3>1. row' = row /\ (Done(p) \/ \E r : Become(p, r))
      BY <2>5 DEF Store
    <3> QED BY <1>1, <3>1, BecomeKeeps, DoneKeeps, RowUnchanged DEF Typed
  <2>6. CASE Accepted(p)
    <3>1. Pass(p)
      BY <2>6 DEF Accepted
    <3>2. CASE Is(p, "sync")
      <4>1. Update(task[p].acct, "connected", FALSE) /\ End(p)
        BY <3>1, <3>2 DEF Pass, Is
      <4> QED BY <1>1, <4>1, EndKeeps, RowWritten DEF Typed
    <3>3. CASE Is(p, "check")
      BY <1>1, <3>1, <3>3, EndKeeps, StatusWritten DEF Pass, Typed, Is
    <3>4. CASE ~Is(p, "sync") /\ ~Is(p, "check")
      <4>1. row' = row /\ \E r : Become(p, r)
        BY <3>1, <3>4 DEF Pass
      <4> QED BY <1>1, <4>1, BecomeKeeps, RowUnchanged DEF Typed
    <3> QED BY <3>2, <3>3, <3>4
  <2>7. CASE Rejected(p)
    <3>1. (\E loud \in BOOLEAN : \E reauth : Fail(p, loud, reauth)) \/ (row' = row /\ \E r : Become(p, r))
      BY <2>7 DEF Rejected
    <3> QED BY <1>1, <3>1, FailKeeps, BecomeKeeps, RowUnchanged DEF Typed
  <2>8. CASE RefreshLost(p)
    BY <1>1, <2>8, FailKeeps DEF RefreshLost
  <2>9. CASE Disconnected(p)
    <3>1. (~act[p].again) \in BOOLEAN
      OBVIOUS
    <3> QED BY <1>1, <2>9, <3>1, FailKeeps DEF Disconnected
  <2> QED BY <2>1, <2>2, <2>3, <2>4, <2>5, <2>6, <2>7, <2>8, <2>9 DEF Session, Trouble
<1> QED BY <1>1, <1>2, Harmless

(* Calls of the API. *)
LEMMA CreateKeeps ==
  ASSUME Inv, NEW p \in Actor, NEW u \in User, NEW a \in Account, Create(p, u, a)
  PROVE  Inv' /\ Kept
<1>1. /\ task' = [task EXCEPT ![p] = For("save", u, a)] /\ row' = row
      /\ used' = used \cup {a} /\ a \notin used
  BY DEF Create, Turn
<1>2. Typed'
  BY <1>1 DEF Inv, Typed, For, TaskSet
<1>3. task'[p] = For("save", u, a) /\ \A q \in Actor \ {p} : task'[q] = task[q]
  BY <1>1 DEF Inv, Typed
<1>4. row[a].owner = None
  BY <1>1 DEF Inv, Known
<1>5. SavesOwned' /\ SavesAgree'
  BY <1>1, <1>3, <1>4 DEF Inv, SavesOwned, SavesAgree, Saves, For
<1> QED BY <1>1, <1>2, <1>5 DEF Inv, Known, Kept

LEMMA AskKeeps ==
  ASSUME Inv, NEW p \in Actor, NEW u \in User, NEW a \in Account, Ask(p, u, a)
  PROVE  Inv' /\ Kept
<1>1. row' = row /\ used' = used /\ row[a].owner = u /\ u # None /\ Typed
  BY ConstantsAssumption DEF Ask, Inv
<1>2. \/ task' = [task EXCEPT ![p] = For("save", u, a)]
      \/ \E op \in {"check", "remove"} : \E r : Turn(p, For(op, u, a), r)
  BY DEF Ask, Request, Turn
<1>3. CASE task' = [task EXCEPT ![p] = For("save", u, a)]
  <2>1. Typed'
    BY <1>1, <1>3 DEF Typed, For, TaskSet
  <2>2. task'[p] = For("save", u, a) /\ \A q \in Actor \ {p} : task'[q] = task[q]
    BY <1>1, <1>3 DEF Typed
  <2>3. \A q \in Actor : Saves(q) /\ task[q].acct = a => task[q].user = u
    BY <1>1 DEF Inv, SavesOwned
  <2>4. a \in used
    BY <1>1 DEF Inv, Known
  <2>5. SavesOwned' /\ SavesAgree'
    BY <1>1, <2>2, <2>3, <2>4 DEF Inv, SavesOwned, SavesAgree, Saves, For
  <2> QED BY <1>1, <2>1, <2>5 DEF Inv, Known, Kept
<1>4. CASE \E op \in {"check", "remove"} : \E r : Turn(p, For(op, u, a), r)
  BY <1>1, <1>4, TurnKeeps, RowUnchanged, Harmless DEF Typed
<1> QED BY <1>2, <1>3, <1>4

LEMMA WriteRowKeeps ==
  ASSUME Inv, NEW p \in Actor, WriteRow(p)
  PROVE  Inv' /\ Kept
<1> DEFINE a == task[p].acct
<1> DEFINE u == task[p].user
<1>1. Typed /\ used' = used
  BY DEF Inv, WriteRow, world
<1>2. CASE Is(p, "save")
  <2>1. Saves(p) /\ a \in Account /\ a \in used /\ u \in User /\ row[a].owner \in {None, u}
    BY <1>2 DEF Is, Saves, Inv, SavesOwned
  <2>2. row' = [row EXCEPT ![a] = Row(u, "connected", FALSE)] /\ task' = task
    BY <1>2 DEF WriteRow, Is, Goto, Become
  <2>3. Typed'
    BY <1>1, <2>1, <2>2 DEF Typed, Row, RowSet
  <2>4. row'[a].owner = u /\ \A b \in Account \ {a} : row'[b] = row[b]
    BY <1>1, <2>1, <2>2 DEF Typed, Row
  <2>5. \A q \in Actor : Saves(q) /\ task[q].acct = a => task[q].user = u
    BY <2>1 DEF Inv, SavesAgree
  <2>6. Known' /\ Kept
    BY <1>1, <2>1, <2>4 DEF Inv, Known, Kept
  <2>7. SavesOwned' /\ SavesAgree'
    BY <1>1, <2>1, <2>2, <2>4, <2>5 DEF Inv, SavesOwned, SavesAgree, Saves
  <2> QED BY <2>3, <2>6, <2>7 DEF Inv
<1>3. CASE Is(p, "remove")
  <2>1. task' \in [Actor -> TaskSet] /\ NoNewSave
    BY <1>1, <1>3, EndKeeps DEF WriteRow, Is
  <2>2. row' = [row EXCEPT ![a] = NoRow] \/ row' = row
    BY <1>3 DEF WriteRow, Is
  <2>3. NoRow \in RowSet /\ NoRow.owner = None
    BY DEF NoRow, Row, RowSet
  <2>4. row' \in [Account -> RowSet] /\ \A b \in Account : row'[b] = NoRow \/ row'[b] = row[b]
    BY <1>1, <2>2, <2>3 DEF Typed
  <2> QED BY <1>1, <2>1, <2>3, <2>4 DEF Inv, Typed, Known, Kept, SavesOwned, SavesAgree, Saves, NoNewSave
<1> QED BY <1>2, <1>3 DEF WriteRow

(* Jobs of the worker and restarts. *)
LEMMA WorkerKeeps ==
  ASSUME Inv, NEW p \in Actor,
         \/ \E a \in Account : TickSync(p, a) \/ ManualSync(p, a)
         \/ BeginSync(p) \/ Plan(p) \/ Pick(p)
  PROVE  Inv' /\ Kept
<1>1. Typed /\ used' = used
  BY DEF Inv, TickSync, ManualSync, Reload, BeginSync, Plan, Pick, world
<1>2. Typed' /\ NoNewSave /\ OwnersSame
  <2>1. CASE \E a \in Account : TickSync(p, a) \/ ManualSync(p, a)
    <3>1. PICK a \in Account : Reload(p, a)
      BY <2>1 DEF TickSync, ManualSync
    <3>2. row' = row /\ (End(p) \/ \E r : Turn(p, For("sync", None, a), r))
      BY <3>1 DEF Reload
    <3> QED BY <1>1, <3>2, EndKeeps, TurnKeeps, RowUnchanged DEF Typed
  <2>2. CASE BeginSync(p)
    <3>1. Status(task[p].acct, "syncing") /\ (End(p) \/ \E r : Become(p, r))
      BY <2>2 DEF BeginSync, Goto
    <3> QED BY <1>1, <3>1, EndKeeps, BecomeKeeps, StatusWritten DEF Typed
  <2>3. CASE Plan(p)
    <3>1. row' = row /\ \E r : Turn(p, For("plan", None, None), r)
      BY <2>3 DEF Plan
    <3> QED BY <1>1, <3>1, TurnKeeps, RowUnchanged DEF Typed
  <2>4. CASE Pick(p)
    <3>1. row' = row /\ (End(p) \/ (\E r : Become(p, r)) \/ \E a \in Account : \E r : Turn(p, For("plan", None, a), r))
      BY <2>4 DEF Pick
    <3> QED BY <1>1, <3>1, EndKeeps, BecomeKeeps, TurnKeeps, RowUnchanged DEF Typed
  <2> QED BY <2>1, <2>2, <2>3, <2>4
<1> QED BY <1>1, <1>2, Harmless

LEMMA BootKeeps ==
  ASSUME Inv, NEW h \in Process, Boot(h)
  PROVE  Inv' /\ Kept
<1>1. Typed /\ used' = used
  BY DEF Inv, Boot
<1>2. task' \in [Actor -> TaskSet] /\ NoNewSave
  BY <1>1 DEF Boot, Typed, NoNewSave, Nothing, For, TaskSet
<1>3. \A a \in Account : row'[a] \in RowSet /\ row'[a].owner = row[a].owner
  <2> SUFFICES ASSUME NEW a \in Account PROVE row'[a] \in RowSet /\ row'[a].owner = row[a].owner
    OBVIOUS
  <2>1. row[a] \in RowSet
    BY <1>1 DEF Typed
  <2>2. \/ row'[a] = Row(row[a].owner, "disconnected", row[a].held)
        \/ row'[a] = Row(None, "disconnected", FALSE) /\ row[a] = NoRow
        \/ row'[a] = row[a]
    BY DEF Boot, Exists, Upserted
  <2>3. CASE row'[a] = Row(row[a].owner, "disconnected", row[a].held)
    BY <2>1, <2>3 DEF RowSet, Row
  <2>4. CASE row'[a] = Row(None, "disconnected", FALSE) /\ row[a] = NoRow
    <3>1. FALSE \in BOOLEAN
      OBVIOUS
    <3> QED BY <2>4, <3>1 DEF RowSet, Row, NoRow
  <2>5. CASE row'[a] = row[a]
    BY <2>1, <2>5
  <2> QED BY <2>2, <2>3, <2>4, <2>5
<1>4. row' \in [Account -> RowSet]
  BY <1>3 DEF Boot
<1> QED BY <1>1, <1>2, <1>3, <1>4, Harmless DEF Typed, OwnersSame

-----------------------------------------------------------------------------
LEMMA InitHolds == Init => Inv
<1> SUFFICES ASSUME Init PROVE Inv
  OBVIOUS
<1>1. PICK there \in SUBSET Account, u \in User : Start(there, u)
  <2>1. (CHOOSE u \in User : TRUE) \in User
    BY ConstantsAssumption
  <2> QED BY <2>1 DEF Init
<1>2. Typed
  BY <1>1 DEF Start, Typed, Row, NoRow, RowSet, Nothing, For, TaskSet
<1>3. \A p \in Actor : ~Saves(p)
  BY <1>1 DEF Start, Saves, Nothing, For
<1>4. Known
  BY <1>1 DEF Start, Known, Row, NoRow
<1> QED BY <1>2, <1>3, <1>4 DEF Inv, SavesOwned, SavesAgree

LEMMA StepKeeps == Inv /\ [Next]_vars => Inv' /\ Kept
<1> SUFFICES ASSUME Inv, [Next]_vars PROVE Inv' /\ Kept
  OBVIOUS
<1>1. CASE UNCHANGED vars
  BY <1>1, Harmless DEF vars, doing, world, Inv, Typed, NoNewSave, OwnersSame
<1>2. ASSUME NEW p \in Actor, Session(p) \/ Trouble(p) PROVE Inv' /\ Kept
  BY <1>2, SessionKeeps
<1>3. ASSUME NEW p \in Actor, Begin(p) \/ Answer(p) PROVE Inv' /\ Kept
  <2>1. row' = row /\ used' = used /\ (End(p) \/ \E r : Become(p, r)) /\ Typed
    BY <1>3 DEF Begin, Answer, world, Inv
  <2> QED BY <2>1, EndKeeps, BecomeKeeps, RowUnchanged, Harmless DEF Typed
<1>4. ASSUME NEW a \in Account, BackoffEnds(a) PROVE Inv' /\ Kept
  <2>1. Typed' /\ OwnersSame
    BY <1>4 DEF BackoffEnds, Inv, Typed, RowSet, OwnersSame, doing
  <2> QED BY <1>4, <2>1, Harmless DEF BackoffEnds, doing, world, NoNewSave
<1>5. ASSUME (\E a \in Account : Toggle(a)) \/ (\E c \in Grant : Revoke(c)) PROVE Inv' /\ Kept
  BY <1>5, Harmless DEF Toggle, Revoke, doing, Inv, Typed, NoNewSave, OwnersSame
<1>6. Call \subseteq Actor /\ Job \subseteq Actor
  BY DEF Actor
<1> QED
  BY <1>1, <1>2, <1>3, <1>4, <1>5, <1>6, CreateKeeps, AskKeeps, WriteRowKeeps, WorkerKeeps, BootKeeps
  DEF Next, Continue

(* For any number of accounts, users, calls and jobs: an account stays with its owner
   until its row is gone, whatever calls, syncs, refreshes and restarts are under way. *)
THEOREM AccountsStayWithOwners == Spec => OwnersKept
<1>1. Inv /\ [Next]_vars => [Kept]_vars
  BY StepKeeps
<1>2. Kept <=> \A a \in Account : row[a].owner # None => row'[a] = NoRow \/ row'[a].owner = row[a].owner
  BY DEF Kept
<1> QED
  BY InitHolds, StepKeeps, <1>1, <1>2, PTL DEF Spec, OwnersKept

-----------------------------------------------------------------------------
(* What the file, the copies and the actors hold. *)

Kept0 == Grant \cup {Missing}
Steps == {"idle", "begin", "test", "load", "store", "connect", "refresh", "row", "get", "pick"}
ActSet == [at : Steps, given : Kept0, prev : Kept0, cred : Kept0, again : BOOLEAN,
           goal : {"none", "persist", "connect", "delete"}, snap : Copies, todo : Copies]

(* Who has begun has an account, and a credential where it talks to a server; a token
   that is on its way to the file to be used there is one. *)
Doing(t, r) ==
  /\ r.at \notin {"idle", "pick"} => t.acct \in Account
  /\ r.at \in {"connect", "refresh"} => r.cred # Missing
  /\ r.at \in {"load", "store"} /\ r.goal = "connect" => r.cred # Missing

Stored == file \in Copies /\ memory \in [Process -> Copies]
Counted ==
  /\ granted \in 0 .. MaxGrant /\ refused \subseteq Grant
  /\ shut \subseteq Account /\ used \subseteq Account /\ events \in 0 .. MaxEvents
Acting == act \in [Actor -> ActSet] /\ \A p \in Actor : Doing(task[p], act[p])
HoldInv == Stored /\ Counted /\ Acting

LEMMA Constants ==
  /\ MaxGrant \in Nat /\ Missing = 0 /\ Missing \in Kept0 /\ Blank \in Copies
  /\ \A n \in 0 .. MaxGrant : n < MaxGrant => n + 1 \in Grant /\ n + 1 \in 0 .. MaxGrant
  /\ \A n \in Grant : n # Missing /\ n \in Kept0
  /\ \A p : Home(p) \in Process
  /\ Rest \in ActSet /\ Rest.at = "idle" /\ Rest.cred = Missing
BY ConstantsAssumption DEF Missing, Kept0, Blank, Copies, Grant, Home, Process, Rest, ActSet, Steps

LEMMA CopyWritten ==
  /\ \A f \in Copies, a \in Account, c \in Kept0 : [f EXCEPT ![a] = c] \in Copies
  /\ \A f \in Copies, a \in Account : f[a] \in Kept0
BY DEF Copies, Kept0

LEMMA PutTyped ==
  ASSUME Stored, NEW h \in Process, NEW a \in Account, NEW c \in Kept0, Put(h, a, c)
  PROVE  memory' \in [Process -> Copies]
BY DEF Stored, Put, Copies, Kept0

(* One actor goes on. *)
LEMMA Goes ==
  ASSUME Acting, NEW p \in Actor, NEW r \in ActSet, act' = [act EXCEPT ![p] = r],
         \A q \in Actor \ {p} : task'[q] = task[q], Doing(task'[p], r)
  PROVE  Acting'
<1>1. /\ act' \in [Actor -> ActSet] /\ act'[p] = r
      /\ \A q \in Actor \ {p} : act'[q] = act[q]
  BY DEF Acting
<1> QED BY <1>1 DEF Acting

LEMMA BecomeActs ==
  ASSUME Acting, NEW p \in Actor, NEW r \in ActSet, Become(p, r), Doing(task[p], r)
  PROVE  Acting'
<1>1. task' = task /\ act' = [act EXCEPT ![p] = r]
  BY DEF Become
<1> QED BY <1>1, Goes

LEMMA TurnActs ==
  ASSUME Typed, Acting, NEW p \in Actor, NEW t, NEW r \in ActSet, Turn(p, t, r), Doing(t, r)
  PROVE  Acting'
<1>1. /\ act' = [act EXCEPT ![p] = r] /\ task'[p] = t
      /\ \A q \in Actor \ {p} : task'[q] = task[q]
  BY DEF Turn, Typed
<1> QED BY <1>1, Goes

LEMMA EndActs ==
  ASSUME Typed, Acting, NEW p \in Actor, End(p)
  PROVE  Acting'
<1>1. Doing(Nothing, Rest)
  BY Constants DEF Doing
<1> QED BY <1>1, Constants, TurnActs DEF End

LEMMA DoneActs ==
  ASSUME Typed, Acting, NEW p \in Actor, Done(p)
  PROVE  Acting'
<1> DEFINE r == [Rest EXCEPT !.at = "pick", !.todo = act[p].todo]
<1>1. act[p].todo \in Copies
  BY DEF Acting, ActSet
<1>2. r \in ActSet /\ r.at = "pick"
  BY <1>1, Constants DEF ActSet, Steps
<1>3. Doing(For("plan", None, None), r)
  BY <1>2 DEF Doing
<1> HIDE DEF r
<1>4. End(p) \/ Turn(p, For("plan", None, None), r)
  BY DEF Done, r
<1> QED BY <1>2, <1>3, <1>4, EndActs, TurnActs

(* However a call or a job fails: what was in use before is in use again. *)
LEMMA RestoreStores ==
  ASSUME Stored, Acting, NEW p \in Actor, task[p].acct \in Account, Restore(p)
  PROVE  memory' \in [Process -> Copies]
<1>1. act[p].prev \in Kept0 /\ "api" \in Process
  BY DEF Acting, ActSet, Process
<1>2. memory' = memory \/ Put("api", task[p].acct, act[p].prev)
  BY DEF Restore
<1> QED BY <1>1, <1>2, PutTyped DEF Stored

LEMMA FailHolds ==
  ASSUME Typed, HoldInv, NEW p \in Actor, task[p].acct \in Account, NEW loud, NEW reauth,
         Fail(p, loud, reauth), file' = file
  PROVE  Stored' /\ Acting'
<1>1. Acting'
  BY DoneActs DEF Fail, HoldInv
<1>2. memory' \in [Process -> Copies]
  BY RestoreStores DEF Fail, HoldInv
<1> QED BY <1>1, <1>2 DEF HoldInv, Stored

(* The world spends an event, hands out a grant or refuses one. *)
LEMMA CountedKeeps ==
  ASSUME Counted,
         granted' = granted \/ (granted < MaxGrant /\ granted' = granted + 1),
         refused' \subseteq refused \cup Grant, shut' \subseteq shut \cup Account, used' \subseteq used \cup Account,
         events' = events \/ Event
  PROVE  Counted'
<1>1. granted' \in 0 .. MaxGrant
  BY Constants DEF Counted
<1>2. events' \in 0 .. MaxEvents
  BY ConstantsAssumption DEF Counted, Event
<1> QED BY <1>1, <1>2 DEF Counted

LEMMA CountedStill ==
  ASSUME Counted, UNCHANGED world
  PROVE  Counted'
BY DEF Counted, world

(* Where an actor is past its beginning, it has an account and a copy of its credential. *)
LEMMA Begun ==
  ASSUME HoldInv, NEW p \in Actor, act[p].at \notin {"idle", "pick"}
  PROVE  /\ task[p].acct \in Account /\ Credential(p) \in Kept0 /\ act[p] \in ActSet
<1>1. task[p].acct \in Account /\ act[p] \in ActSet
  BY DEF HoldInv, Acting, Doing
<1>2. memory[Home(p)] \in Copies
  BY Constants DEF HoldInv, Stored
<1> QED BY <1>1, <1>2, CopyWritten DEF Credential

(* The steps of a session. *)
LEMMA EnsureHolds ==
  ASSUME Typed, HoldInv, NEW p \in Actor, EnsureFresh(p)
  PROVE  HoldInv'
<1>1. /\ act[p].at = "test" /\ file' = file /\ UNCHANGED world
  BY DEF EnsureFresh, At
<1>2. Counted'
  BY <1>1, CountedStill DEF HoldInv
<1>3. CASE Fail(p, TRUE, FALSE)
  BY <1>1, <1>2, <1>3, Begun, FailHolds DEF HoldInv
<1>4. CASE ~Fail(p, TRUE, FALSE)
  <2>1. PICK next \in {"connect", "refresh"} :
          Become(p, [act[p] EXCEPT !.at = next, !.cred = Credential(p), !.goal = "connect"])
    BY <1>4 DEF EnsureFresh
  <2>2. memory' = memory /\ Credential(p) # Missing
    BY <1>4 DEF EnsureFresh
  <2> DEFINE r == [act[p] EXCEPT !.at = next, !.cred = Credential(p), !.goal = "connect"]
  <2>3. r \in ActSet /\ r.at = next /\ r.cred = Credential(p)
    BY <1>1, Begun DEF ActSet, Steps
  <2>4. Doing(task[p], r)
    BY <1>1, <2>2, <2>3, Begun DEF Doing
  <2> HIDE DEF r
  <2>5. Acting'
    BY <2>1, <2>3, <2>4, BecomeActs DEF HoldInv, r
  <2> QED BY <1>1, <1>2, <2>2, <2>5 DEF HoldInv, Stored
<1> QED BY <1>3, <1>4

LEMMA AnsweredHolds ==
  ASSUME Typed, HoldInv, NEW p \in Actor,
         RefreshRefused(p) \/ RefreshLost(p) \/ Disconnected(p)
  PROVE  HoldInv'
<1>1. act[p].at \in {"refresh", "connect"} /\ file' = file
  BY DEF RefreshRefused, RefreshLost, Disconnected, At
<1>2. \E loud : \E reauth : Fail(p, loud, reauth)
  BY DEF RefreshRefused, RefreshLost, Disconnected
<1>3. Counted'
  <2>1. CASE RefreshRefused(p)
    BY <2>1, CountedStill DEF HoldInv, RefreshRefused
  <2>2. CASE RefreshLost(p) \/ Disconnected(p)
    <3>1. /\ Event /\ granted' = granted /\ refused' \subseteq refused \cup Grant
          /\ shut' \subseteq shut \cup Account /\ used' \subseteq used \cup Account
      BY <2>2 DEF RefreshLost, Disconnected
    <3> QED BY <3>1, CountedKeeps DEF HoldInv
  <2> QED BY <2>1, <2>2
<1> QED BY <1>1, <1>2, <1>3, Begun, FailHolds DEF HoldInv

LEMMA RefreshedHolds ==
  ASSUME Typed, HoldInv, NEW p \in Actor, Refreshed(p)
  PROVE  HoldInv'
<1>1. act[p].at = "refresh" /\ file' = file /\ memory' = memory
  BY DEF Refreshed, At
<1>2. act[p] \in ActSet /\ act[p].cred # Missing /\ act[p].cred \in Kept0 /\ task[p].acct \in Account
  BY <1>1, Begun DEF HoldInv, Acting, Doing, ActSet
<1>3. act[p].cred \in Grant
  BY <1>2 DEF Kept0
<1>4. CASE Goto(p, "load") /\ UNCHANGED world
  <2> DEFINE r == [act[p] EXCEPT !.at = "load"]
  <2>1. r \in ActSet /\ r.at = "load" /\ r.cred = act[p].cred
    BY <1>2 DEF ActSet, Steps
  <2>2. Doing(task[p], r)
    BY <1>2, <2>1 DEF Doing
  <2> HIDE DEF r
  <2>3. Acting'
    BY <1>4, <2>1, <2>2, BecomeActs DEF HoldInv, Goto, r
  <2> QED BY <1>1, <1>4, <2>3, CountedStill DEF HoldInv, Stored
<1>5. CASE ~(Goto(p, "load") /\ UNCHANGED world)
  <2>1. /\ Event /\ granted < MaxGrant /\ granted' = granted + 1
        /\ refused' = refused \cup {act[p].cred} /\ UNCHANGED <<shut, used>>
        /\ Become(p, [act[p] EXCEPT !.at = "load", !.cred = granted'])
    BY <1>5 DEF Refreshed
  <2>2. granted' \in Grant /\ granted' # Missing /\ granted' \in Kept0
    BY <2>1, Constants DEF HoldInv, Counted
  <2> DEFINE r == [act[p] EXCEPT !.at = "load", !.cred = granted']
  <2>3. r \in ActSet /\ r.at = "load" /\ r.cred = granted'
    BY <1>2, <2>2 DEF ActSet, Steps
  <2>4. Doing(task[p], r)
    BY <1>2, <2>2, <2>3 DEF Doing
  <2> HIDE DEF r
  <2>5. Acting'
    BY <2>1, <2>3, <2>4, BecomeActs DEF HoldInv, r
  <2> QED BY <1>1, <1>3, <2>1, <2>5, CountedKeeps DEF HoldInv, Stored
<1> QED BY <1>4, <1>5

LEMMA LoadHolds ==
  ASSUME Typed, HoldInv, NEW p \in Actor, Load(p)
  PROVE  HoldInv'
<1> DEFINE r == [act[p] EXCEPT !.at = "store", !.snap = file]
<1>1. act[p].at = "load" /\ Become(p, r) /\ UNCHANGED <<file, memory, world>>
  BY DEF Load, At
<1>2. act[p] \in ActSet /\ task[p].acct \in Account /\ Doing(task[p], act[p])
  BY <1>1, Begun DEF HoldInv, Acting
<1>3. r \in ActSet /\ r.at = "store" /\ r.cred = act[p].cred /\ r.goal = act[p].goal
  BY <1>2 DEF ActSet, Steps, HoldInv, Stored
<1>4. Doing(task[p], r)
  BY <1>1, <1>2, <1>3 DEF Doing
<1> HIDE DEF r
<1>5. Acting'
  BY <1>1, <1>3, <1>4, BecomeActs DEF HoldInv
<1> QED BY <1>1, <1>5, CountedStill DEF HoldInv, Stored

LEMMA StoreHolds ==
  ASSUME Typed, HoldInv, NEW p \in Actor, Store(p)
  PROVE  HoldInv'
<1> DEFINE a == task[p].acct
           c == IF act[p].goal = "delete" THEN Missing ELSE act[p].cred
<1>1. /\ act[p].at = "store" /\ WriteFile(act[p].snap, a, c) /\ Put(Home(p), a, c) /\ UNCHANGED world
      /\ \/ Done(p)
         \/ act[p].goal = "connect" /\ Become(p, [act[p] EXCEPT !.at = "connect", !.snap = Blank])
         \/ Become(p, [act[p] EXCEPT !.at = "row", !.snap = Blank, !.goal = "none", !.cred = Missing])
  BY DEF Store, At
<1>2. act[p] \in ActSet /\ a \in Account /\ Doing(task[p], act[p])
  BY <1>1, Begun DEF HoldInv, Acting
<1>3. c \in Kept0 /\ act[p].snap \in Copies
  BY <1>2, Constants DEF ActSet
<1> HIDE DEF c
<1>4. Stored'
  <2>1. file' \in Copies
    BY <1>1, <1>2, <1>3, CopyWritten DEF WriteFile
  <2>2. memory' \in [Process -> Copies]
    BY <1>1, <1>2, <1>3, Constants, PutTyped DEF HoldInv
  <2> QED BY <2>1, <2>2 DEF Stored
<1>5. Acting'
  <2>1. CASE Done(p)
    BY <2>1, DoneActs DEF HoldInv
  <2>2. CASE act[p].goal = "connect" /\ Become(p, [act[p] EXCEPT !.at = "connect", !.snap = Blank])
    <3> DEFINE r == [act[p] EXCEPT !.at = "connect", !.snap = Blank]
    <3>1. r \in ActSet /\ r.at = "connect" /\ r.cred = act[p].cred
      BY <1>2, Constants DEF ActSet, Steps
    <3>2. Doing(task[p], r)
      BY <1>1, <1>2, <2>2, <3>1 DEF Doing
    <3> HIDE DEF r
    <3> QED BY <2>2, <3>1, <3>2, BecomeActs DEF HoldInv, r
  <2>3. CASE Become(p, [act[p] EXCEPT !.at = "row", !.snap = Blank, !.goal = "none", !.cred = Missing])
    <3> DEFINE r == [act[p] EXCEPT !.at = "row", !.snap = Blank, !.goal = "none", !.cred = Missing]
    <3>1. r \in ActSet /\ r.at = "row"
      BY <1>2, Constants DEF ActSet, Steps
    <3>2. Doing(task[p], r)
      BY <1>2, <3>1 DEF Doing
    <3> HIDE DEF r
    <3> QED BY <2>3, <3>1, <3>2, BecomeActs DEF HoldInv, r
  <2> QED BY <1>1, <2>1, <2>2, <2>3
<1> QED BY <1>1, <1>4, <1>5, CountedStill DEF HoldInv

LEMMA AcceptedHolds ==
  ASSUME Typed, HoldInv, NEW p \in Actor, Accepted(p)
  PROVE  HoldInv'
<1> DEFINE r == [act[p] EXCEPT !.at = "load", !.goal = "persist", !.cred = act[p].given]
<1>1. act[p].at = "connect" /\ UNCHANGED <<file, memory, world>> /\ (End(p) \/ Become(p, r))
  BY DEF Accepted, Pass, At
<1>2. act[p] \in ActSet /\ task[p].acct \in Account
  BY <1>1, Begun
<1>3. r \in ActSet /\ r.at = "load" /\ r.goal = "persist"
  BY <1>2 DEF ActSet, Steps
<1>4. Doing(task[p], r)
  BY <1>2, <1>3 DEF Doing
<1> HIDE DEF r
<1>5. Acting'
  BY <1>1, <1>3, <1>4, BecomeActs, EndActs DEF HoldInv
<1> QED BY <1>1, <1>5, CountedStill DEF HoldInv, Stored

LEMMA RejectedHolds ==
  ASSUME Typed, HoldInv, NEW p \in Actor, Rejected(p)
  PROVE  HoldInv'
<1> DEFINE r == [act[p] EXCEPT !.at = "refresh", !.cred = Credential(p), !.again = TRUE]
<1>1. act[p].at = "connect" /\ UNCHANGED <<file, world>>
  BY DEF Rejected, At
<1>2. Counted'
  BY <1>1, CountedStill DEF HoldInv
<1>3. \/ \E loud : \E reauth : Fail(p, loud, reauth)
      \/ Credential(p) # Missing /\ Become(p, r) /\ memory' = memory
  BY DEF Rejected
<1>4. CASE \E loud : \E reauth : Fail(p, loud, reauth)
  BY <1>1, <1>2, <1>4, Begun, FailHolds DEF HoldInv
<1>5. CASE Credential(p) # Missing /\ Become(p, r) /\ memory' = memory
  <2>1. act[p] \in ActSet /\ task[p].acct \in Account /\ Credential(p) \in Kept0
    BY <1>1, Begun
  <2>2. r \in ActSet /\ r.at = "refresh" /\ r.cred = Credential(p)
    BY <2>1 DEF ActSet, Steps
  <2>3. Doing(task[p], r)
    BY <1>5, <2>1, <2>2 DEF Doing
  <2> HIDE DEF r
  <2>4. Acting'
    BY <1>5, <2>2, <2>3, BecomeActs DEF HoldInv
  <2> QED BY <1>1, <1>2, <1>5, <2>4 DEF HoldInv, Stored
<1> QED BY <1>3, <1>4, <1>5

(* The other steps of the calls and jobs. *)
LEMMA CallHolds ==
  ASSUME Typed, HoldInv, NEW p \in Actor, Begin(p) \/ WriteRow(p) \/ Answer(p)
  PROVE  HoldInv'
<1>1. act[p].at \in {"begin", "row", "get"} /\ UNCHANGED <<file, world>>
  BY DEF Begin, WriteRow, Answer, At
<1>2. act[p] \in ActSet /\ task[p].acct \in Account /\ Credential(p) \in Kept0
  BY <1>1, Begun
<1>3. Counted'
  BY <1>1, CountedStill DEF HoldInv
<1>4. CASE Begin(p)
  <2> DEFINE r == [act[p] EXCEPT !.at = "test", !.prev = Credential(p)]
  <2>1. Put("api", task[p].acct, act[p].given) /\ Become(p, r)
    BY <1>4 DEF Begin
  <2>2. r \in ActSet /\ r.at = "test"
    BY <1>2 DEF ActSet, Steps
  <2>3. Doing(task[p], r)
    BY <1>2, <2>2 DEF Doing
  <2> HIDE DEF r
  <2>4. Acting'
    BY <2>1, <2>2, <2>3, BecomeActs DEF HoldInv
  <2>5. act[p].given \in Kept0 /\ "api" \in Process
    BY <1>2 DEF ActSet, Process
  <2>6. memory' \in [Process -> Copies]
    BY <1>2, <2>1, <2>5, PutTyped DEF HoldInv
  <2> QED BY <1>1, <1>3, <2>4, <2>6 DEF HoldInv, Stored
<1>5. CASE WriteRow(p)
  <2> DEFINE r == [act[p] EXCEPT !.at = "get"]
  <2>1. memory' = memory /\ (End(p) \/ Become(p, r))
    BY <1>5 DEF WriteRow, Goto
  <2>2. r \in ActSet /\ r.at = "get"
    BY <1>2 DEF ActSet, Steps
  <2>3. Doing(task[p], r)
    BY <1>2, <2>2 DEF Doing
  <2> HIDE DEF r
  <2>4. Acting'
    BY <2>1, <2>2, <2>3, BecomeActs, EndActs DEF HoldInv
  <2> QED BY <1>1, <1>3, <2>1, <2>4 DEF HoldInv, Stored
<1>6. CASE Answer(p)
  <2>1. memory' = memory \/ Restore(p)
    BY <1>6 DEF Answer
  <2>2. memory' \in [Process -> Copies]
    BY <1>2, <2>1, RestoreStores DEF HoldInv, Stored
  <2>3. Acting'
    BY <1>6, EndActs DEF Answer, HoldInv
  <2> QED BY <1>1, <1>3, <2>2, <2>3 DEF HoldInv, Stored
<1> QED BY <1>4, <1>5, <1>6

LEMMA CreateHolds ==
  ASSUME Typed, HoldInv, NEW p \in Actor, NEW u \in User, NEW a \in Account, Create(p, u, a)
  PROVE  HoldInv'
<1> DEFINE r == [Rest EXCEPT !.at = "test", !.given = granted']
<1>1. /\ Event /\ granted < MaxGrant /\ granted' = granted + 1 /\ used' = used \cup {a}
      /\ UNCHANGED <<file, refused, shut>>
      /\ Put("api", a, granted') /\ Turn(p, For("save", u, a), r)
  BY DEF Create
<1>2. granted' \in Kept0 /\ "api" \in Process
  BY <1>1, Constants DEF HoldInv, Counted, Process
<1>3. r \in ActSet /\ r.at = "test"
  BY <1>2, Constants DEF ActSet, Steps
<1>4. Doing(For("save", u, a), r)
  BY <1>3 DEF Doing, For
<1> HIDE DEF r
<1>5. Acting'
  BY <1>1, <1>3, <1>4, TurnActs DEF HoldInv
<1>6. Stored'
  BY <1>1, <1>2, PutTyped DEF HoldInv, Stored
<1>7. refused' \subseteq refused \cup Grant /\ shut' \subseteq shut \cup Account /\ used' \subseteq used \cup Account
  BY <1>1
<1>8. Counted'
  BY <1>1, <1>7, CountedKeeps DEF HoldInv
<1> QED BY <1>5, <1>6, <1>8 DEF HoldInv

LEMMA AskHolds ==
  ASSUME Typed, HoldInv, NEW p \in Actor, NEW u \in User, NEW a \in Account, Ask(p, u, a)
  PROVE  HoldInv'
<1>1. /\ Event /\ UNCHANGED <<file, memory>> /\ Request(p, u, a)
      /\ refused' \subseteq refused \cup Grant /\ shut' \subseteq shut \cup Account /\ used' \subseteq used \cup Account
  BY DEF Ask
<1>2. granted' = granted \/ (granted < MaxGrant /\ granted' = granted + 1)
  BY <1>1 DEF Request
<1>3. Counted'
  BY <1>1, <1>2, CountedKeeps DEF HoldInv
<1>4. granted' \in Kept0
  BY <1>3 DEF Counted, Kept0, Grant, Missing
<1>5. \E op \in {"save", "check", "remove"}, r \in ActSet :
        Turn(p, For(op, u, a), r) /\ r.at \in {"begin", "test", "load"} /\ (r.at = "load" => r.goal = "delete")
  <2>1. CASE Turn(p, For("save", u, a), [Rest EXCEPT !.at = "begin", !.given = granted'])
    <3> DEFINE r == [Rest EXCEPT !.at = "begin", !.given = granted']
    <3>1. r \in ActSet /\ r.at = "begin"
      BY <1>4, Constants DEF ActSet, Steps
    <3> HIDE DEF r
    <3> QED BY <2>1, <3>1 DEF r
  <2>2. CASE Turn(p, For("check", u, a), [Rest EXCEPT !.at = "test"])
    <3> DEFINE r == [Rest EXCEPT !.at = "test"]
    <3>1. r \in ActSet /\ r.at = "test"
      BY Constants DEF ActSet, Steps
    <3> HIDE DEF r
    <3> QED BY <2>2, <3>1 DEF r
  <2>3. CASE Turn(p, For("remove", u, a), [Rest EXCEPT !.at = "load", !.goal = "delete"])
    <3> DEFINE r == [Rest EXCEPT !.at = "load", !.goal = "delete"]
    <3>1. r \in ActSet /\ r.at = "load" /\ r.goal = "delete"
      BY Constants DEF ActSet, Steps
    <3> HIDE DEF r
    <3> QED BY <2>3, <3>1 DEF r
  <2> QED BY <1>1, <2>1, <2>2, <2>3 DEF Request
<1>6. PICK op \in {"save", "check", "remove"}, r \in ActSet :
        Turn(p, For(op, u, a), r) /\ r.at \in {"begin", "test", "load"} /\ (r.at = "load" => r.goal = "delete")
  BY <1>5
<1>7. Doing(For(op, u, a), r)
  BY <1>6 DEF Doing, For
<1>8. Acting'
  BY <1>6, <1>7, TurnActs DEF HoldInv
<1> QED BY <1>1, <1>3, <1>8 DEF HoldInv, Stored

LEMMA ReloadHolds ==
  ASSUME Typed, HoldInv, NEW p \in Actor, NEW a \in Account, TickSync(p, a) \/ ManualSync(p, a)
  PROVE  HoldInv'
<1> DEFINE r == [Rest EXCEPT !.at = "begin"]
<1>1. /\ UNCHANGED <<file, granted>> /\ (events' = events \/ Event)
      /\ Put("worker", a, file[a]) /\ (End(p) \/ Turn(p, For("sync", None, a), r))
      /\ refused' \subseteq refused \cup Grant /\ shut' \subseteq shut \cup Account /\ used' \subseteq used \cup Account
  BY DEF TickSync, ManualSync, Reload
<1>2. r \in ActSet /\ r.at = "begin"
  BY Constants DEF ActSet, Steps
<1>3. Doing(For("sync", None, a), r)
  BY <1>2 DEF Doing, For
<1> HIDE DEF r
<1>4. Acting'
  BY <1>1, <1>2, <1>3, TurnActs, EndActs DEF HoldInv
<1>5. file[a] \in Kept0 /\ "worker" \in Process
  BY CopyWritten DEF HoldInv, Stored, Process
<1>6. Stored'
  BY <1>1, <1>5, PutTyped DEF HoldInv, Stored
<1>7. Counted'
  BY <1>1, CountedKeeps DEF HoldInv
<1> QED BY <1>4, <1>6, <1>7 DEF HoldInv

LEMMA BeginSyncHolds ==
  ASSUME Typed, HoldInv, NEW p \in Actor, BeginSync(p)
  PROVE  HoldInv'
<1> DEFINE r == [act[p] EXCEPT !.at = "test"]
<1>1. act[p].at = "begin" /\ UNCHANGED <<file, memory, world>> /\ (End(p) \/ Become(p, r))
  BY DEF BeginSync, Goto, At
<1>2. act[p] \in ActSet /\ task[p].acct \in Account
  BY <1>1, Begun
<1>3. r \in ActSet /\ r.at = "test"
  BY <1>2 DEF ActSet, Steps
<1>4. Doing(task[p], r)
  BY <1>2, <1>3 DEF Doing
<1> HIDE DEF r
<1>5. Acting'
  BY <1>1, <1>3, <1>4, BecomeActs, EndActs DEF HoldInv
<1> QED BY <1>1, <1>5, CountedStill DEF HoldInv, Stored

(* The refresh job: its list is a copy of the memory, and what it picks is not missing. *)
LEMMA PlanHolds ==
  ASSUME Typed, HoldInv, NEW p \in Actor, Plan(p) \/ Pick(p)
  PROVE  HoldInv'
<1>1. UNCHANGED <<file, memory, world>>
  BY DEF Plan, Pick
<1>2. act[p] \in ActSet /\ memory["worker"] \in Copies
  BY DEF HoldInv, Acting, Stored, Process
<1>3. Acting'
  <2>1. CASE Plan(p)
    <3> DEFINE r == [Rest EXCEPT !.at = "pick", !.todo = memory["worker"]]
    <3>1. r \in ActSet /\ r.at = "pick"
      BY <1>2, Constants DEF ActSet, Steps
    <3>2. Doing(For("plan", None, None), r)
      BY <3>1 DEF Doing
    <3> HIDE DEF r
    <3> QED BY <2>1, <3>1, <3>2, TurnActs DEF Plan, HoldInv, r
  <2>2. CASE Pick(p)
    <3>1. PICK a \in Account :
            LET rest == [act[p].todo EXCEPT ![a] = Missing] IN
            /\ act[p].todo[a] # Missing
            /\ \/ IF rest = Blank THEN End(p) ELSE Become(p, [act[p] EXCEPT !.todo = rest])
               \/ /\ a \in OAuth
                  /\ Turn(p, For("plan", None, a),
                          [act[p] EXCEPT !.at = "refresh", !.cred = act[p].todo[a], !.todo = rest])
      BY <2>2 DEF Pick
    <3> DEFINE rest == [act[p].todo EXCEPT ![a] = Missing]
               c == act[p].todo[a]
               skip == [act[p] EXCEPT !.todo = rest]
               take == [act[p] EXCEPT !.at = "refresh", !.cred = c, !.todo = rest]
    <3>2. rest \in Copies /\ c \in Kept0 /\ c # Missing
      BY <1>2, <3>1, Constants, CopyWritten DEF ActSet
    <3> HIDE DEF rest, c
    <3>3. skip \in ActSet /\ skip.at = act[p].at
      BY <1>2, <3>2 DEF ActSet
    <3>4. take \in ActSet /\ take.at = "refresh" /\ take.cred = c
      BY <1>2, <3>2 DEF ActSet, Steps
    <3>5. Doing(task[p], skip)
      BY <2>2, <3>3 DEF Doing, Pick, At
    <3>6. Doing(For("plan", None, a), take)
      BY <3>2, <3>4 DEF Doing, For
    <3>7. End(p) \/ Become(p, skip) \/ Turn(p, For("plan", None, a), take)
      BY <3>1 DEF rest, c
    <3> HIDE DEF skip, take
    <3> QED BY <3>3, <3>4, <3>5, <3>6, <3>7, EndActs, BecomeActs, TurnActs DEF HoldInv
  <2> QED BY <2>1, <2>2
<1> QED BY <1>1, <1>3, CountedStill DEF HoldInv, Stored

(* A process that starts reads the file and knows nothing else. *)
LEMMA BootHolds ==
  ASSUME Typed, HoldInv, NEW h \in Process, Boot(h)
  PROVE  HoldInv'
<1>1. /\ Event /\ file' = file /\ granted' = granted
      /\ memory' = [memory EXCEPT ![h] = file]
      /\ task' = [p \in Actor |-> IF Home(p) = h THEN Nothing ELSE task[p]]
      /\ act' = [p \in Actor |-> IF Home(p) = h THEN Rest ELSE act[p]]
      /\ refused' \subseteq refused \cup Grant /\ shut' \subseteq shut \cup Account /\ used' \subseteq used \cup Account
  BY DEF Boot
<1>2. Stored'
  BY <1>1 DEF HoldInv, Stored
<1>3. Counted'
  BY <1>1, CountedKeeps DEF HoldInv
<1>4. Doing(Nothing, Rest)
  BY Constants DEF Doing
<1>5. Acting'
  BY <1>1, <1>4, Constants DEF HoldInv, Acting
<1> QED BY <1>2, <1>3, <1>5 DEF HoldInv

LEMMA HoldStep ==
  ASSUME Inv, HoldInv, [Next]_vars
  PROVE  HoldInv'
<1>1. Typed
  BY DEF Inv
<1>2. ASSUME NEW p \in Actor, Continue(p) \/ Trouble(p) \/ Plan(p) PROVE HoldInv'
  BY <1>1, <1>2, EnsureHolds, AnsweredHolds, RefreshedHolds, LoadHolds, StoreHolds, AcceptedHolds,
     RejectedHolds, CallHolds, BeginSyncHolds, PlanHolds DEF Continue, Session, Trouble
<1>3. ASSUME NEW p \in Call, NEW u \in User, NEW a \in Account, Create(p, u, a) \/ Ask(p, u, a) PROVE HoldInv'
  <2>1. p \in Actor
    BY DEF Actor
  <2> QED BY <1>1, <1>3, <2>1, CreateHolds, AskHolds
<1>4. ASSUME NEW p \in Job, NEW a \in Account, TickSync(p, a) \/ ManualSync(p, a) PROVE HoldInv'
  <2>1. p \in Actor
    BY DEF Actor
  <2> QED BY <1>1, <1>4, <2>1, ReloadHolds
<1>5. ASSUME NEW a \in Account, BackoffEnds(a) \/ Toggle(a) PROVE HoldInv'
  <2>1. UNCHANGED <<file, memory, doing, granted>> /\ (events' = events \/ Event)
    BY <1>5 DEF BackoffEnds, Toggle, world
  <2>2. refused' \subseteq refused \cup Grant /\ shut' \subseteq shut \cup Account /\ used' \subseteq used \cup Account
    BY <1>5 DEF BackoffEnds, Toggle, world
  <2>3. Counted'
    BY <2>1, <2>2, CountedKeeps DEF HoldInv
  <2> QED BY <2>1, <2>3 DEF HoldInv, Stored, Acting, doing
<1>6. ASSUME NEW h \in Process, Boot(h) PROVE HoldInv'
  BY <1>1, <1>6, BootHolds
<1>7. ASSUME NEW c \in Grant, Revoke(c) PROVE HoldInv'
  <2>1. UNCHANGED <<file, memory, doing, granted>> /\ Event
    BY <1>7 DEF Revoke
  <2>2. refused' \subseteq refused \cup Grant /\ shut' \subseteq shut \cup Account /\ used' \subseteq used \cup Account
    BY <1>7 DEF Revoke
  <2>3. Counted'
    BY <2>1, <2>2, CountedKeeps DEF HoldInv
  <2> QED BY <2>1, <2>3 DEF HoldInv, Stored, Acting, doing
<1>8. CASE UNCHANGED vars
  BY <1>8, CountedStill DEF vars, doing, HoldInv, Stored, Acting
<1> QED
  BY <1>2, <1>3, <1>4, <1>5, <1>6, <1>7, <1>8 DEF Next

LEMMA HoldInit == Init => HoldInv
<1> SUFFICES ASSUME Init PROVE HoldInv
  OBVIOUS
<1>1. PICK there \in SUBSET Account, u \in User : Start(there, u)
  <2>1. (CHOOSE u \in User : TRUE) \in User
    BY ConstantsAssumption
  <2> QED BY <2>1 DEF Init
<1> DEFINE given == [a \in Account |-> IF a \in there THEN 1 ELSE Missing]
<1>2. 1 \in Grant /\ 1 \in 0 .. MaxGrant /\ 0 \in 0 .. MaxGrant
  BY ConstantsAssumption DEF Grant
<1>3. given \in Copies
  BY <1>2 DEF Copies
<1>4. file = given /\ memory = [h \in Process |-> given]
  BY <1>1 DEF Start
<1> HIDE DEF given
<1>5. Stored
  BY <1>3, <1>4 DEF Stored
<1>6. Counted
  BY <1>1, <1>2, ConstantsAssumption DEF Start, Counted
<1>7. Doing(Nothing, Rest)
  BY Constants DEF Doing
<1>8. Acting
  BY <1>1, <1>7, Constants DEF Start, Acting
<1> QED BY <1>5, <1>6, <1>8 DEF HoldInv

LEMMA HoldsTypes == Inv /\ HoldInv => TypeOK
<1> SUFFICES ASSUME Inv, HoldInv PROVE TypeOK
  OBVIOUS
<1>1. /\ file \in Copies /\ memory \in [Process -> Copies]
      /\ granted \in 0 .. MaxGrant /\ refused \subseteq Grant /\ shut \subseteq Account
      /\ used \subseteq Account /\ events \in 0 .. MaxEvents
  BY DEF HoldInv, Stored, Counted
<1>2. row \in [Account -> [owner : User \cup {None}, held : BOOLEAN,
                status : {"none", "disconnected", "syncing", "connected", "error", "needs_reauth"}]]
  BY DEF Inv, Typed, RowSet
<1>3. \A p \in Actor :
        /\ task[p].op \in {"idle", "save", "check", "remove", "sync", "plan"}
        /\ act[p].snap \in Copies /\ act[p].todo \in Copies
        /\ act[p].at \in {"connect", "refresh"} => act[p].cred # Missing /\ task[p].acct \in Account
  <2> TAKE p \in Actor
  <2>1. act[p] \in ActSet /\ Doing(task[p], act[p])
    BY DEF HoldInv, Acting
  <2>2. task[p] \in TaskSet
    BY DEF Inv, Typed
  <2> QED BY <2>1, <2>2 DEF ActSet, TaskSet, Doing
<1> QED BY <1>1, <1>2, <1>3 DEF TypeOK

(* For any number of accounts, calls and jobs, and whatever is removed, reconnected or
   restarted meanwhile: whoever logs in or refreshes has a credential, although the file,
   the copies and what an actor holds are read and written at different times. *)
THEOREM CredentialsAreThere == Spec => []TypeOK
<1>1. Init => Inv /\ HoldInv
  BY InitHolds, HoldInit
<1>2. Inv /\ HoldInv /\ [Next]_vars => Inv' /\ HoldInv'
  BY StepKeeps, HoldStep
<1>3. Inv /\ HoldInv => TypeOK
  BY HoldsTypes
<1> QED BY <1>1, <1>2, <1>3, PTL DEF Spec
=============================================================================
