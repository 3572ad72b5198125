---------------------------- MODULE AuthSessions ----------------------------
(***************************************************************************)
(* Sign-in: auth_sessions in PostgreSQL (auth/prisma-auth.repository.ts),  *)
(* the API that issues and rotates refresh tokens, and one desktop: its    *)
(* windows, each with the session in memory (shared/api/client.ts), the    *)
(* account onboarding in the main process, and the one session file they   *)
(* share (electron/session-store.ts).  A session is the number of its      *)
(* refresh token; the access token issued with it is fresh until its 15  *)
(* minutes are over.                                                       *)
(***************************************************************************)
EXTENDS Integers

CONSTANTS
  Registrar,         \* connections that run register transactions
  AllowRegistration, \* ALLOW_REGISTRATION = 'true'
  Window,            \* windows of the desktop
  Request,           \* requests the windows make
  Home,              \* request -> its window
  Onboarding,        \* the onboarding service of the main process
  None,              \* nobody
  MaxToken,          \* bound: refresh tokens issued
  MaxEvents          \* bound: windows opened, lost answers, rows that expire, onboardings

ASSUME BoundsAssumption ==
  /\ MaxToken \in Nat \ {0} /\ MaxEvents \in Nat
  /\ Home \in [Request -> Window]
  /\ Onboarding \notin Window /\ None \notin Window \cup {Onboarding}

Token == 1 .. MaxToken
NoSession == 0
NoWrite == -1
Actor == Window \cup {Onboarding}

VARIABLES
  users,       \* number of rows in users
  registering, \* connection -> what its register transaction has counted
  owner,       \* of the accounts that had none: the user with this number
  live,        \* refresh tokens with a row in auth_sessions
  expired,     \* the last session whose access token has expired
  last,        \* the last refresh token issued
  login,       \* token -> the token of the login it descends from
  spentBy,     \* token -> who had it rotated
  memory,      \* window -> authSession
  ui,          \* window -> what it shows or waits for, and the session of that
  req,         \* request -> where it is
  refresh,     \* actor -> its refresh in flight (refreshPromise)
  ipc,         \* window -> what it has asked the main process to write to the file
  inbox,       \* window -> the session:updated on its way to it
  file,        \* auth-session.bin
  onb,         \* onboarding: where it is, and with which session
  events       \* events left

server == <<users, registering, owner>>
tokens == <<live, expired, last, login, spentBy>>
vars == <<server, tokens, memory, ui, req, refresh, ipc, inbox, file, onb, events>>

-----------------------------------------------------------------------------
(* Helpers *)

Page(p, t) == [page |-> p, of |-> t]
At(s, t) == [stage |-> s, of |-> t]
Idle == At("idle", NoSession)
Refused == At("refused", NoSession)
Lost == At("lost", NoSession)

Event == events > 0 /\ events' = events - 1
Shows(w, p) == ui[w].page = p
Show(w, p, t) == ui' = [ui EXCEPT ![w] = Page(p, t)]
Post(w, t) == ipc' = [ipc EXCEPT ![w] = t]

\* (mutant of Issue: the same token is issued again)
IssueAgain(t, root) ==
  /\ login' = [login EXCEPT ![t] = root]
  /\ UNCHANGED <<expired, last>>

\* session, buildSession: a row, a refresh token and an access token.
Issue(t, root) ==
  /\ last' = t
  /\ login' = [login EXCEPT ![t] = root]
  /\ UNCHANGED expired

Woken(w) == [r \in Request |-> IF Home[r] = w /\ req[r] = "waiting" THEN "rest" ELSE req[r]]

\* clearAuthSession and the unauthorized event; a logout under way goes on.
Drop(w, requests) ==
  /\ memory' = [memory EXCEPT ![w] = NoSession]
  /\ Post(w, NoSession)
  /\ ui' = [ui EXCEPT ![w] = IF Shows(w, "in") THEN Page("out", NoSession) ELSE @]
  /\ req' = requests

-----------------------------------------------------------------------------
(* Registration: one transaction under a lock on the users table *)

Count(p) == registering' = [registering EXCEPT ![p] = IF users = 0 THEN "first" ELSE "later"]

\* (mutant of RegisterBegin: without LOCK TABLE)
RegisterUnlocked(p) ==
  /\ registering[p] = "no"
  /\ users = 0
  /\ Count(p)
  /\ UNCHANGED <<users, owner, tokens, memory, ui, req, refresh, ipc, inbox, file, onb, events>>

RegisterBegin(p) ==
  /\ \A q \in Registrar : registering[q] = "no"
  /\ Count(p)
  /\ (users = 0 /\ UNCHANGED events) \/ (users > 0 /\ Event)
  /\ UNCHANGED <<users, owner, tokens, memory, ui, req, refresh, ipc, inbox, file, onb>>

\* The user is created, and claims the accounts without an owner if it is the first.
RegisterCommit(p) ==
  /\ registering[p] # "no"
  /\ registering' = [registering EXCEPT ![p] = "no"]
  /\ users' = IF registering[p] = "first" \/ AllowRegistration THEN users + 1 ELSE users
  /\ owner' = IF registering[p] = "first" /\ owner = 0 THEN users + 1 ELSE owner
  /\ UNCHANGED <<tokens, memory, ui, req, refresh, ipc, inbox, file, onb, events>>

-----------------------------------------------------------------------------
(* Signing in and out *)

\* api.login, api.register: the server creates the session, saveAuthSession keeps it.
Login(w) ==
  /\ Shows(w, "out")
  /\ users > 0
  /\ last < MaxToken
  /\ Issue(last + 1, last + 1)
  /\ live' = live \cup {last + 1}
  /\ memory' = [memory EXCEPT ![w] = last + 1]
  /\ Post(w, last + 1)
  /\ Show(w, "saving", last + 1)
  /\ UNCHANGED <<server, spentBy, req, refresh, inbox, file, onb, events>>

Authenticate(w) ==
  /\ Shows(w, "saving")
  /\ ipc[w] # ui[w].of
  /\ Show(w, "in", NoSession)
  /\ UNCHANGED <<server, tokens, memory, req, refresh, ipc, inbox, file, onb, events>>

\* AuthProvider.logout sends the session that is in memory.
Logout(w) ==
  /\ Shows(w, "in")
  /\ Show(w, "leaving", memory[w])
  /\ UNCHANGED <<server, tokens, memory, req, refresh, ipc, inbox, file, onb, events>>

\* The guard lets it through with a fresh access token only; a 401 is ignored.
\* clearAuthSession follows either way.
LogoutAnswered(w) ==
  /\ Shows(w, "leaving")
  /\ live' = IF ui[w].of > expired THEN live \ {ui[w].of} ELSE live
  /\ memory' = [memory EXCEPT ![w] = NoSession]
  /\ Post(w, NoSession)
  /\ Show(w, "out", NoSession)
  /\ UNCHANGED <<server, expired, last, login, spentBy, req, refresh, inbox, file, onb, events>>

-----------------------------------------------------------------------------
(* Requests of a window and the refresh they share *)

\* A request whose access token has expired is refused; any other changes nothing here.
Send(r) ==
  /\ req[r] = "rest"
  /\ Shows(Home[r], "in")
  /\ memory[Home[r]] \in 1 .. expired
  /\ req' = [req EXCEPT ![r] = "refused"]
  /\ UNCHANGED <<server, tokens, memory, ui, refresh, ipc, inbox, file, onb, events>>

\* The 401 arrives: join the refresh in flight, or start one with what is now in memory.
Unauthorized(r) ==
  LET w == Home[r]
  IN  /\ req[r] = "refused"
      /\ refresh[w] # Idle \/ memory[w] # NoSession
      /\ req' = [req EXCEPT ![r] = "waiting"]
      /\ refresh' = IF refresh[w] # Idle THEN refresh ELSE [refresh EXCEPT ![w] = At("sent", memory[w])]
      /\ UNCHANGED <<server, tokens, memory, ui, ipc, inbox, file, onb, events>>

\* No refresh token any more: clearAuthSession.
UnauthorizedOut(r) ==
  /\ req[r] = "refused"
  /\ refresh[Home[r]] = Idle /\ memory[Home[r]] = NoSession
  /\ Drop(Home[r], [req EXCEPT ![r] = "rest"])
  /\ UNCHANGED <<server, tokens, refresh, inbox, file, onb, events>>

\* rotateSession: the row is found, then deleted and replaced if it is still there.
RotateFind(a) ==
  /\ refresh[a].stage = "sent"
  /\ refresh' = [refresh EXCEPT ![a] = IF @.of \in live THEN At("found", @.of) ELSE Refused]
  /\ UNCHANGED <<server, tokens, memory, ui, req, ipc, inbox, file, onb, events>>

Rotate(a, t) ==
  /\ Issue(last + 1, login[t])
  /\ live' = (live \ {t}) \cup {last + 1}
  /\ spentBy' = [spentBy EXCEPT ![t] = a]
  /\ refresh' = [refresh EXCEPT ![a] = At("granted", last + 1)]

\* (mutant of RotateCommit: deletion.count is not looked at)
RotateUncounted(a) ==
  /\ refresh[a].stage = "found"
  /\ last < MaxToken
  /\ Rotate(a, refresh[a].of)
  /\ UNCHANGED <<server, memory, ui, req, ipc, inbox, file, onb, events>>

RotateCommit(a) ==
  /\ refresh[a].stage = "found"
  /\ last < MaxToken
  /\ IF refresh[a].of \in live
     THEN Rotate(a, refresh[a].of)
     ELSE /\ refresh' = [refresh EXCEPT ![a] = Refused]
          /\ UNCHANGED tokens
  /\ UNCHANGED <<server, memory, ui, req, ipc, inbox, file, onb, events>>

\* The request or its answer is lost, or the transaction fails.
RefreshLost(a) ==
  /\ refresh[a].stage \in {"sent", "found", "granted"}
  /\ Event \/ (last = MaxToken /\ UNCHANGED events)
  /\ refresh' = [refresh EXCEPT ![a] = Lost]
  /\ UNCHANGED <<server, tokens, memory, ui, req, ipc, inbox, file, onb>>

\* (mutant of SaveRefreshed: the file is written, the session in memory stays)
SaveToFileOnly(w) ==
  /\ refresh[w].stage = "granted"
  /\ Post(w, refresh[w].of)
  /\ refresh' = [refresh EXCEPT ![w].stage = "saving"]
  /\ UNCHANGED <<server, tokens, memory, ui, req, inbox, file, onb, events>>

\* saveAuthSession; refreshPromise is kept until the file is written.
SaveRefreshed(w) ==
  /\ refresh[w].stage = "granted"
  /\ memory' = [memory EXCEPT ![w] = refresh[w].of]
  /\ Post(w, refresh[w].of)
  /\ refresh' = [refresh EXCEPT ![w].stage = "saving"]
  /\ UNCHANGED <<server, tokens, ui, req, inbox, file, onb, events>>

\* Every request that waits is sent once more; what that one answers is final.
Refreshed(w) ==
  /\ refresh[w].stage = "saving"
  /\ ipc[w] # refresh[w].of
  /\ refresh' = [refresh EXCEPT ![w] = Idle]
  /\ req' = Woken(w)
  /\ UNCHANGED <<server, tokens, memory, ui, ipc, inbox, file, onb, events>>

\* (mutant of RefreshFailed: the requests that wait are forgotten)
RefreshFailedSilently(w) ==
  /\ refresh[w] \in {Refused, Lost}
  /\ refresh' = [refresh EXCEPT ![w] = Idle]
  /\ Drop(w, req)
  /\ UNCHANGED <<server, tokens, inbox, file, onb, events>>

\* Refused or lost: every request that waits clears the session.
RefreshFailed(w) ==
  /\ refresh[w] \in {Refused, Lost}
  /\ refresh' = [refresh EXCEPT ![w] = Idle]
  /\ Drop(w, Woken(w))
  /\ UNCHANGED <<server, tokens, inbox, file, onb, events>>

-----------------------------------------------------------------------------
(* The main process *)

HandleIpc(w) ==
  /\ ipc[w] # NoWrite
  /\ file' = ipc[w]
  /\ ipc' = [ipc EXCEPT ![w] = NoWrite]
  /\ UNCHANGED <<server, tokens, memory, ui, req, refresh, inbox, onb, events>>

\* persist, ensureSession: an access token that has 60 seconds or less left is refreshed.
OnboardingStart ==
  /\ onb = Idle
  /\ file # NoSession
  /\ Event
  /\ \/ /\ onb' = At("ensuring", NoSession)
        /\ refresh' = [refresh EXCEPT ![Onboarding] = At("sent", file)]
     \/ /\ file > expired
        /\ onb' = At("request", file)
        /\ UNCHANGED refresh
  /\ UNCHANGED <<server, tokens, memory, ui, req, ipc, inbox, file>>

\* authorizedRequest: on a 401 a refresh with the session read at the start.
OnboardingRequest ==
  /\ onb.stage = "request"
  /\ \/ /\ onb.of > expired
        /\ onb' = Idle
        /\ UNCHANGED refresh
     \/ /\ onb.of <= expired
        /\ onb' = At("retrying", NoSession)
        /\ refresh' = [refresh EXCEPT ![Onboarding] = At("sent", onb.of)]
  /\ UNCHANGED <<server, tokens, memory, ui, req, ipc, inbox, file, events>>

\* refreshSession: the file, and a message to the window that asked for the account.
OnboardingRefreshed(w) ==
  /\ refresh[Onboarding].stage = "granted"
  /\ file' = refresh[Onboarding].of
  /\ inbox' = IF Shows(w, "closed") THEN inbox
              ELSE [inbox EXCEPT ![w] = refresh[Onboarding].of]
  /\ onb' = IF onb.stage = "ensuring" THEN At("request", refresh[Onboarding].of) ELSE Idle
  /\ refresh' = [refresh EXCEPT ![Onboarding] = Idle]
  /\ UNCHANGED <<server, tokens, memory, ui, req, ipc, events>>

OnboardingFailed ==
  /\ refresh[Onboarding] \in {Refused, Lost}
  /\ refresh' = [refresh EXCEPT ![Onboarding] = Idle]
  /\ onb' = Idle
  /\ UNCHANGED <<server, tokens, memory, ui, req, ipc, inbox, file, events>>

\* AuthProvider, onUpdated
Updated(w) ==
  /\ inbox[w] # NoSession
  /\ memory' = [memory EXCEPT ![w] = inbox[w]]
  /\ inbox' = [inbox EXCEPT ![w] = NoSession]
  /\ ui' = [ui EXCEPT ![w] = IF Shows(w, "out") THEN Page("in", NoSession) ELSE @]
  /\ UNCHANGED <<server, tokens, req, refresh, ipc, file, onb, events>>

\* A window opens and loads the file.
Open(w) ==
  /\ Shows(w, "closed")
  /\ ipc[w] = NoWrite
  /\ memory' = [memory EXCEPT ![w] = file]
  /\ Show(w, IF file = NoSession THEN "out" ELSE "in", NoSession)
  /\ UNCHANGED <<server, tokens, req, refresh, ipc, inbox, file, onb, events>>

\* What a closed window waited for is lost; its messages to the main process are not.
Close(w) ==
  /\ ~Shows(w, "closed")
  /\ refresh[w].stage # "found"
  /\ Event
  /\ memory' = [memory EXCEPT ![w] = NoSession]
  /\ Show(w, "closed", NoSession)
  /\ req' = [r \in Request |-> IF Home[r] = w THEN "rest" ELSE req[r]]
  /\ refresh' = [refresh EXCEPT ![w] = Idle]
  /\ inbox' = [inbox EXCEPT ![w] = NoSession]
  /\ spentBy' = [t \in Token |-> IF spentBy[t] = w THEN None ELSE spentBy[t]]
  /\ UNCHANGED <<server, live, expired, last, login, ipc, file, onb>>

\* 15 minutes: access tokens expire in the order they were issued in.
AccessExpires ==
  /\ expired < last
  /\ expired' = expired + 1
  /\ UNCHANGED <<server, live, last, login, spentBy, memory, ui, req, refresh, ipc, inbox, file, onb, events>>

\* 30 days
SessionExpires(t) ==
  /\ t \in live /\ t <= expired
  /\ Event
  /\ live' = live \ {t}
  /\ UNCHANGED <<server, expired, last, login, spentBy, memory, ui, req, refresh, ipc, inbox, file, onb>>

-----------------------------------------------------------------------------

Init ==
  /\ users = 0 /\ registering = [p \in Registrar |-> "no"] /\ owner = 0
  /\ live = {} /\ expired = 0 /\ last = 0
  /\ login = [t \in Token |-> 0] /\ spentBy = [t \in Token |-> None]
  /\ memory = [w \in Window |-> NoSession]
  /\ ui = [w \in Window |-> Page("closed", NoSession)]
  /\ req = [r \in Request |-> "rest"]
  /\ refresh = [a \in Actor |-> Idle]
  /\ ipc = [w \in Window |-> NoWrite] /\ inbox = [w \in Window |-> NoSession]
  /\ file = NoSession /\ onb = Idle
  /\ events = MaxEvents

ClientStep(w) ==
  Authenticate(w) \/ LogoutAnswered(w)
  \/ SaveRefreshed(w) \/ Refreshed(w) \/ RefreshFailed(w)
ServerStep(a) == RotateFind(a) \/ RotateCommit(a) \/ RefreshLost(a)
MainStep == OnboardingRequest \/ OnboardingFailed \/ \E w \in Window : OnboardingRefreshed(w)

Next ==
  \/ \E p \in Registrar : RegisterBegin(p) \/ RegisterCommit(p)
  \/ \E w \in Window : Login(w) \/ Logout(w) \/ ClientStep(w) \/ HandleIpc(w)
                       \/ Updated(w) \/ Open(w) \/ Close(w)
  \/ \E r \in Request : Send(r) \/ Unauthorized(r) \/ UnauthorizedOut(r)
  \/ \E a \in Actor : ServerStep(a)
  \/ OnboardingStart \/ MainStep
  \/ AccessExpires \/ \E t \in Token : SessionExpires(t)

Spec == Init /\ [][Next]_vars

\* The API answers or the connection breaks; both processes handle their events.
Fairness ==
  /\ \A a \in Actor : WF_vars(ServerStep(a))
  /\ \A w \in Window : WF_vars(ClientStep(w)) /\ WF_vars(HandleIpc(w))
  /\ \A r \in Request : WF_vars(Unauthorized(r) \/ UnauthorizedOut(r))
  /\ WF_vars(MainStep)

FairSpec == Spec /\ Fairness

-----------------------------------------------------------------------------
(* Properties *)

\* Every variable has its type, and nothing is live or fresh that was not issued.
TypeOK ==
  /\ users \in Nat /\ owner \in 0 .. users
  /\ registering \in [Registrar -> {"no", "first", "later"}]
  /\ last \in 0 .. MaxToken /\ live \subseteq 1 .. last /\ expired \in 0 .. last
  /\ login \in [Token -> 0 .. last] /\ spentBy \in [Token -> Actor \cup {None}]
  /\ memory \in [Window -> 0 .. last]
  /\ ui \in [Window -> [page : {"closed", "out", "saving", "in", "leaving"}, of : 0 .. last]]
  /\ req \in [Request -> {"rest", "refused", "waiting"}]
  /\ refresh \in [Actor -> [stage : {"idle", "sent", "found", "granted", "refused", "lost", "saving"}, of : 0 .. last]]
  /\ ipc \in [Window -> -1 .. last] /\ inbox \in [Window -> 0 .. last]
  /\ file \in 0 .. last
  /\ onb \in [stage : {"idle", "ensuring", "request", "retrying"}, of : 0 .. last]
  /\ events \in 0 .. MaxEvents

\* Refresh rotates: of all the tokens that descend from one login at most one is
\* good, however many windows and the onboarding present the same token at once.
OneTokenPerLogin ==
  \A s, t \in live : login[s] = login[t] => s = t

\* With registration closed only one user ever exists, even when several register
\* into an empty database at once, and the accounts without an owner are theirs.
ClosedRegistration ==
  /\ ~AllowRegistration => users <= 1
  /\ users > 0 => owner = 1

\* A window never loses its session to itself: when the server refuses its
\* refresh, somebody else had the token rotated, or it was revoked or ran out.
RefusedByOthers ==
  [][\A w \in Window :
       refresh[w].stage # "refused" /\ refresh'[w].stage = "refused" => spentBy[refresh[w].of] # w]_vars

\* Every request comes back, refreshes, refusals and lost answers included, and
\* signing in or out reaches the mail, the login page or a closed window.
Settles ==
  /\ \A r \in Request : []<>(req[r] = "rest")
  /\ \A w \in Window : []<>(ui[w].page \in {"in", "out", "closed"})

\* docs/architecture.md:51-52: logout revokes the current refresh session. It does not hold,
\* see the known limits in the README.
LogoutRevokes ==
  [][\A w \in Window : Shows(w, "leaving") /\ ui'[w].page = "out" => ui[w].of \notin live']_vars
=============================================================================
