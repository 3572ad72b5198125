------------------------- MODULE AuthSessionsProofs -------------------------
(***************************************************************************)
(* Theorems about AuthSessions for any number of windows, requests, tokens *)
(* and registrations: rotation is exclusive, registration stays closed,    *)
(* and a window is never refused a refresh because of its own rotations.   *)
(***************************************************************************)
EXTENDS AuthSessions, TLAPS

\* Tokens are numbered in the order of their issue, and so are logins.
Numbered ==
  /\ last \in Nat
  /\ live \subseteq 1 .. last
  /\ login \in [Token -> Nat]
  /\ \A t \in live : t \in Token /\ login[t] <= last

\* One transaction at a time, and what it has counted is still true.
Serialized ==
  /\ users \in Nat /\ owner \in Nat
  /\ registering \in [Registrar -> {"no", "first", "later"}]
  /\ \A p, q \in Registrar : registering[p] # "no" /\ registering[q] # "no" => p = q
  /\ \A p \in Registrar : /\ registering[p] = "first" => users = 0
                          /\ registering[p] = "later" => users > 0
  /\ users = 0 => owner = 0

TokenInv == Numbered /\ OneTokenPerLogin
UserInv == Serialized /\ ClosedRegistration

-----------------------------------------------------------------------------
(* Refresh tokens *)

\* A login starts a chain of its own.
LEMMA LoginKeeps ==
  ASSUME TokenInv, NEW w \in Window, Login(w)
  PROVE  TokenInv'
<1>1. MaxToken \in Nat
  BY BoundsAssumption
<1>2. last + 1 \in Token /\ last + 1 \in Nat
  BY <1>1 DEF TokenInv, Numbered, Login, Token
<1>3. last' = last + 1 /\ login' = [login EXCEPT ![last + 1] = last + 1] /\ live' = live \cup {last + 1}
  BY DEF Login, Issue
<1>4. login'[last + 1] = last + 1
  BY <1>2, <1>3 DEF TokenInv, Numbered
<1>5. \A t \in live : t # last + 1 /\ t \in Token /\ login'[t] = login[t] /\ login[t] <= last /\ login[t] \in Nat
  BY <1>2, <1>3 DEF TokenInv, Numbered
<1>6. Numbered'
  BY <1>2, <1>3, <1>4, <1>5 DEF TokenInv, Numbered
<1>7. OneTokenPerLogin'
  BY <1>2, <1>3, <1>4, <1>5 DEF TokenInv, Numbered, OneTokenPerLogin
<1> QED BY <1>6, <1>7 DEF TokenInv

\* A rotation deletes the one live token of the chain it adds a token to.
LEMMA RotateKeeps ==
  ASSUME TokenInv, NEW a \in Actor, last < MaxToken, refresh[a].of \in live, Rotate(a, refresh[a].of)
  PROVE  TokenInv'
<1> DEFINE old == refresh[a].of
<1>1. MaxToken \in Nat
  BY BoundsAssumption
<1>2. last + 1 \in Token /\ last + 1 \in Nat
  BY <1>1 DEF TokenInv, Numbered, Token
<1>3. /\ last' = last + 1 /\ login' = [login EXCEPT ![last + 1] = login[old]]
      /\ live' = (live \ {old}) \cup {last + 1}
  BY DEF Rotate, Issue
<1>4. old \in live
  OBVIOUS
<1> HIDE DEF old
<1>5. login'[last + 1] = login[old]
  BY <1>2, <1>3 DEF TokenInv, Numbered
<1>6. \A t \in live : t # last + 1 /\ t \in Token /\ login'[t] = login[t] /\ login[t] <= last /\ login[t] \in Nat
  BY <1>2, <1>3 DEF TokenInv, Numbered
<1>7. Numbered'
  BY <1>2, <1>3, <1>4, <1>5, <1>6 DEF TokenInv, Numbered
<1>8. \A t \in live \ {old} : login[t] # login[old]
  BY <1>4 DEF TokenInv, OneTokenPerLogin
<1>9. OneTokenPerLogin'
  BY <1>2, <1>3, <1>4, <1>5, <1>6, <1>8 DEF TokenInv, OneTokenPerLogin
<1> QED BY <1>7, <1>9 DEF TokenInv

\* Deleting rows, or leaving them alone, keeps what is left distinct.
LEMMA DeletionKeeps ==
  ASSUME TokenInv, live' \subseteq live, UNCHANGED <<last, login>>
  PROVE  TokenInv'
BY DEF TokenInv, Numbered, OneTokenPerLogin

LEMMA TokenStep ==
  ASSUME TokenInv, [Next]_vars
  PROVE  TokenInv'
<1> USE DEF server, tokens
<1>1. ASSUME NEW w \in Window, Login(w) PROVE TokenInv'
  BY <1>1, LoginKeeps
<1>2. ASSUME NEW a \in Actor, RotateCommit(a) PROVE TokenInv'
  <2>1. CASE refresh[a].of \in live
    BY <1>2, <2>1, RotateKeeps DEF RotateCommit
  <2>2. CASE refresh[a].of \notin live
    BY <1>2, <2>2, DeletionKeeps DEF RotateCommit
  <2> QED BY <2>1, <2>2
<1>3. ASSUME NEW w \in Window, LogoutAnswered(w) PROVE TokenInv'
  BY <1>3, DeletionKeeps DEF LogoutAnswered
<1>4. ASSUME NEW w \in Window,
             \/ Authenticate(w) \/ Logout(w) \/ SaveRefreshed(w) \/ Refreshed(w) \/ RefreshFailed(w)
             \/ HandleIpc(w) \/ OnboardingRefreshed(w) \/ Updated(w) \/ Open(w) \/ Close(w)
      PROVE  TokenInv'
  <2>1. UNCHANGED <<live, last, login>>
    BY <1>4 DEF Authenticate, Logout, SaveRefreshed, Refreshed, RefreshFailed, HandleIpc,
       OnboardingRefreshed, Updated, Open, Close
  <2> QED BY <2>1, DeletionKeeps
<1>5. ASSUME NEW r \in Request, Send(r) \/ Unauthorized(r) \/ UnauthorizedOut(r) PROVE TokenInv'
  BY <1>5, DeletionKeeps DEF Send, Unauthorized, UnauthorizedOut
<1>6. ASSUME NEW a \in Actor, RotateFind(a) \/ RefreshLost(a) PROVE TokenInv'
  BY <1>6, DeletionKeeps DEF RotateFind, RefreshLost
<1>7. CASE OnboardingStart \/ OnboardingRequest \/ OnboardingFailed \/ AccessExpires
  BY <1>7, DeletionKeeps DEF OnboardingStart, OnboardingRequest, OnboardingFailed, AccessExpires
<1>8. ASSUME NEW t \in Token, SessionExpires(t) PROVE TokenInv'
  BY <1>8, DeletionKeeps DEF SessionExpires
<1>9. ASSUME NEW p \in Registrar, RegisterBegin(p) \/ RegisterCommit(p) PROVE TokenInv'
  BY <1>9, DeletionKeeps DEF RegisterBegin, RegisterCommit
<1>10. CASE UNCHANGED vars
  BY <1>10, DeletionKeeps DEF vars
<1> QED
  BY <1>1, <1>2, <1>3, <1>4, <1>5, <1>6, <1>7, <1>8, <1>9, <1>10
  DEF Next, ClientStep, ServerStep, MainStep

\* Rotation is exclusive: the windows and the onboarding may present one token
\* at the same time, and still at most one token of every login is good.
THEOREM RotationIsExclusive == Spec => []OneTokenPerLogin
<1>1. Init => TokenInv
  BY DEF Init, TokenInv, Numbered, OneTokenPerLogin
<1>2. TokenInv /\ [Next]_vars => TokenInv'
  BY TokenStep
<1>3. TokenInv => OneTokenPerLogin
  BY DEF TokenInv
<1> QED BY <1>1, <1>2, <1>3, PTL DEF Spec

-----------------------------------------------------------------------------
(* Users *)

\* The lock on the table: nobody else is between counting and creating.
LEMMA BeginKeeps ==
  ASSUME UserInv, NEW p \in Registrar, RegisterBegin(p)
  PROVE  UserInv'
<1>1. /\ users' = users /\ owner' = owner
      /\ registering' = [registering EXCEPT ![p] = IF users = 0 THEN "first" ELSE "later"]
      /\ \A q \in Registrar : registering[q] = "no"
  BY DEF RegisterBegin, Count
<1>2. /\ registering'[p] = IF users = 0 THEN "first" ELSE "later"
      /\ \A q \in Registrar : q # p => registering'[q] = "no"
  BY <1>1 DEF UserInv, Serialized
<1> QED BY <1>1, <1>2 DEF UserInv, Serialized, ClosedRegistration

LEMMA CommitKeeps ==
  ASSUME UserInv, NEW p \in Registrar, RegisterCommit(p)
  PROVE  UserInv'
<1>1. /\ registering[p] # "no"
      /\ registering' = [registering EXCEPT ![p] = "no"]
      /\ users' = IF registering[p] = "first" \/ AllowRegistration THEN users + 1 ELSE users
      /\ owner' = IF registering[p] = "first" /\ owner = 0 THEN users + 1 ELSE owner
  BY DEF RegisterCommit
<1>2. \A q \in Registrar : registering'[q] = "no"
  BY <1>1 DEF UserInv, Serialized
<1>3. registering[p] = "first" => users = 0 /\ owner = 0
  BY DEF UserInv, Serialized
<1>4. registering[p] = "later" => users > 0 /\ owner = 1
  BY DEF UserInv, Serialized, ClosedRegistration
<1>5. registering[p] = "first" \/ registering[p] = "later"
  BY <1>1 DEF UserInv, Serialized
<1>6. CASE registering[p] = "first"
  BY <1>1, <1>2, <1>3, <1>6 DEF UserInv, Serialized, ClosedRegistration
<1>7. CASE registering[p] = "later"
  BY <1>1, <1>2, <1>4, <1>7 DEF UserInv, Serialized, ClosedRegistration
<1> QED BY <1>5, <1>6, <1>7

LEMMA UserStep ==
  ASSUME UserInv, [Next]_vars
  PROVE  UserInv'
<1> USE DEF server
<1>1. ASSUME NEW p \in Registrar, RegisterBegin(p) \/ RegisterCommit(p) PROVE UserInv'
  BY <1>1, BeginKeeps, CommitKeeps
<1>2. ASSUME UNCHANGED server PROVE UserInv'
  BY <1>2 DEF UserInv, Serialized, ClosedRegistration
<1>3. ASSUME NEW w \in Window,
             \/ Login(w) \/ Logout(w) \/ ClientStep(w) \/ HandleIpc(w)
             \/ OnboardingRefreshed(w) \/ Updated(w) \/ Open(w) \/ Close(w)
      PROVE  UNCHANGED server
  BY <1>3 DEF Login, Logout, ClientStep, Authenticate, LogoutAnswered, SaveRefreshed, Refreshed,
     RefreshFailed, HandleIpc, OnboardingRefreshed, Updated, Open, Close
<1>4. ASSUME NEW r \in Request, Send(r) \/ Unauthorized(r) \/ UnauthorizedOut(r) PROVE UNCHANGED server
  BY <1>4 DEF Send, Unauthorized, UnauthorizedOut
<1>5. ASSUME NEW a \in Actor, ServerStep(a) PROVE UNCHANGED server
  BY <1>5 DEF ServerStep, RotateFind, RotateCommit, RefreshLost
<1>6. ASSUME OnboardingStart \/ OnboardingRequest \/ OnboardingFailed \/ AccessExpires PROVE UNCHANGED server
  BY <1>6 DEF OnboardingStart, OnboardingRequest, OnboardingFailed, AccessExpires
<1>7. ASSUME NEW t \in Token, SessionExpires(t) PROVE UNCHANGED server
  BY <1>7 DEF SessionExpires
<1>8. ASSUME UNCHANGED vars PROVE UNCHANGED server
  BY <1>8 DEF vars
<1> QED
  BY <1>1, <1>2, <1>3, <1>4, <1>5, <1>6, <1>7, <1>8 DEF Next, MainStep

\* However many registrations run at once: with registration closed there is one
\* user at most, and the accounts without an owner go to the first one.
THEOREM RegistrationStaysClosed == Spec => []ClosedRegistration
<1>1. Init => UserInv
  BY DEF Init, UserInv, Serialized, ClosedRegistration
<1>2. UserInv /\ [Next]_vars => UserInv'
  BY UserStep
<1>3. UserInv => ClosedRegistration
  BY DEF UserInv
<1> QED BY <1>1, <1>2, <1>3, PTL DEF Spec

-----------------------------------------------------------------------------
(* Refused refreshes *)

Stages == {"idle", "sent", "found", "granted", "refused", "lost", "saving"}
Shapes ==
  /\ memory \in [Window -> Nat] /\ inbox \in [Window -> Nat] /\ ipc \in [Window -> Nat \cup {-1}] /\ file \in Nat
  /\ refresh \in [Actor -> [stage : Stages, of : Nat]]
  /\ onb \in [stage : {"idle", "ensuring", "request", "retrying"}, of : Nat]
  /\ ui \in [Window -> [page : {"closed", "out", "saving", "in", "leaving"}, of : Nat]]
  /\ spentBy \in [Token -> Actor \cup {None}]

\* Nobody has a token that was not issued.
Bounds ==
  /\ last \in Nat /\ last <= MaxToken /\ live \subseteq 1 .. last
  /\ file <= last /\ onb.of <= last
  /\ \A w \in Window : memory[w] <= last /\ inbox[w] <= last /\ ipc[w] <= last
  /\ \A a \in Actor : refresh[a].of <= last
  /\ \A t \in Token : spentBy[t] # None => t <= last

\* A token on its way to whom it was granted to is nowhere else.
Unseen ==
  \A a \in Actor : refresh[a].stage = "granted" =>
    /\ refresh[a].of \in Token /\ spentBy[refresh[a].of] = None
    /\ file # refresh[a].of /\ onb.of # refresh[a].of
    /\ \A w \in Window : /\ memory[w] # refresh[a].of /\ inbox[w] # refresh[a].of
                         /\ ipc[w] # refresh[a].of
    /\ \A b \in Actor \ {a} : refresh[b].of # refresh[a].of

\* A window that is closed has no part in anything.
Closes ==
  \A w \in Window : Shows(w, "closed") =>
    /\ refresh[w].stage = "idle" /\ inbox[w] = NoSession /\ memory[w] = NoSession
    /\ \A t \in Token : spentBy[t] # w

\* What a window holds, presents or is about to be told is no token that it had rotated
\* itself; only while its refresh is granted, or lost, may the old one still be in memory.
Holds ==
  \A w \in Window :
    /\ refresh[w].stage \in {"idle", "sent", "found", "saving"} /\ memory[w] # NoSession
         => spentBy[memory[w]] # w
    /\ refresh[w].stage \in {"sent", "found"} =>
         /\ refresh[w].of \in Token /\ spentBy[refresh[w].of] # w /\ refresh[w].of # inbox[w]
    /\ inbox[w] # NoSession => spentBy[inbox[w]] # w /\ memory[w] # inbox[w]

SpentInv == Shapes /\ Bounds /\ Unseen /\ Closes /\ Holds

LEMMA Ats ==
  /\ \A s, t : At(s, t).stage = s /\ At(s, t).of = t
  /\ Idle.stage = "idle" /\ Idle.of = 0 /\ Refused.stage = "refused" /\ Refused.of = 0
  /\ Lost.stage = "lost" /\ Lost.of = 0
  /\ \A s \in Stages, n \in Nat : At(s, n) \in [stage : Stages, of : Nat]
  /\ Idle \in [stage : Stages, of : Nat] /\ Refused \in [stage : Stages, of : Nat]
  /\ Lost \in [stage : Stages, of : Nat]
BY DEF At, Idle, Refused, Lost, NoSession, Stages

LEMMA Numbers ==
  /\ MaxToken \in Nat /\ NoSession = 0 /\ NoWrite = -1 /\ 0 \notin Token
  /\ \A n \in Nat : n # 0 /\ n <= MaxToken => n \in Token
  /\ Token \subseteq Nat
  /\ Window \subseteq Actor /\ Onboarding \in Actor /\ Onboarding \notin Window /\ None \notin Actor
BY BoundsAssumption DEF NoSession, NoWrite, Token, Actor

\* A step that issues nothing and hands nothing on, but forgets, or writes the file.
LEMMA LessKeeps ==
  ASSUME SpentInv, Shapes', last' = last, live' \subseteq live,
         \A t \in Token : spentBy'[t] \in {spentBy[t], None},
         \A w \in Window : /\ memory'[w] \in {memory[w], 0} /\ inbox'[w] \in {inbox[w], 0}
                           /\ ipc'[w] \in {ipc[w], 0, -1},
         file' = file \/ \E w \in Window : file' = ipc[w],
         onb'.of \in {onb.of, 0},
         \A a \in Actor :
           \/ refresh'[a] = refresh[a]
           \/ refresh'[a].stage = "found" /\ refresh[a].stage = "sent" /\ refresh'[a].of = refresh[a].of
           \/ refresh'[a].stage \in {"idle", "refused", "lost"} /\ refresh'[a].of = 0,
         \A w \in Window :
           refresh'[w].stage = "idle" =>
             refresh[w].stage \in {"idle", "sent", "found", "saving"} \/ memory'[w] = 0,
         \A w \in Window : Shows(w, "closed")' =>
           refresh'[w].stage = "idle" /\ inbox'[w] = 0 /\ memory'[w] = 0 /\ \A t \in Token : spentBy'[t] # w
  PROVE  SpentInv'
<1>1. Bounds'
  <2>1. /\ last \in Nat /\ \A w \in Window : memory[w] \in Nat /\ inbox[w] \in Nat /\ ipc[w] \in Int
        /\ onb.of \in Nat
    BY DEF SpentInv, Shapes, Bounds
  <2>2. file' <= last
    BY DEF SpentInv, Bounds
  <2>3. \A a \in Actor : refresh'[a].of <= last
    BY <2>1 DEF SpentInv, Bounds
  <2>4. \A w \in Window : memory'[w] <= last /\ inbox'[w] <= last /\ ipc'[w] <= last
    BY <2>1 DEF SpentInv, Bounds
  <2>5. onb'.of <= last /\ \A t \in Token : spentBy'[t] # None => t <= last
    BY <2>1 DEF SpentInv, Bounds
  <2> QED BY <2>2, <2>3, <2>4, <2>5 DEF SpentInv, Bounds
<1>2. Unseen'
  <2> SUFFICES ASSUME NEW a \in Actor, refresh'[a].stage = "granted"
               PROVE  /\ refresh'[a].of \in Token /\ spentBy'[refresh'[a].of] = None
                      /\ file' # refresh'[a].of /\ onb'.of # refresh'[a].of
                      /\ \A w \in Window : /\ memory'[w] # refresh'[a].of /\ inbox'[w] # refresh'[a].of
                                           /\ ipc'[w] # refresh'[a].of
                      /\ \A b \in Actor \ {a} : refresh'[b].of # refresh'[a].of
    BY DEF Unseen
  <2>1. refresh'[a] = refresh[a]
    OBVIOUS
  <2>2. /\ refresh[a].of \in Token /\ spentBy[refresh[a].of] = None
        /\ file # refresh[a].of /\ onb.of # refresh[a].of
        /\ \A w \in Window : /\ memory[w] # refresh[a].of /\ inbox[w] # refresh[a].of
                             /\ ipc[w] # refresh[a].of
        /\ \A b \in Actor \ {a} : refresh[b].of # refresh[a].of
    BY <2>1 DEF SpentInv, Unseen
  <2>3. refresh[a].of # 0 /\ refresh[a].of # -1
    BY <2>2, Numbers
  <2> QED BY <2>1, <2>2, <2>3
<1>3. Closes'
  BY Numbers DEF Closes
<1>4. Holds'
  <2> SUFFICES ASSUME NEW w \in Window
               PROVE  /\ refresh'[w].stage \in {"idle", "sent", "found", "saving"} /\ memory'[w] # 0
                           => spentBy'[memory'[w]] # w
                      /\ refresh'[w].stage \in {"sent", "found"} =>
                           /\ refresh'[w].of \in Token /\ spentBy'[refresh'[w].of] # w
                           /\ refresh'[w].of # inbox'[w]
                      /\ inbox'[w] # 0 => spentBy'[inbox'[w]] # w /\ memory'[w] # inbox'[w]
    BY Numbers DEF Holds
  <2>1. /\ refresh[w].stage \in {"idle", "sent", "found", "saving"} /\ memory[w] # 0
             => spentBy[memory[w]] # w
        /\ refresh[w].stage \in {"sent", "found"} =>
             /\ refresh[w].of \in Token /\ spentBy[refresh[w].of] # w
             /\ refresh[w].of # inbox[w]
        /\ inbox[w] # 0 => spentBy[inbox[w]] # w /\ memory[w] # inbox[w]
    BY Numbers DEF SpentInv, Holds
  <2>2. /\ memory[w] # 0 => memory[w] \in Token
        /\ inbox[w] # 0 => inbox[w] \in Token
        /\ w # None /\ w \in Actor /\ 0 \notin Token
    BY Numbers DEF SpentInv, Shapes, Bounds
  <2>3. \A t \in Token : spentBy[t] # w => spentBy'[t] # w
    BY <2>2
  <2> QED BY <2>1, <2>2, <2>3
<1> QED BY <1>1, <1>2, <1>3, <1>4 DEF SpentInv

LEMMA StillKeeps ==
  ASSUME SpentInv, UNCHANGED <<tokens, memory, ui, refresh, ipc, inbox, file, onb>>
  PROVE  SpentInv'
BY DEF SpentInv, Shapes, Bounds, Unseen, Closes, Holds, Shows, tokens

\* Where a window is when only its session and what it waits for change.
LEMMA ClosedBefore ==
  ASSUME SpentInv, NEW w \in Window, Shows(w, "closed")
  PROVE  /\ refresh[w].stage = "idle" /\ inbox[w] = 0 /\ memory[w] = 0
         /\ \A t \in Token : spentBy[t] # w
BY Numbers DEF SpentInv, Closes

LEMMA AuthenticateForgets ==
  ASSUME SpentInv, NEW w \in Window, Authenticate(w) \/ Logout(w)
  PROVE  SpentInv'
<1>1. /\ UNCHANGED <<tokens, memory, refresh, ipc, inbox, file, onb>>
      /\ Shows(w, "saving") \/ Shows(w, "in")
      /\ \E p \in {"in", "leaving"}, n \in Nat : ui' = [ui EXCEPT ![w] = Page(p, n)]
  BY Numbers DEF Authenticate, Logout, Show, SpentInv, Shapes
<1>2. PICK p \in {"in", "leaving"}, n \in Nat : ui' = [ui EXCEPT ![w] = Page(p, n)]
  BY <1>1
<1>3. Shapes'
  BY <1>1, <1>2 DEF SpentInv, Shapes, Page, tokens
<1>4. \A x \in Window : Shows(x, "closed")' => Shows(x, "closed")
  BY <1>1, <1>2 DEF SpentInv, Shapes, Page, Shows
<1> QED BY <1>1, <1>3, <1>4, ClosedBefore, LessKeeps DEF tokens, SpentInv, Shapes

LEMMA LogoutForgets ==
  ASSUME SpentInv, NEW w \in Window, LogoutAnswered(w)
  PROVE  SpentInv'
<1>1. /\ UNCHANGED <<last, spentBy, refresh, inbox, file, onb>>
      /\ live' \subseteq live
      /\ memory' = [memory EXCEPT ![w] = 0] /\ ipc' = [ipc EXCEPT ![w] = 0]
      /\ ui' = [ui EXCEPT ![w] = Page("out", 0)]
  BY Numbers DEF LogoutAnswered, Post, Show
<1>2. Shapes'
  BY <1>1 DEF SpentInv, Shapes, Page
<1>3. \A x \in Window : Shows(x, "closed")' => Shows(x, "closed")
  BY <1>1 DEF SpentInv, Shapes, Page, Shows
<1>4. \A x \in Window : memory'[x] \in {memory[x], 0} /\ ipc'[x] \in {ipc[x], 0, -1}
  BY <1>1 DEF SpentInv, Shapes
<1> QED BY <1>1, <1>2, <1>3, <1>4, ClosedBefore, LessKeeps DEF SpentInv, Shapes

\* Drop: a window that clears its session, its refresh being over or answered.
LEMMA DropForgets ==
  ASSUME SpentInv, NEW w \in Window, NEW rs, Drop(w, rs),
         UNCHANGED <<tokens, inbox, file, onb>>,
         refresh' = refresh \/ refresh' = [refresh EXCEPT ![w] = Idle]
  PROVE  SpentInv'
<1>1. /\ UNCHANGED <<live, last, spentBy, inbox, file, onb>>
      /\ memory' = [memory EXCEPT ![w] = 0] /\ ipc' = [ipc EXCEPT ![w] = 0]
      /\ ui' = [ui EXCEPT ![w] = IF Shows(w, "in") THEN Page("out", 0) ELSE @]
  BY Numbers DEF Drop, Post, tokens
<1>2. /\ refresh' \in [Actor -> [stage : Stages, of : Nat]]
      /\ \A a \in Actor : refresh'[a] = refresh[a] \/ (refresh'[a] = Idle /\ a = w)
  <2> USE DEF SpentInv, Shapes
  <2>1. CASE refresh' = refresh
    BY <2>1
  <2>2. CASE refresh' = [refresh EXCEPT ![w] = Idle]
    <3>1. Idle \in [stage : Stages, of : Nat]
      BY Ats
    <3> QED BY <2>2, <3>1
  <2> QED BY <2>1, <2>2
<1>3. Shapes'
  BY <1>1, <1>2 DEF SpentInv, Shapes, Page
<1>4. \A x \in Window : Shows(x, "closed")' => Shows(x, "closed")
  BY <1>1 DEF SpentInv, Shapes, Page, Shows
<1>5. /\ \A x \in Window : memory'[x] \in {memory[x], 0} /\ ipc'[x] \in {ipc[x], 0, -1}
      /\ memory'[w] = 0
  BY <1>1 DEF SpentInv, Shapes
<1>6. \A x \in Window : Shows(x, "closed")' =>
        refresh'[x].stage = "idle" /\ inbox'[x] = 0 /\ memory'[x] = 0 /\ \A t \in Token : spentBy'[t] # x
  BY <1>1, <1>2, <1>4, ClosedBefore, Ats, Numbers
<1>7. \A x \in Window : refresh'[x].stage = "idle" =>
        refresh[x].stage \in {"idle", "sent", "found", "saving"} \/ memory'[x] = 0
  BY <1>2, <1>5, Numbers
<1>8. \A a \in Actor :
        \/ refresh'[a] = refresh[a]
        \/ refresh'[a].stage = "found" /\ refresh[a].stage = "sent" /\ refresh'[a].of = refresh[a].of
        \/ refresh'[a].stage \in {"idle", "refused", "lost"} /\ refresh'[a].of = 0
  BY <1>2, Ats
<1> QED BY <1>1, <1>3, <1>5, <1>6, <1>7, <1>8, LessKeeps DEF SpentInv, Shapes

\* The server answers a refresh without a token, or its answer is lost; the onboarding
\* or a window takes note of that, or of a session that is saved.
LEMMA AnswerForgets ==
  ASSUME SpentInv, UNCHANGED <<tokens, memory, ui, ipc, inbox, file>>,
         onb' = onb \/ onb' = Idle,
         NEW a \in Actor, NEW x,
         refresh' = [refresh EXCEPT ![a] = x],
         \/ refresh[a].stage = "sent" /\ x = At("found", refresh[a].of)
         \/ refresh[a].stage # "idle" /\ x \in {Refused, Lost}
         \/ refresh[a].stage = "saving" /\ x = Idle
         \/ a = Onboarding /\ x = Idle
  PROVE  SpentInv'
<1>1. x \in [stage : Stages, of : Nat]
  BY Ats DEF SpentInv, Shapes, Stages
<1>2. /\ refresh'[a] = x /\ \A b \in Actor \ {a} : refresh'[b] = refresh[b]
      /\ refresh' \in [Actor -> [stage : Stages, of : Nat]]
  BY <1>1 DEF SpentInv, Shapes
<1>3. onb' \in [stage : {"idle", "ensuring", "request", "retrying"}, of : Nat] /\ onb'.of \in {onb.of, 0}
  BY DEF SpentInv, Shapes, Idle, At, NoSession
<1>4. Shapes'
  BY <1>2, <1>3 DEF SpentInv, Shapes, tokens
<1>5. \A b \in Actor :
        \/ refresh'[b] = refresh[b]
        \/ refresh'[b].stage = "found" /\ refresh[b].stage = "sent" /\ refresh'[b].of = refresh[b].of
        \/ refresh'[b].stage \in {"idle", "refused", "lost"} /\ refresh'[b].of = 0
  BY <1>2, Ats
<1>6. \A w \in Window : refresh'[w].stage = "idle" =>
        refresh[w].stage \in {"idle", "sent", "found", "saving"} \/ memory'[w] = 0
  BY <1>2, Ats, Numbers
<1>7. \A w \in Window : Shows(w, "closed")' =>
        refresh'[w].stage = "idle" /\ inbox'[w] = 0 /\ memory'[w] = 0 /\ \A t \in Token : spentBy'[t] # w
  BY <1>2, Ats, Numbers, ClosedBefore DEF Shows, tokens
<1> QED BY <1>3, <1>4, <1>5, <1>6, <1>7, LessKeeps DEF SpentInv, Shapes, tokens

LEMMA HandleIpcForgets ==
  ASSUME SpentInv, NEW w \in Window, HandleIpc(w)
  PROVE  SpentInv'
<1>1. /\ UNCHANGED <<live, last, spentBy, memory, ui, refresh, inbox, onb>>
      /\ ipc[w] # -1 /\ file' = ipc[w] /\ ipc' = [ipc EXCEPT ![w] = -1]
  BY Numbers DEF HandleIpc, tokens
<1>2. \A x \in Window : ipc'[x] \in {ipc[x], 0, -1}
  BY <1>1 DEF SpentInv, Shapes
<1>3. Shapes'
  BY <1>1 DEF SpentInv, Shapes
<1>4. \A x \in Window : Shows(x, "closed")' => Shows(x, "closed")
  BY <1>1 DEF Shows
<1> QED BY <1>1, <1>2, <1>3, <1>4, ClosedBefore, LessKeeps DEF SpentInv, Shapes

\* Everything a window knew is gone with it.
LEMMA CloseForgets ==
  ASSUME SpentInv, NEW w \in Window, Close(w)
  PROVE  SpentInv'
<1>1. /\ UNCHANGED <<live, last, ipc, file, onb>>
      /\ memory' = [memory EXCEPT ![w] = 0] /\ inbox' = [inbox EXCEPT ![w] = 0]
      /\ ui' = [ui EXCEPT ![w] = Page("closed", 0)]
      /\ refresh' = [refresh EXCEPT ![w] = Idle]
      /\ spentBy' = [t \in Token |-> IF spentBy[t] = w THEN None ELSE spentBy[t]]
  BY Numbers DEF Close, Show
<1>2. w \in Actor /\ None # w
  BY Numbers
<1>3. /\ refresh' \in [Actor -> [stage : Stages, of : Nat]]
      /\ refresh'[w] = Idle /\ \A b \in Actor \ {w} : refresh'[b] = refresh[b]
  BY <1>1, <1>2, Ats DEF SpentInv, Shapes
<1>4. /\ spentBy' \in [Token -> Actor \cup {None}]
      /\ \A t \in Token : spentBy'[t] \in {spentBy[t], None} /\ spentBy'[t] # w
  BY <1>1, <1>2 DEF SpentInv, Shapes
<1>5. /\ \A x \in Window : memory'[x] \in {memory[x], 0} /\ inbox'[x] \in {inbox[x], 0}
      /\ memory'[w] = 0 /\ inbox'[w] = 0
  BY <1>1 DEF SpentInv, Shapes
<1>6. Shapes'
  BY <1>1, <1>3, <1>4 DEF SpentInv, Shapes, Page
<1>7. \A x \in Window : x # w => (Shows(x, "closed")' => Shows(x, "closed"))
  BY <1>1 DEF SpentInv, Shapes, Page, Shows
<1>8. \A x \in Window : Shows(x, "closed")' =>
        refresh'[x].stage = "idle" /\ inbox'[x] = 0 /\ memory'[x] = 0 /\ \A t \in Token : spentBy'[t] # x
  <2> TAKE x \in Window
  <2>1. CASE x = w
    BY <2>1, <1>3, <1>4, <1>5, Ats
  <2>2. CASE x # w
    BY <2>2, <1>3, <1>4, <1>5, <1>7, ClosedBefore, Numbers
  <2> QED BY <2>1, <2>2
<1>9. \A a \in Actor : refresh'[a] = refresh[a] \/ (refresh'[a].stage = "idle" /\ refresh'[a].of = 0)
  BY <1>3, Ats
<1>10. \A x \in Window : refresh'[x].stage = "idle" =>
         refresh[x].stage \in {"idle", "sent", "found", "saving"} \/ memory'[x] = 0
  BY <1>3, <1>5, Numbers
<1> QED BY <1>1, <1>4, <1>5, <1>6, <1>8, <1>9, <1>10, LessKeeps DEF SpentInv, Shapes

\* Tokens run out: the access tokens in their order, a session with its row.
LEMMA ExpiryForgets ==
  ASSUME SpentInv, AccessExpires \/ \E t \in Token : SessionExpires(t)
  PROVE  SpentInv'
<1>1. /\ UNCHANGED <<last, spentBy, memory, ui, refresh, ipc, inbox, file, onb>>
      /\ live' \subseteq live
  BY DEF AccessExpires, SessionExpires
<1>2. Shapes'
  BY <1>1 DEF SpentInv, Shapes
<1>3. \A x \in Window : Shows(x, "closed")' => Shows(x, "closed")
  BY <1>1 DEF Shows
<1> QED BY <1>1, <1>2, <1>3, ClosedBefore, LessKeeps DEF SpentInv, Shapes

\* The other steps change one window or the onboarding: what the rest of the invariant
\* says of a token is said of its number.
LEMMA Issued ==
  ASSUME SpentInv
  PROVE  /\ last \in Nat
         /\ \A w \in Window :
              /\ memory[w] \in Nat /\ memory[w] <= last /\ (memory[w] # 0 => memory[w] \in Token)
              /\ inbox[w] \in Nat /\ inbox[w] <= last /\ (inbox[w] # 0 => inbox[w] \in Token)
              /\ ipc[w] \in Nat \cup {-1} /\ ipc[w] <= last
         /\ file \in Nat /\ file <= last /\ (file # 0 => file \in Token)
         /\ onb.of \in Nat /\ onb.of <= last
         /\ \A a \in Actor : /\ refresh[a].stage \in Stages
                             /\ refresh[a].of \in Nat /\ refresh[a].of <= last
<1> USE DEF SpentInv, Shapes, Bounds
<1>1. last \in Nat /\ last <= MaxToken /\ MaxToken \in Nat
  BY Numbers
<1>2. \A n \in Nat : n <= last /\ n # 0 => n \in Token
  BY <1>1, Numbers
<1> QED BY <1>1, <1>2

\* A login is answered with a token that nobody had before.
LEMMA LoginHolds ==
  ASSUME SpentInv, NEW w \in Window, Login(w)
  PROVE  SpentInv'
<1> DEFINE k == last + 1
<1>1. /\ last' = k /\ live' = live \cup {k} /\ UNCHANGED <<spentBy, refresh, inbox, file, onb>>
      /\ memory' = [memory EXCEPT ![w] = k] /\ ipc' = [ipc EXCEPT ![w] = k]
      /\ ui' = [ui EXCEPT ![w] = Page("saving", k)]
      /\ last < MaxToken
  BY DEF Login, Issue, Post, Show
<1>2. last \in Nat /\ k \in Nat /\ k \in Token /\ k > last /\ k # 0 /\ k <= MaxToken
  BY <1>1, Issued, Numbers DEF Token
<1>3. spentBy[k] = None
  BY <1>2 DEF SpentInv, Bounds
<1> HIDE DEF k
<1>4. Shapes'
  BY <1>1, <1>2 DEF SpentInv, Shapes, Page
<1>5. /\ memory'[w] = k /\ ipc'[w] = k /\ ~Shows(w, "closed")'
      /\ \A x \in Window \ {w} : /\ memory'[x] = memory[x] /\ ipc'[x] = ipc[x]
                                 /\ Shows(x, "closed")' => Shows(x, "closed")
  BY <1>1 DEF SpentInv, Shapes, Page, Shows
<1>6. Bounds'
  <2>1. \A x \in Window : memory'[x] <= k /\ inbox'[x] <= k /\ ipc'[x] <= k
    BY <1>1, <1>2, <1>5, Issued
  <2>2. file' <= k /\ onb'.of <= k /\ \A a \in Actor : refresh'[a].of <= k
    BY <1>1, <1>2, Issued
  <2>3. \A t \in Token : spentBy'[t] # None => t <= k
    <3>1. \A t \in Token : t \in Nat /\ (spentBy[t] # None => t <= last)
      BY Numbers DEF SpentInv, Bounds
    <3> QED BY <3>1, <1>1, <1>2
  <2>4. live' \subseteq 1 .. k
    <3>1. live \subseteq 1 .. last /\ 1 .. last \subseteq 1 .. k /\ k \in 1 .. k
      BY <1>2 DEF SpentInv, Bounds
    <3> QED BY <3>1, <1>1
  <2> QED BY <1>1, <1>2, <2>1, <2>2, <2>3, <2>4 DEF Bounds
<1>7. \A a \in Actor : refresh[a].of # k
  BY <1>2, Issued
<1>8. Unseen'
  BY <1>1, <1>5, <1>7 DEF SpentInv, Unseen
<1>9. Closes'
  BY <1>1, <1>5 DEF SpentInv, Closes
<1>10. inbox[w] # k /\ None # w
  BY <1>2, Issued, Numbers
<1>11. Holds'
  BY <1>1, <1>3, <1>5, <1>10 DEF SpentInv, Holds
<1> QED BY <1>4, <1>6, <1>8, <1>9, <1>11 DEF SpentInv

\* A window presents what is in its memory.
LEMMA UnauthorizedHolds ==
  ASSUME SpentInv, NEW r \in Request, Unauthorized(r)
  PROVE  SpentInv'
<1> DEFINE w == Home[r]
<1>1. w \in Window /\ w \in Actor
  BY BoundsAssumption, Numbers
<1>2. UNCHANGED <<tokens, memory, ui, ipc, inbox, file, onb>>
  BY DEF Unauthorized
<1>3. CASE refresh' = refresh
  BY <1>2, <1>3, StillKeeps
<1>4. CASE refresh' # refresh
  <2>1. /\ refresh' = [refresh EXCEPT ![w] = At("sent", memory[w])]
        /\ refresh[w] = Idle /\ memory[w] # 0
    BY <1>4, Numbers DEF Unauthorized
  <2> HIDE DEF w
  <2>2. memory[w] \in Nat /\ memory[w] \in Token /\ memory[w] <= last
    BY <1>1, <2>1, Issued
  <2>3. At("sent", memory[w]) \in [stage : Stages, of : Nat]
    BY <2>2, Ats DEF Stages
  <2>4. /\ refresh'[w] = At("sent", memory[w]) /\ refresh'[w].stage = "sent" /\ refresh'[w].of = memory[w]
        /\ \A b \in Actor \ {w} : refresh'[b] = refresh[b]
        /\ refresh' \in [Actor -> [stage : Stages, of : Nat]]
    BY <1>1, <2>1, <2>3, Ats DEF SpentInv, Shapes
  <2>5. Shapes'
    BY <1>2, <2>4 DEF SpentInv, Shapes, tokens
  <2>6. Bounds'
    BY <1>2, <2>2, <2>4 DEF SpentInv, Bounds, tokens
  <2>7. Unseen'
    BY <1>1, <1>2, <2>4 DEF SpentInv, Unseen, tokens
  <2>8. ~Shows(w, "closed")
    BY <1>1, <2>1, ClosedBefore
  <2>9. Closes'
    BY <1>1, <1>2, <2>4, <2>8, Numbers DEF SpentInv, Closes, Shows, tokens
  <2>10. spentBy[memory[w]] # w /\ memory[w] # inbox[w]
    BY <1>1, <2>1, Ats, Numbers DEF SpentInv, Holds
  <2>11. Holds'
    BY <1>1, <1>2, <2>2, <2>4, <2>10, Numbers DEF SpentInv, Holds, tokens
  <2> QED BY <2>5, <2>6, <2>7, <2>9, <2>11 DEF SpentInv
<1> QED BY <1>3, <1>4

\* Rotation: the token that was presented is spent, the new one is nowhere yet.
LEMMA RotateHolds ==
  ASSUME SpentInv, NEW a \in Actor, RotateCommit(a), refresh[a].of \in live
  PROVE  SpentInv'
<1> DEFINE k == last + 1
           old == refresh[a].of
<1>1. /\ last' = k /\ live' = (live \ {old}) \cup {k}
      /\ spentBy' = [spentBy EXCEPT ![old] = a]
      /\ refresh' = [refresh EXCEPT ![a] = At("granted", k)]
      /\ UNCHANGED <<memory, ui, ipc, inbox, file, onb>>
      /\ last < MaxToken /\ refresh[a].stage = "found"
  BY DEF RotateCommit, Rotate, Issue
<1>2. last \in Nat /\ k \in Nat /\ k \in Token /\ k > last /\ k # 0 /\ k <= MaxToken
  BY <1>1, Issued, Numbers DEF Token
<1>3. old \in Token /\ old <= last /\ old # k
  BY <1>2, Issued, Numbers DEF SpentInv, Bounds
<1>4. spentBy[k] = None
  BY <1>2 DEF SpentInv, Bounds
<1> HIDE DEF k
<1>5. At("granted", k) \in [stage : Stages, of : Nat]
  BY <1>2, Ats DEF Stages
<1>6. /\ refresh'[a].stage = "granted" /\ refresh'[a].of = k
      /\ \A b \in Actor \ {a} : refresh'[b] = refresh[b]
      /\ refresh' \in [Actor -> [stage : Stages, of : Nat]]
  BY <1>1, <1>5, Ats DEF SpentInv, Shapes
<1>7. /\ spentBy' \in [Token -> Actor \cup {None}]
      /\ spentBy'[old] = a /\ \A t \in Token \ {old} : spentBy'[t] = spentBy[t]
  BY <1>1, <1>3 DEF SpentInv, Shapes
<1>8. Shapes'
  BY <1>1, <1>6, <1>7 DEF SpentInv, Shapes
<1>9. Bounds'
  <2>1. \A x \in Window : memory'[x] <= k /\ inbox'[x] <= k /\ ipc'[x] <= k
    BY <1>1, <1>2, Issued
  <2>2. file' <= k /\ onb'.of <= k
    BY <1>1, <1>2, Issued
  <2>3. \A b \in Actor : refresh'[b].of <= k
    BY <1>2, <1>6, Issued
  <2>4. ASSUME NEW t \in Token, spentBy'[t] # None PROVE t <= k
    <3>1. t \in Nat
      BY Numbers
    <3>2. t <= last
      <4>1. CASE t = old
        BY <4>1, <1>3
      <4>2. CASE t # old
        <5>1. spentBy[t] # None
          BY <1>7, <2>4, <4>2
        <5> QED BY <5>1 DEF SpentInv, Bounds
      <4> QED BY <4>1, <4>2
    <3> QED BY <1>2, <3>1, <3>2
  <2>5. live' \subseteq 1 .. k
    <3>1. live \subseteq 1 .. last /\ 1 .. last \subseteq 1 .. k /\ k \in 1 .. k
      BY <1>2 DEF SpentInv, Bounds
    <3> QED BY <3>1, <1>1
  <2> QED BY <1>1, <1>2, <2>1, <2>2, <2>3, <2>4, <2>5 DEF Bounds
<1>10. /\ file # k /\ onb.of # k
       /\ \A w \in Window : memory[w] # k /\ inbox[w] # k /\ ipc[w] # k
       /\ \A b \in Actor : refresh[b].of # k
  BY <1>2, Issued
<1>11. Unseen'
  <2> SUFFICES ASSUME NEW b \in Actor, refresh'[b].stage = "granted"
               PROVE  /\ refresh'[b].of \in Token /\ spentBy'[refresh'[b].of] = None
                      /\ file' # refresh'[b].of /\ onb'.of # refresh'[b].of
                      /\ \A w \in Window : /\ memory'[w] # refresh'[b].of /\ inbox'[w] # refresh'[b].of
                                           /\ ipc'[w] # refresh'[b].of
                      /\ \A c \in Actor \ {b} : refresh'[c].of # refresh'[b].of
    BY DEF Unseen
  <2>1. CASE b = a
    BY <1>1, <1>2, <1>3, <1>4, <1>6, <1>7, <1>10, <2>1
  <2>2. CASE b # a
    <3>1. /\ refresh'[b] = refresh[b] /\ refresh[b].stage = "granted"
      BY <1>6, <2>2
    <3>2. refresh[b].of # old /\ refresh[b].of \in Token /\ spentBy[refresh[b].of] = None
      BY <2>2, <3>1 DEF SpentInv, Unseen
    <3>3. /\ file # refresh[b].of /\ onb.of # refresh[b].of
          /\ \A w \in Window : /\ memory[w] # refresh[b].of /\ inbox[w] # refresh[b].of
                               /\ ipc[w] # refresh[b].of
          /\ \A c \in Actor \ {b} : refresh[c].of # refresh[b].of
      BY <3>1 DEF SpentInv, Unseen
    <3> HIDE DEF old
    <3> QED BY <1>1, <1>6, <1>7, <1>10, <3>1, <3>2, <3>3
  <2> QED BY <2>1, <2>2
<1>12. \A w \in Window : Shows(w, "closed") => w # a
  BY <1>1, ClosedBefore
<1>13. Closes'
  <2> SUFFICES ASSUME NEW w \in Window, Shows(w, "closed")'
               PROVE  /\ refresh'[w].stage = "idle" /\ inbox'[w] = 0 /\ memory'[w] = 0
                      /\ \A t \in Token : spentBy'[t] # w
    BY Numbers DEF Closes
  <2>1. Shows(w, "closed") /\ w # a /\ w \in Actor
    BY <1>1, <1>12, Numbers DEF Shows
  <2> HIDE DEF old
  <2> QED BY <1>1, <1>3, <1>6, <1>7, <2>1, ClosedBefore
<1>14. Holds'
  <2> SUFFICES ASSUME NEW w \in Window
               PROVE  /\ refresh'[w].stage \in {"idle", "sent", "found", "saving"} /\ memory'[w] # 0
                           => spentBy'[memory'[w]] # w
                      /\ refresh'[w].stage \in {"sent", "found"} =>
                           /\ refresh'[w].of \in Token /\ spentBy'[refresh'[w].of] # w
                           /\ refresh'[w].of # inbox'[w]
                      /\ inbox'[w] # 0 => spentBy'[inbox'[w]] # w /\ memory'[w] # inbox'[w]
    BY Numbers DEF Holds
  <2>1. /\ refresh[w].stage \in {"idle", "sent", "found", "saving"} /\ memory[w] # 0
             => spentBy[memory[w]] # w
        /\ refresh[w].stage \in {"sent", "found"} =>
             /\ refresh[w].of \in Token /\ spentBy[refresh[w].of] # w
             /\ refresh[w].of # inbox[w]
        /\ inbox[w] # 0 => spentBy[inbox[w]] # w /\ memory[w] # inbox[w]
    BY Numbers DEF SpentInv, Holds
  <2>2. w \in Actor /\ (memory[w] # 0 => memory[w] \in Token) /\ (inbox[w] # 0 => inbox[w] \in Token)
    BY Issued, Numbers
  <2>3. CASE w = a
    <3>1. inbox[a] # old
      BY <1>1, <2>1, <2>3
    <3> HIDE DEF old
    <3> QED BY <1>1, <1>6, <1>7, <2>1, <2>2, <2>3, <3>1
  <2>4. CASE w # a
    <3>1. \A t \in Token : spentBy[t] # w => spentBy'[t] # w
      BY <1>7, <2>4
    <3> HIDE DEF old
    <3> QED BY <1>1, <1>6, <2>1, <2>2, <2>4, <3>1
  <2> QED BY <2>3, <2>4
<1> QED BY <1>8, <1>9, <1>11, <1>13, <1>14 DEF SpentInv

\* A window takes the token it was granted: nobody else has seen that one.
LEMMA SaveHolds ==
  ASSUME SpentInv, NEW w \in Window, SaveRefreshed(w)
  PROVE  SpentInv'
<1> DEFINE k == refresh[w].of
<1>1. /\ memory' = [memory EXCEPT ![w] = k] /\ ipc' = [ipc EXCEPT ![w] = k]
      /\ refresh' = [refresh EXCEPT ![w].stage = "saving"]
      /\ refresh[w].stage = "granted"
      /\ UNCHANGED <<tokens, ui, inbox, file, onb>>
  BY DEF SaveRefreshed, Post
<1>2. w \in Actor
  BY Numbers
<1>3. /\ k \in Token /\ k \in Nat /\ k <= last /\ spentBy[k] = None
      /\ \A x \in Window : inbox[x] # k /\ memory[x] # k
      /\ \A b \in Actor \ {w} : refresh[b].of # k
  BY <1>1, <1>2, Issued DEF SpentInv, Unseen
<1>4. /\ refresh' \in [Actor -> [stage : Stages, of : Nat]]
      /\ refresh'[w].stage = "saving" /\ refresh'[w].of = k
      /\ \A b \in Actor \ {w} : refresh'[b] = refresh[b]
  BY <1>1, <1>2 DEF SpentInv, Shapes, Stages
<1> HIDE DEF k
<1>5. /\ memory'[w] = k /\ ipc'[w] = k
      /\ \A x \in Window \ {w} : memory'[x] = memory[x] /\ ipc'[x] = ipc[x]
      /\ memory' \in [Window -> Nat] /\ ipc' \in [Window -> Nat \cup {-1}]
  BY <1>1, <1>3 DEF SpentInv, Shapes
<1>6. Shapes'
  BY <1>1, <1>4, <1>5 DEF SpentInv, Shapes, tokens
<1>7. Bounds'
  <2>1. \A x \in Window : memory'[x] <= last /\ inbox'[x] <= last /\ ipc'[x] <= last
    BY <1>1, <1>3, <1>5, Issued
  <2>2. \A b \in Actor : refresh'[b].of <= last
    BY <1>3, <1>4, Issued
  <2> QED BY <1>1, <2>1, <2>2 DEF SpentInv, Bounds, tokens
<1>8. Unseen'
  BY <1>1, <1>3, <1>4, <1>5 DEF SpentInv, Unseen, tokens
<1>9. ~Shows(w, "closed")
  BY <1>1, ClosedBefore
<1>10. Closes'
  BY <1>1, <1>2, <1>4, <1>5, <1>9, Numbers DEF SpentInv, Closes, Shows, tokens
<1>11. Holds'
  BY <1>1, <1>2, <1>3, <1>4, <1>5, Numbers DEF SpentInv, Holds, tokens
<1> QED BY <1>6, <1>7, <1>8, <1>10, <1>11 DEF SpentInv

\* The onboarding presents the session of the file, or the one it read from it.
LEMMA OnboardingHolds ==
  ASSUME SpentInv, OnboardingStart \/ OnboardingRequest
  PROVE  SpentInv'
<1>1. UNCHANGED <<tokens, memory, ui, ipc, inbox, file>>
  BY DEF OnboardingStart, OnboardingRequest
<1>2. \E n \in {file, onb.of} :
        /\ \/ onb' = At("request", n) /\ refresh' = refresh
           \/ onb' \in {Idle, At("ensuring", 0), At("retrying", 0)}
              /\ refresh' \in {refresh, [refresh EXCEPT ![Onboarding] = At("sent", n)]}
  BY Numbers DEF OnboardingStart, OnboardingRequest
<1>3. PICK n \in {file, onb.of} :
        /\ \/ onb' = At("request", n) /\ refresh' = refresh
           \/ onb' \in {Idle, At("ensuring", 0), At("retrying", 0)}
              /\ refresh' \in {refresh, [refresh EXCEPT ![Onboarding] = At("sent", n)]}
  BY <1>2
<1>4. n \in Nat /\ n <= last /\ last \in Nat
  BY Issued
<1>5. \A a \in Actor : refresh[a].stage = "granted" => refresh[a].of # n /\ refresh[a].of # 0
  BY Numbers DEF SpentInv, Unseen
<1>6. /\ onb' \in [stage : {"idle", "ensuring", "request", "retrying"}, of : Nat]
      /\ onb'.of \in {0, n}
  BY <1>3, <1>4 DEF At, Idle, NoSession
<1>7. At("sent", n) \in [stage : Stages, of : Nat]
  BY <1>4, Ats DEF Stages
<1>8. Onboarding \in Actor /\ \A w \in Window : w \in Actor /\ w # Onboarding
  BY Numbers
<1>9. /\ refresh' \in [Actor -> [stage : Stages, of : Nat]]
      /\ \A a \in Actor : \/ refresh'[a] = refresh[a]
                          \/ a = Onboarding /\ refresh'[a].stage = "sent" /\ refresh'[a].of = n
  <2> USE DEF SpentInv, Shapes
  <2>1. CASE refresh' = refresh
    BY <2>1
  <2>2. CASE refresh' = [refresh EXCEPT ![Onboarding] = At("sent", n)]
    BY <2>2, <1>7, <1>8, Ats
  <2> QED BY <1>3, <2>1, <2>2
<1>10. Shapes'
  BY <1>1, <1>6, <1>9 DEF SpentInv, Shapes, tokens
<1>11. Bounds'
  BY <1>1, <1>4, <1>6, <1>9 DEF SpentInv, Bounds, tokens
<1>12. Unseen'
  BY <1>1, <1>5, <1>6, <1>8, <1>9 DEF SpentInv, Unseen, tokens
<1>13. Closes'
  BY <1>1, <1>8, <1>9 DEF SpentInv, Closes, Shows, tokens
<1>14. Holds'
  BY <1>1, <1>8, <1>9 DEF SpentInv, Holds, tokens
<1> QED BY <1>10, <1>11, <1>12, <1>13, <1>14 DEF SpentInv

\* The token the onboarding was granted goes to the file and to one window.
LEMMA OnboardingRefreshedHolds ==
  ASSUME SpentInv, NEW w \in Window, OnboardingRefreshed(w)
  PROVE  SpentInv'
<1> DEFINE k == refresh[Onboarding].of
<1>1. /\ UNCHANGED <<tokens, memory, ui, ipc>>
      /\ refresh[Onboarding].stage = "granted" /\ file' = k
      /\ inbox' = IF Shows(w, "closed") THEN inbox ELSE [inbox EXCEPT ![w] = k]
      /\ onb' \in {At("request", k), Idle}
      /\ refresh' = [refresh EXCEPT ![Onboarding] = Idle]
  BY DEF OnboardingRefreshed
<1>2. Onboarding \in Actor /\ \A x \in Window : x \in Actor /\ x # Onboarding /\ x # None
  BY Numbers
<1>3. /\ k \in Token /\ k \in Nat /\ k <= last /\ k # 0 /\ spentBy[k] = None
      /\ \A x \in Window : memory[x] # k /\ inbox[x] # k /\ ipc[x] # k
      /\ \A b \in Actor \ {Onboarding} : refresh[b].of # k
  BY <1>1, <1>2, Issued, Numbers DEF SpentInv, Unseen
<1>4. /\ refresh' \in [Actor -> [stage : Stages, of : Nat]]
      /\ refresh'[Onboarding].stage = "idle" /\ refresh'[Onboarding].of = 0
      /\ \A b \in Actor \ {Onboarding} : refresh'[b] = refresh[b]
  <2>1. Idle \in [stage : Stages, of : Nat] /\ Idle.stage = "idle" /\ Idle.of = 0
    BY Ats
  <2> QED BY <1>1, <1>2, <2>1 DEF SpentInv, Shapes
<1> HIDE DEF k
<1>5. /\ inbox' \in [Window -> Nat]
      /\ \A x \in Window : \/ inbox'[x] = inbox[x]
                           \/ x = w /\ inbox'[x] = k /\ ~Shows(w, "closed")
  BY <1>1, <1>3 DEF SpentInv, Shapes
<1>6. /\ onb' \in [stage : {"idle", "ensuring", "request", "retrying"}, of : Nat]
      /\ onb'.of \in {0, k}
  BY <1>1, <1>3 DEF At, Idle, NoSession
<1>7. Shapes'
  BY <1>1, <1>3, <1>4, <1>5, <1>6 DEF SpentInv, Shapes, tokens
<1>8. Bounds'
  <2>1. \A x \in Window : memory'[x] <= last /\ inbox'[x] <= last /\ ipc'[x] <= last
    BY <1>1, <1>3, <1>5, Issued
  <2>2. last \in Nat /\ onb'.of <= last /\ file' <= last
    BY <1>1, <1>3, <1>6, Issued
  <2>3. \A b \in Actor : refresh'[b].of <= last
    BY <1>4, Issued
  <2> QED BY <1>1, <2>1, <2>2, <2>3 DEF SpentInv, Bounds, tokens
<1>9. Unseen'
  <2> SUFFICES ASSUME NEW b \in Actor, refresh'[b].stage = "granted"
               PROVE  /\ refresh'[b].of \in Token /\ spentBy'[refresh'[b].of] = None
                      /\ file' # refresh'[b].of /\ onb'.of # refresh'[b].of
                      /\ \A x \in Window : /\ memory'[x] # refresh'[b].of /\ inbox'[x] # refresh'[b].of
                                           /\ ipc'[x] # refresh'[b].of
                      /\ \A c \in Actor \ {b} : refresh'[c].of # refresh'[b].of
    BY DEF Unseen
  <2>1. b # Onboarding /\ refresh'[b] = refresh[b] /\ refresh[b].of # k
    BY <1>3, <1>4
  <2>2. /\ refresh[b].of \in Token /\ spentBy[refresh[b].of] = None /\ refresh[b].of # 0
        /\ \A x \in Window : /\ memory[x] # refresh[b].of /\ inbox[x] # refresh[b].of
                             /\ ipc[x] # refresh[b].of
        /\ \A c \in Actor \ {b} : refresh[c].of # refresh[b].of
    BY <2>1, Numbers DEF SpentInv, Unseen
  <2> QED BY <1>1, <1>4, <1>5, <1>6, <2>1, <2>2 DEF tokens
<1>10. Closes'
  BY <1>1, <1>2, <1>4, <1>5 DEF SpentInv, Closes, Shows, tokens
<1>11. Holds'
  BY <1>1, <1>2, <1>3, <1>4, <1>5 DEF SpentInv, Holds, tokens
<1> QED BY <1>7, <1>8, <1>9, <1>10, <1>11 DEF SpentInv

\* A window takes the session of the message, or, as it opens, of the file.
LEMMA TakesHolds ==
  ASSUME SpentInv, NEW w \in Window, Updated(w) \/ Open(w)
  PROVE  SpentInv'
<1>1. /\ UNCHANGED <<tokens, refresh, ipc, file, onb>>
      /\ \E n \in {inbox[w], file} :
           /\ memory' = [memory EXCEPT ![w] = n]
           /\ \/ n = inbox[w] /\ inbox[w] # 0 /\ inbox' = [inbox EXCEPT ![w] = 0] /\ ~Shows(w, "closed")
              \/ n = file /\ inbox' = inbox /\ Shows(w, "closed")
  BY ClosedBefore, Numbers DEF Updated, Open
<1>2. PICK n \in {inbox[w], file} :
        /\ memory' = [memory EXCEPT ![w] = n]
        /\ \/ n = inbox[w] /\ inbox[w] # 0 /\ inbox' = [inbox EXCEPT ![w] = 0] /\ ~Shows(w, "closed")
           \/ n = file /\ inbox' = inbox /\ Shows(w, "closed")
  BY <1>1
<1>3. n \in Nat /\ n <= last /\ last \in Nat /\ (n # 0 => n \in Token)
  BY Issued
<1>4. /\ ui' \in [Window -> [page : {"closed", "out", "saving", "in", "leaving"}, of : Nat]]
      /\ ~Shows(w, "closed")'
      /\ \A x \in Window \ {w} : Shows(x, "closed")' => Shows(x, "closed")
  <2>1. CASE Updated(w)
    BY <2>1, <1>2, ClosedBefore, Numbers DEF Updated, SpentInv, Shapes, Shows, Page
  <2>2. CASE Open(w)
    BY <2>2, Numbers DEF Open, Show, SpentInv, Shapes, Shows, Page
  <2> QED BY <2>1, <2>2
<1>5. /\ memory' \in [Window -> Nat] /\ inbox' \in [Window -> Nat]
      /\ memory'[w] = n /\ inbox'[w] = 0
      /\ \A x \in Window \ {w} : memory'[x] = memory[x] /\ inbox'[x] = inbox[x]
  BY <1>2, <1>3, ClosedBefore DEF SpentInv, Shapes
<1>6. Shapes'
  BY <1>1, <1>4, <1>5 DEF SpentInv, Shapes, tokens
<1>7. Bounds'
  <2>1. \A x \in Window : memory'[x] <= last /\ inbox'[x] <= last
    BY <1>3, <1>5, Issued
  <2> QED BY <1>1, <2>1 DEF SpentInv, Bounds, tokens
<1>8. Unseen'
  BY <1>1, <1>2, <1>5, Numbers DEF SpentInv, Unseen, tokens
<1>9. Closes'
  BY <1>1, <1>4, <1>5 DEF SpentInv, Closes, tokens
<1>10. n # 0 => spentBy[n] # w
  BY <1>2, <1>3, ClosedBefore, Numbers DEF SpentInv, Holds
<1>11. refresh[w].stage \in {"sent", "found"} => refresh[w].of \in Token /\ spentBy[refresh[w].of] # w
  BY DEF SpentInv, Holds
<1>12. Holds'
  <2> SUFFICES ASSUME NEW x \in Window
               PROVE  /\ refresh'[x].stage \in {"idle", "sent", "found", "saving"} /\ memory'[x] # 0
                           => spentBy'[memory'[x]] # x
                      /\ refresh'[x].stage \in {"sent", "found"} =>
                           /\ refresh'[x].of \in Token /\ spentBy'[refresh'[x].of] # x
                           /\ refresh'[x].of # inbox'[x]
                      /\ inbox'[x] # 0 => spentBy'[inbox'[x]] # x /\ memory'[x] # inbox'[x]
    BY Numbers DEF Holds
  <2>1. CASE x = w
    BY <1>1, <1>5, <1>10, <1>11, <2>1, Numbers DEF tokens
  <2>2. CASE x # w
    BY <1>1, <1>5, <2>2, Numbers DEF SpentInv, Holds, tokens
  <2> QED BY <2>1, <2>2
<1> QED BY <1>6, <1>7, <1>8, <1>9, <1>12 DEF SpentInv

LEMMA SpentStep ==
  ASSUME SpentInv, [Next]_vars
  PROVE  SpentInv'
<1>1. ASSUME NEW p \in Registrar, RegisterBegin(p) \/ RegisterCommit(p) PROVE SpentInv'
  BY <1>1, StillKeeps DEF RegisterBegin, RegisterCommit
<1>2. ASSUME NEW w \in Window, Login(w) \/ Logout(w) \/ HandleIpc(w) \/ Updated(w) \/ Open(w) \/ Close(w)
      PROVE  SpentInv'
  BY <1>2, LoginHolds, AuthenticateForgets, HandleIpcForgets, TakesHolds, CloseForgets
<1>3. ASSUME NEW w \in Window, ClientStep(w) PROVE SpentInv'
  <2>1. CASE Authenticate(w) \/ LogoutAnswered(w) \/ SaveRefreshed(w)
    BY <2>1, AuthenticateForgets, LogoutForgets, SaveHolds
  <2>2. CASE Refreshed(w)
    BY <2>2, Numbers, AnswerForgets DEF Refreshed
  <2>3. CASE RefreshFailed(w)
    BY <2>3, DropForgets DEF RefreshFailed
  <2> QED BY <1>3, <2>1, <2>2, <2>3 DEF ClientStep
<1>4. ASSUME NEW r \in Request, Send(r) PROVE SpentInv'
  BY <1>4, StillKeeps DEF Send
<1>5. ASSUME NEW r \in Request, Unauthorized(r) PROVE SpentInv'
  BY <1>5, UnauthorizedHolds
<1>6. ASSUME NEW r \in Request, UnauthorizedOut(r) PROVE SpentInv'
  <2>1. Home[r] \in Window
    BY BoundsAssumption
  <2> QED BY <1>6, <2>1, DropForgets DEF UnauthorizedOut
<1>7. ASSUME NEW a \in Actor, ServerStep(a) PROVE SpentInv'
  <2>1. CASE RotateFind(a)
    <3>1. refresh[a].stage = "sent" /\ UNCHANGED <<tokens, memory, ui, ipc, inbox, file, onb>>
      BY <2>1 DEF RotateFind
    <3>2. \E x \in {At("found", refresh[a].of), Refused} : refresh' = [refresh EXCEPT ![a] = x]
      BY <2>1 DEF RotateFind
    <3> QED BY <3>1, <3>2, AnswerForgets
  <2>2. CASE RotateCommit(a) /\ refresh[a].of \in live
    BY <2>2, RotateHolds
  <2>3. CASE RotateCommit(a) /\ refresh[a].of \notin live
    BY <2>3, AnswerForgets DEF RotateCommit
  <2>4. CASE RefreshLost(a)
    BY <2>4, AnswerForgets DEF RefreshLost
  <2> QED BY <1>7, <2>1, <2>2, <2>3, <2>4 DEF ServerStep
<1>8. CASE OnboardingStart \/ OnboardingRequest
  BY <1>8, OnboardingHolds
<1>9. CASE OnboardingFailed
  BY <1>9, AnswerForgets, Numbers DEF OnboardingFailed
<1>10. ASSUME NEW w \in Window, OnboardingRefreshed(w) PROVE SpentInv'
  BY <1>10, OnboardingRefreshedHolds
<1>11. CASE AccessExpires \/ \E t \in Token : SessionExpires(t)
  BY <1>11, ExpiryForgets
<1>12. CASE UNCHANGED vars
  BY <1>12, StillKeeps DEF vars
<1> QED
  BY <1>1, <1>2, <1>3, <1>4, <1>5, <1>6, <1>7, <1>8, <1>9, <1>10, <1>11, <1>12 DEF Next, MainStep

LEMMA SpentInit ==
  ASSUME Init
  PROVE  SpentInv
<1> USE Numbers, Ats DEF Init
<1>1. Shapes
  BY DEF Shapes, Page
<1>2. Bounds
  BY DEF Bounds
<1>3. Unseen
  BY DEF Unseen
<1>4. Closes /\ Holds
  BY DEF Closes, Holds, Shows, Page
<1> QED BY <1>1, <1>2, <1>3, <1>4 DEF SpentInv

\* A refresh is answered with a refusal in rotateSession alone, and what it presents
\* there is no token that this window had rotated.
LEMMA RefusalExplained ==
  ASSUME SpentInv, [Next]_vars, NEW w \in Window,
         refresh[w].stage # "refused", refresh'[w].stage = "refused"
  PROVE  spentBy[refresh[w].of] # w
<1>1. w \in Actor /\ Onboarding \in Actor /\ w # Onboarding
  BY Numbers
<1> USE DEF SpentInv, Shapes
<1>2. CASE refresh[w].stage \in {"sent", "found"}
  BY <1>2 DEF Holds
<1>3. CASE refresh[w].stage \notin {"sent", "found"}
  <2>1. ASSUME NEW v \in Window, \/ Login(v) \/ Logout(v) \/ HandleIpc(v) \/ Updated(v) \/ Open(v)
                                 \/ Authenticate(v) \/ LogoutAnswered(v)
        PROVE  FALSE
    BY <2>1 DEF Login, Logout, HandleIpc, Updated, Open, Authenticate, LogoutAnswered
  <2>2. ASSUME NEW v \in Window, Close(v) \/ Refreshed(v) \/ RefreshFailed(v) PROVE FALSE
    BY <1>1, <2>2, Ats DEF Close, Refreshed, RefreshFailed
  <2>3. ASSUME NEW v \in Window, SaveRefreshed(v) PROVE FALSE
    BY <1>1, <2>3 DEF SaveRefreshed
  <2>4. ASSUME NEW r \in Request, Send(r) \/ Unauthorized(r) \/ UnauthorizedOut(r) PROVE FALSE
    <3>1. CASE Send(r) \/ UnauthorizedOut(r)
      BY <3>1 DEF Send, UnauthorizedOut
    <3>2. CASE Unauthorized(r)
      <4>1. Home[r] \in Actor
        BY BoundsAssumption, Numbers
      <4>2. refresh'[w] = refresh[w] \/ refresh'[w] = At("sent", memory[w])
        BY <1>1, <3>2, <4>1 DEF Unauthorized
      <4> QED BY <4>2, Ats
    <3> QED BY <2>4, <3>1, <3>2
  <2>5. ASSUME NEW a \in Actor, RotateFind(a) \/ RotateCommit(a) PROVE FALSE
    <3>1. refresh[a].stage \in {"sent", "found"}
      BY <2>5 DEF RotateFind, RotateCommit
    <3>2. refresh'[w] = refresh[w]
      BY <1>1, <1>3, <2>5, <3>1 DEF RotateFind, RotateCommit, Rotate
    <3> QED BY <3>2
  <2>6. ASSUME NEW a \in Actor, RefreshLost(a) PROVE FALSE
    BY <1>1, <2>6, Ats DEF RefreshLost
  <2>7. ASSUME \/ OnboardingStart \/ OnboardingRequest \/ OnboardingFailed
               \/ \E v \in Window : OnboardingRefreshed(v)
        PROVE  FALSE
    BY <1>1, <2>7, Ats DEF OnboardingStart, OnboardingRequest, OnboardingFailed, OnboardingRefreshed
  <2>8. ASSUME \/ AccessExpires \/ \E t \in Token : SessionExpires(t)
               \/ \E p \in Registrar : RegisterBegin(p) \/ RegisterCommit(p)
        PROVE  FALSE
    BY <2>8 DEF AccessExpires, SessionExpires, RegisterBegin, RegisterCommit
  <2>9. ASSUME UNCHANGED vars PROVE FALSE
    BY <2>9 DEF vars
  <2> QED
    BY <2>1, <2>2, <2>3, <2>4, <2>5, <2>6, <2>7, <2>8, <2>9
    DEF Next, ClientStep, ServerStep, MainStep
<1> QED BY <1>2, <1>3

\* A window is never logged out by its own rotations: however the windows, the
\* onboarding, lost answers and the file interleave, a refused refresh presented a
\* token that somebody else had rotated, or that was revoked or ran out.
THEOREM RefusalsAreOthers == Spec => RefusedByOthers
<1>1. Init => SpentInv
  BY SpentInit
<1>2. SpentInv /\ [Next]_vars => SpentInv'
  BY SpentStep
<1>3. SpentInv /\ [Next]_vars =>
        [\A w \in Window :
           refresh[w].stage # "refused" /\ refresh'[w].stage = "refused" => spentBy[refresh[w].of] # w]_vars
  BY RefusalExplained
<1> QED BY <1>1, <1>2, <1>3, PTL DEF Spec, RefusedByOthers
=============================================================================
