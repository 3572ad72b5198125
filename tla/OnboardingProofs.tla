-------------------------- MODULE OnboardingProofs --------------------------
(***************************************************************************)
(* For any number of authorizations, errors and cancellations: what waits  *)
(* for the user is the active one, what has ended saves no tokens, and the *)
(* dialog never shows a spinner with nobody behind it.                     *)
(***************************************************************************)
EXTENDS Onboarding, TLAPS

\* A server that is up is the active one, cancelled or not: cancelling shuts it.
ServerIsActive == \A f \in Flow : Listens(f) => active = f
PasteIsActive == \A f \in Flow : flow[f] \in Manual /\ f \notin cancelled => active = f
IInv == flow \in [Flow -> State] /\ ServerIsActive /\ PasteIsActive

LEMMA Implied == IInv => WaitingIsActive
  BY DEF IInv, ServerIsActive, PasteIsActive, WaitingIsActive, Listens

\* A step of one flow that stays the active one if it still waits.
LEMMA OneFlow ==
  ASSUME IInv, NEW f \in Flow, NEW s \in State, Go(f, s), UNCHANGED cancelled,
         s # "ended" => active' = active, active # f => active' = active,
         s \in {"listening", "exchanging"} => Listens(f),
         s \in Manual => flow[f] \in Manual
  PROVE  IInv'
<1>1. flow' \in [Flow -> State]
  BY DEF Go, IInv
<1>2. \A g \in Flow : flow'[g] = IF g = f THEN s ELSE flow[g]
  BY DEF Go, IInv
<1>3. ASSUME NEW g \in Flow, active = g, flow'[g] # "ended"
      PROVE  active' = g
  BY <1>2, <1>3
<1>4. ServerIsActive'
  BY <1>2, <1>3 DEF ServerIsActive, Listens, IInv
<1>5. PasteIsActive'
  BY <1>2, <1>3 DEF PasteIsActive, Manual, IInv
<1> QED BY <1>1, <1>4, <1>5 DEF IInv

LEMMA FailsKeeps ==
  ASSUME IInv, NEW f \in Flow, Fails(f)
  PROVE  IInv'
<1>1. Go(f, "ended") /\ cancelled' = cancelled /\ (active # f => active' = active)
  BY DEF Fails, Finally
<1> QED BY <1>1, OneFlow DEF State, Manual

\* Cancelling: the servers and the waits that were active are gone.
LEMMA CancelKeeps ==
  ASSUME IInv, CancelActive, flow' = AfterCancel, active' = None
  PROVE  IInv'
<1>1. flow' \in [Flow -> State]
  BY DEF AfterCancel, Cut, IInv, State, Manual
<1>2. ServerIsActive'
  BY DEF AfterCancel, Cut, IInv, ServerIsActive, Listens
<1>3. PasteIsActive'
  BY ConstantsAssumption DEF AfterCancel, Cut, IInv, PasteIsActive, CancelActive, Manual
<1> QED BY <1>1, <1>2, <1>3 DEF IInv

\* Starting cancels first.
LEMMA StartKeeps ==
  ASSUME IInv, NEW f \in Flow, StartGmail(f) \/ StartYandex(f)
  PROVE  IInv'
<1>1. PICK s \in {"listening", "opening"} : flow' = [AfterCancel EXCEPT ![f] = s]
  BY DEF StartGmail, StartYandex
<1>2. active' = f /\ CancelActive
  BY DEF StartGmail, StartYandex
<1>3. \A g \in Flow : flow'[g] = IF g = f THEN s ELSE IF g = active THEN Cut(flow[g]) ELSE flow[g]
  BY <1>1 DEF AfterCancel
<1>4. flow' \in [Flow -> State]
  BY <1>1 DEF AfterCancel, Cut, IInv, State, Manual
<1>5. ServerIsActive'
  BY <1>2, <1>3 DEF Cut, IInv, ServerIsActive, Listens
<1>6. PasteIsActive'
  BY <1>2, <1>3, ConstantsAssumption DEF Cut, IInv, PasteIsActive, CancelActive, Manual
<1> QED BY <1>4, <1>5, <1>6 DEF IInv

\* What the dialog does else.
LEMMA DialogKeeps ==
  ASSUME IInv,
         \/ Open \/ Close \/ Done \/ CancelButton \/ ToForm \/ SubmitCode
         \/ \E f \in Flow : Dialog(f)
  PROVE  IInv'
<1>1. CASE Open \/ Done \/ ToForm \/ \E f \in Flow : Saved(f)
  BY <1>1 DEF Open, Done, ToForm, Saved, IInv, ServerIsActive, PasteIsActive, Listens
<1>2. CASE Close \/ CancelButton
  BY <1>2, CancelKeeps DEF Close, CancelButton
<1>3. CASE SubmitCode
  <2>1. CASE UNCHANGED flow
    BY <1>3, <2>1 DEF SubmitCode, IInv, ServerIsActive, PasteIsActive, Listens
  <2>2. CASE active \in Flow /\ flow' = [flow EXCEPT ![active] = IF @ = "waiting" THEN "trying" ELSE @]
    <3>1. \A f \in Flow : flow'[f] = flow[f] \/ (f = active /\ flow'[f] = "trying")
      BY <2>2 DEF IInv
    <3>2. flow' \in [Flow -> State]
      BY <2>2 DEF IInv, State, Manual
    <3>3. UNCHANGED <<active, cancelled>>
      BY <1>3 DEF SubmitCode
    <3> QED BY <3>1, <3>2, <3>3 DEF IInv, ServerIsActive, PasteIsActive, Listens
  <2> QED BY <1>3, <2>1, <2>2 DEF SubmitCode
<1>4. CASE \E f \in Flow : StartGmail(f) \/ StartYandex(f)
  BY <1>4, StartKeeps
<1>5. ASSUME NEW f \in Flow, SubmitForm(f)
      PROVE  IInv'
  <2>1. Go(f, "checking") /\ active' = active /\ cancelled' = cancelled
    BY <1>5 DEF SubmitForm
  <2> QED BY <2>1, OneFlow DEF State, Manual
<1> QED BY <1>1, <1>2, <1>3, <1>4, <1>5 DEF Dialog

LEMMA BrowserKeeps ==
  ASSUME IInv, NEW f \in Flow, Browser(f)
  PROVE  IInv'
<1>1. CASE \E t \in Flow : Callback(f, t)
  <2>1. Go(f, "exchanging") /\ active' = active /\ cancelled' = cancelled /\ Listens(f)
    BY <1>1 DEF Callback, Listens
  <2> QED BY <2>1, OneFlow DEF State, Manual
<1>2. CASE Exchanged(f)
  <2>1. Go(f, "asking") /\ active' = active /\ cancelled' = cancelled
    BY <1>2 DEF Exchanged
  <2> QED BY <2>1, OneFlow DEF State, Manual
<1>3. CASE (\E t \in Flow : CallbackRefused(f, t)) \/ LoopbackFails(f) \/ FlowTimeout(f)
  BY <1>3, FailsKeeps DEF CallbackRefused, LoopbackFails, FlowTimeout
<1> QED BY <1>1, <1>2, <1>3 DEF Browser

LEMMA PastedKeeps ==
  ASSUME IInv, NEW f \in Flow, Pasted(f)
  PROVE  IInv'
<1>1. CASE Opened(f) \/ CodeBad(f)
  <2>1. PICK s \in {"trying", "waiting"} : Go(f, s)
    BY <1>1 DEF Opened, CodeBad, NextCode
  <2>2. flow[f] \in Manual /\ UNCHANGED <<active, cancelled>>
    BY <1>1 DEF Opened, CodeBad, NextCode, Manual
  <2> QED BY <2>1, <2>2, OneFlow DEF State, Manual
<1>2. CASE CodeGood(f)
  <2>1. Go(f, "asking") /\ active' = active /\ cancelled' = cancelled
    BY <1>2 DEF CodeGood
  <2> QED BY <2>1, OneFlow DEF State, Manual
<1>3. CASE OpenFails(f) \/ CodeTimeout(f)
  BY <1>3, FailsKeeps DEF OpenFails, CodeTimeout
<1> QED BY <1>1, <1>2, <1>3 DEF Pasted

LEMMA AccountKeeps ==
  ASSUME IInv, NEW f \in Flow, Account(f)
  PROVE  IInv'
<1>1. CASE EmailKnown(f)
  <2>1. Go(f, "checking") /\ active' = active /\ cancelled' = cancelled
    BY <1>1 DEF EmailKnown
  <2> QED BY <2>1, OneFlow DEF State, Manual
<1>2. CASE Persisted(f)
  <2>1. Go(f, "ended") /\ cancelled' = cancelled /\ (active # f => active' = active)
    BY <1>2 DEF Persisted, Finally
  <2> QED BY <2>1, OneFlow DEF State, Manual
<1>3. CASE EmailFails(f) \/ PersistFails(f)
  BY <1>3, FailsKeeps DEF EmailFails, PersistFails
<1>4. CASE Forget(f)
  BY <1>4 DEF Forget, IInv, ServerIsActive, PasteIsActive, Listens
<1> QED BY <1>1, <1>2, <1>3, <1>4 DEF Account

LEMMA StepKeeps == IInv /\ [Next]_vars => IInv'
<1> SUFFICES ASSUME IInv, [Next]_vars PROVE IInv'
  OBVIOUS
<1>1. CASE UNCHANGED vars
  BY <1>1 DEF vars, IInv, ServerIsActive, PasteIsActive, Listens
<1>2. CASE Next
  BY <1>2, DialogKeeps, BrowserKeeps, PastedKeeps, AccountKeeps DEF Next
<1> QED BY <1>1, <1>2

LEMMA InitKeeps == Init => IInv
  BY DEF Init, IInv, ServerIsActive, PasteIsActive, Listens, State, Manual

\* What waits for the user can always be cancelled or given its code, and two servers
\* never want one port, however authorizations, cancellations and errors interleave.
THEOREM WaitingStaysActive == Spec => []WaitingIsActive
  BY Implied, StepKeeps, InitKeeps, PTL DEF Spec

-----------------------------------------------------------------------------
(* The dialog *)

Dialogs == [open : BOOLEAN, step : Step, busy : BOOLEAN, error : BOOLEAN]

LEMMA ShowsType ==
  ASSUME TypeOK
  PROVE  /\ dialog \in Dialogs
         /\ \A s \in Step, b \in BOOLEAN, e \in BOOLEAN :
              Shown(s, b, e) => /\ dialog' \in Dialogs /\ dialog'.open = dialog.open
                                /\ dialog'.step = s /\ dialog'.busy = b /\ dialog'.error = e
         /\ dialog.step \in Step /\ dialog.busy \in BOOLEAN /\ dialog.error \in BOOLEAN
BY DEF TypeOK, Dialogs, Shown, Shows

LEMMA EventsLeft == TypeOK /\ Event => events' \in 0..MaxEvents
BY ConstantsAssumption DEF TypeOK, Event

\* Cancelling leaves every flow where it was or ends it.
LEMMA AfterCancelType ==
  ASSUME TypeOK
  PROVE  /\ AfterCancel \in [Flow -> State]
         /\ \A f \in Flow : AfterCancel[f] \in {flow[f], "ended"}
         /\ \A f \in Flow : f # active => AfterCancel[f] = flow[f]
         /\ CancelActive => cancelled' \subseteq Flow /\ queued' \subseteq Flow
BY DEF TypeOK, AfterCancel, Cut, CancelActive, State, Manual

LEMMA FailsType ==
  ASSUME TypeOK, NEW f \in Flow, Fails(f), stored' \subseteq Flow,
         tokens' = tokens, events' \in 0..MaxEvents
  PROVE  TypeOK'
<1>1. dialog' \in Dialogs
  BY ShowsType DEF Fails
<1>2. flow' \in [Flow -> State] /\ active' \in Flow \cup {None} /\ basic' \in Flow \cup {None}
  BY DEF Fails, TypeOK, Go, Finally, State
<1> QED BY <1>1, <1>2 DEF Fails, TypeOK, Dialogs

LEMMA DialogTyped ==
  ASSUME TypeOK,
         \/ Open \/ Close \/ Done \/ CancelButton \/ ToForm \/ SubmitCode
         \/ \E f \in Flow : Dialog(f)
  PROVE  TypeOK'
<1>s. {"picker", "waiting", "yandex-code", "imap"} \subseteq Step /\ TRUE \in BOOLEAN /\ FALSE \in BOOLEAN
  BY DEF Step
<1>1. CASE Open
  <2>1. dialog' \in Dialogs
    BY <1>1, <1>s DEF Open, Shows, Dialogs
  <2> QED BY <1>1, <2>1 DEF Open, TypeOK, files, Dialogs
<1>2. CASE Close \/ CancelButton
  <2>1. flow' = AfterCancel /\ active' = None /\ CancelActive
    BY <1>2 DEF Close, CancelButton
  <2>2. dialog' \in Dialogs
    BY <1>2, <1>s, ShowsType DEF Close, CancelButton, Dialogs
  <2>3. UNCHANGED <<kind, tab, stored, tokens, basic, saving, events>>
    BY <1>2 DEF Close, CancelButton, files
  <2> QED BY <2>1, <2>2, <2>3, AfterCancelType DEF TypeOK, Dialogs
<1>3. CASE Done \/ \E f \in Flow : Saved(f)
  <2>1. dialog' \in Dialogs /\ saving' \subseteq Flow
    BY <1>3, ShowsType DEF Done, Saved, Dialogs, TypeOK
  <2> QED BY <1>3, <2>1 DEF Done, Saved, TypeOK, files, Dialogs
<1>4. CASE ToForm
  <2>1. dialog' \in Dialogs
    BY <1>4, <1>s, ShowsType DEF ToForm
  <2> QED BY <1>4, <2>1 DEF ToForm, TypeOK, files, Dialogs
<1>5. CASE SubmitCode
  <2>1. dialog' \in Dialogs
    BY <1>5, <1>s, ShowsType DEF SubmitCode
  <2>2. flow' \in [Flow -> State] /\ queued' \subseteq Flow
    BY <1>5 DEF SubmitCode, TypeOK, State, Manual
  <2> QED BY <1>5, <2>1, <2>2 DEF SubmitCode, TypeOK, files, Dialogs
<1>6. ASSUME NEW f \in Flow, StartGmail(f) \/ StartYandex(f)
      PROVE  TypeOK'
  <2>1. PICK s \in {"listening", "opening"} : flow' = [AfterCancel EXCEPT ![f] = s]
    BY <1>6 DEF StartGmail, StartYandex
  <2>2. flow' \in [Flow -> State]
    BY <2>1, AfterCancelType DEF State, Manual
  <2>3. dialog' \in Dialogs
    BY <1>6, <1>s, ShowsType DEF StartGmail, StartYandex
  <2>4. /\ kind' \in [Flow -> {"none", "browser", "manual", "basic"}] /\ active' \in Flow \cup {None}
        /\ CancelActive /\ UNCHANGED <<tab, stored, tokens, basic, saving, events>>
    BY <1>6 DEF StartGmail, StartYandex, TypeOK, files
  <2> QED BY <2>2, <2>3, <2>4, AfterCancelType DEF TypeOK, Dialogs
<1>7. ASSUME NEW f \in Flow, SubmitForm(f)
      PROVE  TypeOK'
  <2>1. dialog' \in Dialogs
    BY <1>7, <1>s, ShowsType DEF SubmitForm
  <2>2. flow' \in [Flow -> State]
    BY <1>7 DEF SubmitForm, Go, TypeOK, State
  <2> QED BY <1>7, <2>1, <2>2 DEF SubmitForm, TypeOK, files, Dialogs
<1> QED BY <1>1, <1>2, <1>3, <1>4, <1>5, <1>6, <1>7 DEF Dialog

LEMMA FlowTyped ==
  ASSUME TypeOK, NEW f \in Flow, Browser(f) \/ Pasted(f) \/ Account(f)
  PROVE  TypeOK'
<1>d. dialog \in Dialogs
  BY ShowsType
<1>1. CASE (\E t \in Flow : Callback(f, t)) \/ Exchanged(f) \/ CodeGood(f)
  BY <1>1 DEF Callback, Exchanged, CodeGood, Go, TypeOK, files, State
<1>2. CASE \/ \E t \in Flow : CallbackRefused(f, t)
           \/ LoopbackFails(f) \/ FlowTimeout(f) \/ OpenFails(f) \/ CodeTimeout(f) \/ EmailFails(f)
  <2>1. Fails(f) /\ UNCHANGED files /\ events' \in 0..MaxEvents
    BY <1>2, EventsLeft DEF CallbackRefused, LoopbackFails, FlowTimeout, OpenFails, CodeTimeout,
       EmailFails, Calm, TypeOK
  <2> QED BY <2>1, FailsType DEF files, TypeOK
<1>3. CASE Opened(f) \/ CodeBad(f)
  <2>1. dialog' \in Dialogs
    BY <1>3, <1>d, ShowsType DEF Opened, CodeBad
  <2>2. events' \in 0..MaxEvents /\ NextCode(f)
    BY <1>3, EventsLeft DEF Opened, CodeBad, Calm, TypeOK
  <2>3. flow' \in [Flow -> State] /\ queued' \subseteq Flow
    BY <2>2 DEF NextCode, Go, TypeOK, State, Manual
  <2> QED BY <2>1, <2>2, <2>3 DEF NextCode, TypeOK, files, Dialogs
<1>4. CASE EmailKnown(f)
  <2>1. dialog' \in Dialogs
    BY <1>4, ShowsType DEF EmailKnown
  <2>2. flow' \in [Flow -> State] /\ tokens' \subseteq {"email", "account"} \X Flow
    BY <1>4 DEF EmailKnown, Go, TypeOK, State
  <2> QED BY <1>4, <2>1, <2>2 DEF EmailKnown, TypeOK, Dialogs
<1>5. CASE Persisted(f)
  <2>1. dialog' \in Dialogs /\ saving' \subseteq Flow
    BY <1>5, <1>d, ShowsType DEF Persisted, TypeOK, Step
  <2>2. flow' \in [Flow -> State] /\ tokens' \subseteq {"email", "account"} \X Flow
    BY <1>5 DEF Persisted, Go, TypeOK, State
  <2>3. active' \in Flow \cup {None} /\ basic' \in Flow \cup {None} /\ stored' \subseteq Flow
    BY <1>5 DEF Persisted, Finally, TypeOK
  <2> QED BY <1>5, <2>1, <2>2, <2>3 DEF Persisted, TypeOK, Dialogs
<1>6. CASE PersistFails(f)
  <2>1. Fails(f) /\ tokens' = tokens /\ stored' \subseteq Flow /\ events' \in 0..MaxEvents
    BY <1>6, EventsLeft DEF PersistFails, TypeOK
  <2> QED BY <2>1, FailsType
<1>7. CASE Forget(f)
  BY <1>7 DEF Forget, TypeOK
<1> QED BY <1>1, <1>2, <1>3, <1>4, <1>5, <1>6, <1>7 DEF Browser, Pasted, Account

\* Every variable keeps its type (account-onboarding.ts, AccountDialog.tsx).
THEOREM TypeCorrect == Spec => []TypeOK
<1>1. Init => TypeOK
  <2> SUFFICES ASSUME Init PROVE TypeOK
    OBVIOUS
  <2>1. dialog \in Dialogs
    BY DEF Init, Shows, Dialogs, Step
  <2>2. events \in 0..MaxEvents
    BY ConstantsAssumption DEF Init
  <2> QED BY <2>1, <2>2 DEF Init, TypeOK, Dialogs, State
<1>2. TypeOK /\ [Next]_vars => TypeOK'
  <2> SUFFICES ASSUME TypeOK, [Next]_vars PROVE TypeOK'
    OBVIOUS
  <2>1. CASE UNCHANGED vars
    BY <2>1 DEF vars, TypeOK
  <2>2. CASE Next
    BY <2>2, DialogTyped, FlowTyped DEF Next
  <2> QED BY <2>1, <2>2
<1> QED BY <1>1, <1>2, PTL DEF Spec

-----------------------------------------------------------------------------
(* Tokens *)

\* What a step may do to one authorization: its kind is set when it starts, its tab when
\* it is redirected, its tokens are saved on the way from the address to the account.
Moves(f) ==
  /\ flow[f] = "ended" => flow'[f] = "ended"
  /\ flow[f] = "checking" => flow'[f] \in {"checking", "ended"}
  /\ kind'[f] = kind[f] \/ flow[f] = "none"
  /\ tab'[f] = tab[f] \/ (flow[f] = "listening" /\ tab'[f] = f)
  /\ <<"email", f>> \in tokens' =>
       <<"email", f>> \in tokens \/ (flow[f] = "asking" /\ flow'[f] = "checking")

\* A step that is about one flow and saves no tokens.
LEMMA OneMoves ==
  ASSUME TypeOK, NEW f \in Flow, NEW s \in State, Go(f, s),
         flow[f] \notin {"checking", "ended"} \/ (flow[f] = "checking" /\ s = "ended"),
         UNCHANGED kind, UNCHANGED tab \/ (flow[f] = "listening" /\ tab' = [tab EXCEPT ![f] = f]),
         \A g \in Flow : <<"email", g>> \in tokens' => <<"email", g>> \in tokens
  PROVE  \A g \in Flow : Moves(g)
BY DEF Go, TypeOK, Moves

LEMMA FlowMoves ==
  ASSUME TypeOK, NEW f \in Flow, Browser(f) \/ Pasted(f) \/ Account(f)
  PROVE  \A g \in Flow : Moves(g)
<1>1. CASE \E t \in Flow : Callback(f, t)
  BY <1>1, OneMoves DEF Callback, Accepted, files, State
<1>2. CASE \/ \E t \in Flow : CallbackRefused(f, t)
           \/ LoopbackFails(f) \/ FlowTimeout(f) \/ OpenFails(f) \/ CodeTimeout(f)
           \/ EmailFails(f) \/ PersistFails(f)
  <2>1. /\ Go(f, "ended") /\ flow[f] \notin {"none", "ended"}
        /\ UNCHANGED <<kind, tab, tokens>>
    BY <1>2 DEF CallbackRefused, LoopbackFails, FlowTimeout, OpenFails, CodeTimeout, EmailFails,
       PersistFails, Fails, files, Listens
  <2> QED BY <2>1, OneMoves DEF State
<1>3. CASE Exchanged(f) \/ Opened(f) \/ CodeGood(f) \/ CodeBad(f)
  <2>1. PICK s \in {"asking", "trying", "waiting"} : Go(f, s)
    BY <1>3 DEF Exchanged, Opened, CodeGood, CodeBad, NextCode
  <2>2. flow[f] \in {"exchanging", "opening", "trying"} /\ UNCHANGED <<kind, tab, tokens>>
    BY <1>3 DEF Exchanged, Opened, CodeGood, CodeBad, NextCode, files
  <2> QED BY <2>1, <2>2, OneMoves DEF State, Manual
<1>4. CASE EmailKnown(f)
  BY <1>4 DEF EmailKnown, Go, TypeOK, Moves
<1>5. CASE Persisted(f)
  <2>1. /\ Go(f, "ended") /\ flow[f] = "checking" /\ UNCHANGED <<kind, tab>>
        /\ \A g \in Flow : <<"email", g>> \in tokens' => <<"email", g>> \in tokens
    BY <1>5 DEF Persisted
  <2> QED BY <2>1, OneMoves DEF State
<1>6. CASE Forget(f)
  BY <1>6 DEF Forget, Moves
<1> QED BY <1>1, <1>2, <1>3, <1>4, <1>5, <1>6 DEF Browser, Pasted, Account

LEMMA DialogMoves ==
  ASSUME TypeOK,
         \/ Open \/ Close \/ Done \/ CancelButton \/ ToForm \/ SubmitCode
         \/ \E f \in Flow : Dialog(f)
  PROVE  \A g \in Flow : Moves(g)
<1>1. CASE Open \/ Done \/ ToForm \/ \E f \in Flow : Saved(f)
  BY <1>1 DEF Open, Done, ToForm, Saved, files, Moves
<1>2. CASE Close \/ CancelButton
  <2>1. flow' = AfterCancel /\ UNCHANGED <<kind, tab, tokens>>
    BY <1>2 DEF Close, CancelButton, files
  <2> QED BY <2>1 DEF AfterCancel, Cut, Moves
<1>3. CASE SubmitCode
  <2>1. UNCHANGED <<kind, tab, tokens>>
    BY <1>3 DEF SubmitCode, files
  <2>2. \A g \in Flow : flow'[g] = flow[g] \/ (flow[g] = "waiting" /\ flow'[g] = "trying")
    BY <1>3 DEF SubmitCode, TypeOK
  <2> QED BY <2>1, <2>2 DEF Moves
<1>4. ASSUME NEW f \in Flow, StartGmail(f) \/ StartYandex(f)
      PROVE  \A g \in Flow : Moves(g)
  <2>1. PICK s \in {"listening", "opening"} : flow' = [AfterCancel EXCEPT ![f] = s]
    BY <1>4 DEF StartGmail, StartYandex
  <2>2. PICK k \in {"browser", "manual"} : kind' = [kind EXCEPT ![f] = k]
    BY <1>4 DEF StartGmail, StartYandex
  <2>3. flow[f] = "none" /\ UNCHANGED <<tab, tokens>>
    BY <1>4 DEF StartGmail, StartYandex, files
  <2> QED BY <2>1, <2>2, <2>3 DEF AfterCancel, Cut, TypeOK, Moves
<1>5. ASSUME NEW f \in Flow, SubmitForm(f)
      PROVE  \A g \in Flow : Moves(g)
  BY <1>5 DEF SubmitForm, Go, files, TypeOK, Moves
<1> QED BY <1>1, <1>2, <1>3, <1>4, <1>5 DEF Dialog

\* Tokens under an address belong to an authorization that has its code behind it.
TokensInv ==
  /\ \A f \in Flow : tab[f] \in {f, None}
  /\ \A f \in Flow : <<"email", f>> \in tokens => flow[f] \in {"checking", "ended"}

\* However authorizations overlap and whatever tabs are still open: what has ended never
\* gets tokens into mail-tokens.bin (finish of loopback.ts, interpretOAuthCallback).
THEOREM EndedStaysWithout == Spec => EndedSavesNothing
<1>1. Init => TokensInv
  BY DEF Init, TokensInv
<1>2. TypeOK /\ [Next]_vars => \A g \in Flow : Moves(g)
  <2>1. UNCHANGED vars => \A g \in Flow : Moves(g)
    BY DEF vars, Moves
  <2> QED BY <2>1, FlowMoves, DialogMoves DEF Next
<1>3. TypeOK /\ TokensInv /\ [Next]_vars => TokensInv'
  BY <1>2 DEF TokensInv, Moves
<1>4. TypeOK /\ TokensInv /\ [Next]_vars =>
        [\A f \in Flow : flow[f] = "ended" /\ f \in Approved' => f \in Approved]_vars
  <2> SUFFICES ASSUME TypeOK, TokensInv, [Next]_vars, NEW f \in Flow, flow[f] = "ended", f \in Approved'
               PROVE  f \in Approved
    OBVIOUS
  <2>1. PICK g \in Flow : <<"email", g>> \in tokens' /\ f = Approval(g)'
    BY DEF Approved
  <2>2. Moves(g)
    BY <1>2
  <2>3. CASE <<"email", g>> \in tokens
    <3>1. flow[g] \in {"checking", "ended"}
      BY <2>3 DEF TokensInv
    <3>2. Approval(g)' = Approval(g)
      BY <2>2, <3>1 DEF Moves, Approval
    <3> QED BY <2>1, <2>3, <3>2 DEF Approved
  <2>4. CASE flow[g] = "asking"
    <3>1. tab'[g] \in {g, None}
      BY <2>2, <2>4 DEF Moves, TokensInv
    <3>2. f = g
      BY <2>1, <3>1, ConstantsAssumption DEF Approval
    <3> QED BY <2>4, <3>2
  <2> QED BY <2>1, <2>2, <2>3, <2>4 DEF Moves
<1> QED BY <1>1, <1>3, <1>4, TypeCorrect, PTL DEF Spec, EndedSavesNothing

-----------------------------------------------------------------------------
(* Spinners *)

\* The active strategy is an authorization under way, and the calls of addBasic, which
\* never are the active one, do nothing but wait for the API.
ActiveRuns == active # None => Running(active) /\ kind[active] # "basic"
BasicOnlyChecks == \A f \in Flow : Running(f) /\ kind[f] = "basic" => flow[f] = "checking"

\* A code that is being tried is that of an authorization under way: a call of addBasic
\* that is still out does not count, its end may leave the dialog as it is.
Behind ==
  dialog.open =>
    /\ dialog.step \in {"waiting", "yandex-code"} /\ ~dialog.error => active # None
    /\ dialog.step = "yandex-code" /\ dialog.busy => \E f \in Flow : Running(f) /\ kind[f] # "basic"

DialogInv == ActiveRuns /\ BasicOnlyChecks /\ Behind

\* The form of an authorization that fails shows the error.
LEMMA FailsBehind ==
  ASSUME TypeOK, TypeOK', DialogInv, NEW f \in Flow, Fails(f)
  PROVE  DialogInv'
<1>1. dialog'.error /\ ~dialog'.busy
  BY ShowsType DEF Fails
<1>2. \A g \in Flow : flow'[g] = (IF g = f THEN "ended" ELSE flow[g]) /\ kind'[g] = kind[g]
  BY DEF Fails, Go, TypeOK
<1>3. active' = IF active = f THEN None ELSE active
  BY DEF Fails, Finally
<1>4. ActiveRuns'
  BY <1>2, <1>3 DEF TypeOK, DialogInv, ActiveRuns, Running
<1>5. BasicOnlyChecks'
  BY <1>2 DEF DialogInv, BasicOnlyChecks, Running
<1> QED BY <1>1, <1>4, <1>5 DEF DialogInv, Behind

\* A flow goes on, and the dialog shows no more than it did, or an error with no spinner.
LEMMA OnwardBehind ==
  ASSUME TypeOK, DialogInv, NEW f \in Flow, NEW s \in State, Go(f, s), s \notin {"none", "ended"},
         Running(f), UNCHANGED <<kind, active>>, kind[f] # "basic",
         \/ dialog' = dialog
         \/ Shown(dialog.step, FALSE, TRUE)
         \/ Shown(dialog.step, TRUE, dialog.error)
  PROVE  DialogInv'
<1>1. \A g \in Flow : flow'[g] = IF g = f THEN s ELSE flow[g]
  BY DEF Go, TypeOK
<1>2. /\ dialog'.open = dialog.open /\ dialog'.step = dialog.step
      /\ dialog.error => dialog'.error
  BY ShowsType
<1>3. ActiveRuns' /\ BasicOnlyChecks'
  BY <1>1 DEF TypeOK, DialogInv, ActiveRuns, BasicOnlyChecks, Running
<1>4. \E g \in Flow : Running(g)' /\ kind'[g] # "basic"
  BY <1>1 DEF Running
<1> QED BY <1>2, <1>3, <1>4 DEF DialogInv, Behind

LEMMA FlowBehind ==
  ASSUME TypeOK, TypeOK', DialogInv, NEW f \in Flow, Browser(f) \/ Pasted(f) \/ Account(f)
  PROVE  DialogInv'
<1>b. Running(f) /\ flow[f] # "checking" => kind[f] # "basic"
  BY DEF DialogInv, BasicOnlyChecks
<1>1. CASE (\E t \in Flow : Callback(f, t)) \/ Exchanged(f) \/ CodeGood(f)
  <2>1. PICK s \in {"exchanging", "asking"} : Go(f, s)
    BY <1>1 DEF Callback, Exchanged, CodeGood
  <2>2. /\ flow[f] \in {"listening", "exchanging", "trying"} /\ UNCHANGED <<kind, active, dialog>>
    BY <1>1 DEF Callback, Exchanged, CodeGood
  <2>3. s \in State /\ s \notin {"none", "ended"} /\ Running(f) /\ kind[f] # "basic"
    BY <1>b, <2>2 DEF State, Running
  <2> QED BY <2>1, <2>2, <2>3, OnwardBehind
<1>2. CASE \/ \E t \in Flow : CallbackRefused(f, t)
           \/ LoopbackFails(f) \/ FlowTimeout(f) \/ OpenFails(f) \/ CodeTimeout(f) \/ EmailFails(f)
           \/ PersistFails(f)
  BY <1>2, FailsBehind DEF CallbackRefused, LoopbackFails, FlowTimeout, OpenFails, CodeTimeout,
     EmailFails, PersistFails
<1>3. CASE Opened(f) \/ CodeBad(f)
  <2>1. PICK s \in {"trying", "waiting"} : Go(f, s)
    BY <1>3 DEF Opened, CodeBad, NextCode
  <2>2. flow[f] \in {"opening", "trying"} /\ UNCHANGED <<kind, active>>
    BY <1>3 DEF Opened, CodeBad, NextCode
  <2>3. s \in State /\ s \notin {"none", "ended"} /\ Running(f) /\ kind[f] # "basic"
    BY <1>b, <2>2 DEF State, Manual, Running
  <2>4. dialog' = dialog \/ Shown(dialog.step, FALSE, TRUE)
    BY <1>3 DEF Opened, CodeBad
  <2> QED BY <2>1, <2>2, <2>3, <2>4, OnwardBehind
<1>4. CASE EmailKnown(f)
  <2>1. /\ Go(f, "checking") /\ flow[f] = "asking" /\ UNCHANGED <<kind, active>>
        /\ Shown(dialog.step, TRUE, dialog.error)
    BY <1>4 DEF EmailKnown
  <2>2. "checking" \in State /\ Running(f) /\ kind[f] # "basic"
    BY <1>b, <2>1 DEF State, Running
  <2> QED BY <2>1, <2>2, OnwardBehind
<1>5. CASE Persisted(f)
  <2>1. /\ \A g \in Flow : flow'[g] = (IF g = f THEN "ended" ELSE flow[g]) /\ kind'[g] = kind[g]
        /\ active' = IF active = f THEN None ELSE active
    BY <1>5 DEF Persisted, Go, Finally, TypeOK
  <2>2. ActiveRuns'
    BY <2>1 DEF TypeOK, DialogInv, ActiveRuns, Running
  <2>3. BasicOnlyChecks'
    BY <2>1 DEF DialogInv, BasicOnlyChecks, Running
  <2>4. Behind'
    <3>1. CASE dialog'.step = "success"
      BY <3>1 DEF Behind
    <3>2. CASE kind[f] = "basic" /\ UNCHANGED dialog
      <4>1. active # f
        BY <3>2, ConstantsAssumption DEF DialogInv, ActiveRuns
      <4>2. active' = active
        BY <2>1, <4>1
      <4>3. \A g \in Flow : Running(g) /\ kind[g] # "basic" => Running(g)' /\ kind'[g] # "basic"
        BY <2>1, <3>2 DEF Running
      <4> QED BY <3>2, <4>2, <4>3 DEF DialogInv, Behind
    <3>3. Shown("success", dialog.busy, dialog.error) => dialog'.step = "success"
      BY ShowsType DEF Step
    <3> QED BY <1>5, <3>1, <3>2, <3>3 DEF Persisted
  <2> QED BY <2>2, <2>3, <2>4 DEF DialogInv
<1>6. CASE Forget(f)
  BY <1>6 DEF Forget, DialogInv, ActiveRuns, BasicOnlyChecks, Behind, Running
<1> QED BY <1>1, <1>2, <1>3, <1>4, <1>5, <1>6 DEF Browser, Pasted, Account

LEMMA DialogBehind ==
  ASSUME TypeOK, TypeOK', DialogInv,
         \/ Open \/ Close \/ Done \/ CancelButton \/ ToForm \/ SubmitCode
         \/ \E f \in Flow : Dialog(f)
  PROVE  DialogInv'
<1>s. {"picker", "waiting", "yandex-code", "imap"} \subseteq Step /\ TRUE \in BOOLEAN /\ FALSE \in BOOLEAN
  BY DEF Step
<1>d. dialog \in Dialogs
  BY ShowsType
\* These show neither of the steps in question, or nothing at all.
<1>1. CASE Open \/ ToForm \/ Done \/ \E f \in Flow : Saved(f)
  <2>1. ~dialog'.open \/ dialog'.step \in {"picker", "imap"}
    <3>1. CASE ToForm
      BY <3>1, <1>s, ShowsType DEF ToForm
    <3>2. CASE Open
      BY <3>2 DEF Open, Shows
    <3>3. CASE Done \/ \E f \in Flow : Saved(f)
      BY <3>3, <1>d DEF Done, Saved, Dialogs
    <3> QED BY <1>1, <3>1, <3>2, <3>3
  <2>2. UNCHANGED <<flow, kind, active>>
    BY <1>1 DEF Open, ToForm, Done, Saved
  <2> QED BY <2>1, <2>2 DEF DialogInv, ActiveRuns, BasicOnlyChecks, Behind, Running
<1>2. CASE Close \/ CancelButton
  <2>1. ~dialog'.open \/ dialog'.step = "picker"
    BY <1>2, <1>s, <1>d, ShowsType DEF Close, CancelButton, Dialogs
  <2>2. flow' = AfterCancel /\ kind' = kind /\ active' = None
    BY <1>2 DEF Close, CancelButton
  <2> QED BY <2>1, <2>2, AfterCancelType DEF DialogInv, ActiveRuns, BasicOnlyChecks, Behind, Running
<1>3. CASE SubmitCode
  <2>1. /\ dialog'.open = dialog.open /\ dialog'.step = "yandex-code" /\ UNCHANGED <<kind, active>>
    BY <1>3, <1>s, ShowsType DEF SubmitCode
  <2>2. CASE dialog'.error /\ ~dialog'.busy /\ UNCHANGED flow
    BY <2>1, <2>2 DEF DialogInv, ActiveRuns, BasicOnlyChecks, Behind, Running
  <2>3. CASE /\ active \in Flow /\ kind[active] = "manual"
             /\ flow' = [flow EXCEPT ![active] = IF @ = "waiting" THEN "trying" ELSE @]
    <3>1. /\ Running(active)
          /\ \A f \in Flow : flow'[f] = IF f = active /\ flow[f] = "waiting" THEN "trying" ELSE flow[f]
      BY <2>3, ConstantsAssumption DEF DialogInv, ActiveRuns, TypeOK
    <3>2. Running(active)' /\ kind'[active] # "basic" /\ active' # None
      BY <2>1, <2>3, <3>1, ConstantsAssumption DEF Running
    <3>3. BasicOnlyChecks'
      BY <2>1, <3>1 DEF DialogInv, BasicOnlyChecks, Running
    <3> QED BY <2>1, <2>3, <3>2, <3>3 DEF DialogInv, ActiveRuns, Behind, Running
  <2>4. /\ Shown("yandex-code", FALSE, TRUE) => dialog'.error /\ ~dialog'.busy
    BY <1>s, ShowsType
  <2> QED BY <1>3, <2>2, <2>3, <2>4 DEF SubmitCode
<1>4. ASSUME NEW f \in Flow, StartGmail(f) \/ StartYandex(f)
      PROVE  DialogInv'
  <2>1. PICK s \in {"listening", "opening"} : flow' = [AfterCancel EXCEPT ![f] = s]
    BY <1>4 DEF StartGmail, StartYandex
  <2>2. PICK k \in {"browser", "manual"} : kind' = [kind EXCEPT ![f] = k]
    BY <1>4 DEF StartGmail, StartYandex
  <2>3. /\ \A g \in Flow : flow'[g] = IF g = f THEN s ELSE AfterCancel[g]
        /\ \A g \in Flow : kind'[g] = IF g = f THEN k ELSE kind[g]
    BY <2>1, <2>2, AfterCancelType DEF TypeOK
  <2>4. active' = f /\ f # None
    BY <1>4, ConstantsAssumption DEF StartGmail, StartYandex
  <2>5. dialog'.step = "waiting" \/ ~dialog'.busy
    BY <1>4, <1>s, <1>d, ShowsType DEF StartGmail, StartYandex
  <2>6. ActiveRuns'
    BY <2>3, <2>4 DEF ActiveRuns, Running
  <2>7. BasicOnlyChecks'
    BY <2>3, AfterCancelType DEF DialogInv, BasicOnlyChecks, Running
  <2> QED BY <2>4, <2>5, <2>6, <2>7 DEF DialogInv, Behind
<1>5. ASSUME NEW f \in Flow, SubmitForm(f)
      PROVE  DialogInv'
  <2>1. dialog'.step = "imap" /\ active' = active /\ flow[f] = "none"
    BY <1>5, <1>s, ShowsType DEF SubmitForm
  <2>2. \A g \in Flow : /\ flow'[g] = IF g = f THEN "checking" ELSE flow[g]
                        /\ kind'[g] = IF g = f THEN "basic" ELSE kind[g]
    BY <1>5 DEF SubmitForm, Go, TypeOK
  <2>3. ActiveRuns'
    BY <2>1, <2>2 DEF DialogInv, ActiveRuns, Running, TypeOK
  <2>4. BasicOnlyChecks'
    BY <2>2 DEF DialogInv, BasicOnlyChecks, Running
  <2> QED BY <2>1, <2>3, <2>4 DEF DialogInv, Behind
<1> QED BY <1>1, <1>2, <1>3, <1>4, <1>5 DEF Dialog

\* Whatever authorizations overlap, end late, are cancelled or fail: the dialog waits for
\* the user, or shows that it is busy, only while there is an authorization behind it
\* (addOAuth and its finally, finish of AccountDialog).
THEOREM SpinnersAreAlive == Spec => []NoDeadSpinner
<1>1. TypeOK /\ DialogInv => NoDeadSpinner
  BY DEF DialogInv, Behind, NoDeadSpinner
<1>2. Init => DialogInv
  BY DEF Init, DialogInv, ActiveRuns, BasicOnlyChecks, Behind, Shows, Running
<1>3. TypeOK /\ TypeOK' /\ DialogInv /\ [Next]_vars => DialogInv'
  <2> SUFFICES ASSUME TypeOK, TypeOK', DialogInv, [Next]_vars PROVE DialogInv'
    OBVIOUS
  <2>1. CASE UNCHANGED vars
    BY <2>1 DEF vars, DialogInv, ActiveRuns, BasicOnlyChecks, Behind, Running
  <2>2. CASE Next
    BY <2>2, DialogBehind, FlowBehind DEF Next
  <2> QED BY <2>1, <2>2
<1> QED BY <1>1, <1>2, <1>3, TypeCorrect, PTL DEF Spec
=============================================================================
