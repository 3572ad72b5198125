----------------------------- MODULE Onboarding -----------------------------
(***************************************************************************)
(* Connecting mail accounts from the desktop: the authorizations of the    *)
(* main process (account-onboarding.ts), which run in a browser against a  *)
(* loopback server (loopback.ts) or with a pasted code (manual-code.ts),   *)
(* and the dialog of the renderer that starts, shows and cancels them      *)
(* (AccountDialog.tsx). IPC keeps its order and is taken as immediate; the *)
(* session the last step uses is the subject of AuthSessions.              *)
(***************************************************************************)
EXTENDS Integers, FiniteSets

CONSTANTS
  Flow,       \* calls of addOAuth and addBasic
  None,
  FixedPort,  \* OAUTH_LOOPBACK_PORT is set: every server listens on the same port
  MaxEvents   \* bound: refusals, errors, wrong codes, redirects of other tabs

ASSUME ConstantsAssumption == None \notin Flow /\ FixedPort \in BOOLEAN /\ MaxEvents \in Nat

VARIABLES
  flow,       \* flow -> where authenticate and persist are
  kind,       \* flow -> its strategy
  active,     \* this.active: the strategy that cancel and submitOAuthCode address
  queued,     \* flows with a queuedCode
  tab,        \* flow -> the browser tab whose code it exchanges
  cancelled,  \* flows that cancel() has addressed
  stored,     \* flows whose account the API has stored
  tokens,     \* flows whose tokens are in mail-tokens.bin: under the address, or the account id
  dialog,     \* the dialog: open, its step, busy, error
  basic,      \* the call of addBasic that the form waits for
  saving,     \* flows whose success closes the dialog soon
  events      \* events left

vars == <<flow, kind, active, queued, tab, cancelled, stored, tokens, dialog, basic, saving, events>>
files == <<stored, tokens>>

-----------------------------------------------------------------------------
(* Helpers *)

Listens(f) == flow[f] \in {"listening", "exchanging"}        \* the loopback server is up
Manual == {"opening", "waiting", "trying"}
State == Manual \cup {"none", "listening", "exchanging", "asking", "checking", "ended"}
Running(f) == flow[f] \notin {"none", "ended"}
Step == {"picker", "waiting", "yandex-code", "imap", "success"}
Event == events > 0 /\ events' = events - 1
Calm == UNCHANGED events

Shows(o, s, b, e) == [open |-> o, step |-> s, busy |-> b, error |-> e]
Shown(s, b, e) == dialog' = Shows(dialog.open, s, b, e)
Go(f, s) == flow' = [flow EXCEPT ![f] = s]

\* (mutant of Cut: the timer is cleared and nobody is told)
CutSilently(s) == CASE s \in {"listening", "exchanging"} -> "ended" [] s = "waiting" -> "stuck" [] OTHER -> s
\* cancel() of a strategy: it reaches a server that is up and a wait for a code, and
\* nothing that is already past them.
Cut(s) == IF s \in {"listening", "exchanging", "waiting"} THEN "ended" ELSE s
AfterCancel == [f \in Flow |-> IF f = active THEN Cut(flow[f]) ELSE flow[f]]
CancelActive ==
  /\ cancelled' = cancelled \cup ({active} \ {None})
  /\ queued' = queued \ {active}

\* (mutant of Finally: whoever ends clears it)
FinallyAlways(f) == active' = None
\* finally: only the strategy that is still the active one clears it.
Finally(f) == active' = IF active = f THEN None ELSE active

\* The promise of the dialog is rejected, or answers with an error.
Fails(f) ==
  /\ Go(f, "ended") /\ Finally(f)
  /\ basic' = IF basic = f THEN None ELSE basic
  /\ Shown(dialog.step, FALSE, TRUE)
  /\ UNCHANGED <<kind, tab, cancelled, queued, saving>>

-----------------------------------------------------------------------------
(* The dialog *)

Open ==
  /\ ~dialog.open
  /\ \E s \in {"picker", "imap"} : dialog' = Shows(TRUE, s, FALSE, FALSE)
  /\ basic' = None
  /\ UNCHANGED <<flow, kind, active, queued, tab, cancelled, saving, events>> /\ UNCHANGED files

\* The backdrop, which cancels; the button of the last step and a success, which do not.
Close ==
  /\ dialog.open
  /\ dialog' = [dialog EXCEPT !.open = FALSE]
  /\ flow' = AfterCancel /\ active' = None /\ CancelActive
  /\ UNCHANGED <<kind, tab, basic, saving, events>> /\ UNCHANGED files
Done ==
  /\ dialog.open /\ dialog.step = "success"
  /\ dialog' = [dialog EXCEPT !.open = FALSE]
  /\ UNCHANGED <<flow, kind, active, queued, tab, cancelled, basic, saving, events>> /\ UNCHANGED files
Saved(f) ==
  /\ f \in saving
  /\ saving' = saving \ {f}
  /\ dialog' = [dialog EXCEPT !.open = FALSE]
  /\ UNCHANGED <<flow, kind, active, queued, tab, cancelled, basic, events>> /\ UNCHANGED files

CancelButton ==
  /\ dialog.open /\ dialog.step \in {"waiting", "yandex-code"}
  /\ Shown("picker", IF dialog.step = "waiting" THEN dialog.busy ELSE FALSE, FALSE)
  /\ flow' = AfterCancel /\ active' = None /\ CancelActive
  /\ UNCHANGED <<kind, tab, basic, saving, events>> /\ UNCHANGED files
ToForm ==
  /\ dialog.open /\ dialog.step \in {"picker", "imap"}
  /\ Shown(IF dialog.step = "picker" THEN "imap" ELSE "picker", dialog.busy, FALSE)
  /\ UNCHANGED <<flow, kind, active, queued, tab, cancelled, basic, saving, events>> /\ UNCHANGED files

MayStart(s) == dialog.open /\ (dialog.step = "picker" \/ (dialog.step = s /\ dialog.error))
\* startGmail and startYandex, then addOAuth: it cancels the active one first.
StartGmail(f) ==
  /\ flow[f] = "none" /\ MayStart("waiting")
  /\ flow' = [AfterCancel EXCEPT ![f] = "listening"] /\ kind' = [kind EXCEPT ![f] = "browser"]
  /\ active' = f /\ CancelActive
  /\ Shown("waiting", dialog.busy, FALSE)
  /\ UNCHANGED <<tab, basic, saving, events>> /\ UNCHANGED files
StartYandex(f) ==
  /\ flow[f] = "none" /\ MayStart("yandex-code")
  /\ flow' = [AfterCancel EXCEPT ![f] = "opening"] /\ kind' = [kind EXCEPT ![f] = "manual"]
  /\ active' = f /\ CancelActive
  /\ Shown("yandex-code", FALSE, FALSE)
  /\ UNCHANGED <<tab, basic, saving, events>> /\ UNCHANGED files
\* submitImap, then addBasic: it knows nothing of the active one.
SubmitForm(f) ==
  /\ flow[f] = "none" /\ dialog.open /\ dialog.step = "imap" /\ basic = None
  /\ Go(f, "checking") /\ kind' = [kind EXCEPT ![f] = "basic"]
  /\ basic' = f
  /\ Shown("imap", TRUE, FALSE)
  /\ UNCHANGED <<active, queued, tab, cancelled, saving, events>> /\ UNCHANGED files

\* submitYandexCode: the code goes to the wait of the active strategy, or is queued there.
SubmitCode ==
  /\ dialog.open /\ dialog.step = "yandex-code" /\ ~dialog.busy
  /\ \/ /\ active \notin {f \in Flow : kind[f] = "manual"}
        /\ Shown("yandex-code", FALSE, TRUE)
        /\ UNCHANGED <<flow, queued>>
     \/ /\ active \in {f \in Flow : kind[f] = "manual"}
        /\ Shown("yandex-code", TRUE, FALSE)
        /\ flow' = [flow EXCEPT ![active] = IF @ = "waiting" THEN "trying" ELSE @]
        /\ queued' = IF flow[active] = "waiting" THEN queued ELSE queued \cup {active}
  /\ UNCHANGED <<kind, active, tab, cancelled, basic, saving, events>> /\ UNCHANGED files

-----------------------------------------------------------------------------
(* The loopback flow *)

\* (mutant of Accepted: the state is not compared)
AcceptedFromAnyTab(f, t) == FixedPort \/ t = f
\* interpretOAuthCallback: a code counts when it comes with the state of this flow.
Accepted(f, t) == t = f

\* The tab of flow t is redirected to the server of flow f.
Callback(f, t) ==
  /\ flow[f] = "listening" /\ kind[t] = "browser" /\ (t = f \/ FixedPort)
  /\ Accepted(f, t)
  /\ Go(f, "exchanging") /\ tab' = [tab EXCEPT ![f] = t]
  /\ UNCHANGED <<kind, active, queued, cancelled, dialog, basic, saving, events>> /\ UNCHANGED files
CallbackRefused(f, t) ==
  /\ Listens(f) /\ kind[t] = "browser" /\ (t = f \/ FixedPort)
  /\ Event                        \* denied, another state, or no code
  /\ Fails(f) /\ UNCHANGED files
Exchanged(f) ==
  /\ flow[f] = "exchanging"
  /\ Go(f, "asking")
  /\ UNCHANGED <<kind, active, queued, tab, cancelled, dialog, basic, saving, events>> /\ UNCHANGED files
\* The exchange fails, or the server or the browser cannot be opened.
LoopbackFails(f) == Listens(f) /\ Event /\ Fails(f) /\ UNCHANGED files
FlowTimeout(f) == Listens(f) /\ Calm /\ Fails(f) /\ UNCHANGED files

-----------------------------------------------------------------------------
(* The code that is pasted *)

\* waitForCode: a queued code is tried at once.
NextCode(f) ==
  /\ Go(f, IF f \in queued THEN "trying" ELSE "waiting")
  /\ queued' = queued \ {f}
  /\ UNCHANGED <<kind, active, tab, cancelled, basic, saving>> /\ UNCHANGED files
Opened(f) == flow[f] = "opening" /\ Calm /\ NextCode(f) /\ UNCHANGED dialog
OpenFails(f) == flow[f] = "opening" /\ Event /\ Fails(f) /\ UNCHANGED files
CodeGood(f) ==
  /\ flow[f] = "trying"
  /\ Go(f, "asking")
  /\ UNCHANGED <<kind, active, queued, tab, cancelled, dialog, basic, saving, events>> /\ UNCHANGED files
\* onInvalidCode: the dialog hears of it, and the strategy waits again, cancelled or not.
CodeBad(f) ==
  /\ flow[f] = "trying" /\ Event
  /\ NextCode(f)
  /\ Shown(dialog.step, FALSE, TRUE)
CodeTimeout(f) == flow[f] = "waiting" /\ Calm /\ Fails(f) /\ UNCHANGED files

-----------------------------------------------------------------------------
(* The account *)

\* fetchProviderEmail, tokenStore.save under the address, phase checking.
EmailKnown(f) ==
  /\ flow[f] = "asking"
  /\ Go(f, "checking")
  /\ tokens' = tokens \cup {<<"email", f>>}
  /\ Shown(dialog.step, TRUE, dialog.error)
  /\ UNCHANGED <<kind, active, queued, tab, cancelled, stored, basic, saving, events>>
EmailFails(f) == flow[f] = "asking" /\ Event /\ Fails(f) /\ UNCHANGED files

\* persist: the API stores the account. finish shows it, but a form that was reset
\* since does not wait for its call any more.
Persisted(f) ==
  /\ flow[f] = "checking"
  /\ Go(f, "ended") /\ Finally(f)
  /\ stored' = stored \cup {f}
  /\ tokens' = IF kind[f] = "basic" THEN tokens ELSE tokens \cup {<<"account", f>>}
  /\ \/ /\ kind[f] # "basic" \/ basic = f
        /\ Shown("success", dialog.busy, dialog.error)
        /\ saving' = saving \cup {f}
     \/ /\ kind[f] = "basic" /\ basic # f
        /\ UNCHANGED <<dialog, saving>>
  /\ basic' = IF basic = f THEN None ELSE basic
  /\ UNCHANGED <<kind, tab, cancelled, queued, events>>
\* Refused by the API, or its answer is lost.
PersistFails(f) ==
  /\ flow[f] = "checking" /\ Event
  /\ Fails(f)
  /\ stored' \in {stored, stored \cup {f}}
  /\ UNCHANGED tokens

\* useDeleteAccountMutation: the tokens under the id go first, then the account.
Forget(f) ==
  /\ f \in stored /\ <<"account", f>> \in tokens
  /\ tokens' = tokens \ {<<"account", f>>}
  /\ UNCHANGED <<flow, kind, active, queued, tab, cancelled, stored, dialog, basic, saving, events>>

-----------------------------------------------------------------------------

Init ==
  /\ flow = [f \in Flow |-> "none"] /\ kind = [f \in Flow |-> "none"]
  /\ active = None /\ queued = {} /\ tab = [f \in Flow |-> None]
  /\ cancelled = {} /\ stored = {} /\ tokens = {} /\ basic = None /\ saving = {}
  /\ dialog = Shows(FALSE, "picker", FALSE, FALSE)
  /\ events = MaxEvents

Browser(f) ==
  \/ \E t \in Flow : Callback(f, t) \/ CallbackRefused(f, t)
  \/ Exchanged(f) \/ LoopbackFails(f) \/ FlowTimeout(f)
Pasted(f) == Opened(f) \/ OpenFails(f) \/ CodeGood(f) \/ CodeBad(f) \/ CodeTimeout(f)
Account(f) == EmailKnown(f) \/ EmailFails(f) \/ Persisted(f) \/ PersistFails(f) \/ Forget(f)
Dialog(f) == StartGmail(f) \/ StartYandex(f) \/ SubmitForm(f) \/ Saved(f)

Next ==
  \/ Open \/ Close \/ Done \/ CancelButton \/ ToForm \/ SubmitCode
  \/ \E f \in Flow : Dialog(f) \/ Browser(f) \/ Pasted(f) \/ Account(f)

Spec == Init /\ [][Next]_vars

\* Timers fire and requests come to an end; nothing is assumed of the user.
Fairness ==
  \A f \in Flow :
    /\ WF_vars(FlowTimeout(f)) /\ WF_vars(Opened(f)) /\ WF_vars(CodeTimeout(f))
    /\ WF_vars(CodeGood(f) \/ CodeBad(f))
    /\ WF_vars(EmailKnown(f)) /\ WF_vars(Persisted(f))
FairSpec == Spec /\ Fairness

-----------------------------------------------------------------------------
(* Properties *)

\* Types.
TypeOK ==
  /\ flow \in [Flow -> State] /\ kind \in [Flow -> {"none", "browser", "manual", "basic"}]
  /\ active \in Flow \cup {None} /\ queued \subseteq Flow /\ tab \in [Flow -> Flow \cup {None}]
  /\ cancelled \subseteq Flow /\ stored \subseteq Flow /\ tokens \subseteq {"email", "account"} \X Flow
  /\ dialog \in [open : BOOLEAN, step : Step, busy : BOOLEAN, error : BOOLEAN]
  /\ basic \in Flow \cup {None} /\ saving \subseteq Flow /\ events \in 0 .. MaxEvents

\* What waits for the user can be cancelled and can be given its code, unless it was
\* cancelled before (account-onboarding.ts:37, :70): no later end of an earlier
\* authorization takes the active one away, and two servers never want the same port.
WaitingIsActive ==
  /\ \A f \in Flow : flow[f] \in {"listening", "exchanging"} \cup Manual /\ f \notin cancelled => active = f
  /\ \A f, g \in Flow : Listens(f) /\ Listens(g) => f = g

\* The authorizations that the user approved and whose tokens are in mail-tokens.bin: a
\* browser flow saves those of the tab that was redirected to its server.
Approval(f) == IF kind[f] = "browser" THEN tab[f] ELSE f
Approved == {Approval(f) : f \in {g \in Flow : <<"email", g>> \in tokens}}

\* An authorization that has ended, cancelled, replaced, timed out or refused, stays
\* without tokens (loopback.ts:35 ends it once, callback.ts:14 compares the state),
\* although its tab is still open, may be approved later and, with a fixed port, is
\* redirected to the server of the authorization that followed it.
EndedSavesNothing == [][\A f \in Flow : flow[f] = "ended" /\ f \in Approved' => f \in Approved]_vars

\* The dialog never shows a spinner, or asks for a code, with nobody behind it
\* (AccountDialog.tsx:206, :262), whatever earlier authorizations still report.
NoDeadSpinner ==
  dialog.open =>
    /\ dialog.step \in {"waiting", "yandex-code"} /\ ~dialog.error => active # None
    /\ dialog.step = "yandex-code" /\ dialog.busy => \E f \in Flow : Running(f)

\* Every authorization ends, cancelled or not: one that waits again for a code after it
\* was cancelled has nobody who could give it one, and only its timer ends it.
FlowsEnd == \A f \in Flow : []<>~Running(f)

\* AccountDialog.tsx:237 offers to cancel and loopback.ts:13 says that the authorization
\* was cancelled: what was cancelled connects no account any more. It does not hold, see
\* the known limits in the README.
CancelledConnectsNothing == [][\A f \in cancelled : f \in stored' => f \in stored]_vars
=============================================================================
