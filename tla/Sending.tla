------------------------------ MODULE Sending ------------------------------
(***************************************************************************)
(* Writing and sending mail: the compose windows of the desktop app        *)
(* (main.ts, ComposeWindowApp.tsx), or its one dialog where there is no    *)
(* Electron (AppShell.tsx), their form and its mutation                    *)
(* (ComposeDialog.tsx), and the API that hands the message to SMTP,        *)
(* endpoint after endpoint (smtp.service.ts), and then stores a copy in    *)
(* the Sent folder over IMAP, attempt after attempt (imap.service.ts).     *)
(* Connections may break before or after a server has done what it was     *)
(* asked to do.                                                            *)
(***************************************************************************)
EXTENDS Naturals

CONSTANTS
  Account,
  None,
  Window,      \* compositions: ids of compose windows, or drafts of the dialog
  Submission,  \* messages/send requests
  Endpoints,   \* account -> SMTP endpoints to try: its own and SMTP_FALLBACKS
  SentFolder,  \* accounts with a \Sent mailbox
  OAuth,       \* accounts that authenticate with tokens
  Retries,     \* TRANSIENT_IMAP_RETRIES
  MaxEvents    \* bound: account changes, reloads, lost answers, failed lookups, crashes of the API

ASSUME ConstantsAssumption ==
  /\ None \notin Account \cup Window \cup Submission
  /\ SentFolder \subseteq Account /\ OAuth \subseteq Account
  /\ Endpoints \in [Account -> Nat \ {0}] /\ Retries \in Nat /\ MaxEvents \in Nat

VARIABLES
  bridge,      \* window.letterBoxCompose is there: the app runs in Electron
  drafts,      \* composeDrafts of the main process
  opened,      \* composeWindows of the main process
  window,      \* composition -> where its window is
  form,        \* composition -> its form and the mutation it watches
  sending,     \* request -> what it sends, where it is, and what its form made of it
  delivered,   \* request -> times an SMTP server has taken its message
  unsure,      \* request -> times the word of that was lost
  copies,      \* request -> its copies in the Sent folder
  unfiled,     \* requests that failed after the delivery, as no folder was found for the copy
  events       \* events left

electron == <<drafts, opened>>
mail == <<delivered, unsure, copies, unfiled>>
vars == <<bridge, drafts, opened, window, form, sending, delivered, unsure, copies, unfiled, events>>

-----------------------------------------------------------------------------
(* Helpers *)

Event == events > 0 /\ events' = events - 1
Calm == UNCHANGED events

\* send is the request whose outcome the form waits for (isPending), round counts the
\* times that the form was set to its draft.
Form(a, s, n) == [account |-> a, send |-> s, round |-> n]
Blank == Form(None, None, 0)
Request(w, a, n, p, i, l, r, h, c) ==
  [window |-> w, account |-> a, round |-> n, pc |-> p, endpoint |-> i, left |-> l,
   renewed |-> r, heard |-> h, cut |-> c]
Unsent == Request(None, None, 0, "none", 0, 0, FALSE, "waiting", FALSE)
InApi == {"smtp", "append", "sent", "failed"}
Set(s, q) == sending' = [sending EXCEPT ![s] = q]
At(s, p) == sending[s].pc = p
With(q, p) == [q EXCEPT !.pc = p]
Ends(q, p) == [q EXCEPT !.pc = p, !.endpoint = 0, !.left = 0, !.renewed = FALSE]
Ready(w) == window[w] = "ready"

\* (mutant of Afresh: the mutation is not reset)
AfreshOnly(w, a) == Form(a, form[w].send, form[w].round + 1)
\* setForm(draft), send.reset(): whatever was typed is gone, and the mutation is not watched.
Afresh(w, a) == Form(a, None, form[w].round + 1)
\* Requests whose form, once it is f, does not wait for them any more.
Forgotten(f) == [s \in Submission |->
  IF ~At(s, "none") /\ sending[s].heard = "waiting" /\ f[sending[s].window].send # s
  THEN [sending[s] EXCEPT !.heard = "forgotten"] ELSE sending[s]]
Waits(s) == ~At(s, "none") /\ form[sending[s].window].send = s
Unwatched(w) == Form(form[w].account, None, form[w].round)

-----------------------------------------------------------------------------
(* Windows *)

\* openCompose: a window of its own, whose draft the main process keeps for it; or else
\* the dialog, which shows this draft instead of the one it may have.
Open(w, a) ==
  /\ window[w] = "none" /\ w = CHOOSE v \in Window : window[v] = "none"
  /\ form' = [v \in Window |->
       IF v = w THEN Form(a, None, 0) ELSE IF bridge THEN form[v] ELSE Unwatched(v)]
  /\ sending' = Forgotten(form')
  /\ \/ /\ bridge
        /\ drafts' = drafts \cup {w} /\ opened' = opened \cup {w}
        /\ window' = [window EXCEPT ![w] = "loading"]
     \/ /\ ~bridge
        /\ window' = [v \in Window |-> IF v = w THEN "ready" ELSE IF Ready(v) THEN "closed" ELSE window[v]]
        /\ UNCHANGED electron
  /\ UNCHANGED <<bridge, mail, events>>

\* (mutant of DraftsLeft: the draft is taken out when it is loaded)
DraftsWithout(w) == drafts \ {w}
\* compose:load reads the draft.
DraftsLeft(w) == drafts

\* loadComposePayload
Load(w) ==
  /\ window[w] = "loading"
  /\ window' = [window EXCEPT ![w] = IF w \in drafts THEN "ready" ELSE "missing"]
  /\ drafts' = DraftsLeft(w)
  /\ UNCHANGED <<bridge, opened, form, sending, mail, events>>

\* The page of a window is loaded again: its form starts from the draft.
Reload(w) ==
  /\ Event
  /\ bridge /\ Ready(w)
  /\ window' = [window EXCEPT ![w] = "loading"]
  /\ form' = [form EXCEPT ![w] = Form(form[w].account, None, form[w].round + 1)]
  /\ sending' = Forgotten(form')
  /\ UNCHANGED <<bridge, electron, mail>>

\* A window closes in steps of its own; the dialog is gone at once.
Leaves == IF bridge THEN "closing" ELSE "closed"

\* The user closes a window, one that still loads its draft too, or leaves the dialog
\* (Escape, cancel, backdrop).
CloseByUser(w) ==
  /\ window[w] \in {"loading", "ready"}
  /\ window' = [window EXCEPT ![w] = Leaves]
  /\ form' = [form EXCEPT ![w] = Unwatched(w)]
  /\ sending' = Forgotten(form')
  /\ UNCHANGED <<bridge, electron, mail, events>>

\* compose:close, which closeWindow calls
CloseDraft(w) ==
  /\ window[w] = "closing" /\ w \in opened
  /\ opened' = opened \ {w} /\ drafts' = drafts \ {w}
  /\ UNCHANGED <<bridge, window, form, sending, mail, events>>

\* window.on('closed')
Closed(w) ==
  /\ window[w] = "closing"
  /\ window' = [window EXCEPT ![w] = "closed"]
  /\ opened' = opened \ {w} /\ drafts' = drafts \ {w}
  /\ UNCHANGED <<bridge, form, sending, mail, events>>

-----------------------------------------------------------------------------
(* The form *)

\* onChangeAccount: the effect on [draft, accountId] starts the form afresh.
ChangeAccount(w, a) ==
  /\ Event
  /\ Ready(w) /\ a # form[w].account
  /\ form' = [form EXCEPT ![w] = Afresh(w, a)]
  /\ sending' = Forgotten(form')
  /\ UNCHANGED <<bridge, electron, window, mail>>

\* (mutant of MaySubmit: the shortcut does not look at isPending)
MaySubmitAgain(w) == Ready(w)
\* Not while a request is in flight; that it has a recipient is taken for granted.
MaySubmit(w) == Ready(w) /\ form[w].send = None

\* submit, or the shortcut: POST messages/send.
Submit(w, s) ==
  /\ MaySubmit(w)
  /\ At(s, "none") /\ s = CHOOSE r \in Submission : At(r, "none")
  /\ form' = [form EXCEPT ![w] = Form(@.account, s, @.round)]
  /\ sending' = [Forgotten(form') EXCEPT ![s] =
       Request(w, form[w].account, form[w].round, "smtp", 1, Retries, FALSE, "waiting", FALSE)]
  /\ UNCHANGED <<bridge, electron, window, mail, events>>

-----------------------------------------------------------------------------
(* The API: smtp.send, then appendMessage *)

\* (mutant of AfterHandOver: the loop goes on to the next endpoint)
AfterHandOverNext(q) ==
  IF q.endpoint < Endpoints[q.account] THEN [q EXCEPT !.endpoint = @ + 1] ELSE With(q, "append")
\* What follows a message that was taken: its copy, where there is a folder for it.
AfterHandOver(q) == IF q.account \in SentFolder THEN With(q, "append") ELSE Ends(q, "sent")

Delivered(s) == delivered' = [delivered EXCEPT ![s] = @ + 1]
\* sendMail answers, and the folder for the copy is looked up.
HandOver(s) ==
  /\ At(s, "smtp")
  /\ Delivered(s)
  /\ Set(s, AfterHandOver(sending[s]))
  /\ UNCHANGED <<bridge, electron, window, form, unsure, copies, unfiled, events>>

\* sendMail answers, but the database fails when it is asked for the folder. Nothing catches
\* that: the request fails although its message is out.
LookupFails(s) ==
  /\ Event
  /\ At(s, "smtp")
  /\ Delivered(s)
  /\ unfiled' = unfiled \cup {s}
  /\ Set(s, Ends(sending[s], "failed"))
  /\ UNCHANGED <<bridge, electron, window, form, unsure, copies>>

\* (mutant of NextEndpoint: one endpoint more than there are)
NextEndpointPast(q) ==
  IF q.endpoint <= Endpoints[q.account] THEN [q EXCEPT !.endpoint = @ + 1] ELSE Ends(q, "failed")
\* (mutant of NextEndpoint: the last error is swallowed)
NextEndpointAnyway(q) ==
  IF q.endpoint < Endpoints[q.account] THEN [q EXCEPT !.endpoint = @ + 1] ELSE With(q, "append")
\* A retryable error (isRetryableSmtpError): the next endpoint, unless it was the last one.
NextEndpoint(q) ==
  IF q.endpoint < Endpoints[q.account] THEN [q EXCEPT !.endpoint = @ + 1] ELSE Ends(q, "failed")

\* The connection breaks, or cannot be made, with an error that is retryable or one that
\* ends the request; the server may have the message all the same.
Breaks(s) ==
  /\ At(s, "smtp")
  /\ \E q \in {NextEndpoint(sending[s]), Ends(sending[s], "failed")} : Set(s, q)
  /\ \/ UNCHANGED <<delivered, unsure>>
     \/ Delivered(s) /\ unsure' = [unsure EXCEPT ![s] = @ + 1]
  /\ UNCHANGED <<bridge, electron, window, form, copies, unfiled, events>>

\* The server refuses the login, the sender or the message; or nothing is sent at all, as
\* sendMessage refuses the request (normalizeSendInput) or has no token (ensureFresh).
Rejects(s) ==
  /\ At(s, "smtp")
  /\ Set(s, Ends(sending[s], "failed"))
  /\ UNCHANGED <<bridge, electron, window, form, mail, events>>

Copied(s) == copies' = [copies EXCEPT ![s] = @ + 1]
\* APPEND answers.
Stores(s) ==
  /\ At(s, "append")
  /\ Copied(s)
  /\ Set(s, Ends(sending[s], "sent"))
  /\ UNCHANGED <<bridge, electron, window, form, delivered, unsure, unfiled, events>>

\* (mutant of GivesUp: without a copy the request fails)
GivesUpLoudly(q) == Ends(q, "failed")
\* That no copy could be stored is only logged.
GivesUp(q) == Ends(q, "sent")
\* isTransientConnectionError: the whole operation again, as long as attempts are left.
AfterBreak(q) == IF q.left > 0 THEN [q EXCEPT !.left = @ - 1] ELSE GivesUp(q)

\* The connection breaks; the copy may have been stored.
AppendBreaks(s) ==
  /\ At(s, "append")
  /\ Copied(s) \/ UNCHANGED copies
  /\ Set(s, AfterBreak(sending[s]))
  /\ UNCHANGED <<bridge, electron, window, form, delivered, unsure, unfiled, events>>

\* (mutant of Renewed: attempts start anew with each token)
RenewedAgain(q) == [q EXCEPT !.left = Retries]
\* The token is refused: it is renewed for one last attempt.
Renewed(q) == [q EXCEPT !.renewed = TRUE, !.left = 0]

\* isAuthenticationError
AppendDenied(s) ==
  /\ At(s, "append")
  /\ sending[s].account \in OAuth /\ ~sending[s].renewed
  /\ Set(s, Renewed(sending[s]))
  /\ UNCHANGED <<bridge, electron, window, form, mail, events>>

\* Any other error, and whatever follows a renewal.
AppendFails(s) ==
  /\ At(s, "append")
  /\ Set(s, GivesUp(sending[s]))
  /\ UNCHANGED <<bridge, electron, window, form, mail, events>>

-----------------------------------------------------------------------------
(* Outcomes *)

\* The forms that wait for the requests F have their outcome.
Shown(F) == form' = [w \in Window |->
  IF form[w].send \in F THEN Unwatched(w) ELSE form[w]]

\* onSuccess closes the window, twice over, or the dialog; an error stays with the form.
Answer(s) ==
  LET q == sending[s] IN
  /\ q.pc \in {"sent", "failed"}
  /\ Set(s, [q EXCEPT !.pc = "done", !.heard = IF Waits(s) THEN q.pc ELSE @])
  /\ Shown({s})
  /\ window' = IF Waits(s) /\ q.pc = "sent" THEN [window EXCEPT ![q.window] = Leaves] ELSE window
  /\ UNCHANGED <<bridge, electron, mail, events>>

\* The connection to the API breaks; the API goes on.
AnswerLost(s) ==
  /\ Event
  /\ sending[s].pc \in InApi /\ Waits(s)
  /\ Set(s, [sending[s] EXCEPT !.heard = "failed", !.cut = TRUE])
  /\ Shown({s})
  /\ UNCHANGED <<bridge, electron, window, mail>>

\* The API dies: none of its requests goes on.
Crash ==
  /\ Event
  /\ \E s \in Submission : sending[s].pc \in InApi
  /\ sending' = [s \in Submission |->
       IF sending[s].pc \notin InApi THEN sending[s]
       ELSE [Ends(sending[s], "done") EXCEPT !.cut = TRUE, !.heard = IF Waits(s) THEN "failed" ELSE @]]
  /\ Shown({s \in Submission : sending[s].pc \in InApi /\ Waits(s)})
  /\ UNCHANGED <<bridge, electron, window, mail>>

-----------------------------------------------------------------------------
Init ==
  /\ bridge \in BOOLEAN
  /\ drafts = {} /\ opened = {}
  /\ window = [w \in Window |-> "none"] /\ form = [w \in Window |-> Blank]
  /\ sending = [s \in Submission |-> Unsent]
  /\ delivered = [s \in Submission |-> 0] /\ unsure = delivered /\ copies = delivered /\ unfiled = {}
  /\ events = MaxEvents

Screen(w) ==
  \/ Load(w) \/ Reload(w) \/ CloseByUser(w) \/ CloseDraft(w) \/ Closed(w)
  \/ \E a \in Account : Open(w, a) \/ ChangeAccount(w, a)
  \/ \E s \in Submission : Submit(w, s)
Smtp(s) == HandOver(s) \/ LookupFails(s) \/ Breaks(s) \/ Rejects(s)
Append(s) == Stores(s) \/ AppendBreaks(s) \/ AppendDenied(s) \/ AppendFails(s)

Next ==
  \/ \E w \in Window : Screen(w)
  \/ \E s \in Submission : Smtp(s) \/ Append(s) \/ Answer(s) \/ AnswerLost(s)
  \/ Crash

Spec == Init /\ [][Next]_vars

\* Every connection has its timeouts, and the API answers what it has ended.
Fairness == \A s \in Submission : WF_vars(Smtp(s) \/ Append(s) \/ Answer(s))
FairSpec == Spec /\ Fairness

-----------------------------------------------------------------------------
(* Properties *)

Forms == [account : Account \cup {None}, send : Submission \cup {None}, round : Nat]
Requests == [window : Window \cup {None}, account : Account \cup {None}, round : Nat,
             pc : InApi \cup {"none", "done"}, endpoint : Nat, left : 0..Retries,
             renewed : BOOLEAN, heard : {"waiting", "sent", "failed", "forgotten"}, cut : BOOLEAN]
Places == {"none", "loading", "ready", "missing", "closing", "closed"}
\* Every variable has its type, a request stays within the endpoints of its account, and
\* what a form waits for is a request of its own account that has no outcome yet.
TypeOK ==
  /\ bridge \in BOOLEAN /\ drafts \subseteq Window /\ opened \subseteq Window
  /\ window \in [Window -> Places] /\ form \in [Window -> Forms]
  /\ sending \in [Submission -> Requests]
  /\ delivered \in [Submission -> Nat] /\ unsure \in [Submission -> Nat] /\ copies \in [Submission -> Nat]
  /\ unfiled \subseteq Submission /\ events \in 0..MaxEvents
  /\ \A s \in Submission : At(s, "smtp") =>
       sending[s].account \in Account /\ sending[s].endpoint \in 1..Endpoints[sending[s].account]

\* The main process keeps the draft of a window exactly as long as the window may ask for
\* it: no window shows "draft not found", and a closed one leaves none (compose:open,
\* compose:close, 'closed').
DraftsOfWindows ==
  \A w \in Window :
    /\ window[w] # "missing"
    /\ window[w] \in {"none", "closed"} => w \notin drafts \cup opened

\* What the user sees is what happened. A window that closed itself has sent its message,
\* from the account it showed (onSuccess of ComposeDialog). An error is shown for a message
\* that went out only if the word of it was lost, between SMTP and the API or between the
\* API and the app, or if the database failed to name the folder for its copy, which is
\* asked outside the try: that the copy could not be stored is no error
\* (MailService.sendMessage).
OutcomesAreHonest ==
  \A s \in Submission :
    /\ sending[s].heard = "sent" =>
         /\ delivered[s] > 0
         /\ sending[s].account = form[sending[s].window].account
         /\ window[sending[s].window] \in {"closing", "closed"}
    /\ sending[s].heard = "failed" /\ delivered[s] > 0 =>
         unsure[s] > 0 \/ sending[s].cut \/ s \in unfiled

\* Recipients get a message once more only if an SMTP connection broke under it; a form
\* sends once more only if it was told that the first time failed, or was started afresh
\* (sendWithFallback, submit and the shortcut).
DuplicatesHaveCause ==
  /\ \A s \in Submission : delivered[s] <= 1 + unsure[s]
  /\ \A s, t \in Submission :
       /\ s # t /\ ~At(s, "none") /\ ~At(t, "none")
       /\ sending[s].window = sending[t].window /\ sending[s].round = sending[t].round
       => "failed" \in {sending[s].heard, sending[t].heard}

\* The Sent folder holds copies of messages whose delivery was confirmed, and no other,
\* and not more of one than there are attempts to store it (MailService.sendMessage
\* appends what smtp.send returned; withClient repeats an APPEND that may have worked).
CopyOfDelivered ==
  \A s \in Submission :
    /\ copies[s] > 0 => delivered[s] = 1 + unsure[s]
    /\ copies[s] <= Retries + 1

\* No form says for ever that it is sending (timeouts of SMTP, retries of IMAP).
SendSettles == \A w \in Window : []<>(form[w].send = None)
=============================================================================
