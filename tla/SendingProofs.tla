--------------------------- MODULE SendingProofs ---------------------------
(***************************************************************************)
(* For any number of windows, requests, endpoints, retries and failures:   *)
(* the variables have their types, the drafts are there for their windows, *)
(* what a form shows of its requests is what happened to them, whatever    *)
(* the recipients get twice has its cause, and the Sent folder holds       *)
(* copies of messages whose delivery was confirmed.                        *)
(***************************************************************************)
EXTENDS Sending, TLAPS

\* A request is a record; only its stage and its attempts matter here.
Fields == {"pc", "left"}
WellFormed(q) == Fields \subseteq DOMAIN q

\* What has happened to a message of a request q: as many deliveries d as there were
\* breaks with no word of them, u, until one is confirmed, and only then copies c.
Ledger(q, d, u, c) ==
  /\ d \in Nat /\ u \in Nat /\ c \in Nat
  /\ q.pc \in {"none", "smtp"} => d = u /\ c = 0
  /\ q.pc = "smtp" => q.left \in 0..Retries
  /\ q.pc = "append" => d = 1 + u /\ q.left \in Nat /\ c + q.left <= Retries
  /\ q.pc = "sent" => d = 1 + u
  /\ d <= 1 + u /\ (c > 0 => d = 1 + u)
  /\ c <= Retries + 1

IInv ==
  /\ DOMAIN sending = Submission /\ sending = [s \in Submission |-> sending[s]]
  /\ delivered \in [Submission -> Nat] /\ unsure \in [Submission -> Nat] /\ copies \in [Submission -> Nat]
  /\ \A s \in Submission : WellFormed(sending[s])
  /\ \A s \in Submission : Ledger(sending[s], delivered[s], unsure[s], copies[s])
  /\ \A s \in Submission : At(s, "failed") => delivered[s] = unsure[s] \/ s \in unfiled

LEMMA Implied == IInv => CopyOfDelivered
  BY DEF IInv, Ledger, CopyOfDelivered

\* A step that leaves the stage and the attempts of every request, or ends it.
LEMMA Quietly ==
  ASSUME IInv, UNCHANGED mail, DOMAIN sending' = Submission, sending' = [s \in Submission |-> sending'[s]],
         \A s \in Submission :
           /\ WellFormed(sending'[s])
           /\ \/ sending'[s].pc = sending[s].pc /\ sending'[s].left = sending[s].left
              \/ sending'[s].pc = "done"
  PROVE  IInv'
<1>1. ASSUME NEW s \in Submission
      PROVE  Ledger(sending'[s], delivered[s], unsure[s], copies[s])
  BY DEF IInv, Ledger
<1>2. \A s \in Submission : At(s, "failed")' => delivered[s] = unsure[s] \/ s \in unfiled
  BY DEF IInv, At
<1> QED BY <1>1, <1>2 DEF IInv, mail

\* A step of one request.
LEMMA OneRequest ==
  ASSUME IInv, NEW s \in Submission, NEW q, NEW d, NEW u, NEW c, Set(s, q),
         WellFormed(q), Ledger(q, d, u, c),
         unfiled \subseteq unfiled', q.pc = "failed" => d = u \/ s \in unfiled',
         delivered' = [delivered EXCEPT ![s] = d],
         unsure' = [unsure EXCEPT ![s] = u],
         copies' = [copies EXCEPT ![s] = c]
  PROVE  IInv'
<1>1. \A r \in Submission : sending'[r] = IF r = s THEN q ELSE sending[r]
  BY DEF Set, IInv
<1>2. DOMAIN sending' = Submission /\ sending' = [r \in Submission |-> sending'[r]]
  BY DEF Set, IInv
<1>3. /\ delivered' \in [Submission -> Nat] /\ unsure' \in [Submission -> Nat] /\ copies' \in [Submission -> Nat]
      /\ \A r \in Submission : /\ delivered'[r] = IF r = s THEN d ELSE delivered[r]
                               /\ unsure'[r] = IF r = s THEN u ELSE unsure[r]
                               /\ copies'[r] = IF r = s THEN c ELSE copies[r]
  BY DEF IInv, Ledger
<1>4. \A r \in Submission : WellFormed(sending'[r])
  BY <1>1 DEF IInv
<1>5. \A r \in Submission : Ledger(sending'[r], delivered'[r], unsure'[r], copies'[r])
  BY <1>1, <1>3 DEF IInv
<1>6. \A r \in Submission : At(r, "failed")' => delivered'[r] = unsure'[r] \/ r \in unfiled'
  BY <1>1, <1>3 DEF IInv, At
<1> QED BY <1>2, <1>3, <1>4, <1>5, <1>6 DEF IInv

\* What the operators on requests do to a well-formed one.
LEMMA Endings ==
  ASSUME NEW q, WellFormed(q), NEW p
  PROVE  WellFormed(Ends(q, p)) /\ Ends(q, p).pc = p
BY DEF WellFormed, Fields, Ends

LEMMA Stages ==
  ASSUME NEW q, WellFormed(q), NEW p
  PROVE  WellFormed(With(q, p)) /\ With(q, p).pc = p /\ With(q, p).left = q.left
BY DEF WellFormed, Fields, With

\* Requests whose form does not wait for them any more go on all the same.
LEMMA ForgottenKeeps ==
  ASSUME IInv, NEW f, UNCHANGED mail, sending' = Forgotten(f)
  PROVE  IInv'
<1>1. \A s \in Submission :
        sending'[s] = IF ~At(s, "none") /\ sending[s].heard = "waiting" /\ f[sending[s].window].send # s
                      THEN [sending[s] EXCEPT !.heard = "forgotten"] ELSE sending[s]
  BY DEF Forgotten
<1>2. \A s \in Submission : WellFormed(sending'[s])
  BY <1>1 DEF IInv, WellFormed
<1>3. \A s \in Submission : sending'[s].pc = sending[s].pc /\ sending'[s].left = sending[s].left
  BY <1>1 DEF IInv, WellFormed, Fields
<1> QED BY <1>2, <1>3, Quietly DEF Forgotten

LEMMA ScreenKeeps ==
  ASSUME IInv, NEW w \in Window, Screen(w)
  PROVE  IInv'
<1>1. CASE Load(w) \/ CloseDraft(w) \/ Closed(w)
  BY <1>1 DEF Load, CloseDraft, Closed, IInv, At, mail
<1>2. CASE Reload(w) \/ CloseByUser(w)
  BY <1>2, ForgottenKeeps DEF Reload, CloseByUser
<1>3. ASSUME NEW a \in Account, Open(w, a) \/ ChangeAccount(w, a)
      PROVE  IInv'
  BY <1>3, ForgottenKeeps DEF Open, ChangeAccount
<1>4. ASSUME NEW s \in Submission, Submit(w, s)
      PROVE  IInv'
  <2> DEFINE q == Request(w, form[w].account, form[w].round, "smtp", 1, Retries, FALSE, "waiting", FALSE)
  <2>1. sending' = [Forgotten(form') EXCEPT ![s] = q] /\ UNCHANGED mail /\ sending[s].pc = "none"
    BY <1>4 DEF Submit, At
  <2>2. WellFormed(q) /\ q.pc = "smtp" /\ q.left = Retries
    BY DEF Request, WellFormed, Fields
  <2> HIDE DEF q
  <2>3. Ledger(q, delivered[s], unsure[s], copies[s])
    BY <2>1, <2>2, ConstantsAssumption DEF IInv, Ledger
  <2>4. \A r \in Submission \ {s} :
          sending'[r] = IF ~At(r, "none") /\ sending[r].heard = "waiting" /\ form'[sending[r].window].send # r
                        THEN [sending[r] EXCEPT !.heard = "forgotten"] ELSE sending[r]
    BY <2>1 DEF Forgotten
  <2>5. sending'[s] = q
    BY <2>1 DEF Forgotten
  <2>6. \A r \in Submission : WellFormed(sending'[r])
    BY <2>2, <2>4, <2>5 DEF IInv, WellFormed
  <2>7. \A r \in Submission \ {s} : sending'[r].pc = sending[r].pc /\ sending'[r].left = sending[r].left
    BY <2>4 DEF IInv, WellFormed, Fields
  <2>8. \A r \in Submission : Ledger(sending'[r], delivered[r], unsure[r], copies[r])
    BY <2>3, <2>5, <2>7 DEF IInv, Ledger
  <2>9. DOMAIN sending' = Submission /\ sending' = [r \in Submission |-> sending'[r]]
    BY <2>1 DEF Forgotten
  <2>a. \A r \in Submission : At(r, "failed")' => delivered[r] = unsure[r] \/ r \in unfiled
    BY <2>2, <2>5, <2>7 DEF IInv, At
  <2> QED BY <2>1, <2>6, <2>8, <2>9, <2>a DEF IInv, mail
<1> QED BY <1>1, <1>2, <1>3, <1>4 DEF Screen

LEMMA SmtpKeeps ==
  ASSUME IInv, NEW s \in Submission, Smtp(s)
  PROVE  IInv'
<1> DEFINE q == sending[s]
<1>1. q.pc = "smtp" /\ WellFormed(q) /\ Ledger(q, delivered[s], unsure[s], copies[s])
  BY DEF Smtp, HandOver, LookupFails, Breaks, Rejects, At, IInv
<1> HIDE DEF q
<1>2. delivered[s] = unsure[s] /\ copies[s] = 0 /\ unsure[s] \in Nat /\ q.left \in 0..Retries
  BY <1>1 DEF Ledger
<1>3. /\ delivered = [delivered EXCEPT ![s] = delivered[s]]
      /\ unsure = [unsure EXCEPT ![s] = unsure[s]]
      /\ copies = [copies EXCEPT ![s] = copies[s]]
  BY DEF IInv
<1>4. CASE HandOver(s)
  <2> DEFINE r == AfterHandOver(q)
  <2>1. WellFormed(r) /\ r.pc \in {"append", "sent"} /\ (r.pc = "append" => r.left = q.left)
    BY <1>1, Endings, Stages DEF AfterHandOver
  <2>2. /\ Set(s, r) /\ delivered' = [delivered EXCEPT ![s] = delivered[s] + 1]
        /\ unsure' = [unsure EXCEPT ![s] = unsure[s]] /\ copies' = [copies EXCEPT ![s] = copies[s]]
        /\ unfiled' = unfiled
    BY <1>3, <1>4 DEF HandOver, Delivered, q
  <2> HIDE DEF r
  <2>3. Ledger(r, delivered[s] + 1, unsure[s], copies[s])
    BY <1>2, <2>1, ConstantsAssumption DEF Ledger
  <2> QED BY <2>1, <2>2, <2>3, OneRequest
<1>5. CASE Breaks(s)
  <2> PICK r \in {NextEndpoint(q), Ends(q, "failed")} : Set(s, r)
    BY <1>5 DEF Breaks, q
  <2>1. WellFormed(r) /\ ((r.pc = "smtp" /\ r.left = q.left) \/ r.pc = "failed")
    BY <1>1, Endings DEF NextEndpoint, WellFormed, Fields
  <2>2. copies' = [copies EXCEPT ![s] = copies[s]] /\ unfiled' = unfiled
    BY <1>3, <1>5 DEF Breaks
  <2>3. PICK n \in {0, 1} : /\ delivered' = [delivered EXCEPT ![s] = delivered[s] + n]
                            /\ unsure' = [unsure EXCEPT ![s] = unsure[s] + n]
    <3>1. CASE UNCHANGED <<delivered, unsure>>
      BY <3>1, <1>2 DEF IInv
    <3>2. CASE ~UNCHANGED <<delivered, unsure>>
      BY <3>2, <1>5 DEF Breaks, Delivered
    <3> QED BY <3>1, <3>2
  <2>4. Ledger(r, delivered[s] + n, unsure[s] + n, copies[s])
    BY <1>2, <2>1, ConstantsAssumption DEF Ledger
  <2>5. delivered[s] + n = unsure[s] + n
    BY <1>2
  <2> QED BY <2>1, <2>2, <2>3, <2>4, <2>5, OneRequest
<1>6. CASE Rejects(s)
  <2> DEFINE r == Ends(q, "failed")
  <2>1. WellFormed(r) /\ r.pc = "failed"
    BY <1>1, Endings
  <2>2. /\ Set(s, r) /\ delivered' = [delivered EXCEPT ![s] = delivered[s]]
        /\ unsure' = [unsure EXCEPT ![s] = unsure[s]] /\ copies' = [copies EXCEPT ![s] = copies[s]]
        /\ unfiled' = unfiled
    BY <1>3, <1>6 DEF Rejects, mail, q
  <2> HIDE DEF r
  <2>3. Ledger(r, delivered[s], unsure[s], copies[s])
    BY <1>2, <2>1, ConstantsAssumption DEF Ledger
  <2> QED BY <1>2, <2>1, <2>2, <2>3, OneRequest
<1>7. CASE LookupFails(s)
  <2> DEFINE r == Ends(q, "failed")
  <2>1. WellFormed(r) /\ r.pc = "failed"
    BY <1>1, Endings
  <2>2. /\ Set(s, r) /\ delivered' = [delivered EXCEPT ![s] = delivered[s] + 1]
        /\ unsure' = [unsure EXCEPT ![s] = unsure[s]] /\ copies' = [copies EXCEPT ![s] = copies[s]]
        /\ unfiled \subseteq unfiled' /\ s \in unfiled'
    BY <1>3, <1>7 DEF LookupFails, Delivered, q
  <2> HIDE DEF r
  <2>3. Ledger(r, delivered[s] + 1, unsure[s], copies[s])
    BY <1>2, <2>1, ConstantsAssumption DEF Ledger
  <2> QED BY <2>1, <2>2, <2>3, OneRequest
<1> QED BY <1>4, <1>5, <1>6, <1>7 DEF Smtp

LEMMA AppendKeeps ==
  ASSUME IInv, NEW s \in Submission, Append(s)
  PROVE  IInv'
<1> DEFINE q == sending[s]
<1>1. q.pc = "append" /\ WellFormed(q) /\ Ledger(q, delivered[s], unsure[s], copies[s])
  BY DEF Append, Stores, AppendBreaks, AppendDenied, AppendFails, At, IInv
<1> HIDE DEF q
<1>2. /\ delivered[s] = 1 + unsure[s] /\ unsure[s] \in Nat /\ copies[s] \in Nat
      /\ q.left \in Nat /\ copies[s] + q.left <= Retries
  BY <1>1 DEF Ledger
<1>3. /\ delivered' = [delivered EXCEPT ![s] = delivered[s]]
      /\ unsure' = [unsure EXCEPT ![s] = unsure[s]]
      /\ unfiled' = unfiled
  BY DEF IInv, Append, Stores, AppendBreaks, AppendDenied, AppendFails, mail
\* At most one copy more, and the request is over or has an attempt less.
<1>4. PICK n \in {0, 1} : copies' = [copies EXCEPT ![s] = copies[s] + n]
  <2>1. CASE UNCHANGED copies
    BY <2>1, <1>2 DEF IInv
  <2>2. CASE ~UNCHANGED copies
    BY <2>2 DEF Append, Stores, AppendBreaks, AppendDenied, AppendFails, Copied, mail
  <2> QED BY <2>1, <2>2
<1>5. ASSUME NEW r, Set(s, r), WellFormed(r),
             \/ r.pc = "sent"
             \/ r.pc = "append" /\ r.left \in Nat /\ r.left + n <= q.left
      PROVE  IInv'
  <2>1. Ledger(r, delivered[s], unsure[s], copies[s] + n)
    BY <1>2, <1>5, ConstantsAssumption DEF Ledger
  <2> QED BY <1>3, <1>4, <1>5, <2>1, OneRequest
<1>6. CASE Stores(s) \/ AppendFails(s)
  BY <1>1, <1>5, <1>6, Endings DEF Stores, AppendFails, GivesUp, q
<1>7. CASE AppendBreaks(s)
  <2>1. Set(s, AfterBreak(q))
    BY <1>7 DEF AppendBreaks, q
  <2>2. WellFormed(AfterBreak(q))
    BY <1>1, Endings DEF AfterBreak, GivesUp, WellFormed
  <2>3. CASE q.left > 0
    <3>1. AfterBreak(q).pc = "append" /\ AfterBreak(q).left = q.left - 1
      BY <1>1, <2>3 DEF AfterBreak, WellFormed, Fields
    <3> QED BY <1>2, <1>5, <2>1, <2>2, <2>3, <3>1
  <2>4. CASE ~(q.left > 0)
    BY <1>1, <1>5, <2>1, <2>2, <2>4, Endings DEF AfterBreak, GivesUp
  <2> QED BY <2>3, <2>4
<1>8. CASE AppendDenied(s)
  <2>1. Set(s, Renewed(q)) /\ UNCHANGED copies
    BY <1>8 DEF AppendDenied, mail, q
  <2>2. WellFormed(Renewed(q)) /\ Renewed(q).pc = "append" /\ Renewed(q).left = 0
    BY <1>1 DEF Renewed, WellFormed, Fields
  <2>3. n = 0
    BY <1>2, <1>4, <2>1 DEF IInv
  <2> QED BY <1>2, <1>5, <2>1, <2>2, <2>3
<1> QED BY <1>6, <1>7, <1>8 DEF Append

\* What the form makes of an outcome changes no stage but that of an ended request.
LEMMA OutcomeKeeps ==
  ASSUME IInv, NEW s \in Submission, Answer(s) \/ AnswerLost(s)
  PROVE  IInv'
<1>1. UNCHANGED mail
  BY DEF Answer, AnswerLost
<1>2. CASE Answer(s)
  <2> DEFINE r == [sending[s] EXCEPT !.pc = "done", !.heard = IF Waits(s) THEN sending[s].pc ELSE @]
  <2>1. Set(s, r)
    BY <1>2 DEF Answer
  <2>2. WellFormed(r) /\ r.pc = "done"
    BY DEF IInv, WellFormed, Fields
  <2> HIDE DEF r
  <2> QED BY <1>1, <2>1, <2>2, Quietly DEF Set, IInv
<1>3. CASE AnswerLost(s)
  <2> DEFINE r == [sending[s] EXCEPT !.heard = "failed", !.cut = TRUE]
  <2>1. Set(s, r)
    BY <1>3 DEF AnswerLost
  <2>2. WellFormed(r) /\ r.pc = sending[s].pc /\ r.left = sending[s].left
    BY DEF IInv, WellFormed, Fields
  <2> HIDE DEF r
  <2> QED BY <1>1, <2>1, <2>2, Quietly DEF Set, IInv
<1> QED BY <1>2, <1>3

LEMMA CrashKeeps ==
  ASSUME IInv, Crash
  PROVE  IInv'
<1> DEFINE r(s) == [Ends(sending[s], "done") EXCEPT !.cut = TRUE,
                                                    !.heard = IF Waits(s) THEN "failed" ELSE @]
<1>1. sending' = [s \in Submission |-> IF sending[s].pc \notin InApi THEN sending[s] ELSE r(s)]
  BY DEF Crash
<1>2. ASSUME NEW s \in Submission
      PROVE  WellFormed(r(s)) /\ r(s).pc = "done"
  <2>1. WellFormed(Ends(sending[s], "done")) /\ Ends(sending[s], "done").pc = "done"
    BY Endings DEF IInv
  <2> QED BY <2>1 DEF WellFormed, Fields
<1> HIDE DEF r
<1>3. \A s \in Submission : sending'[s] = IF sending[s].pc \notin InApi THEN sending[s] ELSE r(s)
  BY <1>1
<1>4. \A s \in Submission :
        /\ WellFormed(sending'[s])
        /\ \/ sending'[s].pc = sending[s].pc /\ sending'[s].left = sending[s].left
           \/ sending'[s].pc = "done"
  BY <1>2, <1>3 DEF IInv
<1>5. UNCHANGED mail /\ DOMAIN sending' = Submission /\ sending' = [s \in Submission |-> sending'[s]]
  BY <1>1 DEF Crash
<1> QED BY <1>4, <1>5, Quietly

LEMMA Invariance == Spec => []IInv
<1>1. Init => IInv
  <2> SUFFICES ASSUME Init PROVE IInv
    OBVIOUS
  <2>1. \A s \in Submission : sending[s] = Unsent /\ delivered[s] = 0 /\ unsure[s] = 0 /\ copies[s] = 0
    BY DEF Init
  <2>2. WellFormed(Unsent) /\ Unsent.pc = "none"
    BY DEF Unsent, Request, WellFormed, Fields
  <2>3. Ledger(Unsent, 0, 0, 0)
    BY <2>2, ConstantsAssumption DEF Ledger
  <2> QED BY <2>1, <2>2, <2>3 DEF Init, IInv, At
<1>2. IInv /\ [Next]_vars => IInv'
  <2> SUFFICES ASSUME IInv, [Next]_vars PROVE IInv'
    OBVIOUS
  <2>1. CASE UNCHANGED vars
    BY <2>1 DEF vars, IInv, At
  <2>2. CASE Next
    BY <2>2, ScreenKeeps, SmtpKeeps, AppendKeeps, OutcomeKeeps, CrashKeeps DEF Next
  <2> QED BY <2>1, <2>2
<1> QED BY <1>1, <1>2, PTL DEF Spec

\* Copies belong to messages whose delivery was confirmed, and are bounded by the attempts
\* to store them (MailService.sendMessage, ImapService.withClient).
THEOREM CopiesAreOfDelivered == Spec => []CopyOfDelivered
BY Invariance, Implied, PTL

-----------------------------------------------------------------------------
(* Type correctness *)

\* Between its accounts' endpoints, the one a request is at exists.
Placed(q) == q.pc = "smtp" => q.account \in Account /\ q.endpoint \in 1..Endpoints[q.account]

\* The main process has the draft of every window that may still ask for it.
Windows ==
  /\ ~bridge => drafts \cup opened = {}
  /\ \A w \in Window :
       /\ window[w] # "missing"
       /\ window[w] \in {"none", "closed"} => w \notin drafts \cup opened
       /\ bridge /\ window[w] \in {"loading", "ready"} => w \in drafts
       /\ window[w] = "loading" => bridge

\* A window that was opened shows an account.
Addressed == \A w \in Window : window[w] # "none" => form[w].account \in Account

ScreenInv == TypeOK /\ Windows /\ Addressed

\* What the operators on requests do to the other fields of one.
LEMMA EndsType ==
  ASSUME NEW q \in Requests, NEW p \in InApi \cup {"none", "done"}
  PROVE  /\ Ends(q, p) \in Requests /\ Ends(q, p).pc = p
         /\ Ends(q, p).window = q.window /\ Ends(q, p).account = q.account
         /\ Ends(q, p).round = q.round /\ Ends(q, p).heard = q.heard /\ Ends(q, p).cut = q.cut
<1>1. 0 \in 0..Retries /\ 0 \in Nat /\ FALSE \in BOOLEAN
  BY ConstantsAssumption
<1>2. /\ [q EXCEPT !.pc = p, !.endpoint = 0] \in Requests
      /\ \A r \in Requests : [r EXCEPT !.left = 0, !.renewed = FALSE] \in Requests
  BY <1>1 DEF Requests
<1>3. Ends(q, p) = [[q EXCEPT !.pc = p, !.endpoint = 0] EXCEPT !.left = 0, !.renewed = FALSE]
  BY DEF Ends, Requests
<1>4. Ends(q, p) \in Requests
  BY <1>2, <1>3
<1>5. Ends(q, p).pc = p /\ Ends(q, p).window = q.window /\ Ends(q, p).account = q.account
  BY DEF Ends, Requests
<1>6. Ends(q, p).round = q.round /\ Ends(q, p).heard = q.heard /\ Ends(q, p).cut = q.cut
  BY DEF Ends, Requests
<1> QED BY <1>4, <1>5, <1>6

LEMMA WithType ==
  ASSUME NEW q \in Requests, NEW p \in InApi \cup {"none", "done"}
  PROVE  /\ With(q, p) \in Requests /\ With(q, p).pc = p
         /\ With(q, p).window = q.window /\ With(q, p).account = q.account
         /\ With(q, p).round = q.round /\ With(q, p).heard = q.heard /\ With(q, p).cut = q.cut
BY DEF Requests, With

LEMMA HeardType ==
  ASSUME NEW q \in Requests, NEW h \in {"waiting", "sent", "failed", "forgotten"}
  PROVE  [q EXCEPT !.heard = h] \in Requests
BY DEF Requests

\* One request becomes q.
LEMMA SetType ==
  ASSUME TypeOK, NEW s \in Submission, NEW q \in Requests, Placed(q), Set(s, q)
  PROVE  /\ sending' \in [Submission -> Requests]
         /\ \A r \in Submission : sending'[r] = IF r = s THEN q ELSE sending[r]
         /\ \A r \in Submission : Placed(sending'[r])
BY DEF TypeOK, Set, Placed, At

\* The requests that are forgotten change in nothing but that.
LEMMA ForgottenType ==
  ASSUME TypeOK, NEW f, NEW s \in Submission
  PROVE  /\ Forgotten(f) \in [Submission -> Requests]
         /\ LET q == Forgotten(f)[s] IN
              /\ q \in Requests /\ Placed(q)
              /\ q.pc = sending[s].pc /\ q.window = sending[s].window
              /\ q.account = sending[s].account /\ q.round = sending[s].round
              /\ q.cut = sending[s].cut
              /\ q.heard = IF /\ ~At(s, "none") /\ sending[s].heard = "waiting"
                              /\ f[sending[s].window].send # s
                           THEN "forgotten" ELSE sending[s].heard
<1>1. ASSUME NEW r \in Submission
      PROVE  sending[r] \in Requests /\ [sending[r] EXCEPT !.heard = "forgotten"] \in Requests
  BY HeardType DEF TypeOK
<1>2. Forgotten(f) \in [Submission -> Requests]
  BY <1>1 DEF Forgotten
<1>3. Forgotten(f)[s] = IF ~At(s, "none") /\ sending[s].heard = "waiting" /\ f[sending[s].window].send # s
                        THEN [sending[s] EXCEPT !.heard = "forgotten"] ELSE sending[s]
  BY DEF Forgotten
<1>4. Placed(sending[s])
  BY DEF TypeOK, Placed, At
<1>5. CASE ~At(s, "none") /\ sending[s].heard = "waiting" /\ f[sending[s].window].send # s
  <2>1. Forgotten(f)[s] = [sending[s] EXCEPT !.heard = "forgotten"]
    BY <1>3, <1>5
  <2> QED BY <1>1, <1>2, <1>4, <1>5, <2>1 DEF Requests, Placed
<1>6. CASE ~(~At(s, "none") /\ sending[s].heard = "waiting" /\ f[sending[s].window].send # s)
  BY <1>1, <1>2, <1>3, <1>4, <1>6
<1> QED BY <1>5, <1>6

\* A step of the screen that leaves the mail alone.
LEMMA ScreenType ==
  ASSUME TypeOK, UNCHANGED <<bridge, mail>>, drafts' \subseteq Window, opened' \subseteq Window,
         window' \in [Window -> Places], form' \in [Window -> Forms],
         sending' = Forgotten(form') \/ sending' = sending,
         events' \in 0..MaxEvents
  PROVE  TypeOK'
<1>1. sending' \in [Submission -> Requests]
  <2>1. CASE Submission = {}
    BY <2>1 DEF TypeOK, Forgotten
  <2>2. CASE Submission # {}
    BY <2>2, ForgottenType DEF TypeOK
  <2> QED BY <2>1, <2>2
<1>2. \A s \in Submission : Placed(sending'[s])
  BY ForgottenType DEF TypeOK, Placed, At
<1> QED BY <1>1, <1>2 DEF TypeOK, Placed, At, mail

LEMMA Steps ==
  ASSUME TypeOK
  PROVE  /\ \A w \in Window : form[w] \in Forms /\ window[w] \in Places
         /\ \A s \in Submission : sending[s] \in Requests /\ Placed(sending[s])
         /\ Event => events' \in 0..MaxEvents
BY ConstantsAssumption DEF TypeOK, Placed, At, Event

LEMMA ScreenTyped ==
  ASSUME ScreenInv, NEW w \in Window, Screen(w)
  PROVE  ScreenInv'
<1>t. TypeOK /\ Windows /\ Addressed
  BY DEF ScreenInv
<1>f. \A a \in Account \cup {None}, b \in Submission \cup {None}, n \in Nat : Form(a, b, n) \in Forms
  BY DEF Form, Forms
<1>u. \A v \in Window : /\ Unwatched(v) \in Forms /\ Unwatched(v).account = form[v].account
                        /\ form[v].round + 1 \in Nat
  BY <1>t, <1>f, Steps DEF Unwatched, Form, Forms
<1>p. {"none", "loading", "ready", "missing", "closing", "closed"} \subseteq Places
  BY DEF Places
<1>1. CASE Load(w)
  <2>1. w \in drafts
    BY <1>1, <1>t DEF Load, Windows
  <2>2. /\ window' = [window EXCEPT ![w] = "ready"] /\ window[w] = "loading"
        /\ UNCHANGED <<bridge, drafts, opened, form, sending, mail, events>>
    BY <1>1, <2>1 DEF Load, DraftsLeft
  <2>3. TypeOK'
    BY <2>2, <1>t, <1>p, ScreenType DEF TypeOK
  <2> QED BY <1>t, <2>1, <2>2, <2>3 DEF ScreenInv, Windows, Addressed, TypeOK
<1>2. CASE Reload(w)
  <2>1. /\ window' = [window EXCEPT ![w] = "loading"] /\ window[w] = "ready" /\ bridge
        /\ form' = [form EXCEPT ![w] = Form(form[w].account, None, form[w].round + 1)]
        /\ sending' = Forgotten(form') /\ events' \in 0..MaxEvents
        /\ UNCHANGED <<bridge, drafts, opened, mail>>
    BY <1>2, <1>t, Steps DEF Reload, Ready, electron
  <2>2. /\ Form(form[w].account, None, form[w].round + 1) \in Forms
        /\ Form(form[w].account, None, form[w].round + 1).account = form[w].account
    BY <1>t, <1>f, <1>u, Steps DEF Forms, Form
  <2>3. TypeOK'
    BY <2>1, <2>2, <1>t, <1>p, ScreenType DEF TypeOK
  <2>4. Windows'
    BY <1>t, <2>1 DEF Windows, TypeOK
  <2>5. Addressed'
    BY <1>t, <2>1, <2>2 DEF Addressed, TypeOK
  <2> QED BY <2>3, <2>4, <2>5 DEF ScreenInv
<1>3. CASE CloseByUser(w)
  <2>1. /\ window' = [window EXCEPT ![w] = Leaves] /\ window[w] \in {"loading", "ready"}
        /\ form' = [form EXCEPT ![w] = Unwatched(w)]
        /\ sending' = Forgotten(form')
        /\ UNCHANGED <<bridge, drafts, opened, mail, events>>
    BY <1>3 DEF CloseByUser, electron
  <2>2. Leaves \in Places /\ Leaves = IF bridge THEN "closing" ELSE "closed"
    BY <1>p DEF Leaves
  <2>3. TypeOK'
    BY <2>1, <2>2, <1>t, <1>u, ScreenType DEF TypeOK
  <2>4. Windows'
    BY <1>t, <2>1, <2>2 DEF Windows, TypeOK
  <2>5. Addressed'
    BY <1>t, <1>u, <2>1 DEF Addressed, TypeOK
  <2> QED BY <2>3, <2>4, <2>5 DEF ScreenInv
<1>4. CASE CloseDraft(w)
  <2>1. /\ window[w] = "closing" /\ drafts' = drafts \ {w} /\ opened' = opened \ {w}
        /\ UNCHANGED <<bridge, window, form, sending, mail, events>>
    BY <1>4 DEF CloseDraft
  <2>2. TypeOK'
    BY <2>1, <1>t, ScreenType DEF TypeOK
  <2> QED BY <1>t, <2>1, <2>2 DEF ScreenInv, Windows, Addressed
<1>5. CASE Closed(w)
  <2>1. /\ window[w] = "closing" /\ window' = [window EXCEPT ![w] = "closed"]
        /\ drafts' = drafts \ {w} /\ opened' = opened \ {w}
        /\ UNCHANGED <<bridge, form, sending, mail, events>>
    BY <1>5 DEF Closed
  <2>2. TypeOK'
    BY <2>1, <1>t, <1>p, ScreenType DEF TypeOK
  <2> QED BY <1>t, <2>1, <2>2 DEF ScreenInv, Windows, Addressed, TypeOK
<1>6. ASSUME NEW a \in Account, Open(w, a)
      PROVE  ScreenInv'
  <2>1. /\ window[w] = "none" /\ sending' = Forgotten(form')
        /\ form' = [v \in Window |->
             IF v = w THEN Form(a, None, 0) ELSE IF bridge THEN form[v] ELSE Unwatched(v)]
        /\ UNCHANGED <<bridge, mail, events>>
    BY <1>6 DEF Open
  <2>2. Form(a, None, 0) \in Forms /\ Form(a, None, 0).account = a
    BY DEF Forms, Form
  <2>3. form' \in [Window -> Forms]
    BY <1>t, <1>u, <2>1, <2>2, Steps
  <2>4. \A v \in Window : form'[v].account = IF v = w THEN a ELSE form[v].account
    BY <1>u, <2>1, <2>2
  <2>5. CASE bridge
    <3>1. /\ drafts' = drafts \cup {w} /\ opened' = opened \cup {w}
          /\ window' = [window EXCEPT ![w] = "loading"]
      BY <1>6, <2>5 DEF Open
    <3>2. TypeOK'
      BY <2>1, <2>3, <3>1, <1>t, <1>p, ScreenType DEF TypeOK
    <3>3. Windows'
      BY <1>t, <2>1, <2>5, <3>1 DEF Windows, TypeOK
    <3>4. Addressed'
      BY <1>t, <2>4, <3>1 DEF Addressed, TypeOK
    <3> QED BY <3>2, <3>3, <3>4 DEF ScreenInv
  <2>6. CASE ~bridge
    <3>1. /\ window' = [v \in Window |-> IF v = w THEN "ready"
                                         ELSE IF window[v] = "ready" THEN "closed" ELSE window[v]]
          /\ UNCHANGED <<drafts, opened>>
      BY <1>6, <2>6 DEF Open, Ready, electron
    <3>2. window' \in [Window -> Places]
      BY <3>1, <1>t, <1>p, Steps
    <3>3. TypeOK'
      BY <2>1, <2>3, <3>1, <3>2, <1>t, ScreenType DEF TypeOK
    <3>4. Windows'
      BY <1>t, <2>1, <2>6, <3>1 DEF Windows, TypeOK
    <3>5. Addressed'
      BY <1>t, <2>4, <3>1 DEF Addressed, TypeOK
    <3> QED BY <3>3, <3>4, <3>5 DEF ScreenInv
  <2> QED BY <2>5, <2>6
<1>7. ASSUME NEW a \in Account, ChangeAccount(w, a)
      PROVE  ScreenInv'
  <2>1. /\ form' = [form EXCEPT ![w] = Afresh(w, a)]
        /\ sending' = Forgotten(form') /\ events' \in 0..MaxEvents
        /\ UNCHANGED <<bridge, drafts, opened, window, mail>>
    BY <1>7, <1>t, Steps DEF ChangeAccount, electron
  <2>2. Afresh(w, a) \in Forms /\ Afresh(w, a).account = a
    BY <1>u DEF Afresh, Forms, Form
  <2>3. TypeOK'
    BY <2>1, <2>2, <1>t, ScreenType DEF TypeOK
  <2> QED BY <1>t, <2>1, <2>2, <2>3 DEF ScreenInv, Windows, Addressed, TypeOK
<1>8. ASSUME NEW s \in Submission, Submit(w, s)
      PROVE  ScreenInv'
  <2> DEFINE q == Request(w, form[w].account, form[w].round, "smtp", 1, Retries, FALSE, "waiting", FALSE)
             g == Form(form[w].account, s, form[w].round)
  <2>1. /\ form' = [form EXCEPT ![w] = g]
        /\ sending' = [Forgotten(form') EXCEPT ![s] = q]
        /\ UNCHANGED <<bridge, drafts, opened, window, mail, events>> /\ window[w] = "ready"
    BY <1>8 DEF Submit, electron, MaySubmit, Ready, Form
  <2>2. g \in Forms /\ g.account = form[w].account
    BY <1>t, Steps DEF Forms, Form
  <2>3. form[w].account \in Account /\ form[w].round \in Nat
    BY <1>t, <2>1, Steps DEF Addressed, Forms
  <2>4. q \in Requests /\ Placed(q)
    <3>1. Retries \in 0..Retries /\ "smtp" \in InApi \cup {"none", "done"} /\ 1 \in Nat
      BY ConstantsAssumption DEF InApi
    <3>2. q \in Requests
      BY <2>3, <3>1 DEF Request, Requests
    <3>3. q.account = form[w].account /\ q.endpoint = 1
      BY DEF Request
    <3>4. 1 \in 1..Endpoints[form[w].account]
      BY <2>3, ConstantsAssumption
    <3> QED BY <2>3, <3>2, <3>3, <3>4 DEF Placed
  <2> HIDE DEF q, g
  <2>5. \A r \in Submission : sending'[r] \in Requests /\ Placed(sending'[r])
    BY <2>1, <2>4, <1>t, ForgottenType
  <2>6. sending' \in [Submission -> Requests]
    BY <2>1, <2>4, <1>t, ForgottenType
  <2>7. TypeOK'
    BY <2>1, <2>2, <2>5, <2>6, <1>t DEF TypeOK, Placed, At, mail
  <2> QED BY <1>t, <2>1, <2>2, <2>7 DEF ScreenInv, Windows, Addressed, TypeOK
<1> QED BY <1>1, <1>2, <1>3, <1>4, <1>5, <1>6, <1>7, <1>8 DEF Screen

\* A step of one request that changes no window but where its own one is.
LEMMA MailTyped ==
  ASSUME ScreenInv, NEW s \in Submission, NEW q \in Requests, Placed(q), Set(s, q),
         UNCHANGED <<bridge, drafts, opened, window, form>>, events' \in 0..MaxEvents,
         delivered' \in [Submission -> Nat], unsure' \in [Submission -> Nat],
         copies' \in [Submission -> Nat], unfiled' \subseteq Submission
  PROVE  ScreenInv'
<1>1. TypeOK'
  BY SetType DEF ScreenInv, TypeOK, Placed, At
<1> QED BY <1>1 DEF ScreenInv, Windows, Addressed

LEMMA SmtpTyped ==
  ASSUME ScreenInv, NEW s \in Submission, Smtp(s)
  PROVE  ScreenInv'
<1> DEFINE q == sending[s]
<1>1. q \in Requests /\ Placed(q) /\ q.pc = "smtp" /\ TypeOK
  BY Steps DEF ScreenInv, Smtp, HandOver, LookupFails, Breaks, Rejects, At
<1>2. UNCHANGED <<bridge, drafts, opened, window, form>> /\ events' \in 0..MaxEvents
  BY <1>1, Steps DEF TypeOK, Smtp, HandOver, LookupFails, Breaks, Rejects, electron
<1>3. /\ delivered' \in [Submission -> Nat] /\ unsure' \in [Submission -> Nat]
      /\ copies' \in [Submission -> Nat] /\ unfiled' \subseteq Submission
  BY <1>1 DEF TypeOK, Smtp, HandOver, LookupFails, Breaks, Rejects, Delivered, mail
<1>4. PICK r \in {AfterHandOver(q), NextEndpoint(q), Ends(q, "failed")} : Set(s, r)
  BY DEF Smtp, HandOver, LookupFails, Breaks, Rejects
<1>5. InApi \subseteq InApi \cup {"none", "done"} /\ {"append", "sent", "failed"} \subseteq InApi
  BY DEF InApi
<1>6. q.endpoint \in Nat /\ q.account \in Account /\ q.endpoint \in 1..Endpoints[q.account]
      /\ Endpoints[q.account] \in Nat
  BY <1>1, ConstantsAssumption DEF Placed, Requests
<1> HIDE DEF q
<1>7. AfterHandOver(q) \in Requests /\ Placed(AfterHandOver(q))
  <2>1. With(q, "append") \in Requests /\ With(q, "append").pc = "append"
    BY <1>1, <1>5, WithType
  <2>2. Ends(q, "sent") \in Requests /\ Ends(q, "sent").pc = "sent"
    BY <1>1, <1>5, EndsType
  <2> QED BY <2>1, <2>2 DEF AfterHandOver, Placed
<1>8. NextEndpoint(q) \in Requests /\ Placed(NextEndpoint(q))
  <2>1. CASE q.endpoint < Endpoints[q.account]
    <3>1. NextEndpoint(q) = [q EXCEPT !.endpoint = q.endpoint + 1]
      BY <2>1 DEF NextEndpoint
    <3>2. NextEndpoint(q) \in Requests /\ NextEndpoint(q).account = q.account
          /\ NextEndpoint(q).endpoint = q.endpoint + 1
      BY <3>1, <1>1, <1>6 DEF Requests
    <3>3. q.endpoint + 1 \in 1..Endpoints[q.account]
      BY <2>1, <1>6
    <3> QED BY <3>2, <3>3, <1>6 DEF Placed
  <2>2. CASE ~(q.endpoint < Endpoints[q.account])
    BY <2>2, <1>1, <1>5, EndsType DEF NextEndpoint, Placed
  <2> QED BY <2>1, <2>2
<1>9. Ends(q, "failed") \in Requests /\ Placed(Ends(q, "failed"))
  BY <1>1, <1>5, EndsType DEF Placed
<1> QED BY <1>2, <1>3, <1>4, <1>7, <1>8, <1>9, MailTyped

LEMMA AppendTyped ==
  ASSUME ScreenInv, NEW s \in Submission, Append(s)
  PROVE  ScreenInv'
<1> DEFINE q == sending[s]
<1>1. q \in Requests /\ q.pc = "append" /\ TypeOK
  BY Steps DEF ScreenInv, Append, Stores, AppendBreaks, AppendDenied, AppendFails, At
<1>2. UNCHANGED <<bridge, drafts, opened, window, form>> /\ events' \in 0..MaxEvents
  BY <1>1 DEF TypeOK, Append, Stores, AppendBreaks, AppendDenied, AppendFails, electron
<1>3. /\ delivered' \in [Submission -> Nat] /\ unsure' \in [Submission -> Nat]
      /\ copies' \in [Submission -> Nat] /\ unfiled' \subseteq Submission
  BY <1>1 DEF TypeOK, Append, Stores, AppendBreaks, AppendDenied, AppendFails, Copied, mail
<1>4. PICK r \in {Ends(q, "sent"), AfterBreak(q), Renewed(q)} : Set(s, r)
  BY DEF Append, Stores, AppendBreaks, AppendDenied, AppendFails, GivesUp
<1> HIDE DEF q
<1>5. Ends(q, "sent") \in Requests /\ Placed(Ends(q, "sent"))
  BY <1>1, EndsType DEF Placed, InApi
<1>6. AfterBreak(q) \in Requests /\ Placed(AfterBreak(q))
  <2>1. CASE q.left > 0
    <3>1. q.left - 1 \in 0..Retries
      BY <2>1, <1>1, ConstantsAssumption DEF Requests
    <3> QED BY <2>1, <3>1, <1>1 DEF AfterBreak, Requests, Placed
  <2>2. CASE ~(q.left > 0)
    BY <2>2, <1>5 DEF AfterBreak, GivesUp
  <2> QED BY <2>1, <2>2
<1>7. Renewed(q) \in Requests /\ Placed(Renewed(q))
  <2>1. 0 \in 0..Retries
    BY ConstantsAssumption
  <2>2. Renewed(q) \in Requests
    BY <1>1, <2>1 DEF Renewed, Requests
  <2>3. Renewed(q).pc = "append"
    BY <1>1 DEF Renewed, Requests
  <2> QED BY <2>2, <2>3 DEF Placed
<1> QED BY <1>2, <1>3, <1>4, <1>5, <1>6, <1>7, MailTyped

\* The forms that get an outcome keep their accounts.
LEMMA ShownType ==
  ASSUME TypeOK, NEW F, Shown(F)
  PROVE  /\ form' \in [Window -> Forms]
         /\ \A w \in Window : /\ form'[w].account = form[w].account
                              /\ form'[w].round = form[w].round
                              /\ form'[w].send = IF form[w].send \in F THEN None ELSE form[w].send
BY Steps DEF Shown, Unwatched, Form, Forms

LEMMA OutcomeTyped ==
  ASSUME ScreenInv, NEW s \in Submission, Answer(s) \/ AnswerLost(s),
         Waits(s) => sending[s].window \in Window /\ Ready(sending[s].window)
  PROVE  ScreenInv'
<1>t. TypeOK /\ Windows /\ Addressed /\ sending[s] \in Requests
  BY Steps DEF ScreenInv
<1>1. form' \in [Window -> Forms] /\ \A w \in Window : form'[w].account = form[w].account
  BY <1>t, ShownType DEF Answer, AnswerLost
<1>2. UNCHANGED <<bridge, drafts, opened, mail>> /\ events' \in 0..MaxEvents
  BY <1>t, Steps DEF Answer, AnswerLost, electron, TypeOK
<1>3. /\ sending' \in [Submission -> Requests]
      /\ \A r \in Submission : Placed(sending'[r])
  <2>1. CASE Answer(s)
    <3> DEFINE q == [sending[s] EXCEPT !.pc = "done",
                                       !.heard = IF Waits(s) THEN sending[s].pc ELSE @]
    <3>1. q \in Requests /\ Placed(q) /\ Set(s, q)
      BY <2>1, <1>t DEF Answer, Requests, Placed
    <3> HIDE DEF q
    <3> QED BY <3>1, <1>t, SetType
  <2>2. CASE AnswerLost(s)
    <3> DEFINE q == [sending[s] EXCEPT !.heard = "failed", !.cut = TRUE]
    <3>1. q \in Requests /\ Placed(q) /\ Set(s, q)
      BY <2>2, <1>t, Steps DEF AnswerLost, Requests, Placed
    <3> HIDE DEF q
    <3> QED BY <3>1, <1>t, SetType
  <2> QED BY <2>1, <2>2
\* A window that leaves was open.
<1>4. /\ window' \in [Window -> Places]
      /\ \A w \in Window : \/ window'[w] = window[w]
                           \/ Answer(s) /\ Waits(s) /\ w = sending[s].window /\ window'[w] = Leaves
  BY <1>t DEF Answer, AnswerLost, TypeOK, Places, Leaves
<1>5. TypeOK'
  BY <1>t, <1>1, <1>2, <1>3, <1>4 DEF TypeOK, Placed, At, mail
<1>6. Windows'
  BY <1>t, <1>2, <1>4 DEF Windows, Leaves
<1>7. Addressed'
  BY <1>t, <1>1, <1>4 DEF Addressed, Ready
<1> QED BY <1>5, <1>6, <1>7 DEF ScreenInv

LEMMA CrashTyped ==
  ASSUME ScreenInv, Crash
  PROVE  ScreenInv'
<1>t. TypeOK /\ Windows /\ Addressed
  BY DEF ScreenInv
<1>1. form' \in [Window -> Forms] /\ \A w \in Window : form'[w].account = form[w].account
  BY <1>t, ShownType DEF Crash
<1>2. UNCHANGED <<bridge, drafts, opened, window, mail>> /\ events' \in 0..MaxEvents
  BY <1>t, Steps DEF Crash, electron
<1>3. ASSUME NEW s \in Submission
      PROVE  LET q == [Ends(sending[s], "done") EXCEPT !.cut = TRUE,
                                                       !.heard = IF Waits(s) THEN "failed" ELSE @]
             IN  q \in Requests /\ Placed(q)
  <2>1. sending[s] \in Requests /\ Ends(sending[s], "done") \in Requests
        /\ Ends(sending[s], "done").pc = "done"
    BY <1>t, Steps, EndsType
  <2> DEFINE e == Ends(sending[s], "done")
  <2> HIDE DEF e
  <2>2. e \in Requests /\ e.pc = "done"
        => LET q == [e EXCEPT !.cut = TRUE, !.heard = IF Waits(s) THEN "failed" ELSE @]
           IN  q \in Requests /\ Placed(q)
    BY DEF Requests, Placed
  <2> QED BY <2>1, <2>2 DEF e
<1>4. \A s \in Submission : sending'[s] \in Requests /\ Placed(sending'[s])
  BY <1>t, <1>3, Steps DEF Crash
<1>5. sending' \in [Submission -> Requests]
  BY <1>4 DEF Crash
<1>6. TypeOK'
  BY <1>t, <1>1, <1>2, <1>4, <1>5 DEF TypeOK, Placed, At, mail
<1> QED BY <1>t, <1>1, <1>2, <1>6 DEF ScreenInv, Windows, Addressed

-----------------------------------------------------------------------------
(* What a form shows of its requests *)

Gone(w) == window[w] \in {"closing", "closed"}

\* A form waits for a request of its own, and only while it is on the screen.
Linked ==
  \A w \in Window : form[w].send # None =>
    ~At(form[w].send, "none") /\ sending[form[w].send].window = w /\ Ready(w)

\* What the form made of a request, and why: it waits for it; it closed over a message
\* that went out; it showed an error, as nothing did, the word was cut off or the folder for
\* the copy could not be looked up; or it was closed, or started afresh, in the meantime.
Story(s) == LET q == sending[s] w == q.window IN
  /\ At(s, "none") => q.heard = "waiting"
  /\ ~At(s, "none") =>
       /\ w \in Window /\ window[w] # "none" /\ q.round <= form[w].round
       /\ q.heard = "waiting" <=> form[w].send = s
       /\ q.heard = "waiting" => q.account = form[w].account
       /\ q.heard = "sent" => /\ q.pc = "done" /\ delivered[s] = 1 + unsure[s]
                              /\ Gone(w) /\ q.account = form[w].account
       /\ q.heard = "failed" => q.cut \/ s \in unfiled \/ (q.pc = "done" /\ delivered[s] = unsure[s])
       /\ q.heard = "forgotten" => Gone(w) \/ q.round < form[w].round

\* Two requests of one form, not started afresh in between: one was shown as failed.
Pairs ==
  \A s, t \in Submission :
    /\ s # t /\ ~At(s, "none") /\ ~At(t, "none")
    /\ sending[s].window = sending[t].window /\ sending[s].round = sending[t].round
    => "failed" \in {sending[s].heard, sending[t].heard}

StoryInv == Linked /\ Pairs /\ \A s \in Submission : Story(s)

LEMMA SubmissionsAreSome == None \notin Submission
BY ConstantsAssumption

\* Requests keep their window and round, and a shown error stays shown.
LEMMA PairsKept ==
  ASSUME Pairs,
         \A s \in Submission :
           /\ sending'[s].window = sending[s].window /\ sending'[s].round = sending[s].round
           /\ sending'[s].pc = "none" <=> sending[s].pc = "none"
           /\ sending[s].heard = "failed" => sending'[s].heard = "failed"
  PROVE  Pairs'
BY DEF Pairs, At

\* A step of the windows: a form lets go of its request only when its window goes or it is
\* started afresh, and keeps its account while it waits and once it is gone.
LEMMA ScreenStory ==
  ASSUME ScreenInv, StoryInv, UNCHANGED mail,
         sending' = Forgotten(form') \/ (sending' = sending /\ form' = form),
         form' \in [Window -> Forms],
         \A v \in Window :
           /\ form'[v].send \in {form[v].send, None}
           /\ window[v] # "none" => window'[v] # "none" /\ form[v].round <= form'[v].round
           /\ form'[v].send # form[v].send => Gone(v)' \/ form[v].round < form'[v].round
           /\ Gone(v) => Gone(v)' /\ form'[v].account = form[v].account
           /\ form'[v].send # None => form'[v].account = form[v].account /\ Ready(v)'
  PROVE  StoryInv'
<1>t. TypeOK
  BY DEF ScreenInv
<1>r. \A v \in Window : form[v].round \in Nat /\ form'[v].round \in Nat
  BY <1>t, Steps DEF Forms
<1>1. ASSUME NEW s \in Submission
      PROVE  /\ sending'[s].pc = sending[s].pc /\ sending'[s].window = sending[s].window
             /\ sending'[s].account = sending[s].account /\ sending'[s].round = sending[s].round
             /\ sending'[s].cut = sending[s].cut
             /\ sending'[s].heard = IF /\ ~At(s, "none") /\ sending[s].heard = "waiting"
                                       /\ form'[sending[s].window].send # s
                                    THEN "forgotten" ELSE sending[s].heard
  <2>1. CASE sending' = Forgotten(form')
    <3> DEFINE f == form'
    <3> HIDE DEF f
    <3>1. sending' = Forgotten(f)
      BY <2>1 DEF f
    <3>2. /\ sending'[s].pc = sending[s].pc /\ sending'[s].window = sending[s].window
          /\ sending'[s].account = sending[s].account /\ sending'[s].round = sending[s].round
          /\ sending'[s].cut = sending[s].cut
          /\ sending'[s].heard = IF /\ ~At(s, "none") /\ sending[s].heard = "waiting"
                                    /\ f[sending[s].window].send # s
                                 THEN "forgotten" ELSE sending[s].heard
      BY <1>t, <3>1, ForgottenType
    <3> QED BY <3>2 DEF f
  <2>2. CASE sending' = sending /\ form' = form
    <3>1. Story(s)
      BY DEF StoryInv
    <3>2. ~At(s, "none") /\ sending[s].heard = "waiting" => form[sending[s].window].send = s
      BY <3>1 DEF Story
    <3> QED BY <2>2, <3>2
  <2> QED BY <2>1, <2>2
<1>2. ASSUME NEW s \in Submission
      PROVE  Story(s)'
  <2> PICK w : w = sending[s].window
    OBVIOUS
  <2>1. Story(s) /\ s # None
    BY SubmissionsAreSome DEF StoryInv
  <2>2. CASE At(s, "none")
    BY <1>1, <2>1, <2>2 DEF Story, At
  <2>3. CASE ~At(s, "none")
    <3>1. /\ w \in Window /\ window[w] # "none" /\ sending[s].round <= form[w].round
          /\ sending[s].round \in Nat
      BY <1>t, <2>1, <2>3, Steps DEF Story, Requests
    <3>2. window'[w] # "none" /\ sending[s].round <= form'[w].round
      BY <3>1, <1>r
    <3>3. /\ sending'[s].heard = "waiting" <=> form'[w].send = s
          /\ sending'[s].heard = "waiting" => sending[s].account = form'[w].account
      BY <1>1, <2>1, <2>3, <3>1 DEF Story
    <3>4. sending'[s].heard = "sent" =>
            /\ sending[s].pc = "done" /\ delivered[s] = 1 + unsure[s]
            /\ Gone(w)' /\ sending[s].account = form'[w].account
      BY <1>1, <2>1, <2>3, <3>1 DEF Story
    <3>5. sending'[s].heard = "failed" =>
            sending[s].cut \/ s \in unfiled \/ (sending[s].pc = "done" /\ delivered[s] = unsure[s])
      BY <1>1, <2>1, <2>3 DEF Story
    <3>6. sending'[s].heard = "forgotten" => Gone(w)' \/ sending[s].round < form'[w].round
      <4>1. CASE sending[s].heard = "forgotten"
        <5>1. Gone(w) \/ sending[s].round < form[w].round
          BY <4>1, <2>1, <2>3 DEF Story
        <5>2. form[w].round <= form'[w].round /\ (Gone(w) => Gone(w)')
          BY <3>1
        <5> QED BY <5>1, <5>2, <3>1, <1>r
      <4>2. CASE sending[s].heard = "waiting" /\ form'[w].send # s
        <5>1. form[w].send = s /\ sending[s].round <= form[w].round
          BY <4>2, <2>1, <2>3 DEF Story
        <5>2. Gone(w)' \/ form[w].round < form'[w].round
          BY <4>2, <5>1, <3>1
        <5> QED BY <5>1, <5>2, <3>1, <1>r
      <4> QED BY <4>1, <4>2, <1>1
    <3> QED BY <1>1, <2>3, <3>1, <3>2, <3>3, <3>4, <3>5, <3>6 DEF Story, At, mail
  <2> QED BY <2>2, <2>3
<1>3. Linked'
  <2> SUFFICES ASSUME NEW w \in Window, form'[w].send # None
               PROVE  /\ sending'[form'[w].send].pc # "none"
                      /\ sending'[form'[w].send].window = w /\ Ready(w)'
    BY DEF Linked, At
  <2>1. form'[w].send = form[w].send /\ form[w].send \in Submission
    BY <1>t, Steps DEF Forms
  <2>2. sending[form[w].send].pc # "none" /\ sending[form[w].send].window = w
    BY <2>1 DEF StoryInv, Linked, At
  <2> QED BY <1>1, <2>1, <2>2
<1>4. Pairs'
  <2>1. \A s \in Submission :
          /\ sending'[s].window = sending[s].window /\ sending'[s].round = sending[s].round
          /\ sending'[s].pc = "none" <=> sending[s].pc = "none"
          /\ sending[s].heard = "failed" => sending'[s].heard = "failed"
    BY <1>1
  <2> QED BY <2>1, PairsKept DEF StoryInv
<1> QED BY <1>2, <1>3, <1>4 DEF StoryInv

LEMMA WindowsStory ==
  ASSUME ScreenInv, ScreenInv', StoryInv, NEW w \in Window,
         \/ Load(w) \/ Reload(w) \/ CloseByUser(w) \/ CloseDraft(w) \/ Closed(w)
         \/ \E a \in Account : Open(w, a) \/ ChangeAccount(w, a)
  PROVE  StoryInv'
<1>t. TypeOK /\ form' \in [Window -> Forms]
  BY DEF ScreenInv, TypeOK
<1>u. \A v \in Window :
        /\ form[v].round \in Nat /\ form[v].round <= form[v].round
        /\ form[v].round + 1 \in Nat /\ form[v].round <= form[v].round + 1
        /\ form[v].round < form[v].round + 1
        /\ form[v].send # None => Ready(v)
  BY <1>t, Steps DEF Forms, StoryInv, Linked
<1>f. \A a, b, n : Form(a, b, n).account = a /\ Form(a, b, n).send = b /\ Form(a, b, n).round = n
  BY DEF Form
<1>n. \A v \in Window : /\ Unwatched(v).account = form[v].account /\ Unwatched(v).send = None
                        /\ Unwatched(v).round = form[v].round
  BY <1>f DEF Unwatched
<1>1. CASE Load(w) \/ CloseDraft(w) \/ Closed(w)
  <2>1. UNCHANGED <<form, sending, mail>>
    BY <1>1 DEF Load, CloseDraft, Closed
  <2>2. \A v \in Window : window'[v] = window[v]
                          \/ (v = w /\ window[v] \in {"loading", "closing"} /\ window'[v] # "none"
                              /\ (window[v] = "closing" => window'[v] = "closed"))
    BY <1>1, <1>t DEF Load, CloseDraft, Closed, TypeOK
  <2>3. \A v \in Window : form[v].send # None => window[v] = "ready"
    BY <1>u DEF Ready
  <2>4. \A v \in Window :
          /\ window[v] # "none" => window'[v] # "none"
          /\ Gone(v) => Gone(v)'
          /\ form[v].send # None => Ready(v)'
    BY <2>2, <2>3 DEF Gone, Ready
  <2> QED BY <2>1, <2>4, <1>t, <1>u, ScreenStory
<1>2. CASE Reload(w)
  <2> DEFINE g == Form(form[w].account, None, form[w].round + 1)
  <2>1. /\ form' = [form EXCEPT ![w] = g] /\ window' = [window EXCEPT ![w] = "loading"]
        /\ window[w] = "ready" /\ sending' = Forgotten(form') /\ UNCHANGED mail
    BY <1>2 DEF Reload, Ready
  <2>2. g.account = form[w].account /\ g.send = None /\ g.round = form[w].round + 1
    BY <1>f
  <2> HIDE DEF g
  <2>3. \A v \in Window :
          /\ form'[v] = (IF v = w THEN g ELSE form[v])
          /\ window'[v] = (IF v = w THEN "loading" ELSE window[v])
    BY <2>1, <1>t DEF TypeOK
  <2>4. \A v \in Window :
          /\ form'[v].send \in {form[v].send, None}
          /\ window[v] # "none" => window'[v] # "none" /\ form[v].round <= form'[v].round
          /\ form'[v].send # form[v].send => Gone(v)' \/ form[v].round < form'[v].round
          /\ Gone(v) => Gone(v)' /\ form'[v].account = form[v].account
          /\ form'[v].send # None => form'[v].account = form[v].account /\ Ready(v)'
    BY <2>1, <2>2, <2>3, <1>u DEF Gone, Ready
  <2> QED BY <2>1, <2>4, <1>t, ScreenStory
<1>3. CASE CloseByUser(w)
  <2>1. /\ form' = [form EXCEPT ![w] = Unwatched(w)] /\ window' = [window EXCEPT ![w] = Leaves]
        /\ window[w] \in {"loading", "ready"} /\ sending' = Forgotten(form') /\ UNCHANGED mail
    BY <1>3 DEF CloseByUser
  <2>2. Leaves \in {"closing", "closed"}
    BY DEF Leaves
  <2>3. \A v \in Window :
          /\ form'[v] = (IF v = w THEN Unwatched(w) ELSE form[v])
          /\ window'[v] = (IF v = w THEN Leaves ELSE window[v])
    BY <2>1, <1>t DEF TypeOK
  <2>4. \A v \in Window :
          /\ form'[v].send \in {form[v].send, None}
          /\ window[v] # "none" => window'[v] # "none" /\ form[v].round <= form'[v].round
          /\ form'[v].send # form[v].send => Gone(v)' \/ form[v].round < form'[v].round
          /\ Gone(v) => Gone(v)' /\ form'[v].account = form[v].account
          /\ form'[v].send # None => form'[v].account = form[v].account /\ Ready(v)'
    BY <2>1, <2>2, <2>3, <1>n, <1>u DEF Gone, Ready
  <2> QED BY <2>1, <2>4, <1>t, ScreenStory
<1>4. ASSUME NEW a \in Account, Open(w, a)
      PROVE  StoryInv'
  <2>1. /\ window[w] = "none" /\ sending' = Forgotten(form') /\ UNCHANGED mail
        /\ form' = [v \in Window |->
             IF v = w THEN Form(a, None, 0) ELSE IF bridge THEN form[v] ELSE Unwatched(v)]
        /\ window' = IF bridge THEN [window EXCEPT ![w] = "loading"]
                     ELSE [v \in Window |-> IF v = w THEN "ready"
                                            ELSE IF window[v] = "ready" THEN "closed" ELSE window[v]]
    BY <1>4 DEF Open, Ready
  <2>2. \A v \in Window :
          /\ v # w => form'[v] = (IF bridge THEN form[v] ELSE Unwatched(v))
          /\ v = w => form'[v].send = None
          /\ v # w => window'[v] = (IF ~bridge /\ window[v] = "ready" THEN "closed" ELSE window[v])
    BY <2>1, <1>t, <1>f DEF TypeOK
  <2>3. \A v \in Window : form[v].send # None => window[v] = "ready"
    BY <1>u DEF Ready
  <2>4. ASSUME NEW v \in Window
        PROVE  /\ form'[v].send \in {form[v].send, None}
               /\ window[v] # "none" => window'[v] # "none" /\ form[v].round <= form'[v].round
               /\ form'[v].send # form[v].send => Gone(v)' \/ form[v].round < form'[v].round
               /\ Gone(v) => Gone(v)' /\ form'[v].account = form[v].account
               /\ form'[v].send # None => form'[v].account = form[v].account /\ Ready(v)'
    <3>1. CASE v = w
      <4>1. form'[v].send = None /\ form[v].send = None /\ ~Gone(v) /\ window[v] = "none"
        BY <2>1, <2>2, <2>3, <3>1 DEF Gone
      <4> QED BY <4>1
    <3>2. CASE v # w /\ bridge
      <4>1. form'[v] = form[v] /\ window'[v] = window[v]
        BY <2>2, <3>2
      <4> QED BY <4>1, <1>u DEF Gone, Ready
    <3>3. CASE v # w /\ ~bridge
      <4>1. /\ form'[v].account = form[v].account /\ form'[v].send = None
            /\ form'[v].round = form[v].round
            /\ window'[v] = (IF window[v] = "ready" THEN "closed" ELSE window[v])
        BY <2>2, <3>3, <1>n
      <4> QED BY <4>1, <2>3, <1>u DEF Gone
    <3> QED BY <3>1, <3>2, <3>3
  <2> QED BY <2>1, <2>4, <1>t, ScreenStory
<1>5. ASSUME NEW a \in Account, ChangeAccount(w, a)
      PROVE  StoryInv'
  <2> DEFINE g == Afresh(w, a)
  <2>1. /\ form' = [form EXCEPT ![w] = g] /\ window' = window
        /\ window[w] = "ready" /\ sending' = Forgotten(form') /\ UNCHANGED mail
    BY <1>5 DEF ChangeAccount, Ready
  <2>2. g.send = None /\ g.round = form[w].round + 1
    BY <1>f DEF Afresh
  <2> HIDE DEF g
  <2>3. \A v \in Window : form'[v] = (IF v = w THEN g ELSE form[v])
    BY <2>1, <1>t DEF TypeOK
  <2>4. \A v \in Window :
          /\ form'[v].send \in {form[v].send, None}
          /\ window[v] # "none" => window'[v] # "none" /\ form[v].round <= form'[v].round
          /\ form'[v].send # form[v].send => Gone(v)' \/ form[v].round < form'[v].round
          /\ Gone(v) => Gone(v)' /\ form'[v].account = form[v].account
          /\ form'[v].send # None => form'[v].account = form[v].account /\ Ready(v)'
    BY <2>1, <2>2, <2>3, <1>u DEF Gone, Ready
  <2> QED BY <2>1, <2>4, <1>t, ScreenStory
<1> QED BY <1>1, <1>2, <1>3, <1>4, <1>5

\* A form that may submit was started afresh since its last request, or has shown that
\* it failed.
LEMMA SubmitStory ==
  ASSUME ScreenInv, StoryInv, NEW w \in Window, NEW s \in Submission, Submit(w, s)
  PROVE  StoryInv'
<1>t. TypeOK
  BY DEF ScreenInv
<1> DEFINE q == Request(w, form[w].account, form[w].round, "smtp", 1, Retries, FALSE, "waiting", FALSE)
           g == Form(form[w].account, s, form[w].round)
<1>1. /\ form' = [form EXCEPT ![w] = g] /\ sending' = [Forgotten(form') EXCEPT ![s] = q]
      /\ UNCHANGED <<window, mail>> /\ window[w] = "ready" /\ form[w].send = None
      /\ sending[s].pc = "none"
  BY DEF Submit, MaySubmit, Ready, Form, At
<1>2. /\ q.window = w /\ q.account = form[w].account /\ q.round = form[w].round
      /\ q.pc = "smtp" /\ q.heard = "waiting"
      /\ g.account = form[w].account /\ g.send = s /\ g.round = form[w].round
  BY DEF Request, Form
<1> HIDE DEF q, g
<1>3. \A v \in Window : form'[v] = IF v = w THEN g ELSE form[v]
  BY <1>1, <1>t DEF TypeOK
<1>n. s # None /\ form[w].round \in Nat
  BY SubmissionsAreSome, <1>t, Steps DEF Forms
<1>4. ASSUME NEW r \in Submission, r # s
      PROVE  sending'[r] = sending[r]
  <2>1. Story(r)
    BY DEF StoryInv
  <2>2. ~(~At(r, "none") /\ sending[r].heard = "waiting" /\ form'[sending[r].window].send # r)
    <3> SUFFICES ASSUME ~At(r, "none"), sending[r].heard = "waiting"
                 PROVE  form'[sending[r].window].send = r
      OBVIOUS
    <3>1. sending[r].window \in Window /\ form[sending[r].window].send = r /\ r # None
      BY <2>1, SubmissionsAreSome DEF Story
    <3>2. sending[r].window # w
      BY <3>1, <1>1
    <3> QED BY <3>1, <3>2, <1>3
  <2> QED BY <2>2, <1>1, <1>4 DEF Forgotten
<1>5. sending'[s] = q
  BY <1>1 DEF Forgotten
<1>6. ASSUME NEW r \in Submission
      PROVE  Story(r)'
  <2>1. CASE r = s
    <3>1. window'[w] # "none" /\ form'[w] = g /\ form[w].round <= form[w].round
      BY <1>1, <1>3, <1>n
    <3> QED BY <2>1, <1>2, <1>5, <3>1 DEF Story, At
  <2>2. CASE r # s
    <3> PICK v : v = sending[r].window
      OBVIOUS
    <3>1. sending'[r] = sending[r] /\ window' = window /\ UNCHANGED mail /\ Story(r)
      BY <1>1, <1>4, <2>2 DEF StoryInv
    <3>2. CASE sending[r].pc = "none"
      BY <3>1, <3>2 DEF Story, At
    <3>3. CASE sending[r].pc # "none"
      <4>1. v \in Window
        BY <3>1, <3>3 DEF Story, At
      <4>2. /\ form'[v].account = form[v].account /\ form'[v].round = form[v].round
            /\ form'[v].send = r <=> form[v].send = r
        <5>1. CASE v = w
          <6>1. form[v].send # r /\ form'[v].send # r
            BY <5>1, <2>2, <1>1, <1>2, <1>3, SubmissionsAreSome
          <6> QED BY <6>1, <5>1, <1>2, <1>3
        <5>2. CASE v # w
          BY <5>2, <4>1, <1>3
        <5> QED BY <5>1, <5>2
      <4> QED BY <3>1, <3>3, <4>1, <4>2 DEF Story, At, Gone, mail
    <3> QED BY <3>2, <3>3
  <2> QED BY <2>1, <2>2
<1>7. Linked'
  <2> SUFFICES ASSUME NEW v \in Window, form'[v].send # None
               PROVE  /\ sending'[form'[v].send].pc # "none"
                      /\ sending'[form'[v].send].window = v /\ Ready(v)'
    BY DEF Linked, At
  <2>1. CASE v = w
    BY <2>1, <1>1, <1>2, <1>3, <1>5 DEF Ready
  <2>2. CASE v # w
    <3>1. form'[v] = form[v] /\ form[v].send \in Submission
      BY <2>2, <1>3, <1>t, Steps DEF Forms
    <3>2. sending[form[v].send].pc # "none" /\ sending[form[v].send].window = v /\ Ready(v)
      BY <3>1 DEF StoryInv, Linked, At
    <3>3. form[v].send # s
      BY <3>2, <1>1
    <3> QED BY <3>1, <3>2, <3>3, <1>1, <1>4 DEF Ready
  <2> QED BY <2>1, <2>2
<1>8. ASSUME NEW r \in Submission \ {s}, ~At(r, "none"),
             sending[r].window = w, sending[r].round = form[w].round
      PROVE  sending[r].heard = "failed"
  <2>1. Story(r) /\ r # None /\ sending[r] \in Requests
    BY SubmissionsAreSome, <1>t, Steps DEF StoryInv
  <2>2. sending[r].heard # "waiting" /\ sending[r].heard # "sent"
    BY <1>1, <1>8, <2>1 DEF Story, Gone
  <2>3. sending[r].heard # "forgotten"
    <3>1. ~Gone(w) /\ ~(sending[r].round < form[w].round)
      BY <1>1, <1>8, <1>n DEF Gone
    <3> QED BY <3>1, <1>8, <2>1 DEF Story
  <2> QED BY <2>1, <2>2, <2>3 DEF Requests
<1>9. Pairs'
  <2> SUFFICES ASSUME NEW x \in Submission, NEW y \in Submission, x # y,
                      sending'[x].pc # "none", sending'[y].pc # "none",
                      sending'[x].window = sending'[y].window,
                      sending'[x].round = sending'[y].round
               PROVE  "failed" \in {sending'[x].heard, sending'[y].heard}
    BY DEF Pairs, At
  <2>1. CASE x = s
    BY <2>1, <1>2, <1>4, <1>5, <1>8 DEF At
  <2>2. CASE y = s
    BY <2>2, <1>2, <1>4, <1>5, <1>8 DEF At
  <2>3. CASE x # s /\ y # s
    BY <2>3, <1>4 DEF StoryInv, Pairs, At
  <2> QED BY <2>1, <2>2, <2>3
<1> QED BY <1>6, <1>7, <1>9 DEF StoryInv

\* A request goes on, from one server to another, and its form knows nothing of it.
LEMMA ProgressStory ==
  ASSUME ScreenInv, StoryInv, NEW s \in Submission, NEW q, Set(s, q),
         UNCHANGED <<window, form>>,
         sending[s].pc \notin {"none", "done"}, q.pc # "none",
         q.window = sending[s].window, q.account = sending[s].account,
         q.round = sending[s].round, q.heard = sending[s].heard, q.cut = sending[s].cut,
         \A r \in Submission \ {s} : delivered'[r] = delivered[r] /\ unsure'[r] = unsure[r],
         unfiled \subseteq unfiled'
  PROVE  StoryInv'
<1>1. \A r \in Submission : sending'[r] = IF r = s THEN q ELSE sending[r]
  BY DEF Set, ScreenInv, TypeOK
<1>2. ASSUME NEW r \in Submission
      PROVE  Story(r)'
  <2>1. Story(r)
    BY DEF StoryInv
  <2>2. CASE r = s
    BY <1>1, <2>1, <2>2 DEF Story, At, Gone
  <2>3. CASE r # s
    BY <1>1, <2>1, <2>3 DEF Story, At, Gone
  <2> QED BY <2>2, <2>3
<1>3. Linked'
  <2>1. \A w \in Window : form[w].send # None => form[w].send \in Submission
    BY Steps DEF ScreenInv, Forms
  <2> QED BY <1>1, <2>1 DEF StoryInv, Linked, At, Ready
<1>4. Pairs'
  BY <1>1, PairsKept DEF StoryInv
<1> QED BY <1>2, <1>3, <1>4 DEF StoryInv

LEMMA SmtpStory ==
  ASSUME ScreenInv, StoryInv, NEW s \in Submission, Smtp(s)
  PROVE  StoryInv'
<1> DEFINE q == sending[s]
<1>1. q \in Requests /\ q.pc = "smtp"
  BY Steps DEF ScreenInv, Smtp, HandOver, LookupFails, Breaks, Rejects, At
<1>2. UNCHANGED <<window, form>>
  BY DEF Smtp, HandOver, LookupFails, Breaks, Rejects
<1>3. \A r \in Submission \ {s} : delivered'[r] = delivered[r] /\ unsure'[r] = unsure[r]
  BY DEF Smtp, HandOver, LookupFails, Breaks, Rejects, Delivered, mail, ScreenInv, TypeOK
<1>4. PICK r \in {AfterHandOver(q), NextEndpoint(q), Ends(q, "failed")} : Set(s, r)
  BY DEF Smtp, HandOver, LookupFails, Breaks, Rejects
<1> HIDE DEF q
<1>5. /\ r.pc # "none" /\ r.window = q.window /\ r.account = q.account
      /\ r.round = q.round /\ r.heard = q.heard /\ r.cut = q.cut
  <2> DEFINE Same(x) == /\ x.pc # "none" /\ x.window = q.window /\ x.account = q.account
                        /\ x.round = q.round /\ x.heard = q.heard /\ x.cut = q.cut
  <2>1. Same(Ends(q, "sent")) /\ Same(Ends(q, "failed"))
    BY <1>1, EndsType DEF InApi
  <2>2. Same(With(q, "append"))
    BY <1>1, WithType DEF InApi
  <2>3. Same([q EXCEPT !.endpoint = @ + 1])
    BY <1>1 DEF Requests
  <2> HIDE DEF Same
  <2>4. Same(r)
    BY <1>4, <2>1, <2>2, <2>3 DEF AfterHandOver, NextEndpoint
  <2> QED BY <2>4 DEF Same
<1>6. unfiled \subseteq unfiled'
  BY DEF Smtp, HandOver, LookupFails, Breaks, Rejects, mail
<1> QED BY <1>1, <1>2, <1>3, <1>4, <1>5, <1>6, ProgressStory DEF q

LEMMA AppendStory ==
  ASSUME ScreenInv, StoryInv, NEW s \in Submission, Append(s)
  PROVE  StoryInv'
<1> DEFINE q == sending[s]
<1>1. q \in Requests /\ q.pc = "append"
  BY Steps DEF ScreenInv, Append, Stores, AppendBreaks, AppendDenied, AppendFails, At
<1>2. UNCHANGED <<window, form, delivered, unsure, unfiled>>
  BY DEF Append, Stores, AppendBreaks, AppendDenied, AppendFails, mail
<1>3. PICK r \in {Ends(q, "sent"), AfterBreak(q), Renewed(q)} : Set(s, r)
  BY DEF Append, Stores, AppendBreaks, AppendDenied, AppendFails, GivesUp
<1> HIDE DEF q
<1>4. /\ r.pc # "none" /\ r.window = q.window /\ r.account = q.account
      /\ r.round = q.round /\ r.heard = q.heard /\ r.cut = q.cut
  <2> DEFINE Same(x) == /\ x.pc # "none" /\ x.window = q.window /\ x.account = q.account
                        /\ x.round = q.round /\ x.heard = q.heard /\ x.cut = q.cut
  <2>1. Same(Ends(q, "sent"))
    BY <1>1, EndsType DEF InApi
  <2>2. Same([q EXCEPT !.left = @ - 1])
    BY <1>1 DEF Requests
  <2>3. Same(Renewed(q))
    BY <1>1 DEF Requests, Renewed
  <2> HIDE DEF Same
  <2>4. Same(r)
    BY <1>3, <2>1, <2>2, <2>3 DEF AfterBreak, GivesUp
  <2> QED BY <2>4 DEF Same
<1> QED BY <1>1, <1>2, <1>3, <1>4, ProgressStory DEF q

\* The forms that wait for the requests F have their outcome: that a message went out, and
\* their windows leave, or an error.
LEMMA ShownStory ==
  ASSUME IInv, ScreenInv, StoryInv, NEW F \in SUBSET Submission, Shown(F), UNCHANGED mail,
         \A s \in Submission :
           /\ sending'[s].window = sending[s].window /\ sending'[s].account = sending[s].account
           /\ sending'[s].round = sending[s].round
           /\ sending'[s].pc = "none" <=> sending[s].pc = "none"
           /\ sending[s].pc = "done" => sending'[s].pc = "done"
           /\ sending[s].cut => sending'[s].cut
           /\ s \in F /\ Waits(s) =>
                \/ /\ sending'[s].heard = "sent" /\ sending[s].pc = "sent" /\ sending'[s].pc = "done"
                   /\ Gone(sending[s].window)'
                \/ /\ sending'[s].heard = "failed"
                   /\ sending'[s].cut \/ (sending[s].pc = "failed" /\ sending'[s].pc = "done")
           /\ ~(s \in F /\ Waits(s)) => sending'[s].heard = sending[s].heard,
         \A w \in Window : window'[w] = window[w] \/ (Gone(w)' /\ form[w].send \in F)
  PROVE  StoryInv'
<1>t. TypeOK
  BY DEF ScreenInv
<1>f. \A w \in Window : /\ form'[w].account = form[w].account /\ form'[w].round = form[w].round
                        /\ form'[w].send = IF form[w].send \in F THEN None ELSE form[w].send
  BY <1>t, ShownType
<1>g. \A w \in Window : (Gone(w) => Gone(w)') /\ (window[w] # "none" => window'[w] # "none")
  BY DEF Gone
<1>1. ASSUME NEW s \in Submission
      PROVE  Story(s)'
  <2> PICK w : w = sending[s].window
    OBVIOUS
  <2>1. Story(s) /\ s # None
    BY SubmissionsAreSome DEF StoryInv
  <2>2. CASE At(s, "none")
    BY <2>1, <2>2 DEF Story, At, Waits
  <2>3. CASE ~At(s, "none")
    <3>1. w \in Window /\ window'[w] # "none" /\ sending[s].round <= form'[w].round
      BY <1>f, <1>g, <2>1, <2>3 DEF Story
    <3>2. Waits(s) <=> form[w].send = s
      BY <2>3 DEF Waits
    <3>3. CASE s \in F /\ Waits(s)
      <4>1. sending[s].heard = "waiting" /\ sending[s].account = form'[w].account
        BY <1>f, <2>1, <2>3, <3>1, <3>2, <3>3 DEF Story
      <4>2. form'[w].send # s
        BY <1>f, <2>1, <3>1, <3>2, <3>3
      <4>3. /\ sending[s].pc = "sent" => delivered[s] = 1 + unsure[s]
            /\ sending[s].pc = "failed" => delivered[s] = unsure[s] \/ s \in unfiled
        BY DEF IInv, Ledger, At
      <4> QED BY <2>3, <3>1, <3>3, <4>1, <4>2, <4>3 DEF Story, At, mail
    <3>4. CASE ~(s \in F /\ Waits(s))
      <4>1. form'[w].send = s <=> form[w].send = s
        BY <1>f, <2>1, <3>1, <3>2, <3>4
      <4> QED BY <1>f, <1>g, <2>1, <2>3, <3>1, <3>4, <4>1 DEF Story, At, mail
    <3> QED BY <3>3, <3>4
  <2> QED BY <2>2, <2>3
<1>2. Linked'
  <2> SUFFICES ASSUME NEW w \in Window, form'[w].send # None
               PROVE  /\ sending'[form'[w].send].pc # "none"
                      /\ sending'[form'[w].send].window = w /\ Ready(w)'
    BY DEF Linked, At
  <2>1. form'[w].send = form[w].send /\ form[w].send \notin F /\ form[w].send \in Submission
    BY <1>f, <1>t, Steps DEF Forms
  <2> QED BY <2>1 DEF StoryInv, Linked, At, Ready
<1>3. Pairs'
  <2>1. \A s \in Submission : sending[s].heard = "failed" => sending'[s].heard = "failed"
    <3> SUFFICES ASSUME NEW s \in Submission, sending[s].heard = "failed"
                 PROVE  sending'[s].heard = "failed"
      OBVIOUS
    <3>1. ~Waits(s)
      BY DEF StoryInv, Story, Waits
    <3> QED BY <3>1
  <2> QED BY <2>1, PairsKept DEF StoryInv
<1> QED BY <1>1, <1>2, <1>3 DEF StoryInv

LEMMA OutcomeStory ==
  ASSUME IInv, ScreenInv, StoryInv, NEW s \in Submission, Answer(s) \/ AnswerLost(s)
  PROVE  StoryInv'
<1>t. TypeOK /\ sending[s] \in Requests
  BY Steps DEF ScreenInv
<1>1. \A w \in Window : form[w].send = s => Waits(s) /\ sending[s].window = w
  BY SubmissionsAreSome DEF StoryInv, Linked, Waits
<1>2. Waits(s) => sending[s].window \in Window
  BY DEF StoryInv, Story, Waits
<1>3. CASE Answer(s)
  <2> DEFINE q == [sending[s] EXCEPT !.pc = "done", !.heard = IF Waits(s) THEN sending[s].pc ELSE @]
  <2>1. /\ sending[s].pc \in {"sent", "failed"} /\ Set(s, q) /\ Shown({s}) /\ UNCHANGED mail
        /\ window' = IF Waits(s) /\ sending[s].pc = "sent"
                     THEN [window EXCEPT ![sending[s].window] = Leaves] ELSE window
    BY <1>3 DEF Answer
  <2>2. /\ q.window = sending[s].window /\ q.account = sending[s].account
        /\ q.round = sending[s].round /\ q.cut = sending[s].cut /\ q.pc = "done"
        /\ q.heard = IF Waits(s) THEN sending[s].pc ELSE sending[s].heard
    BY <1>t DEF Requests
  <2> HIDE DEF q
  <2>3. \A r \in Submission : sending'[r] = IF r = s THEN q ELSE sending[r]
    BY <1>t, <2>1 DEF Set, TypeOK
  <2>4. Leaves \in {"closing", "closed"}
    BY DEF Leaves
  <2>5. /\ \A w \in Window : window'[w] = window[w] \/ (Gone(w)' /\ form[w].send \in {s})
        /\ Waits(s) /\ sending[s].pc = "sent" => Gone(sending[s].window)'
    <3>1. window \in [Window -> Places]
      BY <1>t DEF TypeOK
    <3>2. CASE Waits(s) /\ sending[s].pc = "sent"
      <4>1. /\ sending[s].window \in Window /\ form[sending[s].window].send = s
            /\ window' = [window EXCEPT ![sending[s].window] = Leaves]
        BY <1>2, <2>1, <3>2 DEF Waits
      <4>2. \A w \in Window : window'[w] = IF w = sending[s].window THEN Leaves ELSE window[w]
        BY <3>1, <4>1
      <4>3. window'[sending[s].window] = Leaves /\ sending'[s].window = sending[s].window
        BY <2>2, <2>3, <4>1, <4>2
      <4>4. \A w \in Window : window'[w] = window[w] \/ (Gone(w)' /\ form[w].send \in {s})
        BY <2>4, <4>1, <4>2 DEF Gone
      <4> QED BY <2>4, <4>3, <4>4 DEF Gone
    <3>3. CASE ~(Waits(s) /\ sending[s].pc = "sent")
      BY <2>1, <3>3
    <3> QED BY <3>2, <3>3
  <2>6. ASSUME NEW r \in Submission
        PROVE  /\ sending'[r].window = sending[r].window /\ sending'[r].account = sending[r].account
               /\ sending'[r].round = sending[r].round
               /\ sending'[r].pc = "none" <=> sending[r].pc = "none"
               /\ sending[r].pc = "done" => sending'[r].pc = "done"
               /\ sending[r].cut => sending'[r].cut
               /\ r \in {s} /\ Waits(r) =>
                    \/ /\ sending'[r].heard = "sent" /\ sending[r].pc = "sent" /\ sending'[r].pc = "done"
                       /\ Gone(sending[r].window)'
                    \/ /\ sending'[r].heard = "failed"
                       /\ sending'[r].cut \/ (sending[r].pc = "failed" /\ sending'[r].pc = "done")
               /\ ~(r \in {s} /\ Waits(r)) => sending'[r].heard = sending[r].heard
    BY <2>1, <2>2, <2>3, <2>5
  <2> QED BY <2>1, <2>5, <2>6, ShownStory
<1>4. CASE AnswerLost(s)
  <2> DEFINE q == [sending[s] EXCEPT !.heard = "failed", !.cut = TRUE]
  <2>1. Waits(s) /\ Set(s, q) /\ Shown({s}) /\ UNCHANGED <<mail, window>>
    BY <1>4 DEF AnswerLost
  <2>2. /\ q.window = sending[s].window /\ q.account = sending[s].account
        /\ q.round = sending[s].round /\ q.cut /\ q.pc = sending[s].pc /\ q.heard = "failed"
    BY <1>t DEF Requests
  <2> HIDE DEF q
  <2>3. \A r \in Submission : sending'[r] = IF r = s THEN q ELSE sending[r]
    BY <1>t, <2>1 DEF Set, TypeOK
  <2>4. ASSUME NEW r \in Submission
        PROVE  /\ sending'[r].window = sending[r].window /\ sending'[r].account = sending[r].account
               /\ sending'[r].round = sending[r].round
               /\ sending'[r].pc = "none" <=> sending[r].pc = "none"
               /\ sending[r].pc = "done" => sending'[r].pc = "done"
               /\ sending[r].cut => sending'[r].cut
               /\ r \in {s} /\ Waits(r) => sending'[r].heard = "failed" /\ sending'[r].cut
               /\ ~(r \in {s} /\ Waits(r)) => sending'[r].heard = sending[r].heard
    BY <2>1, <2>2, <2>3
  <2> QED BY <2>1, <2>4, ShownStory
<1> QED BY <1>3, <1>4

LEMMA CrashStory ==
  ASSUME IInv, ScreenInv, StoryInv, Crash
  PROVE  StoryInv'
<1>t. TypeOK /\ \A s \in Submission : sending[s] \in Requests
  BY Steps DEF ScreenInv
<1> DEFINE F == {s \in Submission : sending[s].pc \in InApi /\ Waits(s)}
           q(s) == [Ends(sending[s], "done") EXCEPT !.cut = TRUE,
                                                    !.heard = IF Waits(s) THEN "failed" ELSE @]
<1>1. /\ sending' = [s \in Submission |-> IF sending[s].pc \notin InApi THEN sending[s] ELSE q(s)]
      /\ Shown(F) /\ UNCHANGED <<window, mail>>
  BY DEF Crash
<1>2. ASSUME NEW s \in Submission
      PROVE  /\ q(s).window = sending[s].window /\ q(s).account = sending[s].account
             /\ q(s).round = sending[s].round /\ q(s).cut /\ q(s).pc = "done"
             /\ q(s).heard = IF Waits(s) THEN "failed" ELSE sending[s].heard
  <2> DEFINE e == Ends(sending[s], "done")
  <2>1. /\ e \in Requests /\ e.pc = "done" /\ e.window = sending[s].window
        /\ e.account = sending[s].account /\ e.round = sending[s].round /\ e.heard = sending[s].heard
    BY <1>t, EndsType
  <2> HIDE DEF e
  <2>2. e \in Requests =>
          LET r == [e EXCEPT !.cut = TRUE, !.heard = IF Waits(s) THEN "failed" ELSE @] IN
          /\ r.window = e.window /\ r.account = e.account /\ r.round = e.round /\ r.cut
          /\ r.pc = e.pc /\ r.heard = IF Waits(s) THEN "failed" ELSE e.heard
    BY DEF Requests
  <2> QED BY <2>1, <2>2 DEF e
<1> HIDE DEF q
<1>3. ASSUME NEW s \in Submission
      PROVE  /\ sending'[s].window = sending[s].window /\ sending'[s].account = sending[s].account
             /\ sending'[s].round = sending[s].round
             /\ sending'[s].pc = "none" <=> sending[s].pc = "none"
             /\ sending[s].pc = "done" => sending'[s].pc = "done"
             /\ sending[s].cut => sending'[s].cut
             /\ s \in F /\ Waits(s) => sending'[s].heard = "failed" /\ sending'[s].cut
             /\ ~(s \in F /\ Waits(s)) => sending'[s].heard = sending[s].heard
  <2>1. CASE sending[s].pc \in InApi
    <3>1. sending'[s] = q(s) /\ sending[s].pc # "none" /\ (s \in F <=> Waits(s))
      BY <1>1, <2>1 DEF InApi
    <3> QED BY <1>2, <3>1
  <2>2. CASE sending[s].pc \notin InApi
    <3>1. sending'[s] = sending[s] /\ s \notin F
      BY <1>1, <2>2
    <3> QED BY <3>1
  <2> QED BY <2>1, <2>2
<1>4. F \in SUBSET Submission
  OBVIOUS
<1> HIDE DEF F
<1> QED BY <1>1, <1>3, <1>4, ShownStory

-----------------------------------------------------------------------------
(* The theorems *)

LEMMA Begins == Init => ScreenInv /\ StoryInv
<1> SUFFICES ASSUME Init PROVE ScreenInv /\ StoryInv
  OBVIOUS
<1>1. /\ \A w \in Window : window[w] = "none" /\ form[w] = Blank
      /\ \A s \in Submission : sending[s] = Unsent
  BY DEF Init
<1>2. /\ Blank \in Forms /\ Blank.send = None
      /\ Unsent \in Requests /\ Unsent.pc = "none" /\ Unsent.heard = "waiting"
  <2>1. 0 \in 0..Retries /\ 0 \in Nat
    BY ConstantsAssumption
  <2> QED BY <2>1 DEF Blank, Form, Forms, Unsent, Request, Requests
<1>3. TypeOK
  <2>1. events \in 0..MaxEvents /\ "none" \in Places
    BY ConstantsAssumption DEF Init, Places
  <2> HIDE DEF Forms, Requests
  <2> QED BY <1>1, <1>2, <2>1 DEF Init, TypeOK, At
<1>4. Windows /\ Addressed
  BY <1>1 DEF Init, Windows, Addressed
<1>5. StoryInv
  BY <1>1, <1>2 DEF StoryInv, Linked, Pairs, Story, At
<1> QED BY <1>3, <1>4, <1>5 DEF ScreenInv

LEMMA StoryInvariance == Spec => [](IInv /\ ScreenInv /\ StoryInv)
<1> DEFINE Inv == ScreenInv /\ StoryInv
<1>1. IInv /\ Inv /\ [Next]_vars => Inv'
  <2> SUFFICES ASSUME IInv, ScreenInv, StoryInv, [Next]_vars PROVE Inv'
    OBVIOUS
  <2>1. CASE UNCHANGED vars
    BY <2>1 DEF vars, mail, electron, ScreenInv, StoryInv, TypeOK, Windows, Addressed, Linked, Pairs,
                Story, At, Ready, Gone
  <2>2. ASSUME NEW w \in Window, Screen(w)
        PROVE  Inv'
    <3>1. ScreenInv'
      BY <2>2, ScreenTyped
    <3>2. StoryInv'
      BY <2>2, <3>1, WindowsStory, SubmitStory DEF Screen
    <3> QED BY <3>1, <3>2
  <2>3. ASSUME NEW s \in Submission, Smtp(s) \/ Append(s)
        PROVE  Inv'
    BY <2>3, SmtpTyped, SmtpStory, AppendTyped, AppendStory
  <2>4. ASSUME NEW s \in Submission, Answer(s) \/ AnswerLost(s)
        PROVE  Inv'
    <3>1. Waits(s) => sending[s].window \in Window /\ Ready(sending[s].window)
      BY SubmissionsAreSome DEF StoryInv, Story, Linked, Waits
    <3> QED BY <2>4, <3>1, OutcomeTyped, OutcomeStory
  <2>5. CASE Crash
    BY <2>5, CrashTyped, CrashStory
  <2> QED BY <2>1, <2>2, <2>3, <2>4, <2>5 DEF Next
<1> QED BY <1>1, Begins, Invariance, PTL DEF Spec

\* Every variable keeps its type, and a request stays within the endpoints of its account
\* (sendWithFallback walks [smtp, ...SMTP_FALLBACKS] and no further).
THEOREM TypeCorrect == Spec => []TypeOK
<1>1. ScreenInv => TypeOK
  BY DEF ScreenInv
<1> QED BY <1>1, StoryInvariance, PTL

\* However many windows are opened, reloaded and closed, in whatever order compose:close
\* and 'closed' arrive: the main process keeps the draft of a window for as long as the
\* window may ask for it, and no longer (main.ts).
THEOREM DraftsAreThere == Spec => []DraftsOfWindows
<1>1. ScreenInv => DraftsOfWindows
  BY DEF ScreenInv, Windows, DraftsOfWindows
<1> QED BY <1>1, StoryInvariance, PTL

\* A window that closed itself has sent its message from the account it showed; an error is
\* shown for a message that went out only if the word of it was lost, or the folder for its
\* copy could not be looked up (ComposeDialog, MailService.sendMessage).
THEOREM OutcomesAreTrue == Spec => []OutcomesAreHonest
<1>1. IInv /\ ScreenInv /\ StoryInv => OutcomesAreHonest
  <2> SUFFICES ASSUME IInv, ScreenInv, StoryInv, NEW s \in Submission
               PROVE  /\ sending[s].heard = "sent" =>
                           /\ delivered[s] > 0
                           /\ sending[s].account = form[sending[s].window].account
                           /\ window[sending[s].window] \in {"closing", "closed"}
                      /\ sending[s].heard = "failed" /\ delivered[s] > 0
                         => unsure[s] > 0 \/ sending[s].cut \/ s \in unfiled
    BY DEF OutcomesAreHonest
  <2>1. Story(s) /\ delivered[s] \in Nat /\ unsure[s] \in Nat
    BY DEF StoryInv, IInv
  <2> QED BY <2>1 DEF Story, Gone
<1> QED BY <1>1, StoryInvariance, PTL

\* Recipients get a message once more only for each connection that broke when a server had
\* it, however many endpoints there are (sendWithFallback); and a form sends again only what
\* was shown to have failed, unless it was started afresh (submit and the shortcut).
THEOREM DuplicatesAreExplained == Spec => []DuplicatesHaveCause
<1>1. IInv /\ StoryInv => DuplicatesHaveCause
  BY DEF IInv, Ledger, StoryInv, Pairs, DuplicatesHaveCause
<1> QED BY <1>1, StoryInvariance, PTL
=============================================================================
