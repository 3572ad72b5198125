---------------------------- MODULE MailActions ----------------------------
(***************************************************************************)
(* Reading, marking and moving messages: the handlers of the API           *)
(* (mail.service.ts), which change the message on the IMAP server and then *)
(* its row, the syncs that bring the rows of an account in line with its   *)
(* inbox meanwhile, and a desktop window, which lists the rows of all      *)
(* accounts page by page, shows one message in the reader, and is told of  *)
(* changes by replies and by Socket.IO events. Messages are numbered in    *)
(* order of date; the inbox of an account keeps its UIDVALIDITY (renewals  *)
(* of it are the subject of MailboxSync). MessageProofs extends this module *)
(* together with Tagging, hence MailInit, MailNext, MailSpec.               *)
(***************************************************************************)
EXTENDS Naturals, FiniteSets, Sequences

CONSTANTS
  Account,
  None,
  Message,    \* 1..n, by date
  Owner,      \* message -> its account
  Request,    \* requests of the window that may be in flight together
  PageSize,   \* PAGE_SIZE of the list
  UnreadOnly, \* the screen lists unread messages only
  First,      \* the messages there at the start
  MaxChances  \* bound: actions of the user, of other mail clients, and failures

ASSUME ConstantsAssumption ==
  /\ Message \subseteq Nat \ {0} /\ IsFiniteSet(Message) /\ First \subseteq Message
  /\ None \notin Account /\ Owner \in [Message -> Account]
  /\ PageSize \in Nat \ {0} /\ UnreadOnly \in BOOLEAN /\ MaxChances \in Nat

VARIABLES
  box,        \* messages in the inbox of their account, on the IMAP server
  boxFlags,   \* message -> its flags on the server
  rows,       \* messages with a row
  rowFlags,   \* message -> the flags of its row
  bodies,     \* rows whose body is loaded
  arrived,    \* messages that have been delivered so far
  request,    \* request -> what it does and where it is
  sync,       \* the job that syncs an inbox (SYNC_WORKER_CONCURRENCY = 1), and what it has read
  notices,    \* answers to POST sync and events on their way to the window
  pages,      \* the pages of the list in the query cache
  fetch,      \* the fetch of the list: all its pages again, the next page, or none
  reader,     \* the message in the reader and its query
  untold,     \* rows may have changed since the fetch of the list without word to it
  chances     \* what is left of MaxChances

server == <<box, boxFlags, arrived>>
database == <<rows, rowFlags, bodies>>
list == <<pages, fetch, untold>>
mailVars == <<box, boxFlags, rows, rowFlags, bodies, arrived, request, sync, notices,
              pages, fetch, reader, untold, chances>>

-----------------------------------------------------------------------------
(* Helpers *)

Flag == {"Seen", "Flagged"}
Put(flags, f, on) == IF on THEN flags \cup {f} ELSE flags \ {f}
Chance == chances > 0 /\ chances' = chances - 1
Calm == UNCHANGED chances

Entry(m, flags) == [msg |-> m, flags |-> flags]
\* ORDER BY received_at DESC: the messages of a set, the newest first.
Newest == [S \in SUBSET Message |->
  [i \in 1..Cardinality(S) |-> CHOOSE m \in S : Cardinality({k \in S : k >= m}) = i]]
Upto(s, n) == IF n < Len(s) THEN n ELSE Len(s)
Slice(s, offset, limit) == SubSeq(s, offset + 1, Upto(s, offset + limit))
\* (mutant of BodiesLeft: bodies in a table of their own)
BodiesStay == bodies
\* The body is a column of the row.
BodiesLeft == bodies \cap rows'
Listed == {m \in rows : UnreadOnly => "Seen" \notin rowFlags[m]}

\* (mutant of Window: each account contributes one page)
WindowOfOne(offset) == PageSize
\* listInbox: the newest offset + limit rows of every account, merged, then sliced.
Window(offset) == offset + PageSize
Newests(a, n) == LET s == Slice(Newest[{m \in Listed : Owner[m] = a}], 0, n) IN {s[i] : i \in DOMAIN s}
InboxPage(offset) ==
  LET merged == UNION {Newests(a, Window(offset)) : a \in Account}
      page == Slice(Newest[merged], offset, PageSize)
  IN [i \in DOMAIN page |-> Entry(page[i], rowFlags[page[i]])]

Doing(k, m, f, v, p, fs) == [kind |-> k, msg |-> m, flag |-> f, value |-> v, pc |-> p, flags |-> fs]
Free == Doing("none", 0, "Seen", FALSE, "done", {})
Busy(r) == request[r].kind # "none"
Pending(kinds) == \E r \in Request : request[r].kind \in kinds
Job(p, a, by, k, b, fs) == [pc |-> p, account |-> a, by |-> by, known |-> k, box |-> b, flags |-> fs]
Unflagged == [m \in Message |-> {}]
NoSync == Job("idle", None, "tick", {}, {}, Unflagged)
Fetching(k, w, g) == [kind |-> k, want |-> w, got |-> g]
NoFetch == Fetching("none", 0, <<>>)
Reading(m, p, fs) == [msg |-> m, pc |-> p, flags |-> fs]
Closed == Reading(0, "closed", {})

EntriesOf(ps) == UNION {{ps[i][j] : j \in DOMAIN ps[i]} : i \in DOMAIN ps}
\* What the reader shows: the answer of its query, or else the entry of the list.
Preview == {e.flags : e \in {x \in EntriesOf(pages) : x.msg = reader.msg}}
ShownFlags == IF reader.pc = "loaded" THEN {reader.flags} ELSE Preview

-----------------------------------------------------------------------------
(* The list *)

\* (mutant of Refetch: an invalidation joins the fetch in flight)
RefetchJoins ==
  /\ fetch' = IF fetch.kind = "none" THEN Fetching("all", Len(pages), <<>>) ELSE fetch
  /\ untold' = FALSE
\* invalidateQueries and refetch: whatever fetch is in flight is cancelled, and
\* all pages are read again.
Refetch ==
  /\ fetch' = Fetching("all", Len(pages), <<>>)
  /\ untold' = FALSE

\* fetchNextPage, near the end of the list: it is held back by a next page in flight,
\* and cancels a refetch.
Scroll ==
  /\ Chance
  /\ Len(pages[Len(pages)]) = PageSize /\ fetch.kind # "next"
  /\ fetch' = Fetching("next", 1, <<>>)
  /\ untold' = (untold \/ fetch.kind = "all")
  /\ UNCHANGED <<server, database, request, sync, notices, pages, reader>>

\* GET inbox answers with the next page of the fetch; the last one makes it the list.
FetchPage ==
  /\ fetch.kind # "none"
  /\ LET before == IF fetch.kind = "next" THEN pages ELSE fetch.got
         page == InboxPage(PageSize * Len(before))
         got == Append(before, page)
         last == fetch.kind = "next" \/ Len(got) = fetch.want \/ Len(page) < PageSize
     IN /\ pages' = IF last THEN got ELSE pages
        /\ fetch' = IF last THEN NoFetch ELSE Fetching("all", fetch.want, got)
  /\ Calm
  /\ UNCHANGED <<server, database, request, sync, notices, reader, untold>>

\* GET inbox fails, and fails when retried: the list stays.
FetchFails ==
  /\ Chance
  /\ fetch.kind # "none"
  /\ fetch' = NoFetch /\ untold' = TRUE
  /\ UNCHANGED <<server, database, request, sync, notices, pages, reader>>

-----------------------------------------------------------------------------
(* The reader *)

\* onOpen: the message is selected and, when the list shows it unread, marked.
Open(e) ==
  /\ Chance
  /\ reader' = IF reader.msg = e.msg THEN reader ELSE Reading(e.msg, "loading", {})
  /\ \/ "Seen" \in e.flags /\ UNCHANGED request
     \/ /\ "Seen" \notin e.flags
        /\ \E r \in Request :
             ~Busy(r) /\ request' = [request EXCEPT ![r] = Doing("open", e.msg, "Seen", TRUE, "sent", {})]
  /\ UNCHANGED <<server, database, sync, notices, list>>

\* getMessage: the row, or what is read again once fetchBody and saveBody have completed
\* it. Without a row, or without the message that lacks its body, there is no answer.
Loads(m) == m \in rows /\ (m \in bodies \/ m \in box)
ReaderLoads ==
  /\ reader.pc = "loading"
  /\ reader' = IF Loads(reader.msg) THEN Reading(reader.msg, "loaded", rowFlags[reader.msg])
               ELSE Reading(reader.msg, "failed", {})
  /\ bodies' = bodies \cup {m \in {reader.msg} : Loads(m)}
  /\ Calm
  /\ UNCHANGED <<server, rows, rowFlags, request, sync, notices, list>>

ReaderFails ==
  /\ Chance
  /\ reader.pc = "loading"
  /\ reader' = Reading(reader.msg, "failed", {})
  /\ UNCHANGED <<server, database, request, sync, notices, list>>

\* onSeen and onFlagged: one at a time; the reader shows the outcome before it is one.
Toggle(r, f) ==
  /\ Chance
  /\ ~Busy(r) /\ ~Pending({"flag"})
  /\ \E shown \in ShownFlags :
       /\ request' = [request EXCEPT ![r] = Doing("flag", reader.msg, f, f \notin shown, "sent", {})]
       /\ reader' = IF reader.pc = "loaded"
                    THEN Reading(reader.msg, "loaded", Put(shown, f, f \notin shown)) ELSE reader
  /\ UNCHANGED <<server, database, sync, notices, list>>

\* onMove, onArchive and onDelete: out of the inbox, one at a time.
Move(r) ==
  /\ Chance
  /\ ~Busy(r) /\ ~Pending({"move"}) /\ ShownFlags # {}
  /\ request' = [request EXCEPT ![r] = Doing("move", reader.msg, "Seen", FALSE, "sent", {})]
  /\ UNCHANGED <<server, database, sync, notices, list, reader>>

\* markAllRead: a request for each unread message of the list, and one refetch.
MarkAllRead ==
  /\ Chance
  /\ ~Pending({"all"})
  /\ LET unread == {e.msg : e \in {x \in EntriesOf(pages) : "Seen" \notin x.flags}} IN
       /\ unread # {}
       /\ \E slot \in [unread -> {r \in Request : ~Busy(r)}] :
            /\ \A m, n \in unread : slot[m] = slot[n] => m = n
            /\ request' = [r \in Request |->
                 LET ms == {m \in unread : slot[m] = r} IN
                 IF ms = {} THEN request[r]
                 ELSE Doing("all", CHOOSE m \in ms : TRUE, "Seen", TRUE, "sent", {})]
  /\ UNCHANGED <<server, database, sync, notices, list, reader>>

-----------------------------------------------------------------------------
(* The handlers of the API, and what their answers do to the window *)

At(r, p) == Busy(r) /\ request[r].pc = p
Others(k, r) == \E q \in Request \ {r} : request[q].kind = k
\* Which answers refetch the list: onSettled of a flag, then of onOpen, onSuccess of a
\* move, and Promise.all of markAllRead.
Tells(r, ok) ==
  \/ request[r].kind = "flag"
  \/ ok /\ request[r].kind \in {"open", "move"}
  \/ ok /\ request[r].kind = "all" /\ ~Others("all", r)

\* The answer of r, or none when silent. The first failure ends markAllRead: nobody
\* waits for its other requests.
Settles(r, ok, silent) ==
  LET k == request[r].kind
      broken == k = "all" /\ ~ok
  IN /\ request' = [q \in Request |->
          IF q = r THEN Free
          ELSE IF broken /\ request[q].kind = "all" THEN [request[q] EXCEPT !.kind = "orphan"]
          ELSE request[q]]
     /\ reader' = IF k = "move" /\ ok THEN Closed ELSE reader
     /\ \/ Tells(r, ok) /\ Refetch
        \/ /\ ~Tells(r, ok)
           /\ untold' = (untold \/ silent \/ broken \/ k = "orphan")
           /\ UNCHANGED fetch
     /\ UNCHANGED <<sync, notices, pages>>

Goes(r, p, fs) == request' = [request EXCEPT ![r].pc = p, ![r].flags = fs]

\* requireRow, and the mailbox of a move; flags are those of the row as it is now.
Finds(r) ==
  /\ At(r, "sent")
  /\ request[r].msg \in rows
  /\ Goes(r, "imap", rowFlags[request[r].msg])
  /\ Calm
  /\ UNCHANGED <<server, database, sync, notices, list, reader>>

FindsNothing(r) ==
  /\ At(r, "sent")
  /\ request[r].msg \notin rows
  /\ Settles(r, FALSE, FALSE)
  /\ Calm
  /\ UNCHANGED <<server, database>>

\* The IMAP command: flags are added or removed one by one, a message is moved or deleted.
Applied(r) ==
  LET q == request[r]
      there == q.msg \in box
      leaves == there /\ q.kind = "move"
      fs == IF ~there \/ leaves THEN {} ELSE Put(boxFlags[q.msg], q.flag, q.value)
  IN /\ box' = IF leaves THEN box \ {q.msg} ELSE box
     /\ boxFlags' = [boxFlags EXCEPT ![q.msg] = fs]
     /\ UNCHANGED arrived

\* A server may well accept a command for a message that is gone.
Commands(r) ==
  /\ At(r, "imap")
  /\ Applied(r)
  /\ Goes(r, "save", request[r].flags)
  /\ Calm
  /\ UNCHANGED <<database, sync, notices, list, reader>>

Refused(r) ==
  /\ At(r, "imap")
  /\ request[r].msg \notin box
  /\ Settles(r, FALSE, FALSE)
  /\ Calm
  /\ UNCHANGED <<server, database>>

\* No connection, or one that breaks once the command is done (retries included).
CommandFails(r) ==
  /\ Chance
  /\ At(r, "imap")
  /\ Applied(r) \/ UNCHANGED server
  /\ Settles(r, FALSE, FALSE)
  /\ UNCHANGED database

\* saveFlags writes all flags of the message; removeMessage deletes the row.
Saves(r) ==
  LET q == request[r] IN
  /\ At(r, "save")
  /\ rows' = IF q.kind = "move" THEN rows \ {q.msg} ELSE rows
  /\ bodies' = BodiesLeft
  /\ rowFlags' = [rowFlags EXCEPT ![q.msg] = IF q.msg \in rows' THEN Put(q.flags, q.flag, q.value) ELSE {}]
  /\ Goes(r, "answer", {})
  /\ Calm
  /\ UNCHANGED <<server, sync, notices, list, reader>>

\* The row is read again: gone, it cannot be mapped.
Answers(r) ==
  /\ At(r, "answer")
  /\ Settles(r, request[r].kind = "move" \/ request[r].msg \in rows, FALSE)
  /\ Calm
  /\ UNCHANGED <<server, database>>

AnswerLost(r) ==
  /\ Chance
  /\ At(r, "answer")
  /\ Settles(r, FALSE, TRUE)
  /\ UNCHANGED <<server, database>>

-----------------------------------------------------------------------------
(* Syncs of an inbox *)

Of(a, S) == {m \in S : Owner[m] = a}
Idle == sync.pc = "idle"

\* A tick of the scheduler, or backgroundSync of the window, whose POST sync waits for
\* the job. They are minutes apart: what the last one caused has reached the window.
Begins(a, by) ==
  /\ Idle /\ fetch.kind = "none" /\ notices = {}
  /\ sync' = Job("begun", a, by, Of(a, rows), {}, Unflagged)
  /\ Calm
  /\ UNCHANGED <<server, database, request, notices, list, reader>>
Tick(a) == Begins(a, "tick")
BackgroundSync(a) == Begins(a, "window")
\* POST sync finds the job of a tick and waits for it.
Joins(a) ==
  /\ ~Idle /\ sync.account = a /\ sync.by = "tick"
  /\ sync' = [sync EXCEPT !.by = "window"]
  /\ Calm
  /\ UNCHANGED <<server, database, request, notices, list, reader>>

\* fetchChanges: the messages of the server and their flags.
SyncReads ==
  /\ sync.pc = "begun"
  /\ LET there == Of(sync.account, box) IN
       sync' = Job("read", sync.account, sync.by, sync.known, there,
                   [m \in Message |-> IF m \in there THEN boxFlags[m] ELSE {}])
  /\ Calm
  /\ UNCHANGED <<server, database, request, notices, list, reader>>

\* (mutant of SyncedFlags: rows that were there keep the flags they have)
FlagsOfNew(m) == IF m \in sync.known THEN rowFlags[m] ELSE sync.flags[m]
SyncedFlags(m) == sync.flags[m]

\* applyChanges: rows for the messages it did not know, the flags of the others, and
\* no row for what is not on the server; then the answer, or at least the event.
SyncCommits ==
  LET a == sync.account
      kept == sync.box \cap (rows \cup (sync.box \ sync.known))
  IN
  /\ sync.pc = "read"
  /\ rows' = (rows \ Of(a, rows)) \cup kept
  /\ rowFlags' = [m \in Message |-> IF m \in kept THEN SyncedFlags(m) ELSE
                                    IF Owner[m] = a THEN {} ELSE rowFlags[m]]
  /\ bodies' = BodiesLeft
  /\ sync' = NoSync
  /\ notices' = notices \cup {<<IF sync.by = "window" THEN "reply" ELSE "event", a>>}
  /\ Calm
  /\ UNCHANGED <<server, request, list, reader>>

SyncFails ==
  /\ Chance
  /\ ~Idle
  /\ sync' = NoSync
  /\ UNCHANGED <<server, database, request, notices, list, reader>>

\* (mutant of Invalidates: the list is not among the queries a sync invalidates)
InvalidatesOthers == UNCHANGED <<fetch, untold>>
\* invalidate of SyncProvider: the query of the reader is not among them.
Invalidates == Refetch

\* sync.completed, or the answer of POST sync.
Delivered(n) ==
  /\ notices' = notices \ {n}
  /\ Invalidates
  /\ Calm
  /\ UNCHANGED <<server, database, request, sync, pages, reader>>

\* A socket that is down misses the event; connecting again reloads the accounts only.
EventLost(a) ==
  /\ <<"event", a>> \in notices
  /\ notices' = notices \ {<<"event", a>>}
  /\ untold' = TRUE
  /\ Calm
  /\ UNCHANGED <<server, database, request, sync, pages, fetch, reader>>

ReplyLost(a) ==
  /\ Chance
  /\ <<"reply", a>> \in notices
  /\ notices' = notices \ {<<"reply", a>>}
  /\ untold' = TRUE
  /\ UNCHANGED <<server, database, request, sync, pages, fetch, reader>>

-----------------------------------------------------------------------------
(* The server on its own, and other clients of it *)

Arrives(m) ==
  /\ Chance
  /\ m \notin arrived /\ \A k \in Message : k < m => k \in arrived
  /\ arrived' = arrived \cup {m} /\ box' = box \cup {m}
  /\ UNCHANGED <<boxFlags, database, request, sync, notices, list, reader>>

FlagsElsewhere(m, f) ==
  /\ Chance
  /\ m \in box
  /\ boxFlags' = [boxFlags EXCEPT ![m] = Put(@, f, f \notin @)]
  /\ UNCHANGED <<box, arrived, database, request, sync, notices, list, reader>>

RemovedElsewhere(m) ==
  /\ Chance
  /\ m \in box
  /\ box' = box \ {m} /\ boxFlags' = [boxFlags EXCEPT ![m] = {}]
  /\ UNCHANGED <<arrived, database, request, sync, notices, list, reader>>

-----------------------------------------------------------------------------
MailInit ==
  /\ box = First /\ arrived = First /\ rows = First /\ bodies = {}
  /\ boxFlags = Unflagged /\ rowFlags = Unflagged
  /\ request = [r \in Request |-> Free]
  /\ sync = NoSync /\ notices = {}
  /\ pages = <<InboxPage(0)>> /\ fetch = NoFetch /\ untold = FALSE
  /\ reader = Closed
  /\ chances = MaxChances

User ==
  \/ Scroll \/ MarkAllRead
  \/ \E e \in EntriesOf(pages) : Open(e)
  \/ \E r \in Request : Move(r) \/ \E f \in Flag : Toggle(r, f)
Screen == FetchPage \/ FetchFails \/ ReaderLoads \/ ReaderFails
Handler(r) ==
  \/ Finds(r) \/ FindsNothing(r) \/ Commands(r) \/ Refused(r) \/ CommandFails(r)
  \/ Saves(r) \/ Answers(r) \/ AnswerLost(r)
Syncing(a) ==
  Tick(a) \/ BackgroundSync(a) \/ Joins(a) \/ EventLost(a) \/ ReplyLost(a)
Elsewhere(m) == Arrives(m) \/ RemovedElsewhere(m) \/ \E f \in Flag : FlagsElsewhere(m, f)

MailNext ==
  \/ User
  \/ Screen
  \/ \E r \in Request : Handler(r)
  \/ SyncReads \/ SyncCommits \/ SyncFails
  \/ \E a \in Account : Syncing(a)
  \/ \E n \in notices : Delivered(n)
  \/ \E m \in Message : Elsewhere(m)

MailSpec == MailInit /\ [][MailNext]_mailVars

\* A sync that has begun ends and is made known, a fetch reads its next page, and the
\* background sync of the window comes for every account. Neither the user nor a request
\* of his is promised to go on: the syncs must do without.
Progress == FetchPage \/ SyncReads \/ SyncCommits \/ \E n \in notices : Delivered(n)
MailFairness == WF_mailVars(Progress) /\ \A a \in Account : SF_mailVars(BackgroundSync(a))
MailFairSpec == MailSpec /\ MailFairness

-----------------------------------------------------------------------------
(* Properties *)

Requests == [kind : {"none", "open", "flag", "move", "all", "orphan"}, msg : Message \cup {0},
             flag : Flag, value : BOOLEAN, pc : {"sent", "imap", "save", "answer", "done"},
             flags : SUBSET Flag]
Jobs == [pc : {"idle", "begun", "read"}, account : Account \cup {None}, by : {"tick", "window"}, known : SUBSET Message, box : SUBSET Message,
         flags : [Message -> SUBSET Flag]]
Readers == [msg : Message \cup {0}, pc : {"closed", "loading", "loaded", "failed"},
            flags : SUBSET Flag]
\* Every variable has its type, and only rows have bodies and flags (schema of messages).
MailTypeOK ==
  /\ box \subseteq arrived /\ arrived \subseteq Message
  /\ boxFlags \in [Message -> SUBSET Flag] /\ rowFlags \in [Message -> SUBSET Flag]
  /\ rows \subseteq arrived /\ bodies \subseteq rows
  /\ request \in [Request -> Requests] /\ sync \in Jobs
  /\ notices \subseteq {"event", "reply"} \X Account
  /\ reader \in Readers /\ untold \in BOOLEAN /\ chances \in 0..MaxChances

\* The list is what its pages would be if they were read together now.
ListCurrent ==
  /\ \A i \in DOMAIN pages : pages[i] = InboxPage(PageSize * (i - 1))
Quiet == fetch.kind = "none" /\ notices = {} /\ \A r \in Request : ~Busy(r)

\* What the window does, and what it hears of, reaches its list: when its requests are
\* answered, nothing is on its way and nothing was kept from it, the list shows the rows,
\* although pages are read one by one while rows come and go (useMessageActions, invalidate).
OwnChangesShown == Quiet /\ ~untold => ListCurrent

\* The page of all accounts is the page of their rows in order of date, at every
\* offset a list may ask for (PrismaMailRepository.listInbox).
PagesInOrder ==
  \A offset \in 0..Cardinality(Message) :
    LET page == InboxPage(offset) IN
    [i \in DOMAIN page |-> page[i].msg] = Slice(Newest[Listed], offset, PageSize)

\* Rows settle on the inboxes, however handlers and syncs have overwritten each other.
RowsAgree == rows = box /\ rowFlags = boxFlags
RowsSettle == <>[]RowsAgree

\* The list settles on the rows, whatever answers and events were lost.
ListSettles == <>[]ListCurrent

\* Socket.IO events invalidate the message queries (docs/architecture.md:35-36): the
\* reader settles on the flags of its row.
MessageQueriesFollow == <>[](reader.pc = "loaded" /\ reader.msg \in rows => reader.flags = rowFlags[reader.msg])
=============================================================================
