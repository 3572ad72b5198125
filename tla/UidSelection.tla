--------------------------- MODULE UidSelection ---------------------------
(***************************************************************************)
(* Which UIDs one IMAP session fetches (mail/imap.service.ts).  The code   *)
(* slices the ascending array that SEARCH returned; a set of UIDs stands   *)
(* for that array.                                                         *)
(***************************************************************************)
EXTENDS Integers, FiniteSets

NoUid == 0   \* "no bound": UIDs are always >= 1

Newest(uids, n) == {u \in uids : Cardinality({v \in uids : v > u}) < n}
Oldest(uids, n) == {u \in uids : Cardinality({v \in uids : v < u}) < n}

\* Mutant of SelectMetadataUids: the newest of the new UIDs first.
SelectNewestUids(serverUids, knownUids, limit) ==
  Newest({u \in serverUids : \A k \in knownUids : u > k}, limit)

\* Incremental sync: a folder without local rows starts from its newest page,
\* otherwise the oldest UIDs above everything known.
SelectMetadataUids(serverUids, knownUids, limit) ==
  IF knownUids = {}
  THEN Newest(serverUids, limit)
  ELSE Oldest({u \in serverUids : \A k \in knownUids : u > k}, limit)

\* Mutant of SelectBackfillUids: beforeUid itself is fetched again.
SelectUidsUpTo(serverUids, beforeUid, limit) ==
  Newest({u \in serverUids : beforeUid = NoUid \/ u <= beforeUid}, limit)

\* History walk and "load older": the newest UIDs strictly below beforeUid.
SelectBackfillUids(serverUids, beforeUid, limit) ==
  Newest({u \in serverUids : beforeUid = NoUid \/ u < beforeUid}, limit)
=============================================================================
