------------------------------- MODULE Mutex -------------------------------
(***************************************************************************)
(* What MailboxFolderLock promises its callers: a set of keys, each with   *)
(* at most one job inside its critical section.  No Redis, no time-to-live *)
(* and no tokens: FolderLock shows for whom the lease lock implements it.  *)
(***************************************************************************)
EXTENDS FiniteSets

CONSTANTS
  Key,   \* what is locked: accounts and folders
  Job    \* who locks it

VARIABLE holders   \* key -> the jobs inside the section of that key

TypeOK == holders \in [Key -> SUBSET Job]

Init == holders = [k \in Key |-> {}]

Enter(j, k) ==
  /\ holders[k] = {}
  /\ holders' = [holders EXCEPT ![k] = {j}]

\* Jobs leave sections: one that is done, all of those of a job that dies, or those whose
\* time is over.
Leave ==
  /\ holders' \in [Key -> SUBSET Job]
  /\ \A k \in Key : holders'[k] \subseteq holders[k]

Next == Leave \/ \E j \in Job, k \in Key : Enter(j, k)

Spec == Init /\ [][Next]_holders
=============================================================================
