---------------------------- MODULE MCFolderLock ----------------------------
(***************************************************************************)
(* Two syncs of one account, in two folders, and a backfill of the folder  *)
(* the first of them syncs.                                                *)
(***************************************************************************)
EXTENDS FolderLock, TLC

CONSTANTS a1, inbox, sent, syncInbox, syncSent, backfillInbox

MCAccountOf == syncInbox :> a1 @@ syncSent :> a1
MCFolderOf == syncInbox :> inbox @@ syncSent :> sent @@ backfillInbox :> inbox
=============================================================================
