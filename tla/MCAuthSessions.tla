--------------------------- MODULE MCAuthSessions ---------------------------
(***************************************************************************)
(* One desktop with its main window, whose two requests share one refresh. *)
(***************************************************************************)
EXTENDS AuthSessions, TLC

CONSTANTS main, r1, r2

MCHome == r1 :> main @@ r2 :> main
=============================================================================
