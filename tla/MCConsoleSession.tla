--------------------------- MODULE MCConsoleSession ---------------------------
(***************************************************************************)
(* Instance of ConsoleSession for TLC.                                     *)
(***************************************************************************)
EXTENDS ConsoleSession
=============================================================================
