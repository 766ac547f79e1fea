--------------------------- MODULE MCListenerConsole ---------------------------
(***************************************************************************)
(* Instance of ListenerConsole for TLC.                                    *)
(***************************************************************************)
EXTENDS ListenerConsole
=============================================================================
