------------------------- MODULE MCIntegrationConsole -------------------------
(***************************************************************************)
(* Instance of IntegrationConsole for TLC.                                 *)
(***************************************************************************)
EXTENDS IntegrationConsole

CONSTANTS k1, k2, k3

\* One target and one secret are stored, under the first key.
StoredKeys == <<k1>>
=============================================================================
