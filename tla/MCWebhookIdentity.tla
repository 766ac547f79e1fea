-------------------------- MODULE MCWebhookIdentity --------------------------
(***************************************************************************)
(* Instance of WebhookIdentity for TLC: two accounts, the slug of one of   *)
(* them not normalised (John, whose addresses are those of alias john).    *)
(***************************************************************************)
EXTENDS WebhookIdentity, TLC

CONSTANTS a1, John, john, team, y1

MCNormalize == [x \in Aliases |-> IF x = John THEN john ELSE x]
MCSlug == [a \in Accounts |-> IF a = a1 THEN John ELSE team]
MCTypeAccount ==
  [ty \in Types |-> IF ty = y1 THEN a1 ELSE CHOOSE a \in Accounts : a # a1]

Symmetry == Permutations(SecretIds) \cup Permutations(IdentityIds)
=============================================================================
