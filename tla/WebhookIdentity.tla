--------------------------- MODULE WebhookIdentity ---------------------------
(***************************************************************************)
(* The registry of webhook addresses: accounts with their public alias,    *)
(* secrets, and the identities alias.secret that deliveries and mails are  *)
(* sent to, as MemoryStore keeps them (internal/store/memory.go).  Each    *)
(* operation runs under the store's mutex, so each is one step.            *)
(*                                                                         *)
(* The store's maps are functions whose domain grows and shrinks.  A local *)
(* part is the pair <<normalised alias, secret value>>: neither contains   *)
(* the dot that joins them (webhookid.IsValidManualSecret).                *)
(***************************************************************************)
EXTENDS Functions

CONSTANTS
  Accounts,
  Aliases,      \* public aliases and slugs, normalised or not
  Normalize,    \* webhookid.NormalizePublicAlias on Aliases
  Slug,         \* slugFromEmail of each account's owner, never normalised
  Values,       \* secret values
  Types,        \* ids CreateWebhookType draws
  TypeAccount,  \* the account that draws each of them
  SecretIds,    \* ids createSecretLocked draws
  IdentityIds   \* ids drawn for identities

ASSUME RegistryAssumption ==
  /\ Normalize \in [Aliases -> Aliases]
  /\ \A x \in Aliases : Normalize[Normalize[x]] = Normalize[x]
  /\ Slug \in [Accounts -> Aliases]
  /\ \A a, b \in Accounts : Slug[a] = Slug[b] => a = b
  /\ TypeAccount \in [Types -> Accounts]

VARIABLES
  accounts,            \* accountsByID: the public alias of each account
  accountsByAlias,     \* index: alias to account
  typeStatus,          \* "absent", "live" or "deleted" for each type id
  secretsByID,         \* secret rows
  secretByHash,        \* index: secret value to secret id
  identitiesByID,      \* identity rows
  identityByLocalPart  \* index: local part to identity id

vars == <<accounts, accountsByAlias, typeStatus, secretsByID, secretByHash,
          identitiesByID, identityByLocalPart>>

\* Assignment to a key of a Go map, and delete.
Put(f, k, v) == [x \in DOMAIN f \cup {k} |-> IF x = k THEN v ELSE f[x]]
Drop(f, k) == Restrict(f, DOMAIN f \ {k})
Empty == [x \in {} |-> x]

BuildLocalPart(alias, value) == <<Normalize[alias], value>>
LocalParts == {Normalize[x] : x \in Aliases} \X Values

SecretRow ==
  [acct : Accounts, type : Types, value : Values, status : {"active", "revoked"}]
IdentityRow ==
  [acct : Accounts, type : Types, secret : SecretIds, alias : Aliases,
   value : Values, status : {"active", "blocked", "deleted_tombstoned"}]

LocalPart(i) == BuildLocalPart(identitiesByID[i].alias, identitiesByID[i].value)
Known(lp) == lp \in DOMAIN identityByLocalPart
IdentityAt(lp) == identitiesByID[identityByLocalPart[lp]]

Init ==
  /\ accounts = Empty
  /\ accountsByAlias = Empty
  /\ typeStatus = [ty \in Types |-> "absent"]
  /\ secretsByID = Empty
  /\ secretByHash = Empty
  /\ identitiesByID = Empty
  /\ identityByLocalPart = Empty

---------------------------------------------------------------------------
(* Accounts and types.                                                     *)

\* The slug of a new account becomes its alias, taken or not.  A second
\* registration of a slug only draws a token and is no step here.
CreateAccount(a) ==
  /\ a \notin DOMAIN accounts
  /\ accounts' = Put(accounts, a, Slug[a])
  /\ accountsByAlias' = Put(accountsByAlias, Slug[a], a)
  /\ UNCHANGED <<typeStatus, secretsByID, secretByHash, identitiesByID,
                 identityByLocalPart>>

CreateWebhookType(ty) ==
  /\ typeStatus[ty] = "absent" /\ TypeAccount[ty] \in DOMAIN accounts
  /\ typeStatus' = [typeStatus EXCEPT ![ty] = "live"]
  /\ UNCHANGED <<accounts, accountsByAlias, secretsByID, secretByHash,
                 identitiesByID, identityByLocalPart>>

\* Active identities of a that carry the alias, whatever address they index.
ToRekey(a, alias) ==
  {i \in DOMAIN identitiesByID :
     /\ identitiesByID[i].acct = a
     /\ identitiesByID[i].status = "active"
     /\ identitiesByID[i].alias = alias}

NewLocalPart(i, alias) == BuildLocalPart(alias, identitiesByID[i].value)

\* Variant: addresses another account has used are taken over.
NobodyElses(a, alias, i) == FALSE

\* Another account has had the address i would move to.
Reserved(a, alias, i) ==
  LET lp == NewLocalPart(i, alias) IN Known(lp) /\ IdentityAt(lp).acct # a

\* The rows of S become tombstones, row c an active copy of row of[c].
Copied(S, alias, of) ==
  [x \in DOMAIN identitiesByID \cup DOMAIN of |->
     IF x \in DOMAIN of THEN [identitiesByID[of[x]] EXCEPT !.alias = alias]
     ELSE IF x \in S
     THEN [identitiesByID[x] EXCEPT !.status = "deleted_tombstoned"]
     ELSE identitiesByID[x]]

\* Variant: the copies are stored but not indexed.
RekeyUnindexed(S, alias) ==
  /\ \E copies \in SUBSET (IdentityIds \ DOMAIN identitiesByID) :
       \E of \in Bijection(copies, S) : identitiesByID' = Copied(S, alias, of)
  /\ UNCHANGED identityByLocalPart

\* The loop of rekeyActiveIdentitiesForAliasChange over the identities in S:
\* each becomes a tombstone, and an active copy of it takes over the new
\* address; of two identities with one value the later copy stays indexed.
\* (With an unchanged alias the loop may meet its copies and copy them again:
\* one more tombstone of the same address, left out.)
Rekey(S, alias) ==
  \E copies \in SUBSET (IdentityIds \ DOMAIN identitiesByID) :
    \E of \in Bijection(copies, S) :
      LET moved == {NewLocalPart(of[c], alias) : c \in copies} IN
      /\ identitiesByID' = Copied(S, alias, of)
      /\ \E last \in [moved -> copies] :
           /\ \A lp \in moved : NewLocalPart(of[last[lp]], alias) = lp
           /\ identityByLocalPart' =
                [lp \in DOMAIN identityByLocalPart \cup moved |->
                   IF lp \in moved THEN last[lp] ELSE identityByLocalPart[lp]]

\* UpdateAccountPublicAlias: alias and index change first, then the active
\* identities are rekeyed in the order of a Go map, up to the first reserved
\* address; the error then returned undoes nothing.
UpdateAccountPublicAlias(a, alias) ==
  /\ a \in DOMAIN accounts
  /\ alias \in DOMAIN accountsByAlias => accountsByAlias[alias] = a
  /\ accounts' = Put(accounts, a, alias)
  /\ accountsByAlias' = Put(Drop(accountsByAlias, accounts[a]), alias, a)
  /\ LET all == ToRekey(a, accounts[a])
         stops == {i \in all : Reserved(a, alias, i)}
     IN \E S \in SUBSET (all \ stops) :
          (stops = {} => S = all) /\ Rekey(S, alias)
  /\ UNCHANGED <<typeStatus, secretsByID, secretByHash>>

---------------------------------------------------------------------------
(* Secrets.                                                                *)

\* activateIdentityLocked: the identity that has the address is revived and
\* linked to the new secret, or a new one is stored and indexed.
ActivateIdentity(s, row) ==
  LET alias == accounts[row.acct]
      lp == BuildLocalPart(alias, row.value)
      Linked(owner) == [acct |-> owner, type |-> row.type, secret |-> s,
                        alias |-> alias, value |-> row.value, status |-> "active"]
  IN \/ /\ Known(lp)
        /\ identitiesByID' =
             [identitiesByID EXCEPT ![identityByLocalPart[lp]] = Linked(@.acct)]
        /\ UNCHANGED identityByLocalPart
     \/ /\ ~Known(lp)
        /\ \E i \in IdentityIds \ DOMAIN identitiesByID :
             /\ identitiesByID' = Put(identitiesByID, i, Linked(row.acct))
             /\ identityByLocalPart' = Put(identityByLocalPart, lp, i)

\* The address of value v is new, or the account's own and not active.
Available(a, v) ==
  LET lp == BuildLocalPart(accounts[a], v)
  IN Known(lp) => IdentityAt(lp).acct = a /\ IdentityAt(lp).status # "active"

\* CreateSecret (v is drawn) and CreateSecretWithValue.  The handler has
\* looked the type up before, it may be gone by now.
CreateSecretWithValue(a, ty, v) ==
  /\ a \in DOMAIN accounts
  /\ TypeAccount[ty] = a /\ typeStatus[ty] # "absent"
  /\ Available(a, v)
  /\ \E s \in SecretIds \ DOMAIN secretsByID :
       LET row == [acct |-> a, type |-> ty, value |-> v, status |-> "active"] IN
       /\ secretsByID' = Put(secretsByID, s, row)
       /\ secretByHash' = Put(secretByHash, v, s)
       /\ ActivateIdentity(s, row)
  /\ UNCHANGED <<accounts, accountsByAlias, typeStatus>>

\* The secrets of S are revoked, the identities linked to them tombstoned
\* (tombstoneIdentityBySecretLocked), those of earlier aliases too.
Revoke(S) ==
  /\ secretsByID' = [s \in DOMAIN secretsByID |->
       IF s \in S THEN [secretsByID[s] EXCEPT !.status = "revoked"]
       ELSE secretsByID[s]]
  /\ identitiesByID' = [i \in DOMAIN identitiesByID |->
       IF identitiesByID[i].secret \in S
       THEN [identitiesByID[i] EXCEPT !.status = "deleted_tombstoned"]
       ELSE identitiesByID[i]]

\* Variant: the row is removed.
DeleteSecretRow(s) ==
  /\ s \in DOMAIN secretsByID
  /\ secretsByID' = Drop(secretsByID, s)
  /\ UNCHANGED <<accounts, accountsByAlias, typeStatus, secretByHash,
                 identitiesByID, identityByLocalPart>>

\* Variant: the addresses of the secret are given free.
DeleteSecretReleases(s) ==
  /\ s \in DOMAIN secretsByID
  /\ secretsByID' = [secretsByID EXCEPT ![s].status = "revoked"]
  /\ LET kept == {i \in DOMAIN identitiesByID : identitiesByID[i].secret # s} IN
     /\ identitiesByID' = [i \in kept |-> identitiesByID[i]]
     /\ identityByLocalPart' =
          [lp \in {LocalPart(i) : i \in kept} |-> identityByLocalPart[lp]]
  /\ UNCHANGED <<accounts, accountsByAlias, typeStatus, secretByHash>>

\* DeleteSecret, of a secret already revoked too.
DeleteSecret(s) ==
  /\ s \in DOMAIN secretsByID
  /\ Revoke({s})
  /\ UNCHANGED <<accounts, accountsByAlias, typeStatus, secretByHash,
                 identityByLocalPart>>

DeleteWebhookType(ty) ==
  /\ typeStatus[ty] = "live"
  /\ typeStatus' = [typeStatus EXCEPT ![ty] = "deleted"]
  /\ Revoke({s \in DOMAIN secretsByID :
               secretsByID[s].type = ty /\ secretsByID[s].status = "active"})
  /\ UNCHANGED <<accounts, accountsByAlias, secretByHash, identityByLocalPart>>

---------------------------------------------------------------------------
(* Identities.                                                             *)

HasActiveSecret(a, v) ==
  \E s \in DOMAIN secretsByID :
    /\ secretsByID[s].acct = a /\ secretsByID[s].value = v
    /\ secretsByID[s].status = "active"

SetStatus(i, st) ==
  /\ identitiesByID' = [identitiesByID EXCEPT ![i].status = st]
  /\ UNCHANGED <<accounts, accountsByAlias, typeStatus, secretsByID,
                 secretByHash, identityByLocalPart>>

\* UpdateWebhookIdentityStatus, as BlockWebhookIdentity and
\* RestoreWebhookIdentity call it.
BlockWebhookIdentity(i) ==
  /\ i \in DOMAIN identitiesByID
  /\ SetStatus(i, "blocked")

RestoreWebhookIdentity(i) ==
  /\ i \in DOMAIN identitiesByID
  /\ identitiesByID[i].status = "deleted_tombstoned" =>
       HasActiveSecret(identitiesByID[i].acct, identitiesByID[i].value)
  /\ SetStatus(i, "active")

Next ==
  \/ \E a \in Accounts : CreateAccount(a)
  \/ \E a \in Accounts, x \in Aliases : UpdateAccountPublicAlias(a, Normalize[x])
  \/ \E ty \in Types : CreateWebhookType(ty) \/ DeleteWebhookType(ty)
  \/ \E a \in Accounts, ty \in Types, v \in Values : CreateSecretWithValue(a, ty, v)
  \/ \E s \in SecretIds : DeleteSecret(s)
  \/ \E i \in IdentityIds : BlockWebhookIdentity(i) \/ RestoreWebhookIdentity(i)

Spec == Init /\ [][Next]_vars

---------------------------------------------------------------------------
(* Queries.                                                                *)

\* ResolveSecretAnyType succeeds; isIdentityActiveForSecretLocked looks at
\* the address alone, not at whose it is.
ResolveSecretAnyType(a, v) ==
  /\ v \in DOMAIN secretByHash
  /\ secretsByID[secretByHash[v]].acct = a
  /\ secretsByID[secretByHash[v]].status = "active"
  /\ LET lp == BuildLocalPart(accounts[a], v)
     IN Known(lp) /\ IdentityAt(lp).status = "active"

---------------------------------------------------------------------------
(***************************************************************************)
(* Properties.                                                             *)
(***************************************************************************)

\* Type invariant; no index and no identity points to a row that is gone.
TypeOK ==
  /\ DOMAIN accounts \subseteq Accounts
  /\ accounts \in [DOMAIN accounts -> Aliases]
  /\ DOMAIN accountsByAlias \subseteq Aliases
  /\ accountsByAlias \in [DOMAIN accountsByAlias -> DOMAIN accounts]
  /\ typeStatus \in [Types -> {"absent", "live", "deleted"}]
  /\ DOMAIN secretsByID \subseteq SecretIds
  /\ secretsByID \in [DOMAIN secretsByID -> SecretRow]
  /\ DOMAIN secretByHash \subseteq Values
  /\ secretByHash \in [DOMAIN secretByHash -> DOMAIN secretsByID]
  /\ DOMAIN identitiesByID \subseteq IdentityIds
  /\ identitiesByID \in [DOMAIN identitiesByID -> IdentityRow]
  /\ \A i \in DOMAIN identitiesByID : identitiesByID[i].secret \in DOMAIN secretsByID
  /\ DOMAIN identityByLocalPart \subseteq LocalParts
  /\ identityByLocalPart \in [DOMAIN identityByLocalPart -> DOMAIN identitiesByID]

\* An address belongs to one account: whatever identities it has had, under
\* whichever of the aliases that have moved between accounts, they are all of
\* the account of the identity that is indexed.
OneOwnerPerAddress ==
  /\ \A lp \in DOMAIN identityByLocalPart : LocalPart(identityByLocalPart[lp]) = lp
  /\ \A i \in DOMAIN identitiesByID :
       /\ Known(LocalPart(i))
       /\ IdentityAt(LocalPart(i)).acct = identitiesByID[i].acct

\* And for ever: no step gives an address that was used once to another
\* account, also after its secret, its listener or its alias are gone.
AddressOwnerFixed ==
  [][\A lp \in DOMAIN identityByLocalPart :
       /\ lp \in DOMAIN identityByLocalPart'
       /\ IdentityAt(lp)'.acct = IdentityAt(lp).acct]_vars

\* A change of alias that meets no reserved address breaks no listener: each
\* value that resolved through an identity of the old alias still resolves.
AliasChangeKeepsAddresses ==
  [][\A a \in DOMAIN accounts, v \in Values :
       /\ accounts'[a] # accounts[a]
       /\ \A i \in ToRekey(a, accounts[a]) : ~Reserved(a, accounts'[a], i)
       /\ ResolveSecretAnyType(a, v)
       /\ identityByLocalPart[BuildLocalPart(accounts[a], v)]
            \in ToRekey(a, accounts[a])
       => ResolveSecretAnyType(a, v)']_vars

\* docs/hookweb-club-master-plan.md, "account isolation in data and auth
\* layers": an active secret with an active address of its account resolves,
\* whatever other accounts created.
ActiveSecretResolves ==
  \A s \in DOMAIN secretsByID :
    LET row == secretsByID[s]
        lp == BuildLocalPart(accounts[row.acct], row.value)
    IN /\ row.status = "active"
       /\ Known(lp) /\ IdentityAt(lp).acct = row.acct /\ IdentityAt(lp).status = "active"
       => ResolveSecretAnyType(row.acct, row.value)
=============================================================================
