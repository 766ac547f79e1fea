------------------------ MODULE WebhookIdentityProofs ------------------------
(***************************************************************************)
(* Proofs about WebhookIdentity, for any accounts, aliases (normalised or  *)
(* not), secret values and ids.                                            *)
(***************************************************************************)
EXTENDS WebhookIdentity, TLAPS

\* TypeOK and OneOwnerPerAddress are inductive together.
IInv == TypeOK /\ OneOwnerPerAddress

---------------------------------------------------------------------------
(* The maps.                                                               *)

\* What an assignment to a key of a map gives.
LEMMA PutFacts ==
  ASSUME NEW f, NEW k, NEW v
  PROVE  /\ DOMAIN Put(f, k, v) = DOMAIN f \cup {k}
         /\ Put(f, k, v)[k] = v
         /\ \A x \in DOMAIN f : x # k => Put(f, k, v)[x] = f[x]
BY DEF Put

\* An assignment keeps the type of a map.
LEMMA PutType ==
  ASSUME NEW f, NEW k, NEW v, NEW S, NEW T, NEW T2,
         DOMAIN f \subseteq S, f \in [DOMAIN f -> T], k \in S, v \in T2, T \subseteq T2
  PROVE  /\ DOMAIN Put(f, k, v) \subseteq S
         /\ Put(f, k, v) \in [DOMAIN Put(f, k, v) -> T2]
BY DEF Put

\* The local part of an identity row is a local part of the registry.
LEMMA LocalPartType ==
  ASSUME NEW x \in Aliases, NEW v \in Values
  PROVE  BuildLocalPart(x, v) \in LocalParts
BY RegistryAssumption DEF BuildLocalPart, LocalParts

---------------------------------------------------------------------------
(* Every action preserves the invariant and the owners of addresses.       *)

\* The action property of AddressOwnerFixed.
OwnersKept ==
  \A lp \in DOMAIN identityByLocalPart :
    /\ lp \in DOMAIN identityByLocalPart'
    /\ IdentityAt(lp)'.acct = IdentityAt(lp).acct

\* Steps that change statuses of identities only, and no index, keep owners.
LEMMA SameAddresses ==
  ASSUME IInv, TypeOK',
         UNCHANGED identityByLocalPart,
         DOMAIN identitiesByID' = DOMAIN identitiesByID,
         \A i \in DOMAIN identitiesByID :
           /\ identitiesByID'[i].acct = identitiesByID[i].acct
           /\ identitiesByID'[i].alias = identitiesByID[i].alias
           /\ identitiesByID'[i].value = identitiesByID[i].value
  PROVE  IInv' /\ OwnersKept
<1>1. \A i \in DOMAIN identitiesByID : LocalPart(i)' = LocalPart(i)
  BY DEF LocalPart
<1>2. \A lp \in DOMAIN identityByLocalPart :
        /\ IdentityAt(lp)'.acct = IdentityAt(lp).acct
        /\ identityByLocalPart[lp] \in DOMAIN identitiesByID
  BY DEF IInv, TypeOK, IdentityAt
<1>3. OneOwnerPerAddress'
  BY <1>1, <1>2 DEF IInv, OneOwnerPerAddress, Known
<1>4. QED BY <1>2, <1>3 DEF IInv, OwnersKept

\* A new account takes its slug as alias; no address moves.
LEMMA CreateAccountStep ==
  ASSUME NEW a \in Accounts, IInv, CreateAccount(a)
  PROVE  IInv' /\ OwnersKept
<1>1. TypeOK'
  <2>1. DOMAIN accounts' = DOMAIN accounts \cup {a}
    BY PutFacts DEF CreateAccount
  <2>2. DOMAIN accounts' \subseteq Accounts /\ accounts' \in [DOMAIN accounts' -> Aliases]
    BY RegistryAssumption DEF CreateAccount, IInv, TypeOK, Put
  <2>3. /\ DOMAIN accountsByAlias' \subseteq Aliases
        /\ accountsByAlias' \in [DOMAIN accountsByAlias' -> DOMAIN accounts']
    BY <2>1, RegistryAssumption DEF CreateAccount, IInv, TypeOK, Put
  <2>4. QED BY <2>2, <2>3 DEF CreateAccount, IInv, TypeOK
<1>2. QED BY <1>1, SameAddresses DEF CreateAccount

\* A new type touches no secret and no identity.
LEMMA CreateWebhookTypeStep ==
  ASSUME NEW ty \in Types, IInv, CreateWebhookType(ty)
  PROVE  IInv' /\ OwnersKept
<1>1. TypeOK'
  BY DEF CreateWebhookType, IInv, TypeOK
<1>2. QED BY <1>1, SameAddresses DEF CreateWebhookType

\* Revoking secrets keeps the rows and their addresses.
LEMMA RevokeStep ==
  ASSUME NEW S, IInv, Revoke(S),
         UNCHANGED <<accounts, accountsByAlias, secretByHash, identityByLocalPart>>,
         typeStatus' \in [Types -> {"absent", "live", "deleted"}]
  PROVE  IInv' /\ OwnersKept
<1>1. /\ DOMAIN secretsByID' = DOMAIN secretsByID
      /\ secretsByID' \in [DOMAIN secretsByID' -> SecretRow]
  BY DEF Revoke, IInv, TypeOK, SecretRow
<1>2. /\ DOMAIN identitiesByID' = DOMAIN identitiesByID
      /\ identitiesByID' \in [DOMAIN identitiesByID' -> IdentityRow]
  BY DEF Revoke, IInv, TypeOK, IdentityRow
<1>3. \A i \in DOMAIN identitiesByID :
        /\ identitiesByID'[i].acct = identitiesByID[i].acct
        /\ identitiesByID'[i].alias = identitiesByID[i].alias
        /\ identitiesByID'[i].value = identitiesByID[i].value
        /\ identitiesByID'[i].secret = identitiesByID[i].secret
  BY DEF Revoke, IInv, TypeOK, IdentityRow
<1>4. TypeOK'
  BY <1>1, <1>2, <1>3 DEF IInv, TypeOK
<1>5. QED BY <1>2, <1>3, <1>4, SameAddresses

\* Blocking and restoring change a status only.
LEMMA SetStatusStep ==
  ASSUME NEW i \in DOMAIN identitiesByID, NEW st \in {"active", "blocked"},
         IInv, SetStatus(i, st)
  PROVE  IInv' /\ OwnersKept
<1>1. /\ DOMAIN identitiesByID' = DOMAIN identitiesByID
      /\ identitiesByID' \in [DOMAIN identitiesByID' -> IdentityRow]
  BY DEF SetStatus, IInv, TypeOK, IdentityRow
<1>2. \A j \in DOMAIN identitiesByID :
        /\ identitiesByID'[j].acct = identitiesByID[j].acct
        /\ identitiesByID'[j].alias = identitiesByID[j].alias
        /\ identitiesByID'[j].value = identitiesByID[j].value
        /\ identitiesByID'[j].secret = identitiesByID[j].secret
  BY DEF SetStatus, IInv, TypeOK, IdentityRow
<1>3. TypeOK'
  BY <1>1, <1>2 DEF SetStatus, IInv, TypeOK
<1>4. QED BY <1>1, <1>2, <1>3, SameAddresses DEF SetStatus

\* A secret is created on a new address or on one of the account's own.
LEMMA CreateSecretStep ==
  ASSUME NEW a \in Accounts, NEW ty \in Types, NEW v \in Values,
         IInv, CreateSecretWithValue(a, ty, v)
  PROVE  IInv' /\ OwnersKept
<1> PICK lp \in LocalParts : lp = BuildLocalPart(accounts[a], v)
  BY LocalPartType DEF CreateSecretWithValue, IInv, TypeOK
<1> DEFINE row == [acct |-> a, type |-> ty, value |-> v, status |-> "active"]
<1>1. PICK s \in SecretIds \ DOMAIN secretsByID :
        /\ secretsByID' = Put(secretsByID, s, row)
        /\ secretByHash' = Put(secretByHash, v, s)
        /\ ActivateIdentity(s, row)
  BY DEF CreateSecretWithValue
<1>2. /\ a \in DOMAIN accounts /\ accounts[a] \in Aliases
      /\ UNCHANGED <<accounts, accountsByAlias, typeStatus>>
  BY DEF CreateSecretWithValue, IInv, TypeOK
<1>3. PICK k \in IdentityIds :
        \E id \in IdentityRow :
          /\ id.acct = a /\ id.secret = s /\ id.alias = accounts[a] /\ id.value = v
          /\ identitiesByID' = Put(identitiesByID, k, id)
          /\ \/ /\ Known(lp) /\ k = identityByLocalPart[lp]
                /\ UNCHANGED identityByLocalPart
             \/ /\ ~Known(lp) /\ k \notin DOMAIN identitiesByID
                /\ identityByLocalPart' = Put(identityByLocalPart, lp, k)
  <2> DEFINE id == [acct |-> a, type |-> ty, secret |-> s, alias |-> accounts[a],
                    value |-> v, status |-> "active"]
  <2>1. id \in IdentityRow
    BY <1>2 DEF IdentityRow
  <2>2. CASE Known(lp)
    <3>1. identityByLocalPart[lp] \in DOMAIN identitiesByID
      BY <2>2 DEF Known, IInv, TypeOK
    <3>2. identitiesByID[identityByLocalPart[lp]].acct = a
      BY <2>2 DEF CreateSecretWithValue, Available, IdentityAt
    <3>3. identitiesByID' = Put(identitiesByID, identityByLocalPart[lp], id)
      <4>1. identitiesByID' = [identitiesByID EXCEPT ![identityByLocalPart[lp]] = id]
        BY <1>1, <2>2, <3>1, <3>2 DEF ActivateIdentity
      <4>2. QED BY <3>1, <4>1 DEF Put
    <3>4. UNCHANGED identityByLocalPart
      BY <1>1, <2>2 DEF ActivateIdentity
    <3>5. identityByLocalPart[lp] \in IdentityIds
      BY <3>1 DEF IInv, TypeOK
    <3>6. QED BY <2>1, <2>2, <3>3, <3>4, <3>5
  <2>3. CASE ~Known(lp)
    BY <1>1, <2>1, <2>3 DEF ActivateIdentity
  <2>4. QED BY <2>2, <2>3
<1>4. PICK id \in IdentityRow :
        /\ id.acct = a /\ id.secret = s /\ id.alias = accounts[a] /\ id.value = v
        /\ identitiesByID' = Put(identitiesByID, k, id)
        /\ \/ /\ Known(lp) /\ k = identityByLocalPart[lp]
              /\ UNCHANGED identityByLocalPart
           \/ /\ ~Known(lp) /\ k \notin DOMAIN identitiesByID
              /\ identityByLocalPart' = Put(identityByLocalPart, lp, k)
  BY <1>3
<1>5. /\ DOMAIN identitiesByID' = DOMAIN identitiesByID \cup {k}
      /\ identitiesByID'[k] = id
      /\ \A i \in DOMAIN identitiesByID : i # k => identitiesByID'[i] = identitiesByID[i]
  <2>1. identitiesByID' = Put(identitiesByID, k, id)
    BY <1>4
  <2>2. QED BY <2>1 DEF Put
<1>6. /\ DOMAIN identityByLocalPart' = DOMAIN identityByLocalPart \cup {lp}
      /\ identityByLocalPart'[lp] = k
      /\ \A l \in DOMAIN identityByLocalPart :
           l # lp => identityByLocalPart'[l] = identityByLocalPart[l]
  <2>1. CASE Known(lp)
    BY <1>4, <2>1 DEF Known
  <2>2. CASE ~Known(lp)
    BY <1>4, <2>2, PutFacts
  <2>3. QED BY <2>1, <2>2
<1>7. TypeOK'
  <2>1. /\ DOMAIN secretsByID' = DOMAIN secretsByID \cup {s}
        /\ DOMAIN secretsByID' \subseteq SecretIds
        /\ secretsByID' \in [DOMAIN secretsByID' -> SecretRow]
    BY <1>1 DEF Put, IInv, TypeOK, SecretRow
  <2>2. /\ DOMAIN secretByHash' \subseteq Values
        /\ secretByHash' \in [DOMAIN secretByHash' -> DOMAIN secretsByID']
    BY <1>1, <2>1 DEF Put, IInv, TypeOK
  <2>3. /\ DOMAIN identitiesByID' \subseteq IdentityIds
        /\ identitiesByID' \in [DOMAIN identitiesByID' -> IdentityRow]
    BY <1>4 DEF Put, IInv, TypeOK
  <2>4. \A i \in DOMAIN identitiesByID' : identitiesByID'[i].secret \in DOMAIN secretsByID'
    BY <1>4, <1>5, <2>1 DEF IInv, TypeOK
  <2>5. DOMAIN identityByLocalPart' \subseteq LocalParts
    BY <1>2, <1>6 DEF IInv, TypeOK
  <2>6. identityByLocalPart' \in [DOMAIN identityByLocalPart' -> DOMAIN identitiesByID']
    BY <1>4, <1>5, <1>6 DEF Put, IInv, TypeOK
  <2>7. QED BY <1>2, <2>1, <2>2, <2>3, <2>4, <2>5, <2>6 DEF IInv, TypeOK
<1>8. k \in DOMAIN identitiesByID => Known(lp) /\ LocalPart(k) = lp /\ identitiesByID[k].acct = a
  BY <1>4 DEF IInv, OneOwnerPerAddress, Known, CreateSecretWithValue, Available, IdentityAt
<1>9. LocalPart(k)' = lp
  BY <1>4, <1>5 DEF LocalPart
<1>10. \A i \in DOMAIN identitiesByID : LocalPart(i)' = LocalPart(i)
  BY <1>5, <1>8, <1>9 DEF LocalPart
<1>11. \A l \in DOMAIN identityByLocalPart :
         identityByLocalPart[l] \in DOMAIN identitiesByID
         /\ LocalPart(identityByLocalPart[l]) = l
  BY DEF IInv, TypeOK, OneOwnerPerAddress
<1>12. OwnersKept
  <2> SUFFICES ASSUME NEW l \in DOMAIN identityByLocalPart
               PROVE  IdentityAt(l)'.acct = IdentityAt(l).acct
    BY <1>6 DEF OwnersKept
  <2>1. CASE l = lp
    BY <2>1, <1>4, <1>5, <1>6, <1>8, <1>11 DEF IdentityAt, Known
  <2>2. CASE l # lp
    BY <2>2, <1>5, <1>6, <1>8, <1>11 DEF IdentityAt
  <2>3. QED BY <2>1, <2>2
<1>13. IdentityAt(lp)'.acct = a
  BY <1>4, <1>5, <1>6 DEF IdentityAt
<1>14. OneOwnerPerAddress'
  <2>1. ASSUME NEW l \in DOMAIN identityByLocalPart'
        PROVE  LocalPart(identityByLocalPart[l])' = l
    BY <2>1, <1>6, <1>9, <1>10, <1>11 DEF LocalPart
  <2>2. ASSUME NEW i \in DOMAIN identitiesByID'
        PROVE  Known(LocalPart(i))' /\ IdentityAt(LocalPart(i))'.acct = identitiesByID'[i].acct
    <3>1. CASE i = k
      BY <3>1, <1>4, <1>5, <1>6, <1>9, <1>13 DEF Known, IdentityAt, LocalPart
    <3>2. CASE i # k
      <4>1. i \in DOMAIN identitiesByID /\ identitiesByID'[i] = identitiesByID[i]
        BY <2>2, <3>2, <1>5
      <4>2. LocalPart(i) \in DOMAIN identityByLocalPart
            /\ IdentityAt(LocalPart(i)).acct = identitiesByID[i].acct
        BY <4>1 DEF IInv, OneOwnerPerAddress, Known
      <4>3. QED BY <4>1, <4>2, <1>10, <1>12 DEF OwnersKept, Known, IdentityAt, LocalPart
    <3>3. QED BY <3>1, <3>2
  <2>3. QED BY <2>1, <2>2 DEF OneOwnerPerAddress
<1>15. QED BY <1>7, <1>12, <1>14 DEF IInv

\* A change of alias moves identities to addresses that are new or the
\* account's own, whether the loop ends or stops at a reserved one.
LEMMA UpdateAccountPublicAliasStep ==
  ASSUME NEW a \in Accounts, NEW alias \in Aliases, IInv,
         UpdateAccountPublicAlias(a, alias)
  PROVE  IInv' /\ OwnersKept
<1>1. PICK S \in SUBSET ToRekey(a, accounts[a]) :
        Rekey(S, alias) /\ \A i \in S : ~Reserved(a, alias, i)
  BY DEF UpdateAccountPublicAlias
<1>2. PICK copies \in SUBSET (IdentityIds \ DOMAIN identitiesByID) :
        \E of \in Bijection(copies, S) :
          LET moved == {NewLocalPart(of[c], alias) : c \in copies} IN
          /\ identitiesByID' = Copied(S, alias, of)
          /\ \E last \in [moved -> copies] :
               /\ \A lp \in moved : NewLocalPart(of[last[lp]], alias) = lp
               /\ identityByLocalPart' =
                    [lp \in DOMAIN identityByLocalPart \cup moved |->
                       IF lp \in moved THEN last[lp] ELSE identityByLocalPart[lp]]
  BY <1>1 DEF Rekey
<1>3. PICK of \in [copies -> S] :
          LET moved == {NewLocalPart(of[c], alias) : c \in copies} IN
          /\ identitiesByID' = Copied(S, alias, of)
          /\ \E last \in [moved -> copies] :
               /\ \A lp \in moved : NewLocalPart(of[last[lp]], alias) = lp
               /\ identityByLocalPart' =
                    [lp \in DOMAIN identityByLocalPart \cup moved |->
                       IF lp \in moved THEN last[lp] ELSE identityByLocalPart[lp]]
  BY <1>2 DEF Bijection, Injection
<1> DEFINE moved == {NewLocalPart(of[c], alias) : c \in copies}
<1>4. PICK last \in [moved -> copies] :
        /\ \A lp \in moved : NewLocalPart(of[last[lp]], alias) = lp
        /\ identityByLocalPart' =
             [lp \in DOMAIN identityByLocalPart \cup moved |->
                IF lp \in moved THEN last[lp] ELSE identityByLocalPart[lp]]
  BY <1>3
<1>5. \A i \in S : /\ i \in DOMAIN identitiesByID
                   /\ identitiesByID[i].acct = a
                   /\ NewLocalPart(i, alias) \in LocalParts
                   /\ Known(NewLocalPart(i, alias)) =>
                        IdentityAt(NewLocalPart(i, alias)).acct = a
  BY <1>1, LocalPartType DEF ToRekey, Reserved, NewLocalPart, IInv, TypeOK, IdentityRow
<1>6. /\ DOMAIN identitiesByID' = DOMAIN identitiesByID \cup copies
      /\ \A c \in copies :
           /\ c \in IdentityIds /\ c \notin DOMAIN identitiesByID
           /\ of[c] \in S
           /\ identitiesByID'[c] = [identitiesByID[of[c]] EXCEPT !.alias = alias]
      /\ \A i \in DOMAIN identitiesByID :
           identitiesByID'[i] =
             IF i \in S THEN [identitiesByID[i] EXCEPT !.status = "deleted_tombstoned"]
             ELSE identitiesByID[i]
  BY <1>3 DEF Copied
<1>7. /\ \A i \in DOMAIN identitiesByID :
           /\ identitiesByID'[i] \in IdentityRow
           /\ identitiesByID'[i].acct = identitiesByID[i].acct
           /\ identitiesByID'[i].alias = identitiesByID[i].alias
           /\ identitiesByID'[i].value = identitiesByID[i].value
           /\ identitiesByID'[i].secret = identitiesByID[i].secret
      /\ \A c \in copies :
           /\ identitiesByID'[c] \in IdentityRow
           /\ identitiesByID'[c].acct = a
           /\ identitiesByID'[c].alias = alias
           /\ identitiesByID'[c].value = identitiesByID[of[c]].value
           /\ identitiesByID'[c].secret = identitiesByID[of[c]].secret
  <2>1. \A i \in DOMAIN identitiesByID : identitiesByID[i] \in IdentityRow
    BY DEF IInv, TypeOK
  <2>2. ASSUME NEW i \in DOMAIN identitiesByID
        PROVE  /\ identitiesByID'[i] \in IdentityRow
               /\ identitiesByID'[i].acct = identitiesByID[i].acct
               /\ identitiesByID'[i].alias = identitiesByID[i].alias
               /\ identitiesByID'[i].value = identitiesByID[i].value
               /\ identitiesByID'[i].secret = identitiesByID[i].secret
    <3>1. CASE i \in S
      BY <1>6, <2>1, <3>1 DEF IdentityRow
    <3>2. CASE i \notin S
      BY <1>6, <2>1, <3>2
    <3>3. QED BY <3>1, <3>2
  <2>3. ASSUME NEW c \in copies
        PROVE  /\ identitiesByID'[c] \in IdentityRow
               /\ identitiesByID'[c].acct = a
               /\ identitiesByID'[c].alias = alias
               /\ identitiesByID'[c].value = identitiesByID[of[c]].value
               /\ identitiesByID'[c].secret = identitiesByID[of[c]].secret
    <3>1. /\ identitiesByID'[c] = [identitiesByID[of[c]] EXCEPT !.alias = alias]
          /\ identitiesByID[of[c]] \in IdentityRow /\ identitiesByID[of[c]].acct = a
      BY <1>5, <1>6, <2>1
    <3>2. QED BY <3>1 DEF IdentityRow
  <2>4. QED BY <2>2, <2>3
<1>8. /\ DOMAIN identityByLocalPart' = DOMAIN identityByLocalPart \cup moved
      /\ \A lp \in moved :
           /\ identityByLocalPart'[lp] \in copies
           /\ NewLocalPart(of[identityByLocalPart'[lp]], alias) = lp
      /\ \A lp \in DOMAIN identityByLocalPart :
           lp \notin moved => identityByLocalPart'[lp] = identityByLocalPart[lp]
  BY <1>4
<1> HIDE DEF moved
<1>9. \A lp \in moved : \E c \in copies : lp = NewLocalPart(of[c], alias)
  BY DEF moved
<1>10. \A c \in copies : NewLocalPart(of[c], alias) \in moved
  BY DEF moved
<1>11. TypeOK'
  <2>1. /\ DOMAIN accounts' = DOMAIN accounts
        /\ accounts' \in [DOMAIN accounts' -> Aliases]
    BY DEF UpdateAccountPublicAlias, Put, IInv, TypeOK
  <2>2. /\ DOMAIN accountsByAlias' \subseteq Aliases
        /\ accountsByAlias' \in [DOMAIN accountsByAlias' -> DOMAIN accounts']
    BY <2>1 DEF UpdateAccountPublicAlias, Put, Drop, Restrict, IInv, TypeOK
  <2>3. UNCHANGED <<typeStatus, secretsByID, secretByHash>>
    BY DEF UpdateAccountPublicAlias
  <2>4. /\ DOMAIN identitiesByID' \subseteq IdentityIds
        /\ identitiesByID' \in [DOMAIN identitiesByID' -> IdentityRow]
    BY <1>3, <1>6, <1>7 DEF Copied, IInv, TypeOK
  <2>5. \A i \in DOMAIN identitiesByID' : identitiesByID'[i].secret \in DOMAIN secretsByID'
    BY <1>5, <1>6, <1>7, <2>3 DEF IInv, TypeOK
  <2>6. DOMAIN identityByLocalPart' \subseteq LocalParts
    BY <1>5, <1>6, <1>8, <1>9 DEF IInv, TypeOK
  <2>7. identityByLocalPart' \in [DOMAIN identityByLocalPart' -> DOMAIN identitiesByID']
    BY <1>4, <1>6, <1>8 DEF IInv, TypeOK
  <2>8. QED BY <2>1, <2>2, <2>3, <2>4, <2>5, <2>6, <2>7 DEF IInv, TypeOK
<1>12. \A i \in DOMAIN identitiesByID : LocalPart(i)' = LocalPart(i)
  BY <1>7 DEF LocalPart
<1>13. \A c \in copies : LocalPart(c)' = NewLocalPart(of[c], alias)
  BY <1>7 DEF LocalPart, NewLocalPart
<1>14. \A lp \in moved : IdentityAt(lp)'.acct = a
  BY <1>7, <1>8 DEF IdentityAt
<1>15. \A lp \in DOMAIN identityByLocalPart :
         /\ identityByLocalPart[lp] \in DOMAIN identitiesByID
         /\ LocalPart(identityByLocalPart[lp]) = lp
  BY DEF IInv, TypeOK, OneOwnerPerAddress
<1>16. OwnersKept
  <2> SUFFICES ASSUME NEW lp \in DOMAIN identityByLocalPart
               PROVE  IdentityAt(lp)'.acct = IdentityAt(lp).acct
    BY <1>8 DEF OwnersKept
  <2>1. CASE lp \in moved
    BY <2>1, <1>5, <1>6, <1>9, <1>14 DEF Known
  <2>2. CASE lp \notin moved
    BY <2>2, <1>7, <1>8, <1>15 DEF IdentityAt
  <2>3. QED BY <2>1, <2>2
<1>17. OneOwnerPerAddress'
  <2>1. ASSUME NEW lp \in DOMAIN identityByLocalPart'
        PROVE  LocalPart(identityByLocalPart[lp])' = lp
    BY <2>1, <1>8, <1>12, <1>13, <1>15 DEF LocalPart
  <2>2. ASSUME NEW i \in DOMAIN identitiesByID'
        PROVE  Known(LocalPart(i))' /\ IdentityAt(LocalPart(i))'.acct = identitiesByID'[i].acct
    <3>1. CASE i \in copies
      <4>1. LocalPart(i)' \in moved
        BY <3>1, <1>10, <1>13
      <4>2. QED BY <3>1, <4>1, <1>7, <1>8, <1>14 DEF Known, IdentityAt
    <3>2. CASE i \in DOMAIN identitiesByID
      <4>1. LocalPart(i) \in DOMAIN identityByLocalPart
            /\ IdentityAt(LocalPart(i)).acct = identitiesByID[i].acct
        BY <3>2 DEF IInv, OneOwnerPerAddress, Known
      <4>2. QED BY <3>2, <4>1, <1>7, <1>12, <1>16 DEF OwnersKept, Known, IdentityAt
    <3>3. QED BY <2>2, <3>1, <3>2, <1>6
  <2>3. QED BY <2>1, <2>2 DEF OneOwnerPerAddress
<1>18. QED BY <1>11, <1>16, <1>17 DEF IInv

---------------------------------------------------------------------------
(* The theorems.                                                           *)

\* Empty maps satisfy the invariant.
LEMMA InitIInv == Init => IInv
BY DEF Init, Empty, IInv, TypeOK, OneOwnerPerAddress

\* Every step preserves the invariant and keeps the owners.
LEMMA NextIInv == IInv /\ [Next]_vars => IInv' /\ OwnersKept
<1> SUFFICES ASSUME IInv, [Next]_vars PROVE IInv' /\ OwnersKept
  OBVIOUS
<1>1. CASE UNCHANGED vars
  <2>1. TypeOK'
    BY <1>1 DEF vars, IInv, TypeOK
  <2>2. QED BY <1>1, <2>1, SameAddresses DEF vars
<1>2. ASSUME NEW a \in Accounts, CreateAccount(a) PROVE IInv' /\ OwnersKept
  BY <1>2, CreateAccountStep
<1>3. ASSUME NEW a \in Accounts, NEW x \in Aliases,
             UpdateAccountPublicAlias(a, Normalize[x])
      PROVE  IInv' /\ OwnersKept
  BY <1>3, UpdateAccountPublicAliasStep, RegistryAssumption
<1>4. ASSUME NEW ty \in Types, CreateWebhookType(ty) \/ DeleteWebhookType(ty)
      PROVE  IInv' /\ OwnersKept
  <2>1. CASE CreateWebhookType(ty)
    BY <2>1, CreateWebhookTypeStep
  <2>2. CASE DeleteWebhookType(ty)
    <3>1. typeStatus' \in [Types -> {"absent", "live", "deleted"}]
      BY <2>2 DEF DeleteWebhookType, IInv, TypeOK
    <3>2. QED BY <2>2, <3>1, RevokeStep DEF DeleteWebhookType
  <2>3. QED BY <1>4, <2>1, <2>2
<1>5. ASSUME NEW a \in Accounts, NEW ty \in Types, NEW v \in Values,
             CreateSecretWithValue(a, ty, v)
      PROVE  IInv' /\ OwnersKept
  BY <1>5, CreateSecretStep
<1>6. ASSUME NEW s \in SecretIds, DeleteSecret(s) PROVE IInv' /\ OwnersKept
  <2>1. typeStatus' \in [Types -> {"absent", "live", "deleted"}]
    BY <1>6 DEF DeleteSecret, IInv, TypeOK
  <2>2. QED BY <1>6, <2>1, RevokeStep DEF DeleteSecret
<1>7. ASSUME NEW i \in IdentityIds,
             BlockWebhookIdentity(i) \/ RestoreWebhookIdentity(i)
      PROVE  IInv' /\ OwnersKept
  BY <1>7, SetStatusStep DEF BlockWebhookIdentity, RestoreWebhookIdentity
<1>8. QED BY <1>1, <1>2, <1>3, <1>4, <1>5, <1>6, <1>7 DEF Next

\* The maps keep their types and no index or link dangles.
THEOREM TypeCorrect == Spec => []TypeOK
<1>1. IInv => TypeOK
  BY DEF IInv
<1>2. QED BY <1>1, InitIInv, NextIInv, PTL DEF Spec

\* All identities an address ever had belong to one account.
THEOREM OneOwner == Spec => []OneOwnerPerAddress
<1>1. IInv => OneOwnerPerAddress
  BY DEF IInv
<1>2. QED BY <1>1, InitIInv, NextIInv, PTL DEF Spec

\* No step ever gives an address to another account.
THEOREM OwnerFixed == Spec => AddressOwnerFixed
<1>1. IInv /\ [Next]_vars => [OwnersKept]_vars
  BY NextIInv
<1>2. QED
  BY <1>1, InitIInv, NextIInv, PTL DEF Spec, AddressOwnerFixed, OwnersKept

\* A change of alias that no reserved address stops rekeys every listener of
\* the old alias: the copy at the new address is indexed and active.
THEOREM AliasChange == Spec => AliasChangeKeepsAddresses
<1> DEFINE Kept ==
      \A a \in DOMAIN accounts, v \in Values :
        /\ accounts'[a] # accounts[a]
        /\ \A i \in ToRekey(a, accounts[a]) : ~Reserved(a, accounts'[a], i)
        /\ ResolveSecretAnyType(a, v)
        /\ identityByLocalPart[BuildLocalPart(accounts[a], v)]
             \in ToRekey(a, accounts[a])
        => ResolveSecretAnyType(a, v)'
<1>1. ASSUME IInv, Next PROVE Kept
  <2> SUFFICES ASSUME NEW a \in DOMAIN accounts, NEW v \in Values,
                      accounts'[a] # accounts[a],
                      \A i \in ToRekey(a, accounts[a]) : ~Reserved(a, accounts'[a], i),
                      ResolveSecretAnyType(a, v),
                      identityByLocalPart[BuildLocalPart(accounts[a], v)]
                        \in ToRekey(a, accounts[a])
               PROVE  ResolveSecretAnyType(a, v)'
    OBVIOUS
  <2>1. PICK b \in Accounts, x \in Aliases : UpdateAccountPublicAlias(b, Normalize[x])
    <3>1. ASSUME NEW b \in Accounts, CreateAccount(b) PROVE FALSE
      <4>1. b # a /\ accounts' = Put(accounts, b, Slug[b])
        BY <3>1 DEF CreateAccount
      <4>2. accounts'[a] = accounts[a]
        BY <4>1 DEF Put
      <4>3. QED BY <4>2
    <3>2. QED
      BY <1>1, <3>1 DEF Next, CreateWebhookType, DeleteWebhookType, DeleteSecret,
         CreateSecretWithValue, BlockWebhookIdentity, RestoreWebhookIdentity, SetStatus
  <2> DEFINE alias == Normalize[x]
  <2>2. b = a /\ accounts'[a] = alias
    <3>1. accounts' = Put(accounts, b, alias)
      BY <2>1 DEF UpdateAccountPublicAlias
    <3>2. accounts'[b] = alias /\ (a # b => accounts'[a] = accounts[a])
      BY <3>1 DEF Put
    <3>3. QED BY <3>2
  <2> DEFINE S == ToRekey(a, accounts[a])
  <2>3. Rekey(S, alias) /\ UNCHANGED <<secretsByID, secretByHash>>
    BY <2>1, <2>2 DEF UpdateAccountPublicAlias
  <2>4. PICK copies \in SUBSET (IdentityIds \ DOMAIN identitiesByID) :
          \E of \in Bijection(copies, S) :
            LET moved == {NewLocalPart(of[c], alias) : c \in copies} IN
            /\ identitiesByID' = Copied(S, alias, of)
            /\ \E last \in [moved -> copies] :
                 identityByLocalPart' =
                   [lp \in DOMAIN identityByLocalPart \cup moved |->
                      IF lp \in moved THEN last[lp] ELSE identityByLocalPart[lp]]
    BY <2>3 DEF Rekey
  <2>5. PICK of \in Bijection(copies, S) :
          LET moved == {NewLocalPart(of[c], alias) : c \in copies} IN
          /\ identitiesByID' = Copied(S, alias, of)
          /\ \E last \in [moved -> copies] :
               identityByLocalPart' =
                 [lp \in DOMAIN identityByLocalPart \cup moved |->
                    IF lp \in moved THEN last[lp] ELSE identityByLocalPart[lp]]
    BY <2>4
  <2>6. of \in [copies -> S] /\ \A i \in S : \E c \in copies : of[c] = i
    BY DEF Bijection, Injection, Surjection
  <2> DEFINE moved == {NewLocalPart(of[c], alias) : c \in copies}
             i == identityByLocalPart[BuildLocalPart(accounts[a], v)]
             lp == BuildLocalPart(alias, v)
  <2>7. i \in S /\ identitiesByID[i].value = v
    <3>1. Known(BuildLocalPart(accounts[a], v))
      BY DEF ResolveSecretAnyType
    <3>2. BuildLocalPart(identitiesByID[i].alias, identitiesByID[i].value)
            = BuildLocalPart(accounts[a], v)
      BY <1>1, <3>1 DEF IInv, OneOwnerPerAddress, Known, LocalPart
    <3>3. QED BY <3>2 DEF BuildLocalPart
  <2>8. lp \in moved
    BY <2>6, <2>7 DEF NewLocalPart
  <2>9. lp \in DOMAIN identityByLocalPart' /\ identityByLocalPart'[lp] \in copies
    BY <2>5, <2>8
  <2>10. \A c \in copies : identitiesByID'[c].status = "active"
    <3> SUFFICES ASSUME NEW c \in copies PROVE identitiesByID'[c].status = "active"
      OBVIOUS
    <3>1. of[c] \in DOMAIN identitiesByID /\ identitiesByID[of[c]].status = "active"
      BY <2>6 DEF ToRekey
    <3>2. identitiesByID[of[c]] \in IdentityRow
      BY <1>1, <3>1 DEF IInv, TypeOK
    <3>3. identitiesByID'[c] = [identitiesByID[of[c]] EXCEPT !.alias = alias]
      BY <2>5, <2>6 DEF Copied
    <3>4. QED BY <3>1, <3>2, <3>3 DEF IdentityRow
  <2>11. BuildLocalPart(accounts[a], v)' = lp
    BY <2>2 DEF BuildLocalPart
  <2>12. QED
    BY <2>3, <2>9, <2>10, <2>11 DEF ResolveSecretAnyType, Known, IdentityAt
<1>2. IInv /\ [Next]_vars => [Kept]_vars
  BY <1>1
<1>3. QED
  BY <1>2, InitIInv, NextIInv, PTL DEF Spec, AliasChangeKeepsAddresses
=============================================================================
