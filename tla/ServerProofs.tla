----------------------------- MODULE ServerProofs ------------------------------
(***************************************************************************)
(* What holds of the control server's subsystems in the composition.  The  *)
(* part that acts never changes, so the invariant of a subsystem's own     *)
(* steps is one of the whole.  Leases and managed keys have a module of    *)
(* lemmas each; keys and principals, the control channel, terminals and    *)
(* views are treated here.                                                 *)
(***************************************************************************)
EXTENDS MCServer, Integers, Sequences, FiniteSetTheorems, TLAPS

serverVars ==
    <<part, slot1, slot2, slot3, slot4, slot5, slot6, slot7, slot8, slot9, slot10, slot11, slot12,
      slot13, slot14, slot15, slot16, slot17, slot18>>

ServerSpec == MCInit /\ [][MCNext]_serverVars

--------------------------------------------------------------------------------
(* Keys and principals.  GrantsOK says of a table of keys and a table of   *)
(* principals what AuthorityIsGranted promises; a transaction inserts a    *)
(* row, or revokes rows and changes a principal.  slot1 holds the          *)
(* principals, slot2 the keys, slot3 the request being decided, slot4 the  *)
(* clock.                                                                  *)

AnyScope == (UNION (Grants \cup {Configured[p] : p \in Principal})) \cup {"admin"} \cup Keys!Recovery
PrincipalRow == [scopes : SUBSET AnyScope, disabled : BOOLEAN]
KeyRow == [of : Keys!Principals \cup {"none"}, scopes : SUBSET AnyScope, managed : SUBSET Delegable, expires : Int,
           created : Nat, revoked : BOOLEAN, issuer : Key \cup {0}, rooted : BOOLEAN]
RequestRow == [actor : Key, of : Keys!Principals, scopes : SUBSET AnyScope, managed : SUBSET Delegable, expires : Int]

RowGranted(row, ks, ps) ==
    /\ row.of \in Keys!Principals
    /\ ps[row.of].disabled => row.revoked
    /\ "admin" \in row.scopes \/ row.managed # {} => row.rooted
    /\ row.issuer # 0 => ks[row.issuer] # Keys!NoKey /\ row.expires <= ks[row.issuer].expires
    /\ row.managed # {} => row.scopes \subseteq Keys!Recovery

GrantsOK(ks, ps) ==
    /\ ks \in [Key -> KeyRow] /\ ps \in [Keys!Principals -> PrincipalRow]
    /\ \A k \in Key : ks[k] # Keys!NoKey => RowGranted(ks[k], ks, ps)

\* A new row that is granted.
LEMMA KeyInserted ==
    ASSUME NEW ks, NEW ps, GrantsOK(ks, ps), NEW k \in Key, ks[k] = Keys!NoKey,
           NEW row \in KeyRow, RowGranted(row, ks, ps)
    PROVE  GrantsOK([ks EXCEPT ![k] = row], ps)
<1> DEFINE ls == [ks EXCEPT ![k] = row]
<1>1. /\ ls \in [Key -> KeyRow] /\ ls[k] = row /\ \A j \in Key : j # k => ls[j] = ks[j] BY DEF GrantsOK
<1>2. row # Keys!NoKey
    <2>1. Keys!NoKey.of = "none" BY DEF Keys!NoKey
    <2>2. "none" \notin Keys!Principals BY KeyBounds DEF Keys!Principals
    <2> QED BY <2>1, <2>2 DEF RowGranted
<1>3. \A j \in Key : ks[j] # Keys!NoKey => ls[j] = ks[j] BY <1>1
<1> HIDE DEF ls
<1>4. ASSUME NEW j \in Key, ls[j] # Keys!NoKey PROVE RowGranted(ls[j], ls, ps)
    <2>1. RowGranted(ls[j], ks, ps) BY <1>1, <1>4 DEF GrantsOK
    <2>2. ls[j].issuer # 0 => ls[j].issuer \in Key BY <1>1 DEF KeyRow
    <2> QED BY <1>3, <2>1, <2>2 DEF RowGranted
<1>5. GrantsOK(ls, ps) BY <1>1, <1>4 DEF GrantsOK
<1> QED BY <1>5 DEF ls

\* Rows that are revoked while principals change: who is disabled has none left that counts.
LEMMA KeysRevoked ==
    ASSUME NEW ks, NEW ps, GrantsOK(ks, ps), NEW R \in SUBSET Key, \A k \in R : ks[k] # Keys!NoKey,
           NEW qs \in [Keys!Principals -> PrincipalRow],
           \A k \in Key : ks[k] # Keys!NoKey /\ qs[ks[k].of].disabled => ks[k].revoked \/ k \in R,
           NEW ls, ls = [k \in Key |-> IF k \in R THEN [ks[k] EXCEPT !.revoked = TRUE] ELSE ks[k]]
    PROVE  GrantsOK(ls, qs) /\ \A k \in Key : ls[k] = Keys!NoKey <=> ks[k] = Keys!NoKey
<1>1. ASSUME NEW k \in Key
      PROVE  /\ ls[k] \in KeyRow /\ ls[k].of = ks[k].of /\ ls[k].scopes = ks[k].scopes /\ ls[k].managed = ks[k].managed
             /\ ls[k].expires = ks[k].expires /\ ls[k].issuer = ks[k].issuer /\ ls[k].rooted = ks[k].rooted
             /\ (ks[k].revoked \/ k \in R) => ls[k].revoked
    <2>1. ks[k] \in KeyRow BY DEF GrantsOK
    <2>2. CASE k \in R
        <3>1. ls[k] = [ks[k] EXCEPT !.revoked = TRUE] BY <2>2
        <3> QED BY <2>1, <3>1 DEF KeyRow
    <2>3. CASE k \notin R
        <3>1. ls[k] = ks[k] BY <2>3
        <3> QED BY <2>1, <2>3, <3>1
    <2> QED BY <2>2, <2>3
<1>2. ASSUME NEW k \in Key PROVE ls[k] = Keys!NoKey <=> ks[k] = Keys!NoKey
    <2>1. CASE k \in R
        <3>1. ks[k].of # "none"
            <4>1. ks[k].of \in Keys!Principals BY <2>1 DEF GrantsOK, RowGranted
            <4> QED BY <4>1, KeyBounds DEF Keys!Principals
        <3>2. ls[k].of # "none" BY <1>1, <3>1
        <3> QED BY <2>1, <3>2 DEF Keys!NoKey
    <2>2. CASE k \notin R
        <3>1. ls[k] = ks[k] BY <2>2
        <3> QED BY <3>1
    <2> QED BY <2>1, <2>2
<1>3. ASSUME NEW k \in Key, ls[k] # Keys!NoKey PROVE RowGranted(ls[k], ls, qs)
    <2>1. RowGranted(ks[k], ks, ps) /\ ks[k] # Keys!NoKey BY <1>2, <1>3 DEF GrantsOK
    <2>2. ks[k].issuer # 0 => ks[k].issuer \in Key BY DEF GrantsOK, KeyRow
    <2>3. ks[k].issuer # 0 => ls[ks[k].issuer] # Keys!NoKey /\ ls[ks[k].issuer].expires = ks[ks[k].issuer].expires
        BY <1>1, <1>2, <2>1, <2>2 DEF RowGranted
    <2>4. qs[ls[k].of].disabled => ls[k].revoked BY <1>1, <2>1
    <2> QED BY <1>1, <2>1, <2>3, <2>4 DEF RowGranted
<1>4. ls \in [Key -> KeyRow] BY <1>1
<1> QED BY <1>2, <1>3, <1>4 DEF GrantsOK

AuthorityInv ==
    /\ GrantsOK(slot2, slot1) /\ slot4 \in Nat
    /\ slot3 = Keys!NoRequest \/ slot3 \in RequestRow

\* The next key is one that is not issued.
LEMMA NewKeyIsFree ==
    ASSUME Keys!Free # {}
    PROVE  Keys!NewKey \in Key /\ slot2[Keys!NewKey] = Keys!NoKey
<1>1. Keys!Free \subseteq Key /\ \A k \in Keys!Free : slot2[k] = Keys!NoKey BY DEF Keys!Free, Keys!Issued
<1>2. Keys!Free \subseteq Nat BY <1>1, KeyBounds
<1>3. \E k \in Keys!Free : \A j \in Keys!Free : k <= j BY <1>2, Leases!LeastNumber
<1>4. Keys!NewKey \in Keys!Free BY <1>3 DEF Keys!NewKey
<1> QED BY <1>1, <1>4

\* What a caller asks for is a well-formed request.
LEMMA AskSteps ==
    ASSUME AuthorityInv, NEW k \in Key, Keys!issuePrincipalKey(k) \/ Keys!rotatePrincipalKey(k)
    PROVE  AuthorityInv'
<1>1. PICK r : /\ slot3' = r /\ UNCHANGED <<slot1, slot2, slot4>> /\ r \in RequestRow
    <2>1. CASE Keys!issuePrincipalKey(k)
        <3>1. PICK p \in Keys!Principals, sc \in Grants, m \in SUBSET Delegable, e \in slot4 + 1 .. KeyTime + 1 :
                Keys!ask(k, [actor |-> k, of |-> p, scopes |-> sc, managed |-> m, expires |-> e])
            BY <2>1 DEF Keys!issuePrincipalKey
        <3>2. sc \in SUBSET AnyScope BY DEF AnyScope
        <3>3. e \in Int BY KeyBounds DEF AuthorityInv
        <3>4. [actor |-> k, of |-> p, scopes |-> sc, managed |-> m, expires |-> e] \in RequestRow
            BY <3>2, <3>3 DEF RequestRow
        <3> QED BY <3>1, <3>4 DEF Keys!ask
    <2>2. CASE Keys!rotatePrincipalKey(k)
        <3>1. PICK pred \in Keys!Issued :
                Keys!ask(k, [actor |-> k, of |-> slot2[pred].of, scopes |-> slot2[pred].scopes,
                             managed |-> slot2[pred].managed, expires |-> Keys!successorExpiry(pred, k)])
            BY <2>2 DEF Keys!rotatePrincipalKey
        <3>2. pred \in Key /\ slot2[pred] \in KeyRow /\ slot2[k] \in KeyRow /\ slot2[pred].of \in Keys!Principals
            BY DEF AuthorityInv, GrantsOK, RowGranted, Keys!Issued
        <3>3. Keys!successorExpiry(pred, k) \in Int
            BY <3>2 DEF Keys!successorExpiry, KeyRow, AuthorityInv
        <3>4. [actor |-> k, of |-> slot2[pred].of, scopes |-> slot2[pred].scopes,
               managed |-> slot2[pred].managed, expires |-> Keys!successorExpiry(pred, k)] \in RequestRow
            BY <3>2, <3>3 DEF RequestRow, KeyRow
        <3> QED BY <3>1, <3>4 DEF Keys!ask
    <2> QED BY <2>1, <2>2
<1> QED BY <1>1 DEF AuthorityInv

\* A key is issued with what its issuer may give, and a recovery key by the controller itself.
LEMMA IssueSteps ==
    ASSUME AuthorityInv, Keys!issueMachineKey \/ Keys!bootstrapLocalRecoveryKey
    PROVE  AuthorityInv'
<1>0. Keys!Free # {} /\ GrantsOK(slot2, slot1) BY DEF Keys!issueMachineKey, Keys!bootstrapLocalRecoveryKey, AuthorityInv
<1>n. PICK k \in Key : k = Keys!NewKey /\ slot2[k] = Keys!NoKey BY <1>0, NewKeyIsFree
<1>1. CASE Keys!issueMachineKey
    <2>1. slot3 \in RequestRow /\ slot3' = Keys!NoRequest /\ UNCHANGED <<slot1, slot4>>
        BY <1>1 DEF Keys!issueMachineKey, AuthorityInv
    <2>2. PICK r \in RequestRow : r = slot3 BY <2>1
    <2>b. ("admin" \in Keys!keyAuthority(r.actor)) \in BOOLEAN OBVIOUS
    <2>3. PICK rooted \in BOOLEAN : rooted = ("admin" \in Keys!keyAuthority(r.actor)) BY <2>b, Zenon
    <2>4. PICK row : row = [of |-> r.of, scopes |-> r.scopes, managed |-> r.managed, expires |-> r.expires,
                            created |-> slot4, revoked |-> FALSE, issuer |-> r.actor, rooted |-> rooted]
        OBVIOUS
    <2>5. /\ row.of = r.of /\ row.scopes = r.scopes /\ row.managed = r.managed /\ row.expires = r.expires
          /\ row.issuer = r.actor /\ row.rooted = rooted /\ row \in KeyRow
        BY <2>2, <2>3, <2>4 DEF KeyRow, RequestRow, AuthorityInv
    <2>6. CASE ~UNCHANGED slot2
        <3>1. /\ Keys!InForce(r.actor) /\ Keys!assertKeyIssueAuthority(r) /\ Keys!assertTargetGrants(r)
              /\ slot2' = [slot2 EXCEPT ![k] = row]
            BY <1>1, <1>n, <2>2, <2>3, <2>4, <2>6 DEF Keys!issueMachineKey, Keys!Insert
        <3>2. slot2[r.actor] # Keys!NoKey /\ ~slot1[r.of].disabled /\ r.of \in Keys!Principals
            BY <2>2, <3>1 DEF Keys!InForce, Keys!Issued, Keys!assertTargetGrants, RequestRow
        <3>3. r.expires <= slot2[r.actor].expires BY <3>1 DEF Keys!assertKeyIssueAuthority
        <3>4. r.managed # {} => rooted /\ r.scopes \subseteq Keys!Recovery
            BY <2>3, <3>1 DEF Keys!assertKeyIssueAuthority
        <3>5. "admin" \in r.scopes => rooted
            <4> SUFFICES ASSUME ~rooted PROVE "admin" \notin r.scopes OBVIOUS
            <4>1. "admin" \notin Keys!keyAuthority(r.actor) BY <2>3
            <4>2. CASE r.of \in slot2[r.actor].managed
                <5>1. r.scopes \cap Keys!Administration = {} BY <3>1, <4>1, <4>2 DEF Keys!assertKeyIssueAuthority
                <5> QED BY <5>1 DEF Keys!Administration
            <4>3. CASE r.of \notin slot2[r.actor].managed
                <5>1. r.scopes \subseteq Keys!keyAuthority(r.actor)
                    BY <3>1, <4>1, <4>3 DEF Keys!assertKeyIssueAuthority
                <5> QED BY <4>1, <5>1
            <4> QED BY <4>2, <4>3
        <3>6. RowGranted(row, slot2, slot1) BY <2>5, <3>2, <3>3, <3>4, <3>5 DEF RowGranted
        <3>7. PICK ks, ps : ks = slot2 /\ ps = slot1 OBVIOUS
        <3>8. GrantsOK([ks EXCEPT ![k] = row], ps) BY <1>0, <1>n, <2>5, <3>6, <3>7, KeyInserted
        <3> QED BY <2>1, <3>1, <3>7, <3>8 DEF AuthorityInv
    <2>7. CASE UNCHANGED slot2 BY <2>1, <2>7 DEF AuthorityInv
    <2> QED BY <2>6, <2>7
<1>2. CASE Keys!bootstrapLocalRecoveryKey
    <2>1. PICK p \in Principal, m \in (SUBSET Delegable) \ {{}} :
            LET r == [actor |-> 0, of |-> p, scopes |-> Keys!Recovery, managed |-> m, expires |-> KeyTime + 1] IN
            Keys!assertTargetGrants(r) /\ Keys!Insert(k, r, TRUE) /\ UNCHANGED <<slot1, slot3, slot4>>
        BY <1>2, <1>n DEF Keys!bootstrapLocalRecoveryKey
    <2>2. PICK row : row = [of |-> p, scopes |-> Keys!Recovery, managed |-> m, expires |-> KeyTime + 1,
                            created |-> slot4, revoked |-> FALSE, issuer |-> 0, rooted |-> TRUE]
        OBVIOUS
    <2>3. slot2' = [slot2 EXCEPT ![k] = row] /\ ~slot1[p].disabled BY <2>1, <2>2 DEF Keys!Insert, Keys!assertTargetGrants
    <2>4. p \in Keys!Principals /\ Keys!Recovery \in SUBSET AnyScope
        <3>1. Keys!Recovery \subseteq AnyScope BY Zenon DEF AnyScope
        <3> QED BY <3>1 DEF Keys!Principals
    <2>5. row \in KeyRow BY <2>2, <2>4, KeyBounds DEF KeyRow, AuthorityInv
    <2>6. RowGranted(row, slot2, slot1) BY <2>2, <2>3, <2>4 DEF RowGranted
    <2>7. PICK ks, ps : ks = slot2 /\ ps = slot1 OBVIOUS
    <2>8. GrantsOK([ks EXCEPT ![k] = row], ps) BY <1>0, <1>n, <2>5, <2>6, <2>7, KeyInserted
    <2> QED BY <2>1, <2>3, <2>7, <2>8 DEF AuthorityInv
<1> QED BY <1>1, <1>2

\* Keys are revoked and a principal changes, together.
LEMMA RevocationSteps ==
    ASSUME AuthorityInv, NEW p \in Keys!Principals, NEW q \in PrincipalRow, UNCHANGED <<slot3, slot4>>,
           slot1' = [slot1 EXCEPT ![p] = q],
           slot2' = Keys!Revoked(p) \/ (slot2' = slot2 /\ ~q.disabled)
    PROVE  AuthorityInv'
<1>1. PICK ks, ps : ks = slot2 /\ ps = slot1 OBVIOUS
<1>2. PICK qs : qs = [ps EXCEPT ![p] = q] OBVIOUS
<1>3. PICK R : R = IF slot2' = slot2 THEN {} ELSE {k \in Key : ks[k].of = p} OBVIOUS
<1>4. GrantsOK(ks, ps) BY <1>1 DEF AuthorityInv
<1>5. /\ qs \in [Keys!Principals -> PrincipalRow] /\ qs[p] = q
      /\ \A x \in Keys!Principals : x # p => qs[x] = ps[x]
    BY <1>2, <1>4 DEF GrantsOK
<1>6. R \in SUBSET Key /\ \A k \in R : ks[k] # Keys!NoKey
    <2>1. p # "none" BY KeyBounds DEF Keys!Principals
    <2> QED BY <1>3, <2>1 DEF Keys!NoKey
<1>7. PICK ls : ls = [k \in Key |-> IF k \in R THEN [ks[k] EXCEPT !.revoked = TRUE] ELSE ks[k]] OBVIOUS
<1>8. slot2' = ls
    <2>1. CASE slot2' = slot2 BY <1>1, <1>3, <1>4, <1>7, <2>1 DEF GrantsOK
    <2>2. CASE slot2' # slot2
        <3>1. slot2' = [k \in Key |-> IF ks[k].of = p THEN [ks[k] EXCEPT !.revoked = TRUE] ELSE ks[k]]
            BY <1>1, <2>2 DEF Keys!Revoked
        <3> QED BY <1>3, <1>7, <2>2, <3>1
    <2> QED BY <2>1, <2>2
<1>9. \A k \in Key : ks[k] # Keys!NoKey /\ qs[ks[k].of].disabled => ks[k].revoked \/ k \in R
    <2> SUFFICES ASSUME NEW k \in Key, ks[k] # Keys!NoKey, qs[ks[k].of].disabled, k \notin R PROVE ks[k].revoked
        OBVIOUS
    <2>1. ks[k].of \in Keys!Principals /\ (ps[ks[k].of].disabled => ks[k].revoked) BY <1>4 DEF GrantsOK, RowGranted
    <2>2. CASE ks[k].of # p BY <1>5, <2>1, <2>2
    <2>3. CASE ks[k].of = p
        <3>1. slot2' = slot2 BY <1>3, <2>3
        <3>2. CASE ~q.disabled BY <1>5, <2>3, <3>2
        <3>3. CASE slot2' = Keys!Revoked(p)
            <4>1. slot2[k] = [ks[k] EXCEPT !.revoked = TRUE] BY <1>1, <2>3, <3>1, <3>3 DEF Keys!Revoked
            <4>2. ks[k] \in KeyRow BY <1>4 DEF GrantsOK
            <4> QED BY <1>1, <4>1, <4>2 DEF KeyRow
        <3> QED BY <3>2, <3>3
    <2> QED BY <2>2, <2>3
<1>10. GrantsOK(ls, qs) BY <1>4, <1>5, <1>6, <1>7, <1>9, KeysRevoked
<1> QED BY <1>1, <1>2, <1>8, <1>10 DEF AuthorityInv

\* A principal is changed, by an administrator or by the principal file.
LEMMA ChangeSteps ==
    ASSUME AuthorityInv, NEW p \in Keys!Principals,
           Keys!applyConfiguredPrincipal(p) \/ \E a \in Key : Keys!updateManagedPrincipal(a, p)
    PROVE  AuthorityInv'
<1>1. PICK sc \in Grants, d \in BOOLEAN :
        /\ slot1' = [slot1 EXCEPT ![p] = [scopes |-> sc, disabled |-> d]] /\ UNCHANGED <<slot3, slot4>>
        /\ slot2' = IF d THEN Keys!Revoked(p) ELSE slot2
    BY DEF Keys!updateManagedPrincipal, Keys!applyConfiguredPrincipal
<1>2. PICK q : q = [scopes |-> sc, disabled |-> d] OBVIOUS
<1>3. q \in PrincipalRow /\ q.disabled = d BY <1>2 DEF PrincipalRow, AnyScope
<1>4. slot1' = [slot1 EXCEPT ![p] = q] BY <1>1, <1>2
<1>5. slot2' = Keys!Revoked(p) \/ (slot2' = slot2 /\ ~q.disabled) BY <1>1, <1>3
<1> QED BY <1>1, <1>3, <1>4, <1>5, RevocationSteps

\* A key is revoked, or all those of a principal.
LEMMA PrincipalSteps ==
    ASSUME AuthorityInv, NEW a \in Key, NEW k \in Key, NEW p \in Keys!Principals,
           Keys!revokeMachineKey(a, k) \/ Keys!revokePrincipalKeys(a, p)
    PROVE  AuthorityInv'
<1>g. GrantsOK(slot2, slot1) BY DEF AuthorityInv
<1>1. CASE Keys!revokeMachineKey(a, k)
    <2>1. slot2[k] # Keys!NoKey /\ slot2' = [slot2 EXCEPT ![k].revoked = TRUE] /\ UNCHANGED <<slot1, slot3, slot4>>
        BY <1>1 DEF Keys!revokeMachineKey, Keys!Issued
    <2>2. PICK ks, ps, R : ks = slot2 /\ ps = slot1 /\ R = {k} OBVIOUS
    <2>3. PICK ls : ls = [j \in Key |-> IF j \in R THEN [ks[j] EXCEPT !.revoked = TRUE] ELSE ks[j]] OBVIOUS
    <2>4. slot2' = ls BY <1>g, <2>1, <2>2, <2>3 DEF GrantsOK
    <2>5. /\ ps \in [Keys!Principals -> PrincipalRow] /\ R \in SUBSET Key /\ \A j \in R : ks[j] # Keys!NoKey
          /\ \A j \in Key : ks[j] # Keys!NoKey /\ ps[ks[j].of].disabled => ks[j].revoked \/ j \in R
        BY <1>g, <2>1, <2>2 DEF GrantsOK, RowGranted
    <2>g. GrantsOK(ks, ps) BY <1>g, <2>2
    <2>6. GrantsOK(ls, ps) BY <2>3, <2>5, <2>g, KeysRevoked
    <2> QED BY <2>1, <2>2, <2>4, <2>6 DEF AuthorityInv
<1>2. CASE Keys!revokePrincipalKeys(a, p)
    <2>1. /\ slot2' = Keys!Revoked(p) /\ UNCHANGED <<slot3, slot4>>
          /\ slot1' = [slot1 EXCEPT ![p].disabled = TRUE]
        BY <1>2 DEF Keys!revokePrincipalKeys
    <2>2. slot1[p] \in PrincipalRow BY <1>g DEF GrantsOK
    <2>3. PICK q : q = [slot1[p] EXCEPT !.disabled = TRUE] OBVIOUS
    <2>4. q \in PrincipalRow BY <2>2, <2>3 DEF PrincipalRow
    <2>5. slot1' = [slot1 EXCEPT ![p] = q] BY <2>1, <2>3
    <2> QED BY <2>1, <2>4, <2>5, RevocationSteps
<1> QED BY <1>1, <1>2

\* The owner is enabled with every scope, and gets a key.
LEMMA OwnerSteps ==
    ASSUME AuthorityInv, NEW replace \in BOOLEAN, Keys!bootstrapOwnerKey(replace)
    PROVE  AuthorityInv'
<1>1. PICK ks, ps : ks = slot2 /\ ps = slot1 OBVIOUS
<1>2. GrantsOK(ks, ps) /\ Keys!Free # {} BY <1>1 DEF AuthorityInv, Keys!bootstrapOwnerKey
<1>3. PICK k \in Key : k = Keys!NewKey /\ ks[k] = Keys!NoKey BY <1>1, <1>2, NewKeyIsFree
<1>4. "owner" \in Keys!Principals /\ "owner" # "none" BY DEF Keys!Principals
<1>5. PICK q : q = [scopes |-> {"admin"}, disabled |-> FALSE] OBVIOUS
<1>6. q \in PrincipalRow /\ q.disabled = FALSE
    <2>1. {"admin"} \in SUBSET AnyScope BY Zenon DEF AnyScope
    <2> QED BY <1>5, <2>1 DEF PrincipalRow
<1>7. PICK qs : qs = [ps EXCEPT !["owner"] = q] OBVIOUS
<1>8. PICK R : R = IF replace THEN {j \in Key : ks[j].of = "owner"} ELSE {} OBVIOUS
<1>9. PICK ls : ls = [j \in Key |-> IF j \in R THEN [ks[j] EXCEPT !.revoked = TRUE] ELSE ks[j]] OBVIOUS
<1>10. /\ qs \in [Keys!Principals -> PrincipalRow] /\ qs["owner"] = q
       /\ \A x \in Keys!Principals : x # "owner" => qs[x] = ps[x]
    BY <1>2, <1>4, <1>6, <1>7 DEF GrantsOK
<1>11. R \in SUBSET Key /\ \A j \in R : ks[j] # Keys!NoKey BY <1>4, <1>8 DEF Keys!NoKey
<1>12. \A j \in Key : ks[j] # Keys!NoKey /\ qs[ks[j].of].disabled => ks[j].revoked \/ j \in R
    <2> SUFFICES ASSUME NEW j \in Key, ks[j] # Keys!NoKey, qs[ks[j].of].disabled PROVE ks[j].revoked OBVIOUS
    <2>1. ks[j].of \in Keys!Principals /\ (ps[ks[j].of].disabled => ks[j].revoked) BY <1>2 DEF GrantsOK, RowGranted
    <2>2. ks[j].of # "owner" BY <1>6, <1>10
    <2> QED BY <1>10, <2>1, <2>2
<1>13. GrantsOK(ls, qs) /\ ls[k] = Keys!NoKey BY <1>2, <1>3, <1>9, <1>10, <1>11, <1>12, KeysRevoked
<1>14. PICK row : row = [of |-> "owner", scopes |-> {"admin"}, managed |-> {}, expires |-> KeyTime + 1,
                         created |-> slot4, revoked |-> FALSE, issuer |-> 0, rooted |-> TRUE]
    OBVIOUS
<1>15. row \in KeyRow
    <2>1. {"admin"} \in SUBSET AnyScope BY Zenon DEF AnyScope
    <2> QED BY <1>4, <1>14, <2>1, KeyBounds DEF KeyRow, AuthorityInv
<1>16. RowGranted(row, ls, qs) BY <1>4, <1>6, <1>10, <1>14 DEF RowGranted
<1>17. GrantsOK([ls EXCEPT ![k] = row], qs) BY <1>3, <1>13, <1>15, <1>16, KeyInserted
<1>18. slot1' = qs /\ slot2' = [ls EXCEPT ![k] = row] /\ UNCHANGED <<slot3, slot4>>
    <2>1. slot1' = qs /\ UNCHANGED <<slot3, slot4>> BY <1>1, <1>5, <1>7 DEF Keys!bootstrapOwnerKey
    <2>2. (IF replace THEN Keys!Revoked("owner") ELSE slot2) = ls
        <3>1. CASE replace BY <1>1, <1>8, <1>9, <3>1 DEF Keys!Revoked
        <3>2. CASE ~replace BY <1>1, <1>2, <1>8, <1>9, <3>2 DEF GrantsOK
        <3> QED BY <3>1, <3>2
    <2>3. slot2' = [(IF replace THEN Keys!Revoked("owner") ELSE slot2) EXCEPT ![k] = row]
        BY <1>3, <1>14 DEF Keys!bootstrapOwnerKey
    <2> QED BY <2>1, <2>2, <2>3
<1> QED BY <1>17, <1>18 DEF AuthorityInv

\* At first no key is issued, and nobody is disabled.
LEMMA AuthorityInitial ==
    ASSUME Keys!AuthorityInit
    PROVE  AuthorityInv
<1>1. Keys!NoKey \in KeyRow BY DEF Keys!NoKey, KeyRow
<1>2. slot2 \in [Key -> KeyRow] /\ \A k \in Key : slot2[k] = Keys!NoKey BY <1>1 DEF Keys!AuthorityInit
<1>3. \A p \in Keys!Principals : (IF p = "owner" THEN {} ELSE Configured[p]) \in SUBSET AnyScope
    BY DEF AnyScope, Keys!Principals
<1>4. slot1 \in [Keys!Principals -> PrincipalRow] BY <1>3 DEF Keys!AuthorityInit, PrincipalRow
<1> QED BY <1>2, <1>4 DEF AuthorityInv, GrantsOK, Keys!AuthorityInit

\* Every step keeps the invariant.
LEMMA AuthoritySteps ==
    ASSUME AuthorityInv, Keys!AuthorityNext
    PROVE  AuthorityInv'
<1>1. CASE Keys!issueMachineKey \/ Keys!bootstrapLocalRecoveryKey BY <1>1, IssueSteps
<1>2. CASE Keys!Tick BY <1>2 DEF Keys!Tick, AuthorityInv
<1>3. CASE \E replace \in BOOLEAN : Keys!bootstrapOwnerKey(replace) BY <1>3, OwnerSteps
<1>4. CASE \E k \in Key : Keys!issuePrincipalKey(k) \/ Keys!rotatePrincipalKey(k) BY <1>4, AskSteps
<1>5. CASE \E a, k \in Key : Keys!revokeMachineKey(a, k)
    <2>1. "owner" \in Keys!Principals BY DEF Keys!Principals
    <2> QED BY <1>5, <2>1, PrincipalSteps
<1>6. CASE \E a \in Key, p \in Keys!Principals : Keys!revokePrincipalKeys(a, p) \/ Keys!updateManagedPrincipal(a, p)
    BY <1>6, PrincipalSteps, ChangeSteps
<1>7. CASE \E p \in Principal : Keys!applyConfiguredPrincipal(p)
    <2>1. Principal \subseteq Keys!Principals BY DEF Keys!Principals
    <2> QED BY <1>7, <2>1, ChangeSteps
<1> QED BY <1>1, <1>2, <1>3, <1>4, <1>5, <1>6, <1>7 DEF Keys!AuthorityNext

--------------------------------------------------------------------------------
(* The control channel.  slot1 is the kind of workspace, slot2 its row,    *)
(* slot3 the socket the hub has, slot4 the sockets and their handlers,     *)
(* slot5 and slot6 the frames on their way to the server and to the        *)
(* supervisor, slot7 the supervisor.  A lemma XKeeps says that step X      *)
(* keeps ChannelInv; the ones before them say what a step that moves one   *)
(* handler, none, or the supervisor has to show for that.                  *)

\* There is a socket, the first, and 0 stands for none.
LEMMA OneIsASocket == 1 \in Channel!Sockets /\ 0 \notin Channel!Sockets
BY ChannelBound DEF Channel!Sockets

\* A frame that is sent, taken or lost leaves a queue of frames of the same kind.
LEMMA FramesSent ==
    ASSUME NEW S, NEW q \in [Channel!Sockets -> Seq(S)], NEW c \in Channel!Sockets \cup {0}, NEW f \in S
    PROVE  Channel!Sends(q, c, <<f>>) \in [Channel!Sockets -> Seq(S)]
<1>1. CASE c = 0 BY <1>1 DEF Channel!Sends
<1>2. CASE c # 0
    <2>1. q[c] \o <<f>> \in Seq(S) BY <1>2
    <2> QED BY <1>2, <2>1 DEF Channel!Sends
<1> QED BY <1>1, <1>2

\* A frame is taken from the head of a queue.
LEMMA FrameTaken ==
    ASSUME NEW S, NEW q \in [Channel!Sockets -> Seq(S)], NEW c \in Channel!Sockets, q[c] # <<>>
    PROVE  [q EXCEPT ![c] = Tail(@)] \in [Channel!Sockets -> Seq(S)] /\ Head(q[c]) \in S
<1>1. Tail(q[c]) \in Seq(S) /\ Head(q[c]) \in S OBVIOUS
<1> QED BY <1>1

\* A socket that drops loses the frames that have not arrived.
LEMMA FramesLost ==
    ASSUME NEW S, NEW q \in [Channel!Sockets -> Seq(S)], NEW c \in Channel!Sockets, NEW n \in {0, Len(q[c])}
    PROVE  [q EXCEPT ![c] = SubSeq(@, 1, n)] \in [Channel!Sockets -> Seq(S)]
<1>1. SubSeq(q[c], 1, n) \in Seq(S) OBVIOUS
<1> QED BY <1>1

\* What was allowed to be sent stays allowed.
LEMMA FramesStay ==
    ASSUME NEW S, NEW T, S \subseteq T, NEW q \in [Channel!Sockets -> Seq(S)]
    PROVE  q \in [Channel!Sockets -> Seq(T)]
<1>1. ASSUME NEW s \in Seq(S) PROVE s \in Seq(T) BY <1>1
<1> QED BY <1>1

\* What the facts of a socket depend on.
Kept(k, l) == l.pc = k.pc /\ l.mode = k.mode /\ l.harness = k.harness /\ l.installed = k.installed /\ l.job = k.job

\* What most steps leave alone: the supervisor's reports, and its first move; what the row says of the workload.
SupKept ==
    /\ slot7' \in Channel!Supervisor /\ slot7'.started = slot7.started /\ slot7'.installed = slot7.installed
    /\ slot7'.credential = slot7.credential /\ slot7'.socket = slot7.socket /\ slot7'.step \in {slot7.step, "gone"}
RowKept ==
    /\ slot2' \in Channel!Row /\ slot2'.lease \in {slot2.lease, "revoked"} /\ (slot2'.prepared => slot7.started)
    /\ slot2'.state = "ready" => slot2.state = "ready" \/ (slot7.started /\ (slot1.restore => slot7.installed))

\* The facts that the steps below start from.
LEMMA ChannelFacts ==
    ASSUME Channel!ChannelInv
    PROVE  /\ slot1 \in Channel!Kinds /\ slot2 \in Channel!Row /\ slot3 \in Channel!Sockets \cup {0} /\ slot4 \in [Channel!Sockets -> Channel!Conn] /\ slot7 \in Channel!Supervisor
           /\ slot2.prepared => slot7.started
           /\ slot5 \in [Channel!Sockets -> Seq(Channel!BackedFrames)] /\ slot6 \in [Channel!Sockets -> Seq(Channel!ToldFrames)]
           /\ \A c \in Channel!Sockets : slot4[c] \in Channel!Conn /\ Channel!SocketFacts(c, slot4[c]) /\ (slot4[c].waits # {} => slot3 = c)
BY DEF Channel!ChannelInv, Channel!Shapes, Channel!Evidence, Channel!Authority, Channel!WaitersEnd

\* A step that keeps the supervisor's reports true keeps the invariant when it keeps the parts.
LEMMA ChannelStep ==
    ASSUME Channel!ChannelInv, slot1' = slot1, SupKept, RowKept, slot3' \in Channel!Sockets \cup {0}, Channel!WaitersEnd',
           slot4' \in [Channel!Sockets -> Channel!Conn], \A c \in Channel!Sockets : Channel!SocketFacts(c, slot4'[c]),
           slot4'[1].pc \in Channel!Early =>
               /\ slot4[1].pc \in Channel!Early /\ slot3' = slot3
               /\ \A c \in Channel!Sockets : (slot6[c] = <<>> => slot6'[c] = <<>>) /\ (c # 1 => slot4'[c].pc = slot4[c].pc),
           slot4[1].pc = "none" => slot4'[1].pc = "none",
           slot5' \in [Channel!Sockets -> Seq(Channel!BackedFrames)], slot6' \in [Channel!Sockets -> Seq(Channel!ToldFrames)]
    PROVE  Channel!ChannelInv'
<1>1. Channel!BackedFrames' = Channel!BackedFrames BY DEF Channel!BackedFrames, SupKept
<1>2. Channel!ToldFrames \subseteq Channel!ToldFrames' BY DEF Channel!ToldFrames, RowKept
<1>3. Channel!Shapes' BY DEF Channel!ChannelInv, Channel!Shapes, SupKept, RowKept
<1>4. Channel!Opening' BY DEF Channel!ChannelInv, Channel!Opening, SupKept
<1>5. Channel!Evidence'
    <2>1. ASSUME NEW c \in Channel!Sockets PROVE Channel!SocketFacts(c, slot4[c])'
        <3>1. Channel!SocketFacts(c, slot4'[c]) OBVIOUS
        <3> QED BY <1>1, <3>1 DEF Channel!SocketFacts, SupKept
    <2> QED BY <1>1, <2>1 DEF Channel!ChannelInv, Channel!Evidence, SupKept, RowKept
<1>6. Channel!Authority'
    <2>1. slot6' \in [Channel!Sockets -> Seq(Channel!ToldFrames')] BY <1>2, FramesStay
    <2> QED BY <2>1 DEF Channel!ChannelInv, Channel!Authority, SupKept, RowKept
<1> QED BY <1>3, <1>4, <1>5, <1>6 DEF Channel!ChannelInv

\* A socket that keeps what its facts depend on.
LEMMA SocketKept ==
    ASSUME NEW c \in Channel!Sockets, NEW k, NEW l, Channel!SocketFacts(c, k), Kept(k, l)
    PROVE  Channel!SocketFacts(c, l)
BY DEF Channel!SocketFacts, Kept

\* Once a socket is past its registration's lease, the first one is.
LEMMA PastOpening ==
    ASSUME Channel!ChannelInv, NEW c \in Channel!Sockets, slot4[c].pc \notin Channel!Early
    PROVE  slot4[1].pc \notin Channel!Early
BY DEF Channel!ChannelInv, Channel!Opening, Channel!Early

\* A step of the server with socket c, which is past its registration's lease.
LEMMA WorkingStep ==
    ASSUME Channel!ChannelInv, slot1' = slot1, SupKept, RowKept, slot3' \in Channel!Sockets \cup {0}, Channel!WaitersEnd',
           slot4' \in [Channel!Sockets -> Channel!Conn],
           NEW c \in Channel!Sockets, slot4[c].pc \notin Channel!Early, slot4'[c].pc \notin Channel!Early, Channel!SocketFacts(c, slot4'[c]),
           \A d \in Channel!Sockets : d # c => Kept(slot4[d], slot4'[d]),
           slot5' \in [Channel!Sockets -> Seq(Channel!BackedFrames)], slot6' \in [Channel!Sockets -> Seq(Channel!ToldFrames)]
    PROVE  Channel!ChannelInv'
<1>1. slot4[1].pc \notin Channel!Early BY PastOpening
<1>2. slot4'[1].pc \notin Channel!Early BY <1>1, OneIsASocket DEF Kept
<1>3. ASSUME NEW d \in Channel!Sockets PROVE Channel!SocketFacts(d, slot4'[d])
    <2>1. Channel!SocketFacts(d, slot4[d]) BY ChannelFacts
    <2> QED BY <2>1, SocketKept
<1>4. slot4[1].pc # "none" BY <1>1 DEF Channel!Early
<1> QED BY <1>2, <1>3, <1>4, ChannelStep

\* A step at which no handler moves.
LEMMA StillStep ==
    ASSUME Channel!ChannelInv, slot1' = slot1, SupKept, RowKept, slot3' \in Channel!Sockets \cup {0}, Channel!WaitersEnd',
           slot4' \in [Channel!Sockets -> Channel!Conn],
           \A d \in Channel!Sockets : slot4'[d].pc = slot4[d].pc /\ Channel!SocketFacts(d, slot4'[d]),
           slot3 = 0 => slot3' = 0 /\ \A d \in Channel!Sockets : slot6[d] = <<>> => slot6'[d] = <<>>,
           slot5' \in [Channel!Sockets -> Seq(Channel!BackedFrames)], slot6' \in [Channel!Sockets -> Seq(Channel!ToldFrames)]
    PROVE  Channel!ChannelInv'
<1>1. slot4[1].pc \in Channel!Early => slot3 = 0 BY DEF Channel!ChannelInv, Channel!Opening
<1>2. slot4'[1].pc = slot4[1].pc BY OneIsASocket
<1> QED BY <1>1, <1>2, ChannelStep

\* closeProtocol forgets a socket but for its waiters.
LEMMA Refusal ==
    ASSUME NEW f \in [Channel!Sockets -> Channel!Conn], NEW c \in Channel!Sockets
    PROVE  /\ Channel!Refused(f, c) \in [Channel!Sockets -> Channel!Conn] /\ \A d \in Channel!Sockets : d # c => Channel!Refused(f, c)[d] = f[d]
           /\ Channel!Refused(f, c)[c].pc = "refused" /\ Channel!Refused(f, c)[c].waits = f[c].waits /\ Channel!SocketFacts(c, Channel!Refused(f, c)[c])
<1> DEFINE k == [Channel!NewSocket EXCEPT !.pc = "refused", !.seen = TRUE, !.registered = f[c].registered, !.waits = f[c].waits]
<1>1. k \in Channel!Conn
    BY DEF Channel!Conn, Channel!Pcs, Channel!NewSocket, Channel!NoJob, Channel!Job, Channel!SupFrames
<1>2. /\ k.pc = "refused" /\ k.mode = "none" /\ k.waits = f[c].waits /\ k.job.frame = "none"
      /\ k.harness = FALSE /\ k.installed = FALSE
    BY DEF Channel!NewSocket, Channel!NoJob
<1>3. Channel!SocketFacts(c, k)
    <2>1. "none" \in Channel!BackedFrames BY DEF Channel!BackedFrames, Channel!Work
    <2> QED BY <1>2, <2>1 DEF Channel!SocketFacts
<1>4. Channel!Refused(f, c) = [f EXCEPT ![c] = k] BY DEF Channel!Refused
<1> HIDE DEF k
<1> QED BY <1>1, <1>2, <1>3, <1>4

\* A handler goes on to its next step, of which nothing more is known.
LEMMA GoesOn ==
    ASSUME Channel!ChannelInv, NEW c \in Channel!Sockets, NEW pc \in {"open", "commit", "attach", "grant", "up", "revoked"},
           pc = "open" => slot4[c].mode \in {"register", "reconnect"}, Channel!Goto(c, pc)
    PROVE  /\ slot4' \in [Channel!Sockets -> Channel!Conn] /\ \A d \in Channel!Sockets : d # c => slot4'[d] = slot4[d]
           /\ slot4'[c].pc = pc /\ slot4'[c].waits = slot4[c].waits /\ Channel!SocketFacts(c, slot4'[c])
<1> DEFINE k == [slot4[c] EXCEPT !.pc = pc]
<1>0. slot4 \in [Channel!Sockets -> Channel!Conn] /\ slot4[c] \in Channel!Conn /\ Channel!SocketFacts(c, slot4[c])
    BY ChannelFacts
<1>1. k \in Channel!Conn BY <1>0 DEF Channel!Conn, Channel!Pcs
<1>2. /\ k.pc = pc /\ k.mode = slot4[c].mode /\ k.waits = slot4[c].waits /\ k.job = slot4[c].job
      /\ k.harness = slot4[c].harness /\ k.installed = slot4[c].installed
    BY <1>0 DEF Channel!Conn
<1>3. Channel!SocketFacts(c, k) BY <1>0, <1>2 DEF Channel!SocketFacts
<1>4. slot4' = [slot4 EXCEPT ![c] = k] BY <1>0 DEF Channel!Goto
<1> HIDE DEF k
<1> QED BY <1>0, <1>1, <1>2, <1>3, <1>4

\* A handler that is done waits for the next frame.
LEMMA HandlerDone ==
    ASSUME Channel!ChannelInv, NEW c \in Channel!Sockets, Channel!Done(c)
    PROVE  /\ slot4' \in [Channel!Sockets -> Channel!Conn] /\ \A d \in Channel!Sockets : d # c => slot4'[d] = slot4[d]
           /\ slot4'[c].pc = "up" /\ slot4'[c].waits = slot4[c].waits /\ Channel!SocketFacts(c, slot4'[c])
<1> DEFINE k == [slot4[c] EXCEPT !.pc = "up", !.job = Channel!NoJob]
<1>0. slot4 \in [Channel!Sockets -> Channel!Conn] /\ slot4[c] \in Channel!Conn /\ Channel!SocketFacts(c, slot4[c])
    BY ChannelFacts
<1>1. k \in Channel!Conn
    <2>1. Channel!NoJob \in Channel!Job BY DEF Channel!NoJob, Channel!Job
    <2> QED BY <1>0, <2>1 DEF Channel!Conn, Channel!Pcs
<1>2. /\ k.pc = "up" /\ k.mode = slot4[c].mode /\ k.waits = slot4[c].waits /\ k.job.frame = "none"
      /\ k.harness = slot4[c].harness /\ k.installed = slot4[c].installed
    BY <1>0 DEF Channel!Conn, Channel!NoJob
<1>3. Channel!SocketFacts(c, k)
    <2>1. "none" \in Channel!BackedFrames BY DEF Channel!BackedFrames, Channel!Work
    <2> QED BY <1>0, <1>2, <2>1 DEF Channel!SocketFacts
<1>4. slot4' = [slot4 EXCEPT ![c] = k] BY <1>0 DEF Channel!Done
<1> HIDE DEF k
<1> QED BY <1>0, <1>1, <1>2, <1>3, <1>4

\* A handler that has read r goes on to maybeMarkReady.
LEMMA HandlerChecks ==
    ASSUME Channel!ChannelInv, NEW c \in Channel!Sockets, NEW r \in Channel!Row, Channel!Check(c, r), slot4[c].pc = "work", r.prepared => slot7.started,
           slot4[c].job.frame \in Channel!Work \/ (slot4[c].job.frame = "network" /\ slot1.waiting)
    PROVE  /\ slot4' \in [Channel!Sockets -> Channel!Conn] /\ \A d \in Channel!Sockets : d # c => slot4'[d] = slot4[d]
           /\ slot4'[c].pc = "check" /\ slot4'[c].waits = slot4[c].waits /\ Channel!SocketFacts(c, slot4'[c])
<1> DEFINE j == [frame |-> slot4[c].job.frame, row |-> r]
           k == [slot4[c] EXCEPT !.pc = "check", !.job = j]
<1>0. slot4 \in [Channel!Sockets -> Channel!Conn] /\ slot4[c] \in Channel!Conn /\ Channel!SocketFacts(c, slot4[c])
    BY ChannelFacts
<1>1. k \in Channel!Conn
    <2>1. slot4[c].job \in Channel!Job BY <1>0 DEF Channel!Conn
    <2>2. j \in Channel!Job BY <2>1 DEF Channel!Job
    <2> HIDE DEF j
    <2> QED BY <1>0, <2>2 DEF Channel!Conn, Channel!Pcs
<1>2. /\ k.pc = "check" /\ k.mode = slot4[c].mode /\ k.waits = slot4[c].waits /\ k.job = j
      /\ k.harness = slot4[c].harness /\ k.installed = slot4[c].installed
    BY <1>0 DEF Channel!Conn
<1>3. j.frame = slot4[c].job.frame /\ j.row = r OBVIOUS
<1>4. slot4' = [slot4 EXCEPT ![c] = k] BY <1>0 DEF Channel!Check
<1> HIDE DEF j, k
<1>5. Channel!SocketFacts(c, k) BY <1>0, <1>2, <1>3 DEF Channel!SocketFacts
<1> QED BY <1>0, <1>1, <1>2, <1>4, <1>5

\* finalize ends the row and the supervisor.
LEMMA FinalizeKeeps ==
    ASSUME Channel!ChannelInv, Channel!finalize
    PROVE  SupKept /\ RowKept
<1>1. slot2 \in Channel!Row /\ slot7 \in Channel!Supervisor /\ (slot2.prepared => slot7.started) BY ChannelFacts
<1>2. slot2' \in {slot2, [slot2 EXCEPT !.state = "ended"]} /\ slot7' \in {slot7, [slot7 EXCEPT !.step = "gone"]}
    BY DEF Channel!finalize
<1>3. RowKept BY <1>1, <1>2 DEF RowKept, Channel!Row
<1>4. SupKept BY <1>1, <1>2 DEF SupKept, Channel!Supervisor, Channel!Steps
<1> QED BY <1>3, <1>4

\* What stays the same is kept.
LEMMA SameIsKept ==
    ASSUME Channel!ChannelInv
    PROVE  (slot7' = slot7 => SupKept) /\ (slot2' = slot2 => RowKept)
<1>1. slot2 \in Channel!Row /\ slot7 \in Channel!Supervisor /\ (slot2.prepared => slot7.started) BY ChannelFacts
<1>2. slot7' = slot7 => SupKept BY <1>1 DEF SupKept
<1>3. slot2' = slot2 => RowKept BY <1>1 DEF RowKept
<1> QED BY <1>2, <1>3

\* beginTermination tells the connection of the hub, if there is one.
LEMMA TerminationKeeps ==
    ASSUME Channel!ChannelInv, Channel!beginTermination
    PROVE  RowKept /\ slot6' \in [Channel!Sockets -> Seq(Channel!ToldFrames)] /\ (slot3 = 0 => slot6' = slot6)
<1>1. /\ slot2 \in Channel!Row /\ (slot2.prepared => slot7.started) /\ slot3 \in Channel!Sockets \cup {0}
      /\ slot6 \in [Channel!Sockets -> Seq(Channel!ToldFrames)]
    BY ChannelFacts
<1>2. slot2' \in {slot2, [slot2 EXCEPT !.state = "terminating"]} BY DEF Channel!beginTermination
<1>3. RowKept BY <1>1, <1>2 DEF RowKept, Channel!Row
<1>4. slot6' = slot6 \/ (slot3 # 0 /\ slot6' = Channel!Sends(slot6, slot3, <<"shutdown">>))
    BY DEF Channel!beginTermination
<1>5. "shutdown" \in Channel!ToldFrames BY DEF Channel!ToldFrames, Channel!HubFrames
<1>6. Channel!Sends(slot6, slot3, <<"shutdown">>) \in [Channel!Sockets -> Seq(Channel!ToldFrames)]
    BY <1>1, <1>5, FramesSent
<1> QED BY <1>1, <1>3, <1>4, <1>6

\* hub.close and the half of attach that closes the connection before: nobody waits any more.
HubClosed == IF slot3 = 0 THEN slot4 ELSE [Channel!dropPending(slot4, slot3) EXCEPT ![slot3].live = FALSE]

\* Its sockets keep what their facts depend on, and have no waiters left.
LEMMA ClosingKeeps ==
    ASSUME Channel!ChannelInv
    PROVE  /\ HubClosed \in [Channel!Sockets -> Channel!Conn]
           /\ \A d \in Channel!Sockets : HubClosed[d].waits = {} /\ Kept(slot4[d], HubClosed[d])
<1>1. /\ slot3 \in Channel!Sockets \cup {0} /\ slot4 \in [Channel!Sockets -> Channel!Conn]
      /\ \A d \in Channel!Sockets : slot4[d] \in Channel!Conn /\ (slot4[d].waits # {} => slot3 = d)
    BY ChannelFacts
<1>2. CASE slot3 = 0 BY <1>1, <1>2, OneIsASocket DEF HubClosed, Kept
<1>3. CASE slot3 # 0
    <2> DEFINE k == [slot4[slot3] EXCEPT !.waits = {}, !.live = FALSE]
    <2>1. slot3 \in Channel!Sockets /\ slot4[slot3] \in Channel!Conn BY <1>1, <1>3
    <2>2. k \in Channel!Conn /\ k.waits = {} /\ Kept(slot4[slot3], k) BY <2>1 DEF Channel!Conn, Kept
    <2>3. HubClosed = [slot4 EXCEPT ![slot3] = k] BY <1>1, <1>3, <2>1 DEF HubClosed, Channel!dropPending
    <2>4. \A d \in Channel!Sockets : d # slot3 => slot4[d].waits = {} BY <1>1
    <2> HIDE DEF k
    <2> QED BY <1>1, <2>1, <2>2, <2>3, <2>4 DEF Kept
<1> QED BY <1>2, <1>3

\* hub.detach: the connection of the hub leaves it, and nobody waits for it any more.
LEMMA DetachKeeps ==
    ASSUME Channel!ChannelInv, NEW c \in Channel!Sockets
    PROVE  /\ Channel!detach(slot4, c) \in [Channel!Sockets -> Channel!Conn] /\ Channel!detached(c) \in Channel!Sockets \cup {0}
           /\ \A d \in Channel!Sockets : Kept(slot4[d], Channel!detach(slot4, c)[d]) /\ (Channel!detach(slot4, c)[d].waits # {} => Channel!detached(c) = d)
<1>1. /\ slot3 \in Channel!Sockets \cup {0} /\ slot4 \in [Channel!Sockets -> Channel!Conn]
      /\ \A d \in Channel!Sockets : slot4[d] \in Channel!Conn /\ (slot4[d].waits # {} => slot3 = d)
    BY ChannelFacts
<1>2. CASE slot3 # c BY <1>1, <1>2 DEF Channel!detach, Channel!detached, Kept
<1>3. CASE slot3 = c
    <2> DEFINE k == [slot4[c] EXCEPT !.waits = {}]
    <2>1. k \in Channel!Conn /\ k.waits = {} /\ Kept(slot4[c], k) BY <1>1 DEF Channel!Conn, Kept
    <2>2. Channel!detach(slot4, c) = [slot4 EXCEPT ![c] = k]
        BY <1>1, <1>3, OneIsASocket DEF Channel!detach, Channel!dropPending
    <2>3. \A d \in Channel!Sockets : d # c => slot4[d].waits = {} BY <1>1, <1>3
    <2>4. Channel!detached(c) = 0 BY <1>3 DEF Channel!detached
    <2> HIDE DEF k
    <2> QED BY <1>1, <2>1, <2>2, <2>3, <2>4 DEF Kept
<1> QED BY <1>2, <1>3

\* The finalizers' steps, the loss of a socket, and the timer of a request: no handler moves.
LEMMA CloseHubKeeps ==
    ASSUME Channel!ChannelInv, Channel!CloseHub
    PROVE  Channel!ChannelInv'
<1>1. slot4' = HubClosed /\ slot3' = 0 /\ UNCHANGED <<slot1, slot2, slot5, slot6, slot7>>
    BY DEF Channel!CloseHub, HubClosed
<1>2. SupKept /\ RowKept BY <1>1, SameIsKept
<1>3. ASSUME NEW d \in Channel!Sockets PROVE slot4'[d].pc = slot4[d].pc /\ Channel!SocketFacts(d, slot4'[d])
    <2>1. Channel!SocketFacts(d, slot4[d]) /\ Kept(slot4[d], slot4'[d]) BY <1>1, ChannelFacts, ClosingKeeps
    <2> QED BY <2>1, SocketKept DEF Kept
<1>4. Channel!WaitersEnd' BY <1>1, ClosingKeeps DEF Channel!WaitersEnd
<1>5. slot4' \in [Channel!Sockets -> Channel!Conn] BY <1>1, ClosingKeeps
<1>6. slot5' \in [Channel!Sockets -> Seq(Channel!BackedFrames)] /\ slot6' \in [Channel!Sockets -> Seq(Channel!ToldFrames)]
    BY <1>1, ChannelFacts
<1> QED BY <1>1, <1>2, <1>3, <1>4, <1>5, <1>6, StillStep

\* A caller, the deadline, the idle sweep or a lost provider ends the workspace.
LEMMA TerminateKeeps ==
    ASSUME Channel!ChannelInv, Channel!Terminate \/ Channel!Finalize
    PROVE  Channel!ChannelInv'
<1>1. UNCHANGED <<slot1, slot3, slot4, slot5>> BY DEF Channel!Terminate, Channel!Finalize
<1>2. SupKept /\ RowKept BY FinalizeKeeps, TerminationKeeps, SameIsKept DEF Channel!Terminate, Channel!Finalize
<1>3. slot6' \in [Channel!Sockets -> Seq(Channel!ToldFrames)] /\ (slot3 = 0 => slot6' = slot6)
    BY ChannelFacts, TerminationKeeps DEF Channel!Terminate, Channel!Finalize
<1>4. Channel!WaitersEnd' BY <1>1 DEF Channel!ChannelInv, Channel!WaitersEnd
<1>5. /\ slot3' \in Channel!Sockets \cup {0} /\ slot4' \in [Channel!Sockets -> Channel!Conn] /\ slot5' \in [Channel!Sockets -> Seq(Channel!BackedFrames)]
      /\ \A d \in Channel!Sockets : slot4'[d].pc = slot4[d].pc /\ Channel!SocketFacts(d, slot4'[d])
    BY <1>1, ChannelFacts
<1> QED BY <1>1, <1>2, <1>3, <1>4, <1>5, StillStep

\* A socket that is replaced by one that keeps what its facts and its waiters depend on.
LEMMA SocketReplaced ==
    ASSUME NEW c \in Channel!Sockets, slot4 \in [Channel!Sockets -> Channel!Conn], NEW k \in Channel!Conn,
           slot4' = [slot4 EXCEPT ![c] = k], Kept(slot4[c], k), k.waits = slot4[c].waits
    PROVE  /\ slot4' \in [Channel!Sockets -> Channel!Conn]
           /\ \A d \in Channel!Sockets : Kept(slot4[d], slot4'[d]) /\ slot4'[d].waits = slot4[d].waits
<1>1. slot4' \in [Channel!Sockets -> Channel!Conn] /\ slot4'[c] = k /\ \A d \in Channel!Sockets : d # c => slot4'[d] = slot4[d]
    OBVIOUS
<1> QED BY <1>1 DEF Kept

\* The network drops a socket.
LEMMA LoseKeeps ==
    ASSUME Channel!ChannelInv, NEW c \in Channel!Sockets, Channel!Lose(c)
    PROVE  Channel!ChannelInv'
<1>1. UNCHANGED <<slot1, slot2, slot3, slot7>> /\ slot4' = [slot4 EXCEPT ![c].live = FALSE] BY DEF Channel!Lose
<1>2. SupKept /\ RowKept BY <1>1, SameIsKept
<1>3. /\ slot4 \in [Channel!Sockets -> Channel!Conn] /\ slot5 \in [Channel!Sockets -> Seq(Channel!BackedFrames)] /\ slot6 \in [Channel!Sockets -> Seq(Channel!ToldFrames)]
      /\ slot3 \in Channel!Sockets \cup {0} /\ \A d \in Channel!Sockets : slot4[d] \in Channel!Conn /\ (slot4[d].waits # {} => slot3 = d)
    BY ChannelFacts
<1>4. slot5' \in [Channel!Sockets -> Seq(Channel!BackedFrames)] BY <1>3, FramesLost DEF Channel!Lose
<1>5. PICK n \in {0, Len(slot6[c])} : slot6' = [slot6 EXCEPT ![c] = SubSeq(@, 1, n)] BY DEF Channel!Lose
<1>6. slot6' \in [Channel!Sockets -> Seq(Channel!ToldFrames)] BY <1>3, <1>5, FramesLost
<1>7. \A d \in Channel!Sockets : slot6[d] = <<>> => slot6'[d] = <<>> BY <1>3, <1>5
<1>8. slot4' \in [Channel!Sockets -> Channel!Conn] /\ \A d \in Channel!Sockets : Kept(slot4[d], slot4'[d]) /\ slot4'[d].waits = slot4[d].waits
    <2> DEFINE k == [slot4[c] EXCEPT !.live = FALSE]
    <2>1. k \in Channel!Conn /\ Kept(slot4[c], k) /\ k.waits = slot4[c].waits BY <1>3 DEF Channel!Conn, Kept
    <2>2. slot4' = [slot4 EXCEPT ![c] = k] BY <1>1
    <2> HIDE DEF k
    <2> QED BY <1>3, <2>1, <2>2, SocketReplaced
<1>9. ASSUME NEW d \in Channel!Sockets PROVE slot4'[d].pc = slot4[d].pc /\ Channel!SocketFacts(d, slot4'[d])
    <2>1. Channel!SocketFacts(d, slot4[d]) BY ChannelFacts
    <2> QED BY <1>8, <2>1, SocketKept DEF Kept
<1>10. Channel!WaitersEnd' BY <1>1, <1>3, <1>8 DEF Channel!WaitersEnd
<1> QED BY <1>1, <1>2, <1>3, <1>4, <1>6, <1>7, <1>8, <1>9, <1>10, StillStep

\* The timer of a request answers its caller; no other waiter is touched.
LEMMA RequestTimeoutKeeps ==
    ASSUME Channel!ChannelInv, NEW c \in Channel!Sockets, Channel!RequestTimeout(c)
    PROVE  Channel!ChannelInv'
<1>1. PICK w \in slot4[c].waits : slot4' = [slot4 EXCEPT ![c].waits = @ \ {w}] BY DEF Channel!RequestTimeout
<1>2. UNCHANGED <<slot1, slot2, slot3, slot5, slot6, slot7>> BY DEF Channel!RequestTimeout
<1>3. SupKept /\ RowKept BY <1>2, SameIsKept
<1>4. /\ slot4 \in [Channel!Sockets -> Channel!Conn] /\ slot5 \in [Channel!Sockets -> Seq(Channel!BackedFrames)] /\ slot6 \in [Channel!Sockets -> Seq(Channel!ToldFrames)]
      /\ slot3 \in Channel!Sockets \cup {0} /\ \A d \in Channel!Sockets : slot4[d] \in Channel!Conn /\ (slot4[d].waits # {} => slot3 = d)
    BY ChannelFacts
<1>5. /\ slot4' \in [Channel!Sockets -> Channel!Conn]
      /\ \A d \in Channel!Sockets : Kept(slot4[d], slot4'[d]) /\ slot4'[d].waits \subseteq slot4[d].waits
    <2> DEFINE k == [slot4[c] EXCEPT !.waits = @ \ {w}]
    <2>1. k \in Channel!Conn /\ Kept(slot4[c], k) /\ k.waits \subseteq slot4[c].waits BY <1>4 DEF Channel!Conn, Kept
    <2>2. slot4' = [slot4 EXCEPT ![c] = k] BY <1>1, <1>4
    <2> HIDE DEF k
    <2> QED BY <1>4, <2>1, <2>2 DEF Kept
<1>6. ASSUME NEW d \in Channel!Sockets PROVE slot4'[d].pc = slot4[d].pc /\ Channel!SocketFacts(d, slot4'[d])
    <2>1. Channel!SocketFacts(d, slot4[d]) BY ChannelFacts
    <2> QED BY <1>5, <2>1, SocketKept DEF Kept
<1>7. Channel!WaitersEnd' BY <1>2, <1>4, <1>5 DEF Channel!WaitersEnd
<1> QED BY <1>2, <1>3, <1>4, <1>5, <1>6, <1>7, StillStep

\* The supervisor is told that its socket has gone, or goes itself.
LEMMA HangUpKeeps ==
    ASSUME Channel!ChannelInv, Channel!Closed \/ Channel!HangUp
    PROVE  Channel!ChannelInv'
<1>1. UNCHANGED <<slot1, slot2, slot3, slot5>> /\ slot7.socket # 0
    BY DEF Channel!Closed, Channel!HangUp, Channel!Connected
<1>2. /\ slot4 \in [Channel!Sockets -> Channel!Conn] /\ slot5 \in [Channel!Sockets -> Seq(Channel!BackedFrames)] /\ slot6 \in [Channel!Sockets -> Seq(Channel!ToldFrames)]
      /\ slot3 \in Channel!Sockets \cup {0} /\ slot7 \in Channel!Supervisor
      /\ \A d \in Channel!Sockets : slot4[d] \in Channel!Conn /\ (slot4[d].waits # {} => slot3 = d)
    BY ChannelFacts
<1>3. slot7.socket \in Channel!Sockets BY <1>1, <1>2 DEF Channel!Supervisor
<1>4. RowKept BY <1>1, SameIsKept
<1>5. SupKept
    <2>1. CASE Channel!Closed BY <1>2, <2>1 DEF Channel!Closed, SupKept, Channel!Supervisor, Channel!Steps
    <2>2. CASE Channel!HangUp BY <2>2, SameIsKept DEF Channel!HangUp
    <2> QED BY <2>1, <2>2
<1>6. slot4[slot7.socket] \in Channel!Conn BY <1>2, <1>3
<1>7. slot4' \in [Channel!Sockets -> Channel!Conn] /\ \A d \in Channel!Sockets : Kept(slot4[d], slot4'[d]) /\ slot4'[d].waits = slot4[d].waits
    <2> DEFINE k == IF Channel!Closed THEN [slot4[slot7.socket] EXCEPT !.told = TRUE]
                    ELSE [slot4[slot7.socket] EXCEPT !.live = FALSE, !.told = TRUE]
    <2>1. k \in Channel!Conn /\ Kept(slot4[slot7.socket], k) /\ k.waits = slot4[slot7.socket].waits
        BY <1>6 DEF Channel!Conn, Kept
    <2>2. slot4' = [slot4 EXCEPT ![slot7.socket] = k] BY <1>2 DEF Channel!Closed, Channel!HangUp
    <2> HIDE DEF k
    <2> QED BY <1>2, <1>3, <2>1, <2>2 DEF Kept
<1>8. ASSUME NEW d \in Channel!Sockets PROVE slot4'[d].pc = slot4[d].pc /\ Channel!SocketFacts(d, slot4'[d])
    <2>1. Channel!SocketFacts(d, slot4[d]) BY ChannelFacts
    <2> QED BY <1>7, <2>1, SocketKept DEF Kept
<1>9. Channel!WaitersEnd' BY <1>1, <1>2, <1>7 DEF Channel!WaitersEnd
<1>10. slot6' \in [Channel!Sockets -> Seq(Channel!ToldFrames)] /\ \A d \in Channel!Sockets : slot6[d] = <<>> => slot6'[d] = <<>>
    <2>1. CASE Channel!Closed BY <1>2, <2>1 DEF Channel!Closed
    <2>2. CASE Channel!HangUp
        <3>1. slot6' = [slot6 EXCEPT ![slot7.socket] = <<>>] BY <2>2 DEF Channel!HangUp
        <3>2. <<>> \in Seq(Channel!ToldFrames) OBVIOUS
        <3> QED BY <1>2, <1>3, <3>1, <3>2
    <2> QED BY <2>1, <2>2
<1> QED BY <1>1, <1>2, <1>4, <1>5, <1>7, <1>8, <1>9, <1>10, StillStep

\* A request waits over the connection of the hub.
LEMMA RequestKeeps ==
    ASSUME Channel!ChannelInv, NEW w \in Channel!Waits, Channel!Request(w)
    PROVE  Channel!ChannelInv'
<1>1. UNCHANGED <<slot1, slot3, slot5, slot7>> /\ slot3 # 0 BY DEF Channel!Request
<1>2. /\ slot4 \in [Channel!Sockets -> Channel!Conn] /\ slot5 \in [Channel!Sockets -> Seq(Channel!BackedFrames)] /\ slot6 \in [Channel!Sockets -> Seq(Channel!ToldFrames)]
      /\ slot3 \in Channel!Sockets \cup {0} /\ slot2 \in Channel!Row /\ (slot2.prepared => slot7.started)
      /\ \A d \in Channel!Sockets : slot4[d] \in Channel!Conn /\ (slot4[d].waits # {} => slot3 = d)
    BY ChannelFacts
<1>3. SupKept BY <1>1, SameIsKept
<1>4. RowKept
    <2>1. slot2' \in {slot2, [slot2 EXCEPT !.state = "preserving"]} BY <1>2 DEF Channel!Request, Channel!Row
    <2> QED BY <1>2, <2>1 DEF RowKept, Channel!Row, Channel!Live
<1>5. slot4' \in [Channel!Sockets -> Channel!Conn] /\ \A d \in Channel!Sockets : Kept(slot4[d], slot4'[d]) /\ (d # slot3 => slot4'[d] = slot4[d])
    <2> DEFINE k == [slot4[slot3] EXCEPT !.waits = @ \cup {w}]
    <2>1. k \in Channel!Conn /\ Kept(slot4[slot3], k) BY <1>1, <1>2 DEF Channel!Conn, Kept
    <2>2. slot4' = [slot4 EXCEPT ![slot3] = k] BY <1>1, <1>2 DEF Channel!Request
    <2> HIDE DEF k
    <2> QED BY <1>1, <1>2, <2>1, <2>2 DEF Kept
<1>6. ASSUME NEW d \in Channel!Sockets PROVE slot4'[d].pc = slot4[d].pc /\ Channel!SocketFacts(d, slot4'[d])
    <2>1. Channel!SocketFacts(d, slot4[d]) BY ChannelFacts
    <2> QED BY <1>5, <2>1, SocketKept DEF Kept
<1>7. Channel!WaitersEnd' BY <1>1, <1>2, <1>5 DEF Channel!WaitersEnd
<1>8. slot6' \in [Channel!Sockets -> Seq(Channel!ToldFrames)]
    <2>1. {"prepare", "request"} \subseteq Channel!ToldFrames BY DEF Channel!ToldFrames, Channel!HubFrames
    <2>2. \A f \in Channel!ToldFrames : Channel!Sends(slot6, slot3, <<f>>) \in [Channel!Sockets -> Seq(Channel!ToldFrames)]
        BY <1>2, FramesSent
    <2> QED BY <2>1, <2>2 DEF Channel!Request, Channel!HubSends
<1> QED BY <1>1, <1>2, <1>3, <1>4, <1>5, <1>6, <1>7, <1>8, StillStep

\* detachConnection: the row's disconnect clock starts, or a restore ends.
LEMMA MarkAwayKeeps ==
    ASSUME Channel!ChannelInv, NEW c \in Channel!Sockets, Channel!MarkAway(c)
    PROVE  Channel!ChannelInv'
<1>1. UNCHANGED <<slot1, slot3, slot5, slot7>> /\ slot4[c].mode = "was_live" /\ slot4' = [slot4 EXCEPT ![c].mode = "none"]
    BY DEF Channel!MarkAway
<1>2. /\ slot4 \in [Channel!Sockets -> Channel!Conn] /\ slot5 \in [Channel!Sockets -> Seq(Channel!BackedFrames)] /\ slot6 \in [Channel!Sockets -> Seq(Channel!ToldFrames)]
      /\ slot3 \in Channel!Sockets \cup {0} /\ slot2 \in Channel!Row /\ (slot2.prepared => slot7.started)
      /\ \A d \in Channel!Sockets : slot4[d] \in Channel!Conn /\ Channel!SocketFacts(d, slot4[d]) /\ (slot4[d].waits # {} => slot3 = d)
    BY ChannelFacts
<1>3. SupKept BY <1>1, SameIsKept
<1>4. RowKept /\ slot6' \in [Channel!Sockets -> Seq(Channel!ToldFrames)] /\ (slot3 = 0 => slot6' = slot6)
    <2>1. CASE Channel!beginTermination BY <2>1, TerminationKeeps
    <2>2. CASE ~Channel!beginTermination
        <3>1. slot6' = slot6 /\ \E b \in BOOLEAN : slot2' = [slot2 EXCEPT !.away = b]
            BY <1>2, <2>2 DEF Channel!MarkAway, Channel!Row
        <3> QED BY <1>2, <3>1 DEF RowKept, Channel!Row
    <2> QED BY <2>1, <2>2
<1>5. /\ slot4' \in [Channel!Sockets -> Channel!Conn] /\ Channel!SocketFacts(c, slot4'[c]) /\ slot4'[c].pc = slot4[c].pc /\ slot4'[c].waits = slot4[c].waits
      /\ \A d \in Channel!Sockets : d # c => slot4'[d] = slot4[d]
    <2> DEFINE k == [slot4[c] EXCEPT !.mode = "none"]
    <2>1. k \in Channel!Conn BY <1>2 DEF Channel!Conn
    <2>2. /\ k.pc = slot4[c].pc /\ k.mode = "none" /\ k.waits = slot4[c].waits /\ k.job = slot4[c].job
          /\ k.harness = slot4[c].harness /\ k.installed = slot4[c].installed
        BY <1>2 DEF Channel!Conn
    <2>3. slot4' = [slot4 EXCEPT ![c] = k] BY <1>1, <1>2
    <2> HIDE DEF k
    <2>4. Channel!SocketFacts(c, k) BY <1>1, <1>2, <2>2 DEF Channel!SocketFacts
    <2> QED BY <1>2, <2>1, <2>2, <2>3, <2>4
<1>6. Channel!WaitersEnd' BY <1>1, <1>2, <1>5 DEF Channel!WaitersEnd
<1> QED BY <1>1, <1>2, <1>3, <1>4, <1>5, <1>6, StillStep

\* The handlers of a socket.  First the ones that end a registration.
LEMMA CommitEpochKeeps ==
    ASSUME Channel!ChannelInv, NEW c \in Channel!Sockets, Channel!CommitEpoch(c)
    PROVE  Channel!ChannelInv'
<1>1. slot4' = Channel!Refused(slot4, c) \/ Channel!Goto(c, "attach") BY DEF Channel!CommitEpoch, Channel!Refuse
<1>2. /\ slot4' \in [Channel!Sockets -> Channel!Conn] /\ \A d \in Channel!Sockets : d # c => slot4'[d] = slot4[d]
      /\ slot4'[c].pc \in {"refused", "attach"} /\ slot4'[c].waits = slot4[c].waits /\ Channel!SocketFacts(c, slot4'[c])
    <2>1. CASE slot4' = Channel!Refused(slot4, c) BY <2>1, ChannelFacts, Refusal
    <2>2. CASE Channel!Goto(c, "attach") BY <2>2, GoesOn
    <2> QED BY <1>1, <2>1, <2>2
<1>3. RowKept
    <2>1. CASE slot2' = slot2 BY <2>1, SameIsKept
    <2>2. CASE slot2' # slot2
        <3>1. slot4[c].epoch \in Nat /\ slot2 \in Channel!Row /\ (slot2.prepared => slot7.started)
            BY ChannelFacts DEF Channel!Conn
        <3>2. PICK s \in {"connected", slot2.state} : slot2' = [slot2 EXCEPT !.epoch = slot4[c].epoch, !.away = FALSE, !.state = s]
            BY <2>2 DEF Channel!CommitEpoch
        <3> QED BY <3>1, <3>2 DEF RowKept, Channel!Row, Channel!Live
    <2> QED BY <2>1, <2>2
<1>4. UNCHANGED <<slot1, slot3, slot5, slot6, slot7>> BY DEF Channel!CommitEpoch
<1>5. SupKept BY <1>4, SameIsKept
<1>6. Channel!WaitersEnd' BY <1>2, <1>4 DEF Channel!ChannelInv, Channel!WaitersEnd
<1>7. slot4[c].pc \notin Channel!Early /\ slot4'[c].pc \notin Channel!Early
    BY <1>2 DEF Channel!Early, Channel!CommitEpoch, Channel!At
<1>8. slot3' \in Channel!Sockets \cup {0} /\ slot5' \in [Channel!Sockets -> Seq(Channel!BackedFrames)] /\ slot6' \in [Channel!Sockets -> Seq(Channel!ToldFrames)]
    BY <1>4, ChannelFacts
<1> QED BY <1>2, <1>3, <1>4, <1>5, <1>6, <1>7, <1>8, WorkingStep DEF Kept

\* The connection that takes the hub leaves no waiter with the one before it.
LEMMA attachKeeps ==
    ASSUME Channel!ChannelInv, NEW c \in Channel!Sockets, Channel!attach(c)
    PROVE  Channel!ChannelInv'
<1>1. slot4' = [HubClosed EXCEPT ![c].pc = "attached", ![c].registered = TRUE] /\ slot3' = c
    BY DEF Channel!attach, HubClosed
<1>2. UNCHANGED <<slot1, slot2, slot5, slot6, slot7>> /\ slot4[c].pc = "attach" BY DEF Channel!attach, Channel!At
<1>3. HubClosed \in [Channel!Sockets -> Channel!Conn] /\ \A d \in Channel!Sockets : HubClosed[d].waits = {} /\ Kept(slot4[d], HubClosed[d])
    BY ClosingKeeps
<1>4. /\ slot4' \in [Channel!Sockets -> Channel!Conn] /\ Channel!SocketFacts(c, slot4'[c]) /\ slot4'[c].pc = "attached" /\ slot4'[c].waits = {}
      /\ \A d \in Channel!Sockets : d # c => slot4'[d] = HubClosed[d]
    <2> DEFINE k == [HubClosed[c] EXCEPT !.pc = "attached", !.registered = TRUE]
    <2>0. HubClosed[c] \in Channel!Conn BY <1>3
    <2>1. k \in Channel!Conn BY <2>0 DEF Channel!Conn, Channel!Pcs
    <2>2. /\ k.pc = "attached" /\ k.mode = slot4[c].mode /\ k.waits = {} /\ k.job = slot4[c].job
          /\ k.harness = slot4[c].harness /\ k.installed = slot4[c].installed
        BY <1>3, <2>0 DEF Channel!Conn, Kept
    <2>3. slot4' = [HubClosed EXCEPT ![c] = k] BY <1>1, <1>3
    <2> HIDE DEF k
    <2>4. Channel!SocketFacts(c, slot4[c]) BY ChannelFacts
    <2>5. Channel!SocketFacts(c, k) BY <1>2, <2>2, <2>4 DEF Channel!SocketFacts
    <2> QED BY <1>3, <2>1, <2>2, <2>3, <2>5
<1>5. SupKept /\ RowKept BY <1>2, SameIsKept
<1>6. Channel!WaitersEnd' BY <1>1, <1>3, <1>4 DEF Channel!WaitersEnd
<1>7. slot4[c].pc \notin Channel!Early /\ slot4'[c].pc \notin Channel!Early BY <1>2, <1>4 DEF Channel!Early
<1>8. slot5' \in [Channel!Sockets -> Seq(Channel!BackedFrames)] /\ slot6' \in [Channel!Sockets -> Seq(Channel!ToldFrames)]
    BY <1>2, ChannelFacts
<1> QED BY <1>1, <1>2, <1>3, <1>4, <1>5, <1>6, <1>7, <1>8, WorkingStep

\* A connection that is refused after it took the hub leaves it.
LEMMA RefusedLeaves ==
    ASSUME Channel!ChannelInv, NEW c \in Channel!Sockets, slot4[c].pc \notin Channel!Early, slot1' = slot1, SupKept, RowKept,
           slot3' = Channel!detached(c), slot4' = Channel!Refused(Channel!detach(slot4, c), c), UNCHANGED <<slot5, slot6>>
    PROVE  Channel!ChannelInv'
<1> DEFINE f == Channel!detach(slot4, c)
           h == Channel!detached(c)
<1>1. /\ f \in [Channel!Sockets -> Channel!Conn] /\ h \in Channel!Sockets \cup {0}
      /\ \A d \in Channel!Sockets : Kept(slot4[d], f[d]) /\ (f[d].waits # {} => h = d)
    BY DetachKeeps
<1> HIDE DEF f, h
<1>2. /\ slot4' \in [Channel!Sockets -> Channel!Conn] /\ \A d \in Channel!Sockets : d # c => slot4'[d] = f[d]
      /\ slot4'[c].pc = "refused" /\ slot4'[c].waits = f[c].waits /\ Channel!SocketFacts(c, slot4'[c])
    <2>1. slot4' = Channel!Refused(f, c) BY DEF f
    <2> QED BY <1>1, <2>1, Refusal
<1>3. Channel!WaitersEnd'
    <2>1. slot3' = h BY DEF h
    <2> QED BY <1>1, <1>2, <2>1 DEF Channel!WaitersEnd
<1>4. slot4'[c].pc \notin Channel!Early BY <1>2 DEF Channel!Early
<1>5. slot5' \in [Channel!Sockets -> Seq(Channel!BackedFrames)] /\ slot6' \in [Channel!Sockets -> Seq(Channel!ToldFrames)]
    BY ChannelFacts
<1>6. slot3' \in Channel!Sockets \cup {0} BY <1>1 DEF h
<1> QED BY <1>1, <1>2, <1>3, <1>4, <1>5, <1>6, WorkingStep

\* The credentials are handed out, or the workspace ends.
LEMMA DeliverCredentialsKeeps ==
    ASSUME Channel!ChannelInv, NEW c \in Channel!Sockets, Channel!DeliverCredentials(c)
    PROVE  Channel!ChannelInv'
<1>1. slot4[c].pc \notin Channel!Early /\ UNCHANGED <<slot1, slot5, slot6>>
    BY DEF Channel!DeliverCredentials, Channel!At, Channel!Early
<1>2. CASE Channel!finalize /\ slot3' = Channel!detached(c) /\ slot4' = Channel!Refused(Channel!detach(slot4, c), c)
    BY <1>1, <1>2, FinalizeKeeps, RefusedLeaves
<1>3. CASE (Channel!Goto(c, "grant") \/ slot4' = Channel!Refused(slot4, c)) /\ UNCHANGED <<slot2, slot3, slot7>>
    <2>1. /\ slot4' \in [Channel!Sockets -> Channel!Conn] /\ \A d \in Channel!Sockets : d # c => slot4'[d] = slot4[d]
          /\ slot4'[c].pc \in {"refused", "grant"} /\ slot4'[c].waits = slot4[c].waits /\ Channel!SocketFacts(c, slot4'[c])
        <3>1. CASE slot4' = Channel!Refused(slot4, c) BY <3>1, ChannelFacts, Refusal
        <3>2. CASE Channel!Goto(c, "grant") BY <3>2, GoesOn
        <3> QED BY <1>3, <3>1, <3>2
    <2>2. SupKept /\ RowKept BY <1>3, SameIsKept
    <2>3. Channel!WaitersEnd' BY <1>3, <2>1 DEF Channel!ChannelInv, Channel!WaitersEnd
    <2>4. slot4'[c].pc \notin Channel!Early BY <2>1 DEF Channel!Early
    <2>5. slot3' \in Channel!Sockets \cup {0} /\ slot5' \in [Channel!Sockets -> Seq(Channel!BackedFrames)] /\ slot6' \in [Channel!Sockets -> Seq(Channel!ToldFrames)]
        BY <1>1, <1>3, ChannelFacts
    <2> QED BY <1>1, <2>1, <2>2, <2>3, <2>4, <2>5, WorkingStep DEF Kept
<1> QED BY <1>2, <1>3 DEF Channel!DeliverCredentials, Channel!Refuse

\* registered_ack is sent, or a socket that closed meanwhile is detached.
LEMMA AcknowledgeKeeps ==
    ASSUME Channel!ChannelInv, NEW c \in Channel!Sockets, Channel!Acknowledge(c)
    PROVE  Channel!ChannelInv'
<1>1. slot4[c].pc \notin Channel!Early /\ UNCHANGED <<slot1, slot2, slot5, slot7>>
    BY DEF Channel!Acknowledge, Channel!At, Channel!Early
<1>2. SupKept /\ RowKept BY <1>1, SameIsKept
<1>3. CASE slot3' = Channel!detached(c) /\ slot4' = Channel!Refused(Channel!detach(slot4, c), c) /\ slot6' = slot6
    BY <1>1, <1>2, <1>3, RefusedLeaves
<1>4. CASE /\ slot4' = [slot4 EXCEPT ![c].pc = "up"] /\ slot3' = slot3
           /\ Channel!HubSends(c, IF slot4[c].mode = "register" THEN "ack_credential" ELSE "ack")
    <2>1. Channel!Goto(c, "up") BY <1>4 DEF Channel!Goto
    <2>2. /\ slot4' \in [Channel!Sockets -> Channel!Conn] /\ \A d \in Channel!Sockets : d # c => slot4'[d] = slot4[d]
          /\ slot4'[c].pc = "up" /\ slot4'[c].waits = slot4[c].waits /\ Channel!SocketFacts(c, slot4'[c])
        BY <2>1, GoesOn
    <2>3. Channel!WaitersEnd' BY <1>4, <2>2 DEF Channel!ChannelInv, Channel!WaitersEnd
    <2>4. slot4'[c].pc \notin Channel!Early BY <2>2 DEF Channel!Early
    <2>5. slot3' \in Channel!Sockets \cup {0} /\ slot5' \in [Channel!Sockets -> Seq(Channel!BackedFrames)]
        BY <1>1, <1>4, ChannelFacts
    <2>6. slot6' \in [Channel!Sockets -> Seq(Channel!ToldFrames)]
        <3>1. {"ack_credential", "ack"} \subseteq Channel!ToldFrames BY DEF Channel!ToldFrames, Channel!HubFrames
        <3>2. \A f \in Channel!ToldFrames : Channel!Sends(slot6, c, <<f>>) \in [Channel!Sockets -> Seq(Channel!ToldFrames)]
            BY ChannelFacts, FramesSent
        <3> QED BY <1>4, <3>1, <3>2 DEF Channel!HubSends
    <2> QED BY <1>1, <1>2, <2>2, <2>3, <2>4, <2>5, <2>6, WorkingStep DEF Kept
<1> QED BY <1>3, <1>4 DEF Channel!Acknowledge

\* A handler that only moves its own socket.
LEMMA HandlerStep ==
    ASSUME Channel!ChannelInv, NEW c \in Channel!Sockets, slot4[c].pc \notin Channel!Early, slot4'[c].pc \notin Channel!Early,
           UNCHANGED <<slot1, slot3>>, SupKept, RowKept, slot4' \in [Channel!Sockets -> Channel!Conn], Channel!SocketFacts(c, slot4'[c]),
           slot4'[c].waits \subseteq slot4[c].waits, \A d \in Channel!Sockets : d # c => slot4'[d] = slot4[d],
           slot5' \in [Channel!Sockets -> Seq(Channel!BackedFrames)], slot6' \in [Channel!Sockets -> Seq(Channel!ToldFrames)]
    PROVE  Channel!ChannelInv'
<1>1. Channel!WaitersEnd' BY DEF Channel!ChannelInv, Channel!WaitersEnd
<1>2. slot3' \in Channel!Sockets \cup {0} BY ChannelFacts
<1> QED BY <1>1, <1>2, WorkingStep DEF Kept

\* The close of a socket: a connection leaves the hub, a registration goes on.
LEMMA LeaveKeeps ==
    ASSUME Channel!ChannelInv, NEW c \in Channel!Sockets, Channel!Leave(c), slot4[c].pc \in {"up", "work", "check", "revoked"},
           UNCHANGED <<slot1, slot2, slot5, slot6, slot7>>
    PROVE  Channel!ChannelInv'
<1> DEFINE f == Channel!detach(slot4, c)
           h == Channel!detached(c)
           m == IF slot3 = c THEN "was_live" ELSE "none"
           k == [f[c] EXCEPT !.seen = TRUE, !.registered = FALSE, !.mode = m]
<1>1. /\ f \in [Channel!Sockets -> Channel!Conn] /\ h \in Channel!Sockets \cup {0}
      /\ \A d \in Channel!Sockets : Kept(slot4[d], f[d]) /\ (f[d].waits # {} => h = d)
    BY DetachKeeps
<1>2. slot4' = [f EXCEPT ![c].seen = TRUE, ![c].registered = FALSE, ![c].mode = m] /\ slot3' = h
    BY DEF Channel!Leave
<1>3. m \in {"was_live", "none"} OBVIOUS
<1> HIDE DEF f, h, m
<1>4. slot4' = [f EXCEPT ![c] = k] BY <1>1, <1>2
<1>5. f[c] \in Channel!Conn BY <1>1
<1>6. k \in Channel!Conn BY <1>3, <1>5 DEF Channel!Conn
<1>7. /\ k.pc = slot4[c].pc /\ k.mode = m /\ k.waits = f[c].waits /\ k.job = slot4[c].job
      /\ k.harness = slot4[c].harness /\ k.installed = slot4[c].installed
    BY <1>1, <1>5 DEF Channel!Conn, Kept
<1> HIDE DEF k
<1>8. Channel!SocketFacts(c, k)
    <2>1. Channel!SocketFacts(c, slot4[c]) BY ChannelFacts
    <2> QED BY <1>3, <1>7, <2>1 DEF Channel!SocketFacts
<1>9. /\ slot4' \in [Channel!Sockets -> Channel!Conn] /\ slot4'[c] = k /\ \A d \in Channel!Sockets : d # c => slot4'[d] = f[d]
    BY <1>1, <1>4, <1>6
<1>10. Channel!WaitersEnd' BY <1>1, <1>2, <1>7, <1>9 DEF Channel!WaitersEnd
<1>11. SupKept /\ RowKept BY SameIsKept
<1>12. slot4[c].pc \notin Channel!Early BY DEF Channel!Early
<1>13. slot5' \in [Channel!Sockets -> Seq(Channel!BackedFrames)] /\ slot6' \in [Channel!Sockets -> Seq(Channel!ToldFrames)]
    BY ChannelFacts
<1>14. slot4'[c].pc \notin Channel!Early /\ Channel!SocketFacts(c, slot4'[c]) BY <1>7, <1>8, <1>9, <1>12
<1>15. slot3' \in Channel!Sockets \cup {0} /\ \A d \in Channel!Sockets : d # c => Kept(slot4[d], slot4'[d])
    BY <1>1, <1>2, <1>9
<1> QED BY <1>9, <1>10, <1>11, <1>12, <1>13, <1>14, <1>15, WorkingStep

\* The close of a socket, before and after its registration is done.
LEMMA onCloseKeeps ==
    ASSUME Channel!ChannelInv, NEW c \in Channel!Sockets, Channel!onClose(c) \/ Channel!LateLeave(c)
    PROVE  Channel!ChannelInv'
<1>1. UNCHANGED <<slot1, slot2, slot5, slot6, slot7>> BY DEF Channel!onClose, Channel!LateLeave
<1>2. CASE Channel!Leave(c) /\ slot4[c].pc \in {"up", "work", "check", "revoked"} BY <1>1, <1>2, LeaveKeeps
<1>3. CASE slot4' = [slot4 EXCEPT ![c].seen = TRUE] /\ slot3' = slot3
    <2>1. SupKept /\ RowKept BY <1>1, SameIsKept
    <2>2. /\ slot4 \in [Channel!Sockets -> Channel!Conn] /\ slot3 \in Channel!Sockets \cup {0}
          /\ \A d \in Channel!Sockets : slot4[d] \in Channel!Conn /\ (slot4[d].waits # {} => slot3 = d)
        BY ChannelFacts
    <2>3. slot4' \in [Channel!Sockets -> Channel!Conn] /\ \A d \in Channel!Sockets : Kept(slot4[d], slot4'[d]) /\ slot4'[d].waits = slot4[d].waits
        <3> DEFINE k == [slot4[c] EXCEPT !.seen = TRUE]
        <3>1. k \in Channel!Conn /\ Kept(slot4[c], k) /\ k.waits = slot4[c].waits BY <2>2 DEF Channel!Conn, Kept
        <3>2. slot4' = [slot4 EXCEPT ![c] = k] BY <1>3
        <3> HIDE DEF k
        <3> QED BY <2>2, <3>1, <3>2, SocketReplaced
    <2>4. ASSUME NEW d \in Channel!Sockets PROVE slot4'[d].pc = slot4[d].pc /\ Channel!SocketFacts(d, slot4'[d])
        <3>1. Channel!SocketFacts(d, slot4[d]) BY ChannelFacts
        <3> QED BY <2>3, <3>1, SocketKept DEF Kept
    <2>5. Channel!WaitersEnd' BY <1>3, <2>2, <2>3 DEF Channel!WaitersEnd
    <2>6. slot5' \in [Channel!Sockets -> Seq(Channel!BackedFrames)] /\ slot6' \in [Channel!Sockets -> Seq(Channel!ToldFrames)]
        BY <1>1, ChannelFacts
    <2> QED BY <1>1, <1>3, <2>1, <2>2, <2>3, <2>4, <2>5, <2>6, StillStep
<1> QED BY <1>2, <1>3 DEF Channel!onClose, Channel!LateLeave, Channel!At

\* handleConnectedFrame: what the frame says is true, whenever it is taken.
LEMMA ReceiveKeeps ==
    ASSUME Channel!ChannelInv, NEW c \in Channel!Sockets, Channel!Receive(c)
    PROVE  Channel!ChannelInv'
<1> DEFINE frame == Head(slot5[c])
           j == IF slot3 = c /\ frame # "answer" THEN [frame |-> frame, row |-> slot2] ELSE slot4[c].job
           k == [slot4[c] EXCEPT !.pc = IF slot3 = c /\ frame # "answer" THEN "work" ELSE @,
                                !.job = j,
                                !.harness = IF slot3 = c /\ frame \in {"running", "exited"} THEN frame = "running" ELSE @,
                                !.waits = IF slot3 = c /\ frame = "answer" THEN {} ELSE @]
<1>1. UNCHANGED <<slot1, slot2, slot3, slot6, slot7>> /\ slot4[c].pc = "up" /\ slot5[c] # <<>>
    BY DEF Channel!Receive, Channel!At
<1>2. /\ slot4 \in [Channel!Sockets -> Channel!Conn] /\ slot4[c] \in Channel!Conn /\ Channel!SocketFacts(c, slot4[c]) /\ slot2 \in Channel!Row
      /\ (slot2.prepared => slot7.started) /\ slot5 \in [Channel!Sockets -> Seq(Channel!BackedFrames)] /\ slot6 \in [Channel!Sockets -> Seq(Channel!ToldFrames)]
    BY ChannelFacts
<1>3. frame \in Channel!BackedFrames /\ slot5' \in [Channel!Sockets -> Seq(Channel!BackedFrames)]
    BY <1>1, <1>2, FrameTaken DEF Channel!Receive
<1>4. slot4' = [slot4 EXCEPT ![c] = k] BY <1>2 DEF Channel!Receive
<1> HIDE DEF frame
<1>5. j \in Channel!Job /\ j.frame \in Channel!BackedFrames /\ (slot3 = c /\ frame # "answer" => j.row = slot2)
    <2>1. slot4[c].job \in Channel!Job /\ slot4[c].job.frame \in Channel!BackedFrames
        BY <1>2 DEF Channel!Conn, Channel!SocketFacts
    <2>2. frame \in Channel!SupFrames \cup {"none"} BY <1>3 DEF Channel!BackedFrames
    <2>3. [frame |-> frame, row |-> slot2] \in Channel!Job BY <1>2, <2>2 DEF Channel!Job
    <2> QED BY <1>3, <2>1, <2>3
<1> HIDE DEF j
<1>6. k \in Channel!Conn BY <1>2, <1>5 DEF Channel!Conn, Channel!Pcs
<1>7. /\ k.pc = (IF slot3 = c /\ frame # "answer" THEN "work" ELSE slot4[c].pc) /\ k.mode = slot4[c].mode /\ k.job = j
      /\ k.harness => slot4[c].harness \/ frame = "running"
      /\ k.installed = slot4[c].installed /\ k.waits \subseteq slot4[c].waits
    BY <1>2 DEF Channel!Conn
<1> HIDE DEF k
<1>8. frame = "running" => slot7.started BY <1>3 DEF Channel!BackedFrames, Channel!Work
<1>9. Channel!SocketFacts(c, k) BY <1>1, <1>2, <1>5, <1>7, <1>8 DEF Channel!SocketFacts
<1>10. slot4' \in [Channel!Sockets -> Channel!Conn] /\ slot4'[c] = k /\ \A d \in Channel!Sockets : d # c => slot4'[d] = slot4[d]
    BY <1>2, <1>4, <1>6
<1>11. slot4[c].pc \notin Channel!Early /\ k.pc \notin Channel!Early BY <1>1, <1>7 DEF Channel!Early
<1>12. SupKept /\ RowKept BY <1>1, SameIsKept
<1> QED BY <1>1, <1>2, <1>3, <1>7, <1>9, <1>10, <1>11, <1>12, HandlerStep

\* handleServiceHealth, handleNetworkState and source_resolved write what they were told.
LEMMA ReportKeeps ==
    ASSUME Channel!ChannelInv, NEW c \in Channel!Sockets, Channel!Report(c)
    PROVE  Channel!ChannelInv'
<1>1. UNCHANGED <<slot1, slot3, slot5, slot6, slot7>> /\ slot4[c].pc = "work"
    BY DEF Channel!Report, Channel!Doing, Channel!At
<1>2. /\ slot2 \in Channel!Row /\ (slot2.prepared => slot7.started) /\ Channel!SocketFacts(c, slot4[c])
      /\ slot5 \in [Channel!Sockets -> Seq(Channel!BackedFrames)] /\ slot6 \in [Channel!Sockets -> Seq(Channel!ToldFrames)]
    BY ChannelFacts
<1>3. Channel!Read(c) \in Channel!Row /\ (Channel!Read(c).prepared => slot7.started)
    BY <1>1, <1>2 DEF Channel!Read, Channel!SocketFacts
<1>4. RowKept
    <2>1. slot2' \in {[slot2 EXCEPT !.healthy = TRUE], [slot2 EXCEPT !.network = TRUE], [slot2 EXCEPT !.resolved = TRUE]}
        BY DEF Channel!Report
    <2> QED BY <1>2, <2>1 DEF RowKept, Channel!Row
<1>5. /\ slot4' \in [Channel!Sockets -> Channel!Conn] /\ \A d \in Channel!Sockets : d # c => slot4'[d] = slot4[d]
      /\ slot4'[c].pc \in {"up", "check"} /\ slot4'[c].waits = slot4[c].waits /\ Channel!SocketFacts(c, slot4'[c])
    <2>1. CASE Channel!Done(c) BY <2>1, HandlerDone
    <2>2. CASE ~Channel!Done(c)
        <3> DEFINE h == [Channel!Read(c) EXCEPT !.healthy = TRUE]
                   n == [Channel!Read(c) EXCEPT !.network = TRUE]
        <3>1. h \in Channel!Row /\ h.prepared = Channel!Read(c).prepared /\ n \in Channel!Row /\ n.prepared = Channel!Read(c).prepared
            BY <1>3 DEF Channel!Row
        <3>2. \/ Channel!Check(c, h) /\ slot4[c].job.frame = "health"
              \/ Channel!Check(c, n) /\ slot4[c].job.frame = "network" /\ slot1.waiting
            BY <2>2 DEF Channel!Report, Channel!Doing
        <3>3. "health" \in Channel!Work BY DEF Channel!Work
        <3> HIDE DEF h, n
        <3> QED BY <1>1, <1>3, <3>1, <3>2, <3>3, HandlerChecks
    <2> QED BY <2>1, <2>2
<1>6. slot4[c].pc \notin Channel!Early /\ slot4'[c].pc \notin Channel!Early BY <1>1, <1>5 DEF Channel!Early
<1>7. SupKept BY <1>1, SameIsKept
<1> QED BY <1>1, <1>2, <1>4, <1>5, <1>6, <1>7, HandlerStep

\* handleProcessState.
LEMMA ProcessStateKeeps ==
    ASSUME Channel!ChannelInv, NEW c \in Channel!Sockets, Channel!ProcessState(c)
    PROVE  Channel!ChannelInv'
<1>1. UNCHANGED <<slot1, slot3, slot5, slot6>> /\ slot4[c].pc = "work"
    BY DEF Channel!ProcessState, Channel!Doing, Channel!At
<1>2. /\ Channel!SocketFacts(c, slot4[c]) /\ slot5 \in [Channel!Sockets -> Seq(Channel!BackedFrames)] /\ slot6 \in [Channel!Sockets -> Seq(Channel!ToldFrames)]
    BY ChannelFacts
<1>3. Channel!Read(c) \in Channel!Row /\ (Channel!Read(c).prepared => slot7.started)
    BY <1>1, <1>2 DEF Channel!Read, Channel!SocketFacts
<1>4. SupKept /\ RowKept BY FinalizeKeeps, SameIsKept DEF Channel!ProcessState
<1>5. /\ slot4' \in [Channel!Sockets -> Channel!Conn] /\ \A d \in Channel!Sockets : d # c => slot4'[d] = slot4[d]
      /\ slot4'[c].pc \in {"up", "check"} /\ slot4'[c].waits = slot4[c].waits /\ Channel!SocketFacts(c, slot4'[c])
    <2>1. CASE Channel!Done(c) BY <2>1, HandlerDone
    <2>2. CASE ~Channel!Done(c)
        <3>1. Channel!Check(c, Channel!Read(c)) /\ slot4[c].job.frame = "running"
            BY <2>2 DEF Channel!ProcessState, Channel!Doing
        <3>2. "running" \in Channel!Work BY DEF Channel!Work
        <3> QED BY <1>1, <1>3, <3>1, <3>2, HandlerChecks
    <2> QED BY <2>1, <2>2
<1>6. slot4[c].pc \notin Channel!Early /\ slot4'[c].pc \notin Channel!Early BY <1>1, <1>5 DEF Channel!Early
<1> QED BY <1>1, <1>2, <1>4, <1>5, <1>6, HandlerStep

\* runtime_ready: a waiting runtime has said that it is prepared.
LEMMA RuntimeReadyKeeps ==
    ASSUME Channel!ChannelInv, NEW c \in Channel!Sockets, Channel!RuntimeReady(c)
    PROVE  Channel!ChannelInv'
<1>1. UNCHANGED <<slot1, slot3, slot5, slot6, slot7>> /\ slot4[c].pc = "work" /\ slot4[c].job.frame = "runtime_ready"
    BY DEF Channel!RuntimeReady, Channel!Doing, Channel!At
<1>2. /\ slot2 \in Channel!Row /\ Channel!SocketFacts(c, slot4[c]) /\ slot5 \in [Channel!Sockets -> Seq(Channel!BackedFrames)] /\ slot6 \in [Channel!Sockets -> Seq(Channel!ToldFrames)]
    BY ChannelFacts
<1>3. "runtime_ready" \in Channel!Work BY DEF Channel!Work
<1>4. slot7.started BY <1>1, <1>2, <1>3 DEF Channel!SocketFacts, Channel!BackedFrames
<1> DEFINE r == [slot2 EXCEPT !.prepared = TRUE]
<1>5. r \in Channel!Row /\ r.lease = slot2.lease /\ r.state = slot2.state BY <1>2 DEF Channel!Row
<1>6. (Channel!Done(c) /\ slot2' = slot2) \/ (Channel!Check(c, r) /\ slot2' = r) BY DEF Channel!RuntimeReady
<1> HIDE DEF r
<1>7. RowKept
    <2>1. CASE slot2' = slot2 BY <2>1, SameIsKept
    <2>2. CASE slot2' = r BY <1>4, <1>5, <2>2 DEF RowKept
    <2> QED BY <1>6, <2>1, <2>2
<1>8. /\ slot4' \in [Channel!Sockets -> Channel!Conn] /\ \A d \in Channel!Sockets : d # c => slot4'[d] = slot4[d]
      /\ slot4'[c].pc \in {"up", "check"} /\ slot4'[c].waits = slot4[c].waits /\ Channel!SocketFacts(c, slot4'[c])
    <2>1. CASE Channel!Done(c) BY <2>1, HandlerDone
    <2>2. CASE Channel!Check(c, r) BY <1>1, <1>3, <1>4, <1>5, <2>2, HandlerChecks
    <2> QED BY <1>6, <2>1, <2>2
<1>9. slot4[c].pc \notin Channel!Early /\ slot4'[c].pc \notin Channel!Early BY <1>1, <1>8 DEF Channel!Early
<1>10. SupKept BY <1>1, SameIsKept
<1> QED BY <1>1, <1>2, <1>7, <1>8, <1>9, <1>10, HandlerStep

\* handleCheckpointInstalled.
LEMMA CheckpointInstalledKeeps ==
    ASSUME Channel!ChannelInv, NEW c \in Channel!Sockets, Channel!CheckpointInstalled(c)
    PROVE  Channel!ChannelInv'
<1> DEFINE j == IF slot3 = c THEN [frame |-> "installed", row |-> slot2] ELSE Channel!NoJob
           k == [slot4[c] EXCEPT !.installed = slot3 = c, !.pc = IF slot3 = c THEN "check" ELSE "up", !.job = j]
<1>1. UNCHANGED <<slot1, slot2, slot3, slot5, slot6, slot7>> /\ slot4[c].pc = "work" /\ slot4[c].job.frame = "installed"
    BY DEF Channel!CheckpointInstalled, Channel!Doing, Channel!At
<1>2. /\ slot4 \in [Channel!Sockets -> Channel!Conn] /\ slot4[c] \in Channel!Conn /\ Channel!SocketFacts(c, slot4[c]) /\ slot2 \in Channel!Row /\ (slot2.prepared => slot7.started)
      /\ slot5 \in [Channel!Sockets -> Seq(Channel!BackedFrames)] /\ slot6 \in [Channel!Sockets -> Seq(Channel!ToldFrames)]
    BY ChannelFacts
<1>3. slot4' = [slot4 EXCEPT ![c] = k] BY <1>2 DEF Channel!CheckpointInstalled
<1>4. "installed" \in Channel!BackedFrames /\ "none" \in Channel!BackedFrames
    <2>1. "installed" \in Channel!BackedFrames BY <1>1, <1>2 DEF Channel!SocketFacts
    <2> QED BY <2>1 DEF Channel!BackedFrames, Channel!Work
<1>5. slot7.installed BY <1>4 DEF Channel!BackedFrames
<1>6. j \in Channel!Job /\ j.frame \in Channel!BackedFrames /\ (slot3 = c => j.row = slot2 /\ j.frame = "installed")
    <2>1. Channel!NoJob \in Channel!Job /\ Channel!NoJob.frame = "none" BY DEF Channel!NoJob, Channel!Job
    <2>2. [frame |-> "installed", row |-> slot2] \in Channel!Job BY <1>2 DEF Channel!Job, Channel!SupFrames
    <2> QED BY <1>4, <2>1, <2>2
<1> HIDE DEF j
<1>7. k \in Channel!Conn BY <1>2, <1>6 DEF Channel!Conn, Channel!Pcs
<1>8. /\ k.pc = (IF slot3 = c THEN "check" ELSE "up") /\ k.mode = slot4[c].mode /\ k.job = j
      /\ k.harness = slot4[c].harness /\ k.waits = slot4[c].waits
    BY <1>2 DEF Channel!Conn
<1> HIDE DEF k
<1>9. Channel!SocketFacts(c, k) BY <1>2, <1>5, <1>6, <1>8 DEF Channel!SocketFacts
<1>10. slot4' \in [Channel!Sockets -> Channel!Conn] /\ slot4'[c] = k /\ \A d \in Channel!Sockets : d # c => slot4'[d] = slot4[d]
    BY <1>2, <1>3, <1>7
<1>11. slot4[c].pc \notin Channel!Early /\ k.pc \notin Channel!Early BY <1>1, <1>8 DEF Channel!Early
<1>12. SupKept /\ RowKept BY <1>1, SameIsKept
<1> QED BY <1>1, <1>2, <1>8, <1>9, <1>10, <1>11, <1>12, HandlerStep

\* Frames that change nothing, and the setup lease: once it is revoked it stays so.
LEMMA RevokeSetupKeeps ==
    ASSUME Channel!ChannelInv, NEW c \in Channel!Sockets, Channel!Ignored(c) \/ Channel!RevokeSetup(c)
    PROVE  Channel!ChannelInv'
<1>1. UNCHANGED <<slot1, slot3, slot5, slot6, slot7>> /\ slot4[c].pc = "work"
    BY DEF Channel!Ignored, Channel!RevokeSetup, Channel!Doing, Channel!At
<1>2. (Channel!Done(c) /\ slot2' = slot2) \/ (Channel!Goto(c, "revoked") /\ slot2' = [slot2 EXCEPT !.lease = "revoked"])
    BY DEF Channel!Ignored, Channel!RevokeSetup
<1>3. /\ slot2 \in Channel!Row /\ (slot2.prepared => slot7.started) /\ slot5 \in [Channel!Sockets -> Seq(Channel!BackedFrames)]
      /\ slot6 \in [Channel!Sockets -> Seq(Channel!ToldFrames)]
    BY ChannelFacts
<1>4. RowKept
    <2>1. CASE slot2' = slot2 BY <2>1, SameIsKept
    <2>2. CASE slot2' = [slot2 EXCEPT !.lease = "revoked"] BY <1>3, <2>2 DEF RowKept, Channel!Row
    <2> QED BY <1>2, <2>1, <2>2
<1>5. /\ slot4' \in [Channel!Sockets -> Channel!Conn] /\ \A d \in Channel!Sockets : d # c => slot4'[d] = slot4[d]
      /\ slot4'[c].pc \in {"up", "revoked"} /\ slot4'[c].waits = slot4[c].waits /\ Channel!SocketFacts(c, slot4'[c])
    BY <1>2, HandlerDone, GoesOn
<1>6. slot4[c].pc \notin Channel!Early /\ slot4'[c].pc \notin Channel!Early BY <1>1, <1>5 DEF Channel!Early
<1>7. SupKept BY <1>1, SameIsKept
<1> QED BY <1>1, <1>3, <1>4, <1>5, <1>6, <1>7, HandlerStep

\* setup_ack is sent only when the lease has been read as revoked.
LEMMA AckSetupKeeps ==
    ASSUME Channel!ChannelInv, NEW c \in Channel!Sockets, Channel!AckSetup(c)
    PROVE  Channel!ChannelInv'
<1>1. UNCHANGED <<slot1, slot2, slot3, slot5, slot7>> /\ slot4[c].pc = "revoked" /\ Channel!Done(c)
    BY DEF Channel!AckSetup, Channel!At
<1>2. slot5 \in [Channel!Sockets -> Seq(Channel!BackedFrames)] /\ slot6 \in [Channel!Sockets -> Seq(Channel!ToldFrames)]
    BY ChannelFacts
<1>3. slot6' \in [Channel!Sockets -> Seq(Channel!ToldFrames)]
    <2>1. CASE slot6' = slot6 BY <1>2, <2>1
    <2>2. CASE slot6' # slot6
        <3>1. Channel!setupAuthorityClosed /\ slot6' = Channel!Sends(slot6, c, <<"setup_ack">>)
            BY <2>2 DEF Channel!AckSetup, Channel!HubSends
        <3>2. "setup_ack" \in Channel!ToldFrames
            BY <3>1 DEF Channel!setupAuthorityClosed, Channel!ToldFrames, Channel!HubFrames
        <3> QED BY <1>2, <3>1, <3>2, FramesSent
    <2> QED BY <2>1, <2>2
<1>4. /\ slot4' \in [Channel!Sockets -> Channel!Conn] /\ \A d \in Channel!Sockets : d # c => slot4'[d] = slot4[d]
      /\ slot4'[c].pc = "up" /\ slot4'[c].waits = slot4[c].waits /\ Channel!SocketFacts(c, slot4'[c])
    BY <1>1, HandlerDone
<1>5. slot4[c].pc \notin Channel!Early /\ slot4'[c].pc \notin Channel!Early BY <1>1, <1>4 DEF Channel!Early
<1>6. SupKept /\ RowKept BY <1>1, SameIsKept
<1> QED BY <1>1, <1>2, <1>3, <1>4, <1>5, <1>6, HandlerStep

\* maybeMarkReady: whatever frame brought its caller here, the supervisor has started the workload, and
\* the archive of a restore is in place.
LEMMA ReadyIsBacked ==
    ASSUME Channel!ChannelInv, NEW c \in Channel!Sockets, slot4[c].pc = "check", Channel!mayBeReady(Channel!Read(c))
    PROVE  slot7.started /\ (slot1.restore => slot3 \in Channel!Sockets /\ slot7.installed)
<1>1. Channel!SocketFacts(c, slot4[c]) /\ slot3 \in Channel!Sockets \cup {0} BY ChannelFacts
<1>2. slot1.waiting => slot7.started BY <1>1 DEF Channel!SocketFacts, Channel!mayBeReady, Channel!Read
<1>3. slot1.restore => slot3 \in Channel!Sockets /\ slot7.installed /\ (slot1.waiting \/ slot7.started)
    <2>1. ASSUME slot1.restore
        PROVE slot3 \in Channel!Sockets /\ slot4[slot3].installed /\ (slot1.waiting \/ slot4[slot3].harness)
        BY <1>1, <2>1 DEF Channel!mayBeReady, Channel!restorePrepared
    <2>2. ASSUME slot1.restore PROVE Channel!SocketFacts(slot3, slot4[slot3]) BY <2>1, <2>2, ChannelFacts
    <2> QED BY <2>1, <2>2 DEF Channel!SocketFacts
<1>4. slot4[c].job.frame \in Channel!BackedFrames BY <1>1 DEF Channel!SocketFacts
<1>5. slot4[c].job.frame \in Channel!Work \/ slot1.waiting \/ slot4[c].job.frame = "installed"
    BY <1>1 DEF Channel!SocketFacts
<1> QED BY <1>2, <1>3, <1>4, <1>5 DEF Channel!BackedFrames

\* The row turns ready only on evidence that the handler read.
LEMMA maybeMarkReadyKeeps ==
    ASSUME Channel!ChannelInv, NEW c \in Channel!Sockets, Channel!maybeMarkReady(c)
    PROVE  Channel!ChannelInv'
<1>1. UNCHANGED <<slot1, slot3, slot5, slot6>> /\ slot4[c].pc = "check" /\ Channel!Done(c)
    BY DEF Channel!maybeMarkReady, Channel!At
<1>2. slot2 \in Channel!Row /\ (slot2.prepared => slot7.started) /\ slot5 \in [Channel!Sockets -> Seq(Channel!BackedFrames)] /\ slot6 \in [Channel!Sockets -> Seq(Channel!ToldFrames)]
    BY ChannelFacts
<1>3. SupKept /\ RowKept
    <2>1. CASE Channel!finalize BY <2>1, FinalizeKeeps
    <2>2. CASE UNCHANGED <<slot2, slot7>> BY <2>2, SameIsKept
    <2>3. CASE /\ Channel!mayBeReady(Channel!Read(c)) /\ slot7' = slot7
               /\ slot2' = [slot2 EXCEPT !.state = IF @ = "connected" THEN "ready" ELSE @]
        <3>1. slot7.started /\ (slot1.restore => slot7.installed) BY <1>1, <2>3, ReadyIsBacked
        <3>2. slot2' \in Channel!Row /\ slot2'.lease = slot2.lease /\ slot2'.prepared = slot2.prepared
            BY <1>2, <2>3 DEF Channel!Row, Channel!Live
        <3>3. RowKept BY <3>1, <3>2 DEF RowKept
        <3> QED BY <2>3, <3>3, SameIsKept
    <2> QED BY <2>1, <2>2, <2>3 DEF Channel!maybeMarkReady
<1>4. /\ slot4' \in [Channel!Sockets -> Channel!Conn] /\ \A d \in Channel!Sockets : d # c => slot4'[d] = slot4[d]
      /\ slot4'[c].pc = "up" /\ slot4'[c].waits = slot4[c].waits /\ Channel!SocketFacts(c, slot4'[c])
    BY <1>1, HandlerDone
<1>5. slot4[c].pc \notin Channel!Early /\ slot4'[c].pc \notin Channel!Early BY <1>1, <1>4 DEF Channel!Early
<1> QED BY <1>1, <1>2, <1>3, <1>4, <1>5, HandlerStep

\* A restore that cannot be settled ends the workspace and is never ready.
LEMMA restoreUnsettledKeeps ==
    ASSUME Channel!ChannelInv, NEW c \in Channel!Sockets, Channel!restoreUnsettled(c)
    PROVE  Channel!ChannelInv'
<1> DEFINE f == HubClosed
           k == [f[c] EXCEPT !.pc = "up", !.job = Channel!NoJob]
<1>1. UNCHANGED <<slot1, slot5, slot6, slot7>> /\ slot3' = 0 /\ slot4[c].pc = "check"
    BY DEF Channel!restoreUnsettled, Channel!At
<1>2. slot3 # 0 BY <1>1, ReadyIsBacked, OneIsASocket DEF Channel!restoreUnsettled
<1>3. f \in [Channel!Sockets -> Channel!Conn] /\ \A d \in Channel!Sockets : f[d].waits = {} /\ Kept(slot4[d], f[d])
    BY ClosingKeeps
<1>4. slot4' = [f EXCEPT ![c].pc = "up", ![c].job = Channel!NoJob] BY <1>2 DEF Channel!restoreUnsettled, HubClosed
<1> HIDE DEF f
<1>5. slot4' = [f EXCEPT ![c] = k] BY <1>3, <1>4
<1>6. f[c] \in Channel!Conn BY <1>3
<1>7. k \in Channel!Conn
    <2>1. Channel!NoJob \in Channel!Job BY DEF Channel!NoJob, Channel!Job
    <2> QED BY <1>6, <2>1 DEF Channel!Conn, Channel!Pcs
<1>8. /\ k.pc = "up" /\ k.mode = slot4[c].mode /\ k.waits = {} /\ k.job.frame = "none"
      /\ k.harness = slot4[c].harness /\ k.installed = slot4[c].installed
    BY <1>3, <1>6 DEF Channel!Conn, Channel!NoJob, Kept
<1> HIDE DEF k
<1>9. Channel!SocketFacts(c, k)
    <2>1. Channel!SocketFacts(c, slot4[c]) BY ChannelFacts
    <2>2. "none" \in Channel!BackedFrames BY DEF Channel!BackedFrames, Channel!Work
    <2> QED BY <1>8, <2>1, <2>2 DEF Channel!SocketFacts
<1>10. /\ slot4' \in [Channel!Sockets -> Channel!Conn] /\ slot4'[c] = k /\ \A d \in Channel!Sockets : d # c => slot4'[d] = f[d]
    BY <1>3, <1>5, <1>7
<1>11. Channel!WaitersEnd' BY <1>3, <1>8, <1>10 DEF Channel!WaitersEnd
<1>12. RowKept
    <2>1. slot2 \in Channel!Row /\ (slot2.prepared => slot7.started) BY ChannelFacts
    <2>2. slot2' \in {slot2, [slot2 EXCEPT !.state = "terminating"]}
        BY <2>1 DEF Channel!restoreUnsettled, Channel!Row
    <2> QED BY <2>1, <2>2 DEF RowKept, Channel!Row
<1>13. SupKept BY <1>1, SameIsKept
<1>14. slot5' \in [Channel!Sockets -> Seq(Channel!BackedFrames)] /\ slot6' \in [Channel!Sockets -> Seq(Channel!ToldFrames)]
    BY <1>1, ChannelFacts
<1>15. slot4[c].pc \notin Channel!Early /\ slot4'[c].pc \notin Channel!Early BY <1>1, <1>8, <1>10 DEF Channel!Early
<1>16. \A d \in Channel!Sockets : d # c => Kept(slot4[d], slot4'[d]) BY <1>3, <1>10
<1> QED BY <1>1, <1>9, <1>10, <1>11, <1>12, <1>13, <1>14, <1>15, <1>16, WorkingStep

\* The steps of a registration: the first socket's come before anything else, another one's after it.
LEMMA RegistrationStep ==
    ASSUME Channel!ChannelInv, NEW c \in Channel!Sockets, slot4[c].pc \in {"dial", "open", "register"},
           UNCHANGED <<slot1, slot3>>, SupKept, RowKept, slot4' \in [Channel!Sockets -> Channel!Conn], Channel!SocketFacts(c, slot4'[c]),
           slot4'[c].waits = slot4[c].waits, \A d \in Channel!Sockets : d # c => slot4'[d] = slot4[d],
           slot5' \in [Channel!Sockets -> Seq(Channel!BackedFrames)], slot6' \in [Channel!Sockets -> Seq(Channel!ToldFrames)], slot3 = 0 => slot6' = slot6
    PROVE  Channel!ChannelInv'
<1>1. Channel!WaitersEnd' BY DEF Channel!ChannelInv, Channel!WaitersEnd
<1>2. slot3' \in Channel!Sockets \cup {0} BY ChannelFacts
<1>3. ASSUME NEW d \in Channel!Sockets PROVE Channel!SocketFacts(d, slot4'[d]) BY ChannelFacts
<1>4. slot4'[1].pc \in Channel!Early => slot4[1].pc \in Channel!Early BY OneIsASocket DEF Channel!Early
<1>5. slot4[1].pc \in Channel!Early => c = 1 /\ slot3 = 0 BY DEF Channel!ChannelInv, Channel!Opening
<1>6. slot4[1].pc = "none" => slot4'[1].pc = "none" BY OneIsASocket
<1> QED BY <1>1, <1>2, <1>3, <1>4, <1>5, <1>6, ChannelStep

\* A credential is accepted or refused; the registration is sent after it.
LEMMA AuthenticateKeeps ==
    ASSUME Channel!ChannelInv, NEW c \in Channel!Sockets, Channel!Authenticate(c)
    PROVE  Channel!ChannelInv'
<1>1. slot4[c].pc = "dial" /\ UNCHANGED <<slot1, slot2, slot3, slot6, slot7>>
    BY DEF Channel!Authenticate, Channel!At
<1>2. Channel!SocketFacts(c, slot4[c]) /\ slot5 \in [Channel!Sockets -> Seq(Channel!BackedFrames)] /\ slot6 \in [Channel!Sockets -> Seq(Channel!ToldFrames)]
    BY ChannelFacts
<1>3. (Channel!Goto(c, "open") /\ slot5' = Channel!Sends(slot5, c, <<"registered">>)) \/ (slot4' = Channel!Refused(slot4, c) /\ slot5' = slot5)
    BY DEF Channel!Authenticate, Channel!Refuse
<1>4. slot5' \in [Channel!Sockets -> Seq(Channel!BackedFrames)]
    <2>1. "registered" \in Channel!BackedFrames BY DEF Channel!BackedFrames, Channel!SupFrames, Channel!Work
    <2>2. Channel!Sends(slot5, c, <<"registered">>) \in [Channel!Sockets -> Seq(Channel!BackedFrames)]
        BY <1>2, <2>1, FramesSent
    <2> QED BY <1>2, <1>3, <2>2
<1>5. slot4[c].mode \in {"register", "reconnect"} BY <1>1, <1>2 DEF Channel!SocketFacts
<1>6. /\ slot4' \in [Channel!Sockets -> Channel!Conn] /\ \A d \in Channel!Sockets : d # c => slot4'[d] = slot4[d]
      /\ slot4'[c].waits = slot4[c].waits /\ Channel!SocketFacts(c, slot4'[c])
    <2>1. CASE slot4' = Channel!Refused(slot4, c) BY <2>1, ChannelFacts, Refusal
    <2>2. CASE Channel!Goto(c, "open") BY <1>5, <2>2, GoesOn
    <2> QED BY <1>3, <2>1, <2>2
<1>7. SupKept /\ RowKept BY <1>1, SameIsKept
<1> QED BY <1>1, <1>2, <1>4, <1>6, <1>7, RegistrationStep

\* A registration is taken up once, by the first socket.
LEMMA StartRegistrationKeeps ==
    ASSUME Channel!ChannelInv, NEW c \in Channel!Sockets, Channel!StartRegistration(c)
    PROVE  Channel!ChannelInv'
<1>1. slot4[c].pc = "open" /\ UNCHANGED <<slot1, slot3, slot7>> /\ slot5[c] # <<>> /\ slot5' = [slot5 EXCEPT ![c] = Tail(@)]
    BY DEF Channel!StartRegistration, Channel!At
<1>2. /\ slot4 \in [Channel!Sockets -> Channel!Conn] /\ slot4[c] \in Channel!Conn /\ Channel!SocketFacts(c, slot4[c]) /\ slot2 \in Channel!Row
      /\ slot5 \in [Channel!Sockets -> Seq(Channel!BackedFrames)] /\ slot6 \in [Channel!Sockets -> Seq(Channel!ToldFrames)]
    BY ChannelFacts
<1>3. slot5' \in [Channel!Sockets -> Seq(Channel!BackedFrames)] BY <1>1, <1>2, FrameTaken
<1>4. RowKept /\ slot6' \in [Channel!Sockets -> Seq(Channel!ToldFrames)] /\ (slot3 = 0 => slot6' = slot6)
    <2>1. CASE Channel!beginTermination BY <2>1, TerminationKeeps
    <2>2. CASE UNCHANGED <<slot2, slot6>> BY <1>2, <2>2, SameIsKept
    <2> QED BY <2>1, <2>2 DEF Channel!StartRegistration
<1>5. /\ slot4' \in [Channel!Sockets -> Channel!Conn] /\ \A d \in Channel!Sockets : d # c => slot4'[d] = slot4[d]
      /\ slot4'[c].waits = slot4[c].waits /\ Channel!SocketFacts(c, slot4'[c])
    <2>1. CASE slot4' = Channel!Refused(slot4, c) BY <1>2, <2>1, Refusal
    <2>2. CASE slot4' = [slot4 EXCEPT ![c].pc = slot4[c].mode, ![c].epoch = slot2.epoch + 1]
        <3> DEFINE k == [slot4[c] EXCEPT !.pc = slot4[c].mode, !.epoch = slot2.epoch + 1]
        <3>1. slot4[c].mode \in {"register", "reconnect"} BY <1>1, <1>2 DEF Channel!SocketFacts
        <3>2. slot2.epoch + 1 \in Nat BY <1>2 DEF Channel!Row
        <3>3. k \in Channel!Conn BY <1>2, <3>1, <3>2 DEF Channel!Conn, Channel!Pcs
        <3>4. /\ k.pc = slot4[c].mode /\ k.mode = slot4[c].mode /\ k.waits = slot4[c].waits /\ k.job = slot4[c].job
              /\ k.harness = slot4[c].harness /\ k.installed = slot4[c].installed
            BY <1>2 DEF Channel!Conn
        <3>5. slot4' = [slot4 EXCEPT ![c] = k] BY <1>2, <2>2
        <3> HIDE DEF k
        <3>6. Channel!SocketFacts(c, k) BY <1>2, <3>1, <3>4 DEF Channel!SocketFacts
        <3> QED BY <1>2, <3>3, <3>4, <3>5, <3>6
    <2> QED BY <2>1, <2>2 DEF Channel!StartRegistration, Channel!Refuse
<1>6. SupKept BY <1>1, SameIsKept
<1> QED BY <1>1, <1>3, <1>4, <1>5, <1>6, RegistrationStep

\* sourceCredentialFor: the lease is issued before anybody could have been told that it is revoked.
LEMMA IssueSourceKeeps ==
    ASSUME Channel!ChannelInv, NEW c \in Channel!Sockets, Channel!IssueSource(c)
    PROVE  Channel!ChannelInv'
<1>1. slot4[c].pc = "register" /\ UNCHANGED <<slot1, slot3, slot5, slot6>> BY DEF Channel!IssueSource, Channel!At
<1>2. /\ slot4 \in [Channel!Sockets -> Channel!Conn] /\ Channel!SocketFacts(c, slot4[c]) /\ slot2 \in Channel!Row /\ slot7 \in Channel!Supervisor
      /\ slot5 \in [Channel!Sockets -> Seq(Channel!BackedFrames)] /\ slot6 \in [Channel!Sockets -> Seq(Channel!ToldFrames)]
    BY ChannelFacts
<1>3. CASE Channel!finalize /\ slot4' = Channel!Refused(slot4, c)
    <2>1. /\ slot4' \in [Channel!Sockets -> Channel!Conn] /\ \A d \in Channel!Sockets : d # c => slot4'[d] = slot4[d]
          /\ slot4'[c].waits = slot4[c].waits /\ Channel!SocketFacts(c, slot4'[c])
        BY <1>2, <1>3, Refusal
    <2>2. SupKept /\ RowKept BY <1>3, FinalizeKeeps
    <2> QED BY <1>1, <1>2, <2>1, <2>2, RegistrationStep
<1>4. CASE Channel!Goto(c, "commit") /\ slot2' = [slot2 EXCEPT !.lease = IF slot1.source THEN "issued" ELSE @] /\ slot7' = slot7
    <2>1. /\ slot4' \in [Channel!Sockets -> Channel!Conn] /\ \A d \in Channel!Sockets : d # c => slot4'[d] = slot4[d]
          /\ slot4'[c].pc = "commit" /\ slot4'[c].waits = slot4[c].waits /\ Channel!SocketFacts(c, slot4'[c])
        BY <1>4, GoesOn
    <2>2. c = 1 BY <1>1, <1>2 DEF Channel!SocketFacts
    <2>3. /\ slot4[1].pc \in Channel!Early /\ ~slot7.started /\ slot7.step \in {"dial", "gone"}
          /\ slot7.socket # 0 /\ \A d \in Channel!Sockets : slot6[d] = <<>>
        BY <1>1, <2>2 DEF Channel!ChannelInv, Channel!Opening, Channel!Early
    <2>4. slot2' \in Channel!Row /\ slot2'.prepared = slot2.prepared /\ slot2'.state = slot2.state
        BY <1>2, <1>4 DEF Channel!Row
    <2>5. Channel!Shapes' BY <1>1, <1>4, <2>1, <2>4 DEF Channel!ChannelInv, Channel!Shapes
    <2>6. Channel!WaitersEnd' BY <1>1, <2>1 DEF Channel!ChannelInv, Channel!WaitersEnd
    <2>7. Channel!Opening' BY <1>4, <2>1, <2>2, <2>3 DEF Channel!Opening, Channel!Early
    <2>8. Channel!BackedFrames' = Channel!BackedFrames BY <1>1, <1>4 DEF Channel!BackedFrames
    <2>9. Channel!Evidence'
        <3>1. ASSUME NEW d \in Channel!Sockets PROVE Channel!SocketFacts(d, slot4[d])'
            <4>1. Channel!SocketFacts(d, slot4'[d]) BY <2>1, ChannelFacts
            <4> QED BY <1>1, <1>4, <2>8, <4>1 DEF Channel!SocketFacts
        <3> QED BY <1>1, <1>4, <2>4, <2>8, <3>1 DEF Channel!ChannelInv, Channel!Evidence
    <2>10. Channel!Authority'
        <3>0. <<>> \in Seq(Channel!ToldFrames') OBVIOUS
        <3>1. \A d \in Channel!Sockets : slot6[d] \in Seq(Channel!ToldFrames') BY <2>3, <3>0
        <3>2. slot6' \in [Channel!Sockets -> Seq(Channel!ToldFrames')] BY <1>1, <1>2, <3>1
        <3> QED BY <1>1, <1>4, <2>3, <3>2 DEF Channel!Authority
    <2> QED BY <2>5, <2>6, <2>7, <2>9, <2>10 DEF Channel!ChannelInv
<1> QED BY <1>3, <1>4 DEF Channel!IssueSource, Channel!Refuse

\* AgentConnection.connect: the first socket registers, a later one needs the credential of an acknowledged one.
LEMMA ConnectKeeps ==
    ASSUME Channel!ChannelInv, NEW c \in Channel!Sockets, Channel!Connect(c)
    PROVE  Channel!ChannelInv'
<1> DEFINE m == IF slot7.socket = 0 THEN "register" ELSE "reconnect"
           k == [slot4[c] EXCEPT !.live = TRUE, !.pc = "dial", !.mode = m]
<1>1. /\ UNCHANGED <<slot1, slot2, slot3, slot5, slot6>> /\ c = slot7.socket + 1 /\ (slot7.socket # 0 => slot7.credential)
      /\ slot7' = [slot7 EXCEPT !.socket = c]
    BY DEF Channel!Connect
<1>2. /\ slot4 \in [Channel!Sockets -> Channel!Conn] /\ slot4[c] \in Channel!Conn /\ Channel!SocketFacts(c, slot4[c]) /\ slot7 \in Channel!Supervisor
      /\ \A d \in Channel!Sockets : slot4[d].waits # {} => slot3 = d
    BY ChannelFacts
<1>3. /\ slot7' \in Channel!Supervisor /\ slot7'.started = slot7.started /\ slot7'.installed = slot7.installed
      /\ slot7'.credential = slot7.credential /\ slot7'.socket = c /\ slot7'.step = slot7.step
    BY <1>1, <1>2 DEF Channel!Supervisor
<1>4. m \in {"register", "reconnect"} /\ (m = "register" => c = 1)
    BY <1>1
<1>5. slot4' = [slot4 EXCEPT ![c] = k] BY <1>2 DEF Channel!Connect
<1> HIDE DEF m
<1>6. k \in Channel!Conn BY <1>2, <1>4 DEF Channel!Conn, Channel!Pcs
<1>7. /\ k.pc = "dial" /\ k.mode = m /\ k.waits = slot4[c].waits /\ k.job = slot4[c].job
      /\ k.harness = slot4[c].harness /\ k.installed = slot4[c].installed
    BY <1>2 DEF Channel!Conn
<1> HIDE DEF k
<1>8. slot4' \in [Channel!Sockets -> Channel!Conn] /\ slot4'[c] = k /\ \A d \in Channel!Sockets : d # c => slot4'[d] = slot4[d]
    BY <1>2, <1>5, <1>6
<1>9. Channel!SocketFacts(c, k) BY <1>2, <1>4, <1>7 DEF Channel!SocketFacts
<1>10. Channel!Shapes' BY <1>1, <1>3, <1>8 DEF Channel!ChannelInv, Channel!Shapes
<1>11. Channel!WaitersEnd' BY <1>1, <1>2, <1>7, <1>8 DEF Channel!WaitersEnd
<1>12. Channel!Opening'
    <2>1. c # 0 BY OneIsASocket
    <2>2. CASE slot7.socket = 0
        <3>1. c = 1 /\ slot4[1].pc \in Channel!Early
            BY <1>1, <2>2 DEF Channel!ChannelInv, Channel!Opening, Channel!Early
        <3> QED BY <1>1, <1>3, <1>8, <2>1, <3>1 DEF Channel!ChannelInv, Channel!Opening
    <2>3. CASE slot7.socket # 0
        <3>1. slot4[1].pc \notin Channel!Early BY <1>1, <2>3 DEF Channel!ChannelInv, Channel!Opening
        <3>2. c # 1
            <4>1. slot7.socket \in Channel!Sockets BY <1>2, <2>3 DEF Channel!Supervisor
            <4>2. slot7.socket \in Nat BY <4>1, ChannelBound DEF Channel!Sockets
            <4> QED BY <1>1, <2>3, <4>2
        <3>3. slot4'[1].pc \notin Channel!Early BY <1>8, <3>1, <3>2, OneIsASocket
        <3> QED BY <1>3, <2>1, <3>3 DEF Channel!Opening
    <2> QED BY <2>2, <2>3
<1>13. Channel!BackedFrames' = Channel!BackedFrames /\ Channel!ToldFrames' = Channel!ToldFrames
    BY <1>1, <1>3 DEF Channel!BackedFrames, Channel!ToldFrames
<1>14. Channel!Evidence'
    <2>1. ASSUME NEW d \in Channel!Sockets PROVE Channel!SocketFacts(d, slot4[d])'
        <3>1. Channel!SocketFacts(d, slot4'[d]) BY <1>8, <1>9, ChannelFacts
        <3> QED BY <1>1, <1>3, <1>13, <3>1 DEF Channel!SocketFacts
    <2> QED BY <1>1, <1>3, <1>13, <2>1 DEF Channel!ChannelInv, Channel!Evidence
<1>15. Channel!Authority' BY <1>1, <1>3, <1>13 DEF Channel!ChannelInv, Channel!Authority
<1> QED BY <1>10, <1>11, <1>12, <1>14, <1>15 DEF Channel!ChannelInv

\* A step of the supervisor, which has an acknowledged connection.
LEMMA SupervisorStep ==
    ASSUME Channel!ChannelInv, slot4[1].pc \notin Channel!Early, UNCHANGED <<slot1, slot2, slot3, slot4>>,
           slot7' \in Channel!Supervisor, slot7'.socket = slot7.socket, slot7.started => slot7'.started, slot7.installed => slot7'.installed,
           slot7'.step \in {"run", "waiting"} => slot7'.started,
           slot1.source /\ (slot7'.started \/ slot7'.step = "start") => slot2.lease = "revoked",
           slot5' \in [Channel!Sockets -> Seq(Channel!BackedFrames')], slot6' \in [Channel!Sockets -> Seq(Channel!ToldFrames)]
    PROVE  Channel!ChannelInv'
<1>1. Channel!BackedFrames \subseteq Channel!BackedFrames' BY DEF Channel!BackedFrames
<1>2. Channel!Shapes' BY DEF Channel!ChannelInv, Channel!Shapes
<1>3. Channel!WaitersEnd' BY DEF Channel!ChannelInv, Channel!WaitersEnd
<1>4. Channel!Opening' BY DEF Channel!ChannelInv, Channel!Opening
<1>5. Channel!Evidence'
    <2>1. ASSUME NEW d \in Channel!Sockets PROVE Channel!SocketFacts(d, slot4[d])'
        <3>1. Channel!SocketFacts(d, slot4[d]) BY ChannelFacts
        <3> QED BY <1>1, <3>1 DEF Channel!SocketFacts
    <2> QED BY <2>1 DEF Channel!ChannelInv, Channel!Evidence
<1>6. Channel!ToldFrames' = Channel!ToldFrames BY DEF Channel!ToldFrames
<1>7. Channel!Authority' BY <1>6 DEF Channel!Authority
<1> QED BY <1>2, <1>3, <1>4, <1>5, <1>7 DEF Channel!ChannelInv

\* A frame of the supervisor that says what is true now.
LEMMA SupervisorSends ==
    ASSUME Channel!ChannelInv, Channel!BackedFrames \subseteq Channel!BackedFrames',
           slot5' = slot5 \/ \E f \in Channel!BackedFrames' : Channel!SupSends(<<f>>)
    PROVE  slot5' \in [Channel!Sockets -> Seq(Channel!BackedFrames')]
<1>1. slot5 \in [Channel!Sockets -> Seq(Channel!BackedFrames)] /\ slot7 \in Channel!Supervisor BY ChannelFacts
<1>2. slot5 \in [Channel!Sockets -> Seq(Channel!BackedFrames')] BY <1>1, FramesStay
<1>3. CASE slot5' = slot5 BY <1>2, <1>3
<1>4. CASE \E f \in Channel!BackedFrames' : Channel!SupSends(<<f>>)
    <2>1. PICK f \in Channel!BackedFrames' : Channel!SupSends(<<f>>) BY <1>4
    <2> DEFINE c == IF Channel!Connected THEN slot7.socket ELSE 0
    <2>2. c \in Channel!Sockets \cup {0} BY <1>1 DEF Channel!Supervisor
    <2>3. slot5' = Channel!Sends(slot5, c, <<f>>) BY <2>1 DEF Channel!SupSends
    <2> HIDE DEF c
    <2> QED BY <1>2, <2>1, <2>2, <2>3, FramesSent
<1> QED BY <1>3, <1>4

\* A step that starts or installs nothing.
LEMMA PlainStep ==
    ASSUME Channel!ChannelInv, slot4[1].pc \notin Channel!Early, UNCHANGED <<slot1, slot2, slot3, slot4>>,
           slot7' \in Channel!Supervisor, slot7'.socket = slot7.socket, slot7'.started = slot7.started, slot7'.installed = slot7.installed,
           slot7'.step \in {"run", "waiting"} => slot7.started,
           slot7'.step = "start" => slot7.step = "start" \/ (slot1.source => slot2.lease = "revoked"),
           slot5' = slot5 \/ \E f \in Channel!BackedFrames : Channel!SupSends(<<f>>), slot6' \in [Channel!Sockets -> Seq(Channel!ToldFrames)]
    PROVE  Channel!ChannelInv'
<1>1. Channel!BackedFrames' = Channel!BackedFrames BY DEF Channel!BackedFrames
<1>2. slot5' \in [Channel!Sockets -> Seq(Channel!BackedFrames')] BY <1>1, SupervisorSends
<1>3. slot1.source /\ (slot7'.started \/ slot7'.step = "start") => slot2.lease = "revoked"
    BY DEF Channel!ChannelInv, Channel!Authority
<1> QED BY <1>2, <1>3, SupervisorStep

\* Before its first acknowledgement the supervisor only waits.
LEMMA Acknowledged ==
    ASSUME Channel!ChannelInv, slot7.step \notin {"dial", "gone"} \/ (slot7.socket # 0 /\ slot6[slot7.socket] # <<>>)
    PROVE  slot4[1].pc \notin Channel!Early
<1>1. slot7 \in Channel!Supervisor BY ChannelFacts
<1> QED BY <1>1 DEF Channel!ChannelInv, Channel!Opening, Channel!Supervisor

\* What the supervisor does without an effect on the workload.
LEMMA PrepareKeeps ==
    ASSUME Channel!ChannelInv, Channel!Exit \/ Channel!Preflight \/ Channel!Setup \/ Channel!AskRevocation \/ Channel!Probe \/ Channel!HarnessExits
    PROVE  Channel!ChannelInv'
<1>1. UNCHANGED <<slot1, slot2, slot3, slot4, slot6>> /\ slot7.step \notin {"dial", "gone"}
    BY DEF Channel!Exit, Channel!Preflight, Channel!Setup, Channel!AskRevocation, Channel!Probe,
       Channel!HarnessExits, Channel!Running
<1>2. slot7 \in Channel!Supervisor /\ slot6 \in [Channel!Sockets -> Seq(Channel!ToldFrames)] BY ChannelFacts
<1>3. {"network", "degraded", "resolved", "exited", "setup_complete"} \subseteq Channel!BackedFrames
    BY DEF Channel!BackedFrames, Channel!SupFrames, Channel!Work
<1>4. Channel!Probe => "health" \in Channel!BackedFrames
    <2>1. Channel!Probe => slot7.started BY DEF Channel!Probe, Channel!Running, Channel!ChannelInv, Channel!Evidence
    <2> QED BY <2>1 DEF Channel!BackedFrames, Channel!SupFrames, Channel!Work
<1>5. slot5' = slot5 \/ \E f \in Channel!BackedFrames : Channel!SupSends(<<f>>)
    BY <1>3, <1>4 DEF Channel!Exit, Channel!Preflight, Channel!Setup, Channel!AskRevocation, Channel!Probe,
       Channel!HarnessExits, Channel!Fails
<1>6. \/ slot7' = [slot7 EXCEPT !.reported = TRUE] \/ slot7' = slot7
      \/ \E s \in {"gone", "install", "stopping", "revocation", "exited"} : slot7' = [slot7 EXCEPT !.step = s]
      \/ ~slot1.source /\ slot7' = [slot7 EXCEPT !.step = "start"]
    BY DEF Channel!Exit, Channel!Preflight, Channel!Setup, Channel!AskRevocation, Channel!Probe,
       Channel!HarnessExits, Channel!Fails
<1>7. /\ slot7' \in Channel!Supervisor /\ slot7'.socket = slot7.socket /\ slot7'.started = slot7.started /\ slot7'.installed = slot7.installed
      /\ slot7'.step \in {"run", "waiting"} => slot7.step \in {"run", "waiting"}
      /\ slot7'.step = "start" => slot7.step = "start" \/ ~slot1.source
    BY <1>2, <1>6 DEF Channel!Supervisor, Channel!Steps
<1>8. slot7'.step \in {"run", "waiting"} => slot7.started BY <1>7 DEF Channel!ChannelInv, Channel!Evidence
<1> QED BY <1>1, <1>2, <1>5, <1>7, <1>8, Acknowledged, PlainStep

\* installRestoredCheckpoint reports what it has installed.
LEMMA InstallKeeps ==
    ASSUME Channel!ChannelInv, Channel!Install
    PROVE  Channel!ChannelInv'
<1>1. UNCHANGED <<slot1, slot2, slot3, slot4, slot6>> /\ slot7.step = "install" BY DEF Channel!Install
<1>2. slot7 \in Channel!Supervisor /\ slot6 \in [Channel!Sockets -> Seq(Channel!ToldFrames)] BY ChannelFacts
<1>3. slot4[1].pc \notin Channel!Early BY <1>1, Acknowledged
<1>4. CASE slot1.restore /\ slot7' = [slot7 EXCEPT !.step = "setup", !.installed = TRUE] /\ Channel!SupSends(<<"installed">>)
    <2>1. /\ slot7' \in Channel!Supervisor /\ slot7'.socket = slot7.socket /\ slot7'.started = slot7.started /\ slot7'.installed = TRUE
          /\ slot7'.step = "setup"
        BY <1>2, <1>4 DEF Channel!Supervisor, Channel!Steps
    <2>2. Channel!BackedFrames \subseteq Channel!BackedFrames' /\ "installed" \in Channel!BackedFrames'
        BY <1>1, <1>4, <2>1 DEF Channel!BackedFrames, Channel!SupFrames, Channel!Work
    <2>3. slot5' \in [Channel!Sockets -> Seq(Channel!BackedFrames')] BY <1>4, <2>2, SupervisorSends
    <2>4. slot1.source /\ slot7'.started => slot2.lease = "revoked"
        BY <2>1 DEF Channel!ChannelInv, Channel!Authority
    <2> QED BY <1>1, <1>2, <1>3, <2>1, <2>3, <2>4, SupervisorStep
<1>5. CASE (slot7' = [slot7 EXCEPT !.step = "setup"] /\ slot5' = slot5) \/ Channel!Fails
    <2>1. "exited" \in Channel!BackedFrames BY DEF Channel!BackedFrames, Channel!SupFrames, Channel!Work
    <2>2. slot5' = slot5 \/ \E f \in Channel!BackedFrames : Channel!SupSends(<<f>>) BY <1>5, <2>1 DEF Channel!Fails
    <2>3. /\ slot7' \in Channel!Supervisor /\ slot7'.socket = slot7.socket /\ slot7'.started = slot7.started
          /\ slot7'.installed = slot7.installed /\ slot7'.step \in {"setup", "stopping"}
        BY <1>2, <1>5 DEF Channel!Fails, Channel!Supervisor, Channel!Steps
    <2> QED BY <1>1, <1>2, <1>3, <2>2, <2>3, PlainStep
<1> QED BY <1>4, <1>5 DEF Channel!Install

\* The workload starts where it may.
LEMMA StartKeeps ==
    ASSUME Channel!ChannelInv, Channel!Start
    PROVE  Channel!ChannelInv'
<1>1. UNCHANGED <<slot1, slot2, slot3, slot4, slot6>> /\ slot7.step = "start" BY DEF Channel!Start
<1>2. slot7 \in Channel!Supervisor /\ slot6 \in [Channel!Sockets -> Seq(Channel!ToldFrames)] BY ChannelFacts
<1>3. slot4[1].pc \notin Channel!Early BY <1>1, Acknowledged
<1>4. slot1.source => slot2.lease = "revoked" BY <1>1 DEF Channel!ChannelInv, Channel!Authority
<1>5. CASE Channel!Fails
    <2>1. "exited" \in Channel!BackedFrames BY DEF Channel!BackedFrames, Channel!SupFrames, Channel!Work
    <2>2. slot5' = slot5 \/ \E f \in Channel!BackedFrames : Channel!SupSends(<<f>>) BY <1>5, <2>1 DEF Channel!Fails
    <2>3. /\ slot7' \in Channel!Supervisor /\ slot7'.socket = slot7.socket /\ slot7'.started = slot7.started
          /\ slot7'.installed = slot7.installed /\ slot7'.step = "stopping"
        BY <1>2, <1>5 DEF Channel!Fails, Channel!Supervisor, Channel!Steps
    <2> QED BY <1>1, <1>2, <1>3, <2>2, <2>3, PlainStep
<1>6. CASE ~Channel!Fails
    <2>1. PICK s \in {"run", "waiting"}, f \in {"running", "runtime_ready"} :
              slot7' = [slot7 EXCEPT !.step = s, !.started = TRUE] /\ Channel!SupSends(<<f>>)
        BY <1>6 DEF Channel!Start
    <2>2. slot7' \in Channel!Supervisor /\ slot7'.socket = slot7.socket /\ slot7'.started = TRUE /\ slot7'.installed = slot7.installed
        BY <1>2, <2>1 DEF Channel!Supervisor, Channel!Steps
    <2>3. Channel!BackedFrames \subseteq Channel!BackedFrames' /\ f \in Channel!BackedFrames'
        BY <1>1, <2>1, <2>2 DEF Channel!BackedFrames, Channel!SupFrames, Channel!Work
    <2>4. slot5' \in [Channel!Sockets -> Seq(Channel!BackedFrames')] BY <2>1, <2>3, SupervisorSends
    <2> QED BY <1>1, <1>2, <1>3, <1>4, <2>2, <2>4, SupervisorStep
<1> QED BY <1>5, <1>6

\* Frames of the server.
LEMMA HandleKeeps ==
    ASSUME Channel!ChannelInv, Channel!Registered \/ Channel!Handle
    PROVE  Channel!ChannelInv'
<1>1. UNCHANGED <<slot1, slot2, slot3, slot4>> /\ slot7.socket # 0 /\ slot6[slot7.socket] # <<>>
    BY DEF Channel!Registered, Channel!Handle
<1>2. slot7 \in Channel!Supervisor /\ slot6 \in [Channel!Sockets -> Seq(Channel!ToldFrames)] BY ChannelFacts
<1>3. slot7.socket \in Channel!Sockets BY <1>1, <1>2 DEF Channel!Supervisor
<1>4. slot6' \in [Channel!Sockets -> Seq(Channel!ToldFrames)] /\ Head(slot6[slot7.socket]) \in Channel!ToldFrames
    <2>1. slot6' = [slot6 EXCEPT ![slot7.socket] = Tail(@)] BY DEF Channel!Registered, Channel!Handle
    <2> QED BY <1>1, <1>2, <1>3, <2>1, FrameTaken
<1>5. slot4[1].pc \notin Channel!Early BY <1>1, Acknowledged
<1>6. "answer" \in Channel!BackedFrames /\ (slot7.started => "runtime_ready" \in Channel!BackedFrames)
    BY DEF Channel!BackedFrames, Channel!SupFrames, Channel!Work
<1>7. slot7.step \in {"run", "waiting"} => slot7.started BY DEF Channel!ChannelInv, Channel!Evidence
<1>8. slot5' = slot5 \/ \E f \in Channel!BackedFrames : Channel!SupSends(<<f>>)
    BY <1>6, <1>7 DEF Channel!Registered, Channel!Handle
<1>9. \/ slot7' = slot7 \/ slot7' = [slot7 EXCEPT !.quiet = TRUE] \/ slot7' = [slot7 EXCEPT !.step = "stopping"]
      \/ Head(slot6[slot7.socket]) = "setup_ack" /\ slot7' = [slot7 EXCEPT !.step = "start"]
      \/ \E s \in {"preflight", slot7.step} : slot7' = [slot7 EXCEPT !.credential = TRUE, !.exec = TRUE, !.step = s]
    <2>1. CASE Channel!Registered BY <2>1 DEF Channel!Registered
    <2>2. CASE Channel!Handle
        <3>1. [slot7 EXCEPT !.step = slot7.step] = slot7 BY <1>2 DEF Channel!Supervisor
        <3> QED BY <2>2, <3>1 DEF Channel!Handle
    <2> QED BY <2>1, <2>2
<1>10. Head(slot6[slot7.socket]) = "setup_ack" => (slot1.source => slot2.lease = "revoked")
    BY <1>4 DEF Channel!ToldFrames
<1>11. /\ slot7' \in Channel!Supervisor /\ slot7'.socket = slot7.socket /\ slot7'.started = slot7.started /\ slot7'.installed = slot7.installed
       /\ slot7'.step \in {"run", "waiting"} => slot7.step \in {"run", "waiting"}
       /\ slot7'.step = "start" => slot7.step = "start" \/ Head(slot6[slot7.socket]) = "setup_ack"
    BY <1>2, <1>9 DEF Channel!Supervisor, Channel!Steps
<1> QED BY <1>1, <1>4, <1>5, <1>7, <1>8, <1>10, <1>11, PlainStep

\* At first there is nothing but a row that waits for its supervisor.
LEMMA ChannelInitial ==
    ASSUME Channel!ChInit
    PROVE  Channel!ChannelInv
<1>1. Channel!NewSocket \in Channel!Conn /\ Channel!NewSocket.pc = "none" /\ Channel!NewSocket.mode = "none" /\ Channel!NewSocket.waits = {}
      /\ Channel!NewSocket.job.frame = "none" /\ Channel!NewSocket.harness = FALSE /\ Channel!NewSocket.installed = FALSE
    BY DEF Channel!NewSocket, Channel!Conn, Channel!Pcs, Channel!NoJob, Channel!Job
<1>2. slot4 = [c \in Channel!Sockets |-> Channel!NewSocket] /\ slot3 = 0 BY DEF Channel!ChInit
<1>3. slot2 \in Channel!Row /\ slot2.state = "provisioning" /\ slot2.prepared = FALSE
    BY DEF Channel!ChInit, Channel!Row, Channel!Live
<1>4. /\ slot7 \in Channel!Supervisor /\ slot7.step = "dial" /\ slot7.started = FALSE /\ slot7.credential = FALSE /\ slot7.socket = 0
    BY DEF Channel!ChInit, Channel!Supervisor, Channel!Steps
<1>5. Channel!Shapes BY <1>1, <1>2, <1>3, <1>4 DEF Channel!ChInit, Channel!Shapes
<1>6. Channel!WaitersEnd BY <1>1, <1>2 DEF Channel!WaitersEnd
<1>7. Channel!Opening BY <1>1, <1>2, <1>4, OneIsASocket DEF Channel!ChInit, Channel!Opening
<1>8. Channel!Evidence
    <2>1. "none" \in Channel!BackedFrames BY DEF Channel!BackedFrames, Channel!Work
    <2>2. Channel!SocketFacts(1, Channel!NewSocket) /\ \A c \in Channel!Sockets : Channel!SocketFacts(c, Channel!NewSocket)
        BY <1>1, <2>1 DEF Channel!SocketFacts
    <2>3. <<>> \in Seq(Channel!BackedFrames) OBVIOUS
    <2> QED BY <1>2, <1>3, <1>4, <2>2, <2>3 DEF Channel!ChInit, Channel!Evidence
<1>9. Channel!Authority
    <2>1. <<>> \in Seq(Channel!ToldFrames) OBVIOUS
    <2> QED BY <1>4, <2>1 DEF Channel!ChInit, Channel!Authority
<1> QED BY <1>5, <1>6, <1>7, <1>8, <1>9 DEF Channel!ChannelInv

\* Every step keeps the invariant.
LEMMA ChannelSteps ==
    ASSUME Channel!ChannelInv, Channel!ChNext
    PROVE  Channel!ChannelInv'
<1>1. CASE Channel!CloseHub \/ Channel!Terminate \/ Channel!Finalize BY <1>1, CloseHubKeeps, TerminateKeeps
<1>2. CASE Channel!Closed \/ Channel!HangUp BY <1>2, HangUpKeeps
<1>3. CASE Channel!Exit \/ Channel!Preflight \/ Channel!Setup \/ Channel!AskRevocation \/ Channel!Probe \/ Channel!HarnessExits
    BY <1>3, PrepareKeeps
<1>4. CASE Channel!Registered \/ Channel!Handle BY <1>4, HandleKeeps
<1>5. CASE Channel!Install \/ Channel!Start BY <1>5, InstallKeeps, StartKeeps
<1>6. CASE \E w \in Channel!Waits : Channel!Request(w) BY <1>6, RequestKeeps
<1>7. ASSUME NEW c \in Channel!Sockets, Channel!Authenticate(c) \/ Channel!StartRegistration(c) \/ Channel!IssueSource(c) \/ Channel!CommitEpoch(c) \/ Channel!attach(c)
                                \/ Channel!DeliverCredentials(c) \/ Channel!Acknowledge(c) \/ Channel!Connect(c)
      PROVE  Channel!ChannelInv'
    BY <1>7, AuthenticateKeeps, StartRegistrationKeeps, IssueSourceKeeps, CommitEpochKeeps, attachKeeps,
       DeliverCredentialsKeeps, AcknowledgeKeeps, ConnectKeeps
<1>8. ASSUME NEW c \in Channel!Sockets, Channel!Lose(c) \/ Channel!onClose(c) \/ Channel!LateLeave(c) \/ Channel!MarkAway(c) \/ Channel!RequestTimeout(c)
      PROVE  Channel!ChannelInv'
    BY <1>8, LoseKeeps, onCloseKeeps, MarkAwayKeeps, RequestTimeoutKeeps
<1>9. ASSUME NEW c \in Channel!Sockets, Channel!Receive(c) \/ Channel!Report(c) \/ Channel!ProcessState(c) \/ Channel!RuntimeReady(c) \/ Channel!CheckpointInstalled(c)
                                \/ Channel!Ignored(c) \/ Channel!RevokeSetup(c) \/ Channel!AckSetup(c) \/ Channel!maybeMarkReady(c) \/ Channel!restoreUnsettled(c)
      PROVE  Channel!ChannelInv'
    BY <1>9, ReceiveKeeps, ReportKeeps, ProcessStateKeeps, RuntimeReadyKeeps, CheckpointInstalledKeeps,
       RevokeSetupKeeps, AckSetupKeeps, maybeMarkReadyKeeps, restoreUnsettledKeeps
<1> QED BY <1>1, <1>2, <1>3, <1>4, <1>5, <1>6, <1>7, <1>8, <1>9 DEF Channel!ChNext

\* A step that changes none of it keeps the invariant.
LEMMA ChannelStutters ==
    ASSUME Channel!ChannelInv, UNCHANGED <<slot1, slot2, slot3, slot4, slot5, slot6, slot7>>
    PROVE  Channel!ChannelInv'
<1>1. Channel!BackedFrames' = Channel!BackedFrames BY DEF Channel!BackedFrames
<1>2. Channel!ToldFrames' = Channel!ToldFrames BY DEF Channel!ToldFrames
<1>3. Channel!Shapes' BY DEF Channel!ChannelInv, Channel!Shapes
<1>4. Channel!WaitersEnd' BY DEF Channel!ChannelInv, Channel!WaitersEnd
<1>5. Channel!Opening' BY DEF Channel!ChannelInv, Channel!Opening
<1>6. Channel!Evidence' BY <1>1 DEF Channel!ChannelInv, Channel!Evidence, Channel!SocketFacts
<1>7. Channel!Authority' BY <1>2 DEF Channel!ChannelInv, Channel!Authority
<1> QED BY <1>3, <1>4, <1>5, <1>6, <1>7 DEF Channel!ChannelInv

--------------------------------------------------------------------------------
\* A workspace that ended left no credential that still works, however many mints were late, lost or
\* retried, and no renewal revokes the credential the supervisor's file holds (lease-service.ts).
THEOREM LeasesSafe == ServerSpec => []LeasesAreSafe
<1> DEFINE Inv == part = "leases" => Leases!LeaseInv
<1>1. MCInit => Inv BY LeaseBound, Leases!LeaseInitial DEF MCInit
<1>2. Inv /\ [MCNext]_serverVars => Inv'
    <2> SUFFICES ASSUME Inv, [MCNext]_serverVars, part' = "leases" PROVE Leases!LeaseInv' OBVIOUS
    <2>1. CASE MCNext BY <2>1, Leases!LeaseSteps DEF MCNext
    <2>2. CASE UNCHANGED serverVars
        <3>1. UNCHANGED Leases!leaseVars BY <2>2 DEF serverVars, Leases!leaseVars
        <3> QED BY <2>2, <3>1, Leases!LeaseStutters DEF serverVars
    <2> QED BY <2>1, <2>2
<1>3. Inv => LeasesAreSafe BY Leases!LeasesHold DEF LeasesAreSafe
<1> QED BY <1>1, <1>2, <1>3, PTL DEF ServerSpec

\* Whatever issuances, rotations, revocations and changes of principals overlap, a disabled principal
\* has no key left, owner authority and delegation go back to a bootstrap or an owner, and no key
\* outlives its issuer (key-inventory.ts, key-rotation.ts, key-revocation.ts); and the consumer of a
\* managed key always holds one that is accepted (managed-keys.ts).
THEOREM KeysGranted == ServerSpec => []KeysAreGranted
<1> DEFINE Inv == (part = "keys" => AuthorityInv) /\ (part = "managed" => Managed!ManagedInv)
<1>1. MCInit => Inv
    <2>1. Managed!MarginsSuffice BY RenewalMargins DEF Managed!MarginsSuffice
    <2> QED BY <2>1, AuthorityInitial, Managed!ManagedInitial DEF MCInit
<1>2. Inv /\ [MCNext]_serverVars => Inv'
    <2> SUFFICES ASSUME Inv, [MCNext]_serverVars PROVE Inv' OBVIOUS
    <2>1. CASE MCNext
        <3>1. CASE part = "keys" BY <2>1, <3>1, AuthoritySteps DEF MCNext
        <3>2. CASE part = "managed" BY <2>1, <3>2, Managed!ManagedSteps DEF MCNext
        <3>3. CASE part \notin {"keys", "managed"} BY <2>1, <3>3 DEF MCNext
        <3> QED BY <3>1, <3>2, <3>3
    <2>2. CASE UNCHANGED serverVars
        <3>1. UNCHANGED Managed!managedVars BY <2>2 DEF serverVars, Managed!managedVars
        <3>2. UNCHANGED <<part, slot1, slot2, slot3, slot4>> BY <2>2 DEF serverVars
        <3>3. AuthorityInv => AuthorityInv' BY <3>2 DEF AuthorityInv
        <3>4. Managed!ManagedInv => Managed!ManagedInv' BY <3>1, Managed!ManagedStutters
        <3> QED BY <3>2, <3>3, <3>4
    <2> QED BY <2>1, <2>2
<1>3. Inv => KeysAreGranted
    <2>1. AuthorityInv => Keys!AuthorityIsGranted
        BY DEF AuthorityInv, GrantsOK, RowGranted, Keys!AuthorityIsGranted, Keys!Issued
    <2>2. Managed!ManagedInv => Managed!ConsumerIsServed BY Managed!ManagedServes
    <2> QED BY <2>1, <2>2 DEF KeysAreGranted
<1> QED BY <1>1, <1>2, <1>3, PTL DEF ServerSpec

\* Whatever sockets connect, drop and come back, and whatever frames are lost or late, a waiter sits on
\* the connection that the hub has, so a close, a takeover or a timer answers it (hub.ts);
\* and a row is ready only of a workload that runs, over the restored files and after the source lease
\* was revoked, where there are any (runtime-readiness.ts, ws-frame-handler.ts).
THEOREM ChannelHonest == ServerSpec => []ChannelIsHonest
<1> DEFINE Inv == part = "channel" => Channel!ChannelInv
<1>1. MCInit => Inv BY ChannelInitial DEF MCInit
<1>2. Inv /\ [MCNext]_serverVars => Inv'
    <2> SUFFICES ASSUME Inv, [MCNext]_serverVars, part' = "channel" PROVE Channel!ChannelInv' OBVIOUS
    <2>1. CASE MCNext BY <2>1, ChannelSteps DEF MCNext
    <2>2. CASE UNCHANGED serverVars
        <3>1. UNCHANGED <<part, slot1, slot2, slot3, slot4, slot5, slot6, slot7>> BY <2>2 DEF serverVars
        <3> QED BY <3>1, ChannelStutters
    <2> QED BY <2>1, <2>2
<1>3. Inv => ChannelIsHonest
    BY DEF ChannelIsHonest, Channel!ChannelInv, Channel!Evidence, Channel!Authority, Channel!ReadyIsEarned
<1> QED BY <1>1, <1>2, <1>3, PTL DEF ServerSpec

--------------------------------------------------------------------------------
(* Terminals.  slot1 holds the rows, slot2 the bridges, slot3 the sessions *)
(* being closed, slot4 the openings under way, slot5 the shells, slot6     *)
(* whether the channel is up, slot7 and slot8 the frames under way, slot11 *)
(* the sessions that a client came back to early.                          *)

\* The instances' Cardinality is the one of the library's theorems.
LEMMA SameSize == ASSUME NEW S PROVE Terminal!Cardinality(S) = Cardinality(S)
BY DEF Terminal!Cardinality, Cardinality

\* What the steps below start from.
LEMMA TerminalFacts ==
    ASSUME Terminal!TerminalInv
    PROVE  /\ Terminal!TerminalShape /\ Terminal!FirstStarts /\ Terminal!Limits
           /\ \A s \in Session : Terminal!SessionFacts(s)
BY DEF Terminal!TerminalInv

\* What Append and Tail do to a queue, element by element.
LEMMA FrameAppended ==
    ASSUME NEW S, NEW q \in Seq(S), NEW m \in S
    PROVE  /\ Append(q, m) \in Seq(S) /\ Len(Append(q, m)) = Len(q) + 1 /\ DOMAIN q = 1..Len(q)
           /\ DOMAIN Append(q, m) = 1..Len(Append(q, m)) /\ Len(q) \in Nat /\ Append(q, m)[Len(q) + 1] = m
           /\ \A i \in DOMAIN q : Append(q, m)[i] = q[i]
OBVIOUS

\* The head leaves and the others move up by one.
LEMMA HeadGone ==
    ASSUME NEW S, NEW q \in Seq(S), q # <<>>
    PROVE  /\ Head(q) \in S /\ Tail(q) \in Seq(S) /\ Head(q) = q[1] /\ 1 \in DOMAIN q
           /\ \A i \in DOMAIN Tail(q) : i \in Nat /\ i + 1 \in DOMAIN q /\ Tail(q)[i] = q[i + 1] /\ 1 < i + 1
           /\ \A i \in DOMAIN q : i \in Nat /\ (i = 1 \/ (i - 1 \in DOMAIN Tail(q) /\ Tail(q)[i - 1] = q[i]))
OBVIOUS

\* A frame to the supervisor is added to those under way.
LEMMA FrameTold ==
    ASSUME Terminal!TerminalShape, NEW m \in Terminal!ToShell, Terminal!Tell(m), slot11 \subseteq slot11'
    PROVE  /\ slot7' \in Seq(Terminal!ToShell) /\ (~slot6 => slot7' = <<>>)
           /\ \A s, a : Terminal!Opens(s, a)' <=> Terminal!Opens(s, a) \/ (slot6 /\ m = Terminal!Reopen(s, a))
           /\ Terminal!FirstStarts /\ (m.type = "open" /\ ~m.reattach /\ m.session \notin slot11 => ~Terminal!Opens(m.session, TRUE) /\ ~Terminal!Opens(m.session, FALSE))
              => Terminal!FirstStarts'
<1>1. CASE ~slot6 BY <1>1 DEF Terminal!TerminalShape, Terminal!Tell, Terminal!Opens, Terminal!FirstStarts
<1>2. CASE slot6
    <2>1. slot7' = Append(slot7, m) /\ slot7 \in Seq(Terminal!ToShell) BY <1>2 DEF Terminal!Tell, Terminal!TerminalShape
    <2>2. /\ slot7' \in Seq(Terminal!ToShell) /\ Len(slot7') = Len(slot7) + 1 /\ DOMAIN slot7 = 1..Len(slot7) /\ DOMAIN slot7' = 1..Len(slot7')
          /\ Len(slot7) \in Nat /\ slot7'[Len(slot7) + 1] = m /\ \A i \in DOMAIN slot7 : slot7'[i] = slot7[i]
        BY <2>1, FrameAppended
    <2>3. \A i \in DOMAIN slot7' : i \in DOMAIN slot7 \/ i = Len(slot7) + 1 BY <2>2
    <2>4. \A i \in DOMAIN slot7 : i \in DOMAIN slot7' BY <2>2
    <2>5. Len(slot7) + 1 \in DOMAIN slot7' BY <2>2
    <2>6. ASSUME NEW s, NEW a PROVE Terminal!Opens(s, a)' <=> Terminal!Opens(s, a) \/ m = Terminal!Reopen(s, a)
        <3> HIDE DEF Terminal!Reopen
        <3>1. Terminal!Opens(s, a)' <=> \E i \in DOMAIN slot7' : slot7'[i] = Terminal!Reopen(s, a) BY DEF Terminal!Opens, Terminal!Reopen
        <3> QED BY <2>2, <2>3, <2>4, <2>5, <3>1 DEF Terminal!Opens
    <2>7. ASSUME Terminal!FirstStarts, m.type = "open" /\ ~m.reattach /\ m.session \notin slot11 => ~Terminal!Opens(m.session, TRUE) /\ ~Terminal!Opens(m.session, FALSE)
          PROVE  Terminal!FirstStarts'
        <3>1. SUFFICES ASSUME NEW i \in DOMAIN slot7', NEW j \in DOMAIN slot7', i < j, slot7'[i].type = "open",
                              slot7'[j].type = "open", slot7'[i].session = slot7'[j].session, slot7'[j].session \notin slot11'
                       PROVE  slot7'[j].reattach
            BY DEF Terminal!FirstStarts
        <3>2. i \in DOMAIN slot7 BY <2>2, <2>3, <3>1
        <3>3. CASE j \in DOMAIN slot7 BY <2>2, <2>7, <3>1, <3>2, <3>3 DEF Terminal!FirstStarts
        <3>4. CASE j = Len(slot7) + 1
            <4>1. slot7[i] \in Terminal!ToShell /\ slot7[i].type = "open" /\ slot7[i].session = m.session BY <2>1, <2>2, <3>1, <3>2, <3>4
            <4>2. slot7[i] = Terminal!Reopen(m.session, slot7[i].reattach) /\ slot7[i].reattach \in BOOLEAN BY <4>1 DEF Terminal!ToShell, Terminal!Reopen
            <4>3. Terminal!Opens(m.session, TRUE) \/ Terminal!Opens(m.session, FALSE) BY <3>2, <4>2 DEF Terminal!Opens
            <4>4. m.reattach \in BOOLEAN /\ slot7'[j] = m BY <2>2, <3>4 DEF Terminal!ToShell
            <4> QED BY <2>7, <3>1, <4>3, <4>4
        <3> QED BY <2>3, <3>3, <3>4
    <2> QED BY <1>2, <2>2, <2>6, <2>7
<1> QED BY <1>1, <1>2 DEF Terminal!TerminalShape

\* A frame of the supervisor is added to those under way.
LEMMA FrameSaid ==
    ASSUME Terminal!TerminalShape, NEW m \in Terminal!FromShell, Terminal!Say(m)
    PROVE  /\ slot8' \in Seq(Terminal!FromShell) /\ (~slot6 => slot8' = <<>>)
           /\ \A s : Terminal!Closes(s)' <=> Terminal!Closes(s) \/ (slot6 /\ m = [type |-> "closed", session |-> s])
<1>1. CASE ~slot6 BY <1>1 DEF Terminal!TerminalShape, Terminal!Say, Terminal!Closes
<1>2. CASE slot6
    <2>1. slot8' = Append(slot8, m) /\ slot8 \in Seq(Terminal!FromShell) BY <1>2 DEF Terminal!Say, Terminal!TerminalShape
    <2>2. /\ slot8' \in Seq(Terminal!FromShell) /\ Len(slot8') = Len(slot8) + 1 /\ DOMAIN slot8 = 1..Len(slot8) /\ DOMAIN slot8' = 1..Len(slot8')
          /\ Len(slot8) \in Nat /\ slot8'[Len(slot8) + 1] = m /\ \A i \in DOMAIN slot8 : slot8'[i] = slot8[i]
        BY <2>1, FrameAppended
    <2>3. \A i \in DOMAIN slot8' : i \in DOMAIN slot8 \/ i = Len(slot8) + 1 BY <2>2
    <2>4. \A i \in DOMAIN slot8 : i \in DOMAIN slot8' BY <2>2
    <2>5. Len(slot8) + 1 \in DOMAIN slot8' BY <2>2
    <2>6. ASSUME NEW s PROVE Terminal!Closes(s)' <=> Terminal!Closes(s) \/ m = [type |-> "closed", session |-> s]
        <3> DEFINE z == [type |-> "closed", session |-> s]
        <3>1. (Terminal!Closes(s)' <=> \E i \in DOMAIN slot8' : slot8'[i] = z) /\ (Terminal!Closes(s) <=> \E i \in DOMAIN slot8 : slot8[i] = z) BY DEF Terminal!Closes
        <3> HIDE DEF z
        <3>2. Terminal!Closes(s)' <=> Terminal!Closes(s) \/ m = z BY <2>2, <2>3, <2>4, <2>5, <3>1
        <3> QED BY <3>2 DEF z
    <2> QED BY <1>2, <2>2, <2>6
<1> QED BY <1>1, <1>2 DEF Terminal!TerminalShape

\* A session that a step does not touch.
LEMMA SessionStays ==
    ASSUME NEW s \in Session, Terminal!SessionFacts(s), slot1'[s] = slot1[s], slot2'[s].up = slot2[s].up, slot2'[s].started = slot2[s].started,
           slot5'[s].up = slot5[s].up, slot5'[s].exited = slot5[s].exited, Terminal!Closes(s)' <=> Terminal!Closes(s),
           Terminal!Opens(s, TRUE)' <=> Terminal!Opens(s, TRUE), Terminal!Opens(s, FALSE)' <=> Terminal!Opens(s, FALSE), s \in slot3' <=> s \in slot3,
           slot6' = slot6, slot11 \subseteq slot11', \A c \in Client : Terminal!Maker(c, s)' <=> Terminal!Maker(c, s),
           \A c \in Client : slot4'[c].session = s <=> slot4[c].session = s
    PROVE  Terminal!SessionFacts(s)'
<1>1. s \notin slot11' => Terminal!OrderlyFacts(s)' BY DEF Terminal!SessionFacts, Terminal!OrderlyFacts, Terminal!Fresh
<1> QED BY <1>1 DEF Terminal!SessionFacts

\* The oldest frame to the supervisor is taken: an open frame leaves no other first one of its session.
LEMMA FrameHeard ==
    ASSUME Terminal!TerminalShape, Terminal!FirstStarts, slot7 # <<>>, slot7' = Tail(slot7), slot11' = slot11, NEW f, f = Head(slot7)
    PROVE  /\ f \in Terminal!ToShell /\ slot7' \in Seq(Terminal!ToShell) /\ Terminal!FirstStarts' /\ slot6
           /\ \A s, a : Terminal!Opens(s, a)' => Terminal!Opens(s, a)
           /\ \A s, a : Terminal!Opens(s, a) => Terminal!Opens(s, a)' \/ f = Terminal!Reopen(s, a)
           /\ f.type = "open" => Terminal!Opens(f.session, f.reattach) /\ (f.session \notin slot11 => ~Terminal!Opens(f.session, FALSE)')
<1>1. slot7 \in Seq(Terminal!ToShell) /\ slot6 BY DEF Terminal!TerminalShape
<1>2. /\ f \in Terminal!ToShell /\ slot7' \in Seq(Terminal!ToShell) /\ f = slot7[1] /\ 1 \in DOMAIN slot7
      /\ \A i \in DOMAIN slot7' : i \in Nat /\ i + 1 \in DOMAIN slot7 /\ slot7'[i] = slot7[i + 1] /\ 1 < i + 1
      /\ \A i \in DOMAIN slot7 : i \in Nat /\ (i = 1 \/ (i - 1 \in DOMAIN slot7' /\ slot7'[i - 1] = slot7[i]))
    BY <1>1, HeadGone
<1>3. ASSUME NEW s, NEW a
      PROVE  (Terminal!Opens(s, a)' => Terminal!Opens(s, a)) /\ (Terminal!Opens(s, a) => Terminal!Opens(s, a)' \/ f = Terminal!Reopen(s, a))
    <2> DEFINE z == Terminal!Reopen(s, a)
    <2>1. (Terminal!Opens(s, a)' <=> \E i \in DOMAIN slot7' : slot7'[i] = z) /\ (Terminal!Opens(s, a) <=> \E i \in DOMAIN slot7 : slot7[i] = z)
        BY DEF Terminal!Opens, Terminal!Reopen
    <2> HIDE DEF z
    <2>2. ASSUME NEW i \in DOMAIN slot7', slot7'[i] = z PROVE Terminal!Opens(s, a) BY <1>2, <2>1, <2>2
    <2>3. ASSUME NEW i \in DOMAIN slot7, slot7[i] = z PROVE (\E j \in DOMAIN slot7' : slot7'[j] = z) \/ f = z BY <1>2, <2>3
    <2>4. (Terminal!Opens(s, a)' => Terminal!Opens(s, a)) /\ (Terminal!Opens(s, a) => Terminal!Opens(s, a)' \/ f = z) BY <2>1, <2>2, <2>3
    <2> QED BY <2>4 DEF z
<1>4. Terminal!FirstStarts' BY <1>2 DEF Terminal!FirstStarts
<1>5. ASSUME f.type = "open"
      PROVE  Terminal!Opens(f.session, f.reattach) /\ (f.session \notin slot11 => ~Terminal!Opens(f.session, FALSE)')
    <2>1. f = Terminal!Reopen(f.session, f.reattach) BY <1>2, <1>5 DEF Terminal!ToShell, Terminal!Reopen
    <2>2. Terminal!Opens(f.session, f.reattach) BY <1>2, <2>1 DEF Terminal!Opens
    <2>3. ASSUME NEW i \in DOMAIN slot7', slot7'[i] = Terminal!Reopen(f.session, FALSE), f.session \notin slot11 PROVE FALSE
        <3>1. /\ slot7[i + 1].type = "open" /\ slot7[i + 1].session = f.session /\ ~slot7[i + 1].reattach
            BY <1>2, <2>3 DEF Terminal!Reopen
        <3> QED BY <1>2, <1>5, <2>3, <3>1 DEF Terminal!FirstStarts
    <2>4. f.session \notin slot11 => ~Terminal!Opens(f.session, FALSE)'
        BY <2>3 DEF Terminal!Opens, Terminal!Reopen
    <2> QED BY <2>2, <2>4
<1> QED BY <1>1, <1>2, <1>3, <1>4, <1>5

\* The oldest frame of the supervisor is taken.
LEMMA FrameSeen ==
    ASSUME Terminal!TerminalShape, slot8 # <<>>, slot8' = Tail(slot8), NEW f, f = Head(slot8)
    PROVE  /\ f \in Terminal!FromShell /\ slot8' \in Seq(Terminal!FromShell)
           /\ \A s : Terminal!Closes(s)' => Terminal!Closes(s)
           /\ \A s : Terminal!Closes(s) => Terminal!Closes(s)' \/ f = [type |-> "closed", session |-> s]
           /\ f.type = "closed" => Terminal!Closes(f.session)
<1>1. slot8 \in Seq(Terminal!FromShell) BY DEF Terminal!TerminalShape
<1>2. /\ f \in Terminal!FromShell /\ slot8' \in Seq(Terminal!FromShell) /\ f = slot8[1] /\ 1 \in DOMAIN slot8
      /\ \A i \in DOMAIN slot8' : i \in Nat /\ i + 1 \in DOMAIN slot8 /\ slot8'[i] = slot8[i + 1] /\ 1 < i + 1
      /\ \A i \in DOMAIN slot8 : i \in Nat /\ (i = 1 \/ (i - 1 \in DOMAIN slot8' /\ slot8'[i - 1] = slot8[i]))
    BY <1>1, HeadGone
<1>3. ASSUME NEW s
      PROVE  (Terminal!Closes(s)' => Terminal!Closes(s)) /\ (Terminal!Closes(s) => Terminal!Closes(s)' \/ f = [type |-> "closed", session |-> s])
    <2> DEFINE z == [type |-> "closed", session |-> s]
    <2>1. (Terminal!Closes(s)' <=> \E i \in DOMAIN slot8' : slot8'[i] = z) /\ (Terminal!Closes(s) <=> \E i \in DOMAIN slot8 : slot8[i] = z) BY DEF Terminal!Closes
    <2> HIDE DEF z
    <2>2. ASSUME NEW i \in DOMAIN slot8', slot8'[i] = z PROVE Terminal!Closes(s) BY <1>2, <2>1, <2>2
    <2>3. ASSUME NEW i \in DOMAIN slot8, slot8[i] = z PROVE (\E j \in DOMAIN slot8' : slot8'[j] = z) \/ f = z BY <1>2, <2>3
    <2>4. (Terminal!Closes(s)' => Terminal!Closes(s)) /\ (Terminal!Closes(s) => Terminal!Closes(s)' \/ f = z) BY <2>1, <2>2, <2>3
    <2> QED BY <2>4 DEF z
<1>4. ASSUME f.type = "closed" PROVE Terminal!Closes(f.session)
    <2>1. f = [type |-> "closed", session |-> f.session] BY <1>2, <1>4 DEF Terminal!FromShell
    <2> QED BY <1>2, <2>1 DEF Terminal!Closes
<1> QED BY <1>2, <1>3, <1>4

\* Neither side has more than its limit when it loses sessions or takes one below the limit.
LEMMA WithinLimit ==
    ASSUME NEW A \in SUBSET Session, NEW B \in SUBSET Session, A \subseteq B \/ (Cardinality(B) < MaxSessions /\ \E s : A \subseteq B \cup {s}),
           Cardinality(B) <= MaxSessions
    PROVE  Cardinality(A) <= MaxSessions
<1>1. IsFiniteSet(B) /\ IsFiniteSet(A) BY SessionBounds, FS_Subset
<1>2. Cardinality(A) \in Nat /\ Cardinality(B) \in Nat BY <1>1, FS_CardinalityType
<1>3. CASE A \subseteq B
    <2>1. Cardinality(A) <= Cardinality(B) BY <1>1, <1>3, FS_Subset
    <2> QED BY <1>2, <2>1, SessionBounds
<1>4. ASSUME NEW s, A \subseteq B \cup {s}, Cardinality(B) < MaxSessions PROVE Cardinality(A) <= MaxSessions
    <2>1. IsFiniteSet(B \cup {s}) /\ Cardinality(B \cup {s}) <= Cardinality(B) + 1 BY <1>1, <1>2, FS_AddElement
    <2>2. Cardinality(A) <= Cardinality(B \cup {s}) /\ Cardinality(B \cup {s}) \in Nat BY <1>4, <2>1, FS_Subset, FS_CardinalityType
    <2> QED BY <1>2, <1>4, <2>1, <2>2, SessionBounds
<1> QED BY <1>3, <1>4

\* Fewer open rows and fewer shells stay within the limit.
LEMMA LimitsKept ==
    ASSUME Terminal!Limits,
           Terminal!OpenRows' \subseteq Terminal!OpenRows \/ (Terminal!Cardinality(Terminal!OpenRows) < MaxSessions /\ \E s : Terminal!OpenRows' \subseteq Terminal!OpenRows \cup {s}),
           Terminal!Shells' \subseteq Terminal!Shells \/ (Terminal!Cardinality(Terminal!Shells) < MaxSessions /\ \E s : Terminal!Shells' \subseteq Terminal!Shells \cup {s})
    PROVE  Terminal!Limits'
<1>1. /\ Terminal!OpenRows \in SUBSET Session /\ Terminal!OpenRows' \in SUBSET Session /\ Terminal!Shells \in SUBSET Session /\ Terminal!Shells' \in SUBSET Session
    BY DEF Terminal!OpenRows, Terminal!Shells
<1>2. Cardinality(Terminal!OpenRows) <= MaxSessions /\ Cardinality(Terminal!Shells) <= MaxSessions BY SameSize DEF Terminal!Limits
<1>3. Cardinality(Terminal!OpenRows') <= MaxSessions BY <1>1, <1>2, SameSize, WithinLimit
<1>4. Cardinality(Terminal!Shells') <= MaxSessions BY <1>1, <1>2, SameSize, WithinLimit
<1>5. Terminal!Cardinality(Terminal!OpenRows') <= MaxSessions /\ Terminal!Cardinality(Terminal!Shells') <= MaxSessions BY <1>3, <1>4, SameSize
<1> QED BY <1>5 DEF Terminal!Limits

\* Frames that stay where they are.
LEMMA FramesAsBefore ==
    ASSUME Terminal!FirstStarts, UNCHANGED <<slot7, slot8>>, slot11 \subseteq slot11'
    PROVE  /\ Terminal!FirstStarts' /\ \A s : Terminal!Closes(s)' <=> Terminal!Closes(s)
           /\ \A s, a : Terminal!Opens(s, a)' <=> Terminal!Opens(s, a)
BY DEF Terminal!FirstStarts, Terminal!Closes, Terminal!Opens, Terminal!Reopen

\* A client makes a session.
LEMMA openTerminalSessionKeeps ==
    ASSUME Terminal!TerminalInv, NEW c \in Client, NEW s \in Session, Terminal!openTerminalSession(c, s)
    PROVE  Terminal!TerminalInv'
<1>1. Terminal!TerminalShape /\ Terminal!FirstStarts /\ Terminal!Limits BY TerminalFacts
<1>2. /\ slot1[s] = "none" /\ slot1' = [slot1 EXCEPT ![s] = "open"] /\ slot4[c] = Terminal!NotEntering
      /\ slot4' = [slot4 EXCEPT ![c] = [session |-> s, reattach |-> FALSE]]
      /\ UNCHANGED <<slot2, slot3, slot5, slot6, slot7, slot8, slot11>> /\ Terminal!Cardinality(Terminal!OpenRows) < MaxSessions
    BY DEF Terminal!openTerminalSession, Terminal!mayConnect
<1>3. Terminal!TerminalShape' BY <1>1, <1>2 DEF Terminal!TerminalShape
<1>4. /\ Terminal!FirstStarts' /\ \A x : Terminal!Closes(x)' <=> Terminal!Closes(x)
      /\ \A x, a : Terminal!Opens(x, a)' <=> Terminal!Opens(x, a)
    BY <1>1, <1>2, FramesAsBefore
<1>5. /\ slot4'[c] = [session |-> s, reattach |-> FALSE] /\ \A d \in Client : d # c => slot4'[d] = slot4[d]
      /\ slot4[c].session \notin Session
    BY <1>1, <1>2, SessionBounds DEF Terminal!TerminalShape, Terminal!NotEntering
<1>6. ASSUME NEW x \in Session, x # s PROVE Terminal!SessionFacts(x)'
    <2>1. Terminal!SessionFacts(x) BY TerminalFacts
    <2>2. \A d \in Client : (Terminal!Maker(d, x)' <=> Terminal!Maker(d, x)) /\ (slot4'[d].session = x <=> slot4[d].session = x)
        BY <1>5, <1>6 DEF Terminal!Maker
    <2>3. slot1'[x] = slot1[x] BY <1>1, <1>2, <1>6 DEF Terminal!TerminalShape
    <2> QED BY <1>2, <1>4, <2>1, <2>2, <2>3, SessionStays
<1>7. Terminal!SessionFacts(s)'
    <2>1. Terminal!SessionFacts(s) BY TerminalFacts
    <2>2. slot1'[s] = "open" BY <1>1, <1>2 DEF Terminal!TerminalShape
    <2>3. ASSUME s \notin slot11 PROVE Terminal!OrderlyFacts(s)'
        <3>1. Terminal!OrderlyFacts(s) BY <2>1, <2>3 DEF Terminal!SessionFacts
        <3>2. ~slot2[s].up /\ ~Terminal!Opens(s, TRUE) /\ ~Terminal!Closes(s) /\ s \notin slot3 /\ ~slot5[s].up /\ ~Terminal!Opens(s, FALSE)
            BY <1>2, <3>1 DEF Terminal!OrderlyFacts, Terminal!Fresh
        <3>3. \A d \in Client : d # c => slot4'[d].session # s BY <1>2, <1>5, <3>1 DEF Terminal!OrderlyFacts
        <3>4. \A d \in Client : Terminal!Maker(d, s)' => d = c BY <3>3 DEF Terminal!Maker
        <3> QED BY <1>2, <1>4, <2>2, <3>2, <3>3, <3>4 DEF Terminal!OrderlyFacts, Terminal!Fresh
    <2> QED BY <1>2, <1>4, <2>1, <2>3 DEF Terminal!SessionFacts
<1>8. Terminal!Limits'
    <2>1. Terminal!OpenRows' \subseteq Terminal!OpenRows \cup {s} /\ Terminal!Shells' = Terminal!Shells BY <1>1, <1>2 DEF Terminal!OpenRows, Terminal!Shells, Terminal!TerminalShape
    <2> QED BY <1>1, <1>2, <2>1, LimitsKept
<1> QED BY <1>3, <1>4, <1>6, <1>7, <1>8 DEF Terminal!TerminalInv

\* A client comes back to a session, too early or not.
LEMMA reattachSessionKeeps ==
    ASSUME Terminal!TerminalInv, NEW c \in Client, NEW s \in Session, Terminal!reattachSession(c, s)
    PROVE  Terminal!TerminalInv'
<1>1. Terminal!TerminalShape /\ Terminal!FirstStarts /\ Terminal!Limits BY TerminalFacts
<1>2. /\ slot1[s] = "open" /\ slot4[c] = Terminal!NotEntering /\ slot11' = (IF \E d \in Client : Terminal!Maker(d, s) THEN slot11 \cup {s} ELSE slot11)
      /\ slot4' = [slot4 EXCEPT ![c] = [session |-> s, reattach |-> TRUE]]
      /\ UNCHANGED <<slot1, slot2, slot3, slot5, slot6, slot7, slot8>>
    BY DEF Terminal!reattachSession, Terminal!mayConnect
<1>3. Terminal!TerminalShape' BY <1>1, <1>2 DEF Terminal!TerminalShape
<1>4. /\ Terminal!FirstStarts' /\ \A x : Terminal!Closes(x)' <=> Terminal!Closes(x)
      /\ \A x, a : Terminal!Opens(x, a)' <=> Terminal!Opens(x, a)
    BY <1>1, <1>2, FramesAsBefore
<1>5. /\ slot4'[c] = [session |-> s, reattach |-> TRUE] /\ \A d \in Client : d # c => slot4'[d] = slot4[d]
      /\ slot4[c].session \notin Session
    BY <1>1, <1>2, SessionBounds DEF Terminal!TerminalShape, Terminal!NotEntering
<1>6. ASSUME NEW x \in Session, x # s PROVE Terminal!SessionFacts(x)'
    <2>1. Terminal!SessionFacts(x) BY TerminalFacts
    <2>2. \A d \in Client : (Terminal!Maker(d, x)' <=> Terminal!Maker(d, x)) /\ (slot4'[d].session = x <=> slot4[d].session = x)
        BY <1>5, <1>6 DEF Terminal!Maker
    <2> QED BY <1>2, <1>4, <2>1, <2>2, SessionStays
<1>7. Terminal!SessionFacts(s)'
    <2>1. Terminal!SessionFacts(s) BY TerminalFacts
    <2>2. ASSUME s \notin slot11' PROVE Terminal!OrderlyFacts(s)'
        <3>1. s \notin slot11 /\ \A d \in Client : ~Terminal!Maker(d, s) BY <1>2, <2>2
        <3>2. ASSUME NEW d \in Client PROVE ~Terminal!Maker(d, s)'
            <4>1. CASE d = c
                <5>1. slot4'[c].reattach = TRUE /\ [session |-> s, reattach |-> FALSE].reattach = FALSE BY <1>5
                <5> QED BY <4>1, <5>1 DEF Terminal!Maker
            <4>2. CASE d # c BY <1>5, <3>1, <4>2 DEF Terminal!Maker
            <4> QED BY <4>1, <4>2
        <3>3. Terminal!OrderlyFacts(s) BY <2>1, <3>1 DEF Terminal!SessionFacts
        <3> QED BY <1>2, <1>4, <3>1, <3>2, <3>3 DEF Terminal!OrderlyFacts, Terminal!Fresh
    <2> QED BY <1>2, <1>4, <2>1, <2>2 DEF Terminal!SessionFacts
<1>8. Terminal!Limits'
    <2>1. Terminal!OpenRows' = Terminal!OpenRows /\ Terminal!Shells' = Terminal!Shells BY <1>2 DEF Terminal!OpenRows, Terminal!Shells
    <2> QED BY <1>1, <2>1, LimitsKept
<1> QED BY <1>3, <1>4, <1>6, <1>7, <1>8 DEF Terminal!TerminalInv

\* A client's socket opens: its bridge is made or replaced, and the supervisor is asked for the shell.
LEMMA openKeeps ==
    ASSUME Terminal!TerminalInv, NEW c \in Client, Terminal!open(c)
    PROVE  Terminal!TerminalInv'
<1>1. Terminal!TerminalShape /\ Terminal!FirstStarts /\ Terminal!Limits BY TerminalFacts
<1>2. PICK s \in Session, again \in BOOLEAN : slot4[c] = [session |-> s, reattach |-> again]
    BY <1>1 DEF Terminal!open, Terminal!TerminalShape
<1>3. /\ slot4' = [slot4 EXCEPT ![c] = Terminal!NotEntering] /\ UNCHANGED <<slot1, slot3, slot5, slot6, slot8, slot11>>
      /\ Terminal!Tell(Terminal!Reopen(s, again))
      /\ slot2' = [slot2 EXCEPT ![s] = [up |-> TRUE, client |-> c,
                      started |-> (IF slot2[s].up THEN slot2[s] ELSE [Terminal!NoBridge EXCEPT !.started = again]).started \/ slot6]]
    BY <1>2 DEF Terminal!open, Terminal!Reopen
<1>4. /\ slot2'[s].up /\ slot2'[s].started = ((IF slot2[s].up THEN slot2[s].started ELSE again) \/ slot6)
      /\ (\A x \in Session : x # s => slot2'[x] = slot2[x])
      /\ slot2' \in [Session -> Terminal!BridgeState]
    <2> DEFINE st == (IF slot2[s].up THEN slot2[s] ELSE [Terminal!NoBridge EXCEPT !.started = again]).started \/ slot6
               b == [up |-> TRUE, client |-> c, started |-> st]
    <2>1. slot2 \in [Session -> Terminal!BridgeState] /\ slot6 \in BOOLEAN
        BY <1>1 DEF Terminal!TerminalShape
    <2>2. [Terminal!NoBridge EXCEPT !.started = again].started = again BY DEF Terminal!NoBridge
    <2>3. st = ((IF slot2[s].up THEN slot2[s].started ELSE again) \/ slot6) BY <2>2
    <2>4. st \in BOOLEAN OBVIOUS
    <2>5. slot2' = [slot2 EXCEPT ![s] = b] BY <1>3
    <2> HIDE DEF st
    <2>6. b \in Terminal!BridgeState /\ b.up /\ b.started = st BY <2>4 DEF Terminal!BridgeState
    <2> HIDE DEF b
    <2> QED BY <2>1, <2>3, <2>5, <2>6 DEF Terminal!BridgeState
<1>5. Terminal!Reopen(s, again) \in Terminal!ToShell /\ Terminal!Reopen(s, again).type = "open" /\ Terminal!Reopen(s, again).session = s /\ Terminal!Reopen(s, again).reattach = again
    BY <1>2 DEF Terminal!ToShell, Terminal!Reopen
<1>6. (~again => Terminal!Maker(c, s)) /\ slot4[c].session = s /\ (again = TRUE <=> again) /\ (again = FALSE <=> ~again)
    <2>1. (again = TRUE <=> again) /\ (again = FALSE <=> ~again) OBVIOUS
    <2>2. slot4[c].session = s BY <1>2
    <2> QED BY <1>2, <2>1, <2>2 DEF Terminal!Maker
<1>7. Terminal!SessionFacts(s) BY <1>2, TerminalFacts
<1>8. ~again /\ s \notin slot11 => ~Terminal!Opens(s, TRUE) /\ ~Terminal!Opens(s, FALSE) BY <1>6, <1>7 DEF Terminal!SessionFacts, Terminal!OrderlyFacts
<1>9. /\ slot7' \in Seq(Terminal!ToShell) /\ (~slot6 => slot7' = <<>>) /\ Terminal!FirstStarts'
      /\ \A x, a : Terminal!Opens(x, a)' <=> Terminal!Opens(x, a) \/ (slot6 /\ Terminal!Reopen(s, again) = Terminal!Reopen(x, a))
    BY <1>1, <1>3, <1>5, <1>8, FrameTold
<1>10. \A x, a : Terminal!Reopen(s, again) = Terminal!Reopen(x, a) <=> s = x /\ again = a BY DEF Terminal!Reopen
<1>11. Terminal!TerminalShape' BY <1>1, <1>3, <1>4, <1>9 DEF Terminal!TerminalShape
<1>12. \A x \in Session : Terminal!Closes(x)' <=> Terminal!Closes(x) BY <1>3 DEF Terminal!Closes
<1>13. /\ slot4'[c].session \notin Session /\ \A d \in Client : d # c => slot4'[d] = slot4[d]
    BY <1>1, <1>3, SessionBounds DEF Terminal!TerminalShape, Terminal!NotEntering
<1>14. ASSUME NEW x \in Session, x # s PROVE Terminal!SessionFacts(x)'
    <2>1. Terminal!SessionFacts(x) BY TerminalFacts
    <2>2. \A d \in Client : (Terminal!Maker(d, x)' <=> Terminal!Maker(d, x)) /\ (slot4'[d].session = x <=> slot4[d].session = x)
        BY <1>2, <1>13, <1>14 DEF Terminal!Maker
    <2>3. \A a : Terminal!Opens(x, a)' <=> Terminal!Opens(x, a) BY <1>9, <1>10, <1>14
    <2> QED BY <1>3, <1>4, <1>12, <1>14, <2>1, <2>2, <2>3, SessionStays
<1>15. Terminal!SessionFacts(s)'
    <2>1. /\ (Terminal!Opens(s, FALSE)' <=> Terminal!Opens(s, FALSE) \/ (slot6 /\ ~again)) /\ (Terminal!Opens(s, TRUE)' <=> Terminal!Opens(s, TRUE) \/ (slot6 /\ again))
        BY <1>6, <1>9, <1>10
    <2>2. slot6 => (Terminal!Opens(s, TRUE)' \/ Terminal!Opens(s, FALSE)') BY <1>2, <2>1
    <2>3. ASSUME s \notin slot11 PROVE Terminal!OrderlyFacts(s)'
        <3>1. Terminal!OrderlyFacts(s) BY <1>7, <2>3 DEF Terminal!SessionFacts
        <3>2. slot1[s] # "none" BY <1>6, <3>1 DEF Terminal!OrderlyFacts
        <3>3. \A d \in Client : ~Terminal!Maker(d, s)'
            <4>1. SUFFICES ASSUME NEW d \in Client, Terminal!Maker(d, s)' PROVE FALSE OBVIOUS
            <4>2. d # c /\ slot4[d] = [session |-> s, reattach |-> FALSE] BY <1>13, <4>1 DEF Terminal!Maker
            <4>3. Terminal!Maker(d, s) BY <4>2 DEF Terminal!Maker
            <4> QED BY <1>6, <3>1, <4>2, <4>3 DEF Terminal!OrderlyFacts
        <3>4. slot2'[s].up /\ (~slot2'[s].started <=> ~slot6 /\ (IF slot2[s].up THEN ~slot2[s].started ELSE ~again))
            BY <1>1, <1>4 DEF Terminal!TerminalShape, Terminal!BridgeState
        <3>5. Terminal!Fresh(s)' => Terminal!Fresh(s)
            <4>1. ~again => Terminal!Fresh(s) BY <1>6 DEF Terminal!Fresh
            <4>2. SUFFICES ASSUME Terminal!Fresh(s)', again PROVE Terminal!Fresh(s) BY <1>2, <4>1
            <4> QED BY <2>1, <3>3, <3>4, <4>2 DEF Terminal!Fresh
        <3> QED BY <1>3, <1>12, <3>1, <3>2, <3>3, <3>4, <3>5 DEF Terminal!OrderlyFacts
    <2> QED BY <1>3, <1>7, <1>12, <2>2, <2>3 DEF Terminal!SessionFacts
<1>16. Terminal!Limits'
    <2>1. Terminal!OpenRows' = Terminal!OpenRows /\ Terminal!Shells' = Terminal!Shells BY <1>3 DEF Terminal!OpenRows, Terminal!Shells
    <2> QED BY <1>1, <2>1, LimitsKept
<1> QED BY <1>9, <1>11, <1>14, <1>15, <1>16 DEF Terminal!TerminalInv

\* A client goes away, or types.
LEMMA ClientKeeps ==
    ASSUME Terminal!TerminalInv, NEW c \in Client, Terminal!detachClient(c) \/ Terminal!clientMessage(c)
    PROVE  Terminal!TerminalInv'
<1>1. Terminal!TerminalShape /\ Terminal!FirstStarts /\ Terminal!Limits BY TerminalFacts
<1>2. UNCHANGED <<slot1, slot3, slot4, slot5, slot6, slot8, slot11>> BY DEF Terminal!detachClient, Terminal!clientMessage
<1>3. /\ slot2' \in [Session -> Terminal!BridgeState] /\ \A x \in Session : slot2'[x].up = slot2[x].up /\ slot2'[x].started = slot2[x].started
    <2>1. CASE Terminal!detachClient(c)
        <3>1. PICK s \in Session : slot2' = [slot2 EXCEPT ![s].client = "none"] BY <2>1 DEF Terminal!detachClient
        <3>2. slot2 \in [Session -> Terminal!BridgeState] BY <1>1 DEF Terminal!TerminalShape
        <3> DEFINE b == [slot2[s] EXCEPT !.client = "none"]
        <3>3. b \in Terminal!BridgeState /\ b.up = slot2[s].up /\ b.started = slot2[s].started BY <3>2 DEF Terminal!BridgeState
        <3>4. slot2' = [slot2 EXCEPT ![s] = b] BY <3>1, <3>2
        <3> HIDE DEF b
        <3> QED BY <3>2, <3>3, <3>4
    <2>2. CASE Terminal!clientMessage(c) BY <1>1, <2>2 DEF Terminal!clientMessage, Terminal!TerminalShape
    <2> QED BY <2>1, <2>2
<1>4. /\ slot7' \in Seq(Terminal!ToShell) /\ (~slot6 => slot7' = <<>>) /\ Terminal!FirstStarts'
      /\ \A x, a : Terminal!Opens(x, a)' <=> Terminal!Opens(x, a)
    <2>1. CASE Terminal!detachClient(c)
        <3>1. slot7' = slot7 /\ slot8' = slot8 BY <2>1 DEF Terminal!detachClient
        <3> QED BY <1>1, <1>2, <3>1, FramesAsBefore DEF Terminal!TerminalShape
    <2>2. CASE Terminal!clientMessage(c)
        <3>1. PICK s \in Session : Terminal!Tell([type |-> "input", session |-> s, reattach |-> FALSE]) BY <2>2 DEF Terminal!clientMessage
        <3> DEFINE m == [type |-> "input", session |-> s, reattach |-> FALSE]
        <3>2. m \in Terminal!ToShell /\ m.type # "open" /\ \A x, a : m # Terminal!Reopen(x, a) BY DEF Terminal!ToShell, Terminal!Reopen
        <3>3. Terminal!Tell(m) BY <3>1
        <3> HIDE DEF m
        <3> QED BY <1>1, <1>2, <3>2, <3>3, FrameTold
    <2> QED BY <2>1, <2>2
<1>5. Terminal!TerminalShape' BY <1>1, <1>2, <1>3, <1>4 DEF Terminal!TerminalShape
<1>6. ASSUME NEW x \in Session PROVE Terminal!SessionFacts(x)'
    <2>1. Terminal!SessionFacts(x) BY TerminalFacts
    <2>2. Terminal!Closes(x)' <=> Terminal!Closes(x) BY <1>2 DEF Terminal!Closes
    <2>3. \A d \in Client : Terminal!Maker(d, x)' <=> Terminal!Maker(d, x) BY <1>2 DEF Terminal!Maker
    <2> QED BY <1>2, <1>3, <1>4, <2>1, <2>2, <2>3, SessionStays
<1>7. Terminal!Limits'
    <2>1. Terminal!OpenRows' = Terminal!OpenRows /\ Terminal!Shells' = Terminal!Shells BY <1>2 DEF Terminal!OpenRows, Terminal!Shells
    <2> QED BY <1>1, <2>1, LimitsKept
<1> QED BY <1>4, <1>5, <1>6, <1>7 DEF Terminal!TerminalInv

\* The controller hears of a shell that was refused or has ended.
LEMMA handleAgentKeeps ==
    ASSUME Terminal!TerminalInv, Terminal!handleAgent
    PROVE  Terminal!TerminalInv'
<1>1. Terminal!TerminalShape /\ Terminal!FirstStarts /\ Terminal!Limits BY TerminalFacts
<1>2. slot8 # <<>> /\ slot8' = Tail(slot8) /\ slot6 /\ UNCHANGED <<slot1, slot4, slot5, slot6, slot7, slot11>> BY DEF Terminal!handleAgent
<1>3. PICK f : f = Head(slot8) OBVIOUS
<1>4. /\ f \in Terminal!FromShell /\ slot8' \in Seq(Terminal!FromShell)
      /\ \A s : Terminal!Closes(s)' => Terminal!Closes(s)
      /\ \A s : Terminal!Closes(s) => Terminal!Closes(s)' \/ f = [type |-> "closed", session |-> s]
      /\ f.type = "closed" => Terminal!Closes(f.session)
    BY <1>1, <1>2, <1>3, FrameSeen
<1>5. f.session \in Session BY <1>4 DEF Terminal!FromShell
<1>6. Terminal!FirstStarts' /\ \A x, a : Terminal!Opens(x, a)' <=> Terminal!Opens(x, a) BY <1>1, <1>2 DEF Terminal!FirstStarts, Terminal!Opens, Terminal!Reopen
<1>7. \A x, d : Terminal!Maker(d, x)' <=> Terminal!Maker(d, x) BY <1>2 DEF Terminal!Maker
<1>8. Terminal!Limits'
    <2>1. Terminal!OpenRows' = Terminal!OpenRows /\ Terminal!Shells' = Terminal!Shells BY <1>2 DEF Terminal!OpenRows, Terminal!Shells
    <2> QED BY <1>1, <2>1, LimitsKept
<1>9. slot2 \in [Session -> Terminal!BridgeState] /\ Terminal!NoBridge \in Terminal!BridgeState /\ ~Terminal!NoBridge.up BY <1>1 DEF Terminal!TerminalShape, Terminal!NoBridge, Terminal!BridgeState
<1>10. CASE f.type # "closed"
    <2>1. UNCHANGED <<slot2, slot3>> BY <1>3, <1>10 DEF Terminal!handleAgent
    <2>2. Terminal!TerminalShape' BY <1>1, <1>2, <1>4, <2>1 DEF Terminal!TerminalShape
    <2>3. ASSUME NEW x \in Session PROVE Terminal!SessionFacts(x)'
        <3>1. Terminal!SessionFacts(x) BY TerminalFacts
        <3>2. f # [type |-> "closed", session |-> x] BY <1>10
        <3>3. Terminal!Closes(x)' <=> Terminal!Closes(x) BY <1>4, <3>2
        <3> QED BY <1>2, <1>6, <1>7, <2>1, <3>1, <3>3, SessionStays
    <2> QED BY <1>6, <1>8, <2>2, <2>3 DEF Terminal!TerminalInv
<1>11. CASE f.type = "closed"
    <2>1. /\ slot2' = [slot2 EXCEPT ![f.session] = Terminal!NoBridge]
          /\ slot3' = IF slot2[f.session].up THEN slot3 \cup {f.session} ELSE slot3
        BY <1>3, <1>11 DEF Terminal!handleAgent, Terminal!closed
    <2>2. Terminal!TerminalShape' BY <1>1, <1>2, <1>4, <1>5, <1>9, <2>1 DEF Terminal!TerminalShape
    <2>3. ASSUME NEW x \in Session, x # f.session PROVE Terminal!SessionFacts(x)'
        <3>1. Terminal!SessionFacts(x) BY TerminalFacts
        <3>2. f # [type |-> "closed", session |-> x] BY <2>3
        <3>3. Terminal!Closes(x)' <=> Terminal!Closes(x) BY <1>4, <3>2
        <3>4. slot2'[x] = slot2[x] /\ (x \in slot3' <=> x \in slot3) BY <1>9, <2>1, <2>3
        <3> QED BY <1>2, <1>6, <1>7, <3>1, <3>3, <3>4, SessionStays
    <2>4. ASSUME NEW x \in Session, x = f.session PROVE Terminal!SessionFacts(x)'
        <3>1. Terminal!SessionFacts(x) BY TerminalFacts
        <3>2. ~slot2'[x].up BY <1>5, <1>9, <2>1, <2>4
        <3>3. ASSUME x \notin slot11 PROVE Terminal!OrderlyFacts(x)'
            <4>1. Terminal!OrderlyFacts(x) BY <3>1, <3>3 DEF Terminal!SessionFacts
            <4>2. Terminal!Closes(x) /\ ~slot5[x].up /\ ~Terminal!Fresh(x) /\ slot1[x] # "none" BY <1>4, <1>11, <2>4, <4>1 DEF Terminal!OrderlyFacts
            <4>3. ~Terminal!Fresh(x)' BY <1>6, <1>7, <3>2, <4>2 DEF Terminal!Fresh
            <4>4. \A d \in Client : ~Terminal!Maker(d, x)' BY <4>3 DEF Terminal!Fresh
            <4> QED BY <1>2, <3>2, <4>1, <4>2, <4>3, <4>4 DEF Terminal!OrderlyFacts
        <3> QED BY <1>2, <3>1, <3>2, <3>3 DEF Terminal!SessionFacts
    <2> QED BY <1>6, <1>8, <2>2, <2>3, <2>4 DEF Terminal!TerminalInv
<1> QED BY <1>10, <1>11

\* The row's closure reaches the database.
LEMMA closeTerminalSessionKeeps ==
    ASSUME Terminal!TerminalInv, NEW s \in Session, Terminal!closeTerminalSession(s)
    PROVE  Terminal!TerminalInv'
<1>1. Terminal!TerminalShape /\ Terminal!FirstStarts /\ Terminal!Limits BY TerminalFacts
<1>2. /\ s \in slot3 /\ slot3' = slot3 \ {s} /\ slot1' = [slot1 EXCEPT ![s] = "closed"]
      /\ UNCHANGED <<slot2, slot4, slot5, slot6, slot7, slot8, slot11>>
    BY DEF Terminal!closeTerminalSession
<1>3. Terminal!TerminalShape' BY <1>1, <1>2 DEF Terminal!TerminalShape
<1>4. /\ Terminal!FirstStarts' /\ \A x : Terminal!Closes(x)' <=> Terminal!Closes(x)
      /\ \A x, a : Terminal!Opens(x, a)' <=> Terminal!Opens(x, a)
    BY <1>1, <1>2, FramesAsBefore
<1>5. \A x, d : Terminal!Maker(d, x)' <=> Terminal!Maker(d, x) BY <1>2 DEF Terminal!Maker
<1>6. slot1'[s] = "closed" /\ \A x \in Session : x # s => slot1'[x] = slot1[x] BY <1>1, <1>2 DEF Terminal!TerminalShape
<1>7. ASSUME NEW x \in Session, x # s PROVE Terminal!SessionFacts(x)'
    <2>1. Terminal!SessionFacts(x) BY TerminalFacts
    <2> QED BY <1>2, <1>4, <1>5, <1>6, <1>7, <2>1, SessionStays
<1>8. Terminal!SessionFacts(s)'
    <2>1. Terminal!SessionFacts(s) BY TerminalFacts
    <2>2. ASSUME s \notin slot11 PROVE Terminal!OrderlyFacts(s)'
        <3>1. Terminal!OrderlyFacts(s) BY <2>1, <2>2 DEF Terminal!SessionFacts
        <3>2. ~Terminal!Fresh(s) /\ ~slot5[s].up BY <1>2, <3>1 DEF Terminal!OrderlyFacts
        <3>3. ~Terminal!Fresh(s)' BY <1>2, <1>4, <1>5, <3>2 DEF Terminal!Fresh
        <3> QED BY <1>2, <1>4, <1>5, <1>6, <3>1, <3>2, <3>3 DEF Terminal!OrderlyFacts
    <2> QED BY <1>2, <1>4, <2>1, <2>2 DEF Terminal!SessionFacts
<1>9. Terminal!Limits'
    <2>1. Terminal!OpenRows' \subseteq Terminal!OpenRows /\ Terminal!Shells' = Terminal!Shells BY <1>2, <1>6 DEF Terminal!OpenRows, Terminal!Shells
    <2> QED BY <1>1, <2>1, LimitsKept
<1> QED BY <1>3, <1>4, <1>7, <1>8, <1>9 DEF Terminal!TerminalInv

\* The channel drops, the workspace ends or the controller restarts: no frame is left.
LEMMA ChannelLostKeeps ==
    ASSUME Terminal!TerminalInv, Terminal!disconnect \/ Terminal!closeWorkspace \/ Terminal!restartController
    PROVE  Terminal!TerminalInv'
<1>1. Terminal!TerminalShape /\ Terminal!FirstStarts /\ Terminal!Limits BY TerminalFacts
<1>2. slot6' = FALSE /\ slot7' = <<>> /\ slot8' = <<>> /\ slot1' = slot1 /\ slot11' = slot11 BY DEF Terminal!disconnect, Terminal!closeWorkspace, Terminal!restartController
<1>3. \A x, a : ~Terminal!Opens(x, a)' /\ ~Terminal!Closes(x)' BY <1>2 DEF Terminal!Opens, Terminal!Closes
<1>4. Terminal!FirstStarts' BY <1>2 DEF Terminal!FirstStarts
<1>5. <<>> \in Seq(Terminal!ToShell) /\ <<>> \in Seq(Terminal!FromShell) OBVIOUS
<1>6. Terminal!NoBridge \in Terminal!BridgeState /\ ~Terminal!NoBridge.up /\ Terminal!NoShell \in Terminal!ShellState /\ ~Terminal!NoShell.up /\ ~Terminal!NoShell.exited
    BY DEF Terminal!NoBridge, Terminal!BridgeState, Terminal!NoShell, Terminal!ShellState
<1>7. /\ slot3' \subseteq Session /\ slot2' \in [Session -> Terminal!BridgeState] /\ slot5' \in [Session -> Terminal!ShellState]
      /\ slot4' \in [Client -> [session : Session, reattach : BOOLEAN] \cup {Terminal!NotEntering}]
    <2>1. CASE Terminal!disconnect BY <1>1, <2>1 DEF Terminal!disconnect, Terminal!TerminalShape
    <2>2. CASE Terminal!closeWorkspace BY <1>1, <1>6, <2>2 DEF Terminal!closeWorkspace, Terminal!TerminalShape
    <2>3. CASE Terminal!restartController BY <1>1, <1>6, <2>3 DEF Terminal!restartController, Terminal!TerminalShape
    <2> QED BY <2>1, <2>2, <2>3
<1>8. Terminal!TerminalShape' BY <1>1, <1>2, <1>5, <1>7 DEF Terminal!TerminalShape
<1>9. ASSUME NEW x \in Session PROVE Terminal!SessionFacts(x)'
    <2>1. Terminal!SessionFacts(x) BY TerminalFacts
    <2>2. ASSUME x \notin slot11 PROVE Terminal!OrderlyFacts(x)'
        <3>1. Terminal!OrderlyFacts(x) BY <2>1, <2>2 DEF Terminal!SessionFacts
        <3>2. CASE Terminal!disconnect
            <4>1. UNCHANGED <<slot2, slot3, slot4, slot5>> BY <3>2 DEF Terminal!disconnect
            <4>2. \A d : Terminal!Maker(d, x)' <=> Terminal!Maker(d, x) BY <4>1 DEF Terminal!Maker
            <4>3. Terminal!Fresh(x)' => Terminal!Fresh(x) BY <1>3, <4>1, <4>2 DEF Terminal!Fresh
            <4> QED BY <1>2, <1>3, <3>1, <4>1, <4>2, <4>3 DEF Terminal!OrderlyFacts
        <3>3. CASE Terminal!closeWorkspace
            <4>1. /\ slot2'[x] = Terminal!NoBridge /\ slot5'[x] = Terminal!NoShell /\ slot4' = slot4
                  /\ x \in slot3' => x \in slot3 \/ slot2[x].up
                BY <3>3 DEF Terminal!closeWorkspace
            <4>2. \A d : Terminal!Maker(d, x)' <=> Terminal!Maker(d, x) BY <4>1 DEF Terminal!Maker
            <4>3. Terminal!Fresh(x)' => Terminal!Fresh(x) /\ ~slot2[x].up BY <1>3, <1>6, <3>1, <4>1, <4>2 DEF Terminal!Fresh, Terminal!OrderlyFacts
            <4> QED BY <1>2, <1>3, <1>6, <3>1, <4>1, <4>2, <4>3 DEF Terminal!OrderlyFacts
        <3>4. CASE Terminal!restartController
            <4>1. slot2'[x] = Terminal!NoBridge /\ slot5' = slot5 /\ slot3' = {} /\ \A d \in Client : slot4'[d] = Terminal!NotEntering
                BY <3>4 DEF Terminal!restartController
            <4>2. \A d \in Client : ~Terminal!Maker(d, x)' /\ slot4'[d].session # x BY <4>1, SessionBounds DEF Terminal!Maker, Terminal!NotEntering
            <4>3. ~Terminal!Fresh(x)' BY <1>3, <1>6, <4>1, <4>2 DEF Terminal!Fresh
            <4> QED BY <1>2, <1>3, <1>6, <3>1, <4>1, <4>2, <4>3 DEF Terminal!OrderlyFacts
        <3> QED BY <3>2, <3>3, <3>4
    <2>3. slot5'[x].exited => slot5'[x].up
        BY <1>6, <2>1 DEF Terminal!SessionFacts, Terminal!disconnect, Terminal!closeWorkspace, Terminal!restartController
    <2> QED BY <1>2, <2>2, <2>3 DEF Terminal!SessionFacts
<1>10. Terminal!Limits'
    <2>1. Terminal!OpenRows' = Terminal!OpenRows BY <1>2 DEF Terminal!OpenRows
    <2>2. Terminal!Shells' \subseteq Terminal!Shells BY <1>6 DEF Terminal!Shells, Terminal!disconnect, Terminal!closeWorkspace, Terminal!restartController
    <2> QED BY <1>1, <2>1, <2>2, LimitsKept
<1> QED BY <1>4, <1>8, <1>9, <1>10 DEF Terminal!TerminalInv

\* SetToSeq lists the elements of a finite set, each once.
LEMMA Listed ==
    ASSUME NEW S, IsFiniteSet(S)
    PROVE  /\ Terminal!SetToSeq(S) \in Seq(S)
           /\ \A i, j \in DOMAIN Terminal!SetToSeq(S) : i # j => Terminal!SetToSeq(S)[i] # Terminal!SetToSeq(S)[j]
           /\ \A x \in S : \E i \in DOMAIN Terminal!SetToSeq(S) : Terminal!SetToSeq(S)[i] = x
<1> DEFINE n == Cardinality(S)
           q == Terminal!SetToSeq(S)
<1>1. n \in Nat /\ ExistsBijection(1..n, S) BY FS_CardinalityType
<1>2. \E f \in [1..n -> S] : Terminal!IsInjective(f)
    BY <1>1 DEF ExistsBijection, Bijection, Injection, Terminal!IsInjective, IsInjective
<1>3. q \in [1..n -> S] /\ Terminal!IsInjective(q) BY <1>2, SameSize DEF Terminal!SetToSeq
<1> HIDE DEF n, q
<1>4. q \in Injection(1..n, S) BY <1>3 DEF Injection, Terminal!IsInjective, IsInjective
<1>5. 1..n \in SUBSET Int /\ Cardinality(1..n) = n BY <1>1, FS_Interval
<1>6. q \in Surjection(1..n, S) BY <1>4, <1>5, FS_Injection DEF n
<1>7. \A x \in S : \E i \in 1..n : q[i] = x BY <1>6 DEF Surjection
<1>8. q \in Seq(S) /\ DOMAIN q = 1..n BY <1>1, <1>3
<1>9. \A i, j \in DOMAIN q : i # j => q[i] # q[j] BY <1>3 DEF Terminal!IsInjective
<1> QED BY <1>7, <1>8, <1>9 DEF q

\* The channel comes back: every bridge asks for its shell again.
LEMMA resumeKeeps ==
    ASSUME Terminal!TerminalInv, Terminal!resume
    PROVE  Terminal!TerminalInv'
<1> DEFINE S == {Terminal!Reopen(s, slot2[s].started) : s \in {x \in Session : slot2[x].up}}
<1>1. Terminal!TerminalShape /\ Terminal!FirstStarts /\ Terminal!Limits BY TerminalFacts
<1>2. /\ ~slot6 /\ slot6' = TRUE /\ slot7' = Terminal!SetToSeq(S) /\ UNCHANGED <<slot1, slot3, slot4, slot5, slot8, slot11>>
      /\ slot2' = [s \in Session |-> IF slot2[s].up THEN [slot2[s] EXCEPT !.started = TRUE] ELSE slot2[s]]
    BY DEF Terminal!resume
<1>3. IsFiniteSet(S)
    <2>1. {x \in Session : slot2[x].up} \in SUBSET Session OBVIOUS
    <2>2. IsFiniteSet({x \in Session : slot2[x].up}) BY <2>1, SessionBounds, FS_Subset
    <2> DEFINE A == {x \in Session : slot2[x].up}
               g == [s \in A |-> Terminal!Reopen(s, slot2[s].started)]
    <2>3. g \in Surjection(A, S) BY DEF Surjection
    <2> QED BY <2>2, <2>3, FS_Surjection
<1>4. slot2 \in [Session -> Terminal!BridgeState] BY <1>1 DEF Terminal!TerminalShape
<1>5. S \subseteq Terminal!ToShell BY <1>4 DEF Terminal!ToShell, Terminal!Reopen, Terminal!BridgeState
<1>6. \A x, a : Terminal!Reopen(x, a) \in S <=> x \in Session /\ slot2[x].up /\ a = slot2[x].started BY DEF Terminal!Reopen
<1>7. \A m \in S : m.type = "open" /\ m = Terminal!Reopen(m.session, m.reattach) BY DEF Terminal!Reopen
<1> HIDE DEF S
<1>8. /\ slot7' \in Seq(S)
      /\ \A i, j \in DOMAIN slot7' : i # j => slot7'[i] # slot7'[j]
      /\ \A m \in S : \E i \in DOMAIN slot7' : slot7'[i] = m
    BY <1>2, <1>3, Listed
<1>9. \A i \in DOMAIN slot7' : slot7'[i] \in S /\ i \in Nat BY <1>8
<1>10. \A x, a : Terminal!Opens(x, a)' <=> Terminal!Reopen(x, a) \in S
    <2>1. ASSUME NEW x, NEW a PROVE Terminal!Opens(x, a)' <=> Terminal!Reopen(x, a) \in S
        <3> DEFINE z == Terminal!Reopen(x, a)
        <3>1. Terminal!Opens(x, a)' <=> \E i \in DOMAIN slot7' : slot7'[i] = z BY DEF Terminal!Opens, Terminal!Reopen
        <3> HIDE DEF z
        <3>2. Terminal!Opens(x, a)' <=> z \in S BY <1>8, <1>9, <3>1
        <3> QED BY <3>2 DEF z
    <2> QED BY <2>1
<1>11. Terminal!FirstStarts'
    <2>1. SUFFICES ASSUME NEW i \in DOMAIN slot7', NEW j \in DOMAIN slot7', i < j, slot7'[i].session = slot7'[j].session PROVE FALSE
        BY DEF Terminal!FirstStarts
    <2>2. slot7'[i] = Terminal!Reopen(slot7'[i].session, slot7'[i].reattach) /\ slot7'[j] = Terminal!Reopen(slot7'[j].session, slot7'[j].reattach)
        BY <1>7, <1>9
    <2>3. slot7'[i].reattach = slot2[slot7'[i].session].started /\ slot7'[j].reattach = slot2[slot7'[j].session].started
        BY <1>6, <1>9, <2>2
    <2>4. slot7'[i] = slot7'[j] BY <2>1, <2>2, <2>3
    <2> QED BY <1>8, <1>9, <2>1, <2>4
<1>12. /\ slot2' \in [Session -> Terminal!BridgeState]
       /\ \A x \in Session : slot2'[x].up = slot2[x].up /\ (slot2[x].up => slot2'[x].started)
    <2>1. \A b \in Terminal!BridgeState : LET d == [b EXCEPT !.started = TRUE] IN d \in Terminal!BridgeState /\ d.up = b.up /\ d.started
        BY DEF Terminal!BridgeState
    <2> QED BY <1>2, <1>4, <2>1
<1>13. slot7' \in Seq(Terminal!ToShell) BY <1>5, <1>8
<1>14. Terminal!TerminalShape' BY <1>1, <1>2, <1>12, <1>13 DEF Terminal!TerminalShape
<1>15. slot8 = <<>> /\ \A x : ~Terminal!Closes(x)' /\ ~Terminal!Closes(x) BY <1>1, <1>2 DEF Terminal!Closes, Terminal!TerminalShape
<1>16. \A x, d : Terminal!Maker(d, x)' <=> Terminal!Maker(d, x) BY <1>2 DEF Terminal!Maker
<1>17. ASSUME NEW x \in Session PROVE Terminal!SessionFacts(x)'
    <2>1. Terminal!SessionFacts(x) BY TerminalFacts
    <2>2. slot2[x].started \in BOOLEAN BY <1>4 DEF Terminal!BridgeState
    <2>3. /\ (Terminal!Opens(x, FALSE)' <=> slot2[x].up /\ ~slot2[x].started) /\ (Terminal!Opens(x, TRUE)' <=> slot2[x].up /\ slot2[x].started)
        BY <1>6, <1>10, <2>2
    <2>4. ASSUME x \notin slot11 PROVE Terminal!OrderlyFacts(x)'
        <3>1. Terminal!OrderlyFacts(x) BY <2>1, <2>4 DEF Terminal!SessionFacts
        <3>2. Terminal!Fresh(x)' => Terminal!Fresh(x) BY <1>12, <1>16, <2>3 DEF Terminal!Fresh
        <3>3. \A d \in Client : Terminal!Maker(d, x)' => ~slot2[x].up BY <1>16, <3>1 DEF Terminal!OrderlyFacts
        <3> QED BY <1>2, <1>12, <1>15, <1>16, <2>2, <2>3, <3>1, <3>2, <3>3 DEF Terminal!OrderlyFacts
    <2> QED BY <1>2, <1>12, <2>1, <2>2, <2>3, <2>4 DEF Terminal!SessionFacts
<1>18. Terminal!Limits'
    <2>1. Terminal!OpenRows' = Terminal!OpenRows /\ Terminal!Shells' = Terminal!Shells BY <1>2 DEF Terminal!OpenRows, Terminal!Shells
    <2> QED BY <1>1, <2>1, LimitsKept
<1> QED BY <1>11, <1>14, <1>17, <1>18 DEF Terminal!TerminalInv

\* The supervisor takes a frame: a shell starts once, and one that cannot is refused.
LEMMA handleServerKeeps ==
    ASSUME Terminal!TerminalInv, Terminal!handleServer
    PROVE  Terminal!TerminalInv'
<1>1. Terminal!TerminalShape /\ Terminal!FirstStarts /\ Terminal!Limits BY TerminalFacts
<1>2. slot7 # <<>> /\ slot7' = Tail(slot7) /\ UNCHANGED <<slot1, slot2, slot3, slot4, slot6, slot11>> BY DEF Terminal!handleServer
<1>3. PICK f : f = Head(slot7) OBVIOUS
<1>4. /\ f \in Terminal!ToShell /\ slot7' \in Seq(Terminal!ToShell) /\ Terminal!FirstStarts' /\ slot6
      /\ \A s, a : Terminal!Opens(s, a)' => Terminal!Opens(s, a)
      /\ \A s, a : Terminal!Opens(s, a) => Terminal!Opens(s, a)' \/ f = Terminal!Reopen(s, a)
      /\ f.type = "open" => Terminal!Opens(f.session, f.reattach) /\ (f.session \notin slot11 => ~Terminal!Opens(f.session, FALSE)')
    BY <1>1, <1>2, <1>3, FrameHeard
<1>5. \A x, d : Terminal!Maker(d, x)' <=> Terminal!Maker(d, x) BY <1>2 DEF Terminal!Maker
<1>6. CASE f.type # "open"
    <2>1. UNCHANGED <<slot8, slot5>> BY <1>3, <1>6 DEF Terminal!handleServer
    <2>2. Terminal!TerminalShape' BY <1>1, <1>2, <1>4, <2>1 DEF Terminal!TerminalShape
    <2>3. \A x, a : Terminal!Opens(x, a)' <=> Terminal!Opens(x, a)
        <3>1. \A x, a : f # Terminal!Reopen(x, a) BY <1>6 DEF Terminal!Reopen
        <3> QED BY <1>4, <3>1
    <2>4. ASSUME NEW x \in Session PROVE Terminal!SessionFacts(x)'
        <3>1. Terminal!SessionFacts(x) BY TerminalFacts
        <3>2. Terminal!Closes(x)' <=> Terminal!Closes(x) BY <2>1 DEF Terminal!Closes
        <3> QED BY <1>2, <1>5, <2>1, <2>3, <3>1, <3>2, SessionStays
    <2>5. Terminal!Limits'
        <3>1. Terminal!OpenRows' = Terminal!OpenRows /\ Terminal!Shells' = Terminal!Shells BY <1>2, <2>1 DEF Terminal!OpenRows, Terminal!Shells
        <3> QED BY <1>1, <3>1, LimitsKept
    <2> QED BY <1>4, <2>2, <2>4, <2>5 DEF Terminal!TerminalInv
<1>7. CASE f.type = "open"
    <2>1. PICK s \in Session, again \in BOOLEAN : f = Terminal!Reopen(s, again) /\ f.session = s /\ f.reattach = again
        BY <1>4, <1>7 DEF Terminal!ToShell, Terminal!Reopen
    <2>2. Terminal!openShell(s, again) BY <1>3, <1>7, <2>1 DEF Terminal!handleServer
    <2>3. Terminal!SessionFacts(s) BY TerminalFacts
    <2>4. ASSUME s \notin slot11
          PROVE  Terminal!OrderlyFacts(s) /\ ~Terminal!Opens(s, FALSE)' /\ (again \/ Terminal!Opens(s, FALSE)) /\ \A d \in Client : ~Terminal!Maker(d, s)
        <3>1. Terminal!Opens(s, again) /\ ~Terminal!Opens(s, FALSE)' BY <1>4, <1>7, <2>1, <2>4
        <3>2. again \/ Terminal!Opens(s, FALSE) BY <3>1
        <3>3. Terminal!Opens(s, TRUE) \/ Terminal!Opens(s, FALSE) BY <3>1
        <3>4. Terminal!OrderlyFacts(s) BY <2>3, <2>4 DEF Terminal!SessionFacts
        <3> QED BY <3>1, <3>2, <3>3, <3>4 DEF Terminal!OrderlyFacts
    <2>5. ASSUME s \notin slot11 PROVE ~Terminal!Fresh(s)' /\ slot1[s] # "none"
        <3>1. ~(slot2[s].up /\ ~slot2[s].started) BY <1>4, <2>4, <2>5 DEF Terminal!OrderlyFacts
        <3>2. slot1[s] # "none" BY <1>4, <1>7, <2>1, <2>4, <2>5 DEF Terminal!OrderlyFacts, Terminal!Fresh
        <3> QED BY <1>2, <1>5, <2>4, <2>5, <3>1, <3>2 DEF Terminal!Fresh
    <2>6. ~again /\ s \notin slot11 => Terminal!Fresh(s) /\ ~slot5[s].up /\ ~Terminal!Closes(s) /\ slot1[s] = "open" /\ s \notin slot3
        BY <2>4 DEF Terminal!OrderlyFacts, Terminal!Fresh
    <2>7. ASSUME NEW x \in Session, x # s PROVE \A a : Terminal!Opens(x, a)' <=> Terminal!Opens(x, a)
        <3>1. \A a : f # Terminal!Reopen(x, a) BY <2>1, <2>7 DEF Terminal!Reopen
        <3> QED BY <1>4, <3>1
    <2> DEFINE yes == [type |-> "opened", session |-> s]
               no == [type |-> "closed", session |-> s]
    <2>8. yes \in Terminal!FromShell /\ no \in Terminal!FromShell /\ \A x : yes # [type |-> "closed", session |-> x] BY DEF Terminal!FromShell
    <2>9. \A x : no = [type |-> "closed", session |-> x] <=> x = s OBVIOUS
    <2>10. \/ slot5[s].up /\ again /\ Terminal!Say(yes) /\ UNCHANGED slot5
           \/ (s \notin slot11 => ~slot5[s].up) /\ Terminal!Say(no) /\ UNCHANGED slot5
           \/ /\ ~slot5[s].up /\ ~again /\ Terminal!Cardinality(Terminal!Shells) < MaxSessions /\ Terminal!Say(yes)
              /\ slot5' = [slot5 EXCEPT ![s] = [Terminal!NoShell EXCEPT !.up = TRUE]]
        <3>1. slot5[s].up \in BOOLEAN BY <1>1 DEF Terminal!TerminalShape, Terminal!ShellState
        <3>2. slot5[s].up # again => (s \notin slot11 => ~slot5[s].up)
            <4>1. CASE again BY <3>1, <4>1
            <4>2. CASE ~again BY <2>6, <4>2
            <4> QED BY <4>1, <4>2
        <3> QED BY <2>2, <2>6, <3>2 DEF Terminal!openShell, Terminal!refuse
    <2> HIDE DEF yes, no
    <2>11. CASE Terminal!Say(no) /\ UNCHANGED slot5 /\ (s \notin slot11 => ~slot5[s].up)
        <3>1. slot8' \in Seq(Terminal!FromShell) /\ \A x : Terminal!Closes(x)' <=> Terminal!Closes(x) \/ x = s BY <1>1, <1>4, <2>8, <2>9, <2>11, FrameSaid
        <3>2. Terminal!TerminalShape' BY <1>1, <1>2, <1>4, <2>11, <3>1 DEF Terminal!TerminalShape
        <3>3. ASSUME NEW x \in Session, x # s PROVE Terminal!SessionFacts(x)'
            <4>1. Terminal!SessionFacts(x) BY TerminalFacts
            <4> QED BY <1>2, <1>5, <2>7, <2>11, <3>1, <3>3, <4>1, SessionStays
        <3>4. Terminal!SessionFacts(s)'
            <4>1. ASSUME s \notin slot11 PROVE Terminal!OrderlyFacts(s)' BY <1>2, <1>5, <2>4, <2>5, <2>11, <3>1, <4>1 DEF Terminal!OrderlyFacts
            <4> QED BY <1>2, <2>3, <2>11, <3>1, <4>1 DEF Terminal!SessionFacts
        <3>5. Terminal!Limits'
            <4>1. Terminal!OpenRows' = Terminal!OpenRows /\ Terminal!Shells' = Terminal!Shells BY <1>2, <2>11 DEF Terminal!OpenRows, Terminal!Shells
            <4> QED BY <1>1, <4>1, LimitsKept
        <3> QED BY <1>4, <3>2, <3>3, <3>4, <3>5 DEF Terminal!TerminalInv
    <2>12. CASE Terminal!Say(yes) /\ UNCHANGED slot5 /\ slot5[s].up
        <3>1. slot8' \in Seq(Terminal!FromShell) /\ \A x : Terminal!Closes(x)' <=> Terminal!Closes(x) BY <1>1, <1>4, <2>8, <2>12, FrameSaid
        <3>2. Terminal!TerminalShape' BY <1>1, <1>2, <1>4, <2>12, <3>1 DEF Terminal!TerminalShape
        <3>3. ASSUME NEW x \in Session, x # s PROVE Terminal!SessionFacts(x)'
            <4>1. Terminal!SessionFacts(x) BY TerminalFacts
            <4> QED BY <1>2, <1>5, <2>7, <2>12, <3>1, <3>3, <4>1, SessionStays
        <3>4. Terminal!SessionFacts(s)'
            <4>1. ASSUME s \notin slot11 PROVE Terminal!OrderlyFacts(s)' BY <1>2, <1>5, <2>4, <2>5, <2>12, <3>1, <4>1 DEF Terminal!OrderlyFacts
            <4> QED BY <1>2, <2>3, <2>12, <3>1, <4>1 DEF Terminal!SessionFacts
        <3>5. Terminal!Limits'
            <4>1. Terminal!OpenRows' = Terminal!OpenRows /\ Terminal!Shells' = Terminal!Shells BY <1>2, <2>12 DEF Terminal!OpenRows, Terminal!Shells
            <4> QED BY <1>1, <4>1, LimitsKept
        <3> QED BY <1>4, <3>2, <3>3, <3>4, <3>5 DEF Terminal!TerminalInv
    <2>13. CASE /\ ~again /\ Terminal!Cardinality(Terminal!Shells) < MaxSessions /\ Terminal!Say(yes)
                /\ slot5' = [slot5 EXCEPT ![s] = [Terminal!NoShell EXCEPT !.up = TRUE]]
        <3>1. slot8' \in Seq(Terminal!FromShell) /\ \A x : Terminal!Closes(x)' <=> Terminal!Closes(x) BY <1>1, <1>4, <2>8, <2>13, FrameSaid
        <3> DEFINE n == [Terminal!NoShell EXCEPT !.up = TRUE]
        <3>2. n \in Terminal!ShellState /\ n.up /\ ~n.exited BY DEF Terminal!NoShell, Terminal!ShellState
        <3>3. slot5' = [slot5 EXCEPT ![s] = n] BY <2>13
        <3> HIDE DEF n
        <3>4. /\ slot5' \in [Session -> Terminal!ShellState] /\ slot5'[s].up /\ ~slot5'[s].exited
              /\ \A x \in Session : x # s => slot5'[x] = slot5[x]
            BY <1>1, <3>2, <3>3 DEF Terminal!TerminalShape
        <3>5. Terminal!TerminalShape' BY <1>1, <1>2, <1>4, <3>1, <3>4 DEF Terminal!TerminalShape
        <3>6. ASSUME NEW x \in Session, x # s PROVE Terminal!SessionFacts(x)'
            <4>1. Terminal!SessionFacts(x) BY TerminalFacts
            <4> QED BY <1>2, <1>5, <2>7, <3>1, <3>4, <3>6, <4>1, SessionStays
        <3>7. Terminal!SessionFacts(s)'
            <4>1. ASSUME s \notin slot11 PROVE Terminal!OrderlyFacts(s)'
                BY <1>2, <1>5, <2>4, <2>5, <2>6, <2>13, <3>1, <3>4, <4>1 DEF Terminal!OrderlyFacts
            <4> QED BY <1>2, <3>4, <4>1 DEF Terminal!SessionFacts
        <3>8. Terminal!Limits'
            <4>1. Terminal!OpenRows' = Terminal!OpenRows /\ Terminal!Shells' \subseteq Terminal!Shells \cup {s} BY <1>2, <3>4 DEF Terminal!OpenRows, Terminal!Shells
            <4> QED BY <1>1, <2>13, <4>1, LimitsKept
        <3> QED BY <1>4, <3>5, <3>6, <3>7, <3>8 DEF Terminal!TerminalInv
    <2> QED BY <2>10, <2>11, <2>12, <2>13
<1> QED BY <1>6, <1>7

\* Output of a shell, and its exit, change neither side's sessions.
LEMMA ShellKeeps ==
    ASSUME Terminal!TerminalInv, NEW s \in Session, Terminal!handleOutput(s) \/ Terminal!drainOutput(s) \/ Terminal!finish(s)
    PROVE  Terminal!TerminalInv'
<1>1. Terminal!TerminalShape /\ Terminal!FirstStarts /\ Terminal!Limits BY TerminalFacts
<1>2. UNCHANGED <<slot1, slot2, slot3, slot4, slot6, slot7, slot11>> /\ slot5[s].up BY DEF Terminal!handleOutput, Terminal!drainOutput, Terminal!finish
<1>3. slot5 \in [Session -> Terminal!ShellState] BY <1>1 DEF Terminal!TerminalShape
<1>4. PICK h \in Terminal!ShellState : slot5' = [slot5 EXCEPT ![s] = h] /\ h.up
    <2>1. slot5[s] \in Terminal!ShellState BY <1>3
    <2>2. CASE Terminal!handleOutput(s)
        <3> DEFINE n == IF slot5[s].out + 1 > ReplayLimit /\ slot5[s].out + 1 > 1 THEN slot5[s].out ELSE slot5[s].out + 1
                   h == [slot5[s] EXCEPT !.out = n]
        <3>1. n \in Nat BY <2>1 DEF Terminal!ShellState
        <3>2. slot5' = [slot5 EXCEPT ![s] = h] BY <1>3, <2>2 DEF Terminal!handleOutput
        <3> HIDE DEF n
        <3>3. h \in Terminal!ShellState /\ h.up BY <1>2, <2>1, <3>1 DEF Terminal!ShellState
        <3> QED BY <3>2, <3>3
    <2>3. CASE Terminal!drainOutput(s)
        <3> DEFINE h == [slot5[s] EXCEPT !.out = @ - 1]
        <3>1. slot5[s].out - 1 \in Nat BY <2>1, <2>3 DEF Terminal!drainOutput, Terminal!ShellState
        <3>2. slot5' = [slot5 EXCEPT ![s] = h] BY <1>3, <2>3 DEF Terminal!drainOutput
        <3>3. h \in Terminal!ShellState /\ h.up BY <1>2, <2>1, <3>1 DEF Terminal!ShellState
        <3> QED BY <3>2, <3>3
    <2>4. CASE Terminal!finish(s)
        <3> DEFINE h == [slot5[s] EXCEPT !.exited = TRUE]
        <3>1. slot5' = [slot5 EXCEPT ![s] = h] BY <1>3, <2>4 DEF Terminal!finish
        <3>2. h \in Terminal!ShellState /\ h.up BY <1>2, <2>1 DEF Terminal!ShellState
        <3> QED BY <3>1, <3>2
    <2> QED BY <2>2, <2>3, <2>4
<1>5. /\ slot5' \in [Session -> Terminal!ShellState] /\ slot5'[s].up /\ \A x \in Session : x # s => slot5'[x] = slot5[x]
    BY <1>3, <1>4
<1>6. slot8' \in Seq(Terminal!FromShell) /\ (~slot6 => slot8' = <<>>) /\ \A x : Terminal!Closes(x)' <=> Terminal!Closes(x)
    <2>1. CASE slot8' = slot8 BY <1>1, <2>1 DEF Terminal!TerminalShape, Terminal!Closes
    <2>2. CASE Terminal!Say([type |-> "output", session |-> s])
        <3> DEFINE m == [type |-> "output", session |-> s]
        <3>1. m \in Terminal!FromShell /\ \A x : m # [type |-> "closed", session |-> x] BY DEF Terminal!FromShell
        <3>2. Terminal!Say(m) BY <2>2
        <3> HIDE DEF m
        <3> QED BY <1>1, <3>1, <3>2, FrameSaid
    <2> QED BY <2>1, <2>2 DEF Terminal!handleOutput, Terminal!drainOutput, Terminal!finish
<1>7. Terminal!TerminalShape' BY <1>1, <1>2, <1>5, <1>6 DEF Terminal!TerminalShape
<1>8. Terminal!FirstStarts' /\ \A x, a : Terminal!Opens(x, a)' <=> Terminal!Opens(x, a) BY <1>1, <1>2 DEF Terminal!FirstStarts, Terminal!Opens, Terminal!Reopen
<1>9. \A x, d : Terminal!Maker(d, x)' <=> Terminal!Maker(d, x) BY <1>2 DEF Terminal!Maker
<1>10. ASSUME NEW x \in Session PROVE Terminal!SessionFacts(x)'
    <2>1. Terminal!SessionFacts(x) BY TerminalFacts
    <2>2. CASE x # s BY <1>2, <1>5, <1>6, <1>8, <1>9, <2>1, <2>2, SessionStays
    <2>3. CASE x = s
        <3>1. Terminal!Fresh(x)' <=> Terminal!Fresh(x) BY <1>2, <1>8, <1>9 DEF Terminal!Fresh
        <3>2. ASSUME x \notin slot11 PROVE Terminal!OrderlyFacts(x)'
            <4>1. Terminal!OrderlyFacts(x) BY <2>1, <3>2 DEF Terminal!SessionFacts
            <4> QED BY <1>2, <1>5, <1>6, <1>8, <1>9, <2>3, <3>1, <4>1 DEF Terminal!OrderlyFacts
        <3> QED BY <1>2, <1>5, <2>3, <3>2 DEF Terminal!SessionFacts
    <2> QED BY <2>2, <2>3
<1>11. Terminal!Limits'
    <2>1. Terminal!OpenRows' = Terminal!OpenRows /\ Terminal!Shells' \subseteq Terminal!Shells BY <1>2, <1>5 DEF Terminal!OpenRows, Terminal!Shells
    <2> QED BY <1>1, <2>1, LimitsKept
<1> QED BY <1>7, <1>8, <1>10, <1>11 DEF Terminal!TerminalInv

\* A shell that exited goes, and the controller is told.
LEMMA finalizeKeeps ==
    ASSUME Terminal!TerminalInv, NEW s \in Session, Terminal!finalize(s)
    PROVE  Terminal!TerminalInv'
<1> DEFINE m == [type |-> "closed", session |-> s]
<1>1. Terminal!TerminalShape /\ Terminal!FirstStarts /\ Terminal!Limits BY TerminalFacts
<1>2. /\ UNCHANGED <<slot1, slot2, slot3, slot4, slot6, slot7, slot11>> /\ slot5[s].exited /\ Terminal!Say(m)
      /\ slot5' = [slot5 EXCEPT ![s] = Terminal!NoShell]
    BY DEF Terminal!finalize
<1>3. Terminal!NoShell \in Terminal!ShellState /\ ~Terminal!NoShell.up /\ ~Terminal!NoShell.exited BY DEF Terminal!NoShell, Terminal!ShellState
<1>4. /\ slot5' \in [Session -> Terminal!ShellState] /\ slot5'[s] = Terminal!NoShell /\ \A x \in Session : x # s => slot5'[x] = slot5[x]
    BY <1>1, <1>2, <1>3 DEF Terminal!TerminalShape
<1>5. m \in Terminal!FromShell /\ \A x : m = [type |-> "closed", session |-> x] <=> x = s BY DEF Terminal!FromShell
<1> HIDE DEF m
<1>6. slot8' \in Seq(Terminal!FromShell) /\ (~slot6 => slot8' = <<>>) /\ \A x : Terminal!Closes(x)' <=> Terminal!Closes(x) \/ (slot6 /\ x = s)
    BY <1>1, <1>2, <1>5, FrameSaid
<1>7. Terminal!TerminalShape' BY <1>1, <1>2, <1>4, <1>6 DEF Terminal!TerminalShape
<1>8. Terminal!FirstStarts' /\ \A x, a : Terminal!Opens(x, a)' <=> Terminal!Opens(x, a) BY <1>1, <1>2 DEF Terminal!FirstStarts, Terminal!Opens, Terminal!Reopen
<1>9. \A x, d : Terminal!Maker(d, x)' <=> Terminal!Maker(d, x) BY <1>2 DEF Terminal!Maker
<1>10. ASSUME NEW x \in Session, x # s PROVE Terminal!SessionFacts(x)'
    <2>1. Terminal!SessionFacts(x) BY TerminalFacts
    <2> QED BY <1>2, <1>4, <1>6, <1>8, <1>9, <1>10, <2>1, SessionStays
<1>11. Terminal!SessionFacts(s)'
    <2>1. Terminal!SessionFacts(s) BY TerminalFacts
    <2>2. ASSUME s \notin slot11 PROVE Terminal!OrderlyFacts(s)'
        <3>1. Terminal!OrderlyFacts(s) /\ slot5[s].up BY <1>2, <2>1, <2>2 DEF Terminal!SessionFacts
        <3>2. slot1[s] = "open" /\ ~Terminal!Fresh(s) BY <3>1 DEF Terminal!OrderlyFacts
        <3>3. ~Terminal!Fresh(s)' BY <1>2, <1>8, <1>9, <3>2 DEF Terminal!Fresh
        <3> QED BY <1>2, <1>3, <1>4, <1>6, <1>8, <1>9, <3>1, <3>2, <3>3 DEF Terminal!OrderlyFacts
    <2> QED BY <1>2, <1>3, <1>4, <1>6, <2>1, <2>2 DEF Terminal!SessionFacts
<1>12. Terminal!Limits'
    <2>1. Terminal!OpenRows' = Terminal!OpenRows /\ Terminal!Shells' \subseteq Terminal!Shells BY <1>2, <1>3, <1>4 DEF Terminal!OpenRows, Terminal!Shells
    <2> QED BY <1>1, <2>1, LimitsKept
<1> QED BY <1>7, <1>8, <1>10, <1>11, <1>12 DEF Terminal!TerminalInv

\* At first there is no session.
LEMMA TerminalInitial ==
    ASSUME Terminal!TerminalInit
    PROVE  Terminal!TerminalInv
<1>1. <<>> \in Seq(Terminal!ToShell) /\ <<>> \in Seq(Terminal!FromShell) OBVIOUS
<1>2. Terminal!NoBridge \in Terminal!BridgeState /\ ~Terminal!NoBridge.up /\ Terminal!NoShell \in Terminal!ShellState /\ ~Terminal!NoShell.up /\ ~Terminal!NoShell.exited
    BY DEF Terminal!NoBridge, Terminal!BridgeState, Terminal!NoShell, Terminal!ShellState
<1>3. Terminal!TerminalShape BY <1>1, <1>2 DEF Terminal!TerminalInit, Terminal!TerminalShape
<1>4. Terminal!FirstStarts BY DEF Terminal!TerminalInit, Terminal!FirstStarts
<1>5. ASSUME NEW x \in Session PROVE Terminal!SessionFacts(x)
    <2>1. \A a : ~Terminal!Opens(x, a) /\ ~Terminal!Closes(x) BY DEF Terminal!TerminalInit, Terminal!Opens, Terminal!Closes
    <2>2. \A d \in Client : ~Terminal!Maker(d, x) /\ slot4[d].session # x BY SessionBounds DEF Terminal!TerminalInit, Terminal!Maker, Terminal!NotEntering
    <2>3. ~slot2[x].up /\ ~slot5[x].up /\ ~slot5[x].exited /\ slot3 = {} BY <1>2 DEF Terminal!TerminalInit
    <2>4. Terminal!OrderlyFacts(x) BY <2>1, <2>2, <2>3 DEF Terminal!OrderlyFacts, Terminal!Fresh
    <2> QED BY <2>3, <2>4 DEF Terminal!SessionFacts
<1>6. Terminal!Limits
    <2>1. Terminal!OpenRows = {} /\ Terminal!Shells = {} BY <1>2 DEF Terminal!TerminalInit, Terminal!OpenRows, Terminal!Shells
    <2>2. Cardinality(Terminal!OpenRows) <= MaxSessions /\ Cardinality(Terminal!Shells) <= MaxSessions BY <2>1, FS_EmptySet, SessionBounds
    <2> QED BY <2>2, SameSize DEF Terminal!Limits
<1> QED BY <1>3, <1>4, <1>5, <1>6 DEF Terminal!TerminalInv

\* Every step keeps the invariant.
LEMMA TerminalSteps ==
    ASSUME Terminal!TerminalInv, Terminal!TerminalNext
    PROVE  Terminal!TerminalInv'
<1>1. ASSUME NEW c \in Client, Terminal!open(c) \/ Terminal!detachClient(c) \/ Terminal!clientMessage(c) PROVE Terminal!TerminalInv'
    BY <1>1, openKeeps, ClientKeeps
<1>2. ASSUME NEW c \in Client, NEW s \in Session, Terminal!openTerminalSession(c, s) \/ Terminal!reattachSession(c, s) PROVE Terminal!TerminalInv'
    BY <1>2, openTerminalSessionKeeps, reattachSessionKeeps
<1>3. ASSUME NEW s \in Session, Terminal!closeTerminalSession(s) \/ Terminal!handleOutput(s) \/ Terminal!drainOutput(s) \/ Terminal!finish(s) \/ Terminal!finalize(s)
      PROVE  Terminal!TerminalInv'
    BY <1>3, closeTerminalSessionKeeps, ShellKeeps, finalizeKeeps
<1>4. CASE Terminal!handleAgent \/ Terminal!handleServer \/ Terminal!disconnect \/ Terminal!resume \/ Terminal!closeWorkspace \/ Terminal!restartController
    BY <1>4, handleAgentKeeps, handleServerKeeps, ChannelLostKeeps, resumeKeeps
<1> QED BY <1>1, <1>2, <1>3, <1>4 DEF Terminal!TerminalNext

\* A step that changes none of it keeps the invariant.
LEMMA TerminalStutters ==
    ASSUME Terminal!TerminalInv, UNCHANGED Terminal!terminalVars
    PROVE  Terminal!TerminalInv'
<1>1. UNCHANGED <<slot1, slot2, slot3, slot4, slot5, slot6, slot7, slot8, slot11>> BY DEF Terminal!terminalVars
<1>2. Terminal!TerminalShape' BY <1>1 DEF Terminal!TerminalInv, Terminal!TerminalShape
<1>3. /\ Terminal!FirstStarts' /\ \A x : Terminal!Closes(x)' <=> Terminal!Closes(x)
      /\ \A x, a : Terminal!Opens(x, a)' <=> Terminal!Opens(x, a)
    BY <1>1, FramesAsBefore, TerminalFacts
<1>4. \A x, d : Terminal!Maker(d, x)' <=> Terminal!Maker(d, x) BY <1>1 DEF Terminal!Maker
<1>5. ASSUME NEW x \in Session PROVE Terminal!SessionFacts(x)'
    <2>1. Terminal!SessionFacts(x) BY TerminalFacts
    <2> QED BY <1>1, <1>3, <1>4, <2>1, SessionStays
<1>6. Terminal!Limits'
    <2>1. Terminal!OpenRows' = Terminal!OpenRows /\ Terminal!Shells' = Terminal!Shells BY <1>1 DEF Terminal!OpenRows, Terminal!Shells
    <2> QED BY <2>1, TerminalFacts, LimitsKept
<1> QED BY <1>2, <1>3, <1>5, <1>6 DEF Terminal!TerminalInv

\* What the invariant says of a quiet channel.
LEMMA TerminalsHold ==
    ASSUME Terminal!TerminalInv
    PROVE  Terminal!BridgesHaveShells
<1>1. ASSUME slot6, slot7 = <<>>, slot8 = <<>>, NEW s \in Session, slot2[s].up PROVE slot5[s].up
    <2>1. Terminal!SessionFacts(s) BY TerminalFacts
    <2>2. \A a : ~Terminal!Opens(s, a) /\ ~Terminal!Closes(s) BY <1>1 DEF Terminal!Opens, Terminal!Closes
    <2> QED BY <1>1, <2>1, <2>2 DEF Terminal!SessionFacts
<1>2. \A s \in Session : slot5[s].up /\ s \notin slot11 => slot1[s] = "open" BY TerminalFacts DEF Terminal!SessionFacts, Terminal!OrderlyFacts
<1> QED BY <1>1, <1>2 DEF Terminal!BridgesHaveShells, Terminal!TerminalInv, Terminal!Limits

--------------------------------------------------------------------------------
(* Views.  slot1 to slot3 hold the tokens, the exchanges and the sessions, *)
(* slot5 the stage of each request, slot6 the slots, slot7 the seats,      *)
(* slot8 the displays whose release ran, slot9 the bridge's channels,      *)
(* slot12 the flows of both ends, slot14 the messages offered, slot18 the  *)
(* connection.                                                             *)

\* The instance's Cardinality is the one of the library's theorems.
LEMMA ViewSize == ASSUME NEW S PROVE Views!Cardinality(S) = Cardinality(S)
BY DEF Views!Cardinality, Cardinality

\* The displays that hold a slot are finitely many.
LEMMA SeatsFinite == ASSUME NEW S PROVE IsFiniteSet(S \cap Display)
<1>1. S \cap Display \subseteq Display /\ IsFiniteSet(Display) BY ViewBounds
<1> QED BY <1>1, FS_Subset

\* A view that had no slot takes one, and a display a seat with it.
LEMMA SeatReserved ==
    ASSUME Views!Seated, NEW v \in Views!View, v \notin slot6, Views!reserve(v)
    PROVE  Views!Seated' /\ slot6' = slot6 \cup {v}
<1>1. slot6' = slot6 \cup {v} BY DEF Views!reserve
<1>2. slot6' \subseteq Views!View BY <1>1 DEF Views!Seated
<1>3. CASE v \in HttpView
    <2>1. v \notin Display /\ v \notin ViewControl BY <1>3, ViewBounds
    <2>2. slot6' \cap Display = slot6 \cap Display /\ slot6' \cap ViewControl = slot6 \cap ViewControl BY <1>1, <2>1
    <2>3. slot7' = slot7 BY <1>3 DEF Views!reserve
    <2> QED BY <1>1, <1>2, <2>2, <2>3 DEF Views!Seated
<1>4. CASE v \notin HttpView
    <2>1. v \in Display BY <1>4 DEF Views!View
    <2>2. /\ slot7' = [viewers |-> slot7.viewers + 1, control |-> slot7.control \/ v \in ViewControl]
          /\ ~(v \in ViewControl /\ slot7.control)
        BY <1>4 DEF Views!reserve
    <2>3. slot7'.viewers = Cardinality(slot6' \cap Display)
        <3>1. slot6' \cap Display = (slot6 \cap Display) \cup {v} /\ v \notin slot6 \cap Display BY <1>1, <2>1
        <3>2. IsFiniteSet(slot6 \cap Display) BY SeatsFinite
        <3>3. Cardinality((slot6 \cap Display) \cup {v}) = Cardinality(slot6 \cap Display) + 1 BY <3>1, <3>2, FS_AddElement
        <3>4. slot7.viewers = Cardinality(slot6 \cap Display) BY ViewSize DEF Views!Seated
        <3> QED BY <2>2, <3>1, <3>3, <3>4
    <2>4. slot7'.control <=> slot7.control \/ v \in ViewControl BY <2>2
    <2>5. slot7.control <=> slot6 \cap ViewControl # {} BY DEF Views!Seated
    <2>6. slot7'.control <=> slot6' \cap ViewControl # {} BY <1>1, <2>4, <2>5
    <2>7. \A u, x \in slot6' \cap ViewControl : u = x
        <3>1. \A u, x \in slot6 \cap ViewControl : u = x BY DEF Views!Seated
        <3> QED BY <1>1, <2>2, <2>5, <3>1
    <2> QED BY <1>1, <1>2, <2>3, <2>6, <2>7, ViewSize DEF Views!Seated
<1> QED BY <1>3, <1>4

\* A view that holds its slot gives it back, and a display its seat.
LEMMA SeatReleased ==
    ASSUME Views!Seated, NEW v \in Views!View, v \in slot6, v \notin slot8 \/ v \in HttpView, Views!release(v)
    PROVE  /\ Views!Seated' /\ slot6' = slot6 \ {v} /\ (v \in Display => v \in slot8')
           /\ \A u : u # v => (u \in slot8' <=> u \in slot8)
<1>1. slot6' = slot6 \ {v} BY DEF Views!release
<1>2. slot6' \subseteq Views!View BY <1>1 DEF Views!Seated
<1>3. CASE v \in HttpView
    <2>1. v \notin Display /\ v \notin ViewControl BY <1>3, ViewBounds
    <2>2. slot6' \cap Display = slot6 \cap Display /\ slot6' \cap ViewControl = slot6 \cap ViewControl BY <1>1, <2>1
    <2>3. slot7' = slot7 /\ slot8' = slot8 BY <1>3 DEF Views!release
    <2> QED BY <1>1, <1>2, <2>1, <2>2, <2>3 DEF Views!Seated
<1>4. CASE v \notin HttpView
    <2>1. v \in Display BY <1>4 DEF Views!View
    <2>2. /\ slot7' = [viewers |-> slot7.viewers - 1, control |-> slot7.control /\ v \notin ViewControl]
          /\ slot8' = slot8 \cup {v}
        BY <1>4 DEF Views!release
    <2>3. slot7'.viewers = Cardinality(slot6' \cap Display)
        <3>1. slot6' \cap Display = (slot6 \cap Display) \ {v} /\ v \in slot6 \cap Display BY <1>1, <2>1
        <3>2. IsFiniteSet(slot6 \cap Display) BY SeatsFinite
        <3>3. Cardinality((slot6 \cap Display) \ {v}) = Cardinality(slot6 \cap Display) - 1 BY <3>1, <3>2, FS_RemoveElement
        <3>4. slot7.viewers = Cardinality(slot6 \cap Display) BY ViewSize DEF Views!Seated
        <3> QED BY <2>2, <3>1, <3>3, <3>4
    <2>4. slot7'.control <=> slot7.control /\ v \notin ViewControl BY <2>2
    <2>5. slot7.control <=> slot6 \cap ViewControl # {} BY DEF Views!Seated
    <2>6. \A u, x \in slot6 \cap ViewControl : u = x BY DEF Views!Seated
    <2>7. slot7'.control <=> slot6' \cap ViewControl # {} BY <1>1, <2>4, <2>5, <2>6
    <2>8. \A u, x \in slot6' \cap ViewControl : u = x BY <1>1, <2>6
    <2> QED BY <1>1, <1>2, <2>2, <2>3, <2>7, <2>8, ViewSize DEF Views!Seated
<1> QED BY <1>3, <1>4

\* A display's second release changes nothing.
LEMMA ReleasedBefore ==
    ASSUME NEW v, v \in slot8, v \notin slot6, Views!release(v)
    PROVE  slot6' = slot6 /\ slot7' = slot7 /\ slot8' = slot8
BY DEF Views!release

\* Seats that nobody touched are as they were.
LEMMA SeatsUntouched ==
    ASSUME Views!Seated, UNCHANGED Views!seatVars
    PROVE  Views!Seated' /\ slot6' = slot6 /\ slot7' = slot7 /\ slot8' = slot8
BY DEF Views!Seated, Views!seatVars

\* Nor do sessions change on their own.
LEMMA SessionsUntouched ==
    ASSUME Views!OneSession, UNCHANGED Views!sessionVars
    PROVE  Views!OneSession' /\ slot1' = slot1 /\ slot2' = slot2 /\ slot3' = slot3
BY DEF Views!OneSession, Views!sessionVars

\* What the steps below start from.
LEMMA ViewFacts ==
    ASSUME Views!ViewInv
    PROVE  /\ Views!ViewShape /\ Views!OneSession /\ Views!Stages /\ Views!Seated /\ slot6 = {v \in Views!View : Views!Running(v)}
           /\ \A v \in Display : Views!StageOK(v) /\ v \in Views!View /\ v \notin HttpView
           /\ \A v \in HttpView : slot5[v] \in Views!HttpStages /\ v \in Views!View /\ v \notin Display
BY ViewBounds DEF Views!ViewInv, Views!SlotsRun, Views!Stages, Views!View

\* Only view v moved: the invariant is left to show for v.
LEMMA ViewMoves ==
    ASSUME Views!ViewInv, Views!ViewShape', Views!OneSession', Views!Seated', NEW v \in Views!View,
           \A u \in Views!View : u # v => slot5'[u] = slot5[u],
           \A u \in Display : u # v => /\ slot9'[u] = slot9[u] /\ (slot12'["srv"][u].live <=> slot12["srv"][u].live)
                                       /\ (u \in slot8' <=> u \in slot8),
           v \in Display => Views!StageOK(v)', v \in HttpView => slot5'[v] \in Views!HttpStages,
           slot6' = IF Views!Running(v)' THEN slot6 \cup {v} ELSE slot6 \ {v}
    PROVE  Views!ViewInv'
<1>1. ASSUME NEW u \in Display PROVE Views!StageOK(u)'
    <2>1. Views!StageOK(u) /\ u \in Views!View BY ViewFacts
    <2>2. CASE u = v BY <2>2
    <2>3. CASE u # v BY <2>1, <2>3 DEF Views!StageOK
    <2> QED BY <2>2, <2>3
<1>2. ASSUME NEW u \in HttpView PROVE slot5'[u] \in Views!HttpStages
    <2>1. slot5[u] \in Views!HttpStages /\ u \in Views!View BY ViewFacts
    <2> QED BY <2>1
<1>3. ASSUME NEW u \in Views!View, u # v PROVE Views!Running(u)' <=> Views!Running(u) BY <1>3 DEF Views!Running
<1>4. slot6 = {u \in Views!View : Views!Running(u)} BY ViewFacts
<1>5. \A u : u \in slot6' <=> u \in Views!View /\ Views!Running(u)' BY <1>3, <1>4
<1>6. slot6' = {u \in Views!View : Views!Running(u)'} BY <1>5
<1> QED BY <1>1, <1>2, <1>6 DEF Views!ViewInv, Views!Stages, Views!SlotsRun

\* No view moved.
LEMMA ViewsStay ==
    ASSUME Views!ViewInv, Views!ViewShape', Views!OneSession', UNCHANGED Views!seatVars, UNCHANGED slot5, UNCHANGED slot9,
           \A u \in Display : slot12'["srv"][u].live <=> slot12["srv"][u].live
    PROVE  Views!ViewInv'
<1>1. Views!Seated' /\ slot6' = slot6 /\ slot8' = slot8 BY ViewFacts, SeatsUntouched
<1>2. ASSUME NEW u \in Display PROVE Views!StageOK(u)'
    <2>1. Views!StageOK(u) BY ViewFacts
    <2> QED BY <1>1, <2>1 DEF Views!StageOK
<1>3. ASSUME NEW u \in Views!View PROVE Views!Running(u)' <=> Views!Running(u) BY DEF Views!Running
<1>4. slot6 = {u \in Views!View : Views!Running(u)} BY ViewFacts
<1>5. slot6' = {u \in Views!View : Views!Running(u)'} BY <1>1, <1>3, <1>4
<1> QED BY <1>1, <1>2, <1>5, ViewFacts DEF Views!ViewInv, Views!Stages, Views!SlotsRun

\* The frames of a call join those under way.
LEMMA FramesCarried ==
    ASSUME NEW w \in Views!Wire, NEW e, NEW q \in Seq(Views!WireFrame)
    PROVE  Views!Carry(w, e, q) \in Views!Wire
<1>1. w.toSup \o q \in Seq(Views!WireFrame) /\ w.toSrv \o q \in Seq(Views!WireFrame) BY DEF Views!Wire
<1> QED BY <1>1 DEF Views!Carry, Views!Wire

\* A frame without a sequence number, alone on its way.
LEMMA FrameMade ==
    ASSUME NEW v \in Display, NEW n \in Nat, NEW op \in {"open", "ready", "ack", "close"}
    PROVE  Views!Frame(op, v, n) \in Views!WireFrame /\ <<Views!Frame(op, v, n)>> \in Seq(Views!WireFrame)
<1>1. Views!Frame(op, v, n) \in Views!WireFrame BY DEF Views!Frame, Views!WireFrame
<1> QED BY <1>1

\* No frames at all.
LEMMA NoFrames == <<>> \in Seq(Views!WireFrame)
OBVIOUS

\* A flow that is not there, and a fresh one.
LEMMA FlowMade ==
    /\ Views!NoFlow \in Views!FlowState /\ ~Views!NoFlow.live /\ Views!NewFlow \in Views!FlowState /\ Views!NewFlow.live
    /\ Views!NewFlow.queue = <<>> /\ Views!NewFlow.pend = 0
<1>1. <<>> \in Seq(Nat) OBVIOUS
<1> QED BY <1>1 DEF Views!NoFlow, Views!NewFlow, Views!FlowState

\* flush sends the head of the queue.
LEMMA flushFlowGives ==
    ASSUME NEW f \in Views!FlowState, NEW v \in Display, NEW d
    PROVE  LET r == Views!flushFlow(f, v, d) IN r.f \in Views!FlowState /\ r.out \in Seq(Views!WireFrame) /\ (r.f.live <=> f.live)
<1>1. CASE f.pend # 0 \/ ~f.live \/ f.queue = <<>> BY <1>1, NoFrames DEF Views!flushFlow, Views!Result
<1>2. CASE ~(f.pend # 0 \/ ~f.live \/ f.queue = <<>>)
    <2> DEFINE g == [f EXCEPT !.pend = Head(f.queue), !.queue = Tail(f.queue)]
               m == [op |-> "data", v |-> v, n |-> Head(f.queue), seq |-> f.seq]
    <2>1. f.queue \in Seq(Nat) /\ f.seq \in Nat BY DEF Views!FlowState
    <2>2. Head(f.queue) \in Nat /\ Tail(f.queue) \in Seq(Nat) BY <1>2, <2>1
    <2>3. g \in Views!FlowState /\ (g.live <=> f.live) BY <2>2 DEF Views!FlowState
    <2>4. m \in Views!WireFrame BY <2>1, <2>2 DEF Views!WireFrame
    <2>5. Views!flushFlow(f, v, d) = [f |-> g, out |-> <<m>>, freed |-> d] BY <1>2 DEF Views!flushFlow, Views!Result
    <2> HIDE DEF g, m
    <2> QED BY <2>3, <2>4, <2>5
<1> QED BY <1>1, <1>2

\* close leaves no flow.
LEMMA closeFlowGives ==
    ASSUME NEW f \in Views!FlowState, NEW v \in Display, NEW notify
    PROVE  LET r == Views!closeFlow(f, v, notify) IN r.f \in Views!FlowState /\ r.out \in Seq(Views!WireFrame) /\ ~r.f.live
<1>1. CASE ~f.live BY <1>1, NoFrames DEF Views!closeFlow, Views!Result
<1>2. CASE f.live
    <2>1. <<Views!Frame("close", v, 0)>> \in Seq(Views!WireFrame) BY FrameMade
    <2> QED BY <1>2, <2>1, NoFrames, FlowMade DEF Views!closeFlow, Views!Result
<1> QED BY <1>1, <1>2

\* output never revives a flow.
LEMMA outputFlowGives ==
    ASSUME NEW f \in Views!FlowState, NEW v \in Display, NEW n \in Nat, NEW e, NEW oversized
    PROVE  LET r == Views!outputFlow(f, v, n, e, oversized)
           IN  r.f \in Views!FlowState /\ r.out \in Seq(Views!WireFrame) /\ (r.f.live => f.live)
<1>1. CASE ~f.live BY <1>1, NoFrames DEF Views!outputFlow, Views!Result
<1>2. CASE f.live
    <2> DEFINE g == [f EXCEPT !.queue = Append(@, n)]
               big == oversized \/ slot13[e] + 1 > QueueBudget
               a == Views!closeFlow(g, v, TRUE)
               b == Views!flushFlow(g, v, 0)
    <2>1. g \in Views!FlowState
        <3>1. Append(f.queue, n) \in Seq(Nat) BY DEF Views!FlowState
        <3> QED BY <3>1 DEF Views!FlowState
    <2>2. a.f \in Views!FlowState /\ a.out \in Seq(Views!WireFrame) BY <2>1, closeFlowGives
    <2>3. b.f \in Views!FlowState /\ b.out \in Seq(Views!WireFrame) BY <2>1, flushFlowGives
    <2>4. a = [f |-> a.f, out |-> a.out, freed |-> a.freed] BY DEF Views!closeFlow, Views!Result
    <2>5. b = [f |-> b.f, out |-> b.out, freed |-> b.freed] BY DEF Views!flushFlow, Views!Result
    <2>6. \/ Views!outputFlow(f, v, n, e, oversized) = [a EXCEPT !.freed = @ - 1]
          \/ Views!outputFlow(f, v, n, e, oversized) = [b EXCEPT !.freed = @ - 1]
        BY <1>2 DEF Views!outputFlow
    <2> HIDE DEF a, b, g
    <2>7. LET r == [a EXCEPT !.freed = @ - 1] IN r.f = a.f /\ r.out = a.out BY <2>4
    <2>8. LET r == [b EXCEPT !.freed = @ - 1] IN r.f = b.f /\ r.out = b.out BY <2>5
    <2> QED BY <1>2, <2>2, <2>3, <2>6, <2>7, <2>8
<1> QED BY <1>1, <1>2

\* receive never revives a flow.
LEMMA receiveFlowGives ==
    ASSUME NEW f \in Views!FlowState, NEW m \in Views!WireFrame
    PROVE  LET r == Views!receiveFlow(f, m) IN r.f \in Views!FlowState /\ r.out \in Seq(Views!WireFrame) /\ (r.f.live => f.live)
<1>0. m.v \in Display /\ m.op \in {"open", "ready", "ack", "close", "data"} BY DEF Views!WireFrame
<1>1. CASE ~f.live BY <1>1, NoFrames DEF Views!receiveFlow, Views!Result
<1>2. CASE f.live /\ m.op = "close" BY <1>0, <1>2, closeFlowGives DEF Views!receiveFlow
<1>3. CASE f.live /\ m.op = "ack"
    <2>1. CASE f.pend = 0 \/ m.n # f.seq
        <3>1. Views!receiveFlow(f, m) = Views!closeFlow(f, m.v, TRUE) BY <1>3, <2>1 DEF Views!receiveFlow
        <3> QED BY <1>0, <1>3, <3>1, closeFlowGives
    <2>2. CASE ~(f.pend = 0 \/ m.n # f.seq)
        <3> DEFINE g == [f EXCEPT !.pend = 0, !.seq = @ + 1]
        <3>0. f.seq + 1 \in Nat BY DEF Views!FlowState
        <3>1. g \in Views!FlowState BY <3>0 DEF Views!FlowState
        <3>2. Views!receiveFlow(f, m) = Views!flushFlow(g, m.v, 1) BY <1>3, <2>2 DEF Views!receiveFlow
        <3> HIDE DEF g
        <3> QED BY <1>0, <1>3, <3>1, <3>2, flushFlowGives
    <2> QED BY <2>1, <2>2
<1>4. CASE f.live /\ m.op = "data"
    <2>1. CASE f.receiving \/ m.seq # f.expected
        <3>1. Views!receiveFlow(f, m) = Views!closeFlow(f, m.v, TRUE) BY <1>4, <2>1 DEF Views!receiveFlow
        <3> QED BY <1>0, <1>4, <3>1, closeFlowGives
    <2>2. CASE ~(f.receiving \/ m.seq # f.expected)
        <3> DEFINE g == [f EXCEPT !.receiving = TRUE]
        <3>1. g \in Views!FlowState BY DEF Views!FlowState
        <3>2. Views!receiveFlow(f, m) = [f |-> g, out |-> <<>>, freed |-> 0] BY <1>4, <2>2 DEF Views!receiveFlow, Views!Result
        <3> HIDE DEF g
        <3> QED BY <1>4, <3>1, <3>2, NoFrames
    <2> QED BY <2>1, <2>2
<1>5. CASE f.live /\ m.op \in {"open", "ready"}
    <2>1. Views!receiveFlow(f, m) = [f |-> f, out |-> <<>>, freed |-> 0] BY <1>5 DEF Views!receiveFlow, Views!Result
    <2> QED BY <2>1, NoFrames
<1> QED BY <1>0, <1>1, <1>2, <1>3, <1>4, <1>5

\* The controller's flow of v takes what a call made of it; when it ended, v gives its seat back.
LEMMA ServerApplies ==
    ASSUME Views!ViewInv, NEW v \in Display, NEW r, r.f \in Views!FlowState, r.out \in Seq(Views!WireFrame),
           r.f.live => slot12["srv"][v].live, NEW w \in Views!Wire, Views!Apply("srv", v, r, w),
           UNCHANGED Views!sessionVars, UNCHANGED slot5, slot14' \in [Views!Ends -> [Display -> Nat]]
    PROVE  Views!ViewInv'
<1>1. /\ slot12' = [slot12 EXCEPT !["srv"][v] = r.f] /\ slot18' = Views!Carry(w, "srv", r.out)
      /\ IF slot12["srv"][v].live /\ ~r.f.live THEN Views!release(v) /\ slot9' = [slot9 EXCEPT ![v] = "none"]
         ELSE UNCHANGED <<Views!seatVars, slot9>>
    BY DEF Views!Apply, Views!Ended
<1>2. Views!ViewShape /\ Views!OneSession /\ Views!StageOK(v) /\ v \in Views!View /\ Views!Seated /\ slot6 = {u \in Views!View : Views!Running(u)} /\ v \notin HttpView
    BY ViewFacts
<1>3. slot12 \in [Views!Ends -> [Display -> Views!FlowState]] /\ slot9 \in [Display -> {"none", "held", "flow"}] BY <1>2 DEF Views!ViewShape
<1>4. /\ slot12' \in [Views!Ends -> [Display -> Views!FlowState]] /\ slot12'["srv"][v] = r.f
      /\ \A u \in Display : u # v => slot12'["srv"][u] = slot12["srv"][u]
    BY <1>1, <1>3 DEF Views!Ends
<1>5. slot18' \in Views!Wire BY <1>1, FramesCarried
<1>6. Views!OneSession' /\ slot1' = slot1 /\ slot2' = slot2 /\ slot3' = slot3 BY <1>2, SessionsUntouched
<1>7. CASE slot12["srv"][v].live /\ ~r.f.live
    <2>1. Views!release(v) /\ slot9' = [slot9 EXCEPT ![v] = "none"] BY <1>1, <1>7
    <2>2. slot9' \in [Display -> {"none", "held", "flow"}] BY <1>3, <2>1
    <2>3. Views!ViewShape' BY <1>2, <1>4, <1>5, <1>6, <2>2 DEF Views!ViewShape
    <2>4. slot9[v] = "flow" /\ slot5[v] = "open" BY <1>2, <1>7 DEF Views!StageOK
    <2>5. v \notin slot8 BY <1>2, <2>4 DEF Views!StageOK
    <2>6. v \in slot6 BY <1>2, <2>4 DEF Views!Running
    <2>7. /\ Views!Seated' /\ slot6' = slot6 \ {v} /\ v \in slot8' /\ \A u : u # v => (u \in slot8' <=> u \in slot8)
        BY <1>2, <2>1, <2>5, <2>6, SeatReleased
    <2>8. slot9'[v] = "none" /\ \A u \in Display : u # v => slot9'[u] = slot9[u] BY <1>3, <2>1
    <2>9. ~Views!Running(v)' BY <2>4, <2>8 DEF Views!Running
    <2>10. Views!StageOK(v)' BY <1>4, <1>7, <2>4, <2>7, <2>8 DEF Views!StageOK, Views!SocketStages
    <2>11. \A u \in Display : u # v => (slot12'["srv"][u].live <=> slot12["srv"][u].live) BY <1>4
    <2> QED BY <1>2, <1>6, <2>3, <2>7, <2>8, <2>9, <2>10, <2>11, ViewMoves
<1>8. CASE ~(slot12["srv"][v].live /\ ~r.f.live)
    <2>1. UNCHANGED Views!seatVars /\ UNCHANGED slot9 BY <1>1, <1>8
    <2>2. Views!ViewShape' BY <1>2, <1>4, <1>5, <1>6, <2>1 DEF Views!ViewShape
    <2>3. \A u \in Display : slot12'["srv"][u].live <=> slot12["srv"][u].live BY <1>4, <1>8
    <2> QED BY <1>6, <2>1, <2>2, <2>3, ViewsStay
<1> QED BY <1>7, <1>8

\* The supervisor's flow does not touch the seats.
LEMMA SupervisorApplies ==
    ASSUME Views!ViewInv, NEW v \in Display, NEW r, r.f \in Views!FlowState, r.out \in Seq(Views!WireFrame), NEW w \in Views!Wire,
           Views!Apply("sup", v, r, w), UNCHANGED Views!sessionVars, UNCHANGED slot5, slot14' \in [Views!Ends -> [Display -> Nat]]
    PROVE  Views!ViewInv'
<1>1. slot12' = [slot12 EXCEPT !["sup"][v] = r.f] /\ slot18' = Views!Carry(w, "sup", r.out) /\ UNCHANGED Views!seatVars /\ UNCHANGED slot9
    BY DEF Views!Apply
<1>2. Views!ViewShape /\ Views!OneSession BY ViewFacts
<1>3. slot12 \in [Views!Ends -> [Display -> Views!FlowState]] BY <1>2 DEF Views!ViewShape
<1>4. slot12' \in [Views!Ends -> [Display -> Views!FlowState]] /\ slot12'["srv"] = slot12["srv"] BY <1>1, <1>3 DEF Views!Ends
<1>5. slot18' \in Views!Wire BY <1>1, FramesCarried
<1>6. Views!OneSession' /\ slot1' = slot1 /\ slot2' = slot2 /\ slot3' = slot3 BY <1>2, SessionsUntouched
<1>7. Views!ViewShape' BY <1>1, <1>2, <1>4, <1>5, <1>6 DEF Views!ViewShape
<1> QED BY <1>1, <1>4, <1>6, <1>7, ViewsStay

\* A channel that closes: a request that still prepares it ends, an open view loses its flow.
LEMMA ChannelCloses ==
    ASSUME Views!ViewInv, NEW v \in Display, NEW notify, NEW w \in Views!Wire, Views!closeChannel(v, notify, w),
           UNCHANGED Views!sessionVars, UNCHANGED slot14
    PROVE  Views!ViewInv'
<1>1. Views!ViewShape /\ Views!OneSession /\ Views!StageOK(v) /\ v \in Views!View /\ Views!Seated /\ slot6 = {u \in Views!View : Views!Running(u)} /\ v \notin HttpView
    BY ViewFacts
<1>2. Views!OneSession' /\ slot1' = slot1 /\ slot2' = slot2 /\ slot3' = slot3 BY <1>1, SessionsUntouched
<1>3. CASE slot9[v] = "held" /\ Views!closeHeld(v, notify, w)
    <2>1. /\ slot9' = [slot9 EXCEPT ![v] = "none"] /\ slot12' = slot12
          /\ slot18' = IF notify THEN Views!Carry(w, "srv", <<Views!Frame("close", v, 0)>>) ELSE w
        BY <1>3 DEF Views!closeHeld
    <2>2. slot18' \in Views!Wire
        <3>1. <<Views!Frame("close", v, 0)>> \in Seq(Views!WireFrame) BY FrameMade
        <3>2. Views!Carry(w, "srv", <<Views!Frame("close", v, 0)>>) \in Views!Wire BY <3>1, FramesCarried
        <3> QED BY <2>1, <3>2
    <2>3. /\ slot9' \in [Display -> {"none", "held", "flow"}] /\ slot9'[v] = "none"
          /\ \A u \in Display : u # v => slot9'[u] = slot9[u]
        BY <1>1, <2>1 DEF Views!ViewShape
    <2>4. CASE slot5[v] = "prepare"
        <3>1. slot5' = [slot5 EXCEPT ![v] = "ended"] /\ Views!release(v) BY <1>3, <2>4 DEF Views!closeHeld
        <3>2. /\ slot5' \in [Views!View -> Views!SocketStages \cup Views!HttpStages] /\ slot5'[v] = "ended"
              /\ \A u \in Views!View : u # v => slot5'[u] = slot5[u]
            BY <1>1, <3>1 DEF Views!ViewShape, Views!SocketStages
        <3>3. v \in slot6 /\ v \notin slot8 BY <1>1, <2>4 DEF Views!Running, Views!StageOK
        <3>4. /\ Views!Seated' /\ slot6' = slot6 \ {v} /\ v \in slot8' /\ \A u : u # v => (u \in slot8' <=> u \in slot8)
            BY <1>1, <3>1, <3>3, SeatReleased
        <3>5. Views!ViewShape' BY <1>1, <1>2, <2>1, <2>2, <2>3, <3>2 DEF Views!ViewShape
        <3>6. Views!StageOK(v)' BY <1>1, <1>3, <2>1, <2>3, <3>2, <3>4 DEF Views!StageOK, Views!SocketStages
        <3>7. ~Views!Running(v)' BY <3>2 DEF Views!Running
        <3> QED BY <1>1, <1>2, <2>1, <2>3, <3>2, <3>4, <3>5, <3>6, <3>7, ViewMoves
    <2>5. CASE slot5[v] # "prepare"
        <3>1. UNCHANGED Views!seatVars /\ UNCHANGED slot5 BY <1>3, <2>5 DEF Views!closeHeld
        <3>2. Views!Seated' /\ slot6' = slot6 /\ slot7' = slot7 /\ slot8' = slot8 BY <1>1, <3>1, SeatsUntouched
        <3>3. Views!ViewShape' BY <1>1, <1>2, <2>1, <2>2, <2>3, <3>1 DEF Views!ViewShape
        <3>4. slot5[v] \in {"authorize", "upgraded"} BY <1>1, <1>3, <2>5 DEF Views!StageOK
        <3>5. Views!StageOK(v)' BY <1>1, <1>3, <2>1, <2>3, <3>1, <3>2, <3>4 DEF Views!StageOK, Views!SocketStages
        <3>6. Views!Running(v)' /\ v \in slot6 BY <1>1, <3>1, <3>4 DEF Views!Running
        <3> QED BY <1>1, <1>2, <2>1, <2>3, <3>1, <3>2, <3>3, <3>5, <3>6, ViewMoves
    <2> QED BY <2>4, <2>5
<1>4. CASE slot9[v] = "flow" /\ Views!Apply("srv", v, Views!closeFlow(slot12["srv"][v], v, notify), w) /\ UNCHANGED slot5
    <2>1. slot12["srv"][v] \in Views!FlowState BY <1>1 DEF Views!ViewShape, Views!Ends
    <2>2. PICK r : r = Views!closeFlow(slot12["srv"][v], v, notify) OBVIOUS
    <2>3. r.f \in Views!FlowState /\ r.out \in Seq(Views!WireFrame) /\ ~r.f.live BY <2>1, <2>2, closeFlowGives
    <2>4. Views!Apply("srv", v, r, w) BY <1>4, <2>2
    <2>5. slot14' \in [Views!Ends -> [Display -> Nat]] BY <1>1 DEF Views!ViewShape
    <2> QED BY <1>4, <2>3, <2>4, <2>5, ServerApplies
<1>5. CASE slot9[v] = "none" /\ slot18' = w /\ UNCHANGED <<slot12, slot9, slot5, Views!seatVars>>
    <2>1. Views!ViewShape' BY <1>1, <1>2, <1>5 DEF Views!ViewShape
    <2> QED BY <1>2, <1>5, <2>1, ViewsStay
<1> QED BY <1>3, <1>4, <1>5 DEF Views!closeChannel

\* A flow that closes, at either end.
LEMMA FlowCloses ==
    ASSUME Views!ViewInv, NEW e \in Views!Ends, NEW v \in Display, NEW notify, Views!Apply(e, v, Views!closeFlow(slot12[e][v], v, notify), slot18),
           UNCHANGED Views!sessionVars, UNCHANGED slot5, UNCHANGED slot14
    PROVE  Views!ViewInv'
<1>1. slot12[e][v] \in Views!FlowState /\ slot14' \in [Views!Ends -> [Display -> Nat]] /\ slot18 \in Views!Wire BY ViewFacts DEF Views!ViewShape
<1>2. PICK r : r = Views!closeFlow(slot12[e][v], v, notify) OBVIOUS
<1>3. r.f \in Views!FlowState /\ r.out \in Seq(Views!WireFrame) /\ ~r.f.live BY <1>1, <1>2, closeFlowGives
<1>4. Views!Apply(e, v, r, slot18) BY <1>2
<1>5. CASE e = "srv" BY <1>1, <1>3, <1>4, <1>5, ServerApplies
<1>6. CASE e = "sup" BY <1>1, <1>3, <1>4, <1>6, SupervisorApplies
<1> QED BY <1>5, <1>6 DEF Views!Ends

\* A message of the browser or of the workspace's service.
LEMMA OfferKeeps ==
    ASSUME Views!ViewInv, NEW e \in Views!Ends, NEW v \in Display, Views!Offer(e, v)
    PROVE  Views!ViewInv'
<1>1. /\ slot12[e][v] \in Views!FlowState /\ slot14 \in [Views!Ends -> [Display -> Nat]] /\ slot18 \in Views!Wire BY ViewFacts DEF Views!ViewShape
<1>2. /\ slot14' = [slot14 EXCEPT ![e][v] = @ + 1] /\ UNCHANGED Views!sessionVars /\ UNCHANGED slot5 BY DEF Views!Offer
<1>3. slot14[e][v] \in Nat /\ slot14' \in [Views!Ends -> [Display -> Nat]] BY <1>1, <1>2
<1>4. PICK big : Views!Apply(e, v, Views!outputFlow(slot12[e][v], v, slot14[e][v] + 1, e, big), slot18) BY DEF Views!Offer
<1>5. PICK r : r = Views!outputFlow(slot12[e][v], v, slot14[e][v] + 1, e, big) OBVIOUS
<1>6. slot14[e][v] + 1 \in Nat BY <1>3
<1>7. r.f \in Views!FlowState /\ r.out \in Seq(Views!WireFrame) /\ (r.f.live => slot12[e][v].live) BY <1>1, <1>5, <1>6, outputFlowGives
<1>8. Views!Apply(e, v, r, slot18) BY <1>4, <1>5
<1>9. CASE e = "srv" BY <1>1, <1>2, <1>3, <1>7, <1>8, <1>9, ServerApplies
<1>10. CASE e = "sup" BY <1>1, <1>2, <1>3, <1>7, <1>8, <1>10, SupervisorApplies
<1> QED BY <1>9, <1>10 DEF Views!Ends

\* The local socket has drained, or did not in time.
LEMMA acknowledgeKeeps ==
    ASSUME Views!ViewInv, NEW e \in Views!Ends, NEW v \in Display, Views!acknowledge(e, v)
    PROVE  Views!ViewInv'
<1>1. UNCHANGED Views!sessionVars /\ UNCHANGED slot5 /\ UNCHANGED slot14 BY DEF Views!acknowledge
<1>2. slot12[e][v] \in Views!FlowState /\ slot14' \in [Views!Ends -> [Display -> Nat]] /\ slot18 \in Views!Wire BY <1>1, ViewFacts DEF Views!ViewShape
<1>3. CASE Views!Apply(e, v, Views!closeFlow(slot12[e][v], v, TRUE), slot18) BY <1>1, <1>3, FlowCloses
<1>4. CASE Views!Apply(e, v, Views!Result([slot12[e][v] EXCEPT !.receiving = FALSE, !.expected = @ + 1],
                              <<Views!Frame("ack", v, slot12[e][v].expected)>>, 0), slot18)
    <2>1. PICK f \in Views!FlowState : f = slot12[e][v] BY <1>2
    <2>2. PICK g : g = [f EXCEPT !.receiving = FALSE, !.expected = @ + 1] OBVIOUS
    <2>3. f.expected \in Nat /\ f.expected + 1 \in Nat BY DEF Views!FlowState
    <2>4. g \in Views!FlowState /\ (g.live => f.live) BY <2>2, <2>3 DEF Views!FlowState
    <2>5. PICK q : q = <<Views!Frame("ack", v, f.expected)>> OBVIOUS
    <2>6. q \in Seq(Views!WireFrame) BY <2>3, <2>5, FrameMade
    <2>7. PICK r : r = [f |-> g, out |-> q, freed |-> 0] OBVIOUS
    <2>8. r.f = g /\ r.out = q BY <2>7
    <2>9. Views!Apply(e, v, r, slot18) BY <1>4, <2>1, <2>2, <2>5, <2>7 DEF Views!Result
    <2>10. r.f \in Views!FlowState /\ r.out \in Seq(Views!WireFrame) /\ (r.f.live => slot12[e][v].live) BY <2>1, <2>4, <2>6, <2>8
    <2>11. CASE e = "srv" BY <1>1, <1>2, <2>9, <2>10, <2>11, ServerApplies
    <2>12. CASE e = "sup" BY <1>1, <1>2, <2>9, <2>10, <2>12, SupervisorApplies
    <2> QED BY <2>11, <2>12 DEF Views!Ends
<1> QED BY <1>3, <1>4 DEF Views!acknowledge

\* A message that waited too long, or a socket of the supervisor that closed.
LEMMA FlowEndsKeeps ==
    ASSUME Views!ViewInv, NEW e \in Views!Ends, NEW v \in Display, Views!FlowEnds(e, v)
    PROVE  Views!ViewInv'
<1>1. Views!Apply(e, v, Views!closeFlow(slot12[e][v], v, TRUE), slot18) /\ UNCHANGED Views!sessionVars /\ UNCHANGED slot5 /\ UNCHANGED slot14
    BY DEF Views!FlowEnds
<1> QED BY <1>1, FlowCloses

\* The connection is lost, the authority is, Chromium settles, or nothing happens at all: no view moves.
LEMMA ViewsUntouched ==
    ASSUME Views!ViewInv, UNCHANGED <<Views!sessionVars, slot5, Views!seatVars, slot9, slot12, slot14>>, slot18' \in Views!Wire
    PROVE  Views!ViewInv'
<1>1. Views!ViewShape /\ Views!OneSession BY ViewFacts
<1>2. Views!OneSession' /\ slot1' = slot1 /\ slot2' = slot2 /\ slot3' = slot3 BY <1>1, SessionsUntouched
<1>3. Views!ViewShape' BY <1>1, <1>2 DEF Views!ViewShape
<1> QED BY <1>2, <1>3, ViewsStay

\* A step that changes none of it keeps the invariant.
LEMMA ViewStutters ==
    ASSUME Views!ViewInv, UNCHANGED Views!viewVars
    PROVE  Views!ViewInv'
<1>1. UNCHANGED <<Views!sessionVars, slot5, Views!seatVars, slot9, slot12, slot14, slot18>> BY DEF Views!viewVars, Views!sessionVars, Views!seatVars
<1>2. slot18 \in Views!Wire BY ViewFacts DEF Views!ViewShape
<1> QED BY <1>1, <1>2, ViewsUntouched

\* The connection drops.
LEMMA ViewLinkLostKeeps ==
    ASSUME Views!ViewInv, Views!ViewLinkLost
    PROVE  Views!ViewInv'
<1>1. /\ UNCHANGED <<Views!sessionVars, slot5, Views!seatVars, slot9, slot12, slot14>>
      /\ slot18' = [slot18 EXCEPT !.live = FALSE, !.toSrv = <<>>, !.toSup = <<>>]
    BY DEF Views!ViewLinkLost, Views!sessionVars, Views!seatVars
<1>2. slot18 \in Views!Wire BY ViewFacts DEF Views!ViewShape
<1>3. slot18' \in Views!Wire BY <1>1, <1>2, NoFrames DEF Views!Wire
<1> QED BY <1>1, <1>3, ViewsUntouched

\* The authority is revoked, or Chromium's connection settles.
LEMMA AsideKeeps ==
    ASSUME Views!ViewInv, Views!Revoked \/ Views!connectChromium
    PROVE  Views!ViewInv'
<1>1. UNCHANGED <<Views!sessionVars, slot5, Views!seatVars, slot9, slot12, slot14, slot18>> BY DEF Views!Revoked, Views!connectChromium, Views!sessionVars, Views!seatVars
<1>2. slot18 \in Views!Wire BY ViewFacts DEF Views!ViewShape
<1> QED BY <1>1, <1>2, ViewsUntouched

\* A token is minted, consumed, or gives its session: never two of them.
LEMMA SessionKeeps ==
    ASSUME Views!ViewInv, NEW v \in Views!View, Views!mint(v) \/ Views!ExchangeStarts(v) \/ Views!ExchangeEnds(v)
    PROVE  Views!ViewInv'
<1>1. UNCHANGED <<slot5, Views!seatVars, slot9, slot12, slot14, slot18>> BY DEF Views!mint, Views!ExchangeStarts, Views!ExchangeEnds, Views!exchange, Views!seatVars
<1>2. Views!ViewShape /\ Views!OneSession BY ViewFacts
<1>3. /\ slot1 \in [Views!View -> {"none", "minted", "session", "gone"}] /\ slot2 \in [Views!View -> Nat] /\ slot3 \in [Views!View -> Nat]
    BY <1>2 DEF Views!ViewShape
<1>4. /\ slot1' \in [Views!View -> {"none", "minted", "session", "gone"}] /\ slot2' \in [Views!View -> Nat] /\ slot3' \in [Views!View -> Nat]
      /\ Views!OneSession'
    <2>1. CASE Views!mint(v)
        <3>1. slot1' = [slot1 EXCEPT ![v] = "minted"] /\ slot1[v] = "none" /\ slot2' = slot2 /\ slot3' = slot3 BY <2>1 DEF Views!mint
        <3>2. slot1' \in [Views!View -> {"none", "minted", "session", "gone"}] BY <1>3, <3>1
        <3>3. Views!OneSession' BY <1>2, <1>3, <3>1 DEF Views!OneSession
        <3> QED BY <1>3, <3>1, <3>2, <3>3
    <2>2. CASE Views!ExchangeStarts(v)
        <3>1. /\ slot1' = [slot1 EXCEPT ![v] = "gone"] /\ slot1[v] = "minted" /\ slot2' = [slot2 EXCEPT ![v] = @ + 1] /\ slot3' = slot3
            BY <2>2 DEF Views!ExchangeStarts, Views!exchange
        <3>2. slot2[v] \in Nat /\ slot1' \in [Views!View -> {"none", "minted", "session", "gone"}] /\ slot2' \in [Views!View -> Nat] BY <1>3, <3>1
        <3>3. Views!OneSession'
            <4>1. SUFFICES ASSUME NEW u \in Views!View PROVE (slot3[u] + slot2[u] + (IF slot1[u] \in {"none", "minted"} THEN 1 ELSE 0) <= 1)'
                BY DEF Views!OneSession
            <4>2. slot3[u] + slot2[u] + (IF slot1[u] \in {"none", "minted"} THEN 1 ELSE 0) <= 1 BY <1>2 DEF Views!OneSession
            <4>3. CASE u = v BY <1>3, <3>1, <4>2, <4>3
            <4>4. CASE u # v BY <1>3, <3>1, <4>2, <4>4
            <4> QED BY <4>3, <4>4
        <3> QED BY <1>3, <3>1, <3>2, <3>3
    <2>3. CASE Views!ExchangeEnds(v)
        <3>1. /\ slot2[v] > 0 /\ slot2' = [slot2 EXCEPT ![v] = @ - 1]
              /\ slot3' = [slot3 EXCEPT ![v] = IF slot4 THEN @ + 1 ELSE @]
              /\ slot1' = [slot1 EXCEPT ![v] = IF slot4 THEN "session" ELSE "gone"]
            BY <2>3 DEF Views!ExchangeEnds, Views!authorize
        <3>2. /\ slot2[v] - 1 \in Nat /\ slot3[v] + 1 \in Nat BY <1>3, <3>1
        <3>3. /\ slot1' \in [Views!View -> {"none", "minted", "session", "gone"}] /\ slot2' \in [Views!View -> Nat] /\ slot3' \in [Views!View -> Nat]
              /\ slot3'[v] <= slot3[v] + 1 /\ slot3'[v] \in Nat /\ slot2'[v] = slot2[v] - 1 /\ slot1'[v] \in {"session", "gone"}
              /\ \A u \in Views!View : u # v => slot3'[u] = slot3[u] /\ slot2'[u] = slot2[u] /\ slot1'[u] = slot1[u]
            BY <1>3, <3>1, <3>2
        <3>4. Views!OneSession'
            <4>1. SUFFICES ASSUME NEW u \in Views!View PROVE (slot3[u] + slot2[u] + (IF slot1[u] \in {"none", "minted"} THEN 1 ELSE 0) <= 1)'
                BY DEF Views!OneSession
            <4>2. slot3[u] + slot2[u] + (IF slot1[u] \in {"none", "minted"} THEN 1 ELSE 0) <= 1 BY <1>2 DEF Views!OneSession
            <4>3. slot3[u] \in Nat /\ slot2[u] \in Nat BY <1>3
            <4>4. CASE u = v BY <3>1, <3>3, <4>2, <4>3, <4>4
            <4>5. CASE u # v BY <3>3, <4>2, <4>3, <4>5
            <4> QED BY <4>4, <4>5
        <3> QED BY <3>3, <3>4
    <2> QED BY <2>1, <2>2, <2>3
<1>5. Views!ViewShape' BY <1>1, <1>2, <1>4 DEF Views!ViewShape
<1> QED BY <1>1, <1>4, <1>5, ViewsStay

\* A request takes its slot and, for a display, opens its channel.
LEMMA Request2Keeps ==
    ASSUME Views!ViewInv, NEW v \in Views!View, Views!Request2(v)
    PROVE  Views!ViewInv'
<1>1. Views!ViewShape /\ Views!OneSession /\ Views!Seated /\ slot6 = {u \in Views!View : Views!Running(u)} BY ViewFacts
<1>2. slot5[v] = "idle" /\ Views!reserve(v) /\ UNCHANGED <<Views!sessionVars, slot8, slot12, slot14>> BY DEF Views!Request2
<1>3. Views!OneSession' /\ slot1' = slot1 /\ slot2' = slot2 /\ slot3' = slot3 BY <1>1, <1>2, SessionsUntouched
<1>4. v \notin slot6 BY <1>1, <1>2 DEF Views!Running
<1>5. Views!Seated' /\ slot6' = slot6 \cup {v} BY <1>1, <1>2, <1>4, SeatReserved
<1>6. CASE v \in HttpView
    <2>1. slot5' = [slot5 EXCEPT ![v] = "body"] /\ UNCHANGED <<slot9, slot18>> BY <1>6 DEF Views!Request2
    <2>2. slot5' \in [Views!View -> Views!SocketStages \cup Views!HttpStages] /\ slot5'[v] = "body" /\ \A u \in Views!View : u # v => slot5'[u] = slot5[u]
        BY <1>1, <2>1 DEF Views!ViewShape, Views!HttpStages
    <2>3. Views!ViewShape' BY <1>1, <1>2, <1>3, <2>1, <2>2 DEF Views!ViewShape
    <2>4. Views!Running(v)' /\ v \notin Display /\ slot5'[v] \in Views!HttpStages BY <1>6, <2>2, ViewBounds DEF Views!Running, Views!HttpStages
    <2> QED BY <1>2, <1>3, <1>5, <2>1, <2>2, <2>3, <2>4, ViewMoves
<1>7. CASE v \notin HttpView
    <2>1. v \in Display BY <1>7 DEF Views!View
    <2>2. /\ slot5' = [slot5 EXCEPT ![v] = "prepare"] /\ slot9' = [slot9 EXCEPT ![v] = "held"]
          /\ slot18' = Views!Carry(slot18, "srv", <<Views!Frame("open", v, 0)>>)
        BY <1>7 DEF Views!Request2
    <2>3. slot5' \in [Views!View -> Views!SocketStages \cup Views!HttpStages] /\ slot5'[v] = "prepare" /\ \A u \in Views!View : u # v => slot5'[u] = slot5[u]
        BY <1>1, <2>2 DEF Views!ViewShape, Views!SocketStages
    <2>4. slot9' \in [Display -> {"none", "held", "flow"}] /\ slot9'[v] = "held" /\ \A u \in Display : u # v => slot9'[u] = slot9[u]
        BY <1>1, <2>1, <2>2 DEF Views!ViewShape
    <2>5. <<Views!Frame("open", v, 0)>> \in Seq(Views!WireFrame) BY <2>1, FrameMade
    <2>6. slot18' \in Views!Wire BY <1>1, <2>2, <2>5, FramesCarried DEF Views!ViewShape
    <2>7. Views!ViewShape' BY <1>1, <1>2, <1>3, <2>3, <2>4, <2>6 DEF Views!ViewShape
    <2>8. Views!StageOK(v) BY <2>1, ViewFacts
    <2>9. Views!StageOK(v)' /\ Views!Running(v)' BY <1>2, <2>3, <2>4, <2>8 DEF Views!StageOK, Views!SocketStages, Views!Running
    <2> QED BY <1>2, <1>3, <1>5, <1>7, <2>3, <2>4, <2>7, <2>9, ViewMoves
<1> QED BY <1>6, <1>7

\* A preview request goes on, or ends and gives its slot back.
LEMMA HttpStepKeeps ==
    ASSUME Views!ViewInv, NEW v \in HttpView, Views!HttpStep(v)
    PROVE  Views!ViewInv'
<1>1. Views!ViewShape /\ Views!OneSession /\ Views!Seated /\ slot6 = {u \in Views!View : Views!Running(u)} /\ v \in Views!View /\ v \notin Display BY ViewFacts
<1>2. UNCHANGED <<Views!sessionVars, slot9, slot12, slot14, slot18>> /\ slot5[v] \in {"body", "relay", "stream"} BY DEF Views!HttpStep
<1>3. Views!OneSession' /\ slot1' = slot1 /\ slot2' = slot2 /\ slot3' = slot3 BY <1>1, <1>2, SessionsUntouched
<1>4. v \in slot6 BY <1>1, <1>2 DEF Views!Running
<1>5. CASE UNCHANGED Views!seatVars /\ \E s \in {"relay", "stream"} : slot5' = [slot5 EXCEPT ![v] = s]
    <2>1. PICK s \in {"relay", "stream"} : slot5' = [slot5 EXCEPT ![v] = s] BY <1>5
    <2>2. slot5' \in [Views!View -> Views!SocketStages \cup Views!HttpStages] /\ slot5'[v] = s /\ \A u \in Views!View : u # v => slot5'[u] = slot5[u]
        BY <1>1, <2>1 DEF Views!ViewShape, Views!HttpStages
    <2>3. Views!ViewShape' BY <1>1, <1>2, <1>3, <2>2 DEF Views!ViewShape
    <2>4. Views!Seated' /\ slot6' = slot6 /\ slot8' = slot8 BY <1>1, <1>5, SeatsUntouched
    <2>5. Views!Running(v)' /\ slot5'[v] \in Views!HttpStages BY <2>1, <2>2 DEF Views!Running, Views!HttpStages
    <2> QED BY <1>1, <1>2, <1>3, <1>4, <2>2, <2>3, <2>4, <2>5, ViewMoves
<1>6. CASE slot5' = [slot5 EXCEPT ![v] = "ended"] /\ Views!release(v)
    <2>1. slot5' \in [Views!View -> Views!SocketStages \cup Views!HttpStages] /\ slot5'[v] = "ended" /\ \A u \in Views!View : u # v => slot5'[u] = slot5[u]
        BY <1>1, <1>6 DEF Views!ViewShape, Views!HttpStages
    <2>2. Views!ViewShape' BY <1>1, <1>2, <1>3, <2>1 DEF Views!ViewShape
    <2>3. Views!Seated' /\ slot6' = slot6 \ {v} /\ \A u : u # v => (u \in slot8' <=> u \in slot8)
        BY <1>1, <1>4, <1>6, SeatReleased
    <2>4. ~Views!Running(v)' /\ slot5'[v] \in Views!HttpStages BY <2>1 DEF Views!Running, Views!HttpStages
    <2> QED BY <1>1, <1>2, <1>3, <2>1, <2>2, <2>3, <2>4, ViewMoves
<1> QED BY <1>2, <1>5, <1>6 DEF Views!HttpStep

\* A display ends: its channel goes and its release runs, whether or not it ran before.
LEMMA DisplayEnds ==
    ASSUME Views!ViewInv, NEW v \in Display, slot5[v] \in {"prepare", "authorize", "upgraded", "open"}, Views!ViewShape', Views!OneSession',
           slot5' = [slot5 EXCEPT ![v] = "ended"], slot9' = [slot9 EXCEPT ![v] = "none"], Views!release(v), ~slot12'["srv"][v].live,
           \A u \in Display : u # v => (slot12'["srv"][u].live <=> slot12["srv"][u].live)
    PROVE  Views!ViewInv'
<1>1. Views!ViewShape /\ Views!Seated /\ slot6 = {u \in Views!View : Views!Running(u)} /\ Views!StageOK(v) /\ v \in Views!View /\ v \notin HttpView BY ViewFacts
<1>2. slot5'[v] = "ended" /\ \A u \in Views!View : u # v => slot5'[u] = slot5[u] BY <1>1 DEF Views!ViewShape
<1>3. slot9'[v] = "none" /\ \A u \in Display : u # v => slot9'[u] = slot9[u] BY <1>1 DEF Views!ViewShape
<1>4. /\ Views!Seated' /\ slot6' = slot6 \ {v} /\ v \in slot8' /\ \A u : u # v => (u \in slot8' <=> u \in slot8)
    <2>1. CASE v \in slot8
        <3>1. v \notin slot6 BY <1>1, <2>1 DEF Views!StageOK, Views!Running
        <3>2. slot6' = slot6 /\ slot7' = slot7 /\ slot8' = slot8 BY <2>1, <3>1, ReleasedBefore
        <3>3. UNCHANGED Views!seatVars BY <3>2 DEF Views!seatVars
        <3>4. Views!Seated' BY <1>1, <3>3, SeatsUntouched
        <3> QED BY <2>1, <3>1, <3>2, <3>4
    <2>2. CASE v \notin slot8
        <3>1. slot9[v] \in {"none", "held", "flow"} BY <1>1 DEF Views!ViewShape
        <3>2. v \in slot6 BY <1>1, <2>2, <3>1 DEF Views!StageOK, Views!Running
        <3> QED BY <1>1, <2>2, <3>2, SeatReleased
    <2> QED BY <2>1, <2>2
<1>5. ~Views!Running(v)' BY <1>2 DEF Views!Running
<1>6. Views!StageOK(v)' BY <1>2, <1>3, <1>4 DEF Views!StageOK, Views!SocketStages
<1> QED BY <1>1, <1>2, <1>3, <1>4, <1>5, <1>6, ViewMoves

\* The second authorize of a request, and what it ends.
LEMMA UpgradeKeeps ==
    ASSUME Views!ViewInv, NEW v \in Display, Views!Upgrade(v)
    PROVE  Views!ViewInv'
<1>1. Views!ViewShape /\ Views!OneSession /\ Views!Seated /\ slot6 = {u \in Views!View : Views!Running(u)} /\ Views!StageOK(v) /\ v \in Views!View /\ v \notin HttpView
    BY ViewFacts
<1>2. slot5[v] = "authorize" /\ UNCHANGED <<Views!sessionVars, slot14, slot12>> BY DEF Views!Upgrade
<1>3. Views!OneSession' /\ slot1' = slot1 /\ slot2' = slot2 /\ slot3' = slot3 BY <1>1, <1>2, SessionsUntouched
<1>4. CASE slot5' = [slot5 EXCEPT ![v] = "upgraded"] /\ UNCHANGED <<Views!seatVars, slot9, slot18>>
    <2>1. slot5' \in [Views!View -> Views!SocketStages \cup Views!HttpStages] /\ slot5'[v] = "upgraded" /\ \A u \in Views!View : u # v => slot5'[u] = slot5[u]
        BY <1>1, <1>4 DEF Views!ViewShape, Views!SocketStages
    <2>2. Views!ViewShape' BY <1>1, <1>2, <1>3, <1>4, <2>1 DEF Views!ViewShape
    <2>3. Views!Seated' /\ slot6' = slot6 /\ slot8' = slot8 BY <1>1, <1>4, SeatsUntouched
    <2>4. v \in slot6 /\ Views!Running(v)' BY <1>1, <1>2, <2>1 DEF Views!Running
    <2>5. Views!StageOK(v)' BY <1>1, <1>2, <1>4, <2>1, <2>3 DEF Views!StageOK, Views!SocketStages
    <2> QED BY <1>1, <1>2, <1>3, <1>4, <2>1, <2>2, <2>3, <2>4, <2>5, ViewMoves
<1>5. CASE /\ slot5' = [slot5 EXCEPT ![v] = "ended"] /\ Views!release(v) /\ slot9' = [slot9 EXCEPT ![v] = "none"]
           /\ slot18' = IF slot9[v] = "held" THEN Views!Carry(slot18, "srv", <<Views!Frame("close", v, 0)>>) ELSE slot18
    <2>1. slot5' \in [Views!View -> Views!SocketStages \cup Views!HttpStages] /\ slot9' \in [Display -> {"none", "held", "flow"}]
        BY <1>1, <1>5 DEF Views!ViewShape, Views!SocketStages
    <2>2. <<Views!Frame("close", v, 0)>> \in Seq(Views!WireFrame) BY FrameMade
    <2>3. slot18 \in Views!Wire BY <1>1 DEF Views!ViewShape
    <2>4. Views!Carry(slot18, "srv", <<Views!Frame("close", v, 0)>>) \in Views!Wire BY <2>2, <2>3, FramesCarried
    <2>5. slot18' \in Views!Wire BY <1>5, <2>3, <2>4
    <2>6. Views!ViewShape' BY <1>1, <1>2, <1>3, <2>1, <2>5 DEF Views!ViewShape
    <2>7. ~slot12'["srv"][v].live BY <1>1, <1>2 DEF Views!StageOK
    <2> QED BY <1>2, <1>3, <1>5, <2>6, <2>7, DisplayEnds
<1> QED BY <1>4, <1>5 DEF Views!Upgrade

\* The socket opens: it is attached to its channel, or ends with it.
LEMMA onOpenKeeps ==
    ASSUME Views!ViewInv, NEW v \in Display, Views!onOpen(v)
    PROVE  Views!ViewInv'
<1>1. Views!ViewShape /\ Views!OneSession /\ Views!Seated /\ slot6 = {u \in Views!View : Views!Running(u)} /\ Views!StageOK(v) /\ v \in Views!View /\ v \notin HttpView
    BY ViewFacts
<1>2. slot5[v] = "upgraded" /\ slot5' = [slot5 EXCEPT ![v] = "open"] /\ Views!attach(v) /\ UNCHANGED <<Views!sessionVars, slot14, slot18>>
    BY DEF Views!onOpen
<1>3. Views!OneSession' /\ slot1' = slot1 /\ slot2' = slot2 /\ slot3' = slot3 BY <1>1, <1>2, SessionsUntouched
<1>4. slot5' \in [Views!View -> Views!SocketStages \cup Views!HttpStages] /\ slot5'[v] = "open" /\ \A u \in Views!View : u # v => slot5'[u] = slot5[u]
    BY <1>1, <1>2 DEF Views!ViewShape, Views!SocketStages
<1>5. v \in slot6 /\ v \notin slot8 BY <1>1, <1>2 DEF Views!Running, Views!StageOK
<1>6. CASE slot9[v] = "none" /\ Views!release(v) /\ UNCHANGED <<slot12, slot9>>
    <2>1. Views!ViewShape' BY <1>1, <1>2, <1>3, <1>4, <1>6 DEF Views!ViewShape
    <2>2. /\ Views!Seated' /\ slot6' = slot6 \ {v} /\ v \in slot8' /\ \A u : u # v => (u \in slot8' <=> u \in slot8)
        BY <1>1, <1>5, <1>6, SeatReleased
    <2>3. ~Views!Running(v)' BY <1>4, <1>6 DEF Views!Running
    <2>4. Views!StageOK(v)' BY <1>1, <1>4, <1>6, <2>2 DEF Views!StageOK, Views!SocketStages
    <2> QED BY <1>1, <1>3, <1>4, <1>6, <2>1, <2>2, <2>3, <2>4, ViewMoves
<1>7. CASE /\ slot9[v] = "held" /\ slot9' = [slot9 EXCEPT ![v] = "flow"]
           /\ slot12' = [slot12 EXCEPT !["srv"][v] = [Views!NewFlow EXCEPT !.receiving = slot10[v] # 0]] /\ UNCHANGED Views!seatVars
    <2>2. PICK f : f = [Views!NewFlow EXCEPT !.receiving = slot10[v] # 0] OBVIOUS
    <2>3. f \in Views!FlowState /\ f.live
        <3>1. (slot10[v] # 0) \in BOOLEAN OBVIOUS
        <3> QED BY <2>2, <3>1, FlowMade DEF Views!FlowState
    <2>4. slot12' = [slot12 EXCEPT !["srv"][v] = f] BY <1>7, <2>2
    <2>5. /\ slot12' \in [Views!Ends -> [Display -> Views!FlowState]] /\ slot12'["srv"][v] = f
          /\ \A u \in Display : u # v => slot12'["srv"][u] = slot12["srv"][u]
        BY <1>1, <2>3, <2>4 DEF Views!ViewShape, Views!Ends
    <2>6. slot9' \in [Display -> {"none", "held", "flow"}] /\ slot9'[v] = "flow" /\ \A u \in Display : u # v => slot9'[u] = slot9[u]
        BY <1>1, <1>7 DEF Views!ViewShape
    <2>7. Views!ViewShape' BY <1>1, <1>2, <1>3, <1>4, <2>5, <2>6 DEF Views!ViewShape
    <2>8. Views!Seated' /\ slot6' = slot6 /\ slot8' = slot8 BY <1>1, <1>7, SeatsUntouched
    <2>9. Views!Running(v)' BY <1>4, <2>6 DEF Views!Running
    <2>10. Views!StageOK(v)' BY <1>4, <1>5, <2>3, <2>5, <2>6, <2>8 DEF Views!StageOK, Views!SocketStages
    <2> QED BY <1>1, <1>3, <1>4, <1>5, <2>5, <2>6, <2>7, <2>8, <2>9, <2>10, ViewMoves
<1> QED BY <1>2, <1>6, <1>7 DEF Views!attach

\* The browser's socket closes: close, then done.
LEMMA onCloseViewKeeps ==
    ASSUME Views!ViewInv, NEW v \in Display, Views!onClose(v)
    PROVE  Views!ViewInv'
<1>1. Views!ViewShape /\ Views!OneSession BY ViewFacts
<1>2. /\ slot5[v] = "open" /\ slot5' = [slot5 EXCEPT ![v] = "ended"] /\ slot9' = [slot9 EXCEPT ![v] = "none"]
      /\ Views!release(v) /\ UNCHANGED <<Views!sessionVars, slot14>>
    BY DEF Views!onClose
<1>3. slot12["srv"][v] \in Views!FlowState /\ slot18 \in Views!Wire BY <1>1 DEF Views!ViewShape, Views!Ends
<1>4. PICK r : r = Views!closeFlow(slot12["srv"][v], v, TRUE) OBVIOUS
<1>5. r.f \in Views!FlowState /\ r.out \in Seq(Views!WireFrame) /\ ~r.f.live BY <1>3, <1>4, closeFlowGives
<1>6. slot12' = [slot12 EXCEPT !["srv"][v] = r.f] /\ slot18' = Views!Carry(slot18, "srv", r.out) BY <1>4 DEF Views!onClose
<1>7. /\ slot12' \in [Views!Ends -> [Display -> Views!FlowState]] /\ slot12'["srv"][v] = r.f
      /\ \A u \in Display : u # v => slot12'["srv"][u] = slot12["srv"][u]
    BY <1>1, <1>5, <1>6 DEF Views!ViewShape, Views!Ends
<1>8. slot18' \in Views!Wire BY <1>3, <1>5, <1>6, FramesCarried
<1>9. Views!OneSession' /\ slot1' = slot1 /\ slot2' = slot2 /\ slot3' = slot3 BY <1>1, <1>2, SessionsUntouched
<1>10. slot5' \in [Views!View -> Views!SocketStages \cup Views!HttpStages] /\ slot9' \in [Display -> {"none", "held", "flow"}]
    BY <1>1, <1>2 DEF Views!ViewShape, Views!SocketStages
<1>11. Views!ViewShape' BY <1>1, <1>2, <1>7, <1>8, <1>9, <1>10 DEF Views!ViewShape
<1>12. ~slot12'["srv"][v].live BY <1>5, <1>7
<1>13. \A u \in Display : u # v => (slot12'["srv"][u].live <=> slot12["srv"][u].live) BY <1>7
<1> QED BY <1>2, <1>9, <1>11, <1>12, <1>13, DisplayEnds

\* A timer, a revoked authority or the lost connection closes a channel.
LEMMA ViewClosingKeeps ==
    ASSUME Views!ViewInv, NEW v \in Display, Views!PrepareExpires(v) \/ Views!Recheck(v) \/ Views!BridgeDrops(v)
    PROVE  Views!ViewInv'
<1>1. UNCHANGED Views!sessionVars /\ UNCHANGED slot14 BY DEF Views!PrepareExpires, Views!Recheck, Views!BridgeDrops
<1>2. slot18 \in Views!Wire BY ViewFacts DEF Views!ViewShape
<1>3. CASE Views!closeChannel(v, TRUE, slot18) BY <1>1, <1>2, <1>3, ChannelCloses
<1>4. CASE Views!closeChannel(v, FALSE, [slot18 EXCEPT !.srv = FALSE])
    <2>1. PICK w : w = [slot18 EXCEPT !.srv = FALSE] OBVIOUS
    <2>2. w \in Views!Wire BY <1>2, <2>1 DEF Views!Wire
    <2>3. Views!closeChannel(v, FALSE, w) BY <1>4, <2>1
    <2> QED BY <1>1, <2>2, <2>3, ChannelCloses
<1> QED BY <1>3, <1>4 DEF Views!PrepareExpires, Views!Recheck, Views!BridgeDrops

\* A frame of the supervisor reaches the bridge.
LEMMA BridgeReceivesKeeps ==
    ASSUME Views!ViewInv, Views!BridgeReceives
    PROVE  Views!ViewInv'
<1>1. Views!ViewShape /\ Views!OneSession /\ Views!Seated /\ slot6 = {u \in Views!View : Views!Running(u)} BY ViewFacts
<1>2. UNCHANGED Views!sessionVars /\ UNCHANGED slot14 /\ slot18.toSrv # <<>> BY DEF Views!BridgeReceives
<1>3. slot18 \in Views!Wire /\ slot18.toSrv \in Seq(Views!WireFrame) BY <1>1 DEF Views!ViewShape, Views!Wire
<1>4. PICK m : m = Head(slot18.toSrv) OBVIOUS
<1>5. PICK w : w = [slot18 EXCEPT !.toSrv = Tail(@)] OBVIOUS
<1>6. PICK v : v = m.v OBVIOUS
<1>7. m \in Views!WireFrame /\ Tail(slot18.toSrv) \in Seq(Views!WireFrame) BY <1>2, <1>3, <1>4
<1>8. w \in Views!Wire /\ v \in Display BY <1>3, <1>5, <1>6, <1>7 DEF Views!Wire, Views!WireFrame
<1>9. \/ slot18' = w /\ UNCHANGED <<slot5, Views!seatVars, slot9, slot12>>
      \/ /\ slot18' = w /\ slot5' = [slot5 EXCEPT ![v] = IF @ = "prepare" THEN "authorize" ELSE @]
         /\ UNCHANGED <<Views!seatVars, slot9, slot12>>
      \/ Views!closeChannel(v, m.op # "close", w)
      \/ Views!Apply("srv", v, Views!receiveFlow(slot12["srv"][v], m), w) /\ UNCHANGED slot5
    BY <1>4, <1>5, <1>6 DEF Views!BridgeReceives
<1>10. CASE slot18' = w /\ UNCHANGED <<slot5, Views!seatVars, slot9, slot12>>
    BY <1>2, <1>8, <1>10, ViewsUntouched
<1>11. CASE /\ slot18' = w /\ slot5' = [slot5 EXCEPT ![v] = IF @ = "prepare" THEN "authorize" ELSE @]
            /\ UNCHANGED <<Views!seatVars, slot9, slot12>>
    <2>1. Views!StageOK(v) /\ v \in Views!View /\ v \notin HttpView BY <1>8, ViewFacts
    <2>2. CASE slot5[v] # "prepare"
        <3>1. slot5' = slot5 BY <1>1, <1>11, <2>1, <2>2 DEF Views!ViewShape
        <3> QED BY <1>2, <1>8, <1>11, <3>1, ViewsUntouched
    <2>3. CASE slot5[v] = "prepare"
        <3>1. Views!OneSession' /\ slot1' = slot1 /\ slot2' = slot2 /\ slot3' = slot3 BY <1>1, <1>2, SessionsUntouched
        <3>2. slot5' \in [Views!View -> Views!SocketStages \cup Views!HttpStages] /\ slot5'[v] = "authorize" /\ \A u \in Views!View : u # v => slot5'[u] = slot5[u]
            BY <1>1, <1>11, <2>1, <2>3 DEF Views!ViewShape, Views!SocketStages
        <3>3. Views!ViewShape' BY <1>1, <1>2, <1>8, <1>11, <3>1, <3>2 DEF Views!ViewShape
        <3>4. Views!Seated' /\ slot6' = slot6 /\ slot8' = slot8 BY <1>1, <1>11, SeatsUntouched
        <3>5. v \in slot6 /\ Views!Running(v)' BY <1>1, <2>1, <2>3, <3>2 DEF Views!Running
        <3>6. Views!StageOK(v)' BY <1>11, <2>1, <2>3, <3>2, <3>4 DEF Views!StageOK, Views!SocketStages
        <3> QED BY <1>11, <2>1, <3>1, <3>2, <3>3, <3>4, <3>5, <3>6, ViewMoves
    <2> QED BY <2>2, <2>3
<1>12. CASE Views!closeChannel(v, m.op # "close", w)
    <2>1. PICK b : b = (m.op # "close") OBVIOUS
    <2>2. Views!closeChannel(v, b, w) BY <1>12, <2>1
    <2> QED BY <1>2, <1>8, <2>2, ChannelCloses
<1>13. CASE Views!Apply("srv", v, Views!receiveFlow(slot12["srv"][v], m), w) /\ UNCHANGED slot5
    <2>1. slot12["srv"][v] \in Views!FlowState /\ slot14' \in [Views!Ends -> [Display -> Nat]] BY <1>1, <1>2, <1>8 DEF Views!ViewShape, Views!Ends
    <2>2. PICK r : r = Views!receiveFlow(slot12["srv"][v], m) OBVIOUS
    <2>3. r.f \in Views!FlowState /\ r.out \in Seq(Views!WireFrame) /\ (r.f.live => slot12["srv"][v].live) BY <1>7, <2>1, <2>2, receiveFlowGives
    <2>4. Views!Apply("srv", v, r, w) BY <1>13, <2>2
    <2> QED BY <1>2, <1>8, <1>13, <2>1, <2>3, <2>4, ServerApplies
<1> QED BY <1>9, <1>10, <1>11, <1>12, <1>13

\* The supervisor's flows change, and the seats do not.
LEMMA SupervisorMoves ==
    ASSUME Views!ViewInv, UNCHANGED <<Views!sessionVars, slot5, Views!seatVars, slot9, slot14>>, slot18' \in Views!Wire,
           slot12' \in [Views!Ends -> [Display -> Views!FlowState]], slot12'["srv"] = slot12["srv"]
    PROVE  Views!ViewInv'
<1>1. Views!ViewShape /\ Views!OneSession BY ViewFacts
<1>2. Views!OneSession' /\ slot1' = slot1 /\ slot2' = slot2 /\ slot3' = slot3 BY <1>1, SessionsUntouched
<1>3. Views!ViewShape' BY <1>1, <1>2 DEF Views!ViewShape
<1> QED BY <1>2, <1>3, ViewsStay

\* A frame of the controller reaches the supervisor's sockets.
LEMMA SocketsReceiveKeeps ==
    ASSUME Views!ViewInv, Views!SocketsReceive
    PROVE  Views!ViewInv'
<1>1. Views!ViewShape BY ViewFacts
<1>2. UNCHANGED Views!sessionVars /\ UNCHANGED slot14 /\ UNCHANGED slot5 /\ slot18.toSup # <<>> BY DEF Views!SocketsReceive
<1>3. slot18 \in Views!Wire /\ slot18.toSup \in Seq(Views!WireFrame) BY <1>1 DEF Views!ViewShape, Views!Wire
<1>4. PICK m : m = Head(slot18.toSup) OBVIOUS
<1>5. PICK w : w = [slot18 EXCEPT !.toSup = Tail(@)] OBVIOUS
<1>6. PICK v : v = m.v OBVIOUS
<1>7. m \in Views!WireFrame /\ Tail(slot18.toSup) \in Seq(Views!WireFrame) BY <1>2, <1>3, <1>4
<1>8. w \in Views!Wire /\ v \in Display BY <1>3, <1>5, <1>6, <1>7 DEF Views!Wire, Views!WireFrame
<1>9. slot12 \in [Views!Ends -> [Display -> Views!FlowState]] /\ slot14' \in [Views!Ends -> [Display -> Nat]] BY <1>1, <1>2 DEF Views!ViewShape
<1>10. \/ Views!Apply("sup", v, Views!receiveFlow(slot12["sup"][v], m), w)
       \/ slot18' = Views!Carry(w, "sup", <<Views!Frame("close", v, 0)>>) /\ UNCHANGED <<Views!seatVars, slot9, slot12>>
       \/ slot18' = w /\ slot12' = [slot12 EXCEPT !["sup"][v] = Views!NewFlow] /\ UNCHANGED <<Views!seatVars, slot9>>
    BY <1>4, <1>5, <1>6 DEF Views!SocketsReceive
<1>11. CASE Views!Apply("sup", v, Views!receiveFlow(slot12["sup"][v], m), w)
    <2>1. slot12["sup"][v] \in Views!FlowState BY <1>8, <1>9 DEF Views!Ends
    <2>2. PICK r : r = Views!receiveFlow(slot12["sup"][v], m) OBVIOUS
    <2>3. r.f \in Views!FlowState /\ r.out \in Seq(Views!WireFrame) BY <1>7, <2>1, <2>2, receiveFlowGives
    <2>4. Views!Apply("sup", v, r, w) BY <1>11, <2>2
    <2> QED BY <1>2, <1>8, <1>9, <2>3, <2>4, SupervisorApplies
<1>12. CASE slot18' = Views!Carry(w, "sup", <<Views!Frame("close", v, 0)>>) /\ UNCHANGED <<Views!seatVars, slot9, slot12>>
    <2>1. <<Views!Frame("close", v, 0)>> \in Seq(Views!WireFrame) BY <1>8, FrameMade
    <2>2. slot18' \in Views!Wire BY <1>8, <1>12, <2>1, FramesCarried
    <2> QED BY <1>2, <1>12, <2>2, ViewsUntouched
<1>13. CASE slot18' = w /\ slot12' = [slot12 EXCEPT !["sup"][v] = Views!NewFlow] /\ UNCHANGED <<Views!seatVars, slot9>>
    <2>1. slot12' \in [Views!Ends -> [Display -> Views!FlowState]] /\ slot12'["srv"] = slot12["srv"] BY <1>8, <1>9, <1>13, FlowMade DEF Views!Ends
    <2> QED BY <1>2, <1>8, <1>13, <2>1, SupervisorMoves
<1> QED BY <1>10, <1>11, <1>12, <1>13

\* The upstream socket opens, or fails and closes its flow.
LEMMA SocketConnectsKeeps ==
    ASSUME Views!ViewInv, NEW v \in Display, Views!SocketConnects(v)
    PROVE  Views!ViewInv'
<1>1. UNCHANGED Views!sessionVars /\ UNCHANGED slot5 /\ UNCHANGED slot14 BY DEF Views!SocketConnects
<1>2. CASE Views!Apply("sup", v, Views!closeFlow(slot12["sup"][v], v, TRUE), slot18)
    <2>1. "sup" \in Views!Ends BY DEF Views!Ends
    <2> QED BY <1>1, <1>2, <2>1, FlowCloses
<1>3. CASE slot18' = Views!Carry(slot18, "sup", <<Views!Frame("ready", v, 0)>>) /\ UNCHANGED <<Views!seatVars, slot9, slot12>>
    <2>1. <<Views!Frame("ready", v, 0)>> \in Seq(Views!WireFrame) BY FrameMade
    <2>2. slot18 \in Views!Wire BY ViewFacts DEF Views!ViewShape
    <2>3. slot18' \in Views!Wire BY <1>3, <2>1, <2>2, FramesCarried
    <2> QED BY <1>1, <1>3, <2>3, ViewsUntouched
<1> QED BY <1>2, <1>3 DEF Views!SocketConnects

\* Every flow of the supervisor closes at once, each with its notice.
LEMMA CloseAllKeeps ==
    ASSUME Views!ViewInv, NEW w \in Views!Wire, Views!CloseAll(w), UNCHANGED <<Views!sessionVars, slot5, Views!seatVars, slot9, slot14>>
    PROVE  Views!ViewInv'
<1> DEFINE open == {v \in Display : slot12["sup"][v].live}
<1>1. slot12 \in [Views!Ends -> [Display -> Views!FlowState]] BY ViewFacts DEF Views!ViewShape
<1>2. slot12' = [slot12 EXCEPT !["sup"] = [v \in Display |-> Views!NoFlow]] BY DEF Views!CloseAll
<1>3. slot12' \in [Views!Ends -> [Display -> Views!FlowState]] /\ slot12'["srv"] = slot12["srv"]
    <2>1. [v \in Display |-> Views!NoFlow] \in [Display -> Views!FlowState] BY FlowMade
    <2> QED BY <1>1, <1>2, <2>1 DEF Views!Ends
<1>4. PICK s \in [1..Views!Cardinality(open) -> open] : slot18' = Views!Carry(w, "sup", [i \in DOMAIN s |-> Views!Frame("close", s[i], 0)])
    BY DEF Views!CloseAll
<1>5. Views!Cardinality(open) \in Nat
    <2>1. IsFiniteSet(open) BY ViewBounds, FS_Subset
    <2>2. Cardinality(open) \in Nat BY <2>1, FS_CardinalityType
    <2> QED BY <2>2, ViewSize
<1>6. PICK n \in Nat : n = Views!Cardinality(open) BY <1>5
<1>7. s \in [1..n -> Display] BY <1>4, <1>6
<1>8. PICK q : q = [i \in 1..n |-> Views!Frame("close", s[i], 0)] OBVIOUS
<1>9. q \in Seq(Views!WireFrame)
    <2>1. \A i \in 1..n : Views!Frame("close", s[i], 0) \in Views!WireFrame BY <1>7, FrameMade
    <2>2. q \in [1..n -> Views!WireFrame] BY <1>8, <2>1
    <2> QED BY <2>2
<1>10. slot18' = Views!Carry(w, "sup", q) BY <1>4, <1>7, <1>8
<1>11. slot18' \in Views!Wire BY <1>9, <1>10, FramesCarried
<1> QED BY <1>3, <1>11, SupervisorMoves

\* The supervisor notices the lost connection, or Chromium's connection closes.
LEMMA ClosingAllKeeps ==
    ASSUME Views!ViewInv, Views!SupervisorDrops \/ Views!ChromiumCloses
    PROVE  Views!ViewInv'
<1>1. UNCHANGED <<Views!sessionVars, slot5, Views!seatVars, slot9, slot14>> BY DEF Views!SupervisorDrops, Views!ChromiumCloses
<1>2. slot18 \in Views!Wire BY ViewFacts DEF Views!ViewShape
<1>3. CASE Views!CloseAll(slot18) BY <1>1, <1>2, <1>3, CloseAllKeeps
<1>4. CASE Views!CloseAll([slot18 EXCEPT !.sup = FALSE])
    <2>1. PICK w : w = [slot18 EXCEPT !.sup = FALSE] OBVIOUS
    <2>2. w \in Views!Wire BY <1>2, <2>1 DEF Views!Wire
    <2>3. Views!CloseAll(w) BY <1>4, <2>1
    <2> QED BY <1>1, <2>2, <2>3, CloseAllKeeps
<1>5. CASE UNCHANGED <<slot12, slot18>> BY <1>1, <1>2, <1>5, ViewsUntouched
<1> QED BY <1>3, <1>4, <1>5 DEF Views!SupervisorDrops, Views!ChromiumCloses

\* No view has begun: nobody holds a slot.
LEMMA ViewInitial ==
    ASSUME Views!ViewInit
    PROVE  Views!ViewInv
<1>1. PICK used \in SUBSET Views!View :
         slot1 = [v \in Views!View |-> IF v \notin used THEN "gone" ELSE IF v \in HttpView THEN "none" ELSE "session"]
    BY DEF Views!ViewInit
<1>2. /\ slot2 = [v \in Views!View |-> 0] /\ slot3 = [v \in Views!View |-> IF slot1[v] = "session" THEN 1 ELSE 0]
      /\ slot5 = [v \in Views!View |-> "idle"] /\ slot6 = {} /\ slot7 = [viewers |-> 0, control |-> FALSE] /\ slot8 = {}
      /\ slot9 = [v \in Display |-> "none"] /\ slot12 = [e \in Views!Ends |-> [v \in Display |-> Views!NoFlow]]
      /\ slot14 = [e \in Views!Ends |-> [v \in Display |-> 0]]
      /\ slot18 = [live |-> TRUE, srv |-> TRUE, sup |-> TRUE, toSrv |-> <<>>, toSup |-> <<>>]
    BY DEF Views!ViewInit
<1>3. slot1 \in [Views!View -> {"none", "minted", "session", "gone"}] BY <1>1
<1>4. Views!ViewShape
    <2>1. slot2 \in [Views!View -> Nat] /\ slot3 \in [Views!View -> Nat] BY <1>2
    <2>2. slot5 \in [Views!View -> Views!SocketStages \cup Views!HttpStages] BY <1>2 DEF Views!SocketStages
    <2>3. slot9 \in [Display -> {"none", "held", "flow"}] BY <1>2
    <2>4. slot12 \in [Views!Ends -> [Display -> Views!FlowState]]
        <3>1. [v \in Display |-> Views!NoFlow] \in [Display -> Views!FlowState] BY FlowMade
        <3> QED BY <1>2, <3>1
    <2>5. slot14 \in [Views!Ends -> [Display -> Nat]] BY <1>2
    <2>6. slot18 \in Views!Wire BY <1>2, NoFrames DEF Views!Wire
    <2> QED BY <1>3, <2>1, <2>2, <2>3, <2>4, <2>5, <2>6 DEF Views!ViewShape
<1>5. Views!OneSession BY <1>2, <1>3 DEF Views!OneSession
<1>6. ASSUME NEW v \in Display PROVE Views!StageOK(v)
    <2>1. v \in Views!View BY DEF Views!View
    <2>2. slot5[v] = "idle" /\ slot9[v] = "none" /\ v \notin slot8 /\ slot12["srv"][v] = Views!NoFlow BY <1>2, <2>1 DEF Views!Ends
    <2> QED BY <2>2, FlowMade DEF Views!StageOK, Views!SocketStages
<1>7. \A v \in HttpView : slot5[v] \in Views!HttpStages BY <1>2 DEF Views!View, Views!HttpStages
<1>8. Views!SlotsRun
    <2>1. \A v \in Views!View : slot5[v] = "idle" BY <1>2
    <2>2. \A v \in Views!View : ~Views!Running(v) BY <2>1 DEF Views!Running
    <2> QED BY <1>2, <2>2 DEF Views!SlotsRun
<1>9. Views!Seated
    <2>1. slot6 \cap Display = {} /\ slot6 \cap ViewControl = {} BY <1>2
    <2>2. Views!Cardinality({}) = 0 BY ViewSize, FS_EmptySet
    <2>3. slot7.viewers = 0 /\ ~slot7.control BY <1>2
    <2> QED BY <1>2, <2>1, <2>2, <2>3 DEF Views!Seated
<1> QED BY <1>4, <1>5, <1>6, <1>7, <1>8, <1>9 DEF Views!ViewInv, Views!Stages

\* Every step keeps the invariant.
LEMMA ViewSteps ==
    ASSUME Views!ViewInv, Views!ViewNext
    PROVE  Views!ViewInv'
<1>1. CASE Views!ViewLinkLost \/ Views!Revoked \/ Views!BridgeReceives \/ Views!SocketsReceive \/ Views!connectChromium \/ Views!SupervisorDrops \/ Views!ChromiumCloses
    BY <1>1, ViewLinkLostKeeps, AsideKeeps, BridgeReceivesKeeps, SocketsReceiveKeeps, ClosingAllKeeps
<1>2. ASSUME NEW v \in Views!View, Views!mint(v) \/ Views!ExchangeStarts(v) \/ Views!ExchangeEnds(v) \/ Views!Request2(v) PROVE Views!ViewInv'
    BY <1>2, SessionKeeps, Request2Keeps
<1>3. ASSUME NEW v \in HttpView, Views!HttpStep(v) PROVE Views!ViewInv' BY <1>3, HttpStepKeeps
<1>4. ASSUME NEW v \in Display, \/ Views!PrepareExpires(v) \/ Views!Upgrade(v) \/ Views!onOpen(v) \/ Views!Recheck(v) \/ Views!onClose(v)
                                \/ Views!BridgeDrops(v) \/ Views!SocketConnects(v)
      PROVE  Views!ViewInv'
    BY <1>4, ViewClosingKeeps, UpgradeKeeps, onOpenKeeps, onCloseViewKeeps, SocketConnectsKeeps
<1>5. ASSUME NEW v \in Display, NEW e \in Views!Ends, Views!Offer(e, v) \/ Views!acknowledge(e, v) \/ Views!FlowEnds(e, v) PROVE Views!ViewInv'
    BY <1>5, OfferKeeps, acknowledgeKeeps, FlowEndsKeeps
<1> QED BY <1>1, <1>2, <1>3, <1>4, <1>5 DEF Views!ViewNext

\* What the invariant says of slots, seats and sessions.
LEMMA ViewsHold ==
    ASSUME Views!ViewInv
    PROVE  Views!SeatsMatchViews
<1>1. Views!ViewShape /\ Views!OneSession /\ Views!Seated /\ slot6 = {v \in Views!View : Views!Running(v)} BY ViewFacts
<1>2. Display \subseteq Views!View /\ ViewControl \subseteq Views!View BY ViewBounds DEF Views!View
<1>3. slot6 \cap Display = {v \in Display : Views!Running(v)} BY <1>1, <1>2
<1>4. slot6 \cap ViewControl = {v \in ViewControl : Views!Running(v)} BY <1>1, <1>2
<1>5. Cardinality(slot6 \cap ViewControl) <= 1
    <2>1. CASE slot6 \cap ViewControl = {} BY <2>1, FS_EmptySet
    <2>2. CASE slot6 \cap ViewControl # {}
        <3>1. PICK v : v \in slot6 \cap ViewControl BY <2>2
        <3>2. slot6 \cap ViewControl = {v} BY <1>1, <3>1 DEF Views!Seated
        <3>3. Cardinality({v}) = 1 BY FS_Singleton
        <3> QED BY <3>2, <3>3
    <2> QED BY <2>1, <2>2
<1>6. ASSUME NEW v \in Views!View PROVE slot3[v] <= 1
    <2>1. slot3[v] \in Nat /\ slot2[v] \in Nat BY <1>1 DEF Views!ViewShape
    <2>2. slot3[v] + slot2[v] + (IF slot1[v] \in {"none", "minted"} THEN 1 ELSE 0) <= 1 BY <1>1 DEF Views!OneSession
    <2> QED BY <2>1, <2>2
<1>7. slot7.control <=> \E v \in ViewControl : Views!Running(v)
    <2>1. slot7.control <=> slot6 \cap ViewControl # {} BY <1>1 DEF Views!Seated
    <2> QED BY <1>4, <2>1
<1>8. slot7.viewers = Views!Cardinality({v \in Display : Views!Running(v)}) BY <1>1, <1>3 DEF Views!Seated
<1>9. Views!Cardinality({v \in ViewControl : Views!Running(v)}) <= 1 BY <1>4, <1>5, ViewSize
<1> QED BY <1>1, <1>6, <1>7, <1>8, <1>9 DEF Views!SeatsMatchViews

\* Whatever order openings, closings, timers, revocations and lost connections come in, with any number of terminal
\* sessions, displays and previews: the seats that are counted are those of the views that run and of the shells that
\* are up, one display is in control, and a token gives one session (displays/admission.ts, terminal-bridge.ts).
THEOREM SeatsCounted == ServerSpec => []SeatsAreCounted
<1> DEFINE Inv == (part = "terminals" => Terminal!TerminalInv) /\ (part = "views" => Views!ViewInv)
<1>1. MCInit => Inv BY TerminalInitial, ViewInitial DEF MCInit
<1>2. Inv /\ [MCNext]_serverVars => Inv'
    <2> SUFFICES ASSUME Inv, [MCNext]_serverVars PROVE Inv' OBVIOUS
    <2>1. ASSUME part' = "terminals" PROVE Terminal!TerminalInv'
        <3>1. CASE MCNext BY <2>1, <3>1, TerminalSteps DEF MCNext
        <3>2. CASE UNCHANGED serverVars
            <4>1. part' = part /\ UNCHANGED Terminal!terminalVars BY <3>2 DEF serverVars, Terminal!terminalVars
            <4> QED BY <2>1, <4>1, TerminalStutters
        <3> QED BY <3>1, <3>2
    <2>2. ASSUME part' = "views" PROVE Views!ViewInv'
        <3>1. CASE MCNext BY <2>2, <3>1, ViewSteps DEF MCNext
        <3>2. CASE UNCHANGED serverVars
            <4>1. part' = part /\ UNCHANGED Views!viewVars BY <3>2 DEF serverVars, Views!viewVars
            <4> QED BY <2>2, <4>1, ViewStutters
        <3> QED BY <3>1, <3>2
    <2> QED BY <2>1, <2>2
<1>3. Inv => SeatsAreCounted BY TerminalsHold, ViewsHold DEF SeatsAreCounted
<1> QED BY <1>1, <1>2, <1>3, PTL DEF ServerSpec
================================================================================
