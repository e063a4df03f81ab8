---------------------------- MODULE KeyAuthority ----------------------------
(***************************************************************************)
(* Machine keys and principals.  A key's authority is its scopes as far as *)
(* its principal still holds them; a request reads its caller's authority  *)
(* first and is decided again under the locks of the principals it names.  *)
(* Issuance, rotation, revocation, changes of a principal, the principal   *)
(* file and the local owner bootstrap interleave.  Template grants follow  *)
(* the same containment as scopes and are left out.                        *)
(***************************************************************************)
EXTENDS Naturals, FiniteSets

CONSTANTS
    Key,         \* key identifiers
    Principal,   \* principals beside the owner
    Grants,      \* scope sets principals and keys are given
    Configured,  \* principal -> the scopes it starts with
    Delegable,   \* principals that keys are delegated to manage
    MaxTime,     \* bound on the clock
    MaxEdits     \* bound on changes of principals

VARIABLES
    principal,   \* principal -> [scopes, disabled]
    key,         \* key -> its row, or NoKey
    request,     \* the issuance being decided, or NoRequest
    now, edits

authorityVars == <<principal, key, request, now, edits>>

Recovery == {"keys:write"}
Administration == {"admin", "principals:admin"} \cup Recovery
Scope == UNION Grants
Principals == Principal \cup {"owner"}
NoKey == [of |-> "none", scopes |-> {}, managed |-> {}, expires |-> 0, created |-> 0, revoked |-> FALSE, issuer |-> 0, rooted |-> FALSE]
NoRequest == [actor |-> 0, of |-> "none", scopes |-> {}, managed |-> {}, expires |-> 0]
Issued == {k \in Key : key[k] # NoKey}
Free == Key \ Issued
NewKey == CHOOSE k \in Free : \A j \in Free : k <= j

AuthorityInit ==
    /\ principal = [p \in Principals |-> [scopes |-> IF p = "owner" THEN {} ELSE Configured[p], disabled |-> FALSE]]
    /\ key = [k \in Key |-> NoKey] /\ request = NoRequest /\ now = 0 /\ edits = 0

Has(scopes, scope) == scope \in scopes \/ "admin" \in scopes
\* keyAuthority: what the key says, as far as its principal still holds it.
keyAuthority(k) == {s \in key[k].scopes : Has(principal[key[k].of].scopes, s)}
InForce(k) == k \in Issued /\ ~key[k].revoked /\ key[k].expires > now /\ ~principal[key[k].of].disabled
Within(scopes, held) == "admin" \in held \/ scopes \subseteq held
\* keyAdministrationPrincipal, and lockTarget: delegation names its exact targets.
Administers(k, p) ==
    /\ Has(keyAuthority(k), "keys:write")
    /\ IF "admin" \notin keyAuthority(k) /\ key[k].managed # {} THEN p \in key[k].managed
       ELSE Within(principal[p].scopes, keyAuthority(k))

-----------------------------------------------------------------------------
(* Issuance. *)

\* issuePrincipalKey, and rotatePrincipalKey with the predecessor's grants and at most its lifetime.
ask(k, r) ==
    /\ request = NoRequest /\ Free # {} /\ InForce(k) /\ Administers(k, r.of) /\ r.actor = k /\ r.scopes # {}
    /\ \A s \in r.scopes : Has(principal[r.of].scopes, s)
    /\ request' = r /\ UNCHANGED <<principal, key, now, edits>>
issuePrincipalKey(k) ==
    \E p \in Principals, s \in Grants, m \in SUBSET Delegable, e \in now + 1 .. MaxTime + 1 :
        ask(k, [actor |-> k, of |-> p, scopes |-> s, managed |-> m, expires |-> e])
successorExpiry(pred, issuer) ==
    LET wanted == now + key[pred].expires - key[pred].created IN
    IF key[issuer].expires < wanted THEN key[issuer].expires ELSE wanted
rotatePrincipalKey(k) ==
    \E pred \in Issued :
        /\ ~key[pred].revoked /\ key[pred].expires > now
        /\ ask(k, [actor |-> k, of |-> key[pred].of, scopes |-> key[pred].scopes, managed |-> key[pred].managed,
                   expires |-> successorExpiry(pred, k)])
\* assertKeyIssueAuthority, on what the rows hold under the locks.
IssueUnchecked(r) == Has(keyAuthority(r.actor), "keys:write") /\ r.expires <= key[r.actor].expires
assertKeyIssueAuthority(r) ==
    LET held == keyAuthority(r.actor)
        owner == "admin" \in held
        delegated == r.of \in key[r.actor].managed IN
    /\ Has(held, "keys:write") /\ r.expires <= key[r.actor].expires
    /\ ~owner /\ delegated => principal[r.of].scopes \cap Administration = {} /\ r.scopes \cap Administration = {}
    /\ ~owner /\ ~delegated => Within(principal[r.of].scopes, held) /\ r.scopes \subseteq held
    /\ r.managed # {} => owner /\ r.scopes \subseteq Recovery
assertTargetGrants(r) ==
    /\ ~principal[r.of].disabled /\ r.expires > now /\ \A s \in r.scopes : Has(principal[r.of].scopes, s)
Insert(k, r, rooted) ==
    key' = [key EXCEPT ![k] = [of |-> r.of, scopes |-> r.scopes, managed |-> r.managed, expires |-> r.expires,
                               created |-> now, revoked |-> FALSE, issuer |-> r.actor, rooted |-> rooted]]
issueMachineKey ==
    /\ request # NoRequest /\ request' = NoRequest /\ Free # {} /\ UNCHANGED <<principal, now, edits>>
    /\ IF InForce(request.actor) /\ assertKeyIssueAuthority(request) /\ assertTargetGrants(request)
       THEN Insert(NewKey, request, "admin" \in keyAuthority(request.actor)) ELSE UNCHANGED key
\* bootstrapLocalRecoveryKey: exact targets, recovery scopes, no calling key.
bootstrapLocalRecoveryKey ==
    Free # {} /\ \E p \in Principal, m \in (SUBSET Delegable) \ {{}} :
        LET r == [actor |-> 0, of |-> p, scopes |-> Recovery, managed |-> m, expires |-> MaxTime + 1] IN
        /\ assertTargetGrants(r) /\ Insert(NewKey, r, TRUE) /\ UNCHANGED <<principal, request, now, edits>>

-----------------------------------------------------------------------------
(* Revocation and principals. *)

Revoked(p) == [k \in Key |-> IF key[k].of = p THEN [key[k] EXCEPT !.revoked = TRUE] ELSE key[k]]
\* bootstrapOwnerKey: the owner is (re)created with every scope; replace revokes its keys first.
bootstrapOwnerKey(replace) ==
    /\ Free # {} /\ principal' = [principal EXCEPT !["owner"] = [scopes |-> {"admin"}, disabled |-> FALSE]]
    /\ key' = [(IF replace THEN Revoked("owner") ELSE key) EXCEPT
                    ![NewKey] = [of |-> "owner", scopes |-> {"admin"}, managed |-> {}, expires |-> MaxTime + 1, created |-> now,
                            revoked |-> FALSE, issuer |-> 0, rooted |-> TRUE]]
    /\ UNCHANGED <<request, now, edits>>
revokeMachineKey(a, k) ==
    /\ InForce(a) /\ k \in Issued /\ ~key[k].revoked /\ Administers(a, key[k].of)
    /\ key' = [key EXCEPT ![k].revoked = TRUE] /\ UNCHANGED <<principal, request, now, edits>>
DisableOnly(a, p) ==
    /\ edits < MaxEdits /\ edits' = edits + 1 /\ InForce(a) /\ Administers(a, p) /\ UNCHANGED <<key, request, now>>
    /\ principal' = [principal EXCEPT ![p].disabled = TRUE]
\* revokePrincipalKeys: the principal is disabled and every key it has is revoked, in one transaction.
revokePrincipalKeys(a, p) ==
    /\ edits < MaxEdits /\ edits' = edits + 1 /\ InForce(a) /\ Administers(a, p) /\ key' = Revoked(p)
    /\ principal' = [principal EXCEPT ![p].disabled = TRUE] /\ UNCHANGED <<request, now>>
updateManagedPrincipal(a, p) ==
    /\ edits < MaxEdits /\ edits' = edits + 1 /\ InForce(a) /\ Has(keyAuthority(a), "principals:admin") /\ p # key[a].of
    /\ Within(principal[p].scopes, keyAuthority(a)) /\ UNCHANGED <<request, now>>
    /\ \E s \in Grants, d \in BOOLEAN :
          /\ Within(s, keyAuthority(a)) /\ principal' = [principal EXCEPT ![p] = [scopes |-> s, disabled |-> d]]
          /\ key' = (IF d THEN Revoked(p) ELSE key)
\* applyConfiguredPrincipal: the controller's own authority, from a principal file that cannot say admin.
applyConfiguredPrincipal(p) ==
    /\ edits < MaxEdits /\ edits' = edits + 1 /\ UNCHANGED <<request, now>>
    /\ \E s \in Grants, d \in BOOLEAN : /\ "admin" \notin s
                                        /\ principal' = [principal EXCEPT ![p] = [scopes |-> s, disabled |-> d]]
                                        /\ key' = (IF d THEN Revoked(p) ELSE key)
Tick == now < MaxTime /\ now' = now + 1 /\ UNCHANGED <<principal, key, request, edits>>

AuthorityNext ==
    \/ issueMachineKey \/ bootstrapLocalRecoveryKey \/ Tick \/ \E replace \in BOOLEAN : bootstrapOwnerKey(replace)
    \/ \E k \in Key : issuePrincipalKey(k) \/ rotatePrincipalKey(k)
    \/ \E a, k \in Key : revokeMachineKey(a, k)
    \/ \E a \in Key, p \in Principals : revokePrincipalKeys(a, p) \/ updateManagedPrincipal(a, p)
    \/ \E p \in Principal : applyConfiguredPrincipal(p)

-----------------------------------------------------------------------------
(* Whatever overlaps: a disabled principal has no key that an enabling     *)
(* would bring back; owner authority and delegation are held only by keys  *)
(* that a bootstrap or an owner key issued; delegation carries recovery    *)
(* scopes only; and a key that was issued by another never outlives it.    *)
AuthorityIsGranted ==
    \A k \in Issued :
        /\ principal[key[k].of].disabled => key[k].revoked
        /\ ("admin" \in key[k].scopes \/ key[k].managed # {}) => key[k].rooted
        /\ key[k].issuer # 0 => key[k].expires <= key[key[k].issuer].expires
        /\ key[k].managed # {} => key[k].scopes \subseteq Recovery
=============================================================================
