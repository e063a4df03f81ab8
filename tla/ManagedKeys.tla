----------------------------- MODULE ManagedKeys -----------------------------
(***************************************************************************)
(* The key of a principal that the principal file declares.  At startup    *)
(* and on a timer the controller applies the file, reads the token it      *)
(* wrote to the target earlier, and issues a new key when that token is no *)
(* longer good; a consumer reloads the target in its own time.  Issuing    *)
(* and writing are two steps with a crash between them; administrators     *)
(* revoke and disable, and the pepper may change.                          *)
(***************************************************************************)
EXTENDS Naturals, FiniteSets, Sequences, SequenceTheorems, TLAPS

CONSTANTS
    MaxKeys,       \* keys issued in a behaviour
    Lifetime,      \* lifetime_hours
    RenewBefore,   \* renew_before_hours, below the lifetime
    Overlap,       \* overlap_minutes, in ticks of the renewal timer
    MaxTime,       \* bound on the clock
    MaxTroubles    \* bound on failed writes and crashes

VARIABLES
    keys,       \* the principal's managed keys, by their order of issue: [created, revoked, pepper]
    enabled,    \* the principal is enabled
    pepper,     \* the controller's pepper
    target,     \* the key whose token the target holds, 0 for none
    unwritten,  \* the key issued and not written yet, 0 for none
    consumer,   \* the key the consumer has loaded
    ran,        \* the timer ran and the consumer reloaded since the clock last moved
    disturbed,  \* an administrator or a new pepper took the consumer's key
    now, troubles

managedVars == <<keys, enabled, pepper, target, unwritten, consumer, ran, disturbed, now, troubles>>

ManagedInit ==
    /\ keys = <<>> /\ enabled = TRUE /\ pepper = 0 /\ target = 0 /\ unwritten = 0 /\ consumer = 0
    /\ ran = {} /\ disturbed = TRUE /\ now = 0 /\ troubles = 0

Expires(k) == keys[k].created + Lifetime
Accepted(k) == k # 0 /\ enabled /\ ~keys[k].revoked /\ Expires(k) > now /\ keys[k].pepper = pepper
RenewAtExpiry == target # 0 /\ ~keys[target].revoked /\ keys[target].pepper = pepper /\ Expires(target) > now
\* inspectTarget: the token is there, verifies, is not revoked and not about to expire.
healthy == target # 0 /\ keys[target].pepper = pepper /\ ~keys[target].revoked /\ Expires(target) > now + RenewBefore

-----------------------------------------------------------------------------
\* applyPrincipal: a declared principal is enabled again.
applyPrincipal ==
    /\ ~enabled /\ enabled' = TRUE
    /\ UNCHANGED <<keys, pepper, target, unwritten, consumer, ran, disturbed, now, troubles>>
\* retireSuperseded: the keys before the current one, once it has been out for the overlap.
RetireAtOnce == IF healthy THEN [k \in DOMAIN keys |-> IF k = target THEN keys[k] ELSE [keys[k] EXCEPT !.revoked = TRUE]] ELSE keys
retireSuperseded ==
    IF keys[target].created + Overlap > now THEN keys
    ELSE [k \in DOMAIN keys |-> IF k = target THEN keys[k] ELSE [keys[k] EXCEPT !.revoked = TRUE]]
keep ==
    /\ enabled /\ unwritten = 0 /\ "timer" \notin ran /\ healthy /\ keys' = retireSuperseded /\ ran' = ran \cup {"timer"}
    /\ UNCHANGED <<enabled, pepper, target, unwritten, consumer, disturbed, now, troubles>>
issue ==
    /\ enabled /\ unwritten = 0 /\ "timer" \notin ran /\ ~healthy /\ Len(keys) < MaxKeys
    /\ keys' = Append(keys, [created |-> now, revoked |-> FALSE, pepper |-> pepper]) /\ unwritten' = Len(keys) + 1
    /\ UNCHANGED <<enabled, pepper, target, consumer, ran, disturbed, now, troubles>>
\* A token nobody received must not stay valid.
dropUnwritten == [keys EXCEPT ![unwritten].revoked = TRUE]
\* The staged file replaces the target whole, or the key is revoked.
writeTarget ==
    /\ unwritten # 0 /\ unwritten' = 0 /\ ran' = ran \cup {"timer"} /\ UNCHANGED <<enabled, pepper, consumer, disturbed, now>>
    /\ \/ target' = unwritten /\ UNCHANGED <<keys, troubles>>
       \/ troubles < MaxTroubles /\ troubles' = troubles + 1 /\ keys' = dropUnwritten /\ UNCHANGED target
\* A crash after the issuance: the key stays, and the restart reconciles again.
Crash ==
    /\ unwritten # 0 /\ troubles < MaxTroubles /\ troubles' = troubles + 1 /\ unwritten' = 0
    /\ UNCHANGED <<keys, enabled, pepper, target, consumer, ran, disturbed, now>>

reload ==
    /\ "reload" \notin ran /\ ran' = ran \cup {"reload"} /\ consumer' = target
    /\ disturbed' = (disturbed /\ ~(Accepted(target) /\ (unwritten = 0 \/ Accepted(unwritten))))
    /\ UNCHANGED <<keys, enabled, pepper, target, unwritten, now, troubles>>
\* An administrator revokes a key, or disables the principal, which revokes them all.
administer ==
    /\ troubles < MaxTroubles /\ troubles' = troubles + 1 /\ disturbed' = TRUE
    /\ UNCHANGED <<pepper, target, unwritten, consumer, ran, now>>
    /\ \/ \E k \in DOMAIN keys : keys' = [keys EXCEPT ![k].revoked = TRUE] /\ UNCHANGED enabled
       \/ keys' = [k \in DOMAIN keys |-> [keys[k] EXCEPT !.revoked = TRUE]] /\ enabled' = FALSE
rotatePepper ==
    /\ troubles < MaxTroubles /\ troubles' = troubles + 1 /\ pepper' = pepper + 1 /\ disturbed' = TRUE /\ unwritten = 0
    /\ UNCHANGED <<keys, enabled, target, unwritten, consumer, ran, now>>
\* The timer runs, and a consumer reloads, more often than a key's margins.
Tick ==
    /\ now < MaxTime /\ now' = now + 1 /\ ran = {"timer", "reload"} /\ ran' = {}
    /\ UNCHANGED <<keys, enabled, pepper, target, unwritten, consumer, disturbed, troubles>>

ManagedNext ==
    applyPrincipal \/ keep \/ issue \/ writeTarget \/ Crash \/ reload \/ administer \/ rotatePepper \/ Tick

-----------------------------------------------------------------------------
(* A consumer that reloads the target once in a period of the timer always *)
(* holds a key the controller accepts, through renewals, failed writes and *)
(* crashes, until an administrator or a new pepper takes it, and again     *)
(* after its next reload of a good token.                                  *)
ConsumerIsServed == ~disturbed => Accepted(consumer)

-----------------------------------------------------------------------------
(***************************************************************************)
(* The consumer of a managed key is served for any lifetime and any number *)
(* of keys, as facts about a step that a composition can use.              *)
(*                                                                         *)
(* The margins have to suffice: a key is renewed RenewBefore periods       *)
(* early, which is more than the writes that fail and the period until the *)
(* consumer reloads, and a superseded key stays for the overlap.  A period *)
(* in which the timer did not replace a key that is due is explained by a  *)
(* failed write, so the time the target has left is bounded by the faults  *)
(* so far.                                                                 *)
(***************************************************************************)

MarginsSuffice ==
    /\ Lifetime \in Nat /\ RenewBefore \in Nat /\ Overlap \in Nat /\ MaxTroubles \in Nat
    /\ RenewBefore < Lifetime /\ MaxTroubles + 2 <= RenewBefore /\ 2 <= Overlap

KeyRow == [created : Nat, revoked : BOOLEAN, pepper : Nat]

ManagedTypes ==
    /\ keys \in Seq(KeyRow)
    /\ enabled \in BOOLEAN /\ disturbed \in BOOLEAN /\ pepper \in Nat /\ now \in Nat
    /\ troubles \in Nat /\ troubles <= MaxTroubles /\ ran \subseteq {"timer", "reload"}
    /\ target \in {0} \cup DOMAIN keys /\ consumer \in {0} \cup DOMAIN keys
    /\ unwritten \in {0} \cup DOMAIN keys
    /\ \A k \in DOMAIN keys : keys[k].pepper <= pepper

Good(k) == ~keys[k].revoked /\ keys[k].pepper = pepper

\* Before the timer runs, one more period may have been lost than troubles explain.
TargetHasTime ==
    target # 0 /\ Good(target) =>
        Expires(target) + troubles + (IF "timer" \in ran THEN 0 ELSE 1) > now + RenewBefore

\* The key that is not written yet is of this period, and nobody holds it.
UnwrittenIsNew ==
    unwritten # 0 => /\ "timer" \notin ran /\ keys[unwritten].created = now
                     /\ target # unwritten /\ consumer # unwritten

\* What the consumer holds is the target, or was until so short a time ago that it is still good.
Margin == IF "reload" \in ran THEN 1 ELSE 0
ConsumerHasTime ==
    ~disturbed =>
        /\ enabled /\ consumer # 0 /\ Good(consumer) /\ target # 0 /\ Good(target)
        /\ unwritten # 0 => Good(unwritten)
        /\ consumer # target => Expires(consumer) > now + Margin /\ keys[target].created + Overlap > now + Margin

ManagedInv == MarginsSuffice /\ ManagedTypes /\ TargetHasTime /\ UnwrittenIsNew /\ ConsumerHasTime

\* The keys are numbered from 1 on.
LEMMA KeyNumbers ==
    ASSUME keys \in Seq(KeyRow)
    PROVE  /\ Len(keys) \in Nat /\ DOMAIN keys = 1 .. Len(keys) /\ 0 \notin DOMAIN keys
           /\ \A k \in DOMAIN keys : /\ k \in Nat /\ keys[k] \in KeyRow /\ keys[k].created \in Nat
                                     /\ keys[k].pepper \in Nat /\ keys[k].revoked \in BOOLEAN
<1>1. Len(keys) \in Nat /\ DOMAIN keys = 1 .. Len(keys) /\ \A k \in DOMAIN keys : keys[k] \in KeyRow OBVIOUS
<1> QED BY <1>1 DEF KeyRow

\* Revoking some of the keys changes nothing else of them.
LEMMA KeysRetired ==
    ASSUME keys \in Seq(KeyRow), NEW R \in SUBSET DOMAIN keys,
           keys' = [k \in DOMAIN keys |-> IF k \in R THEN [keys[k] EXCEPT !.revoked = TRUE] ELSE keys[k]]
    PROVE  /\ keys' \in Seq(KeyRow) /\ DOMAIN keys' = DOMAIN keys
           /\ \A k \in DOMAIN keys : /\ keys'[k].created = keys[k].created /\ keys'[k].pepper = keys[k].pepper
                                     /\ keys'[k].revoked = (keys[k].revoked \/ k \in R)
<1>1. \A k \in DOMAIN keys : /\ keys[k] \in KeyRow /\ keys[k].revoked \in BOOLEAN
                             /\ [keys[k] EXCEPT !.revoked = TRUE] \in KeyRow
                             /\ [keys[k] EXCEPT !.revoked = TRUE].revoked = TRUE
                             /\ [keys[k] EXCEPT !.revoked = TRUE].created = keys[k].created
                             /\ [keys[k] EXCEPT !.revoked = TRUE].pepper = keys[k].pepper
    BY KeyNumbers DEF KeyRow
<1>2. Len(keys) \in Nat /\ DOMAIN keys = 1 .. Len(keys) BY KeyNumbers
<1>3. keys' \in [1 .. Len(keys) -> KeyRow] BY <1>1, <1>2
<1>4. keys' \in Seq(KeyRow) BY <1>2, <1>3, SeqDef
<1>5. DOMAIN keys' = DOMAIN keys OBVIOUS
<1>6. ASSUME NEW k \in DOMAIN keys
      PROVE  /\ keys'[k].created = keys[k].created /\ keys'[k].pepper = keys[k].pepper
             /\ keys'[k].revoked = (keys[k].revoked \/ k \in R)
    <2>1. CASE k \in R
        <3>1. keys'[k] = [keys[k] EXCEPT !.revoked = TRUE] BY <2>1
        <3> QED BY <1>1, <2>1, <3>1
    <2>2. CASE k \notin R
        <3>1. keys'[k] = keys[k] BY <2>2
        <3> QED BY <1>1, <2>2, <3>1
    <2> QED BY <2>1, <2>2
<1> QED BY <1>4, <1>5, <1>6

\* At first no key was issued, and the consumer has none.
LEMMA ManagedInitial ==
    ASSUME MarginsSuffice, ManagedInit
    PROVE  ManagedInv
BY DEF MarginsSuffice, ManagedInit, ManagedInv, ManagedTypes, TargetHasTime, UnwrittenIsNew, ConsumerHasTime

\* Steps that leave the keys and the target alone.
LEMMA KeysStay ==
    ASSUME ManagedInv, applyPrincipal \/ Crash \/ reload \/ rotatePepper \/ Tick
    PROVE  ManagedInv'
<1> USE DEF ManagedInv
<1>1. /\ keys' = keys /\ target' = target /\ MarginsSuffice /\ (MarginsSuffice)'
    BY DEF applyPrincipal, Crash, reload, rotatePepper, Tick, MarginsSuffice
<1>2. ManagedTypes'
    <2> USE <1>1 DEF MarginsSuffice, ManagedTypes
    <2>1. CASE applyPrincipal BY <2>1 DEF applyPrincipal
    <2>2. CASE Crash BY <2>2 DEF Crash
    <2>3. CASE reload
        <3>1. disturbed' \in BOOLEAN BY <2>3 DEF reload
        <3> QED BY <2>3, <3>1 DEF reload
    <2>4. CASE rotatePepper
        <3>1. \A k \in DOMAIN keys : keys[k].pepper \in Nat BY KeyNumbers
        <3>2. \A k \in DOMAIN keys : keys[k].pepper <= pepper + 1 BY <3>1
        <3> QED BY <2>4, <3>2 DEF rotatePepper
    <2>5. CASE Tick BY <2>5 DEF Tick
    <2> QED BY <2>1, <2>2, <2>3, <2>4, <2>5
<1> DEFINE Row(k) == keys[k].created \in Nat /\ keys[k].pepper \in Nat /\ keys[k].pepper <= pepper
<1>3. /\ target # 0 => Row(target)
      /\ consumer # 0 => Row(consumer)
      /\ unwritten # 0 => Row(unwritten)
    BY KeyNumbers DEF ManagedTypes
<1> USE <1>1, <1>2, <1>3 DEF MarginsSuffice, ManagedTypes
<1>4. TargetHasTime'
    <2>1. CASE applyPrincipal BY <2>1 DEF TargetHasTime, Good, Expires, applyPrincipal
    <2>2a. CASE Crash BY <2>2a DEF TargetHasTime, Good, Expires, Crash
    <2>2b. CASE reload BY <2>2b DEF TargetHasTime, Good, Expires, reload
    <2>2. CASE rotatePepper BY <2>2 DEF TargetHasTime, Good, Expires, rotatePepper
    <2>3. CASE Tick BY <2>3 DEF TargetHasTime, Good, Expires, Tick
    <2> QED BY <2>1, <2>2, <2>2a, <2>2b, <2>3
<1>5. UnwrittenIsNew'
    BY DEF UnwrittenIsNew, applyPrincipal, Crash, reload, rotatePepper, Tick
<1>6. ConsumerHasTime'
    <2>1. CASE applyPrincipal \/ Crash
        BY <2>1 DEF ConsumerHasTime, Good, Expires, Margin, applyPrincipal, Crash
    <2>2. CASE reload
        BY <2>2 DEF ConsumerHasTime, Good, Expires, Margin, reload, Accepted
    <2>3. CASE rotatePepper
        BY <2>3 DEF ConsumerHasTime, rotatePepper
    <2>4. CASE Tick
        BY <2>4 DEF ConsumerHasTime, Good, Expires, Margin, Tick
    <2> QED BY <2>1, <2>2, <2>3, <2>4
<1> QED BY <1>1, <1>2, <1>4, <1>5, <1>6

\* A set of keys is revoked, by whom it may.
LEMMA KeysGo ==
    ASSUME ManagedInv, keep \/ administer
    PROVE  ManagedInv'
<1> USE DEF ManagedInv
<1>1. MarginsSuffice /\ MarginsSuffice' /\ ManagedTypes BY DEF MarginsSuffice
<1>2. PICK R \in SUBSET DOMAIN keys :
        /\ keys' = [k \in DOMAIN keys |-> IF k \in R THEN [keys[k] EXCEPT !.revoked = TRUE] ELSE keys[k]]
        /\ keep /\ R # {} => R = DOMAIN keys \ {target} /\ keys[target].created + Overlap <= now
    <2>0. keys = [k \in DOMAIN keys |-> keys[k]] BY <1>1 DEF ManagedTypes
    <2>1. CASE keep /\ keys' = keys
        <3> WITNESS {} \in SUBSET DOMAIN keys
        <3> QED BY <2>0, <2>1
    <2>2. CASE keep /\ keys' # keys
        <3>1. /\ ~(keys[target].created + Overlap > now)
              /\ keys' = [k \in DOMAIN keys |-> IF k = target THEN keys[k] ELSE [keys[k] EXCEPT !.revoked = TRUE]]
            BY <2>2 DEF keep, retireSuperseded
        <3>2. target \in DOMAIN keys BY <1>1, <2>2 DEF keep, healthy, ManagedTypes
        <3>3. keys[target].created + Overlap <= now
            BY <1>1, <3>1, <3>2, KeyNumbers DEF ManagedTypes, MarginsSuffice
        <3> WITNESS DOMAIN keys \ {target} \in SUBSET DOMAIN keys
        <3> QED BY <3>1, <3>3
    <2>3. CASE administer /\ \E k \in DOMAIN keys : keys' = [keys EXCEPT ![k].revoked = TRUE]
        <3>1. PICK k \in DOMAIN keys : keys' = [keys EXCEPT ![k].revoked = TRUE] BY <2>3
        <3>2. ~keep BY <2>3 DEF keep, administer
        <3> WITNESS {k} \in SUBSET DOMAIN keys
        <3> QED BY <2>0, <3>1, <3>2
    <2>4. CASE administer /\ keys' = [k \in DOMAIN keys |-> [keys[k] EXCEPT !.revoked = TRUE]]
        <3>1. ~keep BY <2>4 DEF keep, administer
        <3> WITNESS DOMAIN keys \in SUBSET DOMAIN keys
        <3> QED BY <2>4, <3>1
    <2> QED BY <2>1, <2>2, <2>3, <2>4 DEF administer
<1>3. /\ keys' \in Seq(KeyRow) /\ DOMAIN keys' = DOMAIN keys
      /\ \A k \in DOMAIN keys : /\ keys'[k].created = keys[k].created /\ keys'[k].pepper = keys[k].pepper
                                /\ keys'[k].revoked = (keys[k].revoked \/ k \in R)
    BY <1>1, <1>2, KeysRetired DEF ManagedTypes
<1>4. /\ UNCHANGED <<pepper, target, unwritten, consumer, now>>
      /\ ran' = IF keep THEN ran \cup {"timer"} ELSE ran
      /\ troubles' \in Nat /\ troubles <= troubles' /\ troubles' <= MaxTroubles
      /\ enabled' \in BOOLEAN /\ disturbed' \in BOOLEAN
    <2>1. CASE keep BY <1>1, <2>1 DEF keep, ManagedTypes
    <2>2. CASE administer /\ ~keep
        <3>1. /\ UNCHANGED <<pepper, target, unwritten, consumer, ran, now>> /\ disturbed' = TRUE
              /\ troubles < MaxTroubles /\ troubles' = troubles + 1
            BY <2>2 DEF administer
        <3>2. enabled' \in BOOLEAN BY <1>1, <2>2 DEF administer, ManagedTypes
        <3>3. troubles' \in Nat /\ troubles <= troubles' /\ troubles' <= MaxTroubles
            BY <1>1, <3>1 DEF ManagedTypes, MarginsSuffice
        <3> QED BY <2>2, <3>1, <3>2, <3>3
    <2> QED BY <2>1, <2>2
<1>5. ManagedTypes'
    BY <1>1, <1>3, <1>4 DEF ManagedTypes
<1>6. UnwrittenIsNew'
    <2>1. unwritten # 0 => ~keep BY DEF keep
    <2> QED BY <1>1, <1>3, <1>4, <2>1 DEF UnwrittenIsNew, ManagedTypes
<1>7. /\ target # 0 => target \in DOMAIN keys /\ keys[target].created \in Nat
      /\ consumer # 0 => consumer \in DOMAIN keys /\ keys[consumer].created \in Nat
      /\ unwritten # 0 => unwritten \in DOMAIN keys
    BY <1>1, KeyNumbers DEF ManagedTypes
<1>8. TargetHasTime'
    <2> SUFFICES ASSUME target # 0, Good(target)'
                 PROVE  keys[target].created + Lifetime + troubles' + (IF "timer" \in ran' THEN 0 ELSE 1) > now + RenewBefore
        BY <1>3, <1>4, <1>7 DEF TargetHasTime, Expires
    <2>1. Good(target) BY <1>3, <1>4, <1>7 DEF Good
    <2>2. CASE keep
        <3>1. keys[target].created + Lifetime > now + RenewBefore BY <2>2 DEF keep, healthy, Expires
        <3> QED BY <1>1, <1>4, <1>7, <3>1 DEF ManagedTypes, MarginsSuffice
    <2>3. CASE ~keep
        <3>1. keys[target].created + Lifetime + troubles + (IF "timer" \in ran THEN 0 ELSE 1) > now + RenewBefore
            BY <2>1 DEF TargetHasTime, Expires
        <3> QED BY <1>1, <1>4, <1>7, <2>3, <3>1 DEF ManagedTypes, MarginsSuffice
    <2> QED BY <2>2, <2>3
<1>9. ConsumerHasTime'
    <2>1. CASE administer BY <2>1 DEF administer, ConsumerHasTime
    <2>2. CASE keep /\ ~disturbed
        <3>1. UNCHANGED <<enabled, disturbed>> /\ unwritten = 0 BY <2>2 DEF keep
        <3>2. ConsumerHasTime /\ Margin \in {0, 1} BY DEF Margin
        <3>3. consumer \notin R /\ target \notin R
            <4>1. CASE R = {} BY <4>1
            <4>2. CASE R # {}
                <5>1. R = DOMAIN keys \ {target} /\ keys[target].created + Overlap <= now BY <1>2, <2>2, <4>2
                <5>2. ~(keys[target].created + Overlap > now + Margin)
                    <6>1. keys[target].created \in Nat BY <1>7, <2>2, <3>2 DEF ConsumerHasTime
                    <6> QED BY <1>1, <3>2, <5>1, <6>1 DEF ManagedTypes, MarginsSuffice
                <5>3. consumer = target BY <2>2, <3>2, <5>2 DEF ConsumerHasTime
                <5> QED BY <5>1, <5>3
            <4> QED BY <4>1, <4>2
        <3>4. Good(consumer)' /\ Good(target)' BY <1>3, <1>4, <1>7, <2>2, <3>2, <3>3 DEF ConsumerHasTime, Good
        <3>5. Margin' = Margin BY <1>4 DEF Margin
        <3> QED BY <1>3, <1>4, <1>7, <2>2, <3>1, <3>2, <3>4, <3>5 DEF ConsumerHasTime, Expires
    <2>3. CASE keep /\ disturbed BY <2>3 DEF keep, ConsumerHasTime
    <2> QED BY <2>1, <2>2, <2>3
<1> QED BY <1>1, <1>5, <1>6, <1>8, <1>9

\* A new key is good, and nobody holds it yet.
LEMMA KeyIssued ==
    ASSUME ManagedInv, issue
    PROVE  ManagedInv'
<1> USE DEF ManagedInv
<1>1. MarginsSuffice /\ MarginsSuffice' /\ ManagedTypes BY DEF MarginsSuffice
<1>2. PICK r : r = [created |-> now, revoked |-> FALSE, pepper |-> pepper] OBVIOUS
<1>3. r \in KeyRow /\ r.created = now /\ r.revoked = FALSE /\ r.pepper = pepper
    BY <1>1, <1>2 DEF KeyRow, ManagedTypes
<1>4. /\ keys' = Append(keys, r) /\ unwritten' = Len(keys) + 1 /\ unwritten = 0 /\ "timer" \notin ran /\ enabled
      /\ UNCHANGED <<enabled, pepper, target, consumer, ran, disturbed, now, troubles>>
    BY <1>2 DEF issue
<1>5. Len(keys) \in Nat /\ DOMAIN keys = 1 .. Len(keys) BY <1>1, KeyNumbers DEF ManagedTypes
<1>6. /\ keys' \in Seq(KeyRow) /\ DOMAIN keys' = 1 .. Len(keys) + 1 /\ keys'[Len(keys) + 1] = r
      /\ \A k \in DOMAIN keys : keys'[k] = keys[k]
    BY <1>1, <1>3, <1>4, <1>5, AppendProperties DEF ManagedTypes
<1>7. /\ DOMAIN keys \subseteq DOMAIN keys' /\ Len(keys) + 1 \notin DOMAIN keys /\ Len(keys) + 1 # 0
      /\ Len(keys) + 1 \in DOMAIN keys'
    BY <1>5, <1>6
<1>8. ManagedTypes'
    <2>1. \A k \in DOMAIN keys' : keys'[k].pepper <= pepper
        <3> SUFFICES ASSUME NEW k \in DOMAIN keys' PROVE keys'[k].pepper <= pepper OBVIOUS
        <3>1. CASE k \in DOMAIN keys BY <1>1, <1>6, <3>1 DEF ManagedTypes
        <3>2. CASE k = Len(keys) + 1 BY <1>1, <1>3, <1>6, <3>2 DEF ManagedTypes
        <3> QED BY <1>5, <1>6, <3>1, <3>2
    <2> QED BY <1>1, <1>4, <1>6, <1>7, <2>1 DEF ManagedTypes
<1>9. UnwrittenIsNew' BY <1>1, <1>3, <1>4, <1>6, <1>7 DEF UnwrittenIsNew, ManagedTypes
<1>10. /\ target # 0 => keys'[target] = keys[target]
       /\ consumer # 0 => keys'[consumer] = keys[consumer]
    BY <1>1, <1>6 DEF ManagedTypes
<1>11. TargetHasTime' BY <1>4, <1>10 DEF TargetHasTime, Good, Expires
<1>12. ConsumerHasTime'
    <2>1. Good(unwritten)' BY <1>3, <1>4, <1>6 DEF Good
    <2>2. Margin' = Margin BY <1>4 DEF Margin
    <2> QED BY <1>4, <1>10, <2>1, <2>2 DEF ConsumerHasTime, Good, Expires
<1> QED BY <1>1, <1>8, <1>9, <1>11, <1>12

\* The target is replaced while the old one still has time, or stays and a period is lost.
LEMMA KeyWritten ==
    ASSUME ManagedInv, writeTarget
    PROVE  ManagedInv'
<1> USE DEF ManagedInv
<1>1. MarginsSuffice /\ MarginsSuffice' /\ ManagedTypes BY DEF MarginsSuffice
<1>2. /\ unwritten # 0 /\ unwritten' = 0 /\ ran' = ran \cup {"timer"}
      /\ UNCHANGED <<enabled, pepper, consumer, disturbed, now>>
    BY DEF writeTarget
<1>3. /\ unwritten \in DOMAIN keys /\ keys[unwritten].created = now /\ target # unwritten /\ consumer # unwritten
      /\ "timer" \notin ran
    BY <1>1, <1>2 DEF ManagedTypes, UnwrittenIsNew
<1>4. /\ target # 0 => target \in DOMAIN keys /\ keys[target].created \in Nat
      /\ consumer # 0 => consumer \in DOMAIN keys /\ keys[consumer].created \in Nat
    BY <1>1, KeyNumbers DEF ManagedTypes
<1>5. UnwrittenIsNew' BY <1>2 DEF UnwrittenIsNew
<1>6. Margin' = Margin /\ Margin \in {0, 1} BY <1>2 DEF Margin
<1>7. CASE target' = unwritten /\ UNCHANGED <<keys, troubles>>
    <2>1. ManagedTypes' BY <1>1, <1>2, <1>3, <1>7 DEF ManagedTypes
    <2>2. TargetHasTime'
        <3>1. now + Lifetime + troubles + 0 > now + RenewBefore BY <1>1 DEF ManagedTypes, MarginsSuffice
        <3> QED BY <1>2, <1>3, <1>7, <3>1 DEF TargetHasTime, Expires
    <2>3. ConsumerHasTime'
        <3> SUFFICES ASSUME ~disturbed PROVE ConsumerHasTime' BY <1>2 DEF ConsumerHasTime
        <3>1. /\ enabled /\ consumer # 0 /\ Good(consumer) /\ target # 0 /\ Good(target) /\ Good(unwritten)
              /\ consumer # target => Expires(consumer) > now + Margin
            BY <1>2 DEF ConsumerHasTime
        <3>2. Expires(consumer) > now + Margin
            <4>1. CASE consumer = target
                <5>1. Expires(target) + troubles + 1 > now + RenewBefore BY <1>3, <3>1 DEF TargetHasTime
                <5>2. Expires(target) \in Nat BY <1>1, <1>4, <3>1 DEF Expires, MarginsSuffice
                <5> QED BY <1>1, <1>6, <4>1, <5>1, <5>2 DEF ManagedTypes, MarginsSuffice
            <4> QED BY <3>1, <4>1
        <3>3. now + Overlap > now + Margin BY <1>1, <1>6 DEF ManagedTypes, MarginsSuffice
        <3>4. Expires(consumer)' = Expires(consumer) BY <1>2, <1>7 DEF Expires
        <3>5. Good(consumer)' /\ Good(target)' BY <1>2, <1>7, <3>1 DEF Good
        <3> QED BY <1>2, <1>3, <1>6, <1>7, <3>1, <3>2, <3>3, <3>4, <3>5 DEF ConsumerHasTime
    <2> QED BY <1>1, <1>5, <2>1, <2>2, <2>3
<1>8. CASE troubles < MaxTroubles /\ troubles' = troubles + 1 /\ keys' = dropUnwritten /\ UNCHANGED target
    <2>0. keys = [k \in DOMAIN keys |-> keys[k]] BY <1>1 DEF ManagedTypes
    <2>1. PICK R \in SUBSET DOMAIN keys : R = {unwritten} BY <1>3
    <2>2. keys' = [k \in DOMAIN keys |-> IF k \in R THEN [keys[k] EXCEPT !.revoked = TRUE] ELSE keys[k]]
        BY <1>3, <1>8, <2>0, <2>1 DEF dropUnwritten
    <2>3. /\ keys' \in Seq(KeyRow) /\ DOMAIN keys' = DOMAIN keys
          /\ \A k \in DOMAIN keys : keys'[k].pepper = keys[k].pepper
        BY <1>1, <2>2, KeysRetired DEF ManagedTypes
    <2>4. \A k \in DOMAIN keys : k # unwritten => keys'[k] = keys[k] BY <2>1, <2>2
    <2>5. ManagedTypes' BY <1>1, <1>2, <1>8, <2>3 DEF ManagedTypes, MarginsSuffice
    <2>6. /\ target # 0 => keys'[target] = keys[target]
          /\ consumer # 0 => keys'[consumer] = keys[consumer]
        BY <1>3, <1>4, <2>4
    <2>7. TargetHasTime'
        <3> SUFFICES ASSUME target # 0, Good(target)'
                     PROVE  keys[target].created + Lifetime + (troubles + 1) + 0 > now + RenewBefore
            BY <1>2, <1>8, <2>6 DEF TargetHasTime, Expires
        <3>1. Good(target) BY <1>2, <1>8, <2>6 DEF Good
        <3>2. keys[target].created + Lifetime + troubles + 1 > now + RenewBefore
            BY <1>3, <3>1 DEF TargetHasTime, Expires
        <3> QED BY <1>1, <1>4, <3>2 DEF ManagedTypes, MarginsSuffice
    <2>8. ConsumerHasTime' BY <1>2, <1>6, <1>8, <2>6 DEF ConsumerHasTime, Good, Expires
    <2> QED BY <1>1, <1>5, <2>5, <2>7, <2>8
<1> QED BY <1>7, <1>8 DEF writeTarget

\* Every step of the timer, the consumer and the administrators keeps the invariant.
LEMMA ManagedSteps ==
    ASSUME ManagedInv, ManagedNext
    PROVE  ManagedInv'
BY KeysStay, KeysGo, KeyIssued, KeyWritten DEF ManagedNext

\* Nothing happens.
LEMMA ManagedStutters ==
    ASSUME ManagedInv, UNCHANGED managedVars
    PROVE  ManagedInv'
<1>1. UNCHANGED <<keys, enabled, pepper, target, unwritten, consumer, ran, disturbed, now, troubles>>
    BY DEF managedVars
<1>2. MarginsSuffice' /\ ManagedTypes' BY <1>1 DEF ManagedInv, MarginsSuffice, ManagedTypes
<1>3. TargetHasTime' /\ UnwrittenIsNew' BY <1>1 DEF ManagedInv, TargetHasTime, UnwrittenIsNew, Good, Expires
<1>4. ConsumerHasTime' BY <1>1 DEF ManagedInv, ConsumerHasTime, Good, Expires, Margin
<1> QED BY <1>2, <1>3, <1>4 DEF ManagedInv

\* The invariant gives the consumer's key the time it needs.
LEMMA ManagedServes ==
    ASSUME ManagedInv
    PROVE  ConsumerIsServed
<1> SUFFICES ASSUME ~disturbed PROVE Accepted(consumer) BY DEF ConsumerIsServed
<1> USE DEF ManagedInv
<1>1. /\ enabled /\ consumer # 0 /\ Good(consumer) /\ target # 0 /\ Good(target)
      /\ consumer # target => Expires(consumer) > now + Margin
    BY DEF ConsumerHasTime
<1>2. Expires(consumer) > now
    <2>1. Expires(target) \in Nat /\ Expires(consumer) \in Nat
        BY <1>1, KeyNumbers DEF ManagedTypes, MarginsSuffice, Expires
    <2>2. Expires(target) + troubles + (IF "timer" \in ran THEN 0 ELSE 1) > now + RenewBefore
        BY <1>1 DEF TargetHasTime
    <2> QED BY <1>1, <2>1, <2>2 DEF ManagedTypes, MarginsSuffice, Margin
<1> QED BY <1>1, <1>2 DEF Accepted, Good
=============================================================================
