------------------------------ MODULE Isolation ------------------------------
(***************************************************************************)
(* What the drivers accept before a workload may run: the mount table of a *)
(* docker container, the network policies around shared storage, and the   *)
(* writable places around installed code.  Each acceptance test is the     *)
(* code's; beside it stands what the test is for, said of every path and   *)
(* every address.  One subject is examined in a behaviour; the workload    *)
(* writes where it can, before and after.                                  *)
(***************************************************************************)
EXTENDS Naturals, FiniteSets, Sequences, SequencesExt

CONSTANTS
    Name,       \* path components
    Device,     \* block devices behind mounts
    Width       \* bits of an address (32 in the code)

VARIABLES
    subject,    \* "mounts", "network" or "code"
    table,      \* the container's mounts besides its root file system
    backings,   \* private input roots: [device, root]
    policies,   \* the network policies of the namespace
    storage,    \* storageCidrs
    outside,    \* storageOutsidePodNetwork: no pod has a storage address
    code,       \* [roots, artifacts, writable] of the installed image
    tampered,   \* installed files the workload has replaced
    verdict     \* "unknown", "accepted", "refused"

isolationVars == <<subject, table, backings, policies, storage, outside, code, tampered, verdict>>

Path(n) == BoundedSeq(Name, n)
\* overlaps: one path is the other or above it.
overlaps(p, q) == IsPrefix(p, q) \/ IsPrefix(q, p)
target == <<CHOOSE n \in Name : TRUE>>
Mounts == [device : Device, root : Path(1), path : Path(2) \ {<<>>}, readOnly : BOOLEAN]

Address == 0 .. 2 ^ Width - 1
Cidr == [address : Address, prefix : 0 .. Width]
\* validateSharedProfile refuses a storage range of every address.
storageCidrs == {c \in Cidr : c.prefix # 0}
Block == [kind : {"block"}, cidr : Cidr, except : {{}} \cup {{c} : c \in Cidr}]
Selector == [kind |-> "selector"]
Rules == {{}, {{}}, {{Selector}}} \cup {{{b}} : b \in Block}
Policies == [types : {{}, {"Ingress"}, {"Egress"}}, every : BOOLEAN, egress : Rules]

NoCode == [roots |-> {}, artifacts |-> {}, writable |-> {}]
IsolationInit ==
    /\ tampered = {} /\ verdict = "unknown"
    /\ \/ /\ subject = "mounts" /\ policies = <<>> /\ storage = {} /\ outside = FALSE /\ code = NoCode
          /\ \E m, n, k \in Mounts : /\ m.path = target /\ m.root # <<>> /\ k.path \in Path(1) /\ ~k.readOnly
                                     /\ table \in {{m}, {m, n}, {n}, {m, n, k}}
          /\ backings \in {{[device |-> d, root |-> r]} : d \in Device, r \in Path(1) \ {<<>>}}
       \/ /\ subject = "network" /\ table = {} /\ backings = {} /\ code = NoCode
          /\ policies \in {<<i, x>> : i \in {p \in Policies : p.egress \in {{}, {{}}}}, x \in Policies}
          /\ storage \in {{c} : c \in storageCidrs} /\ outside \in BOOLEAN
       \/ /\ subject = "code" /\ table = {} /\ backings = {} /\ policies = <<>> /\ storage = {} /\ outside = FALSE
          /\ code \in [roots : {{r} : r \in Path(2) \ {<<>>}}, artifacts : {{a} : a \in Path(3)},
                       writable : {{}} \cup {{w} : w \in Path(3) \ {<<>>}}]

-----------------------------------------------------------------------------
(* The code's tests. *)

TargetOnly == \E m \in table : m.path = target /\ m.readOnly
\* assertInputMountTable: one mount at or around the target, read-only, and no second way to its
\* backing or to a private one.
assertInputMountTable ==
    LET relevant == {m \in table : overlaps(m.path, target)} IN
    /\ Cardinality(relevant) = 1
    /\ \E input \in relevant :
          /\ input.path = target /\ input.readOnly
          /\ \A m \in table \ {input} : ~(m.device = input.device /\ overlaps(m.root, input.root))
    /\ \A m \in table, b \in backings : ~(m.device = b.device /\ overlaps(m.root, b.root))

\* ipv4Range floors the address to its block.
ipv4Range(c) == LET size == 2 ^ (Width - c.prefix)
                    start == (c.address \div size) * size IN [start |-> start, end |-> start + size - 1]
covers(c, d) == ipv4Range(c).start <= ipv4Range(d).start /\ ipv4Range(d).end <= ipv4Range(c).end
overlapsRange(c, d) == ipv4Range(c).start <= ipv4Range(d).end /\ ipv4Range(d).start <= ipv4Range(c).end
TouchesStorage(peer, s) == overlapsRange(peer.cidr, s) /\ ~\E x \in peer.except : overlapsRange(x, s)
peerReaches(peer, s) == overlapsRange(peer.cidr, s) /\ ~\E x \in peer.except : covers(x, s)
\* Without policyTypes a policy with egress rules covers both directions.
egressTypes(p) == IF p.types # {} THEN p.types ELSE IF p.egress # {} THEN {"Ingress", "Egress"} ELSE {"Ingress"}
requireStorageIsolation ==
    /\ policies[1].every /\ "Egress" \in egressTypes(policies[1])
    /\ \A i \in DOMAIN policies : "Egress" \in egressTypes(policies[i]) =>
          \A rule \in policies[i].egress :
             /\ rule # {}
             /\ \A peer \in rule : IF peer.kind = "block" THEN \A s \in storage : ~peerReaches(peer, s) ELSE outside

CodeBelowOnly ==
    \A r \in code.roots, w \in code.writable : ~IsPrefix(r, w)
\* qualifyAdapters: no writable place around a code root, every artifact below one.
qualifyAdapters ==
    /\ \A r \in code.roots, w \in code.writable : ~overlaps(r, w)
    /\ \A a \in code.artifacts : \E r \in code.roots : IsStrictPrefix(r, a)

\* The live files are hashed through the process root.
measured == tampered = {}
decide ==
    /\ verdict = "unknown" /\ UNCHANGED <<subject, table, backings, policies, storage, outside, code, tampered>>
    /\ verdict' = (IF (CASE subject = "mounts" -> assertInputMountTable [] subject = "network" -> requireStorageIsolation
                         [] OTHER -> qualifyAdapters /\ measured)
                   THEN "accepted" ELSE "refused")
\* The container is running while it is examined: it replaces files below its writable places.
workloadWrites ==
    /\ verdict # "refused" /\ \E a \in code.artifacts \ tampered : /\ \E w \in code.writable : IsPrefix(w, a)
                                                                    /\ tampered' = tampered \cup {a}
    /\ UNCHANGED <<subject, table, backings, policies, storage, outside, code, verdict>>
IsolationNext == decide \/ workloadWrites

-----------------------------------------------------------------------------
(* What the tests are for. *)

\* The mount through which the container sees p: the deepest one on the way.
Through(p) == {m \in table : IsPrefix(m.path, p) /\ \A n \in table : IsPrefix(n.path, p) => Len(n.path) <= Len(m.path)}
Backing(m, p) == m.root \o SubSeq(p, Len(m.path) + 1, Len(p))
Sees(p, device, root) == \E m \in Through(p) : m.device = device /\ IsPrefix(root, Backing(m, p))
\* What a pod some policies select may send to: every address when none of them covers egress.
InBlock(a, c) == ipv4Range(c).start <= a /\ a <= ipv4Range(c).end
Admits(peer, a) ==
    IF peer.kind = "block" THEN InBlock(a, peer.cidr) /\ ~\E x \in peer.except : InBlock(a, x) ELSE ~outside
CanSend(selecting, a) ==
    LET egress == {p \in selecting : "Egress" \in egressTypes(p)} IN
    egress = {} \/ \E p \in egress : \E rule \in p.egress : rule = {} \/ \E peer \in rule : Admits(peer, a)

(* In an accepted container the projection is seen at its target, read     *)
(* only, and nowhere else, and no private root is seen at all; no pod of   *)
(* an accepted namespace can address the storage; the files of accepted    *)
(* code stay what was measured.                                            *)
AcceptedIsIsolated ==
    verdict = "accepted" =>
        /\ subject = "mounts" =>
              \E input \in table :
                 /\ Through(target) = {input} /\ input.readOnly
                 /\ \A p \in Path(3) : Sees(p, input.device, input.root) => IsPrefix(target, p)
                 /\ \A p \in Path(3), b \in backings : ~Sees(p, b.device, b.root)
        /\ subject = "network" =>
              \A selecting \in SUBSET ToSet(policies) : \A s \in storage : \A a \in Address :
                 (InBlock(a, s) /\ {p \in ToSet(policies) : p.every} \subseteq selecting) => ~CanSend(selecting, a)
        /\ tampered = {}
=============================================================================
