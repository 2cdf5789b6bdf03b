--------------------------- MODULE ValidatorProofs ---------------------------
(***************************************************************************)
(* For any number of concurrent validations, any lifetimes and cache       *)
(* sizes and every fault: only proven links reach the DNSKEY cache and the *)
(* delegation cache, the validator is handed a chain with no link left     *)
(* out, root keys of a revoked anchor do not outlive MAX_POSITIVE_TTL and  *)
(* the last validation that had it, and the verdict is the one the zones'  *)
(* signatures deserve.                                                     *)
(***************************************************************************)
EXTENDS Validator, SequenceTheorems, TLAPS

\* The leaves are first-order steps; the ones that need arithmetic, sequences or
\* records cite SMT.
USE ZenonT(30)

\* A job is a record with the fields of Idle.
Fields == {"pc", "steps", "ans", "trust", "chain", "got", "i", "boot", "ds", "valid",
           "verdict", "lossy", "fresh", "began"}
IsJob(r) == r = [f \in Fields |-> r[f]]

\* The zones without a broken link at or above them in scenario s.
ProvenIn(s) == {z \in Zone : ~(s.kind \in LinkFaults /\ s.zone \in Ancestry(z))}

\* What a DS RRset and a DNSKEY RRset of zone z look like in scenario s: the
\* broken link shows its fault.
DsFacts(s, z, ds, sig) ==
    /\ sig # None => sig[1] = Parent(z)
    /\ z = s.zone => /\ s.kind = "dsMissing" => ds = {}
                     /\ s.kind = "dsWrong" => ds = {0}
                     /\ s.kind = "dsUnsigned" => sig = None
                     /\ s.kind = "dsExpired" => Expired(sig)
                     /\ s.kind = "dsMissigned" => sig[2] = 0

\* The faults a DS RRset of the broken link may have and still verify.
DsVerified(s, ds) ==
    /\ s.kind \notin {"dsMissing", "dsUnsigned", "dsExpired", "dsMissigned"}
    /\ s.kind = "dsWrong" => ds = {0}

GoodVersions(keys) == \A k \in keys : k[2] \in 1 .. 3

KeyFacts(s, z, keys, sig) ==
    /\ GoodVersions(keys)
    /\ z = s.zone => /\ s.kind = "keysMissing" => keys = {}
                     /\ s.kind = "keysUnsigned" => sig = None
                     /\ s.kind = "keysExpired" => Expired(sig)
                     /\ s.kind = "keysMissigned" => sig[2] = 0

\* The delegations of a walk below the ones the servers skip.
StepsShape(s, steps) ==
    \/ s.cut = 0 /\ steps = <<steps[1], steps[2]>> /\ steps[1].zone = T /\ steps[2].zone = L
    \/ s.cut = 1 /\ steps = <<steps[1]>> /\ steps[1].zone = L
    \/ s.cut = 2 /\ steps = << >>

Looked == {"loop", "boot", "bootKeys"}

JobShape(s, r) ==
    /\ IsJob(r)
    /\ IF r.pc \in {"idle", "done"} THEN r.steps = << >> ELSE StepsShape(s, r.steps)
    /\ r.ans # None => r.ans[1] = L
    /\ r.i \in Nat \ {0}
    /\ r.pc \in Looked => \A i \in DOMAIN r.got : "st" \in DOMAIN r.got[i]

\* A validation has keys, and validated steps, of zones without a broken link
\* only; the root is the first of them.
JobProven(s, r) ==
    /\ \A i \in DOMAIN r.steps : DsFacts(s, r.steps[i].zone, r.steps[i].ds, r.steps[i].sig)
    /\ DOMAIN r.chain \subseteq ProvenIn(s)
    /\ \A z \in DOMAIN r.chain : GoodVersions(r.chain[z])
    /\ r.valid \subseteq ProvenIn(s)
    /\ r.verdict # "Secure"
    /\ r.pc \in Looked \cup {"lookup"} => Root \in DOMAIN r.chain
    /\ r.pc \in Looked =>
          /\ DOMAIN r.got = DOMAIN r.steps
          /\ \A i \in DOMAIN r.got :
                /\ r.got[i].st = "cached" =>
                      r.steps[i].zone \in ProvenIn(s) /\ GoodVersions(r.got[i].keys)
                /\ r.got[i].st = "fetched" =>
                      KeyFacts(s, r.steps[i].zone, r.got[i].keys, r.got[i].sig)
    /\ r.pc \in {"boot", "bootKeys"} => r.boot \in {T, L} /\ r.boot \notin DOMAIN r.chain
    /\ r.pc = "bootKeys" => (BootZone(r) = s.zone => DsVerified(s, r.ds))

JobInv(s, r) == JobShape(s, r) /\ (s.kind \in LinkFaults => JobProven(s, r))

JobsInv ==
    /\ job = [j \in Job |-> job[j]]
    /\ \A j \in Job : JobInv(scene, job[j])

PositiveInv ==
    scene.kind \in LinkFaults =>
        /\ DOMAIN positive \subseteq ProvenIn(scene)
        /\ \A z \in DOMAIN positive : GoodVersions(positive[z].keys)

DelegationInv ==
    \A z \in DOMAIN delegation :
        LET s == delegation[z].step
        IN  /\ z \in {T, L} /\ s.zone = z /\ Len(z) > scene.cut
            /\ scene.kind \in LinkFaults => z \in ProvenIn(scene) /\ DsFacts(scene, z, s.ds, s.sig)

ValInv ==
    /\ scene \in Scene
    /\ scene.kind \in LinkFaults => stage = 0
    /\ JobsInv /\ PositiveInv /\ DelegationInv

-----------------------------------------------------------------------------
\* The zones of the chain, from the root down.
LEMMA ZoneFacts ==
    /\ Root # T /\ Root # L /\ T # L
    /\ Len(Root) = 0 /\ Len(T) = 1 /\ Len(L) = 2
    /\ Parent(T) = Root /\ Parent(L) = T
    /\ Ancestry(Root) = {Root} /\ Ancestry(T) = {Root, T} /\ Ancestry(L) = {Root, T, L}
<1>1. Len(Root) = 0 /\ Len(T) = 1 /\ Len(L) = 2 /\ T[1] = "t" /\ L[1] = "t" /\ L[2] = "l"
    BY DEF Root, T, L
<1>2. Root # T /\ Root # L /\ T # L
    BY <1>1, SMTT(30)
<1>3. T \in Seq({"t", "l"}) /\ L \in Seq({"t", "l"})
    BY SMTT(30) DEF T, L
<1>4. SubSeq(T, 1, 0) = Root /\ SubSeq(L, 1, 0) = Root
    BY SubSeqEmpty, SMTT(30) DEF Root
<1>5. SubSeq(T, 1, 1) = T /\ SubSeq(L, 1, 2) = L
    BY <1>1, <1>3, SubSeqFull
<1>6. SubSeq(L, 1, 1) = T
    <2>1. \A i \in 1 .. 1 : L[i] \in {"t", "l"}
        BY <1>1, SMTT(30)
    <2>2. SubSeq(L, 1, 1) \in Seq({"t", "l"}) /\ Len(SubSeq(L, 1, 1)) = 1 /\ SubSeq(L, 1, 1)[1] = L[1]
        BY <2>1, SubSeqProperties, SMTT(30)
    <2> QED
        BY <1>1, <1>3, <2>2, SeqEqual, SMTT(30)
<1>7. Parent(T) = Root /\ Parent(L) = T
    BY <1>1, <1>4, <1>6, SMTT(30) DEF Parent
<1>8. Ancestry(Root) = {Root}
    <2>1. SubSeq(Root, 1, 0) = Root
        BY SubSeqEmpty, SMTT(30) DEF Root
    <2>2. 0 .. Len(Root) = {0}
        BY <1>1, SMTT(30)
    <2>3. Ancestry(Root) = {SubSeq(Root, 1, n) : n \in {0}}
        BY <2>2 DEF Ancestry
    <2> QED
        BY <2>1, <2>3
<1>9. Ancestry(T) = {Root, T}
    <2>1. 0 .. Len(T) = {0, 1}
        BY <1>1, SMTT(30)
    <2> QED
        BY <1>4, <1>5, <2>1 DEF Ancestry
<1>10. Ancestry(L) = {Root, T, L}
    <2>1. 0 .. Len(L) = {0, 1, 2}
        BY <1>1, SMTT(30)
    <2> QED
        BY <1>4, <1>5, <1>6, <2>1 DEF Ancestry
<1> QED
    BY <1>1, <1>2, <1>7, <1>8, <1>9, <1>10

\* What the zones publish shows the fault of the scenario.
LEMMA PublishedFacts ==
    ASSUME scene.kind \in LinkFaults, stage = 0, NEW z \in {T, L}
    PROVE  /\ DsFacts(scene, z, PublishedDs(z), DsSignature(z))
           /\ KeyFacts(scene, z, Keys(z, PublishedKeys(z)), KeySignature(z))
<1>0. z # Root
    BY ZoneFacts
<1>1. \A v : <<Parent(z), v>>[1] = Parent(z) /\ <<Parent(z), v>>[2] = v /\ <<z, v>>[2] = v
    OBVIOUS
<1>2. DsFacts(scene, z, PublishedDs(z), DsSignature(z))
    <2>1. DsSignature(z) = None \/ \E v : DsSignature(z) = <<Parent(z), v>>
        BY SMTT(30) DEF DsSignature
    <2>2. ASSUME z = scene.zone
          PROVE  /\ scene.kind = "dsMissing" => PublishedDs(z) = {}
                 /\ scene.kind = "dsWrong" => PublishedDs(z) = {0}
        BY <2>2, SMTT(30) DEF PublishedDs, Is
    <2>3. ASSUME z = scene.zone
          PROVE  /\ scene.kind = "dsUnsigned" => DsSignature(z) = None
                 /\ scene.kind = "dsExpired" => DsSignature(z) = <<Parent(z), Late>>
                 /\ scene.kind = "dsMissigned" => DsSignature(z) = <<Parent(z), 0>>
        BY <2>3 DEF DsSignature, Is
    <2> QED
        BY <1>1, <2>1, <2>2, <2>3 DEF DsFacts, Expired
<1>3. PublishedKeys(z) \subseteq 1 .. 3
    BY <1>0, SMTT(30) DEF PublishedKeys
<1>4. GoodVersions(Keys(z, PublishedKeys(z)))
    BY <1>3, SMTT(30) DEF GoodVersions, Keys
<1>5. ASSUME z = scene.zone
      PROVE  /\ scene.kind = "keysMissing" => PublishedKeys(z) = {}
             /\ scene.kind = "keysUnsigned" => KeySignature(z) = None
             /\ scene.kind = "keysExpired" => KeySignature(z) = <<z, Late>>
             /\ scene.kind = "keysMissigned" => KeySignature(z) = <<z, 0>>
    <2>1. scene.kind = "keysMissing" => PublishedKeys(z) = {}
        BY <1>0, <1>5, SMTT(30) DEF PublishedKeys, Is
    <2>2. scene.kind = "keysUnsigned" => KeySignature(z) = None
        BY <1>0, <1>5 DEF KeySignature, Is
    <2>3. scene.kind = "keysExpired" => KeySignature(z) = <<z, Late>>
        BY <1>0, <1>5 DEF KeySignature, Is
    <2>4. scene.kind = "keysMissigned" => KeySignature(z) = <<z, 0>>
        BY <1>0, <1>5 DEF KeySignature, Is
    <2> QED
        BY <2>1, <2>2, <2>3, <2>4
<1> QED
    BY <1>1, <1>2, <1>4, <1>5 DEF KeyFacts, Keys, Expired

\* The faulty link does not verify, whatever good keys its parent has: either
\* its DS RRset does not, or then its DNSKEY RRset does not.
LEMMA FaultyDsFails ==
    ASSUME NEW s, NEW ds, NEW sig, NEW parents, ds # {},
           DsFacts(s, s.zone, ds, sig), GoodVersions(parents), DsHolds(sig, parents)
    PROVE  DsVerified(s, ds)
    BY SMTT(30) DEF DsVerified, DsFacts, GoodVersions, DsHolds

\* A DS RRset that verifies at the faulty link leaves the fault to its keys.
LEMMA FaultyKeysFail ==
    ASSUME NEW s, s.kind \in LinkFaults, NEW ds, DsVerified(s, ds),
           NEW keys, NEW sig, KeyFacts(s, s.zone, keys, sig)
    PROVE  ~KeysHold(keys, sig, ds)
    BY SMTT(30) DEF LinkFaults, DsVerified, KeyFacts, GoodVersions, KeysHold, Covers, Expired

\* closest_trusted_keys takes the keys of one zone of the chain, or none.
LEMMA ClosestIsInChain ==
    ASSUME NEW chain, DOMAIN chain \subseteq Zone, NEW z
    PROVE  \/ closest_trusted_keys(chain, z) = {}
           \/ \E y \in DOMAIN chain : closest_trusted_keys(chain, z) = chain[y]
<1> DEFINE above == {y \in DOMAIN chain : y \in Ancestry(z)}
<1>1. ASSUME above # {}
      PROVE  \E y \in above : \A x \in above : Len(x) <= Len(y)
    <2>1. above \subseteq {Root, T, L}
        BY DEF Zone
    <2> HIDE DEF above
    <2> QED
        BY <1>1, <2>1, ZoneFacts, SMTT(30)
<1> QED
    BY <1>1 DEF closest_trusted_keys

\* bootstrap_intermediate_zone works from the shallowest missing zone down.
LEMMA BootZoneFacts ==
    ASSUME NEW r, r.boot \in {T, L}, r.boot \notin DOMAIN r.chain, Root \in DOMAIN r.chain
    PROVE  /\ BootZone(r) \in {T, L} /\ BootZone(r) \notin DOMAIN r.chain
           /\ BootZone(r) = L => T \in DOMAIN r.chain
<1> DEFINE missing == {z \in Ancestry(r.boot) : z \notin DOMAIN r.chain}
<1>1. r.boot \in missing /\ missing \subseteq {T, L}
    BY ZoneFacts
<1>2. r.boot = L /\ T \notin DOMAIN r.chain => T \in missing
    BY ZoneFacts
<1>3. BootZone(r) = CHOOSE z \in missing : \A y \in missing : Len(z) <= Len(y)
    BY DEF BootZone
<1>4. missing \cap DOMAIN r.chain = {}
    OBVIOUS
<1>7. L \in missing => r.boot = L
    <2>1. CASE r.boot = T
        BY <2>1, ZoneFacts
    <2> QED
        BY <2>1
<1> HIDE DEF missing
<1>5. \E z \in missing : \A y \in missing : Len(z) <= Len(y)
    BY <1>1, ZoneFacts, SMTT(30)
<1>6. BootZone(r) \in missing /\ \A y \in missing : Len(BootZone(r)) <= Len(y)
    BY <1>3, <1>5
<1>8. BootZone(r) \in {T, L} /\ BootZone(r) \notin DOMAIN r.chain
    BY <1>1, <1>4, <1>6
<1>9. ASSUME BootZone(r) = L, T \notin DOMAIN r.chain PROVE FALSE
    <2>1. T \in missing
        BY <1>2, <1>6, <1>7, <1>9
    <2>2. Len(L) <= Len(T)
        BY <1>6, <1>9, <2>1
    <2> QED
        BY <2>2, ZoneFacts, SMTT(30)
<1> QED
    BY <1>8, <1>9

-----------------------------------------------------------------------------
\* A step of one validation leaves the others alone.
LEMMA GoKeepsJobs ==
    ASSUME JobsInv, NEW j \in Job, NEW x, Go(j, x), JobInv(scene, x), scene' = scene
    PROVE  JobsInv'
<1>1. \A k \in Job : job'[k] = IF k = j THEN x ELSE job[k]
    BY DEF JobsInv, Go
<1>2. job' = [k \in Job |-> job'[k]]
    BY DEF JobsInv, Go
<1> QED
    BY <1>1, <1>2 DEF JobsInv

\* put_positive adds the entry of one zone and may drop others.
LEMMA PutPositive ==
    ASSUME NEW z, NEW keys, NEW by, put_positive(z, keys, by)
    PROVE  /\ DOMAIN positive' \subseteq DOMAIN positive \cup {z}
           /\ \A y \in DOMAIN positive' : positive'[y] =
                 IF y = z THEN [keys |-> keys, expiry |-> now + Clamp(KeyTtl), by |-> by]
                 ELSE positive[y]
<1>1. PICK map \in Evict(positive, POSITIVE_CACHE_CAP, z) :
         positive' = With(map, z, [keys |-> keys, expiry |-> now + Clamp(KeyTtl), by |-> by])
    BY DEF put_positive
<1>2. DOMAIN map \subseteq DOMAIN positive /\ \A y \in DOMAIN map : map[y] = positive[y]
    BY DEF Evict, Without
<1> QED
    BY <1>1, <1>2 DEF With

\* The end of a validation: the job is empty, and the steps that are stored are
\* validated steps of the walk.
LEMMA VerdictKeeps ==
    ASSUME ValInv, NEW j \in Job, NEW r, NEW v, JobInv(scene, r), r.pc \notin {"idle", "done"},
           Verdict(j, r, v), scene.kind \in LinkFaults => v # "Secure",
           UNCHANGED <<scene, stage, positive>>
    PROVE  ValInv'
<1> DEFINE x == [Idle EXCEPT !.pc = "done", !.verdict = v, !.lossy = r.lossy, !.fresh = r.fresh]
<1>1. IsJob(x) /\ x.pc = "done" /\ x.steps = << >> /\ x.ans = None /\ x.chain = << >>
      /\ x.valid = {} /\ x.got = << >> /\ x.i = 1 /\ x.verdict = v
    BY DEF Idle, IsJob, Fields
<1>2. JobInv(scene, x)
    <2> HIDE DEF x
    <2> QED
        BY <1>1, SMTT(30) DEF JobInv, JobShape, JobProven, Looked
<1>3. JobsInv'
    BY <1>2, GoKeepsJobs DEF Verdict, ValInv
<1>4. DelegationInv'
    <2> DEFINE new == Insertable(r.steps, r.valid)
    <2>1. ASSUME NEW s \in new
          PROVE  /\ s.zone \in {T, L} /\ Len(s.zone) > scene.cut
                 /\ scene.kind \in LinkFaults =>
                        s.zone \in ProvenIn(scene) /\ DsFacts(scene, s.zone, s.ds, s.sig)
        <3>1. PICK i \in DOMAIN r.steps : s = r.steps[i]
            BY DEF Insertable, Range
        <3>2. StepsShape(scene, r.steps) /\ s.zone \in r.valid
            BY DEF JobInv, JobShape, Insertable
        <3>3. s.zone \in {T, L} /\ Len(s.zone) > scene.cut
            BY <3>1, <3>2, ZoneFacts, SMTT(30) DEF StepsShape
        <3> QED
            BY <3>1, <3>2, <3>3 DEF JobInv, JobProven
    <2>2. \A z \in DOMAIN delegation' :
              \/ z \in DOMAIN delegation /\ delegation'[z] = delegation[z]
              \/ \E s \in new : s.zone = z /\ delegation'[z].step = s
        <3> HIDE DEF new
        <3>1. delegation' = [z \in DOMAIN delegation \cup {s.zone : s \in new} |->
                 IF \E s \in new : s.zone = z
                   THEN [step |-> CHOOSE s \in new : s.zone = z,
                         expiry |-> now + Lesser(DsTtl[z], DELEGATION_CACHE_TTL_CAP)]
                   ELSE delegation[z]]
            BY DEF Verdict, cache_validated_delegations, new
        <3> QED
            BY <3>1
    <2> HIDE DEF new
    <2> QED
        BY <2>1, <2>2, SMTT(30) DEF ValInv, DelegationInv
<1> QED
    BY <1>3, <1>4 DEF ValInv, PositiveInv

\* A step that does not end a validation, and may put keys into the cache.
LEMMA GoKeeps ==
    ASSUME ValInv, NEW j \in Job, NEW x, Go(j, x), JobInv(scene, x), PositiveInv',
           UNCHANGED <<scene, stage, delegation>>
    PROVE  ValInv'
    BY GoKeepsJobs DEF ValInv, DelegationInv

\* put_positive and its eviction keep the positive cache free of faulty zones.
LEMMA PutKeepsPositive ==
    ASSUME ValInv, NEW z, NEW keys, NEW by, put_positive(z, keys, by), scene' = scene,
           scene.kind \in LinkFaults => z \in ProvenIn(scene) /\ GoodVersions(keys)
    PROVE  PositiveInv'
    BY PutPositive, SMTT(30) DEF ValInv, PositiveInv

\* The broken link lies below the root, and a zone other than the broken one is
\* proven when its parent is.
LEMMA ProvenZones ==
    ASSUME ValInv, scene.kind \in LinkFaults
    PROVE  /\ scene.zone \in {T, L}
           /\ Root \in ProvenIn(scene)
           /\ \A z \in {T, L} : z # scene.zone /\ (z = L => T \in ProvenIn(scene))
                                   => z \in ProvenIn(scene)
<1>1. scene.zone \in {T, L}
    BY ValidatorAssumption DEF ValInv
<1> QED
    BY <1>1, ZoneFacts DEF ProvenIn, Zone

\* A validation that trusts the keys of one more zone.
LEMMA TrustIsProven ==
    ASSUME NEW s, NEW chain, NEW z, NEW keys,
           DOMAIN chain \subseteq ProvenIn(s), \A y \in DOMAIN chain : GoodVersions(chain[y]),
           z \in ProvenIn(s), GoodVersions(keys)
    PROVE  /\ DOMAIN Trust(chain, z, keys) = DOMAIN chain \cup {z}
           /\ DOMAIN Trust(chain, z, keys) \subseteq ProvenIn(s)
           /\ \A y \in DOMAIN Trust(chain, z, keys) : GoodVersions(Trust(chain, z, keys)[y])
    BY DEF Trust, With

\* The delegations a walk records: of the two, those that are neither skipped
\* nor spliced in from the cache.
LEMMA PairSuffixes ==
    ASSUME NEW a, NEW b
    PROVE  /\ SubSeq(<<a, b>>, 1, 2) = <<a, b>>
           /\ SubSeq(<<a, b>>, 2, 2) = <<b>>
           /\ SubSeq(<<a, b>>, 3, 2) = << >>
           /\ \A c : <<c>> \o <<b>> = <<c, b>>
           /\ <<a, b>> \o << >> = <<a, b>>
           /\ << >> \o <<a, b>> = <<a, b>>
           /\ << >> \o <<b>> = <<b>>
           /\ << >> \o << >> = << >>
<1> DEFINE S == {a, b}
<1>1. <<a, b>> \in Seq(S) /\ Len(<<a, b>>) = 2 /\ <<b>> \in Seq(S)
    BY SMTT(30)
<1>2. SubSeq(<<a, b>>, 1, 2) = <<a, b>>
    BY <1>1, SubSeqFull
<1>3. SubSeq(<<a, b>>, 2, 2) = <<b>>
    <2>1. \A i \in 2 .. 2 : <<a, b>>[i] \in S
        BY SMTT(30)
    <2> DEFINE u == SubSeq(<<a, b>>, 2, 2)
               w == <<b>>
    <2>2. u \in Seq(S) /\ Len(u) = 1 /\ u[1] = b
        BY <2>1, SubSeqProperties, SMTT(30)
    <2>3. w \in Seq(S) /\ Len(w) = 1 /\ w[1] = b
        BY SMTT(30)
    <2> HIDE DEF S, u, w
    <2>4. u = w
        BY <2>2, <2>3, SeqEqual, SMTT(30)
    <2> QED
        BY <2>4 DEF u, w
<1>4. SubSeq(<<a, b>>, 3, 2) = << >>
    BY SubSeqEmpty, SMTT(30)
<1>5. ASSUME NEW c PROVE <<c>> \o <<b>> = <<c, b>>
    <2> DEFINE C == {b, c}
               u == <<c>> \o <<b>>
               w == <<c, b>>
    <2>1. <<c>> \in Seq(C) /\ <<b>> \in Seq(C) /\ Len(<<c>>) = 1 /\ Len(<<b>>) = 1
          /\ <<c>>[1] = c /\ <<b>>[1] = b
        BY SMTT(30)
    <2>2. w \in Seq(C) /\ Len(w) = 2 /\ w[1] = c /\ w[2] = b
        BY SMTT(30)
    <2>3. /\ u \in Seq(C) /\ Len(u) = 1 + 1
          /\ \A i \in 1 .. 2 : u[i] = IF i <= 1 THEN <<c>>[i] ELSE <<b>>[i - 1]
        <3> HIDE DEF C
        <3> QED
            BY <2>1, ConcatProperties, SMTT(30)
    <2>4. u[1] = c /\ u[2] = b
        <3> HIDE DEF u
        <3> QED
            BY <2>1, <2>3, SMTT(30)
    <2> HIDE DEF C, u, w
    <2>5. u = w
        BY <2>2, <2>3, <2>4, SeqEqual, SMTT(30)
    <2> QED
        BY <2>5 DEF u, w
<1>6. /\ <<a, b>> \o << >> = <<a, b>> /\ << >> \o <<a, b>> = <<a, b>>
      /\ << >> \o <<b>> = <<b>> /\ << >> \o << >> = << >>
    BY SMTT(30)
<1> QED
    BY <1>2, <1>3, <1>4, <1>5, <1>6

-----------------------------------------------------------------------------
\* The steps of a walk that begins now.
Walked ==
    LET pre == cached_delegation_start
        skip == IF pre = << >> THEN scene.cut ELSE Len(pre[Len(pre)].zone)
    IN  pre \o SubSeq(<<FreshStep(T), FreshStep(L)>>, skip + 1, 2)

\* resolve_with_chain: whichever part of the chain comes from the cache.
LEMMA WalkedSteps ==
    ASSUME ValInv
    PROVE  \/ /\ cached_delegation_start = << >>
              /\ \/ scene.cut = 0 /\ Walked = <<FreshStep(T), FreshStep(L)>>
                 \/ scene.cut = 1 /\ Walked = <<FreshStep(L)>>
                 \/ scene.cut = 2 /\ Walked = << >>
           \/ /\ cached_delegation_start # << >> /\ scene.cut = 0 /\ T \in DOMAIN delegation
              /\ \/ Walked = <<delegation[T].step, FreshStep(L)>>
                 \/ L \in DOMAIN delegation /\ Walked = <<delegation[T].step, delegation[L].step>>
<1> DEFINE pre == cached_delegation_start
           skip == IF pre = << >> THEN scene.cut ELSE Len(pre[Len(pre)].zone)
           a == FreshStep(T)
           b == FreshStep(L)
           c == delegation[T].step
           d == delegation[L].step
           full == <<a, b>>
<1>0. Len(T) = 1 /\ Len(L) = 2
    BY ZoneFacts
<1>1. scene.cut \in 0 .. 2
    BY ValidatorAssumption DEF ValInv
<1>2. /\ T \in DOMAIN delegation => c.zone = T /\ scene.cut = 0
      /\ L \in DOMAIN delegation => d.zone = L
    <2>1. \A z \in DOMAIN delegation : delegation[z].step.zone = z /\ Len(z) > scene.cut
        BY DEF ValInv, DelegationInv
    <2>2. T \in DOMAIN delegation => c.zone = T /\ 1 > scene.cut
        BY <1>0, <2>1
    <2> QED
        BY <1>1, <2>1, <2>2, SMTT(30)
<1>3. \/ pre = << >>
      \/ T \in DOMAIN delegation /\ pre = <<c>>
      \/ T \in DOMAIN delegation /\ L \in DOMAIN delegation /\ pre = <<c, d>>
    BY DEF cached_delegation_start, Live
<1>4. Walked = pre \o SubSeq(full, skip + 1, 2)
    BY DEF Walked
<1>5. /\ pre = << >> => skip = scene.cut
      /\ pre # << >> => skip = Len(pre[Len(pre)].zone)
    OBVIOUS
<1> HIDE DEF a, b, c, d, pre, skip
<1>6. CASE pre = << >>
    <2>1. CASE scene.cut = 0
        <3>1. skip + 1 = 1
            BY <1>5, <1>6, <2>1, SMTT(30)
        <3>2. Walked = <<a, b>>
            <4>1. SubSeq(full, skip + 1, 2) = <<a, b>> /\ << >> \o <<a, b>> = <<a, b>>
                BY <3>1, PairSuffixes
            <4> QED
                BY <1>4, <1>6, <4>1
        <3> QED
            BY <1>6, <2>1, <3>2 DEF a, b, pre
    <2>2. CASE scene.cut = 1
        <3>1. skip + 1 = 2
            BY <1>5, <1>6, <2>2, SMTT(30)
        <3>2. Walked = <<b>>
            <4>1. SubSeq(full, skip + 1, 2) = <<b>> /\ << >> \o <<b>> = <<b>>
                BY <3>1, PairSuffixes
            <4> QED
                BY <1>4, <1>6, <4>1
        <3> QED
            BY <1>6, <2>2, <3>2 DEF b, pre
    <2>3. CASE scene.cut = 2
        <3>1. skip + 1 = 3
            BY <1>5, <1>6, <2>3, SMTT(30)
        <3>2. Walked = << >>
            BY <1>4, <1>6, <3>1, PairSuffixes
        <3> QED
            BY <1>6, <2>3, <3>2 DEF pre
    <2> QED
        BY <1>1, <2>1, <2>2, <2>3, SMTT(30)
<1>7. CASE T \in DOMAIN delegation /\ pre = <<c>>
    <2>1. pre # << >> /\ pre[Len(pre)] = c
        BY <1>7
    <2>2. skip + 1 = 2
        <3>1. pre[Len(pre)].zone = T
            BY <1>2, <1>7, <2>1
        <3>2. skip = Len(T)
            BY <1>5, <2>1, <3>1
        <3> QED
            BY <1>0, <3>2, SMTT(30)
    <2>3. SubSeq(full, skip + 1, 2) = <<b>>
        BY <2>2, PairSuffixes
    <2>4. Walked = <<c, b>>
        BY <1>4, <1>7, <2>3, PairSuffixes
    <2> QED
        BY <1>2, <1>7, <2>1, <2>4 DEF b, c, pre
<1>8. CASE T \in DOMAIN delegation /\ L \in DOMAIN delegation /\ pre = <<c, d>>
    <2>1. pre # << >> /\ pre[Len(pre)] = d
        BY <1>8
    <2>2. skip + 1 = 3
        <3>1. pre[Len(pre)].zone = L
            BY <1>2, <1>8, <2>1
        <3>2. skip = Len(L)
            BY <1>5, <2>1, <3>1
        <3> QED
            BY <1>0, <3>2, SMTT(30)
    <2>3. SubSeq(full, skip + 1, 2) = << >>
        BY <2>2, PairSuffixes
    <2>4. Walked = <<c, d>>
        BY <1>4, <1>8, <2>3, PairSuffixes
    <2> QED
        BY <1>2, <1>8, <2>1, <2>4 DEF c, d, pre
<1> QED
    BY <1>3, <1>6, <1>7, <1>8

\* A walk begins with steps that have the faults of the scenario.
LEMMA WalkChainKeeps ==
    ASSUME ValInv, NEW j \in Job, WalkChain(j)
    PROVE  ValInv'
<1> DEFINE steps == Walked
           x == [Idle EXCEPT !.pc = "splice", !.steps = steps, !.ans = AnswerSignature,
                             !.began = now, !.fresh = (cached_delegation_start = << >>)]
           Good(s) == scene.kind \in LinkFaults => DsFacts(scene, s.zone, s.ds, s.sig)
<1>2. \A z \in {T, L} : FreshStep(z).zone = z /\ Good(FreshStep(z))
    BY PublishedFacts DEF ValInv, FreshStep
<1>3. \A z \in DOMAIN delegation : delegation[z].step.zone = z /\ Good(delegation[z].step)
    BY DEF ValInv, DelegationInv
<1>4. StepsShape(scene, steps) /\ \A i \in DOMAIN steps : Good(steps[i])
    <2> HIDE DEF Good
    <2> QED
        BY <1>2, <1>3, WalkedSteps, SMTT(30) DEF StepsShape
<1>5. AnswerSignature # None => AnswerSignature[1] = L
    BY DEF AnswerSignature
<1>6. /\ IsJob(x) /\ x.pc = "splice" /\ x.steps = steps /\ x.ans = AnswerSignature
      /\ x.chain = << >> /\ x.valid = {} /\ x.i = 1 /\ x.verdict = "none"
    <2> HIDE DEF steps
    <2> QED
        BY DEF Idle, IsJob, Fields
<1>7. JobInv(scene, x)
    <2> HIDE DEF steps, x
    <2> QED
        BY <1>4, <1>5, <1>6, SMTT(30) DEF JobInv, JobShape, JobProven, Looked
<1>8. Go(j, x) /\ UNCHANGED <<scene, stage, positive, delegation>>
    BY DEF WalkChain, World, Caches, Walked
<1>9. PositiveInv'
    BY <1>8 DEF ValInv, PositiveInv
<1> HIDE DEF x
<1> QED
    BY <1>7, <1>8, <1>9, GoKeeps

\* The root's keys, cached or fetched, start the chain of trust.
LEMMA RootIsTrusted ==
    ASSUME ValInv, NEW r, JobInv(scene, r), r.pc \in {"splice", "root"},
           NEW keys, scene.kind \in LinkFaults => GoodVersions(keys)
    PROVE  JobInv(scene, [r EXCEPT !.chain = Trust(<< >>, Root, keys), !.pc = "lookup"])
<1> DEFINE chain == Trust(<< >>, Root, keys)
           x == [r EXCEPT !.chain = chain, !.pc = "lookup"]
<1>1. /\ IsJob(x) /\ x.pc = "lookup" /\ x.steps = r.steps /\ x.ans = r.ans
      /\ x.chain = chain /\ x.valid = r.valid /\ x.i = r.i /\ x.verdict = r.verdict
    <2> HIDE DEF chain
    <2> QED
        BY DEF JobInv, JobShape, IsJob, Fields
<1>2. scene.kind \in LinkFaults =>
         /\ DOMAIN chain = {Root} /\ DOMAIN chain \subseteq ProvenIn(scene)
         /\ \A z \in DOMAIN chain : GoodVersions(chain[z])
    BY ProvenZones, SMTT(30) DEF Trust, With
<1> HIDE DEF chain, x
<1>3. JobInv(scene, x)
    BY <1>1, <1>2 DEF JobInv, JobShape, JobProven, Looked
<1> QED
    BY <1>3 DEF x, chain

\* splice_in_zone_dnskey, with the anchors of the moment.
LEMMA SpliceKeeps ==
    ASSUME ValInv, NEW j \in Job, Splice(j)
    PROVE  ValInv'
<1> DEFINE r == [job[j] EXCEPT !.trust = anchors]
           y == [r EXCEPT !.pc = "root"]
<1>1. JobInv(scene, job[j]) /\ job[j].pc = "splice"
    BY DEF ValInv, JobsInv, Splice
<1>2. /\ IsJob(r) /\ r.pc = "splice" /\ r.steps = job[j].steps /\ r.ans = job[j].ans
      /\ r.chain = job[j].chain /\ r.valid = job[j].valid /\ r.i = job[j].i /\ r.verdict = job[j].verdict
    BY <1>1 DEF JobInv, JobShape, IsJob, Fields
<1>3. UNCHANGED <<scene, stage, positive>>
    BY DEF Splice, World
<1>4. PositiveInv'
    BY <1>3 DEF ValInv, PositiveInv
<1>5. \/ Verdict(j, r, "Insecure")
      \/ /\ \/ Live(positive, Root)
               /\ Go(j, [r EXCEPT !.chain = Trust(<< >>, Root, positive[Root].keys),
                                  !.pc = "lookup"])
            \/ Go(j, y)
         /\ UNCHANGED delegation
    BY DEF Splice
<1> HIDE DEF r
<1>6. JobInv(scene, r)
    BY <1>1, <1>2 DEF JobInv, JobShape, JobProven, Looked
<1>7. /\ IsJob(y) /\ y.pc = "root" /\ y.steps = r.steps /\ y.ans = r.ans
      /\ y.chain = r.chain /\ y.valid = r.valid /\ y.i = r.i /\ y.verdict = r.verdict
    BY <1>2 DEF IsJob, Fields
<1> HIDE DEF y
<1>8. JobInv(scene, y)
    BY <1>2, <1>6, <1>7 DEF JobInv, JobShape, JobProven, Looked
<1>9. CASE Verdict(j, r, "Insecure")
    BY <1>2, <1>3, <1>6, <1>9, VerdictKeeps
<1>10. CASE /\ Live(positive, Root) /\ UNCHANGED delegation
            /\ Go(j, [r EXCEPT !.chain = Trust(<< >>, Root, positive[Root].keys), !.pc = "lookup"])
    <2>1. scene.kind \in LinkFaults => GoodVersions(positive[Root].keys)
        BY <1>10 DEF ValInv, PositiveInv, Live
    <2>2. JobInv(scene, [r EXCEPT !.chain = Trust(<< >>, Root, positive[Root].keys),
                                  !.pc = "lookup"])
        BY <1>2, <1>6, <2>1, RootIsTrusted
    <2> QED
        BY <1>3, <1>4, <1>10, <2>2, GoKeeps
<1>11. CASE Go(j, y) /\ UNCHANGED delegation
    BY <1>3, <1>4, <1>8, <1>11, GoKeeps
<1> QED
    BY <1>5, <1>9, <1>10, <1>11

\* The root keys are fetched and checked with the anchor.
LEMMA RootKeysKeeps ==
    ASSUME ValInv, NEW j \in Job, RootKeys(j)
    PROVE  ValInv'
<1> DEFINE keys == Keys(Root, PublishedKeys(Root))
           x == [job[j] EXCEPT !.chain = Trust(<< >>, Root, keys), !.pc = "lookup"]
<1>1. JobInv(scene, job[j]) /\ job[j].pc = "root"
    BY DEF ValInv, JobsInv, RootKeys
<1>2. UNCHANGED <<scene, stage>>
    BY DEF RootKeys, World
<1>3. GoodVersions(keys)
    <2>1. PublishedKeys(Root) \subseteq 1 .. 3
        BY SMTT(30) DEF PublishedKeys
    <2> QED
        BY <2>1, SMTT(30) DEF GoodVersions, Keys
<1>4. \/ \E by : put_positive(Root, keys, by) /\ Go(j, x) /\ UNCHANGED delegation
      \/ Verdict(j, job[j], "Bogus") /\ UNCHANGED positive
    BY DEF RootKeys
<1> HIDE DEF keys
<1>5. ASSUME NEW by, put_positive(Root, keys, by), Go(j, x), UNCHANGED delegation
      PROVE  ValInv'
    <2>1. PositiveInv'
        BY <1>2, <1>3, <1>5, PutKeepsPositive, ProvenZones
    <2>2. JobInv(scene, x)
        BY <1>1, <1>3, RootIsTrusted
    <2> HIDE DEF x
    <2> QED
        BY <1>2, <1>5, <2>1, <2>2, GoKeeps
<1>6. CASE Verdict(j, job[j], "Bogus") /\ UNCHANGED positive
    BY <1>1, <1>2, <1>6, VerdictKeeps
<1> QED
    BY <1>4, <1>5, <1>6

\* A lost query ends the validation in the root and in the bootstrap.
LEMMA LostKeeps ==
    ASSUME ValInv, NEW j \in Job, NEW v, v # "Secure", job[j].pc \notin {"idle", "done"},
           Verdict(j, [job[j] EXCEPT !.lossy = TRUE], v), UNCHANGED <<scene, stage, positive>>
    PROVE  ValInv'
<1> DEFINE r == [job[j] EXCEPT !.lossy = TRUE]
<1>1. JobInv(scene, job[j])
    BY DEF ValInv, JobsInv
<1>2. /\ IsJob(r) /\ r.pc = job[j].pc /\ r.steps = job[j].steps /\ r.ans = job[j].ans
      /\ r.chain = job[j].chain /\ r.valid = job[j].valid /\ r.i = job[j].i /\ r.verdict = job[j].verdict
      /\ r.got = job[j].got /\ r.boot = job[j].boot /\ r.ds = job[j].ds
    BY <1>1 DEF JobInv, JobShape, IsJob, Fields
<1> HIDE DEF r
<1>3. BootZone(r) = BootZone(job[j])
    BY <1>2 DEF BootZone
<1>4. JobInv(scene, r)
    BY <1>1, <1>2, <1>3 DEF JobInv, JobShape, JobProven
<1>5. Verdict(j, r, v)
    BY DEF r
<1> QED
    BY <1>2, <1>4, <1>5, VerdictKeeps

\* What a fetch or a cache lookup leaves for one step of the walk.
LEMMA LookupKeeps ==
    ASSUME ValInv, NEW j \in Job, Lookup(j)
    PROVE  ValInv'
<1> DEFINE r == job[j]
           got == [i \in DOMAIN r.steps |->
                     CASE CachedFor(r.steps[i]) ->
                            [st |-> "cached", keys |-> positive[r.steps[i].zone].keys, sig |-> None]
                       [] ~CachedFor(r.steps[i]) /\ Live(negative, r.steps[i].zone) ->
                            [st |-> "insecure", keys |-> {}, sig |-> None]
                       [] OTHER -> [st |-> "wait", keys |-> {}, sig |-> None]]
           lossy == r.lossy \/ \E i \in DOMAIN got : got[i].st = "insecure"
           x == [r EXCEPT !.got = got, !.pc = "loop", !.lossy = lossy]
<1>1. JobInv(scene, r) /\ r.pc = "lookup"
    BY DEF ValInv, JobsInv, Lookup
<1>2. UNCHANGED <<scene, stage, delegation>>
    BY DEF Lookup, World
<1>3. Go(j, x)
    BY DEF Lookup
<1>4. \E wrong : positive' = Without(positive, wrong)
    BY DEF Lookup
<1>5. PositiveInv'
    BY <1>2, <1>4 DEF ValInv, PositiveInv, Without
<1>6. DOMAIN got = DOMAIN r.steps
    OBVIOUS
<1>7. ASSUME NEW i \in DOMAIN got
      PROVE  /\ got[i].st # "fetched" /\ "st" \in DOMAIN got[i]
             /\ got[i].st = "cached" =>
                   /\ Live(positive, r.steps[i].zone)
                   /\ got[i].keys = positive[r.steps[i].zone].keys
    BY DEF CachedFor
<1> HIDE DEF got, lossy
<1>8. /\ IsJob(x) /\ x.pc = "loop" /\ x.steps = r.steps /\ x.ans = r.ans
      /\ x.chain = r.chain /\ x.valid = r.valid /\ x.i = r.i /\ x.verdict = r.verdict /\ x.got = got
    BY <1>1 DEF JobInv, JobShape, IsJob, Fields
<1> HIDE DEF x, r
<1>9. JobInv(scene, x)
    <2>1. JobShape(scene, x)
        BY <1>1, <1>7, <1>8 DEF JobInv, JobShape, Looked
    <2>2. ASSUME scene.kind \in LinkFaults
          PROVE  JobProven(scene, x)
        <3>1. \A i \in DOMAIN got : got[i].st = "cached" =>
                  r.steps[i].zone \in ProvenIn(scene) /\ GoodVersions(got[i].keys)
            BY <1>7, <2>2 DEF ValInv, PositiveInv, Live
        <3> QED
            BY <1>1, <1>6, <1>7, <1>8, <2>2, <3>1 DEF JobInv, JobProven, Looked
    <2> QED
        BY <2>1, <2>2 DEF JobInv
<1> QED
    BY <1>2, <1>3, <1>5, <1>9, GoKeeps

\* One slot of the prefetch gets its reply, or loses it.
LEMMA FetchKeeps ==
    ASSUME ValInv, NEW j \in Job, NEW i, job[j].pc = "loop", i \in DOMAIN job[j].got,
           NEW g, "st" \in DOMAIN g, g.st # "cached", NEW b,
           g.st = "fetched" /\ scene.kind \in LinkFaults =>
              KeyFacts(scene, job[j].steps[i].zone, g.keys, g.sig),
           Go(j, [job[j] EXCEPT !.got = [@ EXCEPT ![i] = g], !.lossy = b]),
           UNCHANGED <<scene, stage, positive, delegation>>
    PROVE  ValInv'
<1> DEFINE r == job[j]
           got == [r.got EXCEPT ![i] = g]
           x == [r EXCEPT !.got = got, !.lossy = b]
<1>1. JobInv(scene, r)
    BY DEF ValInv, JobsInv
<1>2. DOMAIN got = DOMAIN r.got /\ \A k \in DOMAIN got : got[k] = IF k = i THEN g ELSE r.got[k]
    OBVIOUS
<1>3. Go(j, x)
    OBVIOUS
<1> HIDE DEF got
<1>4. /\ IsJob(x) /\ x.pc = "loop" /\ x.steps = r.steps /\ x.ans = r.ans
      /\ x.chain = r.chain /\ x.valid = r.valid /\ x.i = r.i /\ x.verdict = r.verdict /\ x.got = got
    BY <1>1 DEF JobInv, JobShape, IsJob, Fields
<1>5. PositiveInv'
    BY DEF ValInv, PositiveInv
<1> HIDE DEF x
<1>6. JobInv(scene, x)
    BY <1>1, <1>2, <1>4 DEF JobInv, JobShape, JobProven, Looked
<1> QED
    BY <1>3, <1>5, <1>6, GoKeeps

\* Keys that arrive in the prefetch are what their zone publishes.
LEMMA FetchedKeeps ==
    ASSUME ValInv, NEW j \in Job, NEW i, Fetched(j, i)
    PROVE  ValInv'
<1> DEFINE z == job[j].steps[i].zone
           g == [st |-> "fetched", sig |-> KeySignature(z), keys |-> Keys(z, PublishedKeys(z))]
<1>1. JobInv(scene, job[j]) /\ job[j].pc = "loop" /\ i \in DOMAIN job[j].got
    BY DEF ValInv, JobsInv, Fetched
<1>2. scene.kind \in LinkFaults => KeyFacts(scene, z, g.keys, g.sig)
    <2> SUFFICES ASSUME scene.kind \in LinkFaults PROVE KeyFacts(scene, z, g.keys, g.sig)
        OBVIOUS
    <2>1. StepsShape(scene, job[j].steps) /\ i \in DOMAIN job[j].steps
        BY <1>1 DEF JobInv, JobShape, JobProven, Looked
    <2>2. z \in {T, L}
        BY <2>1, SMTT(30) DEF StepsShape
    <2> HIDE DEF z
    <2> QED
        BY <2>2, PublishedFacts DEF ValInv
<1>3. Go(j, [job[j] EXCEPT !.got = [@ EXCEPT ![i] = g], !.lossy = job[j].lossy])
    <2>1. Go(j, [job[j] EXCEPT !.got = [@ EXCEPT ![i] = g]])
        BY DEF Fetched
    <2> HIDE DEF g
    <2>2. [job[j] EXCEPT !.got = [@ EXCEPT ![i] = g]]
             = [job[j] EXCEPT !.got = [@ EXCEPT ![i] = g], !.lossy = job[j].lossy]
        BY <1>1 DEF JobInv, JobShape, IsJob, Fields
    <2> QED
        BY <2>1, <2>2
<1>4. UNCHANGED <<scene, stage, positive, delegation>>
    BY DEF Fetched, World, Caches
<1>5. g.st = "fetched" /\ "st" \in DOMAIN g
    OBVIOUS
<1> HIDE DEF g
<1> QED
    BY <1>1, <1>2, <1>3, <1>4, <1>5, FetchKeeps

\* A lost fetch is marked as such.
LEMMA FetchLostKeeps ==
    ASSUME ValInv, NEW j \in Job, NEW i, FetchLost(j, i)
    PROVE  ValInv'
<1> DEFINE g == [job[j].got[i] EXCEPT !.st = "lost"]
<1>1. job[j].pc = "loop" /\ i \in DOMAIN job[j].got /\ "st" \in DOMAIN job[j].got[i]
    BY DEF FetchLost, ValInv, JobsInv, JobInv, JobShape, Looked
<1>2. Go(j, [job[j] EXCEPT !.got = [@ EXCEPT ![i] = g], !.lossy = TRUE])
    BY DEF FetchLost
<1>3. UNCHANGED <<scene, stage, positive, delegation>>
    BY DEF FetchLost, World
<1>4. g.st = "lost" /\ "st" \in DOMAIN g
    BY <1>1
<1> HIDE DEF g
<1> QED
    BY <1>1, <1>2, <1>3, <1>4, FetchKeeps

\* The keys a zone of the chain is checked against are good ones.
LEMMA ClosestIsGood ==
    ASSUME NEW s, NEW r, JobProven(s, r), NEW z
    PROVE  GoodVersions(closest_trusted_keys(r.chain, z))
<1>1. DOMAIN r.chain \subseteq Zone /\ \A y \in DOMAIN r.chain : GoodVersions(r.chain[y])
    BY DEF JobProven, ProvenIn
<1>2. GoodVersions({})
    BY DEF GoodVersions
<1> QED
    BY <1>1, <1>2, ClosestIsInChain

\* A step that verified: the validator goes on with the keys of its zone.
LEMMA AdvanceIsProven ==
    ASSUME NEW s, NEW r, JobInv(s, r), r.pc = "loop", NEW z, NEW keys,
           s.kind \in LinkFaults => z \in ProvenIn(s) /\ GoodVersions(keys)
    PROVE  JobInv(s, [r EXCEPT !.chain = Trust(@, z, keys), !.valid = @ \cup {z}, !.i = @ + 1])
<1> DEFINE chain == Trust(r.chain, z, keys)
           x == [r EXCEPT !.chain = chain, !.valid = @ \cup {z}, !.i = @ + 1]
<1>1. /\ IsJob(x) /\ x.pc = "loop" /\ x.steps = r.steps /\ x.ans = r.ans /\ x.got = r.got
      /\ x.chain = chain /\ x.valid = r.valid \cup {z} /\ x.i = r.i + 1 /\ x.verdict = r.verdict
    <2> HIDE DEF chain
    <2> QED
        BY DEF JobInv, JobShape, IsJob, Fields
<1>2. x.i \in Nat \ {0}
    <2> HIDE DEF x
    <2> QED
        BY <1>1, SMTT(30) DEF JobInv, JobShape
<1>3. ASSUME s.kind \in LinkFaults
      PROVE  /\ DOMAIN chain = DOMAIN r.chain \cup {z} /\ DOMAIN chain \subseteq ProvenIn(s)
             /\ \A y \in DOMAIN chain : GoodVersions(chain[y])
    <2>1. /\ DOMAIN r.chain \subseteq ProvenIn(s) /\ \A y \in DOMAIN r.chain : GoodVersions(r.chain[y])
          /\ z \in ProvenIn(s) /\ GoodVersions(keys)
        BY <1>3 DEF JobInv, JobProven
    <2> QED
        BY <2>1, TrustIsProven
<1> HIDE DEF chain, x
<1>4. JobShape(s, x)
    BY <1>1, <1>2 DEF JobInv, JobShape, Looked
<1>5. s.kind \in LinkFaults => JobProven(s, x)
    BY <1>1, <1>3 DEF JobInv, JobProven, Looked
<1>6. JobInv(s, x)
    BY <1>4, <1>5 DEF JobInv
<1> QED
    BY <1>6 DEF x, chain

\* A signer without keys is bootstrapped.
LEMMA BootStarts ==
    ASSUME NEW s, NEW r, JobInv(s, r), r.pc = "loop", NEW z,
           s.kind \in LinkFaults => z \in {T, L} /\ z \notin DOMAIN r.chain
    PROVE  JobInv(s, [r EXCEPT !.pc = "boot", !.boot = z])
<1> DEFINE x == [r EXCEPT !.pc = "boot", !.boot = z]
<1>1. /\ IsJob(x) /\ x.pc = "boot" /\ x.steps = r.steps /\ x.ans = r.ans /\ x.got = r.got
      /\ x.chain = r.chain /\ x.valid = r.valid /\ x.i = r.i /\ x.verdict = r.verdict /\ x.boot = z
    BY DEF JobInv, JobShape, IsJob, Fields
<1> HIDE DEF x
<1>2. JobInv(s, x)
    BY <1>1 DEF JobInv, JobShape, JobProven, Looked
<1> QED
    BY <1>2 DEF x

\* One delegation is verified with the keys of its parent, or the walk ends.
LEMMA VerifyStepKeeps ==
    ASSUME ValInv, NEW j \in Job, VerifyStep(j)
    PROVE  ValInv'
<1> DEFINE r == job[j]
           s == r.steps[r.i]
           g == r.got[r.i]
           parents == closest_trusted_keys(r.chain, s.zone)
           next == [r EXCEPT !.chain = Trust(@, s.zone, g.keys),
                             !.valid = @ \cup {s.zone}, !.i = @ + 1]
           unknown == s.sig # None /\ s.sig[1] \notin DOMAIN r.chain
<1>1. JobInv(scene, r) /\ r.pc = "loop" /\ UNCHANGED <<scene, stage>>
    BY DEF ValInv, JobsInv, VerifyStep, World
<1>2. s.zone \in {T, L} /\ r.i \in DOMAIN r.steps
    <2>1. StepsShape(scene, r.steps) /\ r.i \in Nat \ {0} /\ r.i <= Len(r.steps)
        BY <1>1 DEF VerifyStep, JobInv, JobShape
    <2> HIDE DEF r
    <2> QED
        BY <2>1, SMTT(30) DEF StepsShape
<1>3. ASSUME scene.kind \in LinkFaults
      PROVE  /\ JobProven(scene, r) /\ DsFacts(scene, s.zone, s.ds, s.sig)
             /\ Root \in DOMAIN r.chain /\ DOMAIN r.chain \subseteq ProvenIn(scene)
             /\ g.st = "cached" => s.zone \in ProvenIn(scene) /\ GoodVersions(g.keys)
             /\ g.st = "fetched" => KeyFacts(scene, s.zone, g.keys, g.sig)
    <2> HIDE DEF r
    <2> QED
        BY <1>1, <1>2, <1>3 DEF JobInv, JobProven, Looked
<1>4. \/ unknown /\ Go(j, [r EXCEPT !.pc = "boot", !.boot = s.sig[1]])
                  /\ UNCHANGED <<positive, delegation>>
      \/ \E v \in {"Insecure", "Bogus"} : Verdict(j, r, v) /\ UNCHANGED positive
      \/ g.st = "cached" /\ Go(j, next) /\ UNCHANGED <<positive, delegation>>
      \/ /\ ~unknown /\ s.ds # {} /\ DsHolds(s.sig, parents)
         /\ g.st = "fetched" /\ KeysHold(g.keys, g.sig, s.ds)
         /\ put_positive(s.zone, g.keys, None) /\ Go(j, next) /\ UNCHANGED delegation
    BY DEF VerifyStep
<1>5. UNCHANGED positive => PositiveInv'
    BY <1>1 DEF ValInv, PositiveInv
<1> HIDE DEF r, s, g
<1>6. CASE unknown /\ Go(j, [r EXCEPT !.pc = "boot", !.boot = s.sig[1]])
                   /\ UNCHANGED <<positive, delegation>>
    <2>1. scene.kind \in LinkFaults => s.sig[1] \in {T, L} /\ s.sig[1] \notin DOMAIN r.chain
        BY <1>2, <1>3, <1>6, ZoneFacts DEF DsFacts
    <2>2. JobInv(scene, [r EXCEPT !.pc = "boot", !.boot = s.sig[1]])
        BY <1>1, <2>1, BootStarts
    <2> QED
        BY <1>1, <1>5, <1>6, <2>2, GoKeeps
<1>7. CASE \E v \in {"Insecure", "Bogus"} : Verdict(j, r, v) /\ UNCHANGED positive
    BY <1>1, <1>7, VerdictKeeps
<1>8. CASE g.st = "cached" /\ Go(j, next) /\ UNCHANGED <<positive, delegation>>
    <2>1. JobInv(scene, next)
        BY <1>1, <1>3, <1>8, AdvanceIsProven
    <2> HIDE DEF next
    <2> QED
        BY <1>1, <1>5, <1>8, <2>1, GoKeeps
<1>9. CASE /\ ~unknown /\ s.ds # {} /\ DsHolds(s.sig, parents)
           /\ g.st = "fetched" /\ KeysHold(g.keys, g.sig, s.ds)
           /\ put_positive(s.zone, g.keys, None) /\ Go(j, next) /\ UNCHANGED delegation
    <2>1. ASSUME scene.kind \in LinkFaults
          PROVE  s.zone \in ProvenIn(scene) /\ GoodVersions(g.keys)
        <3>1. GoodVersions(parents)
            BY <1>3, <2>1, ClosestIsGood
        <3>2. s.zone # scene.zone
            <4> SUFFICES ASSUME s.zone = scene.zone PROVE FALSE
                OBVIOUS
            <4> HIDE DEF parents
            <4>1. DsVerified(scene, s.ds)
                BY <1>3, <1>9, <2>1, <3>1, FaultyDsFails
            <4> QED
                BY <1>3, <1>9, <2>1, <4>1, FaultyKeysFail
        <3>3. s.zone = L => T \in ProvenIn(scene)
            BY <1>3, <1>9, <2>1, ZoneFacts DEF DsHolds, DsFacts
        <3>4. GoodVersions(g.keys)
            BY <1>3, <1>9, <2>1 DEF KeyFacts
        <3> QED
            BY <1>2, <2>1, <3>2, <3>3, <3>4, ProvenZones
    <2>2. JobInv(scene, next)
        BY <1>1, <2>1, AdvanceIsProven
    <2>3. PositiveInv'
        BY <1>1, <1>9, <2>1, PutKeepsPositive
    <2> HIDE DEF next
    <2> QED
        BY <1>1, <1>9, <2>2, <2>3, GoKeeps
<1> QED
    BY <1>4, <1>6, <1>7, <1>8, <1>9

\* bootstrap_intermediate_zone: one more zone above the signer has keys.
LEMMA BootedIsProven ==
    ASSUME ValInv, NEW j \in Job, NEW r, JobInv(scene, r), r.pc \in {"boot", "bootKeys"},
           NEW z, NEW keys, Booted(j, r, z, keys), PositiveInv',
           scene.kind \in LinkFaults => z \in ProvenIn(scene) /\ GoodVersions(keys),
           UNCHANGED <<scene, stage, delegation>>
    PROVE  ValInv'
<1> DEFINE chain == Trust(r.chain, z, keys)
           x == [r EXCEPT !.chain = chain, !.pc = "loop", !.boot = None, !.ds = None]
           y == [r EXCEPT !.chain = chain, !.pc = "boot", !.ds = None]
<1>1. Go(j, x) \/ (z # r.boot /\ Go(j, y))
    <2> DEFINE w == IF z = r.boot THEN x ELSE y
    <2>1. Go(j, w)
        BY DEF Booted
    <2>2. (z = r.boot => w = x) /\ (z # r.boot => w = y)
        <3> HIDE DEF x, y
        <3> QED
            OBVIOUS
    <2> HIDE DEF w, x, y
    <2>3. z = r.boot => Go(j, x)
        BY <2>1, <2>2
    <2>4. z # r.boot => Go(j, y)
        BY <2>1, <2>2
    <2> QED
        BY <2>3, <2>4
<1>2. ASSUME scene.kind \in LinkFaults
      PROVE  /\ DOMAIN chain = DOMAIN r.chain \cup {z} /\ DOMAIN chain \subseteq ProvenIn(scene)
             /\ \A k \in DOMAIN chain : GoodVersions(chain[k])
    <2>1. /\ DOMAIN r.chain \subseteq ProvenIn(scene)
          /\ \A k \in DOMAIN r.chain : GoodVersions(r.chain[k])
          /\ z \in ProvenIn(scene) /\ GoodVersions(keys)
        BY <1>2 DEF JobInv, JobProven
    <2> QED
        BY <2>1, TrustIsProven
<1> HIDE DEF chain
<1>3. /\ IsJob(x) /\ x.pc = "loop" /\ x.steps = r.steps /\ x.ans = r.ans /\ x.got = r.got
      /\ x.chain = chain /\ x.valid = r.valid /\ x.i = r.i /\ x.verdict = r.verdict
    BY DEF JobInv, JobShape, IsJob, Fields
<1>4. /\ IsJob(y) /\ y.pc = "boot" /\ y.steps = r.steps /\ y.ans = r.ans /\ y.got = r.got
      /\ y.chain = chain /\ y.valid = r.valid /\ y.i = r.i /\ y.verdict = r.verdict /\ y.boot = r.boot
    BY DEF JobInv, JobShape, IsJob, Fields
<1> HIDE DEF x, y
<1>5. CASE Go(j, x)
    <2>1. JobShape(scene, x)
        BY <1>3 DEF JobInv, JobShape, Looked
    <2>2. scene.kind \in LinkFaults => JobProven(scene, x)
        BY <1>2, <1>3 DEF JobInv, JobProven, Looked
    <2>3. JobInv(scene, x)
        BY <2>1, <2>2 DEF JobInv
    <2> QED
        BY <1>5, <2>3, GoKeeps
<1>6. CASE z # r.boot /\ Go(j, y)
    <2>1. JobShape(scene, y)
        BY <1>4 DEF JobInv, JobShape, Looked
    <2>2. scene.kind \in LinkFaults => JobProven(scene, y)
        BY <1>2, <1>4, <1>6 DEF JobInv, JobProven, Looked
    <2>3. JobInv(scene, y)
        BY <2>1, <2>2 DEF JobInv
    <2> QED
        BY <1>6, <2>3, GoKeeps
<1> QED
    BY <1>1, <1>5, <1>6

\* The zone a bootstrap works on.
LEMMA BootFacts ==
    ASSUME ValInv, NEW j \in Job, job[j].pc \in {"boot", "bootKeys"}, scene.kind \in LinkFaults
    PROVE  /\ JobProven(scene, job[j])
           /\ BootZone(job[j]) \in {T, L}
           /\ BootZone(job[j]) = L => T \in ProvenIn(scene)
<1> DEFINE r == job[j]
<1>1. JobProven(scene, r)
    BY DEF ValInv, JobsInv, JobInv
<1> HIDE DEF r
<1>2. /\ r.boot \in {T, L} /\ r.boot \notin DOMAIN r.chain
      /\ Root \in DOMAIN r.chain /\ DOMAIN r.chain \subseteq ProvenIn(scene)
    BY <1>1 DEF r, JobProven, Looked
<1>3. BootZone(r) \in {T, L} /\ (BootZone(r) = L => T \in DOMAIN r.chain)
    BY <1>2, BootZoneFacts, SMTT(30)
<1> QED
    BY <1>1, <1>2, <1>3 DEF r

\* An intermediate zone taken from the positive cache.
LEMMA BootCachedKeeps ==
    ASSUME ValInv, NEW j \in Job, BootCached(j)
    PROVE  ValInv'
<1> DEFINE z == BootZone(job[j])
<1>1. /\ JobInv(scene, job[j]) /\ job[j].pc = "boot" /\ Live(positive, z)
      /\ Booted(j, job[j], z, positive[z].keys)
      /\ UNCHANGED <<scene, stage, positive, delegation>>
    BY DEF ValInv, JobsInv, BootCached, World, Caches
<1> HIDE DEF z
<1>2. PositiveInv'
    BY <1>1 DEF ValInv, PositiveInv
<1>3. scene.kind \in LinkFaults => z \in ProvenIn(scene) /\ GoodVersions(positive[z].keys)
    BY <1>1 DEF ValInv, PositiveInv, Live
<1> QED
    BY <1>1, <1>2, <1>3, BootedIsProven

\* The DS RRset of an intermediate zone, checked with its parent.
LEMMA BootDsKeeps ==
    ASSUME ValInv, NEW j \in Job, BootDs(j)
    PROVE  ValInv'
<1> DEFINE r == job[j]
           z == BootZone(r)
           x == [r EXCEPT !.ds = PublishedDs(z), !.pc = "bootKeys"]
<1>1. JobInv(scene, r) /\ r.pc = "boot" /\ UNCHANGED <<scene, stage, positive>>
    BY DEF ValInv, JobsInv, BootDs, World
<1>2. PositiveInv'
    BY <1>1 DEF ValInv, PositiveInv
<1>3. CASE Verdict(j, r, "Insecure")
    BY <1>1, <1>3, VerdictKeeps
<1>4. CASE /\ PublishedDs(z) # {} /\ DsHolds(DsSignature(z), closest_trusted_keys(r.chain, z))
           /\ Go(j, x) /\ UNCHANGED delegation
    <2>1. scene.kind \in LinkFaults => (z = scene.zone => DsVerified(scene, PublishedDs(z)))
        <3> SUFFICES ASSUME scene.kind \in LinkFaults, z = scene.zone
                     PROVE  DsVerified(scene, PublishedDs(z))
            OBVIOUS
        <3>1. z \in {T, L} /\ JobProven(scene, r)
            BY <1>1, BootFacts
        <3>2. GoodVersions(closest_trusted_keys(r.chain, z))
            BY <3>1, ClosestIsGood
        <3>3. DsFacts(scene, z, PublishedDs(z), DsSignature(z))
            BY <3>1, PublishedFacts DEF ValInv
        <3> HIDE DEF z, r
        <3> QED
            BY <1>4, <3>2, <3>3, FaultyDsFails
    <2> HIDE DEF z
    <2>2. /\ IsJob(x) /\ x.pc = "bootKeys" /\ x.steps = r.steps /\ x.ans = r.ans
          /\ x.got = r.got /\ x.chain = r.chain /\ x.valid = r.valid /\ x.i = r.i /\ x.verdict = r.verdict
          /\ x.boot = r.boot /\ x.ds = PublishedDs(z)
        BY <1>1 DEF JobInv, JobShape, IsJob, Fields
    <2> HIDE DEF x, r
    <2>3. BootZone(x) = z
        BY <2>2 DEF z, BootZone
    <2>4. JobShape(scene, x)
        BY <1>1, <2>2 DEF JobInv, JobShape, Looked
    <2>5. scene.kind \in LinkFaults => JobProven(scene, x)
        BY <1>1, <2>1, <2>2, <2>3 DEF JobInv, JobProven, Looked
    <2>6. JobInv(scene, x)
        BY <2>4, <2>5 DEF JobInv
    <2> QED
        BY <1>1, <1>2, <1>4, <2>6, GoKeeps
<1> QED
    BY <1>3, <1>4 DEF BootDs

\* The keys of an intermediate zone, checked with its DS RRset.
LEMMA BootKeysKeeps ==
    ASSUME ValInv, NEW j \in Job, BootKeys(j)
    PROVE  ValInv'
<1> DEFINE r == job[j]
           z == BootZone(r)
           keys == Keys(z, PublishedKeys(z))
<1>1. JobInv(scene, r) /\ r.pc = "bootKeys" /\ UNCHANGED <<scene, stage>>
    BY DEF ValInv, JobsInv, BootKeys, World
<1>2. \/ /\ KeysHold(keys, KeySignature(z), r.ds) /\ put_positive(z, keys, None)
         /\ Booted(j, r, z, keys) /\ UNCHANGED delegation
      \/ Verdict(j, r, "Insecure") /\ UNCHANGED positive
    BY DEF BootKeys
<1>3. ASSUME scene.kind \in LinkFaults
      PROVE  /\ z \in {T, L} /\ (z = L => T \in ProvenIn(scene))
             /\ KeyFacts(scene, z, keys, KeySignature(z))
             /\ z = scene.zone => DsVerified(scene, r.ds)
    <2>1. z \in {T, L} /\ (z = L => T \in ProvenIn(scene)) /\ JobProven(scene, r)
        BY <1>1, <1>3, BootFacts
    <2>2. KeyFacts(scene, z, keys, KeySignature(z))
        BY <1>3, <2>1, PublishedFacts DEF ValInv
    <2>3. z = scene.zone => DsVerified(scene, r.ds)
        BY <1>1, <2>1 DEF JobProven
    <2> QED
        BY <2>1, <2>2, <2>3
<1> HIDE DEF r, z, keys
<1>4. CASE Verdict(j, r, "Insecure") /\ UNCHANGED positive
    BY <1>1, <1>4, VerdictKeeps
<1>5. CASE /\ KeysHold(keys, KeySignature(z), r.ds) /\ put_positive(z, keys, None)
           /\ Booted(j, r, z, keys) /\ UNCHANGED delegation
    <2>1. ASSUME scene.kind \in LinkFaults
          PROVE  z \in ProvenIn(scene) /\ GoodVersions(keys)
        <3>1. z # scene.zone
            BY <1>3, <1>5, <2>1, FaultyKeysFail
        <3> QED
            BY <1>3, <2>1, <3>1, ProvenZones DEF KeyFacts
    <2>2. PositiveInv'
        BY <1>1, <1>5, <2>1, PutKeepsPositive
    <2> QED
        BY <1>1, <1>5, <2>1, <2>2, BootedIsProven
<1> QED
    BY <1>2, <1>4, <1>5

\* The answer is checked last, and the verdict follows.
LEMMA AnswerKeeps ==
    ASSUME ValInv, NEW j \in Job, Answer(j)
    PROVE  ValInv'
<1> DEFINE r == job[j]
           x == [r EXCEPT !.pc = "boot", !.boot = r.ans[1]]
<1>1. JobInv(scene, r) /\ r.pc = "loop" /\ UNCHANGED <<scene, stage, positive>>
    BY DEF ValInv, JobsInv, Answer, World
<1>2. PositiveInv'
    BY <1>1 DEF ValInv, PositiveInv
<1>3. \/ /\ r.ans # None /\ r.ans[1] \notin DOMAIN r.chain
         /\ Go(j, x) /\ UNCHANGED delegation
      \/ /\ r.ans # None => r.ans[1] \in DOMAIN r.chain
         /\ Verdict(j, r, AnswerVerdict(r))
    BY DEF Answer
<1> HIDE DEF r
<1>4. CASE /\ r.ans # None => r.ans[1] \in DOMAIN r.chain
           /\ Verdict(j, r, AnswerVerdict(r))
    <2>1. ASSUME scene.kind \in LinkFaults
          PROVE  AnswerVerdict(r) # "Secure"
        <3>1. L \notin DOMAIN r.chain
            BY <1>1, <2>1, ProvenZones, ZoneFacts DEF JobInv, JobProven, ProvenIn
        <3>2. r.ans = None
            BY <1>1, <1>4, <3>1 DEF JobInv, JobShape
        <3> QED
            BY <3>2 DEF AnswerVerdict
    <2> QED
        BY <1>1, <1>4, <2>1, VerdictKeeps
<1>5. CASE /\ r.ans # None /\ r.ans[1] \notin DOMAIN r.chain
           /\ Go(j, x) /\ UNCHANGED delegation
    <2>1. r.ans[1] = L
        BY <1>1, <1>5 DEF JobInv, JobShape
    <2>2. JobInv(scene, x)
        BY <1>1, <1>5, <2>1, BootStarts
    <2> HIDE DEF x
    <2> QED
        BY <1>1, <1>2, <1>5, <2>2, GoKeeps
<1> QED
    BY <1>3, <1>4, <1>5

-----------------------------------------------------------------------------
\* Empty caches and no validations are consistent.
LEMMA InitEstablishes == Init => ValInv
<1> SUFFICES ASSUME Init PROVE ValInv
    OBVIOUS
<1>1. /\ IsJob(Idle) /\ Idle.pc = "idle" /\ Idle.steps = << >> /\ Idle.ans = None
      /\ Idle.chain = << >> /\ Idle.valid = {} /\ Idle.i = 1 /\ Idle.verdict = "none"
    BY DEF Idle, IsJob, Fields
<1>2. JobInv(scene, Idle)
    BY <1>1, SMTT(30) DEF JobInv, JobShape, JobProven, Looked
<1>3. JobsInv
    BY <1>2 DEF Init, JobsInv
<1>4. PositiveInv /\ DelegationInv
    BY SMTT(30) DEF Init, PositiveInv, DelegationInv
<1> QED
    BY <1>3, <1>4 DEF Init, ValInv

\* Every step keeps the invariant: one case per action.
LEMMA NextKeeps == ValInv /\ [Next]_vars => ValInv'
<1> SUFFICES ASSUME ValInv, [Next]_vars PROVE ValInv'
    OBVIOUS
<1>1. ASSUME NEW j \in Job, WalkChain(j) PROVE ValInv'
    BY <1>1, WalkChainKeeps
<1>2. ASSUME NEW j \in Job, Step(j) PROVE ValInv'
    <2>1. CASE Splice(j)
        BY <2>1, SpliceKeeps
    <2>2. CASE RootKeys(j)
        BY <2>2, RootKeysKeeps
    <2>3. CASE RootLost(j)
        BY <2>3, LostKeeps DEF RootLost, World
    <2>4. CASE Lookup(j)
        BY <2>4, LookupKeeps
    <2>5. CASE \E i \in 1 .. 2 : Fetched(j, i) \/ FetchLost(j, i)
        BY <2>5, FetchedKeeps, FetchLostKeeps
    <2>6. CASE VerifyStep(j)
        BY <2>6, VerifyStepKeeps
    <2>7. CASE BootCached(j)
        BY <2>7, BootCachedKeeps
    <2>8. CASE BootDs(j)
        BY <2>8, BootDsKeeps
    <2>9. CASE BootKeys(j)
        BY <2>9, BootKeysKeeps
    <2>10. CASE BootLost(j)
        BY <2>10, LostKeeps DEF BootLost, World
    <2>11. CASE Answer(j)
        BY <2>11, AnswerKeeps
    <2> QED
        BY <1>2, <2>1, <2>2, <2>3, <2>4, <2>5, <2>6, <2>7, <2>8, <2>9, <2>10, <2>11 DEF Step
<1>3. CASE RollKey
    BY <1>3 DEF RollKey, Caches, ValInv, JobsInv, PositiveInv, DelegationInv, LinkFaults
<1>4. CASE RollRoot \/ ReplaceAnchor
    BY <1>4 DEF RollRoot, ReplaceAnchor, Caches, ValInv, JobsInv, PositiveInv, DelegationInv
<1>5. CASE Tick
    BY <1>5 DEF Tick, Caches, ValInv, JobsInv, PositiveInv, DelegationInv
<1>6. CASE UNCHANGED vars
    BY <1>6 DEF vars, ValInv, JobsInv, PositiveInv, DelegationInv
<1> QED
    BY <1>1, <1>2, <1>3, <1>4, <1>5, <1>6 DEF Next

\* What a validation holds and what the two caches hold belongs to zones
\* without a broken link, in every state of every interleaving.
THEOREM ValidatorInvariant == Spec => []ValInv
    BY InitEstablishes, NextKeeps, PTL DEF Spec

\* A zone with a link that does not verify, and everything below it, is in
\* neither cache: put_positive and cache_validated_delegations store proven
\* trust links only.
THEOREM OnlyProvenLinks == Spec => []OnlyProvenLinksCached
<1>1. ValInv => OnlyProvenLinksCached
    BY DEF ValInv, PositiveInv, DelegationInv, OnlyProvenLinksCached, ProvenIn
<1> QED
    BY <1>1, ValidatorInvariant, PTL

\* resolve_with_chain hands the validator every delegation below the ones the
\* servers skip, whichever of them come from the delegation cache.
THEOREM ChainsAreComplete == Spec => []ChainIsComplete
<1>1. ASSUME NEW s, NEW steps, StepsShape(s, steps)
      PROVE  [i \in DOMAIN steps |-> steps[i].zone] = SubSeq(<<T, L>>, s.cut + 1, 2)
    <2> DEFINE zs == [i \in DOMAIN steps |-> steps[i].zone]
    <2>1. CASE s.cut = 0 /\ steps = <<steps[1], steps[2]>> /\ steps[1].zone = T /\ steps[2].zone = L
        <3>1. zs = <<T, L>>
            BY <2>1, SMTT(30)
        <3>2. s.cut + 1 = 1
            BY <2>1, SMTT(30)
        <3> QED
            BY <3>1, <3>2, PairSuffixes, SMTT(30)
    <2>2. CASE s.cut = 1 /\ steps = <<steps[1]>> /\ steps[1].zone = L
        <3>1. zs = <<L>>
            BY <2>2, SMTT(30)
        <3>2. s.cut + 1 = 2
            BY <2>2, SMTT(30)
        <3> QED
            BY <3>1, <3>2, PairSuffixes, SMTT(30)
    <2>3. CASE s.cut = 2 /\ steps = << >>
        <3>1. zs = << >>
            BY <2>3, SMTT(30)
        <3>2. s.cut + 1 = 3
            BY <2>3, SMTT(30)
        <3> QED
            BY <3>1, <3>2, PairSuffixes, SMTT(30)
    <2> QED
        BY <1>1, <2>1, <2>2, <2>3 DEF StepsShape
<1>2. ValInv => ChainIsComplete
    BY <1>1 DEF ValInv, JobsInv, JobInv, JobShape, ChainIsComplete
<1> QED
    BY <1>2, ValidatorInvariant, PTL

-----------------------------------------------------------------------------
\* A validation sees at most one tick; one that is about to fetch the root's keys
\* with anchor 1 among its anchors began before the revocation.
Timely(r) ==
    \/ r.pc \in {"idle", "done"}
    \/ /\ r.began \in Nat /\ r.began <= now /\ now <= r.began + 1
       /\ r.pc = "root" /\ 1 \in r.trust /\ revoked # None => r.began <= revoked

\* Root keys that anchor 1 vouched for expire MAX_POSITIVE_TTL after now, or
\* after the last validation that had it.
Deadline == (IF revoked = None THEN now ELSE revoked + 1) + MAX_POSITIVE_TTL

RevInv ==
    /\ now \in Nat
    /\ revoked # None => revoked \in Nat /\ 1 \notin anchors
    /\ \A j \in Job : Timely(job[j])
    /\ \A z \in DOMAIN positive :
          positive[z].by = 1 => positive[z].expiry \in Nat /\ positive[z].expiry <= Deadline

\* A step of a validation ends it or goes on, with the set of anchors of the moment
\* when the next thing is to fetch the root's keys.
Onward(q, x) ==
    \/ x.pc = "done"
    \/ x.began = q.began /\ (x.pc # "root" \/ x.trust = anchors)

\* A verdict ends the validation.
LEMMA VerdictIsOnward ==
    ASSUME NEW j, NEW q, NEW r, NEW v, Verdict(j, r, v)
    PROVE  \E x : Go(j, x) /\ Onward(q, x)
<1> DEFINE x == [Idle EXCEPT !.pc = "done", !.verdict = v, !.lossy = r.lossy, !.fresh = r.fresh]
<1>1. x.pc = "done" /\ Go(j, x)
    BY DEF Idle, Verdict
<1> QED
    BY <1>1 DEF Onward

\* So does every other step of validate_walk, or it goes on with what it has.
LEMMA StepIsOnward ==
    ASSUME ValInv, NEW j \in Job, Step(j)
    PROVE  /\ job[j].pc \notin {"idle", "done"}
           /\ \E x : Go(j, x) /\ Onward(job[j], x)
<1> DEFINE q == job[j]
<1>1. IsJob(q)
    BY DEF ValInv, JobsInv, JobInv, JobShape
<1>2. ASSUME NEW v, NEW r, Verdict(j, r, v)
      PROVE  \E x : Go(j, x) /\ Onward(q, x)
    BY <1>2, VerdictIsOnward
<1>3. q.pc \notin {"idle", "done"}
    BY DEF Step, Splice, RootKeys, RootLost, Lookup, Fetched, FetchLost, VerifyStep, BootCached,
       BootDs, BootKeys, BootLost, Answer
<1>4. ASSUME Splice(j) PROVE \E x : Go(j, x) /\ Onward(q, x)
    <2> DEFINE r == [q EXCEPT !.trust = anchors]
               y == [r EXCEPT !.pc = "root"]
               z == [r EXCEPT !.chain = Trust(<< >>, Root, positive[Root].keys), !.pc = "lookup"]
    <2>1. Verdict(j, r, "Insecure") \/ Go(j, y) \/ Go(j, z)
        BY <1>4 DEF Splice
    <2> HIDE DEF q
    <2>2. IsJob(r) /\ r.began = q.began /\ r.trust = anchors
        BY <1>1 DEF IsJob, Fields
    <2> HIDE DEF r
    <2>3. /\ y.began = q.began /\ y.trust = anchors
          /\ z.began = q.began /\ z.pc = "lookup"
        BY <2>2 DEF IsJob, Fields
    <2> HIDE DEF y, z
    <2> QED
        BY <1>2, <2>1, <2>3 DEF Onward
<1>5. ASSUME RootKeys(j) PROVE \E x : Go(j, x) /\ Onward(q, x)
    <2> DEFINE z == [q EXCEPT !.chain = Trust(<< >>, Root, Keys(Root, PublishedKeys(Root))),
                              !.pc = "lookup"]
    <2>1. Verdict(j, q, "Bogus") \/ Go(j, z)
        BY <1>5 DEF RootKeys
    <2> HIDE DEF q
    <2>2. z.began = q.began /\ z.pc = "lookup"
        BY <1>1 DEF IsJob, Fields
    <2> HIDE DEF z
    <2> QED
        BY <1>2, <2>1, <2>2 DEF Onward
<1>6. ASSUME RootLost(j) \/ BootLost(j) PROVE \E x : Go(j, x) /\ Onward(q, x)
    BY <1>2, <1>6 DEF RootLost, BootLost
<1>7. ASSUME Lookup(j) PROVE \E x : Go(j, x) /\ Onward(q, x)
    <2>1. PICK g, lossy : Go(j, [q EXCEPT !.got = g, !.pc = "loop", !.lossy = lossy])
        BY <1>7 DEF Lookup
    <2> DEFINE z == [q EXCEPT !.got = g, !.pc = "loop", !.lossy = lossy]
    <2> HIDE DEF q
    <2>2. z.began = q.began /\ z.pc = "loop"
        BY <1>1 DEF IsJob, Fields
    <2>3. Go(j, z)
        BY <2>1
    <2> HIDE DEF z
    <2> QED
        BY <2>2, <2>3 DEF Onward
<1>8. ASSUME \E i \in 1 .. 2 : Fetched(j, i) \/ FetchLost(j, i)
      PROVE  \E x : Go(j, x) /\ Onward(q, x)
    <2>1. PICK i \in 1 .. 2 : Fetched(j, i) \/ FetchLost(j, i)
        BY <1>8
    <2>2. q.pc = "loop"
        BY <2>1 DEF Fetched, FetchLost
    <2>3. ASSUME Fetched(j, i) PROVE \E x : Go(j, x) /\ Onward(q, x)
        <3>1. PICK g : Go(j, [q EXCEPT !.got[i] = g])
            BY <2>3 DEF Fetched
        <3> DEFINE z == [q EXCEPT !.got[i] = g]
        <3> HIDE DEF q
        <3>2. z.began = q.began /\ z.pc = "loop"
            BY <1>1, <2>2 DEF IsJob, Fields
        <3>3. Go(j, z)
            BY <3>1
        <3> HIDE DEF z
        <3> QED
            BY <3>2, <3>3 DEF Onward
    <2>4. ASSUME FetchLost(j, i) PROVE \E x : Go(j, x) /\ Onward(q, x)
        <3> DEFINE z == [q EXCEPT !.got[i].st = "lost", !.lossy = TRUE]
        <3>1. Go(j, z)
            BY <2>4 DEF FetchLost
        <3> HIDE DEF q
        <3>2. z.began = q.began /\ z.pc = "loop"
            BY <1>1, <2>2 DEF IsJob, Fields
        <3> HIDE DEF z
        <3> QED
            BY <3>1, <3>2 DEF Onward
    <2> QED
        BY <2>1, <2>3, <2>4
<1>9. ASSUME VerifyStep(j) PROVE \E x : Go(j, x) /\ Onward(q, x)
    <2> DEFINE y == [q EXCEPT !.pc = "boot", !.boot = q.steps[q.i].sig[1]]
               z == [q EXCEPT !.chain = Trust(@, q.steps[q.i].zone, q.got[q.i].keys),
                              !.valid = @ \cup {q.steps[q.i].zone}, !.i = @ + 1]
    <2>1. q.pc = "loop" /\ (Go(j, y) \/ Go(j, z) \/ \E v : Verdict(j, q, v))
        BY <1>9 DEF VerifyStep
    <2> HIDE DEF q
    <2>2. y.began = q.began /\ y.pc = "boot" /\ z.began = q.began /\ z.pc = "loop"
        BY <1>1, <2>1 DEF IsJob, Fields
    <2> HIDE DEF y, z
    <2> QED
        BY <1>2, <2>1, <2>2 DEF Onward
<1>10. ASSUME NEW z, NEW keys, Booted(j, q, z, keys)
       PROVE  \E x : Go(j, x) /\ Onward(q, x)
    <2> DEFINE a == [q EXCEPT !.chain = Trust(q.chain, z, keys), !.pc = "loop", !.boot = None,
                              !.ds = None]
               b == [q EXCEPT !.chain = Trust(q.chain, z, keys), !.pc = "boot", !.ds = None]
    <2>1. Go(j, a) \/ Go(j, b)
        BY <1>10 DEF Booted
    <2> HIDE DEF q
    <2>2. a.began = q.began /\ a.pc = "loop" /\ b.began = q.began /\ b.pc = "boot"
        BY <1>1 DEF IsJob, Fields
    <2> HIDE DEF a, b
    <2> QED
        BY <2>1, <2>2 DEF Onward
<1>11. ASSUME BootCached(j) \/ BootKeys(j) PROVE \E x : Go(j, x) /\ Onward(q, x)
    <2>1. (\E z, keys : Booted(j, q, z, keys)) \/ Verdict(j, q, "Insecure")
        BY <1>11 DEF BootCached, BootKeys
    <2> QED
        BY <1>2, <1>10, <2>1
<1>12. ASSUME BootDs(j) \/ Answer(j) PROVE \E x : Go(j, x) /\ Onward(q, x)
    <2>1. \/ \E v : Verdict(j, q, v)
          \/ \E d : Go(j, [q EXCEPT !.ds = d, !.pc = "bootKeys"])
          \/ \E z : Go(j, [q EXCEPT !.pc = "boot", !.boot = z])
        BY <1>12 DEF BootDs, Answer
    <2> HIDE DEF q
    <2>2. ASSUME NEW d, Go(j, [q EXCEPT !.ds = d, !.pc = "bootKeys"])
          PROVE  \E x : Go(j, x) /\ Onward(q, x)
        <3> DEFINE x == [q EXCEPT !.ds = d, !.pc = "bootKeys"]
        <3>1. x.began = q.began /\ x.pc = "bootKeys" /\ Go(j, x)
            BY <1>1, <2>2 DEF IsJob, Fields
        <3> HIDE DEF x
        <3> QED
            BY <3>1 DEF Onward
    <2>3. ASSUME NEW z, Go(j, [q EXCEPT !.pc = "boot", !.boot = z])
          PROVE  \E x : Go(j, x) /\ Onward(q, x)
        <3> DEFINE x == [q EXCEPT !.pc = "boot", !.boot = z]
        <3>1. x.began = q.began /\ x.pc = "boot" /\ Go(j, x)
            BY <1>1, <2>3 DEF IsJob, Fields
        <3> HIDE DEF x
        <3> QED
            BY <3>1 DEF Onward
    <2> QED
        BY <1>2, <2>1, <2>2, <2>3
<1> QED
    BY <1>3, <1>4, <1>5, <1>6, <1>7, <1>8, <1>9, <1>11, <1>12 DEF Step

\* So the validations stay in time while the world stands still.
LEMMA StepIsTimely ==
    ASSUME ValInv, RevInv, NEW j \in Job, Step(j), UNCHANGED <<now, revoked, anchors>>
    PROVE  (\A k \in Job : Timely(job[k]))'
<1>1. PICK x : Go(j, x) /\ Onward(job[j], x)
    BY StepIsOnward
<1>2. \A k \in Job : job'[k] = IF k = j THEN x ELSE job[k]
    BY <1>1 DEF ValInv, JobsInv, Go
<1>3. Timely(x)
    BY <1>1, StepIsOnward DEF RevInv, Timely, Onward
<1> QED
    BY <1>2, <1>3 DEF RevInv, Timely

\* put_positive clamps the lifetime of what it stores.
LEMMA ClampIsBounded == Clamp(KeyTtl) \in Nat /\ Clamp(KeyTtl) <= MAX_POSITIVE_TTL
    BY ValidatorAssumption, SMTT(30) DEF Clamp, Lesser

\* put_positive keeps the deadline of a revoked anchor, having clamped the TTL.
LEMMA PutIsBounded ==
    ASSUME RevInv, NEW z, NEW keys, NEW by, put_positive(z, keys, by),
           by = 1 => revoked = None \/ now <= revoked + 1, UNCHANGED <<now, revoked, anchors>>,
           (\A j \in Job : Timely(job[j]))'
    PROVE  RevInv'
<1>1. now + Clamp(KeyTtl) \in Nat /\ now + Clamp(KeyTtl) <= now + MAX_POSITIVE_TTL
    BY ClampIsBounded, ValidatorAssumption, SMTT(30) DEF RevInv
<1>2. Deadline' = Deadline
    BY DEF Deadline
<1>3. by = 1 => now + MAX_POSITIVE_TTL <= Deadline
    BY ValidatorAssumption, SMTT(30) DEF RevInv, Deadline
<1>4. Deadline \in Nat /\ now + MAX_POSITIVE_TTL \in Nat
    BY ValidatorAssumption, SMTT(30) DEF RevInv, Deadline
<1>5. by = 1 => now + Clamp(KeyTtl) <= Deadline
    BY <1>1, <1>3, <1>4, SMTT(30)
<1>6. ASSUME NEW y \in DOMAIN positive', positive'[y].by = 1
      PROVE  positive'[y].expiry \in Nat /\ positive'[y].expiry <= Deadline
    BY <1>1, <1>5, <1>6, PutPositive, SMTT(30) DEF RevInv
<1> QED
    BY <1>2, <1>6 DEF RevInv

\* Only a validation that began before the revocation has the root's keys vouched
\* for by anchor 1.
LEMMA RevKeeps == ValInv /\ RevInv /\ [Next]_vars => RevInv'
<1> SUFFICES ASSUME ValInv, RevInv, [Next]_vars PROVE RevInv'
    OBVIOUS
<1>0. None # 1
    BY ValidatorAssumption, SMTT(30)
<1>1. ASSUME UNCHANGED <<now, revoked, anchors>>, (\A j \in Job : Timely(job[j]))',
             UNCHANGED positive \/ \E wrong : positive' = Without(positive, wrong)
      PROVE  RevInv'
    BY <1>1 DEF RevInv, Deadline, Without
<1>2. ASSUME UNCHANGED <<now, revoked, anchors, positive, job>> PROVE RevInv'
    BY <1>2 DEF RevInv, Deadline, Timely
<1>3. ASSUME NEW j \in Job, WalkChain(j) PROVE RevInv'
    <2>1. UNCHANGED <<now, revoked, anchors, positive>>
        BY <1>3 DEF WalkChain, World, Caches
    <2>2. PICK x : Go(j, x) /\ x.pc = "splice" /\ x.began = now
        <3>1. PICK steps, ans, fresh :
                 Go(j, [Idle EXCEPT !.pc = "splice", !.steps = steps, !.ans = ans, !.began = now,
                                    !.fresh = fresh])
            BY <1>3 DEF WalkChain
        <3> DEFINE x == [Idle EXCEPT !.pc = "splice", !.steps = steps, !.ans = ans, !.began = now,
                                     !.fresh = fresh]
        <3>2. x.pc = "splice" /\ x.began = now /\ Go(j, x)
            BY <3>1 DEF Idle
        <3> HIDE DEF x
        <3> QED
            BY <3>2
    <2>3. \A k \in Job : job'[k] = IF k = j THEN x ELSE job[k]
        BY <2>2 DEF ValInv, JobsInv, Go
    <2>4. Timely(x)
        BY <2>2, SMTT(30) DEF RevInv, Timely
    <2>5. (\A k \in Job : Timely(job[k]))'
        BY <2>1, <2>3, <2>4 DEF RevInv, Timely
    <2> QED
        BY <1>1, <2>1, <2>5
<1>4. ASSUME NEW j \in Job, Step(j) PROVE RevInv'
    <2>0. UNCHANGED <<now, revoked, anchors>>
        BY <1>4 DEF Step, Splice, RootKeys, RootLost, Lookup, Fetched, FetchLost, VerifyStep,
           BootCached, BootDs, BootKeys, BootLost, Answer, World
    <2>1. (\A k \in Job : Timely(job[k]))'
        BY <1>4, <2>0, StepIsTimely
    <2>2. CASE RootKeys(j)
        <3>1. /\ UNCHANGED positive \/ KeySignature(Root)[2] \in job[j].trust
              /\ \/ UNCHANGED positive
                 \/ put_positive(Root, Keys(Root, PublishedKeys(Root)), KeySignature(Root)[2])
              /\ job[j].pc = "root"
            BY <2>2 DEF RootKeys
        <3>2. CASE UNCHANGED positive
            BY <1>1, <2>0, <2>1, <3>2
        <3>3. CASE 1 \in job[j].trust
            <4>1. revoked # None => now <= revoked + 1
                BY <3>1, <3>3, SMTT(30) DEF RevInv, Timely
            <4> QED
                BY <2>0, <2>1, <3>1, <3>2, <4>1, PutIsBounded
        <3>4. CASE 1 \notin job[j].trust
            BY <2>0, <2>1, <3>1, <3>2, <3>4, PutIsBounded
        <3> QED
            BY <3>3, <3>4
    <2>3. CASE VerifyStep(j) \/ BootKeys(j)
        <3>1. UNCHANGED positive \/ \E z, keys : put_positive(z, keys, None)
            BY <2>3 DEF VerifyStep, BootKeys
        <3> QED
            BY <1>0, <1>1, <2>0, <2>1, <3>1, PutIsBounded
    <2>4. CASE ~(RootKeys(j) \/ VerifyStep(j) \/ BootKeys(j))
        <3>1. UNCHANGED positive \/ \E wrong : positive' = Without(positive, wrong)
            BY <1>4, <2>4 DEF Step, Splice, RootLost, Lookup, Fetched, FetchLost, BootCached, BootDs,
               BootLost, Answer, Caches
        <3> QED
            BY <1>1, <2>0, <2>1, <3>1
    <2> QED
        BY <2>2, <2>3, <2>4
<1>5. CASE RollKey \/ RollRoot \/ UNCHANGED vars
    BY <1>2, <1>5 DEF RollKey, RollRoot, Caches, vars
<1>6. CASE ReplaceAnchor
    <2>1. revoked = None /\ revoked' = now /\ anchors' = {2} /\ UNCHANGED <<now, positive, job>>
        BY <1>6 DEF ReplaceAnchor, Caches
    <2>2. (revoked # None => revoked \in Nat /\ 1 \notin anchors)'
        BY <2>1, SMTT(30) DEF RevInv
    <2>3. (\A k \in Job : Timely(job[k]))'
        BY <2>1 DEF RevInv, Timely
    <2>4. Deadline \in Nat /\ Deadline' \in Nat /\ Deadline <= Deadline'
        BY <2>1, <1>0, ValidatorAssumption, SMTT(30) DEF RevInv, Deadline
    <2> QED
        BY <2>1, <2>2, <2>3, <2>4, SMTT(30) DEF RevInv
<1>7. CASE Tick
    <2>1. /\ now' = now + 1 /\ UNCHANGED <<revoked, anchors, positive, job>>
          /\ \A k \in Job : job[k].pc \notin {"idle", "done"} => job[k].began = now
        BY <1>7 DEF Tick, Caches
    <2>2. Deadline \in Nat /\ Deadline' \in Nat /\ Deadline <= Deadline'
        BY <2>1, ValidatorAssumption, SMTT(30) DEF RevInv, Deadline
    <2>3. (\A k \in Job : Timely(job[k]))'
        <3>1. now <= now + 1 /\ now + 1 <= now + 1
            BY SMTT(30) DEF RevInv
        <3> QED
            BY <2>1, <3>1 DEF RevInv, Timely
    <2> QED
        BY <2>1, <2>2, <2>3, SMTT(30) DEF RevInv
<1> QED
    BY <1>3, <1>4, <1>5, <1>6, <1>7 DEF Next

\* Root keys that only the revoked anchor 1 vouched for are not served from the
\* DNSKEY cache beyond MAX_POSITIVE_TTL after the last validation that had it,
\* although a cached root RRset is used without a look at the anchors and the
\* validations under way still store what it vouches for.
THEOREM RevokedKeysExpire == Spec => []RevokedAnchorForgotten
<1>1. Init => RevInv
    <2> SUFFICES ASSUME Init PROVE RevInv
        OBVIOUS
    <2>1. DOMAIN positive = {} /\ now \in Nat /\ revoked = None
        BY SMTT(30) DEF Init
    <2>2. \A j \in Job : job[j].pc = "idle"
        BY DEF Init, Idle
    <2> QED
        BY <2>1, <2>2 DEF RevInv, Timely
<1>2. RevInv => RevokedAnchorForgotten
    BY ValidatorAssumption, SMTT(30) DEF RevInv, Deadline, RevokedAnchorForgotten, Live
<1> QED
    BY <1>1, <1>2, RevKeeps, ValidatorInvariant, PTL DEF Spec

-----------------------------------------------------------------------------
(* The verdict is the one the zones' signatures deserve, for every fault, and *)
(* a key rollover is never seen through stale keys.                          *)
Faulty(s, kind, z) == s.kind = kind /\ s.zone = z

\* The keys of zone z that may be seen in scenario s once the rollover has come
\* to stage g.
KeysRight(s, g, z, keys) ==
    \/ keys = IF z = Root THEN Keys(Root, {1, 2, 3})
              ELSE IF Faulty(s, "keysMissing", z) THEN {} ELSE Keys(z, {1})
    \/ s.kind = "roll" /\ z = L /\ (keys = Keys(L, {1, 2}) \/ (g = 4 /\ keys = Keys(L, {2})))

\* The signature over the keys of zone z, its DS RRset and the signature over
\* that, and the signature over the answer, when no key is rolled.
SigRight(s, z, sig) ==
    sig = IF Faulty(s, "keysUnsigned", z) THEN None
          ELSE IF Faulty(s, "keysExpired", z) THEN <<z, Late>>
          ELSE IF Faulty(s, "keysMissigned", z) THEN <<z, 0>>
          ELSE <<z, 1>>
DsRight(s, z, ds) ==
    ds = IF Faulty(s, "dsMissing", z) THEN {}
         ELSE IF Faulty(s, "dsWrong", z) THEN {0} ELSE {1}
DsSigRight(s, z, sig) ==
    sig = IF Faulty(s, "dsMissing", z) \/ Faulty(s, "dsUnsigned", z) THEN None
          ELSE IF Faulty(s, "dsExpired", z) THEN <<Parent(z), Late>>
          ELSE IF Faulty(s, "dsMissigned", z) THEN <<Parent(z), 0>>
          ELSE <<Parent(z), IF z = T THEN 3 ELSE 1>>
AnsRight(s, ans) ==
    ans = IF s.kind = "answerUnsigned" THEN None
          ELSE IF s.kind = "answerMissigned" THEN <<L, 0>> ELSE <<L, 1>>

StepRight(s, d) ==
    /\ DsSigRight(s, d.zone, d.sig)
    /\ s.kind # "roll" \/ d.zone = T => DsRight(s, d.zone, d.ds)

\* Walk r saw the rollover at stage m, the present stage g or the one before it:
\* then the last change, at o, is of the hour in which r began.
SeenAt(g, o, r, m) ==
    /\ g = m \/ (g = m + 1 /\ o = r.began)
    /\ r.ans = <<L, IF m >= 3 THEN 2 ELSE 1>>
    /\ \A i \in DOMAIN r.steps : r.steps[i].zone = L =>
          r.steps[i].ds = {IF m >= 2 THEN 2 ELSE 1}

WalkRight(s, g, o, r) ==
    /\ \A i \in DOMAIN r.steps : StepRight(s, r.steps[i])
    /\ s.kind # "roll" => AnsRight(s, r.ans)
    /\ s.kind = "roll" /\ r.fresh => \E m \in 0 .. 4 : SeenAt(g, o, r, m)

\* The chain of trust of r: the zones of the steps verified so far, with the
\* root and the skipped zones it bootstrapped.
ChainRight(s, g, r) ==
    /\ Root \in DOMAIN r.chain /\ DOMAIN r.chain \subseteq Zone
    /\ \A z \in DOMAIN r.chain : KeysRight(s, g, z, r.chain[z])
    /\ \A k \in DOMAIN r.steps : r.steps[k].zone \in DOMAIN r.chain <=> k < r.i
    /\ s.kind = "roll" /\ r.fresh /\ L \in DOMAIN r.chain => r.ans \in r.chain[L]

Useless == {"insecure", "lost"}
Useful == {"cached", "fetched"}

\* What the lookups and fetches of r brought.
GotRight(s, g, r, i) ==
    LET z == r.steps[i].zone
        e == r.got[i]
    IN  /\ e.st \in Useful => KeysRight(s, g, z, e.keys)
        /\ e.st = "fetched" =>
              IF s.kind = "roll" /\ z = L
                THEN e.sig \in {<<L, 1>>, <<L, 2>>} /\ e.sig \in e.keys
                ELSE SigRight(s, z, e.sig)
        /\ s.kind = "roll" /\ r.fresh /\ z = L /\ e.st \in Useful =>
              r.ans \in e.keys /\ Covers(r.steps[i].ds, e.keys)

LoopRight(s, g, r) ==
    /\ DOMAIN r.got = DOMAIN r.steps
    /\ \A i \in DOMAIN r.got : GotRight(s, g, r, i)
    /\ \A i \in DOMAIN r.got : r.got[i].st = "wait" => r.i = 1
    /\ \A i \in DOMAIN r.got : r.got[i].st \in Useless => r.lossy /\ r.i <= i
    /\ r.lossy => \E i \in DOMAIN r.got : r.got[i].st \in Useless

BootRight(s, r) ==
    /\ r.boot \in {T, L} /\ r.boot \notin DOMAIN r.chain /\ Len(r.boot) <= s.cut
    /\ r.pc = "bootKeys" => DsRight(s, BootZone(r), r.ds)

\* The verdict that scenario s deserves (Expected).
Deserved(s) ==
    IF s.kind \in {"none", "roll"} THEN "Secure"
    ELSE IF s.kind \in {"noAnchor", "answerUnsigned", "dsMissing"} THEN "Insecure"
    ELSE IF s.kind \in LinkFaults /\ Len(s.zone) <= s.cut THEN "Insecure"
    ELSE "Bogus"

\* Verdict v of a validation fits, if a query of it was lost and if its walk
\* started at the root or not.
Fits(s, v, lossy, fresh) ==
    /\ lossy => v # "Secure"
    /\ ~lossy /\ s.kind # "revoke" /\ (s.kind = "roll" => fresh) => v = Deserved(s)

JobRight(s, g, o, r) ==
    /\ r.lossy \in BOOLEAN /\ r.fresh \in BOOLEAN
    /\ r.pc \in {"idle", "done", "splice", "root", "lookup"} \cup Looked
    /\ r.pc = "done" => Fits(s, r.verdict, r.lossy, r.fresh)
    /\ r.pc \notin {"idle", "done"} => WalkRight(s, g, o, r)
    /\ r.pc \in {"splice", "root", "lookup"} => ~r.lossy /\ r.i = 1
    /\ r.pc \in {"root", "lookup"} \cup Looked => s.kind # "noAnchor"
    /\ r.pc = "root" /\ s.kind # "revoke" => r.trust = {1}
    /\ r.pc \in {"lookup"} \cup Looked => ChainRight(s, g, r)
    /\ r.pc \in Looked => LoopRight(s, g, r)
    /\ r.pc \in {"boot", "bootKeys"} => BootRight(s, r)

PositiveRight ==
    \A z \in DOMAIN positive : z \in Zone /\ KeysRight(scene, stage, z, positive[z].keys)

DelegationRight ==
    \A z \in DOMAIN delegation : StepRight(scene, delegation[z].step)

WorldRight ==
    /\ stage \in 0 .. 4
    /\ scene.kind # "roll" => stage = 0
    /\ scene.kind # "revoke" =>
          ksk = 1 /\ anchors = IF scene.kind = "noAnchor" THEN {} ELSE {1}

RightInv ==
    /\ WorldRight /\ PositiveRight /\ DelegationRight
    /\ \A j \in Job : JobRight(scene, stage, rolled, job[j])

-----------------------------------------------------------------------------
\* What L's parent and L's zone publish is what the scenario says.
LEMMA PublishedRight ==
    ASSUME scene \in Scene, WorldRight, NEW z \in {T, L}, scene.kind # "roll" \/ z = T
    PROVE  /\ PublishedKeys(z) = IF Faulty(scene, "keysMissing", z) THEN {} ELSE {1}
           /\ SigRight(scene, z, KeySignature(z))
           /\ DsRight(scene, z, PublishedDs(z))
           /\ DsSigRight(scene, z, DsSignature(z))
<1>0. z # Root /\ T # L /\ Parent(T) = Root /\ Parent(L) = T /\ T # Root
    BY ZoneFacts
<1>1. ~(z = L /\ stage >= 1) /\ stage \in Nat /\ ~(T = L /\ stage >= 3)
    BY <1>0, SMTT(30) DEF WorldRight
<1>2. Signing(z) = 1 /\ Signing(Parent(z)) = IF z = T THEN 3 ELSE 1
    <2>1. Signing(Root) = 3 /\ Signing(T) = 1
        BY ZoneFacts DEF Signing
    <2>2. z = L => Signing(L) = 1
        BY <1>0, <1>1, SMTT(30) DEF Signing
    <2> QED
        BY <1>0, <2>1, <2>2
<1>3. PublishedKeys(z) = IF Faulty(scene, "keysMissing", z) THEN {} ELSE {1}
    BY <1>0, <1>1, SMTT(30) DEF PublishedKeys, Is, Faulty
<1>4. SigRight(scene, z, KeySignature(z))
    BY <1>0, <1>2 DEF KeySignature, SigRight, Is, Faulty
<1>5. DsRight(scene, z, PublishedDs(z))
    BY <1>1, SMTT(30) DEF PublishedDs, DsRight, Is, Faulty
<1>6. DsSigRight(scene, z, DsSignature(z))
    BY <1>2 DEF DsSignature, DsSigRight, Is, Faulty
<1> QED
    BY <1>3, <1>4, <1>5, <1>6

\* The root's keys never change, and KSK 1 signs them where no anchor is revoked.
LEMMA RootRight ==
    ASSUME scene \in Scene, WorldRight
    PROVE  /\ PublishedKeys(Root) = {1, 2, 3}
           /\ scene.kind # "revoke" => KeySignature(Root) = <<Root, 1>>
<1>2. scene.zone # Root
    BY ValidatorAssumption, ZoneFacts DEF Zone
<1>1. PublishedKeys(Root) = {1, 2, 3}
    BY <1>2, ZoneFacts DEF PublishedKeys, Is
<1>3. scene.kind # "revoke" => ksk = 1
    BY DEF WorldRight
<1> QED
    BY <1>1, <1>2, <1>3 DEF KeySignature, Is

\* What L and its parent publish while L rolls its key.
LEMMA RollRight ==
    ASSUME WorldRight, scene.kind = "roll"
    PROVE  /\ PublishedKeys(L) = IF stage = 0 THEN {1} ELSE IF stage = 4 THEN {2} ELSE {1, 2}
           /\ KeySignature(L) = <<L, IF stage >= 3 THEN 2 ELSE 1>>
           /\ PublishedDs(L) = {IF stage >= 2 THEN 2 ELSE 1}
           /\ DsSignature(L) = <<T, 1>>
           /\ AnswerSignature = <<L, IF stage >= 3 THEN 2 ELSE 1>>
<1>0. L # Root /\ T # L /\ Parent(L) = T /\ T # Root
    BY ZoneFacts
<1>1. stage \in 0 .. 4
    BY DEF WorldRight
<1>2. Signing(L) = IF stage >= 3 THEN 2 ELSE 1
    BY <1>0 DEF Signing
<1>3. Signing(T) = 1
    BY <1>0 DEF Signing
<1>4. PublishedKeys(L) = IF stage = 0 THEN {1} ELSE IF stage = 4 THEN {2} ELSE {1, 2}
    BY <1>0, <1>1, SMTT(30) DEF PublishedKeys, Is
<1>5. KeySignature(L) = <<L, Signing(L)>>
    BY <1>0 DEF KeySignature, Is
<1>6. PublishedDs(L) = {IF stage >= 2 THEN 2 ELSE 1}
    BY <1>0 DEF PublishedDs, Is
<1>7. DsSignature(L) = <<Parent(L), Signing(Parent(L))>>
    BY DEF DsSignature, Is
<1>8. AnswerSignature = <<L, Signing(L)>>
    BY DEF AnswerSignature
<1> QED
    BY <1>0, <1>2, <1>3, <1>4, <1>5, <1>6, <1>7, <1>8

\* The keys that any zone publishes are keys that may be seen.
LEMMA PublishedKeysRight ==
    ASSUME scene \in Scene, WorldRight, NEW z \in Zone
    PROVE  KeysRight(scene, stage, z, Keys(z, PublishedKeys(z)))
<1>1. CASE z = Root
    BY <1>1, RootRight DEF KeysRight
<1>2. CASE z \in {T, L} /\ (scene.kind # "roll" \/ z = T)
    <2>1. z # Root /\ Keys(z, {}) = {}
        BY <1>2, ZoneFacts DEF Keys
    <2>2. PublishedKeys(z) = IF Faulty(scene, "keysMissing", z) THEN {} ELSE {1}
        BY <1>2, PublishedRight
    <2> QED
        BY <2>1, <2>2 DEF KeysRight
<1>3. CASE z = L /\ scene.kind = "roll"
    <2>1. L # Root /\ ~Faulty(scene, "keysMissing", L)
        BY <1>3, ZoneFacts DEF Faulty
    <2>2. PublishedKeys(L) = IF stage = 0 THEN {1} ELSE IF stage = 4 THEN {2} ELSE {1, 2}
        BY <1>3, RollRight
    <2> QED
        BY <1>3, <2>1, <2>2 DEF KeysRight
<1> QED
    BY <1>1, <1>2, <1>3 DEF Zone

-----------------------------------------------------------------------------
\* closest_trusted_keys of a zone: its own keys, or else its parent's.
LEMMA ClosestKeys ==
    ASSUME NEW chain, Root \in DOMAIN chain, DOMAIN chain \subseteq Zone, NEW z \in {T, L}
    PROVE  /\ z \in DOMAIN chain => closest_trusted_keys(chain, z) = chain[z]
           /\ z \notin DOMAIN chain /\ Parent(z) \in DOMAIN chain
                 => closest_trusted_keys(chain, z) = chain[Parent(z)]
<1> DEFINE above == {y \in DOMAIN chain : y \in Ancestry(z)}
           Deepest(y) == y \in above /\ \A x \in above : Len(x) <= Len(y)
<1>1. above \subseteq {Root, T, L}
    BY DEF Zone
<1>2. Root \in Ancestry(T)
    BY ZoneFacts
<1>3. z \in DOMAIN chain => z \in above
    BY ZoneFacts
<1>4. Parent(z) \in DOMAIN chain => Parent(z) \in above
    BY <1>2, ZoneFacts
<1>5. z = T => L \notin above
    BY ZoneFacts
<1>6. closest_trusted_keys(chain, z) =
         IF above = {} THEN {} ELSE chain[CHOOSE y \in above : \A x \in above : Len(x) <= Len(y)]
    BY DEF closest_trusted_keys
<1>7. z \notin DOMAIN chain => z \notin above
    OBVIOUS
<1> HIDE DEF above
<1>8. ASSUME NEW y, Deepest(y)
      PROVE  closest_trusted_keys(chain, z) = chain[y]
    <2>1. \A x \in above : (\A w \in above : Len(w) <= Len(x)) => x = y
        BY <1>1, <1>8, ZoneFacts, SMTT(30)
    <2>2. (CHOOSE x \in above : \A w \in above : Len(w) <= Len(x)) = y
        BY <1>8, <2>1
    <2> QED
        BY <1>6, <1>8, <2>2
<1>9. z \in DOMAIN chain => Deepest(z)
    <2>0. Len(Root) = 0 /\ Len(T) = 1 /\ Len(L) = 2
        BY ZoneFacts
    <2>1. ASSUME NEW x \in above PROVE Len(x) <= Len(z)
        <3>1. (z = T \/ z = L) /\ (x = Root \/ x = T \/ (x = L /\ z = L))
            BY <1>1, <1>5
        <3>2. CASE z = T
            <4>1. Len(z) = 1 /\ (Len(x) = 0 \/ Len(x) = 1)
                BY <2>0, <3>1, <3>2, ZoneFacts
            <4> QED
                BY <4>1, SMTT(30)
        <3>3. CASE z = L
            <4> DEFINE m == Len(x)
                       n == Len(z)
            <4>1. n = 2 /\ (m = 0 \/ m = 1 \/ m = 2)
                BY <2>0, <3>1, <3>3
            <4> HIDE DEF m, n
            <4>2. m <= n
                BY <4>1, SMTT(30)
            <4> QED
                BY <4>2 DEF m, n
        <3> QED
            BY <3>1, <3>2, <3>3
    <2> QED
        BY <1>3, <2>1
<1>10. z \notin DOMAIN chain /\ Parent(z) \in DOMAIN chain => Deepest(Parent(z))
    BY <1>1, <1>4, <1>5, <1>7, ZoneFacts, SMTT(30)
<1> HIDE DEF Deepest
<1> QED
    BY <1>8, <1>9, <1>10

\* A DS RRset does not verify under its parent's keys for a fault of its own.
LEMMA DsOutcome ==
    ASSUME NEW s, NEW g, NEW z \in {T, L}, NEW sig, NEW parents,
           ~Faulty(s, "dsMissing", z), DsSigRight(s, z, sig),
           KeysRight(s, g, Parent(z), parents), ~Faulty(s, "keysMissing", Parent(z)),
           ~DsHolds(sig, parents)
    PROVE  s.zone = z /\ s.kind \in {"dsUnsigned", "dsExpired", "dsMissigned"}
<1>0. Root # T /\ Parent(T) = Root /\ Parent(L) = T /\ T # L
    BY ZoneFacts
<1>3. ASSUME ~(s.zone = z /\ s.kind \in {"dsUnsigned", "dsExpired", "dsMissigned"})
      PROVE  DsHolds(sig, parents)
    <2> DEFINE v == IF z = T THEN 3 ELSE 1
    <2>1. sig = <<Parent(z), v>>
        BY <1>3 DEF DsSigRight, Faulty
    <2>2. <<Parent(z), v>> \in parents
        <3>1. CASE z = T
            <4>1. parents = Keys(Root, {1, 2, 3})
                BY <1>0, <3>1, ZoneFacts DEF KeysRight
            <4> QED
                BY <1>0, <3>1, <4>1 DEF Keys
        <3>2. CASE z = L
            <4>1. parents = Keys(T, {1})
                BY <1>0, <3>2 DEF KeysRight
            <4> QED
                BY <1>0, <3>2, <4>1 DEF Keys
        <3> QED
            BY <3>1, <3>2
    <2>3. <<Parent(z), v>> \in Zone \X Nat
        BY <1>0 DEF Zone
    <2>4. <<Parent(z), v>> # None /\ <<Parent(z), v>>[2] # Late
        BY <2>3, ValidatorAssumption, SMTT(30) DEF Late
    <2> HIDE DEF v
    <2> QED
        BY <2>1, <2>2, <2>4 DEF DsHolds, Expired
<1> QED
    BY <1>3

\* A DNSKEY RRset under a DS RRset that verified fails for a fault of the link.
LEMMA KeysOutcome ==
    ASSUME NEW s, NEW g, NEW z \in {T, L}, s.kind # "roll" \/ z = T, NEW ds, NEW keys, NEW sig,
           DsRight(s, z, ds), ds # {}, KeysRight(s, g, z, keys), SigRight(s, z, sig),
           ~KeysHold(keys, sig, ds)
    PROVE  s.zone = z /\ s.kind \in LinkFaults \ {"dsMissing"}
<1> SUFFICES ASSUME ~(s.zone = z /\ s.kind \in LinkFaults \ {"dsMissing"})
             PROVE  FALSE
    OBVIOUS
<1>0. z # Root /\ T # L
    BY ZoneFacts
<1>1. ~Faulty(s, "dsMissing", z)
    BY DEF DsRight
<1>2. /\ ~Faulty(s, "dsWrong", z) /\ ~Faulty(s, "keysMissing", z) /\ ~Faulty(s, "keysUnsigned", z)
      /\ ~Faulty(s, "keysExpired", z) /\ ~Faulty(s, "keysMissigned", z)
    BY DEF Faulty, LinkFaults
<1>3. ds = {1} /\ sig = <<z, 1>>
    BY <1>1, <1>2 DEF DsRight, SigRight
<1>4. keys = Keys(z, {1})
    BY <1>0, <1>2 DEF KeysRight
<1>5. <<z, 1>> \in Zone \X Nat
    BY DEF Zone
<1>6. <<z, 1>> # None /\ <<z, 1>>[2] = 1
    BY <1>5, ValidatorAssumption
<1>7. keys = {<<z, 1>>}
    BY <1>4 DEF Keys
<1> QED
    BY <1>3, <1>6, <1>7, SMTT(30) DEF KeysHold, Covers, Expired, Late

-----------------------------------------------------------------------------
\* Zones of a scenario, and the fault is not above a proven zone.
LEMMA SceneFacts ==
    ASSUME ValInv
    PROVE  /\ scene \in Scene /\ scene.zone \in {None, T, L} /\ scene.cut \in 0 .. 2
           /\ scene.kind \in LinkFaults \cup {"none", "noAnchor", "answerUnsigned",
                                              "answerMissigned", "roll", "revoke"}
           /\ scene.kind = "roll" => scene.cut < 2
           /\ scene.kind \in LinkFaults => scene.zone \in {T, L}
    BY ValidatorAssumption DEF ValInv

\* A step of one validation that goes on.
LEMMA GoRight ==
    ASSUME ValInv, RightInv, NEW j \in Job, NEW x, Go(j, x), UNCHANGED World,
           JobRight(scene, stage, rolled, x), PositiveRight', DelegationRight'
    PROVE  RightInv'
<1>1. \A k \in Job : job'[k] = IF k = j THEN x ELSE job[k]
    BY DEF ValInv, JobsInv, Go
<1>2. UNCHANGED <<scene, stage, rolled, ksk, anchors>>
    BY DEF World
<1>3. WorldRight'
    BY <1>2 DEF RightInv, WorldRight
<1>4. \A k \in Job : JobRight(scene', stage', rolled', job'[k])
    BY <1>1, <1>2 DEF RightInv
<1> QED
    BY <1>3, <1>4 DEF RightInv

\* The caches stay right while neither they nor the world change.
LEMMA CachesKept ==
    ASSUME RightInv, UNCHANGED World
    PROVE  /\ positive' = positive => PositiveRight'
           /\ delegation' = delegation => DelegationRight'
<1>1. UNCHANGED <<scene, stage>>
    BY DEF World
<1> QED
    BY <1>1 DEF RightInv, PositiveRight, DelegationRight

\* Right keys put into the DNSKEY cache.
LEMMA PutRight ==
    ASSUME RightInv, UNCHANGED World, NEW z \in Zone, NEW keys, NEW by, put_positive(z, keys, by),
           KeysRight(scene, stage, z, keys)
    PROVE  PositiveRight'
<1>1. UNCHANGED <<scene, stage>>
    BY DEF World
<1>2. \A y \in DOMAIN positive : y \in Zone /\ KeysRight(scene, stage, y, positive[y].keys)
    BY DEF RightInv, PositiveRight
<1>3. ASSUME NEW y \in DOMAIN positive'
      PROVE  y \in Zone /\ KeysRight(scene, stage, y, positive'[y].keys)
    <2>1. CASE y = z
        <3>1. positive'[y].keys = keys
            BY <2>1, PutPositive, SMTT(30)
        <3> QED
            BY <2>1, <3>1
    <2>2. CASE y # z
        <3>1. y \in DOMAIN positive /\ positive'[y] = positive[y]
            BY <2>2, PutPositive
        <3> QED
            BY <1>2, <3>1
    <2> QED
        BY <2>1, <2>2
<1> QED
    BY <1>1, <1>3 DEF PositiveRight

\* The end of a validation with a verdict that fits.
LEMMA VerdictRight ==
    ASSUME ValInv, RightInv, NEW j \in Job, NEW r, NEW v, Verdict(j, r, v), UNCHANGED World,
           UNCHANGED positive, r.lossy \in BOOLEAN, r.fresh \in BOOLEAN,
           WalkRight(scene, stage, rolled, r), Fits(scene, v, r.lossy, r.fresh)
    PROVE  RightInv'
<1> DEFINE x == [Idle EXCEPT !.pc = "done", !.verdict = v, !.lossy = r.lossy, !.fresh = r.fresh]
<1>1. x.pc = "done" /\ x.verdict = v /\ x.lossy = r.lossy /\ x.fresh = r.fresh
    BY DEF Idle
<1>2. Go(j, x)
    BY DEF Verdict
<1> HIDE DEF x
<1>3. JobRight(scene, stage, rolled, x)
    BY <1>1 DEF JobRight, Looked
<1>4. DelegationRight'
    <2> DEFINE new == Insertable(r.steps, r.valid)
    <2>1. UNCHANGED scene
        BY DEF World
    <2>2. \A s \in new : StepRight(scene, s)
        BY DEF Insertable, Range, WalkRight
    <2>3. delegation' = [z \in DOMAIN delegation \cup {s.zone : s \in new} |->
                 IF \E s \in new : s.zone = z
                   THEN [step |-> CHOOSE s \in new : s.zone = z,
                         expiry |-> now + Lesser(DsTtl[z], DELEGATION_CACHE_TTL_CAP)]
                   ELSE delegation[z]]
        BY DEF Verdict, cache_validated_delegations
    <2> HIDE DEF new
    <2>4. \A z \in DOMAIN delegation' :
              \/ z \in DOMAIN delegation /\ delegation'[z] = delegation[z]
              \/ \E s \in new : s.zone = z /\ delegation'[z].step = s
        BY <2>3
    <2> QED
        BY <2>1, <2>2, <2>4 DEF RightInv, DelegationRight
<1> QED
    BY <1>2, <1>3, <1>4, CachesKept, GoRight

-----------------------------------------------------------------------------
\* The walk of a validation sees what the zones publish when it begins.
LEMMA WalkChainRight ==
    ASSUME ValInv, RightInv, NEW j \in Job, WalkChain(j)
    PROVE  RightInv'
<1> DEFINE pre == cached_delegation_start
           steps == Walked
           fresh == pre = << >>
           x == [Idle EXCEPT !.pc = "splice", !.steps = steps, !.ans = AnswerSignature,
                             !.began = now, !.fresh = fresh]
           Right(d) == StepRight(scene, d)
<1>1. scene \in Scene /\ WorldRight /\ stage \in 0 .. 4
    BY SceneFacts DEF RightInv, WorldRight
<1>2. \A z \in {T, L} : FreshStep(z).zone = z /\ Right(FreshStep(z))
    <2>1. \A z : /\ FreshStep(z).zone = z
                 /\ FreshStep(z).ds = PublishedDs(z) /\ FreshStep(z).sig = DsSignature(z)
        BY DEF FreshStep
    <2> QED
        <3>1. \A z \in {T, L} : scene.kind # "roll" \/ z = T =>
                  DsRight(scene, z, PublishedDs(z)) /\ DsSigRight(scene, z, DsSignature(z))
            BY <1>1, PublishedRight
        <3>2. scene.kind = "roll" => DsSigRight(scene, L, DsSignature(L))
            BY <1>1, RollRight, ZoneFacts DEF DsSigRight, Faulty
        <3> QED
            BY <2>1, <3>1, <3>2 DEF StepRight
<1>3. \A z \in DOMAIN delegation : Right(delegation[z].step)
    BY DEF RightInv, DelegationRight
<1>4. \A i \in DOMAIN steps : Right(steps[i])
    <2> HIDE DEF Right
    <2> QED
        BY <1>2, <1>3, WalkedSteps, SMTT(30)
<1>5. fresh => \A i \in DOMAIN steps : steps[i].zone = L => steps[i] = FreshStep(L)
    <2>1. FreshStep(T).zone # L
        BY <1>2, ZoneFacts
    <2> QED
        BY <2>1, WalkedSteps, SMTT(30)
<1>6. scene.kind # "roll" => AnsRight(scene, AnswerSignature)
    <2>1. T # L /\ L # Root
        BY ZoneFacts
    <2>2. scene.kind # "roll" => Signing(L) = 1
        BY <1>1, <2>1, SMTT(30) DEF Signing, WorldRight
    <2> QED
        BY <2>2 DEF AnswerSignature, AnsRight
<1>7. /\ x.pc = "splice" /\ x.steps = steps /\ x.ans = AnswerSignature /\ x.i = 1
      /\ x.lossy = FALSE /\ x.fresh = fresh /\ x.began = now
    <2> HIDE DEF steps, fresh
    <2> QED
        BY DEF Idle
<1>8. Go(j, x) /\ UNCHANGED World /\ UNCHANGED Caches
    BY DEF WalkChain, Walked
<1>9. scene.kind = "roll" /\ x.fresh => SeenAt(stage, rolled, x, stage)
    <2> SUFFICES ASSUME scene.kind = "roll", x.fresh
                 PROVE  SeenAt(stage, rolled, x, stage)
        OBVIOUS
    <2>1. fresh
        BY <1>7
    <2>2. FreshStep(L).ds = PublishedDs(L) /\ FreshStep(L).sig = DsSignature(L)
        BY DEF FreshStep
    <2> HIDE DEF x, fresh, steps
    <2> QED
        BY <1>1, <1>5, <1>7, <2>1, <2>2, RollRight DEF SeenAt
<1> HIDE DEF x
<1>10. WalkRight(scene, stage, rolled, x)
    <2> HIDE DEF steps
    <2> QED
        BY <1>1, <1>4, <1>6, <1>7, <1>9 DEF WalkRight
<1>11. JobRight(scene, stage, rolled, x)
    <2>1. x.lossy \in BOOLEAN /\ x.fresh \in BOOLEAN /\ ~x.lossy
        BY <1>7
    <2> QED
        BY <1>7, <1>10, <2>1 DEF JobRight, Looked
<1> QED
    BY <1>8, <1>11, CachesKept, GoRight DEF Caches

\* The fields of a validation that ends, for VerdictRight.
LEMMA JobFacts ==
    ASSUME ValInv, RightInv, NEW j \in Job
    PROVE  JobInv(scene, job[j]) /\ JobRight(scene, stage, rolled, job[j]) /\ IsJob(job[j])
    BY DEF ValInv, RightInv, JobsInv, JobInv, JobShape

\* What it takes for a validation to be right before and in the loop.
LEMMA RightAtLookup ==
    ASSUME NEW s, NEW g, NEW o, NEW r, r.lossy \in BOOLEAN, r.fresh \in BOOLEAN, r.pc = "lookup",
           ~r.lossy, r.i = 1, s.kind # "noAnchor", WalkRight(s, g, o, r), ChainRight(s, g, r)
    PROVE  JobRight(s, g, o, r)
    BY DEF JobRight, Looked

\* The same in the loop over the delegations and the zones between them.
LEMMA RightInLoop ==
    ASSUME NEW s, NEW g, NEW o, NEW r, r.lossy \in BOOLEAN, r.fresh \in BOOLEAN, r.pc \in Looked,
           s.kind # "noAnchor", WalkRight(s, g, o, r), ChainRight(s, g, r), LoopRight(s, g, r),
           r.pc # "loop" => BootRight(s, r)
    PROVE  JobRight(s, g, o, r)
    BY DEF JobRight, Looked

\* Keys of the root start a chain.
LEMMA RootStarts ==
    ASSUME ValInv, NEW g, NEW o, NEW r, JobShape(scene, r), JobRight(scene, g, o, r),
           r.pc \in {"splice", "root"}, scene.kind # "noAnchor",
           NEW keys, KeysRight(scene, g, Root, keys)
    PROVE  JobRight(scene, g, o, [r EXCEPT !.chain = Trust(<< >>, Root, keys), !.pc = "lookup"])
<1> DEFINE chain == Trust(<< >>, Root, keys)
           x == [r EXCEPT !.chain = chain, !.pc = "lookup"]
<1>1. /\ x.pc = "lookup" /\ x.steps = r.steps /\ x.ans = r.ans /\ x.chain = chain
      /\ x.i = r.i /\ x.lossy = r.lossy /\ x.fresh = r.fresh /\ x.began = r.began
    <2> HIDE DEF chain
    <2> QED
        BY DEF JobShape, IsJob, Fields
<1>2. DOMAIN chain = {Root} /\ chain[Root] = keys
    BY SMTT(30) DEF Trust, With
<1>3. \A k \in DOMAIN r.steps : r.steps[k].zone \in {T, L} /\ k \in Nat /\ ~(k < 1)
    BY SMTT(30) DEF JobShape, StepsShape
<1> HIDE DEF x, chain
<1>4. r.lossy = FALSE /\ r.i = 1 /\ WalkRight(scene, g, o, r)
    BY DEF JobRight
<1>5. WalkRight(scene, g, o, x)
    BY <1>1, <1>4 DEF WalkRight, SeenAt
<1>6. ChainRight(scene, g, x)
    BY <1>1, <1>2, <1>3, <1>4, ZoneFacts, SMTT(30) DEF ChainRight, Zone
<1>7. x.lossy \in BOOLEAN /\ x.fresh \in BOOLEAN /\ ~x.lossy /\ x.i = 1
    BY <1>1, <1>4 DEF JobRight
<1>8. JobRight(scene, g, o, x)
    BY <1>1, <1>5, <1>6, <1>7, RightAtLookup, SMTT(30)
<1> QED
    BY <1>8 DEF x, chain


\* What a step leaves of the walk is right as before.
LEMMA WalkKept ==
    ASSUME NEW s, NEW g, NEW o, NEW r, NEW x, WalkRight(s, g, o, r),
           x.steps = r.steps, x.ans = r.ans, x.fresh = r.fresh, x.began = r.began
    PROVE  WalkRight(s, g, o, x)
    BY DEF WalkRight, SeenAt

\* splice_in_zone_dnskey, with the anchors of the moment.
LEMMA SpliceRight ==
    ASSUME ValInv, RightInv, NEW j \in Job, Splice(j)
    PROVE  RightInv'
<1> DEFINE q == job[j]
           r == [q EXCEPT !.trust = anchors]
           y == [r EXCEPT !.pc = "root"]
           z == [r EXCEPT !.chain = Trust(<< >>, Root, positive[Root].keys), !.pc = "lookup"]
<1>1. q.pc = "splice" /\ UNCHANGED World /\ UNCHANGED positive
    BY DEF Splice
<1>2. JobShape(scene, q) /\ JobRight(scene, stage, rolled, q) /\ IsJob(q)
    BY JobFacts DEF JobInv
<1>3. \/ anchors = {} /\ Verdict(j, r, "Insecure")
      \/ /\ anchors # {} /\ UNCHANGED delegation
         /\ \/ Live(positive, Root) /\ Go(j, z)
            \/ Go(j, y)
    BY DEF Splice
<1> HIDE DEF q, z
<1>4. /\ IsJob(r) /\ r.pc = "splice" /\ r.steps = q.steps /\ r.ans = q.ans /\ r.i = q.i
      /\ r.lossy = q.lossy /\ r.fresh = q.fresh /\ r.began = q.began /\ r.trust = anchors
    BY <1>1, <1>2 DEF IsJob, Fields
<1> HIDE DEF r
<1>5. /\ IsJob(y) /\ y.pc = "root" /\ y.steps = q.steps /\ y.ans = q.ans /\ y.i = q.i
      /\ y.lossy = q.lossy /\ y.fresh = q.fresh /\ y.began = q.began /\ y.trust = anchors
    BY <1>4 DEF IsJob, Fields
<1> HIDE DEF y
<1>6. /\ q.lossy \in BOOLEAN /\ q.fresh \in BOOLEAN /\ ~q.lossy /\ q.i = 1
      /\ WalkRight(scene, stage, rolled, q)
    BY <1>1, <1>2 DEF JobRight
<1>7. WalkRight(scene, stage, rolled, r) /\ WalkRight(scene, stage, rolled, y)
    BY <1>4, <1>5, <1>6, WalkKept
<1>8. /\ scene.kind # "revoke" => anchors = IF scene.kind = "noAnchor" THEN {} ELSE {1}
      /\ PositiveRight
    BY DEF RightInv, WorldRight
<1>9. CASE anchors = {} /\ Verdict(j, r, "Insecure")
    <2>1. Fits(scene, "Insecure", r.lossy, r.fresh)
        BY <1>4, <1>6, <1>8, <1>9 DEF Fits, Deserved
    <2>2. r.lossy \in BOOLEAN /\ r.fresh \in BOOLEAN
        BY <1>4, <1>6
    <2> QED
        BY <1>1, <1>7, <1>9, <2>1, <2>2, VerdictRight
<1>10. CASE anchors # {} /\ UNCHANGED delegation /\ Live(positive, Root) /\ Go(j, z)
    <2>1. scene.kind # "noAnchor"
        BY <1>8, <1>10
    <2>2. KeysRight(scene, stage, Root, positive[Root].keys)
        BY <1>8, <1>10 DEF PositiveRight, Live
    <2>3. JobShape(scene, r)
        BY <1>1, <1>2, <1>4 DEF JobShape, Looked
    <2>4. JobRight(scene, stage, rolled, r)
        BY <1>4, <1>6, <1>7 DEF JobRight, Looked
    <2>5. JobRight(scene, stage, rolled, z)
        BY <1>4, <2>1, <2>2, <2>3, <2>4, RootStarts DEF z
    <2> QED
        BY <1>1, <1>10, <2>5, CachesKept, GoRight
<1>11. CASE anchors # {} /\ UNCHANGED delegation /\ Go(j, y)
    <2>1. JobRight(scene, stage, rolled, y)
        BY <1>5, <1>6, <1>7, <1>8, <1>11 DEF JobRight, Looked
    <2> QED
        BY <1>1, <1>11, <2>1, CachesKept, GoRight
<1> QED
    BY <1>3, <1>9, <1>10, <1>11

\* The root keys are fetched and checked with the anchor.
LEMMA RootKeysRight ==
    ASSUME ValInv, RightInv, NEW j \in Job, RootKeys(j)
    PROVE  RightInv'
<1> DEFINE q == job[j]
           sig == KeySignature(Root)
           keys == Keys(Root, PublishedKeys(Root))
           z == [q EXCEPT !.chain = Trust(<< >>, Root, keys), !.pc = "lookup"]
<1>1. q.pc = "root" /\ UNCHANGED World
    BY DEF RootKeys
<1>2. JobShape(scene, q) /\ JobRight(scene, stage, rolled, q)
    BY JobFacts DEF JobInv
<1>3. \/ sig[2] \in q.trust /\ put_positive(Root, keys, sig[2]) /\ Go(j, z) /\ UNCHANGED delegation
      \/ sig[2] \notin q.trust /\ Verdict(j, q, "Bogus") /\ UNCHANGED positive
    BY DEF RootKeys
<1> HIDE DEF q, z, sig
<1>4. scene.kind # "noAnchor" /\ scene \in Scene /\ WorldRight /\ Root \in Zone
    BY <1>1, <1>2, SceneFacts DEF JobRight, RightInv, Zone
<1>5. KeysRight(scene, stage, Root, keys)
    BY <1>4, PublishedKeysRight
<1> HIDE DEF keys
<1>6. CASE put_positive(Root, keys, sig[2]) /\ Go(j, z) /\ UNCHANGED delegation
    <2>1. PositiveRight'
        BY <1>1, <1>4, <1>5, <1>6, PutRight
    <2>2. JobRight(scene, stage, rolled, z)
        BY <1>1, <1>2, <1>4, <1>5, RootStarts DEF z
    <2> QED
        BY <1>1, <1>6, <2>1, <2>2, CachesKept, GoRight
<1>7. CASE sig[2] \notin q.trust /\ Verdict(j, q, "Bogus") /\ UNCHANGED positive
    <2>1. scene.kind = "revoke"
        BY <1>1, <1>2, <1>4, <1>7, RootRight, SMTT(30) DEF JobRight, sig
    <2>2. ~q.lossy /\ q.lossy \in BOOLEAN /\ q.fresh \in BOOLEAN /\ WalkRight(scene, stage, rolled, q)
        BY <1>1, <1>2 DEF JobRight
    <2>3. Fits(scene, "Bogus", q.lossy, q.fresh)
        BY <2>1, <2>2 DEF Fits
    <2> QED
        BY <1>1, <1>7, <2>2, <2>3, VerdictRight
<1> QED
    BY <1>3, <1>6, <1>7

\* A lost query never ends a validation in Secure.
LEMMA LostRight ==
    ASSUME ValInv, RightInv, NEW j \in Job, NEW v, v # "Secure", job[j].pc \notin {"idle", "done"},
           Verdict(j, [job[j] EXCEPT !.lossy = TRUE], v), UNCHANGED World, UNCHANGED positive
    PROVE  RightInv'
<1> DEFINE q == job[j]
           r == [q EXCEPT !.lossy = TRUE]
<1>1. JobRight(scene, stage, rolled, q) /\ IsJob(q)
    BY JobFacts
<1>2. q.pc \notin {"idle", "done"} /\ Verdict(j, r, v)
    OBVIOUS
<1> HIDE DEF q
<1>3. r.steps = q.steps /\ r.ans = q.ans /\ r.fresh = q.fresh /\ r.began = q.began /\ r.lossy = TRUE
    BY <1>1 DEF IsJob, Fields
<1> HIDE DEF r
<1>4. q.fresh \in BOOLEAN /\ WalkRight(scene, stage, rolled, q)
    BY <1>1, <1>2 DEF JobRight
<1>5. WalkRight(scene, stage, rolled, r)
    BY <1>3, <1>4, WalkKept
<1>6. Fits(scene, v, r.lossy, r.fresh) /\ r.lossy \in BOOLEAN /\ r.fresh \in BOOLEAN
    BY <1>3, <1>4 DEF Fits
<1> QED
    BY <1>2, <1>5, <1>6, VerdictRight

-----------------------------------------------------------------------------
\* Keys of L that its DS covers, as a walk saw it, have made the signature over
\* the answer that the walk saw, whichever stage of the rollover that was.
LEMMA RollCovered ==
    ASSUME NEW s, NEW g \in 0 .. 4, NEW o, NEW r, NEW m \in 0 .. 4, SeenAt(g, o, r, m),
           NEW i \in DOMAIN r.steps, r.steps[i].zone = L,
           s.kind = "roll", NEW keys, KeysRight(s, g, L, keys), Covers(r.steps[i].ds, keys)
    PROVE  r.ans \in keys
<1> DEFINE d == IF m >= 2 THEN 2 ELSE 1
           a == IF m >= 3 THEN 2 ELSE 1
<1>1. r.steps[i].ds = {d} /\ r.ans = <<L, a>> /\ (g = m \/ g = m + 1)
    BY DEF SeenAt
<1>2. keys = Keys(L, {1}) \/ keys = Keys(L, {1, 2}) \/ (g = 4 /\ keys = Keys(L, {2}))
    BY ZoneFacts DEF KeysRight, Faulty
<1>3. \E k \in keys : k[2] = d
    BY <1>1 DEF Covers
<1> HIDE DEF d, a
<1>4. CASE keys = Keys(L, {1})
    <2>1. d = 1
        BY <1>3, <1>4, SMTT(30) DEF Keys
    <2>2. a = 1
        BY <2>1, SMTT(30) DEF d, a
    <2> QED
        BY <1>1, <1>4, <2>2 DEF Keys
<1>5. CASE keys = Keys(L, {1, 2})
    <2>1. a \in {1, 2}
        BY DEF a
    <2> QED
        BY <1>1, <1>5, <2>1 DEF Keys
<1>6. CASE g = 4 /\ keys = Keys(L, {2})
    <2>1. a = 2
        BY <1>1, <1>6, SMTT(30) DEF a
    <2> QED
        BY <1>1, <1>6, <2>1 DEF Keys
<1> QED
    BY <1>2, <1>4, <1>5, <1>6

\* The steps of a validation, while it has any.
LEMMA StepFacts ==
    ASSUME NEW s, NEW r, JobShape(s, r), r.pc \notin {"idle", "done"}
    PROVE  /\ DOMAIN r.steps = 1 .. Len(r.steps) /\ Len(r.steps) \in 0 .. 2
           /\ DOMAIN r.steps \subseteq Nat \ {0}
           /\ \A i \in DOMAIN r.steps : /\ r.steps[i].zone \in {T, L}
                                        /\ Len(r.steps[i].zone) > s.cut
                                        /\ r.steps[i].zone = T => i = 1
                                        /\ r.steps[i].zone = L /\ s.cut = 0 => i = 2
           /\ s.cut = 0 => Len(r.steps) = 2 /\ r.steps[1].zone = T
           /\ s.cut = 1 => Len(r.steps) = 1 /\ r.steps[1].zone = L
           /\ s.cut = 2 => r.steps = << >>
<1>1. StepsShape(s, r.steps)
    BY DEF JobShape
<1>2. CASE s.cut = 0 /\ r.steps = <<r.steps[1], r.steps[2]>> /\ r.steps[1].zone = T /\ r.steps[2].zone = L
    <2>1. PICK a, b : r.steps = <<a, b>>
        BY <1>2
    <2>2. Len(r.steps) = 2 /\ DOMAIN r.steps = {1, 2} /\ 1 .. 2 = {1, 2}
        BY <2>1, SMTT(30)
    <2>3. Len(T) > s.cut /\ Len(L) > s.cut /\ T # L /\ s.cut = 0
        BY <1>2, ZoneFacts, SMTT(30)
    <2> QED
        BY <1>2, <2>2, <2>3, SMTT(30)
<1>3. CASE s.cut = 1 /\ r.steps = <<r.steps[1]>> /\ r.steps[1].zone = L
    <2>1. PICK a : r.steps = <<a>>
        BY <1>3
    <2>2. Len(r.steps) = 1 /\ DOMAIN r.steps = {1} /\ 1 .. 1 = {1}
        BY <2>1, SMTT(30)
    <2>3. Len(L) > s.cut /\ T # L /\ s.cut = 1
        BY <1>3, ZoneFacts, SMTT(30)
    <2> QED
        BY <1>3, <2>2, <2>3, SMTT(30)
<1>4. CASE s.cut = 2 /\ r.steps = << >>
    BY <1>4, SMTT(30)
<1> QED
    BY <1>1, <1>2, <1>3, <1>4 DEF StepsShape

\* prefetch_step_dnskeys: what the cache has for the steps.
LEMMA LookupRight ==
    ASSUME ValInv, RightInv, NEW j \in Job, Lookup(j)
    PROVE  RightInv'
<1> DEFINE r == job[j]
           got == [i \in DOMAIN r.steps |->
                     CASE CachedFor(r.steps[i]) ->
                            [st |-> "cached", keys |-> positive[r.steps[i].zone].keys, sig |-> None]
                       [] ~CachedFor(r.steps[i]) /\ Live(negative, r.steps[i].zone) ->
                            [st |-> "insecure", keys |-> {}, sig |-> None]
                       [] OTHER -> [st |-> "wait", keys |-> {}, sig |-> None]]
           lossy == r.lossy \/ \E i \in DOMAIN got : got[i].st = "insecure"
           x == [r EXCEPT !.got = got, !.pc = "loop", !.lossy = lossy]
<1>1. r.pc = "lookup" /\ UNCHANGED World /\ UNCHANGED delegation /\ Go(j, x)
    BY DEF Lookup
<1>2. \E wrong : positive' = Without(positive, wrong)
    BY DEF Lookup
<1>3. JobShape(scene, r) /\ JobRight(scene, stage, rolled, r) /\ IsJob(r)
    BY JobFacts DEF JobInv
<1>4. PositiveRight'
    <2>1. PositiveRight /\ UNCHANGED <<scene, stage>>
        BY <1>1 DEF RightInv, World
    <2> QED
        BY <1>2, <2>1 DEF PositiveRight, Without
<1> HIDE DEF r
<1>5. /\ DOMAIN got = DOMAIN r.steps
      /\ \A i \in DOMAIN got :
            \/ /\ got[i].st = "cached" /\ got[i].keys = positive[r.steps[i].zone].keys
               /\ CachedFor(r.steps[i])
            \/ got[i].st \in {"insecure", "wait"}
    OBVIOUS
<1> HIDE DEF got
<1>6. /\ x.pc = "loop" /\ x.steps = r.steps /\ x.ans = r.ans /\ x.i = r.i /\ x.got = got
      /\ x.lossy = lossy /\ x.fresh = r.fresh /\ x.began = r.began /\ x.chain = r.chain
    <2> HIDE DEF lossy
    <2> QED
        BY <1>3 DEF IsJob, Fields
<1> HIDE DEF x
<1>7. /\ r.lossy = FALSE /\ r.fresh \in BOOLEAN /\ r.i = 1 /\ scene.kind # "noAnchor"
      /\ WalkRight(scene, stage, rolled, r) /\ ChainRight(scene, stage, r)
    BY <1>1, <1>3 DEF JobRight
<1>8. WalkRight(scene, stage, rolled, x)
    BY <1>6, <1>7, WalkKept
<1>9. ChainRight(scene, stage, x)
    BY <1>6, <1>7 DEF ChainRight
<1>10. ASSUME NEW i \in DOMAIN got
       PROVE  GotRight(scene, stage, x, i)
    <2> DEFINE z == r.steps[i].zone
    <2> SUFFICES ASSUME got[i].st \in Useful
                 PROVE  GotRight(scene, stage, x, i)
        BY <1>6 DEF GotRight, Useful
    <2>1. got[i].st = "cached" /\ got[i].keys = positive[z].keys /\ CachedFor(r.steps[i])
        BY <1>5 DEF Useful
    <2>2. KeysRight(scene, stage, z, got[i].keys)
        BY <2>1 DEF CachedFor, Live, RightInv, PositiveRight
    <2>3. Covers(r.steps[i].ds, got[i].keys)
        BY <2>1 DEF CachedFor
    <2>4. ASSUME scene.kind = "roll", x.fresh, z = L
          PROVE  r.ans \in got[i].keys
        <3>1. PICK m \in 0 .. 4 : SeenAt(stage, rolled, r, m)
            BY <1>6, <1>7, <2>4 DEF WalkRight
        <3>2. stage \in 0 .. 4
            BY DEF RightInv, WorldRight
        <3> QED
            BY <1>5, <2>2, <2>3, <2>4, <3>1, <3>2, RollCovered
    <2> QED
        BY <1>6, <2>1, <2>2, <2>3, <2>4 DEF GotRight, Useful
<1>11. lossy <=> \E i \in DOMAIN got : got[i].st \in Useless
    BY <1>5, <1>7 DEF Useless
<1>12. \A i \in DOMAIN got : 1 <= i
    BY <1>1, <1>3, <1>5, StepFacts, SMTT(30)
<1> HIDE DEF lossy
<1>13. LoopRight(scene, stage, x)
    BY <1>5, <1>6, <1>7, <1>10, <1>11, <1>12 DEF LoopRight
<1>14. x.lossy \in BOOLEAN /\ x.fresh \in BOOLEAN
    <2>1. lossy \in BOOLEAN
        BY <1>7 DEF lossy
    <2> QED
        BY <1>6, <1>7, <2>1
<1>15. JobRight(scene, stage, rolled, x)
    BY <1>6, <1>7, <1>8, <1>9, <1>13, <1>14, RightInLoop, SMTT(30) DEF Looked
<1> QED
    BY <1>1, <1>4, <1>15, CachesKept, GoRight

\* One of the fetches comes to its end.
LEMMA GotUpdated ==
    ASSUME NEW s, NEW g, NEW r, NEW x, LoopRight(s, g, r), NEW i \in DOMAIN r.got, r.got[i].st = "wait",
           DOMAIN r.got \subseteq Nat \ {0},
           DOMAIN x.got = DOMAIN r.got, \A k \in DOMAIN r.got : k # i => x.got[k] = r.got[k],
           x.steps = r.steps, x.ans = r.ans, x.fresh = r.fresh, x.i = r.i, GotRight(s, g, x, i),
           \/ x.got[i].st \notin Useless \cup {"wait"} /\ x.lossy = r.lossy
           \/ x.got[i].st \in Useless /\ x.lossy
    PROVE  LoopRight(s, g, x)
<1>1. r.i = 1 /\ 1 <= i
    BY SMTT(30) DEF LoopRight
<1>2. \A k \in DOMAIN r.got : k # i => GotRight(s, g, x, k)
    BY DEF LoopRight, GotRight
<1>3. \A k \in DOMAIN r.got : x.got[k].st = "wait" => x.i = 1
    BY <1>1
<1>4. \A k \in DOMAIN r.got : x.got[k].st \in Useless => x.lossy /\ x.i <= k
    BY <1>1 DEF LoopRight
<1>5. x.lossy => \E k \in DOMAIN r.got : x.got[k].st \in Useless
    <2>1. r.lossy => \E k \in DOMAIN r.got : k # i /\ r.got[k].st \in Useless
        BY DEF LoopRight, Useless
    <2> QED
        BY <2>1
<1> QED
    BY <1>2, <1>3, <1>4, <1>5 DEF LoopRight

\* The keys that a zone publishes, its signature over them, and what a walk saw.
LEMMA FetchIsRight ==
    ASSUME ValInv, RightInv, NEW r, NEW i \in DOMAIN r.steps, WalkRight(scene, stage, rolled, r),
           r.steps[i].zone \in {T, L}, NEW e, r.got[i] = e, e.st = "fetched",
           e.sig = KeySignature(r.steps[i].zone),
           e.keys = Keys(r.steps[i].zone, PublishedKeys(r.steps[i].zone))
    PROVE  GotRight(scene, stage, r, i)
<1> DEFINE z == r.steps[i].zone
<1>1. scene \in Scene /\ WorldRight /\ stage \in 0 .. 4 /\ z \in Zone
    BY SceneFacts DEF RightInv, WorldRight, Zone
<1>2. KeysRight(scene, stage, z, e.keys)
    BY <1>1, PublishedKeysRight
<1>3. CASE scene.kind = "roll" /\ z = L
    <2>1. e.sig = <<L, IF stage >= 3 THEN 2 ELSE 1>>
        BY <1>1, <1>3, RollRight
    <2>2. e.keys = Keys(L, IF stage = 0 THEN {1} ELSE IF stage = 4 THEN {2} ELSE {1, 2})
        BY <1>1, <1>3, RollRight
    <2>3. e.sig \in {<<L, 1>>, <<L, 2>>} /\ e.sig \in e.keys
        BY <1>1, <2>1, <2>2, SMTT(30) DEF Keys
    <2>4. ASSUME r.fresh
          PROVE  Covers(r.steps[i].ds, e.keys) /\ r.ans \in e.keys
        <3>1. PICK m \in 0 .. 4 : SeenAt(stage, rolled, r, m)
            BY <1>3, <2>4 DEF WalkRight
        <3>2. /\ r.steps[i].ds = {IF m >= 2 THEN 2 ELSE 1}
              /\ stage = m \/ stage = m + 1
            BY <1>3, <3>1 DEF SeenAt
        <3>3. Covers(r.steps[i].ds, e.keys)
            <4>1. CASE m >= 2
                <5>1. 2 \in IF stage = 0 THEN {1} ELSE IF stage = 4 THEN {2} ELSE {1, 2}
                    BY <1>1, <3>2, <4>1, SMTT(30)
                <5>2. <<L, 2>> \in e.keys
                    BY <2>2, <5>1 DEF Keys
                <5>3. <<L, 2>>[2] \in r.steps[i].ds
                    BY <3>2, <4>1
                <5> QED
                    BY <5>2, <5>3 DEF Covers
            <4>2. CASE m < 2
                <5>1. 1 \in IF stage = 0 THEN {1} ELSE IF stage = 4 THEN {2} ELSE {1, 2}
                    BY <1>1, <3>2, <4>2, SMTT(30)
                <5>2. <<L, 1>> \in e.keys
                    BY <2>2, <5>1 DEF Keys
                <5>3. <<L, 1>>[2] \in r.steps[i].ds
                    BY <3>2, <4>2, SMTT(30)
                <5> QED
                    BY <5>2, <5>3 DEF Covers
            <4> QED
                BY <4>1, <4>2, SMTT(30)
        <3>4. r.ans \in e.keys
            BY <1>1, <1>2, <1>3, <3>1, <3>3, RollCovered
        <3> QED
            BY <3>3, <3>4
    <2> QED
        BY <1>2, <1>3, <2>3, <2>4 DEF GotRight
<1>4. CASE ~(scene.kind = "roll" /\ z = L)
    <2>1. SigRight(scene, z, e.sig)
        BY <1>1, <1>4, PublishedRight
    <2> QED
        BY <1>2, <1>4, <2>1 DEF GotRight
<1> QED
    BY <1>3, <1>4

\* A DNSKEY fetch brings what the zone publishes at that moment.
LEMMA FetchedRight ==
    ASSUME ValInv, RightInv, NEW j \in Job, NEW i, Fetched(j, i)
    PROVE  RightInv'
<1> DEFINE r == job[j]
           z == r.steps[i].zone
           e == [st |-> "fetched", sig |-> KeySignature(z), keys |-> Keys(z, PublishedKeys(z))]
           x == [r EXCEPT !.got[i] = e]
<1>1. /\ r.pc = "loop" /\ i \in DOMAIN r.got /\ r.got[i].st = "wait" /\ Go(j, x)
      /\ UNCHANGED World /\ UNCHANGED Caches
    BY DEF Fetched
<1>2. JobShape(scene, r) /\ JobRight(scene, stage, rolled, r) /\ IsJob(r)
    BY JobFacts DEF JobInv
<1> HIDE DEF r
<1>3. e.st = "fetched" /\ e.sig = KeySignature(z) /\ e.keys = Keys(z, PublishedKeys(z))
    OBVIOUS
<1> HIDE DEF e
<1>4. /\ x.pc = "loop" /\ x.steps = r.steps /\ x.ans = r.ans /\ x.i = r.i /\ x.got = [r.got EXCEPT ![i] = e]
      /\ x.lossy = r.lossy /\ x.fresh = r.fresh /\ x.began = r.began /\ x.chain = r.chain
    BY <1>1, <1>2 DEF IsJob, Fields
<1> HIDE DEF x
<1>5. /\ r.lossy \in BOOLEAN /\ r.fresh \in BOOLEAN /\ scene.kind # "noAnchor"
      /\ WalkRight(scene, stage, rolled, r) /\ ChainRight(scene, stage, r) /\ LoopRight(scene, stage, r)
    BY <1>1, <1>2 DEF JobRight, Looked
<1>6. WalkRight(scene, stage, rolled, x) /\ ChainRight(scene, stage, x)
    BY <1>4, <1>5, WalkKept DEF ChainRight
<1>7. /\ DOMAIN r.got = DOMAIN r.steps /\ DOMAIN r.got \subseteq Nat \ {0} /\ z \in {T, L}
      /\ DOMAIN x.got = DOMAIN r.got /\ x.got[i] = e
      /\ \A k \in DOMAIN r.got : k # i => x.got[k] = r.got[k]
    BY <1>1, <1>2, <1>4, <1>5, StepFacts DEF LoopRight
<1>8. GotRight(scene, stage, x, i)
    BY <1>1, <1>3, <1>4, <1>6, <1>7, FetchIsRight, SMTT(30)
<1>9. LoopRight(scene, stage, x)
    <2>1. x.got[i].st \notin Useless \cup {"wait"}
        BY <1>3, <1>7 DEF Useless
    <2> QED
        BY <1>1, <1>4, <1>5, <1>7, <1>8, <2>1, GotUpdated
<1>10. JobRight(scene, stage, rolled, x)
    BY <1>4, <1>5, <1>6, <1>9, RightInLoop, SMTT(30) DEF Looked
<1> QED
    BY <1>1, <1>10, CachesKept, GoRight DEF Caches

\* A DNSKEY fetch fails.
LEMMA FetchLostRight ==
    ASSUME ValInv, RightInv, NEW j \in Job, NEW i, FetchLost(j, i)
    PROVE  RightInv'
<1> DEFINE r == job[j]
           x == [r EXCEPT !.got[i].st = "lost", !.lossy = TRUE]
<1>1. /\ r.pc = "loop" /\ i \in DOMAIN r.got /\ r.got[i].st = "wait" /\ Go(j, x)
      /\ UNCHANGED World /\ UNCHANGED <<positive, delegation>>
    BY DEF FetchLost
<1>2. JobShape(scene, r) /\ JobRight(scene, stage, rolled, r) /\ IsJob(r)
    BY JobFacts DEF JobInv
<1> HIDE DEF r
<1>3. "st" \in DOMAIN r.got[i]
    BY <1>1, <1>2 DEF JobShape, Looked
<1>4. /\ x.pc = "loop" /\ x.steps = r.steps /\ x.ans = r.ans /\ x.i = r.i
      /\ x.got = [r.got EXCEPT ![i].st = "lost"]
      /\ x.lossy = TRUE /\ x.fresh = r.fresh /\ x.began = r.began /\ x.chain = r.chain
    BY <1>1, <1>2 DEF IsJob, Fields
<1> HIDE DEF x
<1>5. /\ r.fresh \in BOOLEAN /\ scene.kind # "noAnchor"
      /\ WalkRight(scene, stage, rolled, r) /\ ChainRight(scene, stage, r) /\ LoopRight(scene, stage, r)
    BY <1>1, <1>2 DEF JobRight, Looked
<1>6. WalkRight(scene, stage, rolled, x) /\ ChainRight(scene, stage, x)
    BY <1>4, <1>5, WalkKept DEF ChainRight
<1>7. /\ DOMAIN r.got \subseteq Nat \ {0}
      /\ DOMAIN x.got = DOMAIN r.got /\ x.got[i].st = "lost"
      /\ \A k \in DOMAIN r.got : k # i => x.got[k] = r.got[k]
    BY <1>1, <1>2, <1>3, <1>4, <1>5, StepFacts, SMTT(30) DEF LoopRight
<1>8. GotRight(scene, stage, x, i)
    BY <1>7 DEF GotRight, Useful
<1>9. LoopRight(scene, stage, x)
    BY <1>1, <1>4, <1>5, <1>7, <1>8, GotUpdated DEF Useless
<1>10. JobRight(scene, stage, rolled, x)
    <2>1. x.lossy \in BOOLEAN /\ x.fresh \in BOOLEAN
        BY <1>4, <1>5
    <2> QED
        BY <1>4, <1>5, <1>6, <1>9, <2>1, RightInLoop, SMTT(30) DEF Looked
<1> QED
    BY <1>1, <1>10, CachesKept, GoRight

-----------------------------------------------------------------------------
\* Keys that a step of the walk brought are trusted, and the loop goes on.
LEMMA AdvanceRight ==
    ASSUME NEW s, NEW g, NEW o, NEW r, JobShape(s, r), JobRight(s, g, o, r), r.pc = "loop",
           s.cut \in 0 .. 2, r.i \in DOMAIN r.steps, \A k \in DOMAIN r.got : r.got[k].st # "wait",
           r.got[r.i].st \in Useful, NEW z, z = r.steps[r.i].zone
    PROVE  JobRight(s, g, o, [r EXCEPT !.chain = Trust(@, z, r.got[r.i].keys),
                                       !.valid = @ \cup {z}, !.i = @ + 1])
<1> DEFINE keys == r.got[r.i].keys
           chain == Trust(r.chain, z, keys)
           x == [r EXCEPT !.chain = Trust(@, z, keys), !.valid = @ \cup {z}, !.i = @ + 1]
<1>1. /\ r.lossy \in BOOLEAN /\ r.fresh \in BOOLEAN /\ s.kind # "noAnchor"
      /\ WalkRight(s, g, o, r) /\ ChainRight(s, g, r) /\ LoopRight(s, g, r)
    BY DEF JobRight, Looked
<1>2. /\ x.pc = "loop" /\ x.steps = r.steps /\ x.ans = r.ans /\ x.i = r.i + 1 /\ x.got = r.got
      /\ x.lossy = r.lossy /\ x.fresh = r.fresh /\ x.began = r.began /\ x.chain = chain
    BY DEF JobShape, IsJob, Fields
<1>3. /\ DOMAIN chain = DOMAIN r.chain \cup {z} /\ chain[z] = keys
      /\ \A y \in DOMAIN r.chain : y # z => chain[y] = r.chain[y]
    BY DEF Trust, With
<1>4. /\ DOMAIN r.steps \subseteq Nat \ {0} /\ z \in {T, L} /\ r.i \in Nat
      /\ \A k \in DOMAIN r.steps : r.steps[k].zone = z => k = r.i
    BY StepFacts, SMTT(30)
<1> HIDE DEF x, chain, keys
<1>5. WalkRight(s, g, o, x)
    BY <1>1, <1>2, WalkKept
<1>6. r.i \in DOMAIN r.got /\ GotRight(s, g, r, r.i)
    BY <1>1 DEF LoopRight
<1>7. KeysRight(s, g, z, keys) /\ (s.kind = "roll" /\ r.fresh /\ z = L => r.ans \in keys)
    BY <1>6 DEF GotRight, keys
<1>8. ChainRight(s, g, x)
    <2>1. DOMAIN r.chain \subseteq Zone /\ Root \in DOMAIN r.chain /\ z \in Zone
        BY <1>1, <1>4 DEF ChainRight, Zone
    <2>2. \A y \in DOMAIN chain : KeysRight(s, g, y, chain[y])
        BY <1>1, <1>3, <1>7 DEF ChainRight
    <2>3. \A k \in DOMAIN r.steps : k < r.i + 1 <=> k < r.i \/ k = r.i
        BY <1>4, SMTT(30)
    <2>4. \A k \in DOMAIN r.steps : r.steps[k].zone \in DOMAIN chain <=> k < r.i + 1
        BY <1>1, <1>3, <1>4, <2>3 DEF ChainRight
    <2>5. s.kind = "roll" /\ r.fresh /\ L \in DOMAIN chain => r.ans \in chain[L]
        BY <1>1, <1>3, <1>7 DEF ChainRight
    <2> QED
        BY <1>2, <1>3, <2>1, <2>2, <2>4, <2>5 DEF ChainRight
<1>9. LoopRight(s, g, x)
    <2>1. \A k \in DOMAIN r.got : GotRight(s, g, x, k)
        BY <1>1, <1>2 DEF LoopRight, GotRight
    <2>2. \A k \in DOMAIN r.got : r.got[k].st \in Useless => r.lossy /\ r.i <= k /\ k # r.i
        BY <1>1 DEF LoopRight, Useless, Useful
    <2>3. \A k \in DOMAIN r.got : k \in Nat
        BY <1>1, <1>4 DEF LoopRight
    <2>4. \A k \in DOMAIN r.got : r.got[k].st \in Useless => r.lossy /\ r.i + 1 <= k
        BY <1>4, <2>2, <2>3, SMTT(30)
    <2> QED
        BY <1>1, <1>2, <2>1, <2>4 DEF LoopRight
<1>10. JobRight(s, g, o, x)
    <2>1. x.lossy \in BOOLEAN /\ x.fresh \in BOOLEAN /\ x.pc \in Looked
        BY <1>1, <1>2 DEF Looked
    <2> QED
        BY <1>1, <1>2, <1>5, <1>8, <1>9, <2>1, RightInLoop, SMTT(30)
<1> QED
    BY <1>10 DEF x, keys

\* A link that does not verify deserves Bogus, below the zones the walk skipped.
LEMMA FaultIsBogus ==
    ASSUME NEW s, NEW z \in {T, L}, s.zone = z, s.kind \in LinkFaults \ {"dsMissing"},
           s.cut \in 0 .. 2, Len(z) > s.cut
    PROVE  Deserved(s) = "Bogus"
<1>1. ~(Len(s.zone) <= s.cut)
    BY ZoneFacts, SMTT(30)
<1> QED
    BY <1>1 DEF Deserved, LinkFaults

\* The parent of a step's zone has the keys the step is verified under.
LEMMA ParentKeys ==
    ASSUME ValInv, NEW r, JobInv(scene, r), ChainRight(scene, stage, r),
           NEW z \in {T, L}, z \notin DOMAIN r.chain, Parent(z) \in DOMAIN r.chain
    PROVE  /\ KeysRight(scene, stage, Parent(z), closest_trusted_keys(r.chain, z))
           /\ ~Faulty(scene, "keysMissing", Parent(z))
<1>1. closest_trusted_keys(r.chain, z) = r.chain[Parent(z)]
    BY ClosestKeys DEF ChainRight
<1>2. ASSUME Faulty(scene, "keysMissing", Parent(z))
      PROVE  FALSE
    <2>1. scene.kind \in LinkFaults
        BY <1>2 DEF Faulty, LinkFaults
    <2>2. Parent(z) \in ProvenIn(scene)
        BY <2>1 DEF JobInv, JobProven
    <2>3. Parent(z) \in Ancestry(Parent(z))
        BY ZoneFacts
    <2> QED
        BY <1>2, <2>1, <2>2, <2>3 DEF ProvenIn, Faulty
<1> QED
    BY <1>1, <1>2 DEF ChainRight

\* A step whose DS RRset is signed by a zone that is not in the chain starts a
\* bootstrap, of the one zone that the walk skipped.
LEMMA SkippedParent ==
    ASSUME NEW s, NEW g, NEW o, NEW r, JobShape(s, r), JobRight(s, g, o, r), r.pc = "loop",
           s.cut \in 0 .. 2, r.i \in DOMAIN r.steps, NEW z, z = r.steps[r.i].zone,
           Parent(z) \notin DOMAIN r.chain
    PROVE  Parent(z) = T /\ Len(T) <= s.cut
<1>1. Root \in DOMAIN r.chain /\ \A k \in DOMAIN r.steps : r.steps[k].zone \in DOMAIN r.chain <=> k < r.i
    BY DEF JobRight, Looked, ChainRight
<1>2. z \in {T, L} /\ Parent(T) = Root /\ Parent(L) = T /\ Len(T) = 1
    BY StepFacts, ZoneFacts
<1>3. z = L
    BY <1>1, <1>2
<1>4. ASSUME s.cut = 0 PROVE FALSE
    <2>1. /\ Len(r.steps) = 2 /\ DOMAIN r.steps = 1 .. Len(r.steps) /\ r.steps[1].zone = T
          /\ r.steps[r.i].zone = L => r.i = 2
        BY <1>4, StepFacts
    <2>2. r.i = 2
        BY <1>3, <2>1
    <2>3. 1 \in DOMAIN r.steps /\ 1 < r.i
        BY <2>1, <2>2, SMTT(30)
    <2> QED
        BY <1>1, <1>2, <1>3, <2>1, <2>3
<1>5. 1 <= s.cut
    BY <1>4, SMTT(30)
<1> QED
    BY <1>2, <1>3, <1>5

\* A validation leaves the loop to bootstrap a zone that the walk skipped.
LEMMA BootStartsRight ==
    ASSUME NEW s, NEW g, NEW o, NEW r, JobShape(s, r), JobRight(s, g, o, r), r.pc = "loop",
           NEW z \in {T, L}, z \notin DOMAIN r.chain, Len(z) <= s.cut
    PROVE  JobRight(s, g, o, [r EXCEPT !.pc = "boot", !.boot = z])
<1> DEFINE x == [r EXCEPT !.pc = "boot", !.boot = z]
<1>1. /\ r.lossy \in BOOLEAN /\ r.fresh \in BOOLEAN /\ s.kind # "noAnchor"
      /\ WalkRight(s, g, o, r) /\ ChainRight(s, g, r) /\ LoopRight(s, g, r)
    BY DEF JobRight, Looked
<1>2. /\ x.pc = "boot" /\ x.boot = z /\ x.steps = r.steps /\ x.ans = r.ans /\ x.i = r.i /\ x.got = r.got
      /\ x.lossy = r.lossy /\ x.fresh = r.fresh /\ x.began = r.began /\ x.chain = r.chain
    BY DEF JobShape, IsJob, Fields
<1> HIDE DEF x
<1>3. WalkRight(s, g, o, x)
    BY <1>1, <1>2, WalkKept
<1>4. ChainRight(s, g, x)
    BY <1>1, <1>2 DEF ChainRight
<1>5. LoopRight(s, g, x)
    BY <1>1, <1>2 DEF LoopRight, GotRight
<1>6. BootRight(s, x)
    BY <1>2 DEF BootRight
<1>7. x.lossy \in BOOLEAN /\ x.fresh \in BOOLEAN /\ x.pc \in Looked
    BY <1>1, <1>2 DEF Looked
<1>8. JobRight(s, g, o, x)
    BY <1>1, <1>3, <1>4, <1>5, <1>6, <1>7, RightInLoop, SMTT(30)
<1> QED
    BY <1>8 DEF x

\* A zone with a version is a signature, by a key of that zone.
LEMMA SignatureFacts ==
    ASSUME NEW z \in Zone, NEW n \in Nat
    PROVE  <<z, n>> # None /\ <<z, n>>[1] = z /\ <<z, n>>[2] = n
<1>1. <<z, n>> \in Zone \X Nat
    BY SMTT(30)
<1> QED
    BY <1>1, ValidatorAssumption

\* A DS RRset is signed by the parent, if it is signed at all.
LEMMA DsSigner ==
    ASSUME NEW s, NEW z \in {T, L}, NEW sig, DsSigRight(s, z, sig)
    PROVE  /\ sig # None => sig[1] = Parent(z)
           /\ sig = None => Faulty(s, "dsMissing", z) \/ Faulty(s, "dsUnsigned", z)
<1>1. Parent(z) \in Zone
    BY ZoneFacts DEF Zone
<1>2. \A n \in Nat : <<Parent(z), n>> # None /\ <<Parent(z), n>>[1] = Parent(z)
    BY <1>1, SignatureFacts
<1>3. 0 \in Nat /\ 1 \in Nat /\ 3 \in Nat /\ Late \in Nat
    BY SMTT(30) DEF Late
<1>4. \/ sig = None /\ (Faulty(s, "dsMissing", z) \/ Faulty(s, "dsUnsigned", z))
      \/ \E n \in Nat : sig = <<Parent(z), n>>
    BY <1>3 DEF DsSigRight
<1> QED
    BY <1>2, <1>4

\* The verdict on a step that does not verify.
LEMMA StepVerdict ==
    ASSUME ValInv, RightInv, NEW r, JobInv(scene, r), JobRight(scene, stage, rolled, r), r.pc = "loop",
           r.i \in DOMAIN r.steps, NEW d, d = r.steps[r.i], NEW e, e = r.got[r.i],
           d.sig = None \/ d.sig[1] \in DOMAIN r.chain, NEW v \in {"Insecure", "Bogus"},
           \/ v = "Insecure" /\ d.ds = {}
           \/ /\ v = "Bogus" /\ d.ds # {}
              /\ ~DsHolds(d.sig, closest_trusted_keys(r.chain, d.zone))
           \/ v = "Insecure" /\ e.st \in Useless
           \/ v = "Bogus" /\ d.ds # {} /\ e.st = "fetched" /\ ~KeysHold(e.keys, e.sig, d.ds)
    PROVE  Fits(scene, v, r.lossy, r.fresh)
<1> DEFINE z == d.zone
<1> SUFFICES ASSUME ~r.lossy, scene.kind # "revoke", scene.kind = "roll" => r.fresh
             PROVE  v = Deserved(scene)
    BY DEF Fits
<1>1. /\ WalkRight(scene, stage, rolled, r) /\ ChainRight(scene, stage, r) /\ LoopRight(scene, stage, r)
      /\ JobShape(scene, r)
    BY DEF JobRight, JobInv, Looked
<1>2. /\ StepRight(scene, d) /\ r.i \in DOMAIN r.got /\ GotRight(scene, stage, r, r.i)
      /\ z \notin DOMAIN r.chain
    <2>1. ~(r.i < r.i)
        BY <1>1, SMTT(30) DEF JobShape
    <2> QED
        BY <1>1, <2>1 DEF WalkRight, LoopRight, ChainRight
<1>3. /\ z \in {T, L} /\ Len(z) > scene.cut /\ scene.cut \in 0 .. 2 /\ scene.zone \in {None, T, L}
    BY <1>1, StepFacts, SceneFacts
<1>4. scene.kind = "roll" => d.ds # {}
    <2>1. CASE z = T
        BY <1>2, <2>1 DEF StepRight, DsRight, Faulty
    <2>2. CASE z = L
        BY <1>1, <2>2 DEF WalkRight, SeenAt
    <2> QED
        BY <1>3, <2>1, <2>2
<1>5. CASE v = "Insecure" /\ d.ds = {}
    <2>1. scene.kind # "roll"
        BY <1>4, <1>5
    <2>2. scene.kind = "dsMissing"
        BY <1>2, <1>5, <2>1 DEF StepRight, DsRight, Faulty
    <2> QED
        BY <1>5, <2>2 DEF Deserved
<1>6. CASE v = "Bogus" /\ d.ds # {} /\ ~DsHolds(d.sig, closest_trusted_keys(r.chain, z))
    <2>1. DsSigRight(scene, z, d.sig) /\ (scene.kind = "roll" \/ DsRight(scene, z, d.ds))
        BY <1>2 DEF StepRight
    <2>2. scene.zone = z /\ scene.kind \in {"dsUnsigned", "dsExpired", "dsMissigned"}
        <3>1. CASE d.sig = None
            <4>1. Faulty(scene, "dsMissing", z) \/ Faulty(scene, "dsUnsigned", z)
                BY <1>3, <2>1, <3>1, DsSigner
            <4> QED
                BY <1>6, <2>1, <4>1 DEF DsRight, Faulty
        <3>2. CASE d.sig # None
            <4>1. d.sig[1] = Parent(z)
                BY <1>3, <2>1, <3>2, DsSigner
            <4>2. /\ KeysRight(scene, stage, Parent(z), closest_trusted_keys(r.chain, z))
                  /\ ~Faulty(scene, "keysMissing", Parent(z))
                BY <1>1, <1>2, <1>3, <3>2, <4>1, ParentKeys
            <4>3. ~Faulty(scene, "dsMissing", z)
                BY <1>6, <2>1 DEF DsRight, Faulty
            <4> QED
                BY <1>3, <1>6, <2>1, <4>2, <4>3, DsOutcome
        <3> QED
            BY <3>1, <3>2
    <2>3. scene.kind \in LinkFaults \ {"dsMissing"}
        BY <2>2 DEF LinkFaults
    <2> QED
        BY <1>3, <1>6, <2>2, <2>3, FaultIsBogus
<1>7. CASE e.st \in Useless
    BY <1>1, <1>2, <1>7 DEF LoopRight
<1>8. CASE v = "Bogus" /\ d.ds # {} /\ e.st = "fetched" /\ ~KeysHold(e.keys, e.sig, d.ds)
    <2>1. KeysRight(scene, stage, z, e.keys)
        BY <1>2, <1>8 DEF GotRight, Useful
    <2>2. CASE scene.kind = "roll" /\ z = L
        <3>1. /\ e.sig \in {<<L, 1>>, <<L, 2>>} /\ e.sig \in e.keys
              /\ Covers(d.ds, e.keys)
            BY <1>2, <1>8, <2>2 DEF GotRight, Useful
        <3>2. e.sig # None /\ ~Expired(e.sig)
            <4>1. L \in Zone /\ 1 \in Nat /\ 2 \in Nat /\ 1 # Late /\ 2 # Late
                BY SMTT(30) DEF Late, Zone
            <4>2. <<L, 1>> # None /\ <<L, 1>>[2] = 1 /\ <<L, 2>> # None /\ <<L, 2>>[2] = 2
                BY <4>1, SignatureFacts
            <4> QED
                BY <3>1, <4>1, <4>2 DEF Expired
        <3> QED
            BY <1>8, <3>1, <3>2 DEF KeysHold
    <2>3. CASE scene.kind # "roll" \/ z = T
        <3>1. SigRight(scene, z, e.sig) /\ DsRight(scene, z, d.ds)
            BY <1>2, <1>8, <2>3, ZoneFacts DEF GotRight, StepRight
        <3>2. scene.zone = z /\ scene.kind \in LinkFaults \ {"dsMissing"}
            BY <1>3, <1>8, <2>1, <2>3, <3>1, KeysOutcome
        <3> QED
            BY <1>3, <1>8, <3>2, FaultIsBogus
    <2> QED
        BY <1>3, <2>2, <2>3
<1> QED
    BY <1>5, <1>6, <1>7, <1>8

\* One turn of the loop over the steps.
LEMMA VerifyStepRight ==
    ASSUME ValInv, RightInv, NEW j \in Job, VerifyStep(j)
    PROVE  RightInv'
<1> DEFINE r == job[j]
           d == r.steps[r.i]
           e == r.got[r.i]
           z == d.zone
           b == [r EXCEPT !.pc = "boot", !.boot = d.sig[1]]
           x == [r EXCEPT !.chain = Trust(@, d.zone, e.keys), !.valid = @ \cup {d.zone}, !.i = @ + 1]
           Fails(v) == \/ v = "Insecure" /\ d.ds = {}
                       \/ /\ v = "Bogus" /\ d.ds # {}
                          /\ ~DsHolds(d.sig, closest_trusted_keys(r.chain, d.zone))
                       \/ v = "Insecure" /\ e.st \in Useless
                       \/ v = "Bogus" /\ d.ds # {} /\ e.st = "fetched" /\ ~KeysHold(e.keys, e.sig, d.ds)
<1>1. /\ r.pc = "loop" /\ r.i <= Len(r.steps) /\ UNCHANGED World
      /\ \A k \in DOMAIN r.got : r.got[k].st # "wait"
    BY DEF VerifyStep
<1>2. \/ /\ d.sig # None /\ d.sig[1] \notin DOMAIN r.chain
         /\ Go(j, b) /\ UNCHANGED <<positive, delegation>>
      \/ /\ d.sig = None \/ d.sig[1] \in DOMAIN r.chain
         /\ \/ \E v \in {"Insecure", "Bogus"} : Fails(v) /\ Verdict(j, r, v) /\ UNCHANGED positive
            \/ /\ e.st \in Useful /\ Go(j, x) /\ UNCHANGED delegation
               /\ UNCHANGED positive \/ put_positive(z, e.keys, None)
    BY DEF VerifyStep, Useful, Useless
<1>3. JobInv(scene, r) /\ JobShape(scene, r) /\ JobRight(scene, stage, rolled, r)
    BY JobFacts DEF JobInv
<1>4. scene.cut \in 0 .. 2
    BY SceneFacts
<1> HIDE DEF r
<1>5. r.i \in DOMAIN r.steps
    <2>1. DOMAIN r.steps = 1 .. Len(r.steps) /\ Len(r.steps) \in 0 .. 2 /\ r.i \in Nat \ {0}
        BY <1>1, <1>3, StepFacts DEF JobShape
    <2> QED
        BY <1>1, <2>1, SMTT(30)
<1>6. /\ r.lossy \in BOOLEAN /\ r.fresh \in BOOLEAN /\ WalkRight(scene, stage, rolled, r)
      /\ LoopRight(scene, stage, r)
    BY <1>1, <1>3 DEF JobRight, Looked
<1>7. z \in {T, L} /\ DsSigRight(scene, z, d.sig)
    BY <1>1, <1>3, <1>5, <1>6, StepFacts DEF WalkRight, StepRight
<1>8. CASE d.sig # None /\ d.sig[1] \notin DOMAIN r.chain /\ Go(j, b) /\ UNCHANGED <<positive, delegation>>
    <2>1. d.sig[1] = Parent(z)
        BY <1>7, <1>8, DsSigner
    <2>2. d.sig[1] = T /\ Len(T) <= scene.cut
        BY <1>1, <1>3, <1>4, <1>5, <1>8, <2>1, SkippedParent
    <2>3. JobRight(scene, stage, rolled, b)
        BY <1>1, <1>3, <1>8, <2>2, BootStartsRight
    <2> QED
        BY <1>1, <1>8, <2>3, CachesKept, GoRight
<1>9. ASSUME d.sig = None \/ d.sig[1] \in DOMAIN r.chain, NEW v \in {"Insecure", "Bogus"}, Fails(v),
             Verdict(j, r, v), UNCHANGED positive
      PROVE  RightInv'
    <2>1. Fits(scene, v, r.lossy, r.fresh)
        BY <1>1, <1>3, <1>5, <1>9, StepVerdict
    <2> QED
        BY <1>1, <1>6, <1>9, <2>1, VerdictRight
<1>10. CASE /\ e.st \in Useful /\ Go(j, x) /\ UNCHANGED delegation
            /\ UNCHANGED positive \/ put_positive(z, e.keys, None)
    <2>1. JobRight(scene, stage, rolled, x)
        BY <1>1, <1>3, <1>4, <1>5, <1>10, AdvanceRight
    <2>2. KeysRight(scene, stage, z, e.keys) /\ z \in Zone
        BY <1>5, <1>6, <1>7, <1>10 DEF LoopRight, GotRight, Zone
    <2>3. PositiveRight'
        BY <1>1, <1>10, <2>2, CachesKept, PutRight
    <2> QED
        BY <1>1, <1>10, <2>1, <2>3, CachesKept, GoRight
<1> HIDE DEF b, x, d, e, z, Fails
<1> QED
    BY <1>2, <1>8, <1>9, <1>10

-----------------------------------------------------------------------------
\* The zone a bootstrap works on: the walk skipped it, and its parent is trusted.
LEMMA BootZoneRight ==
    ASSUME ValInv, RightInv, NEW r, JobShape(scene, r), JobRight(scene, stage, rolled, r),
           r.pc \in {"boot", "bootKeys"}, NEW z, z = BootZone(r)
    PROVE  /\ z \in {T, L} /\ z \notin DOMAIN r.chain /\ Parent(z) \in DOMAIN r.chain
           /\ Len(z) <= scene.cut /\ (scene.kind = "roll" => z = T)
           /\ \A k \in DOMAIN r.steps : r.steps[k].zone # z
<1>1. /\ r.boot \in {T, L} /\ r.boot \notin DOMAIN r.chain /\ Len(r.boot) <= scene.cut
      /\ Root \in DOMAIN r.chain
    BY DEF JobRight, Looked, BootRight, ChainRight
<1>2. z \in {T, L} /\ z \notin DOMAIN r.chain /\ (z = L => T \in DOMAIN r.chain)
    BY <1>1, BootZoneFacts, SMTT(30)
<1>3. Parent(z) \in DOMAIN r.chain
    BY <1>1, <1>2, ZoneFacts
<1>4. scene.cut \in 0 .. 2 /\ (scene.kind = "roll" => scene.cut < 2)
    BY ValidatorAssumption, SceneFacts
<1>5. r.boot = T => z = T
    <2> DEFINE missing == {y \in Ancestry(r.boot) : y \notin DOMAIN r.chain}
    <2>1. ASSUME r.boot = T
          PROVE  z = T
        <3>1. missing = {T}
            BY <1>1, <2>1, ZoneFacts DEF Zone
        <3>2. z = CHOOSE y \in missing : \A w \in missing : Len(y) <= Len(w)
            BY DEF BootZone
        <3>3. Len(T) <= Len(T)
            BY ZoneFacts, SMTT(30)
        <3> HIDE DEF missing
        <3> QED
            BY <3>1, <3>2, <3>3
    <2> QED
        BY <2>1
<1>6. Len(z) <= scene.cut /\ (scene.kind = "roll" => z = T)
    <2>1. Len(T) = 1 /\ Len(L) = 2
        BY ZoneFacts
    <2>2. CASE r.boot = T
        BY <1>1, <1>5, <2>2
    <2>3. CASE r.boot = L
        <3>1. 2 <= scene.cut
            BY <1>1, <2>1, <2>3
        <3>2. 1 <= scene.cut /\ scene.kind # "roll"
            BY <1>4, <3>1, SMTT(30)
        <3> QED
            BY <1>2, <2>1, <3>1, <3>2
    <2> QED
        BY <1>1, <2>2, <2>3
<1>7. \A k \in DOMAIN r.steps : r.steps[k].zone # z
    <2>1. \A k \in DOMAIN r.steps : r.steps[k].zone \in {T, L} /\ Len(r.steps[k].zone) > scene.cut
        BY StepFacts
    <2>2. ~(Len(z) > scene.cut)
        BY <1>2, <1>4, <1>6, ZoneFacts, SMTT(30)
    <2> QED
        BY <2>1, <2>2
<1> QED
    BY <1>2, <1>3, <1>6, <1>7

\* The fault of a link that the walk skipped deserves Insecure.
LEMMA FaultIsInsecure ==
    ASSUME NEW s, NEW z, s.zone = z, s.kind \in LinkFaults, Len(z) <= s.cut
    PROVE  Deserved(s) = "Insecure"
    BY DEF Deserved, LinkFaults

\* A zone bootstrapped with right keys.
LEMMA BootedRight ==
    ASSUME ValInv, RightInv, NEW j \in Job, job[j].pc \in {"boot", "bootKeys"},
           NEW z, z = BootZone(job[j]), NEW keys, Booted(j, job[j], z, keys),
           KeysRight(scene, stage, z, keys), UNCHANGED World, PositiveRight', UNCHANGED delegation
    PROVE  RightInv'
<1> DEFINE r == job[j]
           chain == Trust(r.chain, z, keys)
           x == [r EXCEPT !.chain = chain, !.pc = "loop", !.boot = None, !.ds = None]
           y == [r EXCEPT !.chain = chain, !.pc = "boot", !.ds = None]
<1>1. Go(j, x) \/ (z # r.boot /\ Go(j, y))
    <2> DEFINE w == IF z = r.boot THEN x ELSE y
    <2>1. Go(j, w)
        BY DEF Booted
    <2> HIDE DEF x, y
    <2>2. (z = r.boot => w = x) /\ (z # r.boot => w = y)
        OBVIOUS
    <2> HIDE DEF w
    <2>3. (z = r.boot => Go(j, x)) /\ (z # r.boot => Go(j, y))
        BY <2>1, <2>2
    <2> QED
        BY <2>3
<1>2. /\ JobShape(scene, r) /\ JobRight(scene, stage, rolled, r) /\ r.pc \in {"boot", "bootKeys"}
      /\ z = BootZone(r)
    BY JobFacts DEF JobInv
<1> HIDE DEF r
<1>3. /\ z \in {T, L} /\ z \notin DOMAIN r.chain /\ (scene.kind = "roll" => z = T)
      /\ \A k \in DOMAIN r.steps : r.steps[k].zone # z
    BY <1>2, BootZoneRight
<1>4. /\ DOMAIN chain = DOMAIN r.chain \cup {z} /\ chain[z] = keys
      /\ \A k \in DOMAIN r.chain : k # z => chain[k] = r.chain[k]
    BY DEF Trust, With
<1> HIDE DEF chain
<1>5. /\ x.pc = "loop" /\ x.steps = r.steps /\ x.ans = r.ans /\ x.got = r.got /\ x.i = r.i
      /\ x.lossy = r.lossy /\ x.fresh = r.fresh /\ x.began = r.began /\ x.chain = chain
    BY <1>2 DEF JobShape, IsJob, Fields
<1>6. /\ y.pc = "boot" /\ y.steps = r.steps /\ y.ans = r.ans /\ y.got = r.got /\ y.i = r.i
      /\ y.lossy = r.lossy /\ y.fresh = r.fresh /\ y.began = r.began /\ y.chain = chain
      /\ y.boot = r.boot
    BY <1>2 DEF JobShape, IsJob, Fields
<1> HIDE DEF x, y
<1>7. /\ r.lossy \in BOOLEAN /\ r.fresh \in BOOLEAN /\ scene.kind # "noAnchor"
      /\ WalkRight(scene, stage, rolled, r) /\ ChainRight(scene, stage, r) /\ LoopRight(scene, stage, r)
      /\ BootRight(scene, r)
    BY <1>2 DEF JobRight, Looked
<1>8. ASSUME NEW w, w.steps = r.steps, w.ans = r.ans, w.got = r.got, w.i = r.i, w.lossy = r.lossy,
             w.fresh = r.fresh, w.began = r.began, w.chain = chain
      PROVE  /\ WalkRight(scene, stage, rolled, w) /\ ChainRight(scene, stage, w)
             /\ LoopRight(scene, stage, w)
    <2>1. WalkRight(scene, stage, rolled, w)
        BY <1>7, <1>8, WalkKept
    <2>2. LoopRight(scene, stage, w)
        BY <1>7, <1>8 DEF LoopRight, GotRight
    <2>3. Root \in DOMAIN chain /\ DOMAIN chain \subseteq Zone
        BY <1>3, <1>4, <1>7 DEF ChainRight, Zone
    <2>4. \A k \in DOMAIN chain : KeysRight(scene, stage, k, chain[k])
        BY <1>4, <1>7 DEF ChainRight
    <2>5. \A k \in DOMAIN r.steps : r.steps[k].zone \in DOMAIN chain <=> k < r.i
        BY <1>3, <1>4, <1>7 DEF ChainRight
    <2>6. scene.kind = "roll" /\ r.fresh /\ L \in DOMAIN chain => r.ans \in chain[L]
        BY <1>3, <1>4, <1>7, ZoneFacts DEF ChainRight
    <2>7. ChainRight(scene, stage, w)
        BY <1>8, <2>3, <2>4, <2>5, <2>6 DEF ChainRight
    <2> QED
        BY <2>1, <2>2, <2>7
<1>9. CASE Go(j, x)
    <2>1. /\ WalkRight(scene, stage, rolled, x) /\ ChainRight(scene, stage, x)
          /\ LoopRight(scene, stage, x)
        BY <1>5, <1>8
    <2>2. x.lossy \in BOOLEAN /\ x.fresh \in BOOLEAN /\ x.pc \in Looked
        BY <1>5, <1>7 DEF Looked
    <2>3. JobRight(scene, stage, rolled, x)
        BY <1>5, <1>7, <2>1, <2>2, RightInLoop, SMTT(30)
    <2> QED
        BY <1>9, <2>3, CachesKept, GoRight
<1>10. CASE z # r.boot /\ Go(j, y)
    <2>1. /\ WalkRight(scene, stage, rolled, y) /\ ChainRight(scene, stage, y)
          /\ LoopRight(scene, stage, y)
        BY <1>6, <1>8
    <2>2. BootRight(scene, y)
        BY <1>4, <1>6, <1>7, <1>10 DEF BootRight
    <2>3. y.lossy \in BOOLEAN /\ y.fresh \in BOOLEAN /\ y.pc \in Looked
        BY <1>6, <1>7 DEF Looked
    <2>4. JobRight(scene, stage, rolled, y)
        BY <1>7, <2>1, <2>2, <2>3, RightInLoop, SMTT(30)
    <2> QED
        BY <1>10, <2>4, CachesKept, GoRight
<1> QED
    BY <1>1, <1>9, <1>10

\* A bootstrap that finds the zone's keys in the DNSKEY cache.
LEMMA BootCachedRight ==
    ASSUME ValInv, RightInv, NEW j \in Job, BootCached(j)
    PROVE  RightInv'
<1> DEFINE z == BootZone(job[j])
<1>1. /\ job[j].pc \in {"boot", "bootKeys"} /\ z \in DOMAIN positive /\ UNCHANGED World
      /\ Booted(j, job[j], z, positive[z].keys) /\ UNCHANGED <<positive, delegation>>
    BY DEF BootCached, Live, Caches
<1> HIDE DEF z
<1>2. KeysRight(scene, stage, z, positive[z].keys)
    BY <1>1 DEF RightInv, PositiveRight
<1>3. PositiveRight'
    BY <1>1, CachesKept
<1> QED
    BY <1>1, <1>2, <1>3, BootedRight DEF z

\* A bootstrap that fetches the DS RRset of the zone.
LEMMA BootDsRight ==
    ASSUME ValInv, RightInv, NEW j \in Job, BootDs(j)
    PROVE  RightInv'
<1> DEFINE r == job[j]
           z == BootZone(r)
           x == [r EXCEPT !.ds = PublishedDs(z), !.pc = "bootKeys"]
           Holds == /\ PublishedDs(z) # {}
                    /\ DsHolds(DsSignature(z), closest_trusted_keys(r.chain, z))
<1>1. /\ r.pc = "boot" /\ UNCHANGED World /\ UNCHANGED positive
      /\ \/ Go(j, x) /\ UNCHANGED delegation
         \/ ~Holds /\ Verdict(j, r, "Insecure")
    BY DEF BootDs
<1>2. /\ JobInv(scene, r) /\ JobShape(scene, r) /\ JobRight(scene, stage, rolled, r)
      /\ scene \in Scene /\ WorldRight /\ scene.zone \in {None, T, L}
    BY JobFacts, SceneFacts DEF JobInv, RightInv
<1> HIDE DEF r
<1>3. /\ z \in {T, L} /\ z \notin DOMAIN r.chain /\ Parent(z) \in DOMAIN r.chain
      /\ Len(z) <= scene.cut /\ (scene.kind = "roll" => z = T)
    BY <1>1, <1>2, BootZoneRight
<1>4. DsRight(scene, z, PublishedDs(z)) /\ DsSigRight(scene, z, DsSignature(z))
    BY <1>2, <1>3, PublishedRight
<1>5. /\ r.lossy \in BOOLEAN /\ r.fresh \in BOOLEAN /\ scene.kind # "noAnchor"
      /\ WalkRight(scene, stage, rolled, r) /\ ChainRight(scene, stage, r) /\ LoopRight(scene, stage, r)
      /\ BootRight(scene, r)
    BY <1>1, <1>2 DEF JobRight, Looked
<1>6. CASE Go(j, x) /\ UNCHANGED delegation
    <2> HIDE DEF z
    <2>1. /\ x.pc = "bootKeys" /\ x.steps = r.steps /\ x.ans = r.ans /\ x.got = r.got /\ x.i = r.i
          /\ x.lossy = r.lossy /\ x.fresh = r.fresh /\ x.began = r.began /\ x.chain = r.chain
          /\ x.boot = r.boot /\ x.ds = PublishedDs(z)
        BY <1>2 DEF JobShape, IsJob, Fields
    <2> HIDE DEF x
    <2>2. BootZone(x) = z
        BY <2>1 DEF BootZone, z
    <2>3. BootRight(scene, x)
        BY <1>4, <1>5, <2>1, <2>2 DEF BootRight
    <2>4. WalkRight(scene, stage, rolled, x)
        BY <1>5, <2>1, WalkKept
    <2>5. ChainRight(scene, stage, x) /\ LoopRight(scene, stage, x)
        BY <1>5, <2>1 DEF ChainRight, LoopRight, GotRight
    <2>6. x.lossy \in BOOLEAN /\ x.fresh \in BOOLEAN /\ x.pc \in Looked
        BY <1>5, <2>1 DEF Looked
    <2>7. JobRight(scene, stage, rolled, x)
        BY <1>5, <2>3, <2>4, <2>5, <2>6, RightInLoop, SMTT(30)
    <2> QED
        BY <1>1, <1>6, <2>7, CachesKept, GoRight
<1>7. CASE ~Holds /\ Verdict(j, r, "Insecure")
    <2> HIDE DEF z
    <2>1. Deserved(scene) = "Insecure"
        <3>1. CASE PublishedDs(z) = {}
            BY <1>4, <3>1 DEF DsRight, Faulty, Deserved
        <3>2. CASE PublishedDs(z) # {} /\ ~DsHolds(DsSignature(z), closest_trusted_keys(r.chain, z))
            <4>1. /\ KeysRight(scene, stage, Parent(z), closest_trusted_keys(r.chain, z))
                  /\ ~Faulty(scene, "keysMissing", Parent(z))
                BY <1>2, <1>3, <1>5, ParentKeys
            <4>2. ~Faulty(scene, "dsMissing", z)
                BY <1>4, <3>2 DEF DsRight
            <4>3. scene.zone = z /\ scene.kind \in {"dsUnsigned", "dsExpired", "dsMissigned"}
                BY <1>3, <1>4, <3>2, <4>1, <4>2, DsOutcome
            <4>4. scene.kind \in LinkFaults
                BY <4>3 DEF LinkFaults
            <4> QED
                BY <1>3, <4>3, <4>4, FaultIsInsecure
        <3> QED
            BY <1>7, <3>1, <3>2
    <2>2. Fits(scene, "Insecure", r.lossy, r.fresh)
        BY <2>1 DEF Fits
    <2> QED
        BY <1>1, <1>5, <1>7, <2>2, VerdictRight
<1> HIDE DEF x, Holds
<1> QED
    BY <1>1, <1>6, <1>7

\* A bootstrap that fetches the keys of the zone.
LEMMA BootKeysRight ==
    ASSUME ValInv, RightInv, NEW j \in Job, BootKeys(j)
    PROVE  RightInv'
<1> DEFINE r == job[j]
           z == BootZone(r)
           keys == Keys(z, PublishedKeys(z))
<1>1. /\ r.pc = "bootKeys" /\ UNCHANGED World
      /\ \/ put_positive(z, keys, None) /\ Booted(j, r, z, keys) /\ UNCHANGED delegation
         \/ ~KeysHold(keys, KeySignature(z), r.ds) /\ Verdict(j, r, "Insecure") /\ UNCHANGED positive
    BY DEF BootKeys
<1>2. /\ JobShape(scene, r) /\ JobRight(scene, stage, rolled, r) /\ scene \in Scene /\ WorldRight
    BY JobFacts, SceneFacts DEF JobInv, RightInv
<1>3. /\ z \in {T, L} /\ Len(z) <= scene.cut /\ (scene.kind = "roll" => z = T) /\ z \in Zone
    <2>1. z \in {T, L} /\ Len(z) <= scene.cut /\ (scene.kind = "roll" => z = T)
        BY <1>1, <1>2, BootZoneRight
    <2> QED
        BY <2>1 DEF Zone
<1>4. KeysRight(scene, stage, z, keys)
    BY <1>2, <1>3, PublishedKeysRight
<1> HIDE DEF keys
<1>5. CASE put_positive(z, keys, None) /\ Booted(j, r, z, keys) /\ UNCHANGED delegation
    <2>1. PositiveRight'
        BY <1>1, <1>3, <1>4, <1>5, PutRight
    <2> QED
        BY <1>1, <1>4, <1>5, <2>1, BootedRight
<1>6. CASE ~KeysHold(keys, KeySignature(z), r.ds) /\ Verdict(j, r, "Insecure") /\ UNCHANGED positive
    <2> HIDE DEF r
    <2>1. /\ r.lossy \in BOOLEAN /\ r.fresh \in BOOLEAN /\ WalkRight(scene, stage, rolled, r)
          /\ DsRight(scene, z, r.ds)
        BY <1>1, <1>2 DEF JobRight, Looked, BootRight
    <2>2. Deserved(scene) = "Insecure"
        <3>1. CASE r.ds = {}
            BY <2>1, <3>1 DEF DsRight, Faulty, Deserved
        <3>2. CASE r.ds # {}
            <4>1. SigRight(scene, z, KeySignature(z))
                BY <1>2, <1>3, PublishedRight
            <4>2. scene.zone = z /\ scene.kind \in LinkFaults \ {"dsMissing"}
                BY <1>3, <1>4, <1>6, <2>1, <3>2, <4>1, KeysOutcome
            <4> QED
                BY <1>3, <4>2, FaultIsInsecure
        <3> QED
            BY <3>1, <3>2
    <2>3. Fits(scene, "Insecure", r.lossy, r.fresh)
        BY <2>2 DEF Fits
    <2> QED
        BY <1>1, <1>6, <2>1, <2>3, VerdictRight
<1> QED
    BY <1>1, <1>5, <1>6

-----------------------------------------------------------------------------
\* The verdict on the answer, once every step has verified.
LEMMA AnswerFits ==
    ASSUME ValInv, RightInv, NEW r, JobInv(scene, r), JobRight(scene, stage, rolled, r), r.pc = "loop",
           ~r.lossy, r.ans = None \/ r.ans[1] \in DOMAIN r.chain
    PROVE  Fits(scene, AnswerVerdict(r), r.lossy, r.fresh)
<1> SUFFICES ASSUME scene.kind # "revoke", scene.kind = "roll" => r.fresh
             PROVE  AnswerVerdict(r) = Deserved(scene)
    BY DEF Fits
<1>1. /\ WalkRight(scene, stage, rolled, r) /\ ChainRight(scene, stage, r) /\ JobShape(scene, r)
      /\ scene.kind # "noAnchor"
    BY DEF JobRight, JobInv, Looked
<1>2. /\ scene.kind \in LinkFaults \cup {"none", "answerUnsigned", "answerMissigned", "roll"}
      /\ scene.zone \in {None, T, L} /\ (scene.kind \in LinkFaults => scene.zone # None)
    BY <1>1, ValidatorAssumption, SceneFacts
<1>3. L \in Zone /\ 0 \in Nat /\ 1 \in Nat /\ 2 \in Nat /\ 0 # 1
    BY SMTT(30) DEF Zone
<1>4. /\ <<L, 0>> # None /\ <<L, 0>>[2] = 0 /\ <<L, 1>> # None /\ <<L, 1>>[2] = 1 /\ <<L, 2>> # None
    BY <1>3, SignatureFacts
<1>5. scene.kind = "roll" => r.ans # None
    <2>1. ASSUME scene.kind = "roll" PROVE r.ans # None
        <3>1. PICK m \in 0 .. 4 : SeenAt(stage, rolled, r, m)
            BY <1>1, <2>1 DEF WalkRight
        <3>2. r.ans = <<L, 1>> \/ r.ans = <<L, 2>>
            BY <3>1 DEF SeenAt
        <3> QED
            BY <1>4, <3>2
    <2> QED
        BY <2>1
<1>6. CASE r.ans = None
    <2>1. scene.kind = "answerUnsigned"
        BY <1>1, <1>4, <1>5, <1>6 DEF WalkRight, AnsRight
    <2> QED
        BY <1>6, <2>1 DEF AnswerVerdict, Deserved
<1>7. CASE r.ans # None
    <2>1. r.ans[1] = L /\ L \in DOMAIN r.chain
        BY <1>1, <1>7 DEF JobShape
    <2>2. closest_trusted_keys(r.chain, L) = r.chain[L]
        BY <1>1, <2>1, ClosestKeys DEF ChainRight
    <2>3. AnswerVerdict(r) = IF r.ans \in r.chain[L] THEN "Secure" ELSE "Bogus"
        BY <1>7, <2>1, <2>2 DEF AnswerVerdict
    <2>4. scene.kind \notin LinkFaults
        <3>1. ASSUME scene.kind \in LinkFaults PROVE FALSE
            <4>1. L \in ProvenIn(scene)
                BY <2>1, <3>1 DEF JobInv, JobProven
            <4> QED
                BY <1>2, <3>1, <4>1, ZoneFacts DEF ProvenIn
        <3> QED
            BY <3>1
    <2>5. scene.kind \in {"none", "answerMissigned", "roll"}
        BY <1>1, <1>2, <1>7, <2>4 DEF WalkRight, AnsRight
    <2>6. CASE scene.kind = "roll"
        BY <1>1, <2>1, <2>3, <2>6 DEF ChainRight, Deserved
    <2>7. CASE scene.kind # "roll"
        <3>1. ~Faulty(scene, "keysMissing", L)
            BY <2>5 DEF Faulty
        <3>2. r.chain[L] = Keys(L, {1})
            BY <1>1, <2>1, <2>7, <3>1, ZoneFacts DEF ChainRight, KeysRight
        <3>3. <<L, 1>> \in r.chain[L]
            BY <3>2 DEF Keys
        <3>4. <<L, 0>> # <<L, 1>>
            BY <1>3, <1>4
        <3>5. <<L, 0>> \notin r.chain[L]
            BY <3>2, <3>4 DEF Keys
        <3>6. r.ans = IF scene.kind = "answerMissigned" THEN <<L, 0>> ELSE <<L, 1>>
            BY <1>1, <2>5, <2>7 DEF WalkRight, AnsRight
        <3>7. CASE scene.kind = "none"
            BY <2>3, <3>3, <3>6, <3>7 DEF Deserved
        <3>8. CASE scene.kind = "answerMissigned"
            BY <2>3, <2>4, <3>5, <3>6, <3>8 DEF Deserved
        <3> QED
            BY <2>5, <2>7, <3>7, <3>8
    <2> QED
        BY <2>6, <2>7
<1> QED
    BY <1>6, <1>7

\* The answer is judged, or its signer is bootstrapped first.
LEMMA AnswerRight ==
    ASSUME ValInv, RightInv, NEW j \in Job, Answer(j)
    PROVE  RightInv'
<1> DEFINE r == job[j]
           b == [r EXCEPT !.pc = "boot", !.boot = r.ans[1]]
<1>1. /\ r.pc = "loop" /\ r.i > Len(r.steps) /\ UNCHANGED World /\ UNCHANGED positive
      /\ \/ r.ans # None /\ r.ans[1] \notin DOMAIN r.chain /\ Go(j, b) /\ UNCHANGED delegation
         \/ (r.ans = None \/ r.ans[1] \in DOMAIN r.chain) /\ Verdict(j, r, AnswerVerdict(r))
    BY DEF Answer
<1>2. JobInv(scene, r) /\ JobShape(scene, r) /\ JobRight(scene, stage, rolled, r) /\ scene.cut \in 0 .. 2
    BY JobFacts, SceneFacts DEF JobInv
<1> HIDE DEF r
<1>3. /\ r.lossy \in BOOLEAN /\ r.fresh \in BOOLEAN /\ WalkRight(scene, stage, rolled, r)
      /\ ChainRight(scene, stage, r) /\ LoopRight(scene, stage, r)
    BY <1>1, <1>2 DEF JobRight, Looked
<1>4. \A k \in DOMAIN r.steps : k < r.i /\ ~(r.i <= k)
    <2>1. DOMAIN r.steps = 1 .. Len(r.steps) /\ Len(r.steps) \in 0 .. 2 /\ r.i \in Nat
        BY <1>1, <1>2, StepFacts DEF JobShape
    <2> QED
        BY <1>1, <2>1, SMTT(30)
<1>5. CASE r.ans # None /\ r.ans[1] \notin DOMAIN r.chain /\ Go(j, b) /\ UNCHANGED delegation
    <2>1. r.ans[1] = L
        BY <1>2, <1>5 DEF JobShape
    <2>2. \A k \in DOMAIN r.steps : r.steps[k].zone # L
        BY <1>3, <1>4, <1>5, <2>1 DEF ChainRight
    <2>3. scene.cut = 2
        <3>1. ASSUME scene.cut = 0 PROVE FALSE
            <4>1. /\ DOMAIN r.steps = 1 .. Len(r.steps) /\ Len(r.steps) = 2
                  /\ \A k \in DOMAIN r.steps : r.steps[k].zone = T => k = 1
                  /\ \A k \in DOMAIN r.steps : r.steps[k].zone \in {T, L}
                BY <1>1, <1>2, <3>1, StepFacts
            <4>2. 2 \in DOMAIN r.steps /\ 2 # 1
                BY <4>1, SMTT(30)
            <4> QED
                BY <2>2, <4>1, <4>2
        <3>2. ASSUME scene.cut = 1 PROVE FALSE
            <4>1. DOMAIN r.steps = 1 .. Len(r.steps) /\ Len(r.steps) = 1 /\ r.steps[1].zone = L
                BY <1>1, <1>2, <3>2, StepFacts
            <4>2. 1 \in DOMAIN r.steps
                BY <4>1, SMTT(30)
            <4> QED
                BY <2>2, <4>1, <4>2
        <3> QED
            BY <1>2, <3>1, <3>2, SMTT(30)
    <2>4. Len(L) <= scene.cut
        BY <2>3, ZoneFacts, SMTT(30)
    <2>5. JobRight(scene, stage, rolled, b)
        BY <1>1, <1>2, <1>5, <2>1, <2>4, BootStartsRight
    <2> QED
        BY <1>1, <1>5, <2>5, CachesKept, GoRight
<1>6. CASE (r.ans = None \/ r.ans[1] \in DOMAIN r.chain) /\ Verdict(j, r, AnswerVerdict(r))
    <2>1. ~r.lossy
        BY <1>3, <1>4 DEF LoopRight
    <2>2. Fits(scene, AnswerVerdict(r), r.lossy, r.fresh)
        BY <1>1, <1>2, <1>6, <2>1, AnswerFits
    <2> QED
        BY <1>1, <1>3, <1>6, <2>2, VerdictRight
<1> HIDE DEF b
<1> QED
    BY <1>1, <1>5, <1>6

-----------------------------------------------------------------------------
\* Keys that may be seen may still be seen after the next change of a rollover.
LEMMA KeysStayRight ==
    ASSUME NEW s, NEW g, g # 4, NEW h, NEW z, NEW keys, KeysRight(s, g, z, keys)
    PROVE  KeysRight(s, h, z, keys)
    BY DEF KeysRight

\* A validation under way sees at most one change of a rollover.
LEMMA JobStaysRight ==
    ASSUME NEW s, s.kind = "roll", NEW g \in 0 .. 3, NEW o, NEW t, o # t, NEW r, JobRight(s, g, o, r),
           r.pc \in {"idle", "done"} \/ r.began = t
    PROVE  JobRight(s, g + 1, t, r)
<1>1. g # 4 /\ \A m \in 0 .. 4 : g = m => g + 1 = m + 1
    BY SMTT(30)
<1>2. ASSUME r.pc \notin {"idle", "done"}
      PROVE  WalkRight(s, g + 1, t, r)
    <2>1. WalkRight(s, g, o, r) /\ r.began = t
        BY <1>2 DEF JobRight
    <2>2. ASSUME NEW m \in 0 .. 4, SeenAt(g, o, r, m)
          PROVE  SeenAt(g + 1, t, r, m)
        BY <1>1, <2>1, <2>2 DEF SeenAt
    <2> QED
        BY <2>1, <2>2 DEF WalkRight
<1>3. ChainRight(s, g, r) => ChainRight(s, g + 1, r)
    BY <1>1, KeysStayRight DEF ChainRight
<1>4. LoopRight(s, g, r) => LoopRight(s, g + 1, r)
    <2>1. \A k \in DOMAIN r.got : GotRight(s, g, r, k) => GotRight(s, g + 1, r, k)
        BY <1>1, KeysStayRight DEF GotRight
    <2> QED
        BY <2>1 DEF LoopRight
<1> QED
    BY <1>2, <1>3, <1>4 DEF JobRight

\* L publishes the next stage of its rollover.
LEMMA RollKeyRight ==
    ASSUME ValInv, RightInv, RollKey
    PROVE  RightInv'
<1>1. /\ scene.kind = "roll" /\ stage < 4 /\ rolled # now /\ stage' = stage + 1 /\ rolled' = now
      /\ \A j \in Job : job[j].pc \in {"idle", "done"} \/ job[j].began = now
      /\ UNCHANGED <<scene, ksk, anchors, positive, delegation, job>>
    BY DEF RollKey, Caches
<1>2. stage \in 0 .. 3 /\ stage' \in 0 .. 4 /\ stage # 4
    BY <1>1, SMTT(30) DEF RightInv, WorldRight
<1>3. WorldRight'
    BY <1>1, <1>2 DEF RightInv, WorldRight
<1>4. PositiveRight'
    BY <1>1, <1>2, KeysStayRight DEF RightInv, PositiveRight
<1>5. DelegationRight'
    BY <1>1 DEF RightInv, DelegationRight
<1>6. \A j \in Job : JobRight(scene, stage + 1, now, job[j])
    BY <1>1, <1>2, JobStaysRight DEF RightInv
<1> QED
    BY <1>1, <1>3, <1>4, <1>5, <1>6 DEF RightInv

\* The root takes another KSK, the anchors are replaced, or time passes.
LEMMA WorldStepRight ==
    ASSUME RightInv, RollRoot \/ ReplaceAnchor \/ Tick \/ UNCHANGED vars
    PROVE  RightInv'
<1>1. /\ UNCHANGED <<scene, stage, rolled, positive, delegation, job>>
      /\ scene.kind # "revoke" => UNCHANGED <<ksk, anchors>>
    BY DEF RollRoot, ReplaceAnchor, Tick, Caches, vars
<1>2. WorldRight'
    BY <1>1 DEF RightInv, WorldRight
<1>3. PositiveRight' /\ DelegationRight'
    BY <1>1 DEF RightInv, PositiveRight, DelegationRight
<1> QED
    BY <1>1, <1>2, <1>3 DEF RightInv

\* Nothing is cached or under way at the start.
LEMMA InitRight == Init => RightInv
<1> SUFFICES ASSUME Init PROVE RightInv
    OBVIOUS
<1>1. WorldRight
    <2>1. 0 \in 0 .. 4
        BY SMTT(30)
    <2> QED
        BY <2>1 DEF Init, WorldRight
<1>2. PositiveRight /\ DelegationRight
    <2>1. DOMAIN positive = {} /\ DOMAIN delegation = {}
        BY SMTT(30) DEF Init
    <2> QED
        BY <2>1 DEF PositiveRight, DelegationRight
<1>3. \A j \in Job : JobRight(scene, stage, rolled, job[j])
    <2>1. Idle.pc = "idle" /\ Idle.lossy = FALSE /\ Idle.fresh = TRUE
        BY DEF Idle
    <2>2. \A j \in Job : job[j] = Idle
        BY DEF Init
    <2> QED
        BY <2>1, <2>2 DEF JobRight, Looked
<1> QED
    BY <1>1, <1>2, <1>3 DEF RightInv

\* Every step of a validation, of the zones and of the clock keeps RightInv.
LEMMA NextRight == ValInv /\ RightInv /\ [Next]_vars => RightInv'
<1> SUFFICES ASSUME ValInv, RightInv, [Next]_vars PROVE RightInv'
    OBVIOUS
<1>1. ASSUME NEW j \in Job, WalkChain(j) PROVE RightInv'
    BY <1>1, WalkChainRight
<1>2. ASSUME NEW j \in Job, Step(j) PROVE RightInv'
    <2>1. CASE Splice(j)
        BY <1>2, <2>1, SpliceRight
    <2>2. CASE RootKeys(j)
        BY <1>2, <2>2, RootKeysRight
    <2>3. CASE RootLost(j)
        BY <1>2, <2>3, LostRight DEF RootLost
    <2>4. CASE Lookup(j)
        BY <1>2, <2>4, LookupRight
    <2>5. ASSUME NEW i \in 1 .. 2, Fetched(j, i) PROVE RightInv'
        BY <1>2, <2>5, FetchedRight
    <2>6. ASSUME NEW i \in 1 .. 2, FetchLost(j, i) PROVE RightInv'
        BY <1>2, <2>6, FetchLostRight
    <2>7. CASE VerifyStep(j)
        BY <1>2, <2>7, VerifyStepRight
    <2>8. CASE BootCached(j)
        BY <1>2, <2>8, BootCachedRight
    <2>9. CASE BootDs(j)
        BY <1>2, <2>9, BootDsRight
    <2>10. CASE BootKeys(j)
        BY <1>2, <2>10, BootKeysRight
    <2>11. CASE BootLost(j)
        <3>1. job[j].pc \notin {"idle", "done"}
            BY <2>11 DEF BootLost
        <3> QED
            BY <1>2, <2>11, <3>1, LostRight DEF BootLost
    <2>12. CASE Answer(j)
        BY <1>2, <2>12, AnswerRight
    <2> QED
        BY <1>2, <2>1, <2>2, <2>3, <2>4, <2>5, <2>6, <2>7, <2>8, <2>9, <2>10, <2>11, <2>12 DEF Step
<1>3. CASE RollKey
    BY <1>3, RollKeyRight
<1>4. CASE RollRoot \/ ReplaceAnchor \/ Tick \/ UNCHANGED vars
    BY <1>4, WorldStepRight
<1> QED
    BY <1>1, <1>2, <1>3, <1>4 DEF Next

\* Whatever the caches hold, however the validations interleave and whichever
\* queries are lost, the verdict of validate_walk is the one the zones' signatures
\* deserve, and a walk from the root is Secure at every stage of a key rollover.
THEOREM VerdictIsDeserved == Spec => []VerdictIsRight
<1>1. ValInv /\ RightInv => VerdictIsRight
    <2> SUFFICES ASSUME ValInv, RightInv, NEW j \in Job, job[j].pc = "done"
                 PROVE  /\ ~job[j].lossy /\ scene.kind \notin {"roll", "revoke"}
                             => job[j].verdict = Expected
                        /\ job[j].lossy => job[j].verdict # "Secure"
                        /\ ~job[j].lossy /\ scene.kind = "roll" /\ job[j].fresh
                             => job[j].verdict = "Secure"
        BY DEF VerdictIsRight
    <2>1. Fits(scene, job[j].verdict, job[j].lossy, job[j].fresh)
        BY DEF RightInv, JobRight
    <2>2. scene.kind \notin {"roll", "revoke"} => Deserved(scene) = Expected
        BY SceneFacts DEF Deserved, Expected, Skipped, LinkFaults
    <2>3. scene.kind = "roll" => Deserved(scene) = "Secure"
        BY DEF Deserved
    <2> QED
        BY <2>1, <2>2, <2>3 DEF Fits
<1> QED
    BY <1>1, InitRight, NextRight, ValidatorInvariant, PTL DEF Spec
===========================================================================
