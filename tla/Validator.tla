------------------------------ MODULE Validator ------------------------------
(***************************************************************************)
(* Chain validation: Validator::validate_walk of src/recursor/dnssec.rs    *)
(* with its DNSKEY cache, and the delegation cache of                      *)
(* src/recursor/iterative.rs that shortens the next walk.                  *)
(*                                                                         *)
(* Two delegations lie between the root and the name asked for: T below    *)
(* the root and L below T.  A key is <<zone, version>>, a signature is the *)
(* key that made it, a DS RRset is the set of key versions it covers.      *)
(* Replies are what the zones publish at that moment, or are lost; a zone  *)
(* may be badly signed (`scene`), or L may roll its key (`stage`).  One    *)
(* reply never mixes the data of two publishers.                           *)
(*                                                                         *)
(* Validations run concurrently on the runtime's threads and meet in the   *)
(* two caches.  A time unit is an hour or more: a validation, whose every  *)
(* query has a timeout of seconds, sees at most one tick.                  *)
(***************************************************************************)
EXTENDS Naturals, Sequences, FiniteSets, Functions

CONSTANTS
    Job,            \* concurrent resolve_validate_cache calls
    Scene,          \* scenarios: records [kind, zone, cut, loss, ticks, runs] of
                    \* what is wrong and where, how many delegations the root's
                    \* servers skip, whether queries get lost, and the bounds on
                    \* ticks and validations
    KeyTtl,         \* the TTL of the DNSKEY RRsets
    DsTtl,          \* zone -> the smallest TTL of its DS records
    NEGATIVE_TTL, MIN_POSITIVE_TTL, MAX_POSITIVE_TTL,
    POSITIVE_CACHE_CAP, NEGATIVE_CACHE_CAP,
    DELEGATION_CACHE_TTL_CAP,
    None

Root == << >>
T == <<"t">>
L == <<"t", "l">>
Zone == {Root, T, L}
Parent(z) == SubSeq(z, 1, Len(z) - 1)
Ancestry(z) == {SubSeq(z, 1, n) : n \in 0 .. Len(z)}    \* z and the zones above it
Late == 9       \* in place of a version: the signature is outside its time

(* The ways in which one link, a DS RRset with the DNSKEY RRset it covers,  *)
(* does not verify.                                                         *)
LinkFaults == {"dsMissing", "dsWrong", "dsUnsigned", "dsExpired", "dsMissigned",
               "keysMissing", "keysUnsigned", "keysExpired", "keysMissigned"}

(* A rollover is followed where the walk meets the delegation of L: below a *)
(* skipped one, bootstrapping uses cached keys for as long as they live.    *)
ASSUME ValidatorAssumption ==
    /\ \A s \in Scene :
          /\ s.kind \in LinkFaults \cup {"none", "noAnchor", "answerUnsigned",
                                        "answerMissigned", "roll", "revoke"}
          /\ s.zone \in {None, T, L}
          /\ s.cut \in 0 .. 2
          /\ s.kind \in LinkFaults => s.zone # None
          /\ s.kind = "roll" => s.cut < 2
    /\ {KeyTtl, MIN_POSITIVE_TTL, MAX_POSITIVE_TTL} \subseteq Nat
    /\ DsTtl \in [{T, L} -> Nat]
    /\ None \notin Nat \cup Zone \cup (Zone \X Nat)

VARIABLES
    scene,      \* the scenario of this behaviour
    stage,      \* how far L is in its key rollover, 0 .. 4
    rolled,     \* the tick of the last stage
    ksk,        \* the KSK that signs the root's DNSKEY RRset, 1 or later 2
    revoked,    \* when anchor 1 was dropped from the anchors, or None
    now,
    anchors,    \* the TrustAnchorSwap
    positive,   \* DnskeyCache.positive: zone -> entry
    negative,   \* DnskeyCache.negative: zone -> expiry
    delegation, \* DelegationCache: zone -> entry
    job,        \* the validations
    runs        \* validations started

vars == <<scene, stage, rolled, ksk, revoked, now, anchors, positive, negative,
          delegation, job, runs>>

Is(kind, z) == scene.kind = kind /\ scene.zone = z
Without(f, S) == [x \in DOMAIN f \ S |-> f[x]]
With(f, x, v) == [y \in DOMAIN f \cup {x} |-> IF y = x THEN v ELSE f[y]]
Lesser(a, b) == IF a < b THEN a ELSE b

Idle == [pc |-> "idle", steps |-> << >>, ans |-> None, trust |-> {}, chain |-> << >>,
         got |-> << >>, i |-> 1, boot |-> None, ds |-> None, valid |-> {},
         verdict |-> "none", lossy |-> FALSE, fresh |-> TRUE, began |-> 0]

Init ==
    /\ scene \in Scene
    /\ stage = 0
    /\ rolled = None
    /\ ksk = 1
    /\ revoked = None
    /\ now = 0
    /\ anchors = CASE scene.kind = "noAnchor" -> {}
                   [] scene.kind = "revoke" -> {1, 2}
                   [] OTHER -> {1}
    /\ positive = << >>
    /\ negative = << >>
    /\ delegation = << >>
    /\ job = [j \in Job |-> Idle]
    /\ runs = 0
-----------------------------------------------------------------------------
(* What the zones publish now.  The root has two KSKs, 1 and 2, and a ZSK, 3. *)
Signing(z) == CASE z = Root -> 3
                [] z = L /\ stage >= 3 -> 2
                [] OTHER -> 1

PublishedKeys(z) == CASE z = Root -> {1, 2, 3}
                      [] Is("keysMissing", z) -> {}
                      [] z = L /\ stage \in 1 .. 3 -> {1, 2}
                      [] z = L /\ stage = 4 -> {2}
                      [] OTHER -> {1}

KeySignature(z) == CASE Is("keysUnsigned", z) -> None
                     [] Is("keysExpired", z) -> <<z, Late>>
                     [] Is("keysMissigned", z) -> <<z, 0>>
                     [] z = Root -> <<z, ksk>>
                     [] OTHER -> <<z, Signing(z)>>

PublishedDs(z) == CASE Is("dsMissing", z) -> {}
                    [] Is("dsWrong", z) -> {0}
                    [] z = L /\ stage >= 2 -> {2}
                    [] OTHER -> {1}

DsSignature(z) == CASE Is("dsMissing", z) \/ Is("dsUnsigned", z) -> None
                    [] Is("dsExpired", z) -> <<Parent(z), Late>>
                    [] Is("dsMissigned", z) -> <<Parent(z), 0>>
                    [] OTHER -> <<Parent(z), Signing(Parent(z))>>

AnswerSignature == CASE scene.kind = "answerUnsigned" -> None
                     [] scene.kind = "answerMissigned" -> <<L, 0>>
                     [] OTHER -> <<L, Signing(L)>>

Keys(z, versions) == {<<z, v>> : v \in versions}
Covers(ds, keys) == \E k \in keys : k[2] \in ds
Expired(sig) == sig[2] = Late
-----------------------------------------------------------------------------
(* DnskeyCache and DelegationCache. *)
Live(map, z) == z \in DOMAIN map /\ map[z].expiry > now

(* evict, when the map is full: everything stale, or else any one entry. *)
Evict(map, cap, z) ==
    LET stale == {y \in DOMAIN map : map[y].expiry <= now}
    IN  IF Cardinality(DOMAIN map) < cap \/ z \in DOMAIN map THEN {map}
        ELSE IF stale # {} THEN {Without(map, stale)}
        ELSE {Without(map, {y}) : y \in DOMAIN map}

(* Mutant: the TTL of the RRset is used as it is. *)
Clamp_None(ttl) == ttl

(* The clamp of put_positive. *)
Clamp(ttl) == Lesser(IF ttl < MIN_POSITIVE_TTL THEN MIN_POSITIVE_TTL ELSE ttl,
                     MAX_POSITIVE_TTL)

put_positive(z, keys, by) ==
    \E map \in Evict(positive, POSITIVE_CACHE_CAP, z) :
        positive' = With(map, z, [keys |-> keys, expiry |-> now + Clamp(KeyTtl), by |-> by])

put_negative(z) ==
    \E map \in Evict(negative, NEGATIVE_CACHE_CAP, z) :
        negative' = With(map, z, [expiry |-> now + NEGATIVE_TTL])

(* DelegationCache::insert, for the validated steps of a walk. *)
Insertable(steps, valid) ==
    {s \in Range(steps) : s.zone \in valid /\ s.ds # {} /\ DsTtl[s.zone] > 0}

(* Mutant: every step of the walk is stored, validated or not. *)
cache_validated_delegations_All(steps, valid) ==
    delegation' = [z \in DOMAIN delegation \cup {s.zone : s \in Range(steps)} |->
        IF \E s \in Range(steps) : s.zone = z
          THEN [step |-> CHOOSE s \in Range(steps) : s.zone = z,
                expiry |-> now + Lesser(DsTtl[z], DELEGATION_CACHE_TTL_CAP)]
          ELSE delegation[z]]

cache_validated_delegations(steps, valid) ==
    LET new == Insertable(steps, valid)
    IN  delegation' = [z \in DOMAIN delegation \cup {s.zone : s \in new} |->
            IF \E s \in new : s.zone = z
              THEN [step |-> CHOOSE s \in new : s.zone = z,
                    expiry |-> now + Lesser(DsTtl[z], DELEGATION_CACHE_TTL_CAP)]
              ELSE delegation[z]]

(* closest_trusted_keys: of the deepest zone at or above z. *)
closest_trusted_keys(chain, z) ==
    LET above == {y \in DOMAIN chain : y \in Ancestry(z)}
    IN  IF above = {} THEN {}
        ELSE chain[CHOOSE y \in above : \A x \in above : Len(x) <= Len(y)]

Trust(chain, z, keys) == With(chain, z, keys)
-----------------------------------------------------------------------------
Go(j, r) == job' = [job EXCEPT ![j] = r]
World == <<scene, stage, rolled, ksk, revoked, now, anchors>>
Caches == <<positive, negative, delegation>>

(* Mutant: the closest cached delegation alone, as on the plaintext path. *)
cached_delegation_start_Closest ==
    CASE Live(delegation, L) -> <<delegation[L].step>>
      [] ~Live(delegation, L) /\ Live(delegation, T) -> <<delegation[T].step>>
      [] OTHER -> << >>

(* cached_delegation_start: the longest cached run of ancestors from the    *)
(* shallowest down.                                                         *)
cached_delegation_start ==
    IF ~Live(delegation, T) THEN << >>
    ELSE IF ~Live(delegation, L) THEN <<delegation[T].step>>
    ELSE <<delegation[T].step, delegation[L].step>>

FreshStep(z) == [zone |-> z, ds |-> PublishedDs(z), sig |-> DsSignature(z)]

(* resolve_with_chain: the walk that precedes validation. *)
WalkChain(j) ==
    LET pre == cached_delegation_start
        full == <<FreshStep(T), FreshStep(L)>>
        skip == IF pre = << >> THEN scene.cut ELSE Len(pre[Len(pre)].zone)
        rest == SubSeq(full, skip + 1, 2)
    IN  /\ job[j].pc \in {"idle", "done"}
        /\ runs < scene.runs
        /\ runs' = runs + 1
        /\ Go(j, [Idle EXCEPT !.pc = "splice", !.steps = pre \o rest,
                              !.ans = AnswerSignature, !.began = now,
                              !.fresh = (pre = << >>)])
        /\ UNCHANGED <<World, Caches>>

(* The end of validate_walk and what resolve_validate_cache does with the   *)
(* result: the validated steps are stored whatever the verdict.             *)
Verdict(j, r, v) ==
    /\ Go(j, [Idle EXCEPT !.pc = "done", !.verdict = v, !.lossy = r.lossy,
                          !.fresh = r.fresh])
    /\ cache_validated_delegations(r.steps, r.valid)

(* The anchor snapshot and the cached half of splice_in_zone_dnskey. *)
Splice(j) ==
    LET r == [job[j] EXCEPT !.trust = anchors]
    IN  /\ job[j].pc = "splice"
        /\ \/ /\ anchors = {}
              /\ Verdict(j, r, "Insecure")
           \/ /\ anchors # {}
              /\ Go(j, IF Live(positive, Root)
                         THEN [r EXCEPT !.chain = Trust(<< >>, Root, positive[Root].keys),
                                        !.pc = "lookup"]
                         ELSE [r EXCEPT !.pc = "root"])
              /\ UNCHANGED delegation
        /\ UNCHANGED <<World, positive, negative, runs>>

(* The fetched half: the root's DNSKEY RRset must verify under an anchor. *)
RootKeys(j) ==
    LET sig == KeySignature(Root)
        keys == Keys(Root, PublishedKeys(Root))
    IN  /\ job[j].pc = "root"
        /\ \/ /\ sig[2] \in job[j].trust
              /\ put_positive(Root, keys, sig[2])
              /\ Go(j, [job[j] EXCEPT !.chain = Trust(<< >>, Root, keys),
                                      !.pc = "lookup"])
              /\ UNCHANGED delegation
           \/ /\ sig[2] \notin job[j].trust
              /\ Verdict(j, job[j], "Bogus")
              /\ UNCHANGED positive
        /\ UNCHANGED <<World, negative, runs>>

RootLost(j) ==
    /\ scene.loss
    /\ job[j].pc = "root"
    /\ Verdict(j, [job[j] EXCEPT !.lossy = TRUE], "Bogus")
    /\ UNCHANGED <<World, positive, negative, runs>>

(* Mutant: cached keys are used without a look at the referral's DS. *)
CachedFor_NoDs(s) == Live(positive, s.zone)

(* prefetch_step_dnskeys: cached keys count only if the DS covers one. *)
CachedFor(s) == Live(positive, s.zone) /\ Covers(s.ds, positive[s.zone].keys)

Lookup(j) ==
    LET r == job[j]
        got == [i \in DOMAIN r.steps |->
                  CASE CachedFor(r.steps[i]) ->
                         [st |-> "cached", keys |-> positive[r.steps[i].zone].keys, sig |-> None]
                    [] ~CachedFor(r.steps[i]) /\ Live(negative, r.steps[i].zone) ->
                         [st |-> "insecure", keys |-> {}, sig |-> None]
                    [] OTHER -> [st |-> "wait", keys |-> {}, sig |-> None]]
        wrong == {s.zone : s \in {s \in Range(r.steps) :
                                    Live(positive, s.zone) /\ ~CachedFor(s)}}
    IN  /\ r.pc = "lookup"
        /\ positive' = Without(positive, wrong)
        /\ Go(j, [r EXCEPT !.got = got, !.pc = "loop",
                           !.lossy = @ \/ \E i \in DOMAIN got : got[i].st = "insecure"])
        /\ UNCHANGED <<World, negative, delegation, runs>>

(* One of the concurrent DNSKEY fetches returns, or fails within its 5 s. *)
Fetched(j, i) ==
    LET z == job[j].steps[i].zone
    IN  /\ job[j].pc = "loop"
        /\ i \in DOMAIN job[j].got /\ job[j].got[i].st = "wait"
        /\ Go(j, [job[j] EXCEPT !.got[i] = [st |-> "fetched", sig |-> KeySignature(z),
                                            keys |-> Keys(z, PublishedKeys(z))]])
        /\ UNCHANGED <<World, Caches, runs>>

FetchLost(j, i) ==
    /\ scene.loss
    /\ job[j].pc = "loop"
    /\ i \in DOMAIN job[j].got /\ job[j].got[i].st = "wait"
    /\ put_negative(job[j].steps[i].zone)
    /\ Go(j, [job[j] EXCEPT !.got[i].st = "lost", !.lossy = TRUE])
    /\ UNCHANGED <<World, positive, delegation, runs>>

(* A fetched DNSKEY RRset: present, signed by one of its own keys within    *)
(* the signature's time, and with a key that the DS covers.                 *)
KeysHold(keys, sig, ds) ==
    /\ keys # {}
    /\ sig # None /\ ~Expired(sig)
    /\ sig \in keys
    /\ Covers(ds, keys)

(* The DS RRset of a delegation under the parent's keys. *)
DsHolds(sig, parents) == sig # None /\ ~Expired(sig) /\ sig \in parents

(* One turn of the loop of validate_walk. *)
VerifyStep(j) ==
    LET r == job[j]
        s == r.steps[r.i]
        g == r.got[r.i]
        parents == closest_trusted_keys(r.chain, s.zone)
        next == [r EXCEPT !.chain = Trust(@, s.zone, g.keys),
                          !.valid = @ \cup {s.zone}, !.i = @ + 1]
        unknown == s.sig # None /\ s.sig[1] \notin DOMAIN r.chain
    IN  /\ r.pc = "loop"
        /\ \A i \in DOMAIN r.got : r.got[i].st # "wait"
        /\ r.i <= Len(r.steps)
        /\ \/ /\ unknown
              /\ Go(j, [r EXCEPT !.pc = "boot", !.boot = s.sig[1]])
              /\ UNCHANGED <<positive, delegation>>
           \/ /\ ~unknown
              /\ \/ /\ s.ds = {}
                    /\ Verdict(j, r, "Insecure")
                    /\ UNCHANGED positive
                 \/ /\ s.ds # {} /\ ~DsHolds(s.sig, parents)
                    /\ Verdict(j, r, "Bogus")
                    /\ UNCHANGED positive
                 \/ /\ s.ds # {} /\ DsHolds(s.sig, parents)
                    /\ \/ /\ g.st \in {"insecure", "lost"}
                          /\ Verdict(j, r, "Insecure")
                          /\ UNCHANGED positive
                       \/ /\ g.st = "cached"
                          /\ Go(j, next)
                          /\ UNCHANGED <<positive, delegation>>
                       \/ /\ g.st = "fetched" /\ ~KeysHold(g.keys, g.sig, s.ds)
                          /\ Verdict(j, r, "Bogus")
                          /\ UNCHANGED positive
                       \/ /\ g.st = "fetched" /\ KeysHold(g.keys, g.sig, s.ds)
                          /\ put_positive(s.zone, g.keys, None)
                          /\ Go(j, next)
                          /\ UNCHANGED delegation
        /\ UNCHANGED <<World, negative, runs>>
-----------------------------------------------------------------------------
(* bootstrap_intermediate_zone: the zones above and at the target that have *)
(* no keys yet, from the shallowest down.                                   *)
BootZone(r) == LET missing == {z \in Ancestry(r.boot) : z \notin DOMAIN r.chain}
               IN  CHOOSE z \in missing : \A y \in missing : Len(z) <= Len(y)

Booted(j, r, z, keys) ==
    LET chain == Trust(r.chain, z, keys)
    IN  Go(j, IF z = r.boot
                THEN [r EXCEPT !.chain = chain, !.pc = "loop", !.boot = None, !.ds = None]
                ELSE [r EXCEPT !.chain = chain, !.pc = "boot", !.ds = None])

BootCached(j) ==
    LET z == BootZone(job[j])
    IN  /\ job[j].pc = "boot"
        /\ Live(positive, z)
        /\ Booted(j, job[j], z, positive[z].keys)
        /\ UNCHANGED <<World, Caches, runs>>

(* The DS query to the root's servers; without a usable DS it is over. *)
BootDs(j) ==
    LET r == job[j]
        z == BootZone(r)
        holds == /\ PublishedDs(z) # {}
                 /\ DsHolds(DsSignature(z), closest_trusted_keys(r.chain, z))
    IN  /\ r.pc = "boot"
        /\ ~Live(positive, z)
        /\ \/ /\ holds
              /\ Go(j, [r EXCEPT !.ds = PublishedDs(z), !.pc = "bootKeys"])
              /\ UNCHANGED delegation
           \/ ~holds /\ Verdict(j, r, "Insecure")
        /\ UNCHANGED <<World, positive, negative, runs>>

BootKeys(j) ==
    LET r == job[j]
        z == BootZone(r)
        keys == Keys(z, PublishedKeys(z))
        holds == KeysHold(keys, KeySignature(z), r.ds)
    IN  /\ r.pc = "bootKeys"
        /\ \/ /\ holds
              /\ put_positive(z, keys, None)
              /\ Booted(j, r, z, keys)
              /\ UNCHANGED delegation
           \/ ~holds /\ Verdict(j, r, "Insecure") /\ UNCHANGED positive
        /\ UNCHANGED <<World, negative, runs>>

BootLost(j) ==
    /\ scene.loss
    /\ \/ job[j].pc = "boot" /\ ~Live(positive, BootZone(job[j]))
       \/ job[j].pc = "bootKeys"
    /\ Verdict(j, [job[j] EXCEPT !.lossy = TRUE], "Insecure")
    /\ UNCHANGED <<World, positive, negative, runs>>

(* validate_answer_against_chain, for one RRset. *)
AnswerVerdict(r) ==
    CASE r.ans = None -> "Insecure"
      [] r.ans # None ->
            IF r.ans \in closest_trusted_keys(r.chain, r.ans[1]) THEN "Secure" ELSE "Bogus"

(* Every step has verified: the signer of the answer is bootstrapped if the *)
(* walk never met its zone, and the answer is judged.                       *)
Answer(j) ==
    LET r == job[j]
        unknown == r.ans # None /\ r.ans[1] \notin DOMAIN r.chain
    IN  /\ r.pc = "loop"
        /\ r.i > Len(r.steps)
        /\ \/ /\ unknown
              /\ Go(j, [r EXCEPT !.pc = "boot", !.boot = r.ans[1]])
              /\ UNCHANGED delegation
           \/ ~unknown /\ Verdict(j, r, AnswerVerdict(r))
        /\ UNCHANGED <<World, positive, negative, runs>>
-----------------------------------------------------------------------------
(* L rolls its key: both keys, then the new DS, then the new signatures,    *)
(* then the new key alone; no validation sees two of these changes.         *)
RollKey ==
    /\ scene.kind = "roll"
    /\ stage < 4
    /\ rolled # now
    /\ \A j \in Job : job[j].pc \in {"idle", "done"} \/ job[j].began = now
    /\ stage' = stage + 1
    /\ rolled' = now
    /\ UNCHANGED <<scene, ksk, revoked, now, anchors, Caches, job, runs>>

(* The root signs its keys with KSK 2 from now on. *)
RollRoot ==
    /\ scene.kind = "revoke"
    /\ ksk = 1
    /\ ksk' = 2
    /\ UNCHANGED <<scene, stage, rolled, revoked, now, anchors, Caches, job, runs>>

(* The refresh task of Anchor publishes a set without anchor 1, before or   *)
(* after the root has stopped using it.  A validation that runs keeps the   *)
(* set it took.                                                             *)
ReplaceAnchor ==
    /\ scene.kind = "revoke"
    /\ revoked = None
    /\ revoked' = now
    /\ anchors' = {2}
    /\ UNCHANGED <<scene, stage, rolled, ksk, now, Caches, job, runs>>

Tick ==
    /\ now < scene.ticks
    /\ now' = now + 1
    /\ \A j \in Job : job[j].pc \notin {"idle", "done"} => job[j].began = now
    /\ UNCHANGED <<scene, stage, rolled, ksk, revoked, anchors, Caches, job, runs>>

Step(j) ==
    \/ Splice(j) \/ RootKeys(j) \/ RootLost(j) \/ Lookup(j)
    \/ \E i \in 1 .. 2 : Fetched(j, i) \/ FetchLost(j, i)
    \/ VerifyStep(j) \/ BootCached(j) \/ BootDs(j) \/ BootKeys(j) \/ BootLost(j)
    \/ Answer(j)

Next ==
    \/ \E j \in Job : WalkChain(j) \/ Step(j)
    \/ RollKey \/ RollRoot \/ ReplaceAnchor \/ Tick

Spec == Init /\ [][Next]_vars

-----------------------------------------------------------------------------
(* The verdict the chain deserves, read off the fault: an unsigned          *)
(* delegation or answer is Insecure, a link that does not verify is Bogus,  *)
(* except below a zone the walk skipped, whose bootstrap fails softly.      *)
Skipped(z) == Len(z) <= scene.cut

Expected ==
    CASE scene.kind = "none" -> "Secure"
      [] scene.kind \in {"noAnchor", "answerUnsigned", "dsMissing"} -> "Insecure"
      [] scene.kind = "answerMissigned" -> "Bogus"
      [] scene.kind \in LinkFaults \ {"dsMissing"} ->
            IF Skipped(scene.zone) THEN "Insecure" ELSE "Bogus"

(* Whatever the caches hold and however validations interleave, the verdict *)
(* is the one the zones' signatures deserve; when a DNSKEY or DS query is   *)
(* lost it may be Insecure or Bogus but never Secure.  A key rollover is    *)
(* not seen through stale keys: a walk whose delegations all come from the  *)
(* parents is Secure, for cached keys that the new DS does not cover are    *)
(* dropped and fetched again.                                               *)
VerdictIsRight ==
    \A j \in Job : job[j].pc = "done" =>
        /\ ~job[j].lossy /\ scene.kind \notin {"roll", "revoke"}
             => job[j].verdict = Expected
        /\ job[j].lossy => job[j].verdict # "Secure"
        /\ ~job[j].lossy /\ scene.kind = "roll" /\ job[j].fresh
             => job[j].verdict = "Secure"

(* Only proven links are cached: a zone with a link that does not verify    *)
(* has neither keys in the DNSKEY cache nor a step in the delegation cache, *)
(* and nothing below it has ("a cached step is always a proven trust link").*)
OnlyProvenLinksCached ==
    scene.kind \in LinkFaults =>
        \A z \in DOMAIN positive \cup DOMAIN delegation : scene.zone \notin Ancestry(z)

(* Root keys that only a revoked anchor vouched for are used no longer than *)
(* MAX_POSITIVE_TTL after the last validation that had the old anchors, and *)
(* that one lasts a tick at most: cached root keys are used without a look  *)
(* at the anchors, and a validation under way when the anchor is revoked    *)
(* still stores the keys it vouches for.                                    *)
RevokedAnchorForgotten ==
    revoked # None /\ Live(positive, Root) /\ positive[Root].by = 1
        => now < revoked + 1 + MAX_POSITIVE_TTL

(* A walk that starts at a cached delegation hands the validator the chain  *)
(* a walk from the root would have recorded, with no link left out.         *)
ChainIsComplete ==
    \A j \in Job : job[j].pc \notin {"idle", "done"} =>
        [i \in DOMAIN job[j].steps |-> job[j].steps[i].zone]
            = SubSeq(<<T, L>>, scene.cut + 1, 2)
=============================================================================
