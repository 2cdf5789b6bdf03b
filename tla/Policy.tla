---- MODULE Policy ----
(***************************************************************************)
(* The lifetime of a cached response (recursor/cache.rs).                  *)
(***************************************************************************)
EXTENDS Naturals, FiniteSetsExt

AtMost(a, b) == IF a < b THEN a ELSE b
AtLeast(a, b) == IF a > b THEN a ELSE b

(* Mutant: the answer's longest TTL counts. *)
AnswerTtl_Max(answers) == Max(answers)

(* The conservative reading of RFC 2181.                                   *)
AnswerTtl(answers) == Min(answers)

(* compute_ttl: msg has rcode, the set of answer TTLs, and the SOA MINIMUM *)
(* of the authority section when soa holds; 0 is not cached (put).         *)
compute_ttl(cfg, msg) ==
    CASE msg.rcode \in {"NXDomain", "NoError"} /\ msg.answers = {} ->
            AtLeast(AtMost(IF msg.soa THEN msg.minimum ELSE cfg.negative_ttl,
                           cfg.max_negative_ttl),
                    cfg.min_ttl)
      [] msg.rcode = "NoError" /\ msg.answers # {} ->
            AtLeast(AtMost(AnswerTtl(msg.answers), cfg.max_ttl), cfg.min_ttl)
      [] OTHER -> 0

===========================================================================
