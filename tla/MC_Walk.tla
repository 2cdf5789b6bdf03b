------------------------------ MODULE MC_Walk ------------------------------
(* The walker on five small delegation trees, each with one of the shapes  *)
(* the code has to survive.  IPv6 upstreams are off.                       *)
EXTENDS Walk

MCRoot == << >>
X == <<"x">>
Y == <<"y">>
XA == <<"x", "a">>
XN == <<"x", "n">>
YN == <<"y", "n">>
RN == <<"r">>
MCName == {MCRoot, X, Y, XA, XN, YN, RN}

MCPrivate == {RN}
MCQuestion == {[q |-> XA, ty |-> "A"], [q |-> RN, ty |-> "A"]}

Msg(rc, ans, zone, ns, glue) == [rc |-> rc, ans |-> ans, zone |-> zone, ns |-> ns, glue |-> glue]
NoGlue == [n \in {} |-> {}]
Referral(zone, ns, glue) == Msg("NoError", {}, zone, ns, glue)
Data(n, t, d) == Msg("NoError", {[n |-> n, t |-> t, d |-> d]}, MCRoot, {}, NoGlue)
NxDomain == Msg("NXDomain", {}, MCRoot, {}, NoGlue)
Refused == Msg("Refused", {}, MCRoot, {}, NoGlue)

In(zone, q) == IsPrefix(zone, q)

(* What the root servers say to a priming query: both families, IPv6 only, *)
(* or names without addresses.                                             *)
Priming == {Referral(MCRoot, {RN}, [n \in {RN} |-> ips]) : ips \in {{"r4", "r6"}, {"r6"}}}
             \cup {Referral(MCRoot, {RN}, NoGlue)}

(* x is served by n.x with glue of both families; n.x and a.x exist. *)
XServer(q) == CASE q = XA -> {Data(XA, "A", "c4")}
                [] q = XN -> {Data(XN, "A", "a4")}
                [] OTHER  -> {NxDomain}
GluedX == Referral(X, {XN}, [n \in {XN} |-> {"a4", "a6"}])

Tree(ip, q) ==
    CASE ip = "a4" -> XServer(q)
      [] In(X, q)  -> {GluedX}
      [] OTHER     -> {NxDomain}

(* The name server of x is in y and that of y in x, both without glue. *)
Circle(ip, q) ==
    CASE In(X, q) -> {Referral(X, {YN}, NoGlue)}
      [] In(Y, q) -> {Referral(Y, {XN}, NoGlue)}
      [] OTHER    -> {NxDomain}

(* The three servers of x refer back to the root. *)
Upward(ip, q) ==
    CASE ip = "r4" -> {Referral(X, {XN}, [n \in {XN} |-> {"a4", "b4", "c4"}])}
      [] OTHER     -> {Referral(MCRoot, {RN}, [n \in {RN} |-> {"r4"}])}

(* a.x is an alias of n.y and n.y one of a.x. *)
Alias(ip, q) ==
    CASE ip = "a4" /\ q = XA -> {Data(XA, "CNAME", YN)}
      [] ip = "b4" /\ q = YN -> {Data(YN, "CNAME", XA), Data(YN, "A", "c4")}
      [] In(X, q)            -> {GluedX}
      [] In(Y, q)            -> {Referral(Y, {YN}, [n \in {YN} |-> {"b4"}])}
      [] OTHER               -> {NxDomain}

(* x has a glued server that refuses and three servers without. *)
Lame(ip, q) ==
    CASE ip = "a4"            -> {Refused}
      [] ip = "b4" /\ In(X, q) -> XServer(q)
      [] ip = "b4" /\ q = YN   -> {Data(YN, "A", "b4")}
      [] In(X, q)             -> {Referral(X, {XN, YN, Y, RN}, [n \in {XN} |-> {"a4"}])}
      [] In(Y, q)             -> {Referral(Y, {RN}, [n \in {RN} |-> {"b4"}])}
      [] q = RN               -> {Data(RN, "CNAME", YN)}
      [] OTHER                -> {NxDomain}

MCWorld == {"tree", "circle", "upward", "alias", "lame"}

MCReply(w, ip, q, ty) ==
    CASE q = MCRoot /\ ty = "NS" -> Priming
      [] w = "tree"   -> Tree(ip, q)
      [] w = "circle" -> Circle(ip, q)
      [] w = "upward" -> Upward(ip, q)
      [] w = "alias"  -> Alias(ip, q)
      [] w = "lame"   -> Lame(ip, q)

(* No file, one of this configuration, and one an earlier process wrote that *)
(* could ask IPv6 servers and was primed with nothing else.                  *)
MCFiles == {NoFile, {"r4", "r6"}, {"r6"}}
=============================================================================
