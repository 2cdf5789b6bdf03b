---- MODULE MC_Frontend ----
EXTENDS Frontend

Req(method, len) ==
    [method |-> method, head |-> 1, valid |-> TRUE, path |-> "bare", good |-> TRUE,
     sized |-> TRUE, len |-> len, close |-> FALSE, dns |-> "ok"]
Get == Req("GET", 0)
Post == Req("POST", 2)

MCGates == {[allowed |-> a, token |-> t] : a \in BOOLEAN, t \in {"bare", "t1"}}
              \ {[allowed |-> FALSE, token |-> "t1"]}

First(k) ==
    CASE k \in {"tcp", "dot"} ->
           {Req("", 1), Req("", 2), Req("", 0),
            [Req("", 1) EXCEPT !.dns = "malformed"], [Req("", 1) EXCEPT !.dns = "huge"],
            [Req("", 1) EXCEPT !.dns = "limited"]}
      [] k = "udp" -> {Req("", 1), [Req("", 1) EXCEPT !.dns = "malformed"],
                       [Req("", 1) EXCEPT !.dns = "huge"],
                       [Req("", 1) EXCEPT !.dns = "limited"]}
      [] k = "doh" ->
           {Get, Post, Req("PUT", 0), Req("POST", 3),
            [Get EXCEPT !.head = 4], [Get EXCEPT !.valid = FALSE],
            [Get EXCEPT !.good = FALSE], [Get EXCEPT !.close = TRUE],
            [Get EXCEPT !.dns = "limited"], [Post EXCEPT !.good = FALSE],
            [Post EXCEPT !.sized = FALSE]}
      [] k = "h2" ->
           {Get, Post, Req("PUT", 0), Req("POST", 3),
            [Get EXCEPT !.good = FALSE], [Post EXCEPT !.dns = "malformed"]}

(* The first request is of any kind; later ones are well-formed, so that   *)
(* what the first leaves behind shows in them.                             *)
MCRequests(k, n) ==
    CASE n = 1 -> First(k)
      [] n = 2 -> IF k = "udp" THEN {Req("", 1), [Req("", 1) EXCEPT !.dns = "malformed"]}
                  ELSE IF k \in {"tcp", "dot"} THEN {Req("", 1)}
                  ELSE IF k = "doh" THEN {Get, Post} ELSE {Post}
      [] n = 3 -> IF k \in {"udp", "tcp"} THEN {Req("", 1)}
                  ELSE IF k = "doh" THEN {Get} ELSE {}
===========================================================================
