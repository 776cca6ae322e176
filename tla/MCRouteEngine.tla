--------------------------- MODULE MCRouteEngine ---------------------------
(* Three urls, sellers of every kind the selection tells apart, and requests for each objective. *)
EXTENDS RouteEngine

CONSTANTS u1, u2, u3, none

MCFinality == [r \in {"base", "solana", "algo"} |-> CASE r = "base" -> 2 [] r = "solana" -> 1 [] OTHER -> none]

Seen(n, rate) ==
    [n |-> n, rate |-> rate, tenure |-> none, usage |-> none, sources |-> none,
     changes |-> [k \in ChangeClass |-> [count |-> 0, at |-> none]]]
Churned == [Seen(4, 60) EXCEPT !.changes["payTo"].count = 1]
Option(rail, asset, amount) == [rail |-> rail, asset |-> asset, amount |-> amount, payTo |-> rail]
Valid(rail, asset, amount) == [valid |-> TRUE, option |-> Option(rail, asset, amount)]
Seller0 ==
    [get |-> "402", post |-> "405", declaresPost |-> FALSE, needsBody |-> FALSE,
     accepts |-> <<Valid("base", "usdc", 3)>>, schema |-> FALSE, claim |-> "same", turned |-> FALSE,
     latency |-> 2, service |-> none, evidence |-> Seen(0, none), later |-> Seen(0, none)]

Slow   == [Seller0 EXCEPT !.accepts = <<Valid("base", "usdc", 2)>>, !.latency = 4]
Proven == [Seller0 EXCEPT !.schema = TRUE, !.evidence = Seen(4, 90), !.later = Churned, !.service = 1]
Odd    == [Seller0 EXCEPT !.claim = "other", !.accepts = <<Valid("base", "usdc", 1)>>, !.latency = 1]
Turned == [Seller0 EXCEPT !.turned = TRUE, !.accepts = <<Valid("solana", "usdc", 2)>>]
Posted == [Seller0 EXCEPT !.get = "405", !.post = "402", !.declaresPost = TRUE,
             !.accepts = <<Valid("solana", "usdc", 4), Valid("algo", "usdc", 1)>>]
Other  == [Seller0 EXCEPT !.accepts = <<Valid("algo", "asa", 1), [Valid("algo", "asa", 2) EXCEPT !.valid = FALSE]>>]
Empty  == [Seller0 EXCEPT !.accepts = <<[Valid("base", "usdc", 0) EXCEPT !.valid = FALSE]>>]
Broken == [Seller0 EXCEPT !.get = "5xx", !.needsBody = TRUE]
Hung   == [Seller0 EXCEPT !.get = "timeout"]
MCSeller == {Slow, Proven, Odd, Turned, Posted, Other, Empty, Broken, Hung}

At(u, score, rail, fresh) ==
    [url |-> u, score |-> score, rail |-> rail, traction |-> 0, fresh |-> fresh, n |-> 0]
MCPage ==
    {<<At(u1, 40, "base", 0), At(u2, 28, "solana", 1), [At(u3, 15, "base", 3) EXCEPT !.n = 4]>>,
     <<At(u1, 0, "base", 0), At(u2, 10, "base", 0), [At(u3, 10, "base", 0) EXCEPT !.traction = 1]>>,
     <<At(u1, 0, "base", 0)>>}

NoKeys == [k \in {} |-> none]
Need(objective, text, keys, prefer, ceiling) ==
    [kind |-> "need", url |-> none, objective |-> objective, text |-> text, keys |-> keys,
     prefer |-> prefer, ceiling |-> ceiling]
Just(k, x) == [j \in {k} |-> x]
MCRequest ==
    {Need("best", NoKeys, NoKeys, none, 3),
     Need("best", NoKeys, [networks |-> {"base"}, acceptChange |-> TRUE], "solana", 1),
     Need("cheapest", NoKeys, NoKeys, none, 3),
     Need("cheapest", Just("networks", {"algo", "base"}), [maxUsd |-> 3], none, 2),
     Need("fastest", [maxProbe |-> 4, maxLatency |-> 4], Just("maxLatency", 3), none, 3),
     Need("most_reliable", NoKeys, [minSuccess |-> 50, minScore |-> 80, minConfidence |-> 10], none, 3),
     Need("fastest_settlement", NoKeys, [maxSettlement |-> 2, maxUsd |-> 3], none, 3),
     Need("best", Just("invocable", TRUE), Just("minObservations", 3), none, 2),
     [Need("best", NoKeys, NoKeys, none, 1) EXCEPT !.kind = "url", !.url = u1],
     [Need("cheapest", NoKeys, Just("maxAmount", 2), none, 1) EXCEPT !.kind = "url", !.url = u2]}
=============================================================================
