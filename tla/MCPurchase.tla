---------------------------- MODULE MCPurchase -----------------------------
(***************************************************************************)
(* Instances of Purchase for TLC: every payload that differs in at most    *)
(* two fields from a good v2 payload or a good v1 payload of either shape. *)
(***************************************************************************)
EXTENDS Purchase

Nothing == [version |-> Absent, resource |-> Absent, scheme |-> Absent,
            network |-> Absent, asset |-> Absent, currency |-> Absent,
            payTo |-> Absent, amount |-> Absent, maxAmount |-> Absent]
GoodV2 == [nested |-> TRUE, top |-> [Nothing EXCEPT !.version = "v2", !.resource = "route"],
           inner |-> [Nothing EXCEPT !.scheme = "exact", !.network = "caip_base",
                        !.asset = "usdc_base", !.payTo = "b", !.amount = "fee"]]
GoodV1 == [nested |-> FALSE, inner |-> Nothing,
           top |-> [Nothing EXCEPT !.version = "v1", !.resource = "route",
                      !.scheme = "exact", !.network = "solana", !.asset = "usdc",
                      !.payTo = "s", !.maxAmount = "fee"]]
\* A v1 payload with both: its fields at the top level and in the object.
GoodBoth == [GoodV1 EXCEPT !.nested = TRUE, !.inner = GoodV1.top]

Values == [version   |-> {Absent, "v1", "v2", "v3"},
           resource  |-> {Absent, "route", "mcp"},
           scheme    |-> {Absent, "exact", "upto"},
           network   |-> {Absent, "base", "caip_base", "caip_solana", "testnet"},
           asset     |-> {Absent, "usdc", "usdc_base", "eurc"},
           currency  |-> {Absent, "eurc"},
           payTo     |-> {Absent, "b", "B", "s", "S"},
           amount    |-> {Absent, "fee", "fee_int", "other"},
           maxAmount |-> {Absent, "fee", "other"}]
Differing(P) ==
    UNION {{[p EXCEPT !.top[f] = x] : x \in Values[f]}
             \cup {[p EXCEPT !.inner[f] = x] : x \in Values[f]} :
             f \in DOMAIN Values, p \in P}
Payloads == Differing(Differing({GoodV2, GoodV1, GoodBoth}))

Requests == {[need |-> 1, odd |-> FALSE], [need |-> 2, odd |-> FALSE], [need |-> 1, odd |-> TRUE]}
Acc(terms, plain) == [terms |-> terms, plain |-> plain]
Env(version, accepts, resource, known) ==
    [version |-> version, accepts |-> accepts, resource |-> resource, known |-> known]
Challenges ==
    {Env("v2", <<Acc("t1", TRUE), Acc("t2", TRUE)>>, "own", TRUE),
     Env("v2", <<Acc("t2", TRUE), Acc("t1", TRUE)>>, "own", TRUE),
     Env("v2", <<Acc("t1", TRUE), Acc("t1", FALSE)>>, Absent, TRUE),
     Env("v2", <<Acc("t1", FALSE)>>, "own", TRUE),
     Env("v2", <<Acc("t1", TRUE)>>, "other", TRUE),
     Env("v2", <<Acc("t1", TRUE)>>, "own", FALSE),
     Env("v1", <<Acc("t1", TRUE)>>, "own", TRUE)}
Calls == {"get", "post"}
=============================================================================
