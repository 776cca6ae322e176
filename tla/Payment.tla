------------------------------ MODULE Payment ------------------------------
(***************************************************************************)
(* Inbound payments (src/live402/payment.py, facilitator.py): which of the *)
(* accepts the router advertises a client's payment payload answers, and   *)
(* what of it goes on to the facilitator.                                  *)
(*                                                                         *)
(* A payload is [top, inner, nested]: the fields at its top level, those   *)
(* of its "accepted" object, and whether it has that object (x402 v1 puts  *)
(* everything at the top level).  A field that is not there is Absent.     *)
(* Networks, addresses, amounts and tokens are names of what the code      *)
(* tells apart: "b" and "B" are one address spelled in two cases, which    *)
(* are equal on Base and not on Solana; "fee" is the canonical decimal     *)
(* string of the price, "fee_int" the same number not as a string.         *)
(***************************************************************************)
EXTENDS Naturals, Sequences, FiniteSets

Absent == "absent"
Fields == {"version", "resource", "scheme", "network", "asset", "currency",
           "payTo", "amount", "maxAmount"}
Versions == {"v1", "v2"}
Rails == <<"base", "solana">>          \* the third rail differs in no rule

Caip(rail)  == IF rail = "base" THEN "caip_base" ELSE "caip_solana"
PayTo(rail) == IF rail = "base" THEN "b" ELSE "s"
Usdc(rail)  == IF rail = "base" THEN "usdc_base" ELSE "usdc_solana"
Fold(a) == CASE a = "B" -> "b" [] a = "S" -> "s" [] OTHER -> a

\* payment_required: one accept for each rail, for the resource that was asked.
Required(resource) ==
    [version |-> "v2", resource |-> resource,
     accepts |-> [i \in DOMAIN Rails |->
        [scheme |-> "exact", network |-> Caip(Rails[i]), asset |-> Usdc(Rails[i]),
         payTo |-> PayTo(Rails[i]), amount |-> "fee"]]]

\* rail_of_observed_network: on v2 the exact CAIP id, on v1 a short name as well.
RailOf(network, version) ==
    CASE network = "caip_base"   -> "base"
      [] network = "caip_solana" -> "solana"
      [] network = "base" /\ version = "v1"   -> "base"
      [] network = "solana" /\ version = "v1" -> "solana"
      [] OTHER -> "none"

\* payto_equal: case counts on Solana only.
PayToEqual(a, b, rail) == a = b \/ (rail # "solana" /\ Fold(a) = Fold(b))

\* token_of: a symbol gives way to the currency, if there is one.
Symbols == {"usdc", "usd"}
TokenOf(f) ==
    IF f.asset \in Symbols \cup {Absent}
    THEN IF f.currency # Absent THEN f.currency ELSE f.asset
    ELSE f.asset

\* canonical_atomic_string: only a canonical decimal string is an amount.
Canonical(amount) == IF amount \in {"fee", "other"} THEN amount ELSE "none"

----------------------------------------------------------------------------
\* _accepted_from_payload: the accepted object, or the v1 fields at the top
\* level, which are neither a version nor a resource nor a currency.
V1Fields == {"scheme", "network", "asset", "payTo", "amount", "maxAmount"}
Accepted(p) ==
    IF p.nested THEN p.inner
    ELSE [f \in DOMAIN p.top |-> IF f \in V1Fields THEN p.top[f] ELSE Absent]

\* inbound_payload_version: one literal version, the same wherever it is given.
VersionOf(p) ==
    LET given == {p.top.version, Accepted(p).version} \ {Absent}
    IN  IF Cardinality(given) = 1 /\ given \subseteq Versions
        THEN CHOOSE v \in given : TRUE ELSE "none"

NetworkOf(p) == IF Accepted(p).network # Absent THEN Accepted(p).network ELSE p.top.network

\* inbound_client_amount: v1 names its amount maxAmountRequired, v2 amount; the
\* other name may be there as well, with the same amount.
AmountOf(f, version) ==
    LET named == IF version = "v1" THEN f.maxAmount ELSE f.amount
        other == IF version = "v1" THEN f.amount ELSE f.maxAmount
    IN  IF other # Absent /\ Canonical(other) # Canonical(named)
        THEN "none" ELSE Canonical(named)

\* resource_url_of, twice: the payment is for this resource, wherever it says so.
ForResource(p, resource) ==
    LET claims == {p.top.resource, Accepted(p).resource} \ {Absent}
    IN  claims = {resource}

\* Faulty: any token will do.
TokensAny(f, item) == TokenOf(f) # Absent
TokensAgree(f, item) ==
    /\ TokenOf(f) # Absent
    /\ TokenOf(f) = item.asset \/ TokenOf(f) \in Symbols

\* match_accept: the advertised accepts the payload answers, in order.
Matches(p, required) ==
    LET f == Accepted(p)
        version == VersionOf(p)
        rail == RailOf(NetworkOf(p), version)
    IN  {i \in DOMAIN required.accepts :
           LET item == required.accepts[i]
           IN  /\ ForResource(p, required.resource)
               /\ version # "none" /\ rail # "none"
               /\ f.scheme = item.scheme
               /\ RailOf(item.network, required.version) = rail
               /\ f.payTo # Absent /\ PayToEqual(f.payTo, item.payTo, rail)
               /\ AmountOf(f, version) = item.amount
               /\ TokensAgree(f, item)}
Unmatched == [scheme |-> "none"]
MatchAccept(p, required) ==
    IF Matches(p, required) = {} THEN Unmatched
    ELSE required.accepts[CHOOSE i \in Matches(p, required) :
                             \A j \in Matches(p, required) : i <= j]

----------------------------------------------------------------------------
\* official_requirements, normalize_payload_for_facilitator: of these fields the
\* accepted object says what the accept says, and so does every copy at the top
\* level.  What else the client sent (a maxAmountRequired, a currency, a version)
\* stays as it is; a payload with no version at its top level is given a 2.
Overlaid == {"scheme", "network", "amount", "asset", "payTo"}
Overlay(fields, item) ==
    [f \in DOMAIN fields |-> IF f \in Overlaid THEN item[f] ELSE fields[f]]
OverlayGiven(fields, item) ==
    [f \in DOMAIN fields |->
        IF f \in Overlaid /\ fields[f] # Absent THEN item[f] ELSE fields[f]]
\* Faulty: only the accepted object is rewritten.
ForwardedInnerOnly(p, item) ==
    [top |-> p.top, inner |-> Overlay(Accepted(p), item),
     version |-> IF p.top.version = Absent THEN "v2" ELSE p.top.version]
Forwarded(p, item) ==
    [top |-> OverlayGiven(p.top, item), inner |-> Overlay(Accepted(p), item),
     version |-> IF p.top.version = Absent THEN "v2" ELSE p.top.version]
============================================================================
