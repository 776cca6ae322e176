----------------------------- MODULE Purchase ------------------------------
(***************************************************************************)
(* One proof-carrying purchase, from the buyer's payment to the router to  *)
(* its payment to the seller (src/live402/route_binding.py, pq/route_v4.py *)
(* and the require_route_binding path of route.py; the buyer's guard is    *)
(* src/sdk/route-guard/index.mjs): the router matches the payment, probes  *)
(* the seller, binds the quote it saw to the winner, settles, and signs;   *)
(* the buyer, before it pays, checks the signed binding against what the   *)
(* seller says now.                                                        *)
(*                                                                         *)
(* A challenge envelope is [version, accepts, resource, known]: `known` is *)
(* whether it has no key and no extension outside the profile; an accept   *)
(* is [terms, plain]: the payment fields a selected_payment shows, and     *)
(* whether it has no other key.  A digest stands for the envelope it is    *)
(* of.  A seller's reply has an envelope in its header, in its body, in    *)
(* both (not always the same one), or neither.                             *)
(***************************************************************************)
EXTENDS Payment

CONSTANTS
    Forms,      \* payment payloads a client may send
    Request,    \* route requests: [need, odd]; odd: it has a key no policy knows
    Envelope,   \* challenges a seller may show
    Context,    \* <<url, method, body>> of a call to a seller
    Ttl,        \* LIVE402_ROUTE_BINDING_TTL_S, in ticks
    MaxTtl      \* MAX_TTL

ASSUME PurchaseAssumption == MaxTtl \in Nat /\ Ttl \in 1..MaxTtl
ASSUME EnvelopeAssumption == \A e \in Envelope : IsFiniteSet(DOMAIN e.accepts)
ASSUME FormsAssumption ==
    \A p \in Forms : /\ p.nested \in BOOLEAN
                     /\ DOMAIN p.top = Fields /\ DOMAIN p.inner = Fields

VARIABLES
    stage,     \* how far the purchase is
    asked,     \* the resource and request the buyer posted
    sent,      \* what went to the facilitator, and the accept it is for
    won,       \* the probe's result: envelope, context, accept, observation, safe
    age,       \* ticks since the probe
    binding,   \* decision_binding, once built
    answer,    \* what the buyer holds: [outer, request, binding, signed, safe]
    earlier,   \* an older signed answer that is put in its place, or None
    paid       \* what the buyer pays the seller for: [accept, envelope, context, for]

vars == <<stage, asked, sent, won, age, binding, answer, earlier, paid>>
None == [none |-> TRUE]

Resources == {"route", "mcp"}
Junk == [junk |-> TRUE]
Other == [other |-> TRUE]     \* JSON that is no challenge
Heads == Envelope \cup {None, Junk}
Pages == Envelope \cup {None, Junk, Other}

----------------------------------------------------------------------------
(* Challenges.                                                             *)

\* parse_envelope: the header's envelope, or else the body's.
Parsed(r) ==
    CASE r.head \in Envelope -> r.head
      [] r.head \notin Envelope /\ r.page \in Envelope -> r.page
      [] OTHER -> None

\* validate_envelope: x402 v2, and nothing in it the profile does not know.
InProfile(e) == e.version = "v2" /\ e.known /\ e.accepts # <<>>

\* observed_challenge: every channel that speaks says the same.
Strict(r) ==
    LET said == {r.head, r.page} \cap Envelope
    IN  IF r.head # Junk /\ r.page # Junk /\ Cardinality(said) = 1
           /\ \A e \in said : InProfile(e)
        THEN CHOOSE e \in said : TRUE ELSE None

\* challengeFrom: the guard reads a raw challenge by the same rules.
ChallengeFrom(r) == Strict(r)

\* selected_index: the one accept of the envelope that the selected payment is.
SelectedIndex(e, terms) ==
    LET same == {i \in DOMAIN e.accepts : e.accepts[i].terms = terms}
    IN  IF Cardinality(same) = 1 /\ \A i \in same : e.accepts[i].plain
        THEN CHOOSE i \in same : TRUE ELSE 0

----------------------------------------------------------------------------
(* Bindings.                                                               *)

\* build: for a request that is all policy, a strictly observed quote for the
\* winner's own resource, not yet expired.
Build(req, w, now) ==
    LET index == SelectedIndex(w.envelope, w.accept.terms)
    IN  IF /\ ~req.odd
           /\ w.observed # None /\ w.observed = w.envelope
           /\ index # 0
           /\ w.envelope.resource \in {Absent, "own"}
           /\ now < Ttl
        THEN [lasts |-> Ttl, context |-> w.context, quote |-> w.observed, index |-> index]
        ELSE None

\* evidence_from_route, event: what is signed holds the request and the binding,
\* and the same binding is shown beside it.  The rest of the response, what it
\* says of the seller among it, is safe or is not (see Guard).
Evidence(req, b, safe) ==
    [outer |-> b, request |-> req, binding |-> b, signed |-> TRUE, safe |-> safe]

\* validate: a binding no one could have built is none.
\* Faulty: one that lasts as long as a binding may is taken for too long.
ValidShort(b) == b # None /\ b.lasts > 0 /\ b.lasts < MaxTtl
Valid(b) == b # None /\ b.lasts > 0 /\ b.lasts <= MaxTtl

\* verify_challenge: not expired, the same call, the same quote.
VerifyChallenge(b, e, ctx, now) ==
    IF /\ Valid(b) /\ now < b.lasts
       /\ ctx = b.context
       /\ e # None /\ InProfile(e) /\ e = b.quote
       /\ b.index \in DOMAIN e.accepts
    THEN e.accepts[b.index] ELSE None

\* verify_route (Python) and verifyRoute (the buyer's guard): signed under the
\* pinned key, for the buyer's own request, and the binding shown is the signed one.
\* Faulty: the request the evidence is for is not compared.
AuthenticAny(a, req) == a.signed /\ a.outer = a.binding
Authentic(a, req) == a.signed /\ a.request = req /\ a.outer = a.binding

VerifyRoute(a, req, e, ctx, now) ==
    IF Authentic(a, req) THEN VerifyChallenge(a.binding, e, ctx, now) ELSE None

\* The guard parses the whole response (a.safe: it has no integer beyond 2^53 - 1,
\* no key twice, no lone surrogate, 24 levels and 256 KiB at most; verify_route
\* parses no more than it compares), parses the raw challenge itself, and looks
\* again at what it selects.
Guard(a, req, e, ctx, now) ==
    LET b == a.binding
    IN  IF /\ a.safe /\ Authentic(a, req)
           /\ Valid(b) /\ now < b.lasts /\ ctx = b.context
           /\ e # None /\ e = b.quote /\ b.index \in DOMAIN e.accepts
           /\ e.accepts[b.index].plain /\ e.resource \in {Absent, "own"}
        THEN e.accepts[b.index] ELSE None

----------------------------------------------------------------------------
Init ==
    /\ stage = "start" /\ age = 0
    /\ asked = None /\ sent = None /\ won = None
    /\ binding = None /\ answer = None /\ earlier = None /\ paid = None

\* handle_route, up to the facilitator: a payment that answers no accept is a
\* 402; one that does is forwarded (again, the same, when it is settled).
Post(p, resource, req) ==
    /\ stage = "start"
    /\ asked' = [resource |-> resource, request |-> req]
    /\ LET item == MatchAccept(p, Required(resource))
       IN  IF item = Unmatched
           THEN stage' = "refused" /\ UNCHANGED sent
           ELSE stage' = "verify" /\ sent' = [item |-> item, payload |-> p,
                                              forwarded |-> Forwarded(p, item)]
    /\ UNCHANGED <<won, age, binding, answer, earlier, paid>>

\* facilitator.verify.
Verify(valid) ==
    /\ stage = "verify"
    /\ stage' = IF valid THEN "probe" ELSE "refused"
    /\ sent' = None
    /\ UNCHANGED <<asked, won, age, binding, answer, earlier, paid>>

\* run_probe: the winner is one accept of the envelope its seller showed.  The
\* strict observation is kept if it is that envelope and no redirect was followed.
\* What the seller or the catalog says of it is copied into the response, options
\* that do not win included, with amounts of any size (payment_option_from_accept).
Probe(r, ctx, moved, safe) ==
    /\ stage = "probe"
    /\ LET e == Parsed(r)
       IN  IF e = None THEN stage' = "missed" /\ UNCHANGED won
           ELSE \E i \in DOMAIN e.accepts :
                  /\ stage' = "bind"
                  /\ won' = [envelope |-> e, context |-> ctx, accept |-> e.accepts[i],
                             observed |-> IF ~moved /\ Strict(r) = e THEN e ELSE None,
                             safe |-> safe]
    /\ UNCHANGED <<asked, sent, age, binding, answer, earlier, paid>>

\* _paid_execute: without a binding the request is a free miss.
Bind ==
    /\ stage = "bind"
    /\ binding' = Build(asked.request, won, age)
    /\ stage' = IF binding' = None THEN "missed" ELSE "settle"
    /\ UNCHANGED <<asked, sent, won, age, answer, earlier, paid>>

\* facilitator.settle: settled, rejected, or unknown (lost, non-2xx, unreadable).
Settle(outcome) ==
    /\ stage = "settle"
    /\ stage' = outcome
    /\ UNCHANGED <<asked, sent, won, age, binding, answer, earlier, paid>>

\* attach_to_route: the receipt over the v4 evidence, or a 503 for a request
\* that is settled.
Attach(issued) ==
    /\ stage = "settled"
    /\ IF issued
       THEN /\ stage' = "answered"
            /\ answer' = Evidence(asked.request, binding, won.safe)
       ELSE stage' = "receiptless" /\ UNCHANGED answer
    /\ UNCHANGED <<asked, sent, won, age, binding, earlier, paid>>

\* An answer the router signed some time ago, to this request or another one: a
\* binding build made of the quote of that time, with `left` ticks to run.
SignedBefore(req, e, i, ctx, left) ==
    LET w == [envelope |-> e, context |-> ctx, accept |-> e.accepts[i],
              observed |-> IF InProfile(e) THEN e ELSE None]
        b == Build(req, w, 0)
    IN  IF b = None THEN None
        ELSE [request |-> req, binding |-> [b EXCEPT !.lasts = left], accept |-> w.accept]

\* What reaches the buyer may be something else: unsigned, with another binding
\* beside the signed one, or a genuine answer of before (a replay, a cache).
Differ ==
    /\ stage = "answered"
    /\ \/ answer' = [answer EXCEPT !.signed = FALSE] /\ UNCHANGED earlier
       \/ /\ \E ctx \in Context : answer' = [answer EXCEPT !.outer.context = ctx]
          /\ UNCHANGED earlier
       \/ /\ earlier = None
          /\ \E req \in Request, e \in Envelope, ctx \in Context, left \in 1..Ttl :
               \E i \in DOMAIN e.accepts :
                  earlier' = SignedBefore(req, e, i, ctx, left)
          /\ earlier' # None
          /\ answer' = Evidence(earlier'.request, earlier'.binding, TRUE)
    /\ UNCHANGED <<stage, asked, sent, won, age, binding, paid>>

\* withVerifiedRoute: the buyer asks the seller again, and authorizes what the
\* guard returns.
Pay(r, ctx) ==
    /\ stage = "answered"
    /\ LET acc == Guard(answer, asked.request, ChallengeFrom(r), ctx, age)
       IN  /\ acc # None
           /\ paid' = [accept |-> acc, envelope |-> ChallengeFrom(r), context |-> ctx,
                       for |-> answer.request]
    /\ stage' = "paid"
    /\ UNCHANGED <<asked, sent, won, age, binding, answer, earlier>>

Tick ==
    /\ won # None /\ stage # "paid" /\ age < MaxTtl
    /\ age' = age + 1
    /\ UNCHANGED <<stage, asked, sent, won, binding, answer, earlier, paid>>

Replies == [head : Heads, page : Pages]
Next ==
    \/ \E p \in Forms, resource \in Resources, req \in Request : Post(p, resource, req)
    \/ \E ok \in BOOLEAN : Verify(ok) \/ Attach(ok)
    \/ \E r \in Replies, ctx \in Context :
          \/ \E moved \in BOOLEAN, safe \in BOOLEAN : Probe(r, ctx, moved, safe)
          \/ Pay(r, ctx)
    \/ Bind \/ Differ \/ Tick
    \/ \E outcome \in {"settled", "unknown", "refused"} : Settle(outcome)

Spec == Init /\ [][Next]_vars

----------------------------------------------------------------------------
\* What the router forwards is one of the accepts it advertises for this very
\* resource (match_accept), and it is what the client signed: the rail, the
\* address, the amount by the name its version gives it, and the token or a symbol
\* for one.  In what is forwarded (normalize_payload_for_facilitator) the accepted
\* object and every copy at the top level give the accept's own scheme, network,
\* amount, asset and address, a maxAmountRequired within the object is the amount,
\* and a version the client named at the top level is the one that was matched.
PaidForOffered ==
    stage = "verify" =>
        LET p == sent.payload
            f == Accepted(p)
            item == sent.item
            rail == RailOf(item.network, "v2")
        IN  /\ item \in {Required(asked.resource).accepts[i] :
                           i \in DOMAIN Required(asked.resource).accepts}
            /\ asked.resource \in {p.top.resource, p.inner.resource}
            /\ {p.top.resource, f.resource} \subseteq {asked.resource, Absent}
            /\ RailOf(NetworkOf(p), VersionOf(p)) = rail
            /\ PayToEqual(f.payTo, item.payTo, rail)
            /\ (IF VersionOf(p) = "v1" THEN f.maxAmount ELSE f.amount) = item.amount
            /\ TokenOf(f) \in {item.asset} \cup Symbols
            /\ \A k \in Overlaid :
                  /\ sent.forwarded.inner[k] = item[k]
                  /\ sent.forwarded.top[k] \in {item[k], Absent}
            /\ sent.forwarded.inner.maxAmount \in {item.amount, Absent}
            /\ p.top.version # Absent => sent.forwarded.version = VersionOf(p)

\* A buyer that asked for a binding is charged only if it can use what it gets:
\* until it expires, a signed answer over the very quote the router saw passes
\* verify_route, and passes the buyer's guard if the guard can read the response,
\* and both yield the accept the router chose (build runs before settle, and asks
\* all that the two checks ask of the quote, the call, the index and the clock).
ChargedCanVerify ==
    stage \in {"settle", "settled", "unknown", "answered", "receiptless"} =>
        /\ binding # None
        /\ age < Ttl =>
             LET a == Evidence(asked.request, binding, won.safe)
             IN  /\ VerifyRoute(a, asked.request, won.envelope, won.context, age)
                        = won.accept
                 /\ won.safe =>
                      Guard(a, asked.request, won.envelope, won.context, age) = won.accept

\* What the router signed: for this purchase, and before.
SignedAnswers ==
    {[request |-> asked.request, binding |-> binding, accept |-> won.accept],
     earlier} \ {None}

\* The buyer pays the seller only for what the router chose for this very request,
\* in one of the answers it signed: the same accept of the same envelope, for the
\* same call, before that binding expired (withVerifiedRoute).
PaysWhatWasRouted ==
    stage = "paid" =>
        \E s \in SignedAnswers :
            /\ s.request = asked.request
            /\ paid = [accept |-> s.accept, envelope |-> s.binding.quote,
                       context |-> s.binding.context, for |-> asked.request]
            /\ age < s.binding.lasts
=============================================================================
