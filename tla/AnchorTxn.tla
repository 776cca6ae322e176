----------------------------- MODULE AnchorTxn ------------------------------
(***************************************************************************)
(* What live402/pq/algo_anchor.py, signer_mainnet.py and signer_client.py  *)
(* decide about one anchor: the fee and the validity window a network      *)
(* snapshot asks for, the policy the router freezes and the signer checks, *)
(* which reply of the signer the router takes, which signed transaction it *)
(* may send and which fetched one counts as confirmed.                     *)
(*                                                                         *)
(* Rounds, fees and seconds are small numbers; the origin and the hash of  *)
(* a tree of a given size are "ours" or "other", and kind tells a pay-0    *)
(* self-payment with a Falcon envelope apart from every other shape.       *)
(***************************************************************************)
EXTENDS Integers, FiniteSetsExt

CONSTANTS
    MaxFee,     \* MAX_FEE: no anchor may cost more
    Envelope,   \* estimated size of the authorized transaction
    Window,     \* MAX_VALIDITY_WINDOW: rounds a transaction lives
    Slack,      \* LAST_ROUND_SLACK between the router's round and the signer's
    MaxAge,     \* SNAPSHOT_MAX_AGE_S
    None        \* no fee, no row

ASSUME ScaleAssumption ==
    {MaxFee, Envelope, Window, Slack, MaxAge} \subseteq Nat \ {0}

Network == {"testnet", "mainnet"}
Kind == {"pq1", "close", "ed25519"}

\* TestNet transactions are judged without a snapshot: the protocol's minimum.
BaseMin == 1
FalconMin(min) == 3 * min

\* required_fee: None when it would raise.
RequiredFee(params) ==
    LET need == Max({params.perByte * Envelope, FalconMin(params.min)})
    IN  IF need > MaxFee THEN None ELSE need

\* build_mainnet_payment_txn: what the snapshot makes of the anchor of a tree.
Payment(net, tree, params) ==
    [net |-> net, size |-> tree, root |-> "ours", kind |-> "pq1", fee |-> RequiredFee(params),
     fv |-> params.last, lv |-> params.last + Window]

\* fee_policy_snapshot and hmac_policy: what a request binds.
PolicyOf(params, now) ==
    [last |-> params.last, min |-> params.min, perByte |-> params.perByte,
     fee |-> RequiredFee(params), fv |-> params.last, lv |-> params.last + Window, at |-> now]

\* Faulty: the fee per byte is not carried over.
ParamsUncongested(policy) == [last |-> policy.last, min |-> policy.min, perByte |-> 0]

\* params_from_fee_policy: what the router verifies a reply against.
ParamsOf(policy) == [last |-> policy.last, min |-> policy.min, perByte |-> policy.perByte]

Policy ==
    [last: Nat, min: Nat, perByte: Nat, fee: Nat \cup {None}, fv: Nat, lv: Nat, at: Nat]

ASSUME NoPolicyAssumption == None \notin Policy

Fresh(policy, now) == now - policy.at <= MaxAge

\* validate_observed_against_router_policy: the signer's own look at the chain.
ObservedAllows(policy, seen, now) ==
    /\ Fresh(policy, now)
    /\ seen.last - policy.last \in -Slack..Slack
    /\ RequiredFee(seen) # None
    /\ RequiredFee(seen) <= policy.fee

InWindow(txn) == txn.lv - txn.fv \in 1..Window

CanonicalWindow(txn, params) ==
    /\ InWindow(txn)
    /\ txn.fv = params.last
    /\ txn.lv = params.last + Window

Canonical(txn, params) ==
    /\ txn.fee = RequiredFee(params)
    /\ CanonicalWindow(txn, params)

\* What makes a transaction the anchor of this tree, whatever it costs.
Anchors(txn, net, tree) ==
    /\ txn.kind = "pq1"
    /\ txn.net = net
    /\ txn.root = "ours"
    /\ txn.size = tree

\* validate_signed_txn: MainNet judges by the frozen snapshot, TestNet by range.
ValidSigned(txn, net, tree, params) ==
    /\ Anchors(txn, net, tree)
    /\ IF net = "mainnet" THEN Canonical(txn, params)
       ELSE txn.fee \in FalconMin(BaseMin)..MaxFee /\ InWindow(txn)

\* bind_reply: the reply names the tree that was asked about.
Binds(job, reply) == reply.size = job.size /\ reply.root = "ours"

\* Faulty: the reply's code covers what it signs, not the request it answers.
AuthenticLoose(job, reply) == reply.mac

\* parse_authenticated_reply: the code covers the request and the signed bytes.
Authentic(job, reply) == reply.mac /\ reply.id = job.id

\* request_signed of signer_mainnet; it compares with the policy once more.
MainAccepts(job, reply) ==
    /\ Authentic(job, reply)
    /\ Binds(job, reply)
    /\ ValidSigned(reply.txn, "mainnet", job.size, ParamsOf(job.policy))
    /\ reply.txn.fee = job.policy.fee
    /\ reply.txn.fv = job.policy.fv
    /\ reply.txn.lv = job.policy.lv

\* request_signed of signer_client looks no further than the tree.
Accepts(job, reply) == IF job.policy = None THEN Binds(job, reply) ELSE MainAccepts(job, reply)

\* decode_chain_txn: an object of the indexer, or algod's of a pending one.
Decoded(txn, inBlock) == [txn |-> txn, confirmed |-> inBlock]

\* reconstruct_txid_from_decoded: the fields give the txid that was asked for.
SameTxid(got, txn) == got.txn = txn

\* verify_fetched_anchor of what the provider returned for the txid of txn.
Verified(got, txn) ==
    /\ Anchors(got.txn, txn.net, txn.size)
    /\ got.txn.fee \in FalconMin(BaseMin)..MaxFee
    /\ got.confirmed
    /\ SameTxid(got, txn)
=============================================================================
