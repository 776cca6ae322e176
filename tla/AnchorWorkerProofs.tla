------------------------- MODULE AnchorWorkerProofs -------------------------
(***************************************************************************)
(* Proofs about AnchorWorker: what the router stores and sends is what it  *)
(* asked for, a signer that keeps the contract is never refused, and one   *)
(* anchor is under way at a time; for every scale of fees, windows and     *)
(* rounds and any number of trees and requests.                            *)
(***************************************************************************)
EXTENDS AnchorWorker, FiniteSetTheorems, TLAPS

USE DEF Network, Kind

Params == [last: Nat, min: Nat, perByte: Nat]

Txn == [net: Network, size: Nat, root: {"ours", "other"}, kind: Kind,
        fee: Nat \cup {None}, fv: Nat, lv: Nat]

Dial == [stage: {"dial"}, id: Nat, size: Tree, note: Nat, policy: Policy \cup {None}]

Reply == [id: Nat, size: Tree, root: {"ours", "other"}, txn: Txn,
          mac: BOOLEAN, sound: BOOLEAN]

Row == [txn: Txn, note: Nat, policy: Policy \cup {None}, id: Nat, answers: Nat,
        submitted: BOOLEAN]

TypeInv ==
    /\ net \in Network
    /\ size \in Tree /\ notes \subseteq Tree /\ latest \in Nat
    /\ params \in Params /\ clock \in Nat
    /\ job \in {Idle} \cup Dial \cup [stage: {"send"}, size: Tree]
    /\ dials \in Nat /\ replies \subseteq Reply
    /\ rows \in [Tree -> Row \cup {NoRow}]
    /\ confirmed \in Nat

\* A policy the router froze is a snapshot and what the snapshot asks for.
Frozen(policy) ==
    /\ policy \in Policy
    /\ policy.fee = RequiredFee(ParamsOf(policy))
    /\ policy.fv = policy.last
    /\ policy.lv = policy.last + Window

\* While the worker waits for a TestNet reply nothing else is under way; only
\* a MainNet request freezes a policy; only TestNet anchors are sent.
JobInv ==
    /\ job.stage = "dial" =>
          /\ job.id <= dials
          /\ net = "testnet" => job.policy = None /\ InFlight = {}
          /\ net = "mainnet" => Frozen(job.policy)
    /\ job.stage = "send" => net = "testnet" /\ job.size \in Authorized

\* Every reply answers a request that was made.
RepliesAnswer == \A r \in replies : r.id <= dials

FlightAlone == net = "testnet" => \A t, u \in InFlight : t = u

AnchorInv ==
    /\ TypeInv /\ JobInv /\ RepliesAnswer /\ FlightAlone
    /\ AnchorsAsAsked /\ SoundAnswerTaken

-----------------------------------------------------------------------------
(* The fee and the transaction a snapshot asks for.                        *)

LEMMA ScaleTypes ==
    /\ MaxFee \in Nat /\ Envelope \in Nat /\ Window \in Nat /\ Window >= 1
    /\ MaxSize \in Nat /\ MaxSize >= 1
    /\ Tree \subseteq Nat /\ \A t \in Tree : t >= 1
BY ScaleAssumption, BoundAssumption DEF Tree

\* The larger of two numbers is one of them and not below either.
LEMMA MaxOfTwo ==
    ASSUME NEW a \in Nat, NEW b \in Nat
    PROVE  Max({a, b}) \in {a, b} /\ Max({a, b}) >= a /\ Max({a, b}) >= b
<1>1. \E x \in {a, b} : \A y \in {a, b} : x >= y
  OBVIOUS
<1> QED BY <1>1 DEF Max

LEMMA FeeType ==
    ASSUME NEW p \in Params
    PROVE  RequiredFee(p) \in Nat \cup {None}
<1>1. p.perByte * Envelope \in Nat /\ FalconMin(p.min) \in Nat
  BY ScaleTypes DEF Params, FalconMin
<1> QED BY <1>1, MaxOfTwo DEF RequiredFee

LEMMA PaymentType ==
    ASSUME NEW n \in Network, NEW t \in Nat, NEW p \in Params
    PROVE  Payment(n, t, p) \in Txn
<1>1. p.last \in Nat /\ p.last + Window \in Nat
  BY ScaleTypes DEF Params
<1> QED BY <1>1, FeeType DEF Payment, Txn

LEMMA ParamsType ==
    ASSUME NEW p \in Policy
    PROVE  ParamsOf(p) \in Params
BY DEF Policy, ParamsOf, Params

\* A policy made from a snapshot is frozen, and is not None.
LEMMA PolicyFrozen ==
    ASSUME NEW p \in Params, NEW now \in Nat
    PROVE  Frozen(PolicyOf(p, now))
<1>1. p.last + Window \in Nat
  BY ScaleTypes DEF Params
<1>2. PolicyOf(p, now) \in Policy
  BY <1>1, FeeType DEF PolicyOf, Policy, Params
<1>3. ParamsOf(PolicyOf(p, now)) = p
  BY DEF ParamsOf, PolicyOf, Params
<1>4. /\ PolicyOf(p, now).fee = RequiredFee(p)
      /\ PolicyOf(p, now).fv = PolicyOf(p, now).last
      /\ PolicyOf(p, now).lv = PolicyOf(p, now).last + Window
  BY DEF PolicyOf
<1> QED BY <1>2, <1>3, <1>4 DEF Frozen

LEMMA FeeChanged ==
    ASSUME NEW x \in Txn, NEW f \in Nat \cup {None}
    PROVE  [x EXCEPT !.fee = f] \in Txn
BY DEF Txn

\* What a signer that keeps the contract signs.
LEMMA SignsType ==
    ASSUME TypeInv, job.stage = "dial"
    PROVE  /\ job \in Dial
           /\ Signs \in Txn
<1>1. job \in Dial
  BY DEF TypeInv, Idle
<1>2. job.size \in Nat
  BY <1>1, ScaleTypes DEF Dial
<1>3. CASE job.policy = None
  BY <1>1, <1>2, <1>3, PaymentType DEF Signs, TypeInv
<1>4. CASE job.policy # None
  <2>1. job.policy \in Policy
    BY <1>1, <1>4 DEF Dial
  <2>2. Payment("mainnet", job.size, ParamsOf(job.policy)) \in Txn
    BY <2>1, <1>2, ParamsType, PaymentType
  <2>3. job.policy.fee \in Nat \cup {None}
    BY <2>1 DEF Policy
  <2>4. Signs = [Payment("mainnet", job.size, ParamsOf(job.policy))
                    EXCEPT !.fee = job.policy.fee]
    BY <1>4 DEF Signs
  <2> QED BY <1>1, <2>2, <2>3, <2>4, FeeChanged
<1> QED BY <1>1, <1>3, <1>4

\* Under a frozen policy it is the payment the policy's snapshot asks for.
LEMMA SignsFrozen ==
    ASSUME TypeInv, job.stage = "dial", Frozen(job.policy)
    PROVE  Signs = Payment("mainnet", job.size, ParamsOf(job.policy))
<1>1. job.policy # None
  BY NoPolicyAssumption DEF Frozen
<1>2. job.policy.fee = Payment("mainnet", job.size, ParamsOf(job.policy)).fee
  BY DEF Frozen, Payment
<1> QED BY <1>1, <1>2 DEF Signs, Payment

\* Only one transaction passes the checks of a MainNet reply.
LEMMA CanonicalIsPayment ==
    ASSUME NEW x \in Txn, NEW t \in Tree, NEW p \in Params,
           ValidSigned(x, "mainnet", t, p)
    PROVE  x = Payment("mainnet", t, p)
<1>1. /\ x.kind = "pq1" /\ x.net = "mainnet" /\ x.root = "ours" /\ x.size = t
      /\ x.fee = RequiredFee(p) /\ x.fv = p.last /\ x.lv = p.last + Window
  BY DEF ValidSigned, Anchors, Canonical, CanonicalWindow
<1> QED BY <1>1 DEF Txn, Payment

LEMMA CanonicalWhen ==
    ASSUME NEW x, NEW p \in Params,
           x.fv = p.last, x.lv = p.last + Window, x.fee = RequiredFee(p)
    PROVE  Canonical(x, p)
<1>1. p.last \in Nat
  BY DEF Params
<1>2. x.lv - x.fv \in 1..Window
  BY <1>1, ScaleTypes
<1> QED BY <1>2 DEF Canonical, CanonicalWindow, InWindow

LEMMA PaymentIsCanonical ==
    ASSUME NEW t \in Tree, NEW p \in Params
    PROVE  ValidSigned(Payment("mainnet", t, p), "mainnet", t, p)
<1>1. /\ Payment("mainnet", t, p).fv = p.last
      /\ Payment("mainnet", t, p).lv = p.last + Window
      /\ Payment("mainnet", t, p).fee = RequiredFee(p)
  BY DEF Payment
<1>2. Canonical(Payment("mainnet", t, p), p)
  BY <1>1, CanonicalWhen
<1>3. Anchors(Payment("mainnet", t, p), "mainnet", t)
  BY DEF Anchors, Payment
<1> QED BY <1>2, <1>3 DEF ValidSigned

-----------------------------------------------------------------------------
(* The steps.                                                              *)

\* Growth of the log and the network's own moves touch nothing of this.
LEMMA WorldKeeps ==
    ASSUME AnchorInv, UNCHANGED <<net, job, signer, rows, confirmed, posted>>
    PROVE  (JobInv /\ RepliesAnswer /\ FlightAlone /\ AnchorsAsAsked /\ SoundAnswerTaken)'
BY DEF AnchorInv, JobInv, RepliesAnswer, FlightAlone, AnchorsAsAsked, SoundAnswerTaken,
       InFlight, Authorized, signer

\* Letting a job go leaves what is stored as it is.
LEMMA IdleKeeps ==
    ASSUME AnchorInv, job' = Idle,
           UNCHANGED <<log, world, signer, rows, confirmed, posted>>
    PROVE  AnchorInv'
<1>1. TypeInv'
  BY DEF AnchorInv, TypeInv, log, world, signer
<1>2. JobInv' /\ SoundAnswerTaken'
  BY DEF JobInv, SoundAnswerTaken, Idle
<1> QED BY <1>1, <1>2 DEF AnchorInv, RepliesAnswer, FlightAlone, AnchorsAsAsked,
                          InFlight, Authorized, signer, world

\* A request is numbered beyond every reply written so far.
LEMMA AskKeeps ==
    ASSUME AnchorInv, NEW t \in Tree, NEW note \in Nat, NEW policy \in Policy \cup {None},
           Ask(t, note, policy),
           net = "testnet" => policy = None /\ InFlight = {},
           net = "mainnet" => Frozen(policy)
    PROVE  AnchorInv'
<1> USE DEF AnchorInv
<1>1. dials \in Nat /\ dials' = dials + 1
  BY DEF Ask, TypeInv
<1>2. job' = [stage |-> "dial", id |-> dials + 1, size |-> t, note |-> note,
              policy |-> policy]
  BY DEF Ask, RequestOf
<1>3. UNCHANGED <<net, rows, replies, confirmed, posted>>
  BY DEF Ask, world, outside
<1>4. TypeInv'
  <2>1. job' \in Dial
    BY <1>1, <1>2 DEF Dial
  <2> QED BY <1>1, <2>1 DEF TypeInv, Ask, log, world
<1>5. InFlight' = InFlight /\ Authorized' = Authorized
  BY <1>3 DEF InFlight, Authorized
<1>6. JobInv'
  BY <1>1, <1>2, <1>3, <1>5 DEF JobInv
<1>7. \A r \in replies : r.id \in Nat /\ r.id <= dials
  BY DEF RepliesAnswer, TypeInv, Reply
<1>8. RepliesAnswer' /\ SoundAnswerTaken'
  BY <1>1, <1>2, <1>3, <1>7 DEF RepliesAnswer, SoundAnswerTaken
<1>9. FlightAlone' /\ AnchorsAsAsked'
  BY <1>3, <1>5 DEF FlightAlone, AnchorsAsAsked
<1> QED BY <1>4, <1>6, <1>8, <1>9

LEMMA DialTestnetKeeps ==
    ASSUME AnchorInv, DialTestnet
    PROVE  AnchorInv'
<1>1. size \in Tree /\ latest \in Nat /\ notes \subseteq Tree
  BY DEF AnchorInv, TypeInv
<1>2. PICK t \in NextTree : Ask(t, NoteFor(t), None)
  BY DEF DialTestnet
<1>3. t = size /\ InFlight = {}
  BY <1>2 DEF NextTree
<1>4. t \in Tree /\ NoteFor(t) \in Nat
  BY <1>1, <1>3, ScaleTypes DEF NoteFor
<1>5. net = "testnet"
  BY DEF DialTestnet
<1> QED BY <1>2, <1>3, <1>4, <1>5, AskKeeps

LEMMA DialMainnetKeeps ==
    ASSUME AnchorInv, DialMainnet
    PROVE  AnchorInv'
<1>1. size \in Tree /\ size \in Nat /\ params \in Params /\ clock \in Nat
  BY ScaleTypes DEF AnchorInv, TypeInv
<1>2. Frozen(PolicyOf(params, clock)) /\ PolicyOf(params, clock) \in Policy
  BY <1>1, PolicyFrozen DEF Frozen
<1>3. net = "mainnet" /\ Ask(size, size, PolicyOf(params, clock))
  BY DEF DialMainnet
<1> QED BY <1>1, <1>2, <1>3, AskKeeps

\* Replies to the request under way are added; nothing else changes.
LEMMA ReplyKeeps ==
    ASSUME AnchorInv, job.stage = "dial", NEW new \in Reply, new.id = job.id,
           new.sound => Accepts(job, new),
           replies' = replies \cup {new},
           UNCHANGED <<log, world, job, dials, rows, confirmed, outside>>
    PROVE  AnchorInv'
<1>1. TypeInv'
  BY DEF AnchorInv, TypeInv, log, world
<1>2. UNCHANGED <<net, job, dials, rows, confirmed, posted>>
  BY DEF world, outside
<1>3. InFlight' = InFlight /\ Authorized' = Authorized
  BY <1>2 DEF InFlight, Authorized
<1>4. JobInv' /\ FlightAlone' /\ AnchorsAsAsked'
  BY <1>2, <1>3 DEF AnchorInv, JobInv, FlightAlone, AnchorsAsAsked
<1>5. RepliesAnswer'
  BY <1>2 DEF AnchorInv, RepliesAnswer, JobInv
<1>6. SoundAnswerTaken'
  BY <1>2 DEF AnchorInv, SoundAnswerTaken
<1> QED BY <1>1, <1>4, <1>5, <1>6 DEF AnchorInv

LEMMA AnswerKeeps ==
    ASSUME AnchorInv, Answer
    PROVE  AnchorInv'
<1> DEFINE new == [id |-> job.id, size |-> job.size, root |-> "ours",
                   txn |-> Signs, mac |-> TRUE, sound |-> TRUE]
<1>1. job.stage = "dial" /\ job \in Dial /\ Signs \in Txn
  BY SignsType DEF Answer, AnchorInv
<1>2. new \in Reply
  BY <1>1 DEF Reply, Dial
<1>3. Binds(job, new) /\ Authentic(job, new)
  BY DEF Binds, Authentic
<1>4. ASSUME job.policy # None
      PROVE  MainAccepts(job, new)
  <2>1. Frozen(job.policy) /\ job.policy \in Policy /\ job.size \in Tree
    BY <1>1, <1>4 DEF AnchorInv, JobInv, TypeInv, Dial
  <2>2. Signs = Payment("mainnet", job.size, ParamsOf(job.policy))
    BY <1>1, <2>1, SignsFrozen DEF AnchorInv
  <2>3. ValidSigned(Signs, "mainnet", job.size, ParamsOf(job.policy))
    BY <2>1, <2>2, ParamsType, PaymentIsCanonical
  <2>4. Signs.fee = job.policy.fee /\ Signs.fv = job.policy.fv /\ Signs.lv = job.policy.lv
    BY <2>1, <2>2 DEF Payment, Frozen, ParamsOf
  <2> QED BY <1>3, <2>3, <2>4 DEF MainAccepts
<1>5. Accepts(job, new)
  BY <1>3, <1>4 DEF Accepts
<1>6. /\ replies' = replies \cup {new}
      /\ UNCHANGED <<log, world, job, dials, rows, confirmed, outside>>
  BY DEF Answer
<1>7. new.id = job.id
  OBVIOUS
<1> HIDE DEF new
<1> QED BY <1>1, <1>2, <1>5, <1>6, <1>7, ReplyKeeps

\* A transaction with one field wrong is still a transaction.
LEMMA SpoiledType ==
    ASSUME NEW x \in Txn, x.fee # None, NEW y \in Spoiled(x)
    PROVE  y \in Txn
<1>1. CASE \E k \in Kind \ {x.kind} : y = [x EXCEPT !.kind = k]
  BY <1>1 DEF Txn
<1>2. CASE \E n \in Network \ {x.net} : y = [x EXCEPT !.net = n]
  BY <1>2 DEF Txn
<1>3. CASE y = [x EXCEPT !.size = @ + 1]
  BY <1>3 DEF Txn
<1>4. CASE y = [x EXCEPT !.root = "other"]
  BY <1>4 DEF Txn
<1>5. CASE y = [x EXCEPT !.fee = @ + 1]
  <2>1. x.fee + 1 \in Nat
    BY DEF Txn
  <2> QED BY <1>5, <2>1, FeeChanged
<1>6. CASE y = [x EXCEPT !.fv = @ + 1]
  BY <1>6 DEF Txn
<1> QED BY <1>1, <1>2, <1>3, <1>4, <1>5, <1>6 DEF Spoiled

LEMMA AnswerWronglyKeeps ==
    ASSUME AnchorInv, AnswerWrongly
    PROVE  AnchorInv'
<1> DEFINE good == [id |-> job.id, size |-> job.size, root |-> "ours",
                    txn |-> Signs, mac |-> TRUE, sound |-> FALSE]
           Bad(r) == r \in Reply /\ r.id = job.id /\ ~r.sound
<1>1. job.stage = "dial" /\ job \in Dial /\ Signs \in Txn /\ Signs.fee # None
  BY SignsType DEF AnswerWrongly, AnchorInv
<1>2. PICK bad \in {[good EXCEPT !.root = "other"], [good EXCEPT !.mac = FALSE]}
                       \cup {[good EXCEPT !.txn = t] : t \in Spoiled(Signs)} :
          replies' = replies \cup {bad}
  BY DEF AnswerWrongly
<1>3. good \in Reply
  BY <1>1 DEF Reply, Dial
<1>4. ASSUME bad = [good EXCEPT !.root = "other"]
      PROVE  Bad(bad)
  <2>1. Bad([good EXCEPT !.root = "other"])
    BY <1>3 DEF Reply
  <2> QED BY <1>4, <2>1
<1>5. ASSUME bad = [good EXCEPT !.mac = FALSE]
      PROVE  Bad(bad)
  <2>1. Bad([good EXCEPT !.mac = FALSE])
    BY <1>3 DEF Reply
  <2> QED BY <1>5, <2>1
<1>6. ASSUME NEW t \in Spoiled(Signs), bad = [good EXCEPT !.txn = t]
      PROVE  Bad(bad)
  <2>1. t \in Txn
    BY <1>1, SpoiledType
  <2>2. Bad([good EXCEPT !.txn = t])
    BY <1>3, <2>1 DEF Reply
  <2> QED BY <1>6, <2>2
<1>7. Bad(bad)
  BY <1>2, <1>4, <1>5, <1>6
<1>8. UNCHANGED <<log, world, job, dials, rows, confirmed, outside>>
  BY DEF AnswerWrongly
<1> QED BY <1>1, <1>2, <1>7, <1>8, ReplyKeeps

\* A reply the router takes becomes the row of its tree.
LEMMA TakenKeeps ==
    ASSUME AnchorInv, job.stage = "dial", NEW r \in replies, Accepts(job, r),
           rows' = [rows EXCEPT ![job.size] = RowOf(job, r)],
           job' = IF net = "testnet" THEN [stage |-> "send", size |-> job.size] ELSE Idle,
           UNCHANGED <<log, world, signer, confirmed, outside>>
    PROVE  AnchorInv'
<1> DEFINE t == job.size
           row == RowOf(job, r)
<1>1. job \in Dial /\ r \in Reply
  BY SignsType DEF AnchorInv, TypeInv
<1>2. t \in Tree /\ job.note \in Nat /\ job.id \in Nat /\ job.policy \in Policy \cup {None}
  BY <1>1 DEF Dial
<1>3. r.txn \in Txn /\ r.id \in Nat
  BY <1>1 DEF Reply
<1>4. row \in Row
  BY <1>2, <1>3 DEF RowOf, Row
<1>5. row # NoRow
  <2>1. "id" \in DOMAIN row /\ "id" \notin DOMAIN NoRow
    BY DEF RowOf, NoRow
  <2> QED BY <2>1
<1>6. rows \in [Tree -> Row \cup {NoRow}]
  BY DEF AnchorInv, TypeInv
<1>7. rows' = [rows EXCEPT ![t] = row]
  OBVIOUS
<1>8. UNCHANGED <<net, dials, replies, confirmed, posted>>
  BY DEF world, signer, outside
<1>9. net \in Network
  BY DEF AnchorInv, TypeInv
<1>10. /\ row.answers = r.id /\ row.id = job.id /\ row.txn = r.txn
       /\ row.policy = job.policy
  BY DEF RowOf
<1> HIDE DEF row
<1>11. rows' \in [Tree -> Row \cup {NoRow}] /\ Authorized' = Authorized \cup {t}
  BY <1>2, <1>4, <1>5, <1>6, <1>7 DEF Authorized
<1>12. job' \in {Idle} \cup [stage: {"send"}, size: Tree]
  BY <1>2
<1>13. TypeInv'
  BY <1>11, <1>12 DEF AnchorInv, TypeInv, log, world, signer
<1>14. JobInv' /\ SoundAnswerTaken'
  BY <1>2, <1>8, <1>9, <1>11 DEF JobInv, SoundAnswerTaken, Idle
<1>15. RepliesAnswer'
  BY <1>8 DEF AnchorInv, RepliesAnswer
<1>16. FlightAlone'
  <2>1. ASSUME net = "testnet"
        PROVE  InFlight' \subseteq {t}
    <3>1. InFlight = {}
      BY <2>1 DEF AnchorInv, JobInv
    <3> QED BY <3>1, <1>8, <1>11 DEF InFlight
  <2> QED BY <2>1, <1>8 DEF FlightAlone
<1>17. ASSUME net = "mainnet"
       PROVE  /\ row.answers = row.id
              /\ row.txn = Payment("mainnet", t, ParamsOf(row.policy))
              /\ row.txn.fee = row.policy.fee
  <2>1. Frozen(job.policy) /\ job.policy \in Policy /\ job.policy # None
    BY <1>17, NoPolicyAssumption DEF AnchorInv, JobInv, Frozen
  <2>2. MainAccepts(job, r)
    BY <2>1 DEF Accepts
  <2>3. r.id = job.id /\ r.txn.fee = job.policy.fee
    BY <2>2 DEF MainAccepts, Authentic
  <2>4. r.txn = Payment("mainnet", t, ParamsOf(job.policy))
    BY <1>2, <1>3, <2>1, <2>2, ParamsType, CanonicalIsPayment DEF MainAccepts
  <2> QED BY <1>10, <2>3, <2>4
<1>18. \A u \in Tree : rows'[u] = IF u = t THEN row ELSE rows[u]
  BY <1>2, <1>6, <1>7
<1>19. AnchorsAsAsked'
  <2>1. ASSUME net = "mainnet", NEW u \in Authorized'
        PROVE  /\ rows'[u].answers = rows'[u].id
               /\ rows'[u].txn = Payment("mainnet", u, ParamsOf(rows'[u].policy))
               /\ rows'[u].txn.fee = rows'[u].policy.fee
    <3>1. CASE u = t
      BY <1>2, <1>17, <1>18, <2>1, <3>1
    <3>2. CASE u # t
      <4>1. u \in Authorized /\ u \in Tree
        BY <1>11, <2>1, <3>2 DEF Authorized
      <4> QED BY <4>1, <1>18, <2>1, <3>2 DEF AnchorInv, AnchorsAsAsked
    <3> QED BY <3>1, <3>2
  <2>2. \A p \in posted : /\ net = "testnet"
                          /\ Anchors(p[2], "testnet", p[1])
                          /\ p[2].fee <= MaxFee
    BY DEF AnchorInv, AnchorsAsAsked
  <2> QED BY <1>8, <2>1, <2>2 DEF AnchorsAsAsked
<1> QED BY <1>13, <1>14, <1>15, <1>16, <1>19 DEF AnchorInv

LEMMA ReceiveKeeps ==
    ASSUME AnchorInv, Receive
    PROVE  AnchorInv'
<1>1. job.stage = "dial" /\ UNCHANGED <<log, world, signer, confirmed, outside>>
  BY DEF Receive
<1>2. PICK r \in replies :
           IF Accepts(job, r)
           THEN /\ rows' = [rows EXCEPT ![job.size] = RowOf(job, r)]
                /\ job' = IF net = "testnet" THEN [stage |-> "send", size |-> job.size] ELSE Idle
           ELSE job' = Idle /\ UNCHANGED rows
  BY DEF Receive
<1>3. CASE Accepts(job, r)
  BY <1>1, <1>2, <1>3, TakenKeeps
<1>4. CASE ~Accepts(job, r)
  BY <1>1, <1>2, <1>4, IdleKeeps DEF outside
<1> QED BY <1>3, <1>4

LEMMA RecoverKeeps ==
    ASSUME AnchorInv, Recover
    PROVE  AnchorInv'
<1>1. /\ net = "testnet"
      /\ UNCHANGED <<log, world, signer, rows, confirmed, outside>>
  BY DEF Recover
<1>2. PICK t \in InFlight : job' = [stage |-> "send", size |-> t]
  BY DEF Recover
<1>3. t \in Authorized /\ t \in Tree
  BY <1>2 DEF InFlight, Authorized
<1>4. UNCHANGED <<net, dials, replies, rows, confirmed, posted>>
  BY <1>1 DEF world, signer, outside
<1>5. InFlight' = InFlight /\ Authorized' = Authorized
  BY <1>4 DEF InFlight, Authorized
<1>6. TypeInv'
  BY <1>1, <1>2, <1>3 DEF AnchorInv, TypeInv, log, world, signer
<1>7. JobInv' /\ SoundAnswerTaken'
  BY <1>1, <1>2, <1>3, <1>4, <1>5 DEF JobInv, SoundAnswerTaken
<1>8. RepliesAnswer' /\ FlightAlone' /\ AnchorsAsAsked'
  BY <1>4, <1>5 DEF AnchorInv, RepliesAnswer, FlightAlone, AnchorsAsAsked
<1> QED BY <1>6, <1>7, <1>8 DEF AnchorInv

\* What is sent is the row's transaction, once it has been validated again.
LEMMA SendKeeps ==
    ASSUME AnchorInv, Send
    PROVE  AnchorInv'
<1> DEFINE t == job.size
           txn == rows[t].txn
<1>1. /\ job.stage = "send" /\ job' = Idle
      /\ UNCHANGED <<log, world, signer, confirmed, chain>>
  BY DEF Send
<1>2. net = "testnet" /\ t \in Authorized /\ t \in Tree
  BY <1>1 DEF AnchorInv, JobInv, Authorized
<1>3. rows \in [Tree -> Row \cup {NoRow}] /\ rows[t] \in Row
  BY <1>2 DEF AnchorInv, TypeInv, Authorized
<1>4. UNCHANGED <<net, dials, replies, confirmed>>
  BY <1>1 DEF world, signer
<1>5. rows' \in [Tree -> Row \cup {NoRow}] /\ Authorized' = Authorized
  <2>1. rows' \in {rows, [rows EXCEPT ![t].submitted = TRUE]}
    BY DEF Send
  <2>2. [rows[t] EXCEPT !.submitted = TRUE] \in Row
    BY <1>3 DEF Row
  <2>3. \A x \in Row : x # NoRow
    <3>1. ASSUME NEW x \in Row
          PROVE  "id" \in DOMAIN x
      BY DEF Row
    <3>2. "id" \notin DOMAIN NoRow
      BY DEF NoRow
    <3> QED BY <3>1, <3>2
  <2>4. CASE rows' = rows
    BY <1>3, <2>4 DEF Authorized
  <2>5. CASE rows' = [rows EXCEPT ![t].submitted = TRUE]
    <3>1. rows' = [rows EXCEPT ![t] = [rows[t] EXCEPT !.submitted = TRUE]]
      BY <2>5
    <3> QED BY <1>2, <1>3, <2>2, <2>3, <3>1 DEF Authorized
  <2> QED BY <2>1, <2>4, <2>5
<1>6. TypeInv'
  BY <1>1, <1>5 DEF AnchorInv, TypeInv, log, world, signer
<1>7. JobInv' /\ SoundAnswerTaken'
  BY <1>1 DEF JobInv, SoundAnswerTaken, Idle
<1>8. RepliesAnswer' /\ FlightAlone'
  BY <1>4, <1>5 DEF AnchorInv, RepliesAnswer, FlightAlone, InFlight
<1>9. \A p \in posted' : p \in posted \/ (/\ p = <<t, txn>>
                                          /\ ValidSigned(txn, "testnet", t, None))
  BY DEF Send
<1>10. ASSUME ValidSigned(txn, "testnet", t, None)
       PROVE  Anchors(txn, "testnet", t) /\ txn.fee <= MaxFee
  <2>1. Anchors(txn, "testnet", t) /\ txn.fee \in FalconMin(BaseMin)..MaxFee
    BY <1>10 DEF ValidSigned
  <2> QED BY <2>1, ScaleTypes DEF FalconMin, BaseMin
<1> HIDE DEF t, txn
<1>11. AnchorsAsAsked'
  <2>1. ASSUME NEW p \in posted'
        PROVE  Anchors(p[2], "testnet", p[1]) /\ p[2].fee <= MaxFee
    <3>1. CASE p \in posted
      BY <3>1 DEF AnchorInv, AnchorsAsAsked
    <3>2. CASE p = <<t, txn>> /\ ValidSigned(txn, "testnet", t, None)
      BY <3>2, <1>10
    <3> QED BY <1>9, <3>1, <3>2
  <2> QED BY <1>2, <1>4, <2>1 DEF AnchorsAsAsked
<1> QED BY <1>6, <1>7, <1>8, <1>11 DEF AnchorInv

\* A confirmation only takes anchors out of flight.
LEMMA ConfirmKeeps ==
    ASSUME AnchorInv, Confirm
    PROVE  AnchorInv'
<1>1. /\ net = "testnet" /\ job = Idle
      /\ UNCHANGED <<log, world, job, signer, rows, outside>>
  BY DEF Confirm
<1>2. confirmed' \in InFlight
  BY DEF Confirm
<1>3. confirmed' \in Nat /\ confirmed' > confirmed /\ confirmed \in Nat
  BY <1>2, ScaleTypes DEF InFlight, Authorized, AnchorInv, TypeInv
<1>4. UNCHANGED <<net, dials, replies, rows, posted>>
  BY <1>1 DEF world, signer, outside
<1>5. Authorized' = Authorized
  BY <1>4 DEF Authorized
<1>6. InFlight' \subseteq InFlight
  <2>1. \A t \in Authorized : t \in Nat
    BY ScaleTypes DEF Authorized
  <2> QED BY <1>3, <1>5, <2>1 DEF InFlight
<1>7. TypeInv'
  BY <1>1, <1>3 DEF AnchorInv, TypeInv, log, world, signer
<1>8. JobInv' /\ SoundAnswerTaken'
  BY <1>1 DEF JobInv, SoundAnswerTaken, Idle
<1>9. RepliesAnswer' /\ FlightAlone' /\ AnchorsAsAsked'
  BY <1>4, <1>5, <1>6 DEF AnchorInv, RepliesAnswer, FlightAlone, AnchorsAsAsked
<1> QED BY <1>7, <1>8, <1>9 DEF AnchorInv

LEMMA InitAnchor ==
    ASSUME Init
    PROVE  AnchorInv
<1>1. TypeInv
  <2>1. params \in Params
    <3>1. params \in [last: {1}, min: {BaseMin}, perByte: PerByte]
      BY DEF Init
    <3>2. PerByte \subseteq Nat /\ BaseMin \in Nat
      BY BoundAssumption DEF BaseMin
    <3>3. params.last \in Nat /\ params.min \in Nat /\ params.perByte \in Nat
      <4>1. params.last \in {1} /\ params.min \in {BaseMin} /\ params.perByte \in PerByte
        BY <3>1
      <4>2. params.last \in Nat
        BY <4>1
      <4>3. params.min \in Nat
        BY <4>1, <3>2
      <4>4. params.perByte \in Nat
        BY <4>1, <3>2
      <4> QED BY <4>2, <4>3, <4>4
    <3>4. params = [last |-> params.last, min |-> params.min, perByte |-> params.perByte]
      BY <3>1
    <3> QED BY <3>3, <3>4 DEF Params
  <2>2. size \in Tree
    BY ScaleTypes DEF Init, Tree
  <2> QED BY <2>1, <2>2 DEF Init, TypeInv
<1>2. Authorized = {} /\ InFlight = {}
  BY DEF Init, Authorized, InFlight
<1> QED BY <1>1, <1>2 DEF Init, AnchorInv, JobInv, RepliesAnswer, FlightAlone,
                          AnchorsAsAsked, SoundAnswerTaken, Idle

LEMMA StepAnchor ==
    ASSUME AnchorInv, [Next]_vars
    PROVE  AnchorInv'
<1>1. CASE Append
  <2>1. TypeInv'
    BY <1>1, ScaleTypes DEF Append, AnchorInv, TypeInv, world, signer, Tree, BoundAssumption
  <2> QED BY <1>1, <2>1, WorldKeeps DEF Append, AnchorInv, world, outside
<1>2. CASE Publish
  <2>1. TypeInv'
    <3>1. 1..size \subseteq Tree
      BY ScaleTypes DEF AnchorInv, TypeInv, Tree
    <3> QED BY <1>2, <3>1, ScaleTypes DEF Publish, AnchorInv, TypeInv, world, signer
  <2> QED BY <1>2, <2>1, WorldKeeps DEF Publish, AnchorInv, world, outside
<1>3. CASE RoundPasses
  <2>1. PICK f \in Nat : params' = [params EXCEPT !.last = @ + 1, !.perByte = f]
    <3>1. PerByte \subseteq Nat /\ params.perByte \in Nat
      BY BoundAssumption DEF AnchorInv, TypeInv, Params
    <3> QED BY <1>3, <3>1 DEF RoundPasses
  <2>2. params' \in Params
    <3>1. params \in Params
      BY DEF AnchorInv, TypeInv
    <3>2. [params EXCEPT !.last = @ + 1] \in Params
      BY <3>1 DEF Params
    <3>3. params' = [[params EXCEPT !.last = @ + 1] EXCEPT !.perByte = f]
      BY <2>1
    <3> QED BY <3>2, <3>3 DEF Params
  <2>3. TypeInv'
    BY <1>3, <2>2 DEF RoundPasses, AnchorInv, TypeInv, log, signer
  <2> QED BY <1>3, <2>3, WorldKeeps DEF RoundPasses, AnchorInv, outside
<1>4. CASE ClockTick
  <2>1. TypeInv'
    BY <1>4 DEF ClockTick, AnchorInv, TypeInv, log, signer
  <2> QED BY <1>4, <2>1, WorldKeeps DEF ClockTick, AnchorInv, outside
<1>5. CASE Include
  <2>1. TypeInv'
    BY <1>5 DEF Include, AnchorInv, TypeInv, log, world, signer
  <2> QED BY <1>5, <2>1, WorldKeeps DEF Include, AnchorInv, world
<1>6. CASE GiveUp
  BY <1>6, IdleKeeps DEF GiveUp, outside
<1>7. CASE UNCHANGED vars
  <2>1. TypeInv'
    BY <1>7 DEF vars, AnchorInv, TypeInv, log, world, signer
  <2> QED BY <1>7, <2>1, WorldKeeps DEF vars, AnchorInv, world, outside
<1> QED BY <1>1, <1>2, <1>3, <1>4, <1>5, <1>6, <1>7, DialTestnetKeeps, DialMainnetKeeps,
           AnswerKeeps, AnswerWronglyKeeps, ReceiveKeeps, RecoverKeeps, SendKeeps,
           ConfirmKeeps DEF Next

\* AnchorInv holds in every reachable state.
LEMMA AnchorInvHolds == Spec => []AnchorInv
BY InitAnchor, StepAnchor, PTL DEF Spec

-----------------------------------------------------------------------------

\* What a MainNet row holds is the answer to the request the router recorded,
\* at the fee and window that request froze, and algod is only handed anchors
\* of their own tree within the fee cap (request_signed, validate_signed_txn).
THEOREM StoredAsAsked == Spec => []AnchorsAsAsked
<1>1. AnchorInv => AnchorsAsAsked
  BY DEF AnchorInv
<1> QED BY <1>1, AnchorInvHolds, PTL

\* The router takes the answer of every signer that keeps the contract: each
\* derives fee and window for itself (required_fee, params_from_fee_policy).
THEOREM SoundNeverRefused == Spec => []SoundAnswerTaken
<1>1. AnchorInv => SoundAnswerTaken
  BY DEF AnchorInv
<1> QED BY <1>1, AnchorInvHolds, PTL

\* On TestNet at most one tree is signed for and unconfirmed (should_build,
\* in_flight_authorized), whatever dies, is lost or is sent again.
THEOREM OneAnchorAtATime == Spec => []OneInFlight
<1>1. ASSUME AnchorInv
      PROVE  OneInFlight
  <2>1. CASE InFlight = {}
    BY <2>1, FS_EmptySet DEF OneInFlight
  <2>2. ASSUME NEW t \in InFlight, net = "testnet"
        PROVE  Cardinality(InFlight) <= 1
    <3>1. InFlight = {t}
      BY <1>1, <2>2 DEF AnchorInv, FlightAlone
    <3>2. Cardinality({t}) = 1
      BY FS_Singleton
    <3> QED BY <3>1, <3>2
  <2> QED BY <2>1, <2>2 DEF OneInFlight
<1> QED BY <1>1, AnchorInvHolds, PTL
=============================================================================
