------------------------------ MODULE PaidOnce ------------------------------
(***************************************************************************)
(* What the paid route promises the holder of a payment authorization:     *)
(* the authorization is sent to be settled at most once, and nobody who    *)
(* presents it is told something about the money that is not so.           *)
(***************************************************************************)
CONSTANTS
    Auth,       \* economic authorizations
    Req,        \* requests that may be answered
    NoAnswer    \* a request nobody has answered

VARIABLES
    phase,      \* Auth -> how far the authorization's money has gone
    answer      \* Req -> NoAnswer, or the authorization and what was said

Phases == {"fresh", "void", "posted", "charged", "declined"}

vars == <<phase, answer>>

Init ==
    /\ phase \in [Auth -> Phases \ {"void"}]
    /\ answer = [r \in Req |-> NoAnswer]

\* The one time the authorization goes to the facilitator.
Post(a) ==
    /\ phase[a] = "fresh"
    /\ phase' = [phase EXCEPT ![a] = "posted"]
    /\ UNCHANGED answer

\* The facilitator decides, in its own time, perhaps after everyone gave up.
Resolve(a) ==
    /\ phase[a] = "posted"
    /\ \E d \in {"charged", "declined"} : phase' = [phase EXCEPT ![a] = d]
    /\ UNCHANGED answer

\* "settled": only of money that has moved.
AnswerSettled(r, a) ==
    /\ answer[r] = NoAnswer
    /\ phase[a] = "charged"
    /\ answer' = [answer EXCEPT ![r] = [auth |-> a, settled |-> "yes"]]
    /\ UNCHANGED phase

\* "not settled": only of money that has not moved, and from then on cannot.
AnswerNotSettled(r, a) ==
    /\ answer[r] = NoAnswer
    /\ phase[a] \in {"fresh", "void", "declined"}
    /\ phase' = [phase EXCEPT ![a] = IF @ = "fresh" THEN "void" ELSE @]
    /\ answer' = [answer EXCEPT ![r] = [auth |-> a, settled |-> "no"]]

\* "unknown", or an answer that does not speak of the money (HTTP 400).
AnswerOpen(r, a) ==
    /\ answer[r] = NoAnswer
    /\ answer' = [answer EXCEPT ![r] = [auth |-> a, settled |-> "null"]]
    /\ UNCHANGED phase

Next ==
    \/ \E a \in Auth : Post(a) \/ Resolve(a)
    \/ \E r \in Req, a \in Auth :
           AnswerSettled(r, a) \/ AnswerNotSettled(r, a) \/ AnswerOpen(r, a)

Spec == Init /\ [][Next]_vars
=============================================================================
