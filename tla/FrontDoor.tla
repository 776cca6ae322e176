----------------------------- MODULE FrontDoor -----------------------------
(***************************************************************************)
(* The HTTP front of the router (src/live402/server.py, http_body.py): a   *)
(* connection gets one of MaxHandlers worker slots before its thread is    *)
(* created, or a 503; the thread reads one request under a socket timeout, *)
(* charges it to a sliding-window limiter, reads its body under a deadline *)
(* and hands it to a handler.  The server speaks HTTP/1.0, so a connection *)
(* carries one request and ends with it.                                   *)
(*                                                                         *)
(* Time is kept as ages and as ticks left, so nothing has a horizon: a hit *)
(* is [0 .. Window] ticks old (Window and more is expired), a recv has     *)
(* Patience ticks left.  time.monotonic() is read just before the limiter  *)
(* takes its lock, and a tick is far longer than that, so one call of      *)
(* allow is one step.  What the handlers do is the other modules'.         *)
(***************************************************************************)
EXTENDS Naturals, Sequences, FiniteSets, SequencesExt

CONSTANTS
    Conn,         \* connections the listener may have at once
    Client,       \* client addresses
    Kind,         \* the kinds of request a run sends, a subset of Kinds
    MaxHandlers,  \* LIVE402_MAX_HANDLERS
    MaxKeys,      \* RATE_LIMIT_MAX_KEYS
    Cap,          \* limiter -> requests in a window (route_rpm, public_rpm, ...)
    Window,       \* the sliding window, in ticks
    Patience,     \* REQUEST_TIMEOUT and BODY_DEADLINE_SECONDS (both 3 s), in ticks
    Pieces        \* how often a head, or a body, may stop short before it is complete

ASSUME FrontDoorAssumption ==
    /\ {MaxHandlers, MaxKeys, Window, Patience} \subseteq Nat \ {0}
    /\ Pieces \in Nat
    /\ \A l \in DOMAIN Cap : Cap[l] \in Nat \ {0}

VARIABLES
    free,     \* permits of the handler semaphore
    conn,     \* connection -> what its thread is doing
    hits,     \* limiter -> its OrderedDict: <<[key, ages]>>, least recent first
    started   \* history: limiter -> client key -> ages of the requests let in

vars == <<free, conn, hits, started>>

----------------------------------------------------------------------------
\* What a path asks for, in the order the handler asks: the limiter it is
\* charged to ("none": not limited), when ("first", or "read": an /mcp call is
\* known only from its body), and whether it carries a body.
Kinds ==
    [route       |-> [limiter |-> "route",   when |-> "first", body |-> TRUE],
     mcp_route   |-> [limiter |-> "route",   when |-> "read",  body |-> TRUE],
     mcp_preview |-> [limiter |-> "preview", when |-> "read",  body |-> TRUE],
     mcp_check   |-> [limiter |-> "validate",when |-> "read",  body |-> TRUE],
     mcp_other   |-> [limiter |-> "none",    when |-> "read",  body |-> TRUE],
     post_check  |-> [limiter |-> "validate",when |-> "first", body |-> TRUE],
     check       |-> [limiter |-> "validate",when |-> "first", body |-> FALSE],
     preview     |-> [limiter |-> "preview", when |-> "first", body |-> FALSE],
     rails       |-> [limiter |-> "public",  when |-> "first", body |-> FALSE],
     pulse       |-> [limiter |-> "public",  when |-> "first", body |-> FALSE],
     page        |-> [limiter |-> "none",    when |-> "first", body |-> FALSE]]

\* Every limiter a request may be charged to has its budget.
ASSUME LimiterAssumption ==
    /\ Kind \subseteq DOMAIN Kinds
    /\ \A k \in Kind : Kinds[k].limiter \in DOMAIN Cap \cup {"none"}

\* Whose hits a request adds to: the public limiter counts each path of a
\* client on its own, the others the client.
Key(who, k) == IF Kinds[k].limiter = "public" THEN <<who, k>> ELSE <<who>>
LimiterKeys == {<<w>> : w \in Client} \cup (Client \X Kind)

----------------------------------------------------------------------------
(* The limiter.                                                            *)

\* The hits that are still in the window, in their order.
Live(ages) ==
    LET kept[n \in 0..Len(ages)] ==
            IF n = 0 THEN <<>>
            ELSE IF ages[n] < Window THEN Append(kept[n - 1], ages[n])
            ELSE kept[n - 1]
    IN  kept[Len(ages)]
Entry(t, key) == {i \in DOMAIN t : t[i].key = key}
Ages(t, key) == IF Entry(t, key) = {} THEN <<>>
                ELSE t[CHOOSE i \in Entry(t, key) : TRUE].ages
Without(t, key) == IF Entry(t, key) = {} THEN t
                   ELSE RemoveAt(t, CHOOSE i \in Entry(t, key) : TRUE)
AtEnd(t, key, ages) == Append(Without(t, key), [key |-> key, ages |-> ages])
Pruned(e) == [e EXCEPT !.ages = Live(@)]

\* _prune_key: drop what is older than the window; a live key is the most
\* recent one now, a dead key is gone.
PruneKey(t, key) ==
    IF Live(Ages(t, key)) = <<>> THEN Without(t, key)
    ELSE AtEnd(t, key, Live(Ages(t, key)))

\* Faulty: room is made by forgetting the oldest key, dead or not.
EvictOldest(t) == Tail(t)
\* _evict, of a full table: prune the keys in order and stop at the first dead
\* one, which makes room (the live ones before it have moved to the end); if
\* none is dead, the oldest is forgotten although it is live.
Dead(t)  == {i \in DOMAIN t : Live(t[i].ages) = <<>>}
Evict(t) ==
    IF Dead(t) = {} THEN Tail([i \in DOMAIN t |-> Pruned(t[i])])
    ELSE LET n == CHOOSE i \in Dead(t) : \A j \in Dead(t) : i <= j
         IN  SubSeq(t, n + 1, Len(t))
                 \o [i \in 1..(n - 1) |-> Pruned(t[i])]

\* allow: the table after it, and whether the request passes.  (The second
\* _evict of the code, for a table grown past max_keys, never runs: the first
\* has made room.)
Allow(l, key) ==
    LET t1 == PruneKey(hits[l], key)
        t2 == IF Len(t1) >= MaxKeys /\ Entry(t1, key) = {} THEN Evict(t1) ELSE t1
        mine == Ages(t2, key)
    IN  IF Len(mine) >= Cap[l] THEN [ok |-> FALSE, table |-> t2]
        ELSE [ok |-> TRUE, table |-> AtEnd(t2, key, Append(mine, 0))]

HasLive(t, key) == Live(Ages(t, key)) # <<>>

----------------------------------------------------------------------------
Away == [phase |-> "none"]
In(phase) == [phase |-> phase]
Holding == {"starting", "head", "body", "work", "ending"}

Init ==
    /\ free = MaxHandlers
    /\ conn = [c \in Conn |-> Away]
    /\ hits = [l \in DOMAIN Cap |-> <<>>]
    /\ started = [l \in DOMAIN Cap |-> [key \in LimiterKeys |-> <<>>]]

\* process_request: a slot is taken without waiting, before the thread exists;
\* without one the socket gets a 503 and is closed.  (Whose connection it is
\* matters, and is chosen, when its request is read.)
Accept(c) ==
    /\ conn[c].phase = "none"
    /\ IF free = 0
       THEN conn' = [conn EXCEPT ![c] = In("busy")] /\ UNCHANGED free
       ELSE /\ free' = free - 1
            /\ conn' = [conn EXCEPT ![c] = In("starting")]
    /\ UNCHANGED <<hits, started>>

\* thread.start: the request thread runs, or the slot is given back.  It waits
\* for the head: `left` is what remains of the timeout of its recv, `more` the
\* pieces that may still come (lines, headers and bodies are bounded).
StartThread(c) ==
    /\ conn[c].phase = "starting"
    /\ conn' = [conn EXCEPT ![c] =
           [phase |-> "head", left |-> Patience, more |-> Pieces]]
    /\ UNCHANGED <<free, hits, started>>
\* Faulty: a thread that cannot start keeps its slot.
StartFailsHolding(c) ==
    /\ conn[c].phase = "starting"
    /\ conn' = [conn EXCEPT ![c] = Away]
    /\ UNCHANGED <<free, hits, started>>
StartFails(c) ==
    /\ conn[c].phase = "starting"
    /\ conn' = [conn EXCEPT ![c] = Away]
    /\ free' = free + 1
    /\ UNCHANGED <<hits, started>>

\* What the thread does once a request of kind k is let in.  A body is due
\* within BODY_DEADLINE_SECONDS.
Going(w, k, next) ==
    IF next = "work" THEN In("work")
    ELSE [phase |-> next, who |-> w, kind |-> k, left |-> Patience, more |-> Pieces,
          due |-> Patience]

\* The accounts of limiter l after a request of `key` was let in (or not), its
\* table now t: a key that was forgotten alive starts a new account.
Noted(l, key, in, t) ==
    [x \in LimiterKeys |->
        LET kept == IF HasLive(hits[l], x) /\ ~HasLive(t, x) THEN <<>> ELSE started[l][x]
        IN  IF x = key /\ in THEN Append(kept, 0) ELSE kept]

\* The request is charged to its limiter, and goes on if it passes; a 429 closes.
Charge(c, w, k, next) ==
    LET l == Kinds[k].limiter
        key == Key(w, k)
        a == Allow(l, key)
    IN  /\ hits' = [hits EXCEPT ![l] = a.table]
        /\ started' = [started EXCEPT ![l] = Noted(l, key, a.ok, a.table)]
        /\ conn' = [conn EXCEPT ![c] = IF a.ok THEN Going(w, k, next) ELSE In("ending")]

\* It goes on uncharged: it has no limiter, or its body is needed to know.
Pass(c, w, k, next) ==
    LET l == Kinds[k].limiter
    IN  /\ conn' = [conn EXCEPT ![c] = Going(w, k, next)]
        /\ started' = IF l = "none" \/ next = "body" THEN started
                      ELSE [started EXCEPT ![l] =
                               Noted(l, Key(w, k), TRUE, hits[l])]
        /\ UNCHANGED hits

\* do_GET, do_HEAD, do_POST: the request line and headers are in.  /route and
\* /validate are charged before their body is read, /mcp after.
Dispatch(c, w, k) ==
    LET next == IF Kinds[k].body THEN "body" ELSE "work"
    IN  /\ conn[c].phase = "head" /\ conn[c].left > 0
        /\ IF Kinds[k].limiter # "none" /\ Kinds[k].when = "first"
           THEN Charge(c, w, k, next) ELSE Pass(c, w, k, next)
        /\ UNCHANGED free

\* A POST to a path that is not served, or to a private store: refused, and
\* closed with its body unread.
Refuse(c) ==
    /\ conn[c].phase = "head" /\ conn[c].left > 0
    /\ conn' = [conn EXCEPT ![c] = In("ending")]
    /\ UNCHANGED <<free, hits, started>>

\* Faulty: a paid /mcp call is not charged once its body is known.
ReadBodyFree(c) ==
    /\ conn[c].phase = "body" /\ conn[c].left > 0 /\ conn[c].due > 0
    /\ Pass(c, conn[c].who, conn[c].kind, "work")
    /\ UNCHANGED free
\* read_json_object: the whole body is in, and read_exactly, which looks at the
\* clock before and after rfile.read but not while it blocks, is in time.
ReadBody(c) ==
    /\ conn[c].phase = "body" /\ conn[c].left > 0 /\ conn[c].due > 0
    /\ LET k == conn[c].kind
       IN  IF Kinds[k].limiter # "none" /\ Kinds[k].when = "read"
           THEN Charge(c, conn[c].who, k, "work")
           ELSE conn' = [conn EXCEPT ![c] = In("work")] /\ UNCHANGED <<hits, started>>
    /\ UNCHANGED free

\* The body is refused: no or two Content-Lengths, a Transfer-Encoding, too
\* many bytes or too few, no JSON object, complete only after the deadline.
BodyRefused(c) ==
    /\ conn[c].phase = "body"
    /\ conn' = [conn EXCEPT ![c] = In("ending")]
    /\ UNCHANGED <<free, hits, started>>

\* A piece of the head or of the body comes: the next recv has the whole timeout.
\* rfile buffers and reads on, whatever deadline has passed meanwhile.
Drip(c) ==
    /\ conn[c].phase \in {"head", "body"} /\ conn[c].left > 0 /\ conn[c].more > 0
    /\ conn' = [conn EXCEPT ![c].left = Patience, ![c].more = @ - 1]
    /\ UNCHANGED <<free, hits, started>>

\* Faulty: only a body is read under a timeout, not a request line.
SilenceBody(c) ==
    /\ conn[c].phase = "body" /\ conn[c].left = 0
    /\ conn' = [conn EXCEPT ![c] = In("ending")]
    /\ UNCHANGED <<free, hits, started>>
\* The client says nothing for REQUEST_TIMEOUT: recv raises in the thread.
Silence(c) ==
    /\ conn[c].phase \in {"head", "body"} /\ conn[c].left = 0
    /\ conn' = [conn EXCEPT ![c] = In("ending")]
    /\ UNCHANGED <<free, hits, started>>

\* The handler answers, or it or a read raises (a reset, a broken pipe).
Answer(c) ==
    /\ conn[c].phase = "work"
    /\ conn' = [conn EXCEPT ![c] = In("ending")]
    /\ UNCHANGED <<free, hits, started>>
Raise(c) ==
    /\ conn[c].phase \in {"head", "body"}
    /\ conn' = [conn EXCEPT ![c] = In("ending")]
    /\ UNCHANGED <<free, hits, started>>

\* The finally of run(): the slot comes back however the request ended.
Release(c) ==
    /\ conn[c].phase = "ending"
    /\ conn' = [conn EXCEPT ![c] = Away]
    /\ free' = free + 1
    /\ UNCHANGED <<hits, started>>

\* The socket that got the 503 is closed.
Gone(c) ==
    /\ conn[c].phase = "busy"
    /\ conn' = [conn EXCEPT ![c] = Away]
    /\ UNCHANGED <<free, hits, started>>

Less(n) == IF n > 0 THEN n - 1 ELSE 0
Waited(t) == CASE t.phase = "head" -> [t EXCEPT !.left = Less(@)]
               [] t.phase = "body" -> [t EXCEPT !.left = Less(@), !.due = Less(@)]
               [] OTHER -> t
Older(a) == IF a < Window THEN a + 1 ELSE a
Tick ==
    /\ conn' = [c \in Conn |-> Waited(conn[c])]
    /\ hits' = [l \in DOMAIN Cap |-> [i \in DOMAIN hits[l] |->
           [hits[l][i] EXCEPT !.ages = [j \in DOMAIN @ |-> Older(@[j])]]]]
    /\ started' = [l \in DOMAIN Cap |-> [key \in LimiterKeys |->
           Live([j \in DOMAIN started[l][key] |-> Older(started[l][key][j])])]]
    /\ UNCHANGED free

Thread(c) == StartThread(c) \/ StartFails(c) \/ Silence(c) \/ Answer(c) \/ Release(c)
Next ==
    \/ \E c \in Conn : Accept(c)
    \/ \E c \in Conn, w \in Client, k \in Kind : Dispatch(c, w, k)
    \/ \E c \in Conn : \/ StartThread(c) \/ StartFails(c) \/ Silence(c)
                       \/ Answer(c) \/ Release(c) \/ Refuse(c) \/ Drip(c) \/ ReadBody(c)
                       \/ BodyRefused(c) \/ Raise(c) \/ Gone(c)
    \/ Tick

Spec == Init /\ [][Next]_vars
\* A thread that can run does, handlers return (route.py works to a deadline)
\* and time passes.  Nothing is asked of a client: it may say nothing more, or
\* drip its bytes just before each timeout.
LiveSpec == Spec /\ WF_vars(Tick) /\ \A c \in Conn : WF_vars(Thread(c))

----------------------------------------------------------------------------
\* Every slot is free or held by one connection, however a request ends: a
\* thread that never starts, a timeout, a handler that raises (process_request
\* releases in run()'s finally and when thread.start fails).
SlotsConserved ==
    free + Cardinality({c \in Conn : conn[c].phase \in Holding}) = MaxHandlers

\* In any window a client is let in at most Cap times by a limiter, whatever mix
\* of paths it used: POST /route and a paid /mcp call share one account, charged
\* before the body of the one and after the body of the other.  (An account
\* restarts only when the full table had to forget it: see the next property.)
WindowKept ==
    \A l \in DOMAIN Cap, key \in LimiterKeys : Len(started[l][key]) <= Cap[l]

\* A limiter forgets a client that still has hits in its window only when every
\* place of the table is taken by a client that has some (_evict clears dead
\* keys first).
LiveForgottenOnlyWhenFull ==
    [][\A l \in DOMAIN Cap, key \in LimiterKeys :
          HasLive(hits[l], key) /\ Entry(hits'[l], key) = {}
          => /\ Len(hits'[l]) = MaxKeys
             /\ \A i \in DOMAIN hits'[l] : Live(hits'[l][i].ages) # <<>>]_vars

\* A slot that is taken comes back, even if the client connects and says nothing,
\* or stops anywhere in its head or body: setup() puts every recv under
\* REQUEST_TIMEOUT, and what a request may send is bounded.  (It is not back by a
\* deadline: a client that drips holds it for as many timeouts as it has pieces.)
SlotComesBack ==
    \A c \in Conn : conn[c].phase \in Holding ~> conn[c].phase \notin Holding
=============================================================================
