------------------------------- MODULE Merkle -------------------------------
(***************************************************************************)
(* The RFC 9162 tree of live402/pq/merkle.py over a free algebra of        *)
(* hashes: two hashes are equal exactly when they were built alike, which  *)
(* is what collision resistance gives the code.                            *)
(*                                                                         *)
(* A range <<a, b>> stands for the subtree over the leaves a .. b-1, as in *)
(* tree_hashes(start_idx, end_idx).  A cache is a function from ranges to  *)
(* hashes.  Recursion is written as recursive functions over ranges.       *)
(***************************************************************************)
EXTENDS Naturals, Sequences, SequencesExt, Functions

\* A table after rows are written to it, those of equal key replaced.
Written(rows, table) ==
  [k \in DOMAIN rows \cup DOMAIN table |-> IF k \in DOMAIN rows THEN rows[k] ELSE table[k]]
Row(key, value) == [k \in {key} |-> value]

EmptyRoot == << >>
LeafHash(body) == <<body>>
NodeHash(left, right) == <<left, right>>

\* largest_power_of_two_less_than: k is doubled as long as it stays below n.
Split(n) ==
  LET double[k \in 1..n] == IF 2 * k < n THEN double[2 * k] ELSE k
  IN  double[1]

Width(r) == r[2] - r[1]
Left(r)  == <<r[1], r[1] + Split(Width(r))>>
Right(r) == <<r[1] + Split(Width(r)), r[2]>>
Ranges(n) == {r \in (0..n) \X (0..n) : r[1] < r[2]}

\* mth_from_leaf_hashes: the root over a sequence of leaf hashes, no cache.
RootOf(hashes) ==
  LET mth[r \in Ranges(Len(hashes))] ==
        IF Width(r) = 1 THEN hashes[r[2]] ELSE NodeHash(mth[Left(r)], mth[Right(r)])
  IN  IF hashes = << >> THEN EmptyRoot ELSE mth[<<0, Len(hashes)>>]

----------------------------------------------------------------------------
(* mth_range with a cache. *)

\* The uncached ranges the recursion from r visits.
Missing(cache, r) ==
  LET visit[q \in Ranges(r[2])] ==
        IF q \in DOMAIN cache THEN {}
        ELSE {q} \cup (IF Width(q) = 1 THEN {} ELSE visit[Left(q)] \cup visit[Right(q)])
  IN  visit[r]

\* The hash of r; an uncached leaf is read from the leaf hashes.
RangeHash(cache, hashes, r) ==
  LET val[q \in Ranges(r[2])] ==
        IF q \in DOMAIN cache THEN cache[q]
        ELSE IF Width(q) = 1 THEN hashes[q[2]]
        ELSE NodeHash(val[Left(q)], val[Right(q)])
  IN  val[r]

\* What store_range leaves in the cache when its rows for the ranges K are kept.
Stored(cache, hashes, K) ==
  Written([q \in K |-> RangeHash(cache, hashes, q)], cache)

\* The rows an append of leaf s-1 may get to: that leaf's first, then each range
\* after its two halves.  No other uncached leaf is stored: incremental_root gives
\* mth_range no leaf_at, and "missing leaf hash" is raised.
Storable(cache, s) ==
  LET new == <<s - 1, s>>
      visited == {new} \cup Missing(cache, <<0, s>>)
  IN  {{}} \cup
      {K \in SUBSET visited :
         /\ new \in K
         /\ \A q \in K \ {new} : Width(q) > 1 /\ {Left(q), Right(q)} \subseteq K \cup DOMAIN cache}

----------------------------------------------------------------------------
(* Inclusion: sibling ranges from the leaf up, and the verifier's fold. *)

Siblings(m, n) ==
  LET sib[r \in Ranges(n)] ==
        IF Width(r) = 1 THEN << >>
        ELSE IF m < Left(r)[2] THEN Append(sib[Left(r)], Right(r))
        ELSE Append(sib[Right(r)], Left(r))
  IN  sib

InclusionRanges(m, n) == Siblings(m, n)[<<0, n>>]

InclusionPath(cache, hashes, m, n) ==
  LET rs == InclusionRanges(m, n)
  IN  [i \in DOMAIN rs |-> RangeHash(cache, hashes, rs[i])]

\* root_from_inclusion takes the path from its end: below the root of r it uses as
\* many nodes as r is levels above leaf m.  A path of another length is refused, and
\* EmptyRoot, which no tree of n >= 1 leaves has, says so.
RootFromInclusion(m, n, leaf, path) ==
  LET sib == Siblings(m, n)
      fold[r \in Ranges(n)] ==
        IF Width(r) = 1 THEN leaf
        ELSE IF m < Left(r)[2] THEN NodeHash(fold[Left(r)], path[Len(sib[r])])
        ELSE NodeHash(path[Len(sib[r])], fold[Right(r)])
  IN  IF Len(path) # Len(InclusionRanges(m, n)) THEN EmptyRoot ELSE fold[<<0, n>>]

VerifyInclusion(m, leaf, path, root, n) ==
  /\ m < n
  /\ RootFromInclusion(m, n, leaf, path) = root

----------------------------------------------------------------------------
(* Consistency: PROOF(m, D[n]) and the iterative verifier. *)

\* The subtrees the recursion of PROOF may come to: those with leaf m - 1.
Around(m, n) == {r \in Ranges(n) : r[1] < m /\ m <= r[2]}

ConsistencyRanges(m, n) ==
  LET sub[r \in Around(m, n)] ==
        IF m = r[2] THEN (IF r[1] = 0 THEN << >> ELSE <<r>>)
        ELSE IF m <= Left(r)[2] THEN Append(sub[Left(r)], Right(r))
        ELSE Append(sub[Right(r)], Left(r))
  IN  IF m = 0 THEN << >> ELSE sub[<<0, n>>]

ConsistencyPath(cache, hashes, m, n) ==
  LET rs == ConsistencyRanges(m, n)
  IN  [i \in DOMAIN rs |-> RangeHash(cache, hashes, rs[i])]

Odds == {k \in Nat : k % 2 = 1}

\* Both positions go up a level as long as the first is in C.
Raised(C, fn, sn) ==
  LET up[p \in (0..fn) \X (0..sn)] ==
        IF p[1] \in C THEN up[<<p[1] \div 2, p[2] \div 2>>] ELSE p
  IN  up[<<fn, sn>>]
\* "while fn & 1" and "while not (fn & 1) and fn > 0".
PastOnes(fn, sn)  == Raised(Odds, fn, sn)
PastZeros(fn, sn) == Raised(Nat \ ({0} \cup Odds), fn, sn)

VerifyStep(s, c) ==
  IF s.sn = 0 THEN [s EXCEPT !.ok = FALSE]
  ELSE IF s.fn \in Odds \/ s.fn = s.sn
    THEN LET p == PastZeros(s.fn, s.sn)
         IN  [fn |-> p[1] \div 2, sn |-> p[2] \div 2, ok |-> s.ok,
              fr |-> NodeHash(c, s.fr), sr |-> NodeHash(c, s.sr)]
    ELSE [fn |-> s.fn \div 2, sn |-> s.sn \div 2, ok |-> s.ok,
          fr |-> s.fr, sr |-> NodeHash(s.sr, c)]

\* Where the loop over the path begins, and what it ends with; the first node is
\* both roots unless the old tree is a left edge of the new one.
VerifyStart(m, n, oldRoot, path) ==
  LET p == PastOnes(m - 1, n - 1)
      first == IF p[1] > 0 THEN path[1] ELSE oldRoot
  IN  [fn |-> p[1], sn |-> p[2], ok |-> TRUE, fr |-> first, sr |-> first]
VerifyEnd(start, path) ==
  LET skip == IF start.fn > 0 THEN 1 ELSE 0
      run[k \in skip..Len(path)] == IF k = skip THEN start ELSE VerifyStep(run[k - 1], path[k])
  IN  run[Len(path)]

VerifyConsistency(m, n, oldRoot, newRoot, path) ==
  IF m > n THEN FALSE
  ELSE IF m = n THEN oldRoot = newRoot /\ path = << >>
  ELSE IF m = 0 THEN path = << >>
  ELSE IF path = << >> THEN FALSE
  ELSE LET end == VerifyEnd(VerifyStart(m, n, oldRoot, path), path)
       IN  end.ok /\ end.fr = oldRoot /\ end.sr = newRoot /\ end.sn = 0

=============================================================================
