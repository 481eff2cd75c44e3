--------------------------- MODULE EditSetProofs ----------------------------
(***************************************************************************)
(* For every source and every number of edits: comparing neighbours finds  *)
(* every conflict, writing never slices backwards, and what                *)
(* retain_non_overlapping keeps can be applied.                            *)
(***************************************************************************)
EXTENDS EditSet, SequenceTheorems, TLAPS

\* apply worked on the edits there are, in order, and compared neighbours.
AppliedInOrder ==
    Ran => /\ \E f \in ApplyOrders(edits) : sorted = Arranged(edits, f)
           /\ out.ok <=> ~Clashes(sorted)

IInv ==
    /\ edits \in Seq(Edit)
    /\ AppliedInOrder

-----------------------------------------------------------------------------

\* The facts about one edit the provers need.
LEMMA EditTypes ==
    ASSUME NEW e \in Edit
    PROVE  e.start \in Nat /\ e.end \in Nat /\ e.start <= e.end
<1>1. Len(Source) \in Nat
  BY SourceAssumption
<1> QED
  BY <1>1 DEF Edit, Offsets

\* An edit that starts at or after another, and before a third that the
\* first overlaps, overlaps the first: an overlap is never hidden from
\* neighbours.
LEMMA OverlapReachesNeighbour ==
    ASSUME NEW a \in Edit, NEW b \in Edit, NEW c \in Edit,
           a.start < b.start \/ (a.start = b.start /\ a.end <= b.end),
           b.start < c.start \/ (b.start = c.start /\ b.end <= c.end),
           Overlaps(a, c)
    PROVE  Overlaps(a, b)
BY EditTypes DEF Overlaps

\* Edits in order that do not overlap do not run into each other.
LEMMA InOrderApart ==
    ASSUME NEW a \in Edit, NEW b \in Edit,
           a.start < b.start \/ (a.start = b.start /\ a.end <= b.end),
           ~Overlaps(a, b)
    PROVE  a.end <= b.start
BY EditTypes DEF Overlaps

\* What sorting the edits for apply gives.
LEMMA SortedFacts ==
    ASSUME NEW s \in Seq(Edit), NEW f \in ApplyOrders(s)
    PROVE  /\ Len(s) \in Nat
           /\ f \in [1 .. Len(s) -> 1 .. Len(s)]
           /\ \A i, j \in 1 .. Len(s) : f[i] = f[j] => i = j
           /\ \A i \in 1 .. Len(s) : \E k \in 1 .. Len(s) : f[k] = i
           /\ Arranged(s, f) \in Seq(Edit)
           /\ Len(Arranged(s, f)) = Len(s)
           /\ \A k \in 1 .. Len(s) : Arranged(s, f)[k] = s[f[k]] /\ s[f[k]] \in Edit
           /\ \A i, j \in 1 .. Len(s) : i < j =>
                  \/ s[f[i]].start < s[f[j]].start
                  \/ s[f[i]].start = s[f[j]].start /\ s[f[i]].end <= s[f[j]].end
<1>1. Len(s) \in Nat
  OBVIOUS
<1>2. /\ f \in [1 .. Len(s) -> 1 .. Len(s)]
      /\ \A i, j \in 1 .. Len(s) : f[i] = f[j] => i = j
      /\ \A i \in 1 .. Len(s) : \E k \in 1 .. Len(s) : f[k] = i
      /\ \A i, j \in 1 .. Len(s) : i < j => Before(s, f[i], f[j])
  BY DEF ApplyOrders, Reorderings
<1>3. \A k \in 1 .. Len(s) : s[f[k]] \in Edit
  BY <1>1, <1>2, ElementOfSeq
<1>4. Arranged(s, f) \in [1 .. Len(s) -> Edit]
  BY <1>3 DEF Arranged
<1>5. Arranged(s, f) \in Seq(Edit) /\ Len(Arranged(s, f)) = Len(s)
  BY <1>1, <1>4, LenProperties
<1>6. \A i, j \in 1 .. Len(s) : i < j =>
                  \/ s[f[i]].start < s[f[j]].start
                  \/ s[f[i]].start = s[f[j]].start /\ s[f[i]].end <= s[f[j]].end
  <2> SUFFICES ASSUME NEW i \in 1 .. Len(s), NEW j \in 1 .. Len(s), i < j
               PROVE  \/ s[f[i]].start < s[f[j]].start
                      \/ s[f[i]].start = s[f[j]].start /\ s[f[i]].end <= s[f[j]].end
    OBVIOUS
  <2>1. /\ s[f[i]].start \in Nat /\ s[f[j]].start \in Nat
        /\ s[f[i]].end \in Nat /\ s[f[j]].end \in Nat
    BY <1>3, EditTypes
  <2>2. Before(s, f[i], f[j])
    BY <1>2
  <2> QED
    BY <2>1, <2>2 DEF Before
<1> QED
  BY <1>1, <1>2, <1>3, <1>5, <1>6 DEF Arranged

\* Comparing neighbours of the sorted edits finds every overlap of the set.
LEMMA NeighboursSuffice ==
    ASSUME NEW s \in Seq(Edit), NEW f \in ApplyOrders(s)
    PROVE  Clashes(Arranged(s, f)) <=> \E i, j \in DOMAIN s : i # j /\ Overlaps(s[i], s[j])
<1> DEFINE t == Arranged(s, f)
<1>0. DOMAIN s = 1 .. Len(s)
  OBVIOUS
<1>1. /\ Len(s) \in Nat /\ Len(t) = Len(s) /\ DOMAIN s = 1 .. Len(s)
      /\ f \in [1 .. Len(s) -> 1 .. Len(s)]
      /\ \A i, j \in 1 .. Len(s) : f[i] = f[j] => i = j
      /\ \A i \in 1 .. Len(s) : \E k \in 1 .. Len(s) : f[k] = i
  BY <1>0, SortedFacts, Zenon
<1>4. \A k \in 1 .. Len(s) : t[k] = s[f[k]] /\ s[f[k]] \in Edit
  BY SortedFacts, Zenon
<1>5. \A i, j \in 1 .. Len(s) : i < j =>
          \/ s[f[i]].start < s[f[j]].start
          \/ s[f[i]].start = s[f[j]].start /\ s[f[i]].end <= s[f[j]].end
  BY SortedFacts, Zenon
<1> HIDE DEF t
<1>2. ASSUME Clashes(t)
      PROVE  \E i, j \in DOMAIN s : i # j /\ Overlaps(s[i], s[j])
  <2>1. PICK k \in 1 .. Len(t) - 1 : Overlaps(t[k], t[k + 1])
    BY <1>2 DEF Clashes
  <2>2. k \in 1 .. Len(s) /\ k + 1 \in 1 .. Len(s) /\ k # k + 1
    BY <2>1, <1>1
  <2>3. f[k] # f[k + 1] /\ f[k] \in DOMAIN s /\ f[k + 1] \in DOMAIN s
    BY <2>2, <1>1
  <2>4. Overlaps(s[f[k]], s[f[k + 1]])
    BY <2>1, <2>2, <1>4
  <2> QED
    BY <2>3, <2>4
<1>3. ASSUME NEW i \in DOMAIN s, NEW j \in DOMAIN s, i # j, Overlaps(s[i], s[j])
      PROVE  Clashes(t)
  <2>1. PICK p \in 1 .. Len(s) : f[p] = i
    BY <1>1
  <2>2. PICK q \in 1 .. Len(s) : f[q] = j
    BY <1>1
  <2>3. p # q /\ t[p] = s[i] /\ t[q] = s[j]
    BY <2>1, <2>2, <1>3, <1>4
  <2>4. ASSUME NEW m \in 1 .. Len(s), NEW n \in 1 .. Len(s), m < n, Overlaps(t[m], t[n])
        PROVE  Clashes(t)
    <3>1. m \in 1 .. Len(t) - 1 /\ m + 1 \in 1 .. Len(s)
      BY <2>4, <1>1
    <3>2. CASE m + 1 = n
      BY <3>1, <3>2, <2>4 DEF Clashes
    <3>3. CASE m + 1 # n
      <4>1. m + 1 < n /\ m < m + 1
        BY <3>1, <3>3, <2>4, <1>1
      <4>2. t[m] \in Edit /\ t[m + 1] \in Edit /\ t[n] \in Edit
        BY <1>4, <3>1
      <4>3. /\ t[m].start < t[m + 1].start \/ (t[m].start = t[m + 1].start /\ t[m].end <= t[m + 1].end)
            /\ t[m + 1].start < t[n].start \/ (t[m + 1].start = t[n].start /\ t[m + 1].end <= t[n].end)
        <5>1. t[m] = s[f[m]] /\ t[m + 1] = s[f[m + 1]] /\ t[n] = s[f[n]]
          BY <1>4, <3>1
        <5>2. /\ \/ s[f[m]].start < s[f[m + 1]].start
                 \/ s[f[m]].start = s[f[m + 1]].start /\ s[f[m]].end <= s[f[m + 1]].end
              /\ \/ s[f[m + 1]].start < s[f[n]].start
                 \/ s[f[m + 1]].start = s[f[n]].start /\ s[f[m + 1]].end <= s[f[n]].end
          BY <1>5, <3>1, <4>1, Zenon
        <5> QED
          BY <5>1, <5>2
      <4>4. Overlaps(t[m], t[m + 1])
        BY <4>2, <4>3, <2>4, OverlapReachesNeighbour
      <4> QED
        BY <3>1, <4>4 DEF Clashes
    <3> QED
      BY <3>2, <3>3
  <2>5. Overlaps(t[q], t[p]) /\ Overlaps(t[p], t[q])
    BY <2>3, <1>3 DEF Overlaps
  <2>6. p < q \/ q < p
    BY <2>3, <1>1
  <2> QED
    BY <2>4, <2>5, <2>6
<1> QED
  BY <1>2, <1>3 DEF t

\* A filtered sequence of edits is a sequence of edits.
LEMMA FilteredTypes ==
    ASSUME NEW s \in Seq(Edit), NEW S \in SUBSET (1 .. Len(s)), NEW t \in Filtered(s, S)
    PROVE  t \in Seq(Edit)
<1>0. PICK n \in 0 .. Len(s) : t \in {[k \in 1 .. n |-> s[f[k]]] : f \in Increasing(n, S)}
  BY DEF Filtered
<1>1. PICK f \in Increasing(n, S) : t = [k \in 1 .. n |-> s[f[k]]]
  BY <1>0
<1>2. Len(s) \in Nat /\ n \in Nat
  OBVIOUS
<1>3. \A k \in 1 .. n : s[f[k]] \in Edit
  BY <1>2, ElementOfSeq DEF Increasing
<1> QED
  BY <1>1, <1>2, <1>3

\* The edits stay edits, and apply leaves what it worked on.
LEMMA NextOk ==
    ASSUME IInv, [Next]_vars
    PROVE  IInv'
<1> USE DEF IInv
<1>1. ASSUME NEW s \in Seq(Edit), Changed(s)
      PROVE  IInv'
  <2>1. edits' \in Seq(Edit) /\ sorted' = <<>> /\ edits' = s
    BY <1>1 DEF Changed
  <2>2. ~Ran'
    <3>1. CASE s = <<>>
      BY <3>1, <2>1 DEF Ran
    <3>2. CASE s # <<>>
      <4>1. Len(s) # 0
        BY <3>2
      <4> QED
        BY <4>1, <2>1 DEF Ran
    <3> QED
      BY <3>1, <3>2
  <2> QED
    BY <2>1, <2>2 DEF AppliedInOrder
<1>2. CASE Push
  <2>1. PICK e \in Edit : Changed(Append(edits, e))
    BY <1>2 DEF Push
  <2>2. Append(edits, e) \in Seq(Edit)
    OBVIOUS
  <2> QED
    BY <1>1, <2>1, <2>2
<1>3. CASE Normalize
  <2>1. {k \in DOMAIN edits : Effective(edits, k)} \in SUBSET (1 .. Len(edits))
    OBVIOUS
  <2> QED
    BY <1>1, <1>3, <2>1, FilteredTypes DEF Normalize
<1>4. CASE RetainNonOverlapping
  <2>1. PICK f \in RetainOrders(edits) :
            \E K \in SUBSET (1 .. Len(edits)) :
                Greedy(Arranged(edits, f), K) /\ \E t \in Filtered(Arranged(edits, f), K) : Changed(t)
    BY <1>4 DEF RetainNonOverlapping
  <2>2. f \in [1 .. Len(edits) -> 1 .. Len(edits)] /\ Len(edits) \in Nat
    BY DEF RetainOrders, Reorderings
  <2>3. \A k \in 1 .. Len(edits) : edits[f[k]] \in Edit
    BY <2>2, ElementOfSeq
  <2>4. Arranged(edits, f) \in Seq(Edit) /\ Len(Arranged(edits, f)) = Len(edits)
    BY <2>2, <2>3 DEF Arranged
  <2> QED
    BY <1>1, <2>1, <2>4, FilteredTypes
<1>5. CASE Apply
  <2>1. PICK f \in ApplyOrders(edits) : sorted' = Arranged(edits, f)
    BY <1>5 DEF Apply, Order
  <2>2. edits' = edits /\ (out'.ok <=> ~Clashes(sorted'))
    BY <1>5 DEF Apply, Ok, EditConflict
  <2>3. ApplyOrders(edits') = ApplyOrders(edits) /\ Arranged(edits', f) = Arranged(edits, f)
    BY <2>2
  <2> QED
    BY <2>1, <2>2, <2>3 DEF AppliedInOrder
<1>6. CASE UNCHANGED vars
  BY <1>6 DEF vars, AppliedInOrder, Ran
<1> QED
  BY <1>2, <1>3, <1>4, <1>5, <1>6 DEF Next

\* What apply worked on is in order, so past the comparison of neighbours
\* the cursor only advances.
LEMMA AdvancesOk ==
    ASSUME IInv
    PROVE  CursorAdvances
<1> SUFFICES ASSUME Ran, out.ok, NEW k \in 1 .. Len(sorted) - 1
             PROVE  sorted[k].end <= sorted[k + 1].start
  BY DEF CursorAdvances
<1>1. PICK f \in ApplyOrders(edits) : sorted = Arranged(edits, f)
  BY DEF IInv, AppliedInOrder
<1>2. ~Overlaps(sorted[k], sorted[k + 1])
  BY DEF IInv, AppliedInOrder, Clashes
<1>3. edits \in Seq(Edit)
  BY DEF IInv
<1>4. /\ Len(edits) \in Nat /\ Len(sorted) = Len(edits)
      /\ \A i \in 1 .. Len(edits) : sorted[i] = edits[f[i]] /\ edits[f[i]] \in Edit
  <2>1. /\ Len(edits) \in Nat
        /\ \A i \in 1 .. Len(edits) : Arranged(edits, f)[i] = edits[f[i]] /\ edits[f[i]] \in Edit
    BY <1>3, SortedFacts, Zenon
  <2> QED
    BY <1>1, <2>1 DEF Ran
<1>5. \A i, j \in 1 .. Len(edits) : i < j =>
          \/ edits[f[i]].start < edits[f[j]].start
          \/ edits[f[i]].start = edits[f[j]].start /\ edits[f[i]].end <= edits[f[j]].end
  BY <1>3, SortedFacts, Zenon
<1>6. k \in 1 .. Len(edits) /\ k + 1 \in 1 .. Len(edits) /\ k < k + 1
  BY <1>4
<1>7. \/ edits[f[k]].start < edits[f[k + 1]].start
      \/ edits[f[k]].start = edits[f[k + 1]].start /\ edits[f[k]].end <= edits[f[k + 1]].end
  BY <1>5, <1>6, Zenon
<1>8. /\ sorted[k] = edits[f[k]] /\ sorted[k + 1] = edits[f[k + 1]]
      /\ edits[f[k]] \in Edit /\ edits[f[k + 1]] \in Edit
  BY <1>4, <1>6
<1> QED
  BY <1>2, <1>7, <1>8, InOrderApart

\* apply reports a conflict exactly when there is one.
LEMMA ConflictOk ==
    ASSUME IInv
    PROVE  ConflictExact
<1> SUFFICES ASSUME Ran PROVE out.ok <=> Disjoint
  BY DEF ConflictExact
<1>1. PICK f \in ApplyOrders(edits) : sorted = Arranged(edits, f)
  BY DEF IInv, AppliedInOrder
<1>2. out.ok <=> ~Clashes(Arranged(edits, f))
  BY <1>1 DEF IInv, AppliedInOrder
<1>3. Clashes(Arranged(edits, f)) <=> \E i, j \in DOMAIN edits : i # j /\ Overlaps(edits[i], edits[j])
  BY NeighboursSuffice DEF IInv
<1> QED
  BY <1>2, <1>3 DEF Disjoint

\* Every state of a set of edits (crates/core/src/edit.rs) satisfies the
\* invariant.
THEOREM EditSetInvariant == Spec => []IInv
<1>1. Init => IInv
  BY DEF Init, IInv, AppliedInOrder, Ran
<1>2. IInv /\ [Next]_vars => IInv'
  BY NextOk
<1> QED
  BY <1>1, <1>2, PTL DEF Spec

\* EditSet::apply fails exactly when two edits of the set overlap, although
\* it compares neighbours only.
THEOREM ConflictsAreExact == Spec => []ConflictExact
<1>1. IInv => ConflictExact
  BY ConflictOk
<1> QED
  BY <1>1, EditSetInvariant, PTL

\* EditSet::apply never slices backwards.
THEOREM CursorOnlyAdvances == Spec => []CursorAdvances
<1>1. IInv => CursorAdvances
  BY AdvancesOk
<1> QED
  BY <1>1, EditSetInvariant, PTL

\* What the greedy loop keeps does not overlap, comes from the set, and
\* leaves out only what it overlaps.
LEMMA RetainOk ==
    ASSUME IInv, RetainNonOverlapping
    PROVE  /\ Disjoint'
           /\ \A j \in DOMAIN edits' : \E i \in DOMAIN edits : edits[i] = edits'[j]
           /\ \A i \in DOMAIN edits : \E j \in DOMAIN edits' :
                 edits[i] = edits'[j] \/ Overlaps(edits[i], edits'[j])
<1>1. PICK f \in RetainOrders(edits) :
          \E K \in SUBSET (1 .. Len(edits)) :
              Greedy(Arranged(edits, f), K) /\ \E t \in Filtered(Arranged(edits, f), K) : Changed(t)
  BY DEF RetainNonOverlapping
<1> DEFINE s == Arranged(edits, f)
<1>2. PICK K \in SUBSET (1 .. Len(edits)) : Greedy(s, K) /\ \E t \in Filtered(s, K) : Changed(t)
  BY <1>1
<1>3. edits' \in Filtered(s, K)
  BY <1>2 DEF Changed
<1>4. /\ Len(edits) \in Nat /\ DOMAIN edits = 1 .. Len(edits)
      /\ f \in [1 .. Len(edits) -> 1 .. Len(edits)]
      /\ \A i \in 1 .. Len(edits) : \E k \in 1 .. Len(edits) : f[k] = i
  BY DEF IInv, RetainOrders, Reorderings
<1>5. /\ Len(s) = Len(edits)
      /\ \A k \in 1 .. Len(edits) : s[k] = edits[f[k]]
  BY <1>4 DEF Arranged
<1> HIDE DEF s
<1>6. PICK n \in 0 .. Len(s) : edits' \in {[k \in 1 .. n |-> s[g[k]]] : g \in Increasing(n, K)}
  BY <1>3 DEF Filtered
<1>7. PICK g \in Increasing(n, K) : edits' = [k \in 1 .. n |-> s[g[k]]]
  BY <1>6
<1>8. /\ n \in Nat /\ DOMAIN edits' = 1 .. n
      /\ g \in [1 .. n -> K]
      /\ \A i, j \in 1 .. n : i < j => g[i] < g[j]
      /\ \A i \in K : \E k \in 1 .. n : g[k] = i
      /\ \A k \in 1 .. n : edits'[k] = s[g[k]]
  BY <1>4, <1>5, <1>6, <1>7 DEF Increasing
<1>9. \A k \in 1 .. Len(edits) : k \in K <=> \A i \in K : i < k => ~Overlaps(s[i], s[k])
  BY <1>2, <1>5 DEF Greedy
<1>10. \A i, j \in K : i < j => ~Overlaps(s[i], s[j])
  BY <1>9
<1>11. \A i, j \in 1 .. n : i < j => ~Overlaps(edits'[i], edits'[j])
  <2> SUFFICES ASSUME NEW i \in 1 .. n, NEW j \in 1 .. n, i < j
               PROVE  ~Overlaps(edits'[i], edits'[j])
    OBVIOUS
  <2>1. g[i] \in K /\ g[j] \in K /\ g[i] < g[j]
    BY <1>8
  <2>2. ~Overlaps(s[g[i]], s[g[j]])
    BY <2>1, <1>10
  <2> QED
    BY <2>2, <1>8
<1>12. Disjoint'
  <2> SUFFICES ASSUME NEW i \in DOMAIN edits', NEW j \in DOMAIN edits', i # j
               PROVE  ~Overlaps(edits'[i], edits'[j])
    BY DEF Disjoint
  <2>1. CASE i < j
    BY <2>1, <1>8, <1>11
  <2>2. CASE j < i
    <3>1. ~Overlaps(edits'[j], edits'[i])
      BY <2>2, <1>8, <1>11
    <3> QED
      BY <3>1 DEF Overlaps
  <2>3. i < j \/ j < i
    BY <1>8
  <2> QED
    BY <2>1, <2>2, <2>3
<1>13. ASSUME NEW j \in DOMAIN edits'
       PROVE  \E i \in DOMAIN edits : edits[i] = edits'[j]
  <2>1. g[j] \in 1 .. Len(edits) /\ edits'[j] = s[g[j]]
    BY <1>8
  <2>2. s[g[j]] = edits[f[g[j]]] /\ f[g[j]] \in DOMAIN edits
    BY <2>1, <1>4, <1>5
  <2> QED
    BY <2>1, <2>2
<1>14. ASSUME NEW i \in DOMAIN edits
       PROVE  \E j \in DOMAIN edits' : edits[i] = edits'[j] \/ Overlaps(edits[i], edits'[j])
  <2>1. PICK p \in 1 .. Len(edits) : f[p] = i
    BY <1>4
  <2>2. s[p] = edits[i]
    BY <2>1, <1>5
  <2>3. CASE p \in K
    <3>1. PICK j \in 1 .. n : g[j] = p
      BY <2>3, <1>8
    <3> QED
      BY <3>1, <2>2, <1>8
  <2>4. CASE p \notin K
    <3>1. PICK q \in K : Overlaps(s[q], s[p])
      BY <2>4, <1>9
    <3>2. PICK j \in 1 .. n : g[j] = q
      BY <1>8
    <3>3. Overlaps(s[p], s[q])
      BY <3>1 DEF Overlaps
    <3> QED
      BY <3>2, <3>3, <2>2, <1>8
  <2> QED
    BY <2>3, <2>4
<1> QED
  BY <1>12, <1>13, <1>14

\* EditSet::retain_non_overlapping keeps a maximal set of edits that apply
\* accepts.
THEOREM RetainsAreMaximal == Spec => RetainsMaximal
<1>1. IInv /\ [Next]_vars =>
        [RetainNonOverlapping =>
            /\ Disjoint'
            /\ \A j \in DOMAIN edits' : \E i \in DOMAIN edits : edits[i] = edits'[j]
            /\ \A i \in DOMAIN edits : \E j \in DOMAIN edits' :
                  edits[i] = edits'[j] \/ Overlaps(edits[i], edits'[j])]_vars
  BY RetainOk
<1> QED
  BY <1>1, EditSetInvariant, PTL DEF Spec, RetainsMaximal
=============================================================================
