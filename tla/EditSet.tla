------------------------------ MODULE EditSet -------------------------------
(***************************************************************************)
(* Edits of one source text (crates/core/src/edit.rs): a set is pushed to, *)
(* normalised, thinned to edits that do not overlap, and applied.          *)
(*                                                                         *)
(* The source and the texts are sequences of bytes.  An edit replaces the  *)
(* bytes start + 1 to end, in TLA+'s numbering; with start = end it is an  *)
(* insertion.  `edits' is in push order, as the Vec is.                    *)
(***************************************************************************)
EXTENDS Naturals, Sequences

CONSTANTS
    Bytes,          \* the bytes of texts
    Source,         \* the source text
    Inserted,       \* the texts an edit may put in
    MaxEdits        \* a bound on the pushes

ASSUME SourceAssumption ==
    /\ Source \in Seq(Bytes)
    /\ Inserted \subseteq Seq(Bytes)

ASSUME MaxEditsAssumption == MaxEdits \in Nat

VARIABLES
    edits,          \* the set
    sorted,         \* the edits apply works on, in its order
    out             \* what apply returned last

vars == <<edits, sorted, out>>

Offsets == 0 .. Len(Source)
Edit == {e \in [start : Offsets, end : Offsets, text : Inserted] : e.start <= e.end}

Ok(text) == [ok |-> TRUE, text |-> text]
EditConflict == [ok |-> FALSE]

Overlaps(a, b) == a.start < b.end /\ b.start < a.end

(***************************************************************************)
(* Sorting.  Both sorts are total on positions: a stable sort leaves equal *)
(* edits in push order.                                                    *)
(***************************************************************************)
Reorderings(n) ==
    {f \in [1 .. n -> 1 .. n] :
        /\ \A i, j \in 1 .. n : f[i] = f[j] => i = j
        /\ \A i \in 1 .. n : \E k \in 1 .. n : f[k] = i}

Before_StartOnly(s, i, j) == s[i].start < s[j].start \/ (s[i].start = s[j].start /\ i < j)

\* apply: by start, then end, then push order.
Before(s, i, j) ==
    \/ s[i].start < s[j].start
    \/ s[i].start = s[j].start /\ s[i].end < s[j].end
    \/ s[i].start = s[j].start /\ s[i].end = s[j].end /\ i < j

\* retain_non_overlapping: by start, then the longer one.
Wins(s, i, j) ==
    \/ s[i].start < s[j].start
    \/ s[i].start = s[j].start /\ s[i].end > s[j].end
    \/ s[i].start = s[j].start /\ s[i].end = s[j].end /\ i < j

ApplyOrders(s) ==
    {f \in Reorderings(Len(s)) : \A i, j \in 1 .. Len(s) : i < j => Before(s, f[i], f[j])}

RetainOrders(s) ==
    {f \in Reorderings(Len(s)) : \A i, j \in 1 .. Len(s) : i < j => Wins(s, f[i], f[j])}

Arranged(s, f) == [k \in 1 .. Len(s) |-> s[f[k]]]

(***************************************************************************)
(* Filtering.  A kept part is given by the positions it keeps, in order.   *)
(***************************************************************************)
Increasing(n, S) ==
    {f \in [1 .. n -> S] :
        /\ \A i, j \in 1 .. n : i < j => f[i] < f[j]
        /\ \A i \in S : \E k \in 1 .. n : f[k] = i}

Filtered(s, S) == UNION {{[k \in 1 .. n |-> s[f[k]]] : f \in Increasing(n, S)} : n \in 0 .. Len(s)}

Effective_Insertion(s, k) == s[k].start # s[k].end /\ \A i \in 1 .. k - 1 : s[i] # s[k]

\* An edit that changes something, and the first of its kind.
Effective(s, k) ==
    /\ SubSeq(Source, s[k].start + 1, s[k].end) # s[k].text
    /\ \A i \in 1 .. k - 1 : s[i] # s[k]

Greedy_Neighbour(s, K) ==
    \A k \in 1 .. Len(s) : k \in K <=> (k = 1 \/ (k - 1 \in K => ~Overlaps(s[k - 1], s[k])))

\* K is what the greedy loop keeps of a sorted s: whatever overlaps nothing
\* kept before it.
Greedy(s, K) == \A k \in 1 .. Len(s) : k \in K <=> \A i \in K : i < k => ~Overlaps(s[i], s[k])

(***************************************************************************)
(* What apply writes: before each edit the source from the end of the edit *)
(* before, and the rest of the source at the end.                          *)
(***************************************************************************)
Cursor_Start(s, k) == IF k = 0 THEN 0 ELSE s[k].start

Cursor(s, k) == IF k = 0 THEN 0 ELSE s[k].end

Written(s) ==
    LET written[k \in 0 .. Len(s)] ==
            IF k = 0 THEN <<>>
            ELSE written[k - 1] \o SubSeq(Source, Cursor(s, k - 1) + 1, s[k].start) \o s[k].text
    IN  written[Len(s)] \o SubSeq(Source, Cursor(s, Len(s)) + 1, Len(Source))

Clashes(s) == \E k \in 1 .. Len(s) - 1 : Overlaps(s[k], s[k + 1])

TypeOK ==
    /\ edits \in Seq(Edit)
    /\ Len(edits) <= MaxEdits
    /\ sorted \in Seq(Edit)
    /\ out.ok => out.text \in Seq(Bytes)

Changed(s) ==
    /\ edits' = s
    /\ sorted' = <<>>
    /\ out' = Ok(<<>>)

Init ==
    /\ edits = <<>>
    /\ sorted = <<>>
    /\ out = Ok(<<>>)

Push ==
    /\ Len(edits) < MaxEdits
    /\ \E e \in Edit : Changed(Append(edits, e))

Normalize == \E s \in Filtered(edits, {k \in DOMAIN edits : Effective(edits, k)}) : Changed(s)

RetainNonOverlapping ==
    \E f \in RetainOrders(edits) :
        LET s == Arranged(edits, f)
        IN  \E K \in SUBSET (1 .. Len(edits)) : Greedy(s, K) /\ \E t \in Filtered(s, K) : Changed(t)

Order == \E f \in ApplyOrders(edits) : sorted' = Arranged(edits, f)

Apply ==
    /\ Order
    /\ out' = IF Clashes(sorted') THEN EditConflict ELSE Ok(Written(sorted'))
    /\ UNCHANGED edits

Next == Push \/ Normalize \/ RetainNonOverlapping \/ Apply

Spec == Init /\ [][Next]_vars

-----------------------------------------------------------------------------
(***************************************************************************)
(* Properties.                                                             *)
(***************************************************************************)

\* apply has run on the edits there are.
Ran == edits # <<>> /\ Len(sorted) = Len(edits)

Disjoint == \A i, j \in DOMAIN edits : i # j => ~Overlaps(edits[i], edits[j])

\* apply compares neighbours only, and that is enough: it reports a conflict
\* exactly when some two edits of the set claim a byte.
ConflictExact == Ran => (out.ok <=> Disjoint)

\* Writing never slices backwards: past the conflict check every edit starts
\* where the one before it ended, or later.  A slice with cursor > start
\* would panic.
CursorAdvances ==
    (Ran /\ out.ok) => \A k \in 1 .. Len(sorted) - 1 : sorted[k].end <= sorted[k + 1].start

\* retain_non_overlapping keeps a maximal part of the set: its edits do not
\* overlap, and whatever it drops overlaps one it keeps.
RetainsMaximal ==
    [][RetainNonOverlapping =>
        /\ Disjoint'
        /\ \A j \in DOMAIN edits' : \E i \in DOMAIN edits : edits[i] = edits'[j]
        /\ \A i \in DOMAIN edits : \E j \in DOMAIN edits' :
              edits[i] = edits'[j] \/ Overlaps(edits[i], edits'[j])]_vars
=============================================================================
