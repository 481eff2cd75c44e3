------------------------------- MODULE Sorting --------------------------------
(* The sorting rules of the linter (crates/lint/src/rules/perfectionist): the *)
(* order they want, what they report, the fix they attach, and the rounds of  *)
(* fixes that lint makes of it.  A list is the sequence of its elements.  An  *)
(* element has its name and value as numbers, its group, whether a directive  *)
(* disables the rule on its line, the names it binds and the names it needs,  *)
(* whether a comment follows it, and what belongs to its place in the list    *)
(* rather than to it: the blank lines above (gap) and what stands above       *)
(* (mark: "break" for an entry that is not sorted, "comment" for a comment    *)
(* that may part the list, "" for neither).                                   *)
EXTENDS Integers, Sequences, FiniteSets

LOCAL INSTANCE SequencesExt
LOCAL INSTANCE FiniteSetsExt

MAX_FIX_ROUNDS == 10
Ignore == -1                \* no wish about blank lines

--------------------------------------------------------------------------------
(* Options: the groups in order, each a set of names with its own sort, or a  *)
(* wish about the blank lines between its neighbours; the sort of the other   *)
(* elements; blank lines between and inside groups; what parts a list; when   *)
(* an enum goes by value.                                                     *)

IsNewlines(group) == group.names = {}

group_index(options, name) ==
    LET found == {i \in DOMAIN options.groups : name \in options.groups[i].names}
    IN  IF found = {} THEN Len(options.groups) + 1 ELSE Min(found)

spec(options, index) == IF index \in DOMAIN options.groups THEN options.groups[index].sort ELSE options.sort

newlines_inside(options) ==
    CASE options.inside # "between" -> options.inside_count
      [] options.between = Ignore -> Ignore
      [] OTHER -> 0

\* The blank lines wanted between an element of group l and one of group r.
newlines(options, l, r) ==
    LET relevant == SelectSeq([i \in 1 .. Len(options.groups) |-> i], LAMBDA i : l <= i /\ i <= r)
        group(i) == options.groups[i]
        wish(i) == CASE IsNewlines(group(i)) -> {group(i).count}
                     [] i > l /\ ~IsNewlines(group(i - 1)) -> {options.between}
                     [] OTHER -> {}
        values == IF r > Len(options.groups) THEN {} ELSE UNION {wish(relevant[k]) : k \in DOMAIN relevant}
        counts == {v \in values : v # Ignore}
    IN  CASE l = r -> newlines_inside(options)
          [] r = l + 2 -> IF l + 1 \in DOMAIN options.groups /\ IsNewlines(group(l + 1)) THEN group(l + 1).count
                          ELSE options.between
          [] r < l + 2 -> options.between
          [] counts # {} /\ Max(counts) >= 1 -> Max(counts)
          [] Ignore \in values -> Ignore
          [] OTHER -> 0

--------------------------------------------------------------------------------
(* The order.                                                                  *)

by_key(sort, by, a, b) ==
    LET x == IF by = "name" THEN a.name ELSE a.value
        y == IF by = "name" THEN b.name ELSE b.value
    IN  CASE sort.kind = "unsorted" \/ x = y -> 0
          [] (x < y) = (sort.order = "asc") -> -1
          [] OTHER -> 1

\* mode: what the rule compares.  An enum goes by value when its options say
\* so, or its values are all numbers.
compare(mode, sort, a, b) ==
    by_key(sort, CASE mode \in {"name", "enum"} -> "name" [] mode = "enum_value" -> "value" [] OTHER -> sort.by, a, b)

Before(mode, sort, a, b) ==
    LET first == compare(mode, sort, a, b)
        fallback == [kind |-> "sorted", order |-> "asc", by |-> "name"]
    IN  first < 0 \/ (first = 0 /\ compare(mode, fallback, a, b) < 0)

\* A stable merge sort.
RECURSIVE merge(_, _, _, _)
merge(mode, sort, left, right) ==
    CASE left = <<>> -> right
      [] right = <<>> -> left
      [] Before(mode, sort, right[1], left[1]) -> <<right[1]>> \o merge(mode, sort, left, Tail(right))
      [] OTHER -> <<left[1]>> \o merge(mode, sort, Tail(left), right)

RECURSIVE merge_sort(_, _, _)
merge_sort(mode, sort, items) ==
    LET middle == Len(items) \div 2
    IN  IF Len(items) < 2 THEN items
        ELSE merge(mode, sort, merge_sort(mode, sort, SubSeq(items, 1, middle)),
                               merge_sort(mode, sort, SubSeq(items, middle + 1, Len(items))))

\* The elements at these indices of the list stay where they are.
Keeping(list, sorted, stay) ==
    FoldLeft(LAMBDA s, i : IF i \in stay THEN InsertAt(s, IF i <= Len(s) THEN i ELSE Len(s) + 1, list[i]) ELSE s,
             sorted, [i \in DOMAIN list |-> i])

sort_nodes(mode, bucket, sort) ==
    LET ignored(e) == mode = "types" /\ sort.by = "value" /\ e.value = 0
        kept == SelectSeq(bucket, LAMBDA e : ~ignored(e))
    IN  Keeping(bucket, IF sort.kind = "unsorted" THEN kept ELSE merge_sort(mode, sort, kept),
                {i \in DOMAIN bucket : ignored(bucket[i])})

sort_by_groups(options, mode, nodes, ignore_disabled) ==
    LET ignored(e) == ignore_disabled /\ e.disabled
        bucket(g) == SelectSeq(nodes, LAMBDA e : ~ignored(e) /\ group_index(options, e.group) = g)
        sorted == FlattenSeq([g \in 1 .. Len(options.groups) + 1 |-> sort_nodes(mode, bucket(g), spec(options, g))])
    IN  Keeping(nodes, sorted, {i \in DOMAIN nodes : ignored(nodes[i])})

\* b depends on a.
depends(a, b) == a # b /\ \E k \in DOMAIN b.needs : b.needs[k] \in a.binds

\* The elements found on a cycle by a depth-first search that does not enter
\* an element twice; a needed name leads to the first element that binds it.
Binders(nodes, e) ==
    LET binder(n) == {i \in DOMAIN nodes : nodes[i] # e /\ n \in nodes[i].binds}
        bound == SelectSeq(e.needs, LAMBDA n : binder(n) # {})
    IN  [k \in DOMAIN bound |-> Min(binder(bound[k]))]

RECURSIVE visit(_, _, _, _)
visit(nodes, search, e, path) ==
    LET at == {i \in DOMAIN path : path[i] = e}
        open == [search EXCEPT !.visiting = @ \cup {e}]
        below == FoldLeft(LAMBDA s, i : visit(nodes, s, nodes[i], Append(path, e)), open, Binders(nodes, e))
    IN  CASE e \in search.visited -> search
          [] e \in search.visiting -> [search EXCEPT !.cycles = @ \cup {path[i] : i \in Min(at) .. Len(path)}]
          [] OTHER -> [below EXCEPT !.visiting = @ \ {e}, !.visited = @ \cup {e}]

circular(nodes) ==
    FoldLeft(LAMBDA s, e : visit(nodes, s, e, <<>>), [cycles |-> {}, visiting |-> {}, visited |-> {}], nodes).cycles

\* Every element after what it depends on, cycles left alone.
RECURSIVE place(_, _, _, _, _)
place(nodes, cycles, ignore_disabled, state, e) ==
    LET first == SelectSeq(nodes, LAMBDA o : o \notin cycles /\ depends(o, e) /\ ~(ignore_disabled /\ o.disabled))
        below == FoldLeft(LAMBDA s, o : place(nodes, cycles, ignore_disabled, s, o),
                          [state EXCEPT !.visiting = @ \cup {e}], first)
    IN  IF e \in state.visiting \/ Contains(state.out, e) THEN state
        ELSE [visiting |-> below.visiting \ {e}, out |-> Append(below.out, e)]

sort_by_dependencies_Skipped(nodes, ignore_disabled) == nodes

sort_by_dependencies(nodes, ignore_disabled) ==
    FoldLeft(LAMBDA s, e : place(nodes, circular(nodes), ignore_disabled, s, e), [visiting |-> {}, out |-> <<>>], nodes).out

--------------------------------------------------------------------------------
(* The rules.                                                                  *)

\* Where a partition starts.
should_partition(options, list, i) ==
    \/ list[i].mark = "break"
    \/ list[i].mark = "comment" /\ options.comments
    \/ i > 1 /\ options.newline /\ list[i].gap > 0

partition(options, list, i) == Cardinality({j \in 1 .. i : should_partition(options, list, j)})

Partitions(options, list) ==
    LET part(p) == SelectSeq([i \in DOMAIN list |-> i], LAMBDA i : partition(options, list, i) = p)
    IN  [p \in 1 .. Len(list) + 1 |-> [k \in DOMAIN part(p - 1) |-> list[part(p - 1)[k]]]]

\* The order a rule wants: each partition by groups, then by dependencies.
Ordering(options, mode, list, ignore_disabled) ==
    LET parts == Partitions(options, list)
        by_groups == FlattenSeq([p \in DOMAIN parts |-> sort_by_groups(options, mode, parts[p], ignore_disabled)])
    IN  IF mode \in {"objects", "enum", "enum_value"} THEN sort_by_dependencies(by_groups, ignore_disabled) ELSE by_groups

\* What each rule hands to the sort: elements of a jsx tag, of a heritage
\* clause and of an object type depend on nothing; comments do not part a jsx
\* tag; enum members are compared by number when every one has a number.
Independent(list) == [i \in DOMAIN list |-> [list[i] EXCEPT !.binds = {}, !.needs = <<>>]]
jsx_props(options, list) == [mode |-> "name", options |-> [options EXCEPT !.comments = FALSE], list |-> Independent(list)]
heritage(options, list) == [mode |-> "name", options |-> options, list |-> Independent(list)]
object_types(options, list) == [mode |-> "types", options |-> options, list |-> Independent(list)]
objects(options, list) == [mode |-> "objects", options |-> options, list |-> list]
enums(options, list) ==
    LET numeric == \A i \in DOMAIN list : list[i].value # 0
        by_value == options.by_value = "always" \/ (options.by_value = "if_numeric" /\ numeric)
    IN  [mode |-> IF by_value THEN "enum_value" ELSE "enum", options |-> options, list |-> list]

--------------------------------------------------------------------------------
(* The report and its fix.                                                     *)

Index(sorted, e) == CHOOSE i \in DOMAIN sorted : sorted[i] = e

\* The places whose element is reported as out of order.
OrderProblems(options, mode, list) ==
    LET sorted == Ordering(options, mode, list, FALSE)
        excluding == Ordering(options, mode, list, TRUE)
        cycles == circular(list)
        unordered(i) == \E j \in 1 .. i - 1 : list[j] \notin cycles /\ depends(list[i], list[j])
    IN  {i \in 2 .. Len(list) :
            \/ unordered(i)
            \/ Index(sorted, list[i - 1]) > Index(sorted, list[i])
            \/ list[i - 1].disabled /\ Index(sorted, list[i - 1]) >= Index(excluding, list[i])}

\* The blank lines wanted above place i of a list, Ignore for no wish.  parts
\* has the partition of each element.
Wanted(options, list, parts, i) ==
    LET l == group_index(options, list[i - 1].group)
        r == group_index(options, list[i].group)
    IN  IF l > r \/ parts[i - 1] # parts[i] THEN Ignore ELSE newlines(options, l, r)

Parts(options, list) == [i \in DOMAIN list |-> partition(options, list, i)]

newline_error(options, list) ==
    {i \in 2 .. Len(list) : Wanted(options, list, Parts(options, list), i) \notin {Ignore, list[i].gap}}

Problems(options, mode, list) == OrderProblems(options, mode, list) \cup newline_error(options, list)

\* A finding on a line that disables the rule is dropped, its fix with it.
EnabledProblems(options, mode, list) == {i \in Problems(options, mode, list) : ~list[i].disabled}

\* The elements in their new places; the places keep their blank lines and
\* marks.
order_fixes(list, sorted) ==
    [i \in DOMAIN list |-> [sorted[i] EXCEPT !.gap = list[i].gap, !.mark = list[i].mark]]

\* A comment that has to move with its element keeps the blank lines for a
\* later round.
comment_after_fixes(list, sorted) == {i \in DOMAIN list : sorted[i] # list[i] /\ sorted[i].trailing}

newline_fixes(options, list, sorted) ==
    LET parts == [i \in DOMAIN sorted |-> partition(options, list, Index(list, sorted[i]))]
        wanted(i) == Wanted(options, sorted, parts, i)
        moved == order_fixes(list, sorted)
    IN  [i \in DOMAIN list |-> IF i > 1 /\ wanted(i) # Ignore THEN [moved[i] EXCEPT !.gap = wanted(i)] ELSE moved[i]]

fix(options, mode, list) ==
    LET sorted == Ordering(options, mode, list, TRUE)
    IN  IF comment_after_fixes(list, sorted) = {} THEN newline_fixes(options, list, sorted) ELSE order_fixes(list, sorted)

\* The rounds of fixes; breaks: the texts whose fix does not parse.  The last
\* round's fixes are not applied.
RECURSIVE lint(_, _, _, _, _)
lint(options, mode, list, breaks, rounds) ==
    LET next == fix(options, mode, list)
    IN  IF rounds = 0 \/ EnabledProblems(options, mode, list) = {} \/ next = list \/ next \in breaks THEN list
        ELSE lint(options, mode, next, breaks, rounds - 1)

--------------------------------------------------------------------------------
(* The lines on which comments disable a rule.  A comment says what it does   *)
(* ("" for none of it), to which rules ({} for all), from line to line.       *)

directive(comment, rule) ==
    IF comment.rules # {} /\ rule \notin comment.rules THEN "" ELSE comment.does

\* since: the line of the first disable that no enable has ended, or 0.
Disables(state, comment, rule) ==
    CASE directive(comment, rule) = "next line" -> [state EXCEPT !.lines = @ \cup {comment.to + 1}]
      [] directive(comment, rule) = "line" -> [state EXCEPT !.lines = @ \cup {comment.from}]
      [] directive(comment, rule) = "disable" /\ state.since = 0 -> [state EXCEPT !.since = comment.from]
      [] directive(comment, rule) = "enable" /\ state.since # 0 ->
            [lines |-> state.lines \cup (state.since + 1 .. comment.from), since |-> 0]
      [] OTHER -> state

disabled_lines(comments, rule) ==
    FoldLeft(LAMBDA state, comment : Disables(state, comment, rule), [lines |-> {}, since |-> 0], comments).lines
==============================================================================
