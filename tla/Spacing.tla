------------------------------- MODULE Spacing -------------------------------
(* The spacing rule of the Go helper (go/helper/spacing).  A file is the      *)
(* sequence of its top-level lines: the package clause, one line per          *)
(* declaration, one per comment line, and blank lines; a line is a record     *)
(* with its kind and an id that tells it from the others.  A statement list   *)
(* is a sequence of statements, each with the number of lines between the     *)
(* end of the one before and its own first line (0: the same line).           *)
EXTENDS Integers, Sequences, FiniteSets

LOCAL INSTANCE SequencesExt
LOCAL INSTANCE FiniteSetsExt

--------------------------------------------------------------------------------
(* Statement lists.                                                            *)

\* The spaced packages and the name each binds by default.
stdlibSpacingImports ==
    [path \in {"sort", "slices", "math/rand", "math/rand/v2"} |-> IF path \in {"sort", "slices"} THEN path ELSE "rand"]

\* The names a file's imports bind to a package whose calls are spaced.  An
\* import is a record with its path and its explicit name ("" for none).
BoundName(spec) == IF spec.name = "" THEN stdlibSpacingImports[spec.path] ELSE spec.name
buildImportAliases(imports) ==
    LET bound == {i \in DOMAIN imports :
                    /\ imports[i].path \in DOMAIN stdlibSpacingImports
                    /\ BoundName(imports[i]) \notin {"_", "."}}
        last(n) == Max({i \in bound : BoundName(imports[i]) = n})
    IN  [n \in {BoundName(imports[i]) : i \in bound} |-> imports[last(n)].path]

\* Whether recv.sel(...) is one of the calls that blank lines go around: by
\* the package recv names, else by recv as it is written.
selectorLabel(recv, sel, aliases) ==
    LET package == IF recv \in DOMAIN aliases THEN aliases[recv] ELSE recv
    IN  \/ package \in {"sort", "rand", "math/rand", "math/rand/v2"}
        \/ package = "slices" /\ sel = "Sort"

SpacedCall(s, aliases) == s.kind = "call" /\ selectorLabel(s.recv, s.sel, aliases)
RouteCall(s) == s.kind = "call" /\ s.recv = "routes" /\ s.sel \in {"Add", "Group"}
HelperCall(s) == s.kind = "call" /\ s.recv = "t" /\ s.sel = "Helper"

requiresLeadingBlankLine(s, aliases) ==
    \/ RouteCall(s)
    \/ SpacedCall(s, aliases)
    \/ s.kind \in {"block", "branch", "return", "type", "var"}

requiresTrailingBlankLine(s, next, aliases) ==
    \/ HelperCall(s)
    \/ s.kind \in {"define", "assign", "var"} /\ s.func
    \/ SpacedCall(s, aliases)
    \/ s.kind \in {"block", "branch", "type"}
    \/ s.kind = "var" /\ next.kind \notin {"define", "var"}

statementGapRule(s, next, aliases) ==
    requiresLeadingBlankLine(next, aliases) \/ requiresTrailingBlankLine(s, next, aliases)

\* Statement i assigns the receiver of the spaced call after it.
setupSpacing(list, i, aliases) ==
    /\ i > 1 /\ i < Len(list)
    /\ SpacedCall(list[i + 1], aliases)
    /\ list[i].kind \in {"define", "assign", "var"}
    /\ list[i].lhs = list[i + 1].recv

\* The statements that a missing blank line is reported before.
GapViolations(list, aliases) ==
    {i \in DOMAIN list :
        /\ list[i].gap < 2
        /\ \/ setupSpacing(list, i, aliases)
           \/ i > 1 /\ list[i].gap # 0 /\ statementGapRule(list[i - 1], list[i], aliases)}

\* The first statement on the line of statement i: a newline is inserted
\* where that line starts.
LineStart(list, i) == Max({j \in 1 .. i : list[j].gap # 0})

InsertGaps(list, aliases) ==
    LET starts == {LineStart(list, i) : i \in GapViolations(list, aliases)}
    IN  [i \in DOMAIN list |-> [list[i] EXCEPT !.gap = @ + (IF i \in starts THEN 1 ELSE 0)]]

--------------------------------------------------------------------------------
(* The lines of a file.                                                        *)

Blank == [kind |-> "blank", id |-> 0]
IsComment(l) == l.kind \in {"embed", "doc"}
IsDecl(l) == l.kind \in {"import", "type", "func", "var"}

\* The line numbers of a file, and those of its declarations, in order.
Numbers(src) == [i \in DOMAIN src |-> i]
Decls(src) == SelectSeq(Numbers(src), LAMBDA i : IsDecl(src[i]))
VarDecls(src) == {i \in DOMAIN src : src[i].kind = "var"}

\* The comment groups: maximal runs of comment lines.
Groups(src) ==
    LET comments == {i \in DOMAIN src : IsComment(src[i])}
        lastOf(i) == Max({j \in i .. Len(src) : i .. j \subseteq comments})
    IN  {[start |-> i, end |-> lastOf(i)] : i \in {k \in comments : k - 1 \notin comments}}

\* The go:embed group of each var declaration that has one: its doc comment,
\* else the first group for which it is the next var declaration.
containsEmbedDirective(src, g) == \E i \in g.start .. g.end : src[i].kind = "embed"
EmbedGroups(src) == {g \in Groups(src) : containsEmbedDirective(src, g)}
embedDirectiveMatches(varDecls, groups) ==
    LET isNext(d, g) == d > g.end /\ \A e \in varDecls : e > g.end => d <= e
        docOf(d) == {g \in groups : g.end + 1 = d}
        loose(d) == {g \in groups : g.end + 1 \notin varDecls /\ isNext(d, g)}
        groupOf(d) == IF docOf(d) # {} THEN docOf(d) ELSE loose(d)
        first(own) == CHOOSE g \in own : \A h \in own : g.start <= h.start
    IN  [d \in {e \in varDecls : groupOf(e) # {}} |-> first(groupOf(d))]

leadingImportDeclsEnd(src) ==
    Cardinality({i \in DOMAIN src : src[i].kind = "import" /\ \A j \in 1 .. i : IsDecl(src[j]) => src[j].kind = "import"})

\* A parsed file: each step parses the text it is given.
newFileContext(src) ==
    [src |-> src, decls |-> Decls(src), groups |-> Groups(src), importsEnd |-> leadingImportDeclsEnd(src),
     matches |-> embedDirectiveMatches(VarDecls(src), EmbedGroups(src))]

--------------------------------------------------------------------------------
(* Types before other declarations.                                           *)

Anchored(file, d) == d \in DOMAIN file.matches

\* The declarations in the order of their first line, an embed group being
\* part of the declaration it belongs to.
topLevelDeclBlocks(file) ==
    LET position(d) == IF Anchored(file, d) THEN file.matches[d].start ELSE d
    IN  SortSeq(file.decls, LAMBDA a, b : position(a) < position(b))

\* The types that come after another declaration of their segment: anchored
\* declarations part the segments.
OutOfOrderIn(file, blocks) ==
    {k \in DOMAIN blocks :
        /\ file.src[blocks[k]].kind = "type"
        /\ \E j \in 1 .. k - 1 :
              /\ file.src[blocks[j]].kind \notin {"type", "import"}
              /\ \A m \in j .. k : ~Anchored(file, blocks[m])}
OutOfOrder(file) == OutOfOrderIn(file, topLevelDeclBlocks(file))

\* Where block k goes: its segment, and there types before the others.
Place(file, rest, k) ==
    <<Cardinality({j \in 1 .. k : Anchored(file, rest[j])}),
      IF Anchored(file, rest[k]) THEN 0 ELSE IF file.src[rest[k]].kind = "type" THEN 1 ELSE 2, k>>
InFront(p, q) ==
    \E i \in DOMAIN p : p[i] < q[i] /\ \A j \in 1 .. i - 1 : p[j] = q[j]

\* Each segment's types before its other declarations; imports stay in front.
Ordered(file, rest) ==
    LET places == SortSeq([k \in DOMAIN rest |-> Place(file, rest, k)], InFront)
    IN  [k \in DOMAIN rest |-> rest[places[k][3]]]
desiredDeclOrder(file) ==
    LET imports == SubSeq(file.decls, 1, file.importsEnd)
    IN  imports \o Ordered(file, SelectSeq(topLevelDeclBlocks(file), LAMBDA d : ~Contains(imports, d)))

\* Lines without the blank ones at either end.
Trimmed(lines) ==
    LET kept == {i \in DOMAIN lines : lines[i].kind # "blank"}
    IN  IF kept = {} THEN <<>> ELSE SubSeq(lines, Min(kept), Max(kept))

\* The first line of declaration k's region: that of its doc comment, but
\* after the declaration before it.  An embed group counts as the doc of a
\* declaration that has none of its own.
RegionStart(file, k) ==
    LET d == file.decls[k]
        own == {g \in file.groups : g.end = d - 1}
        doc == IF own = {} /\ Anchored(file, d) THEN {file.matches[d]} ELSE own
        first == Min({d} \cup {g.start : g \in doc})
    IN  IF k = file.importsEnd + 1 THEN first ELSE Max({first, file.decls[k - 1] + 1})

declSourceRegions(file) ==
    [d \in {file.decls[k] : k \in file.importsEnd + 1 .. Len(file.decls)} |->
        LET k == CHOOSE n \in DOMAIN file.decls : file.decls[n] = d
        IN  SubSeq(file.src, RegionStart(file, k),
                   IF k < Len(file.decls) THEN RegionStart(file, k + 1) - 1 ELSE d)]

\* Texts one after the other, one blank line between them.
Spliced(parts) ==
    FoldLeft(LAMBDA out, part : IF part = <<>> THEN out ELSE IF out = <<>> THEN part ELSE out \o <<Blank>> \o part,
             <<>>, [k \in DOMAIN parts |-> Trimmed(parts[k])])

Before(file) == SubSeq(file.src, 1, RegionStart(file, file.importsEnd + 1) - 1)
Moved(file, regions, desired) == [k \in 1 .. Len(desired) - file.importsEnd |-> regions[desired[file.importsEnd + k]]]
Rest(file) == SubSeq(file.src, Last(file.decls) + 1, Len(file.src))

rewrite_NoRest(file, desired) ==
    IF desired = file.decls THEN file.src
    ELSE Spliced(<<Before(file)>> \o Moved(file, declSourceRegions(file), desired))

\* The text with the regions in the desired order; what follows the last
\* declaration stays last.
rewrite(file, desired) ==
    IF desired = file.decls THEN file.src
    ELSE Spliced(<<Before(file)>> \o Moved(file, declSourceRegions(file), desired) \o <<Rest(file)>>)

--------------------------------------------------------------------------------
(* go:embed directives above their var.                                       *)

Detached(file) == {d \in DOMAIN file.matches : d # file.matches[d].end + 1}

\* The line of declaration d's directive group taken out, with the blank line
\* after it, and put back above d.
MoveGroup(lines, g, d) ==
    LET after == IF lines[g.end + 1] = Blank THEN g.end + 2 ELSE g.end + 1
    IN  SubSeq(lines, 1, g.start - 1) \o SubSeq(lines, after, d - 1)
            \o SubSeq(lines, g.start, g.end) \o SubSeq(lines, d, Len(lines))

\* The groups are moved from the bottom up, so that the line numbers of the
\* ones still to move stay right.
repair(file) ==
    LET moves == SortSeq(SelectSeq(file.decls, LAMBDA d : d \in Detached(file)),
                         LAMBDA a, b : file.matches[a].start > file.matches[b].start)
    IN  FoldLeft(LAMBDA lines, d : MoveGroup(lines, file.matches[d], d), file.src, moves)

collapseEmbedSpacing(src) ==
    LET dropped(i) == /\ i > 1 /\ i < Len(src)
                      /\ src[i] = Blank /\ src[i - 1].kind = "embed" /\ src[i + 1].kind = "var"
        kept == SelectSeq(Numbers(src), LAMBDA i : ~dropped(i))
    IN  [k \in DOMAIN kept |-> src[kept[k]]]

--------------------------------------------------------------------------------
(* The rule.                                                                   *)

\* The declarations that lack a blank line towards the one before.
TypeGaps(file) ==
    {file.decls[k] : k \in {n \in 2 .. Len(file.decls) :
        LET d == file.decls[n] e == file.decls[n - 1]
        IN  (file.src[d].kind = "type" \/ file.src[e].kind = "type") /\ d < e + 2}}

insertBlanks(file) ==
    FlattenSeq([i \in DOMAIN file.src |-> IF i \in TypeGaps(file) THEN <<Blank, file.src[i]>> ELSE <<file.src[i]>>])

Clean(file) == TypeGaps(file) = {} /\ OutOfOrder(file) = {} /\ Detached(file) = {}

Reordered(file) == rewrite(file, desiredDeclOrder(file))
Rewritten(file) ==
    collapseEmbedSpacing(repair(newFileContext(Reordered(newFileContext(insertBlanks(file))))))
ApplyTo(file) == IF Clean(file) THEN file.src ELSE Rewritten(file)
Apply(src) == ApplyTo(newFileContext(src))
==============================================================================
