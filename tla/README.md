# A verification project for fmtkit

TLA+ models of fmtkit (`src/`), TLC configurations that check them on small
instances, and TLAPS proofs of what matters most for every instance.

## 1. Inventory

fmtkit formats, lints, scores and vets the files of a repository. A run goes
through these parts; paths are relative to `src/`.

| Part | Code | State it keeps | Operations | Hard behaviour |
| --- | --- | --- | --- | --- |
| Go helper client | `crates/go/src/client.rs`, `proto.rs` | next id, pending tickets, failure, closing flag, outbox, two threads, child | start, submit, wait, shutdown, drop; writer and reader loops | threads, full pipes, crash, id wrap, order of closing |
| Go helper process | `go/helper/main.go`, `proto/` | job and reply channels, worker pool, buffered output | serve, readJobs, run, writeReplies | channels, flushing, end of input, orphaned process |
| Outcome cache | `crates/cache/src/lib.rs` | entries, stamps, marks, dirty, used; the store file | read, put, put_fresh, mark, flush, prune, load | coarse clocks, edits between stat and read, processes sharing a store |
| Script lane | `crates/engine/src/script_lane.rs`, `write.rs` | none of its own | process, transform, atomic write | stores outcomes it did not compute |
| Go lane | `crates/engine/src/go_lane.rs` | the helper, the open tickets | process, submit, collect, finish | pipelining, one failure ending the lane |
| Engine | `crates/engine/src/lib.rs`, `complexity.rs` | Session: stores, linter, pool, repository | run, watch, persist; verdict | three lanes at once, stale stores |
| Server | `crates/cli/src/serve.rs`, `main.rs` | socket, session, executable's stamp | listen, accept, answer, refuse, stop; client's fall back | two servers, stale sockets, replaced executable |
| go vet | `crates/go/src/vet.rs`, `vet/inputs.rs` | the passes it remembers (marks of the cache) | vet modules, fingerprint inputs | inputs that change while vet runs |
| Discovery | `crates/discover/src/*.rs` | directory memory, index, watched changes | discover, walk, status, listing memory, watch | stale listings, lost events, git index races |
| Pipeline | `crates/ts/src/pipeline.rs`, `passes/` | the text of one file | rounds of stages to a fixed point | stages that undo each other |
| Script passes | `crates/ts/src/passes`, `fingerprint.rs` | none | reorder, space, wrap, expand, break; fingerprint | moved code that runs in another order, a guard that normalises too much |
| Script complexity | `crates/ts/src/complexity` | open functions, drafts by key | one walk over a program | functions in functions, keys that collide |
| Edits | `crates/core/src/edit.rs`, `lines.rs` | a set of edits | push, normalise, apply | overlaps, empty ranges |
| Go formatting | `go/helper/format`, `spacing`, `complexity` | the source of one file | spacing, gofmt, goimports, score | order, failure keeps the source |
| Hosts | `crates/hosts/src` | the blocks of a document | mask, format, restore; rounds | offsets that move, blocks put back in place |
| Lint | `crates/lint/src` | policy | lint, fix in rounds | sorting against dependencies, cycles, disabled lines |
| Configuration | `crates/config`, `prepare` of `crates/cli/src/main.rs` | none | find, read and refuse a file, apply flags, hash | a setting that changes a result and not the hash |
| Lint setup and pass | `crates/lint/src/lib.rs`, `oxc_bridge.rs` | none | build the linter; lint sections, place findings, choose fixes | several names of one rule, sections with offsets, fixes that touch |
| Templates | `crates/ts/src/embed` | none | route a template, put its text back | fences that close too early, nodes glued together |
| Report | `crates/report` | none | print | none |

### How the parts interact

The command line parses a call and, when a server of the repository answers on
its socket, hands the call over; otherwise it runs the engine itself. The engine
asks discovery for the files in scope and runs three lanes at once: the script
lane (a pool of threads, the pipeline, the linter), the Go lane (requests to the
helper process through the client) and go vet. The lanes read and write the same
files at the same time, and share one outcome cache. At the end the cache
is pruned and written, and the verdict is taken from the outcomes. A server
keeps the session (caches, directory memory, watched directories) between
runs; each run may also race with one-shot runs that share the store file.

### What makes each part correct

| Part | It is correct when |
| --- | --- |
| Go helper | every ticket gets its own reply or the one failure; stopping answers first and leaves nothing behind; nobody waits for ever |
| Outcome cache | a hit says what processing the file now would say, or what was said when those bytes were written; nothing is lost silently; a format run skips no other write |
| Server | whoever runs a call uses the caller's executable and environment; a call always ends; at most one server |
| go vet | a remembered pass is a pass of the files as they are |
| Pipeline | same program, fixed point, termination |
| Edits | conflicts found exactly; the text written is what the edits say |
| Discovery, memory, watch | nothing in scope is missed: what is remembered or watched equals what a walk would find |
| Go lane, engine | one outcome per file, in order; one failure ends the lane and is reported; the verdict follows from the outcomes |
| Lint and script lane | a fix loses nothing, keeps definitions before uses and settles; what is stored of a rewritten file is used for that text alone |
| Passes, spacing, hosts | moved code means what it meant, nothing is lost or doubled, a second run changes nothing |
| Wire | both codecs read the same frame from the same bytes, or both refuse |
| Complexity | one walk counts what a walk per function would |
| Configuration, lint | nothing that was asked for is dropped; a rule has the level written last under any of its names; a finding stands where it is in the file, and of the fixes a largest set without overlaps is taken |

## 2. Modules

Component modules are written from the code; `MC*` modules give the constants
values for TLC; `*Proofs` modules hold the theorems. A definition `F_x` beside a
definition `F` is a plausible bug in place of `F`: each property is known to be
violated by one of them (the list `mutants` of `PROJECT.json`).

| Module | Models | Extended by |
| --- | --- | --- |
| `GoHelper` | client threads, pipes, ids, helper goroutines, start, shutdown, drop, crash | `MCGoHelper`, `GoHelperProofs` |
| `HelperApi` | the interface the client promises, without threads | instantiated by `GoHelper` |
| `OutcomeCache` | the cache, the script lane's use of it, the store file shared by processes | `MCOutcomeCache`, `OutcomeCacheProofs` |
| `Serve` | servers, callers, the socket's name, the executable on disk | `MCServe`, `ServeProofs` |
| `Vet` | vet_module, its fingerprint, the marks, files that change meanwhile | `MCVet`, `VetProofs` |
| `Pipeline` | format_source: rounds, stages, checks, fixed point | `MCPipeline`, `PipelineProofs` |
| `EditSet` | push, normalize, retain_non_overlapping, apply | `MCRules`, `EditSetProofs` |
| `DirMemory` | the directory memory, as operators on a Memory | `Watch` |
| `Watch` | the watch on a work tree, over inotify and kqueue | `Discovery` |
| `Discovery` | runs of discovery in a repository that changes meanwhile | `MCDiscovery`, `DiscoveryProofs` |
| `Outcome` | what a file becomes, and the verdict | `Lanes` |
| `Lanes` | the script lane and the Go lane, over the helper `HelperApi` | `Engine` |
| `Engine` | a session's runs | `MCEngine`, `EngineProofs` |
| `Spacing`, `GoFormat` | the Go helper's spacing rule; the steps of one Go file | `MCGo` |
| `VetPlan` | what go vet is run on, and what is made of its output | `MCVetPlan` |
| `Hosts` | documents with code in them, and their rounds | `MCHosts` |
| `Wire` | the bytes of the frames and both decoders | `MCGo` |
| `Passes` | the script passes and the fingerprint | `MCPasses` |
| `Scoring` | the complexity walk over a script | `MCScoring` |
| `Sorting` | the sorting rules, their fixes, disabling comments, lint rounds | `MCLint` |
| `Settings` | the settings of a run, and the linter built from them | `MCLint` |
| `Bridge` | one lint pass over a file's sections, and the fixes taken from it | `MCLint` |
| `Embed` | who formats a template in a script, and how its text is put back | `MCPasses` |
| `MCRules` | one task and one step per algorithm of the eleven modules above | |

`map` in `PROJECT.json` names, for each definition, the lines it stands for.

### GoHelper and HelperApi

Each frame in transit is a member of `wire` and names its place (outbox, write
buffer, pipe, job channel, worker, reply channel, reply buffer, pipe). Client
threads are `main`, `writer` and `reader`; `pending`, `next_id` and
`failure` are the state behind the mutex. One action is one step between two
points where another thread can be seen: taking or releasing the mutex, a
channel operation, a read or write of a pipe, a flush. The two moments of
`fail`, taking `pending` and telling each ticket, are separate actions, as the
lock is released between them. Ids wrap at `IdSpace` (2^32 in the code). Pipes
and channels block when full. The helper may crash and fmtkit may be killed at
any point. `ImplementsApi` maps a ticket to its status as its holder sees it and
shows every step to be a step of `HelperApi` or hidden.

### OutcomeCache

One file, any number of processes with their own tables, and the store on disk.
A key is the record of what the code hashes. `Cache::read` is three actions
(stamp; bytes; result), so edits fall between them. File times are `Coarse`
of the clock. All contents have one size and all writes one inode, the worst
case for a stamp. After a write, `put` stores a clean outcome that the code does not
compute from the written text, under the key of that text. Formatting it again may
well change it, or fail: nothing is assumed of `Format`. `formatted` is a history
variable, the texts format runs have written; `Left` are these and the texts that
formatting leaves alone, and `Promised` is what may be reported of a content without
processing it: in check mode what processing reports, in format mode that nothing is
to be written, of texts in `Left` only. Pruning, flushing (also failing),
loading (also of a lost store) and killing the process are actions.

### Serve

Servers listen (probe the name, remove it, rename their own socket over it),
accept, compare the executable, refuse, run or reply, and stop; callers connect,
identify, send, receive and fall back to a local run. An answer or a refusal may be
lost although both processes live (`Undelivered`, `TurnDown`): `answer` ignores the
failure of its write, which ends after `WRITE_TIMEOUT` if nobody reads and is refused
for a frame longer than a `u32`, and a caller refuses a frame longer than `MAX_FRAME`.
The caller then runs the call again. `lost` is a history variable with the callers a
server ran a call for in vain; `NoNeedlessRerun` says that a caller runs its call
itself only when no server has yet to run it, and a call that a server ran only when
that answer is in `lost`. Executables are numbered;
replacing the file is an action; as on Linux a process does not find its own
file again once it is replaced. Any process may be killed at any moment.

### Vet

One module. The stamps are taken file by file, go vet (external) reads file by
file, and files are written, created and removed between any two of these steps.
The key is remembered after a clean run when every file was settled at the
fingerprint. The marks are the bounded list of the cache, least recently used
first. `KEEPS`, `FINE` and `CREATES` say what the file system and its users do;
`Orderly` is what soundness needs of them. The go executable and the environment
in the key are constant here.

### Pipeline

Texts, steps and fingerprints are model values. What a step makes of a text and
what a text parses to is fixed when first asked, and arbitrary: the checks range
over every deterministic behaviour of the passes, of `oxc_formatter` and of the
parser. `nth` formats the result a second time. A declaration file has an empty
schedule, as in the code.

### EditSet

Byte sequences, edits in push order, the two sorts as the only arrangements that
respect their comparison, the greedy retention as the set the loop keeps. The
reference in `MCRules` defines what a set of edits means offset by offset,
independently of sorting and cursors.

### DirMemory, Watch, Discovery

The work tree is a function from paths to nodes with inode, times and content.
A run begins (the memory is loaded, the watch drained), visits each directory
(vouched for by the watch, replayed from the memory, or looked at, listed and
filtered in three steps), compares the index with the files beside the walk,
settles the watch and, at a moment of the session's choosing, persists the
memory. Files are created, removed and written, directories are swapped for others
or moved away, the index and the ignore rules change, the clock ticks, events are lost and watches
fail between any two of these steps. `Expected` is what a look at the whole tree
under the rules of the moment finds: the abstract specification of discovery.
A directory that is swapped in brings inodes that were not in the tree before, with
old times; a change within a tick leaves times as they are. `behind` is set when a
save leaves listings beside rules they were not filtered by (see Findings):
`FindsAll` excludes what follows, `FindsAllAlways` does not. `LeftBehind`, which sets
it, looks at the listings and rules of one save and not at what later goes wrong.

### Outcome, Lanes, Engine

`Outcome` has the pure part: `transform`, the Go reply's outcome, complexity
findings with the allow list, the verdict. Linter, formatters, helper and scorer are
functions on texts; whether the helper reports violations does not depend on whether
it changed the text, and what they make of their own output is arbitrary. `Lintables`
are the files of a language the linter knows, `Scored` those that are neither tests
nor declarations. In `Lanes` a pool of `Jobs` workers
takes tasks of both lanes; the Go lane's thread spawns the helper when first
needed, submits, collects in order, asks again for scores in check mode, and
gives up at the first failure. Its helper is `HelperApi`, the specification the
client is proved to implement. `Engine` runs discovery, the lanes and vet,
judges, persists, keeps or renews stores and linter, and is killed or fails at
any point. Editors write files in between. `rewrites` is a history variable: which
text a format run replaced by which, in which file and under which configuration.
From it `Rewritten` derives what was reported of a text when it was written. A text is
`Settled` when the lanes change nothing in it and the helper reports nothing of it.

### Spacing, GoFormat, VetPlan, Hosts, Wire, Passes, Scoring, Sorting, Settings, Bridge, Embed

Pure algorithms, as operators. Their `MC` modules hold the inputs and the
reference definitions the answers are held against; `MCRules` chooses a task in
its initial state and carries it out in one step, so that one run covers them.

- `Spacing`: a file is its top-level lines (package, import, declarations,
  comment lines, blanks), a statement list its statements with the lines between.
- `GoFormat`: what a step does to a text is any function given with the request.
- `VetPlan`: a tree of directories with `go.mod`, Go files and `go.work` files;
  `split_position`'s parsing of an output line is abstracted to the line's kind.
- `Hosts`: a document is a sequence of tokens. The external printer is one of
  several functions: it may move, join and re-indent everything it may touch.
  Newline normalisation and blank documents are left out of the rounds.
- `Wire`: frames are bytes; of UTF-8 the model has ASCII and what is not UTF-8.
  A text that is not UTF-8 is decoded lossily by one side, and excepted.
- `Passes`: a program is a tree of nodes of the kinds the passes tell apart, with
  its layout. A hash is the value it is taken of, which assumes no collisions. Which
  tokens let a class member run into the next one, and which expressions have effects,
  is given with the input as the code decides it: what `continues_onto` does not count
  among them (`in`, `instanceof`, a bare `get`, `set` or `static`;
  `class_reorder.rs:96-101`) cannot show here.
- `Scoring`: a node says which of its parts are visited deeper. A key is its
  sequence of names; how names are spelled in a report is left out.
- `Sorting`: names are numbers. `SubgroupOrder` and the collation of strings are
  left out.
- `Settings`: a TOML text is the settings it gives; fields nothing tells apart are
  left out. A rule's options are accepted or not, by a set of rejected values.
- `Bridge`: a file is its newlines and sections; what the rules find is an input.
- `Embed`: text is its lines, HTML the pieces and tags it is scanned into; what a
  formatter makes of a code is an input.

## 3. Runs

| Run | Checks | Bounds |
| --- | --- | --- |
| `go_helper` | `OwnReply`, `OneFailure`, `ShutdownAnswersFirst`, `NoFalseCrash`, `NothingLeftBehind`, `ImplementsApi`, `EveryTicketAnswered`, `OwnerReturns`, `NoOrphan` | four requests, one too large and one with a reply too large; three ids, so they wrap; pipes and channels of one frame, so each blocks; two workers, so replies are reordered |
| `outcome_cache` | `StoreCoherent`, `HitNeedsNoWrite`, `HitIsCurrent`, `CleanMeansSaved` | one process with two configurations, two modes and one edit, or with one configuration and up to two edits among texts that cannot be formatted or are generated, or two processes that share the store with one configuration, format mode and one edit; a text that formatting settles only in its second pass; four clock values with file times in steps of two |
| `serve` | `SameResult`, `AnsweredMeansRun`, `NoNeedlessRerun`, `EveryCallEnds`, `ReplacedServerStops` | two servers and a caller, or a server and two callers; two environments, two executables |
| `serve_two` | `OneServer`, violated | see Findings |
| `vet` | `VerdictSound` | two files, two contents, two marks so that the third drops one, six clock values with file times in steps of two |
| `vet_creates` | `VerdictSound`, violated | see Findings |
| `pipeline` | `SameProgram`, `Idempotent`, `AppliedExact`, `Terminates` | three texts, two fingerprints, a schedule of four stages with budgets one and two (twelve stages with budgets one and five in the code), three extra rounds as in the code |
| `discovery` | `FindsAll` | a root with a rules file and a directory with a tracked and an untracked file; three runs of any scope, inotify, kqueue or no watch, one change or fault at any moment, a process restart, the clock from 2 to 4; the last run is cut where its files are found, and nothing changes during it, since `FindsAll` says nothing of a run that saw a change |
| `discovery_scoped` | `FindsAllAlways`, violated | see Findings |
| `engine` | `ReportsTruth`, `FormattedPassesCheck`, `ScriptsFinish`, `RunEnds` | two runs of any of five kinds, a script, a Go file and a Go test file; texts that the helper changes twice in a row, one with a violation and no change, one too large for a frame, one that does not parse, a layout that adds a finding; at most one file differs from a plain tree at the start; one worker, one fault or edit at any moment |
| `rules` | `ConflictExact`, `EditsKeepMeaning`, `RetainsMaximal` | a text of three bytes, up to three edits, three replacement texts, operations in any sequence |
| | `SpacingSound` | every file of up to four lines after three kinds of beginning, statement lists of up to three, three sets of imports |
| | `HostsKeepContent` | documents of two pieces, every printer and tag, rounds over five texts; templates in nine languages, Markdown of up to four lines, HTML of up to three trees |
| | `CodecsAgree` | eight frames, every truncation and every change of one byte, a frame limit of 120 bytes |
| | `PassesSound` | statement lists of up to three, class bodies of three, nested control statements, call trees of depth three, chains of up to three links |
| | `FingerprintSound` | some 6,500 programs with 754 fingerprints, each run for every value of what it reads |
| | `SortSound` | lists of three with dependencies, groups, disabled lines; three comments |
| | `ScoresExact` | 2,812 programs: functions in every control statement, equal names, classes |
| | `GoReports` | requests over two texts with any functions as steps; five directories with every placement of `go.mod` and Go files; `go.work` files of up to two statements; outputs of up to four lines |
| | `LintAsConfigured` | twelve contents of a file that is named, found or not there, with every combination of flags; policies and configurations of up to two rules under eight names; files of three lines with one or two sections of three bytes |
| `spacing_embeds` | `DirectivesRepaired`, violated | see Findings |

Why the bounds are enough: each of them is the smallest at which the case it is
there for happens (a wrap, a full pipe, an overtaking reply, two writes in one
tick, a settled stamp and a later write, a text changed and changed back, an
insertion between two overlapping replacements, a listing replayed after a
change, a session that changes its configuration, a cycle with an element that
needs it), and for each property a plausible bug is found within them. The
theorems below cover the rest for the properties that are proved. Which
processes take part in `outcome_cache` and in `serve` is fixed at the start by
their `MC` modules; what that rules out, starting the absent one, is never fair.

Deadlock is checked in `go_helper` and in the runs of `Vet`; in the others the
system really may stop, because every process has ended, the last run or edit is
made or the call has returned.

### Fairness

`GoHelper`: weak fairness of each client thread and helper goroutine, of the
owner once it has begun to start or stop the helper, and of the second half of a
`submit` that has begun. The operating system and the Go runtime schedule
runnable threads, and the format handler of the helper terminates. Submitting,
stopping, crashing and killing are never fair. `Serve`: a running server or
caller goes on; nobody has to start, replace or kill. `Pipeline`: weak fairness
of the loop, which waits for nothing. `Engine`: a thread of the pool, the Go
lane's and the main thread that can take a step do; nothing is assumed of the
helper, except in `RunEnds`, which says so in its premise (`EveryTicketAnswered`
of `GoHelper` is the reason it may).

## 4. Proofs

| Theorem | States |
| --- | --- |
| `GoHelperProofs!TypeCorrect`, `RepliesAreRouted`, `FailuresAgree`, `CrashesAreReal`, `ShutdownLosesNothing`, `NothingOutlivesTheOwner` | `TypeOK`, `OwnReply`, `OneFailure`, `NoFalseCrash`, `ShutdownAnswersFirst`, `NothingLeftBehind` for any requests, id space, pipes and workers |
| `GoHelperProofs!AnsweredOnce`, `HelperImplementsApi` | answers and the failure are final; the client implements `HelperApi` |
| `OutcomeCacheProofs!CacheTypes`, `StoresAreCoherent`, `HitsAreCurrent`, `HitsSkipNoWrite`, `CleanTablesAreSaved` | a hit is about the file's own bytes and says what processing them would, or comes from a format run that wrote them; a table that is not dirty is the one that was saved; for any processes, configurations, contents and formatter, and any clock that lags by less than `SETTLE` |
| `ServeProofs!ServeInvariant`, `ResultsAreTheCallersOwn`, `AnswersAreRuns`, `RerunsNeedALoss` | `SameResult`, `AnsweredMeansRun`, `NoNeedlessRerun` for any servers, callers, environments, replacements and lost answers |
| `VetProofs!TypeCorrect`, `VerdictIsSound` | the marks stay bounded and distinct; a clean verdict is true, if `Orderly` |
| `EngineProofs!EngineInvariant`, `ReportsAreTrue`, `FormattedTreesPass` | `ReportsTruth`, `FormattedPassesCheck` for any files, texts, tools, configurations and runs, with any faults, kills and edits |
| `PipelineProofs!PipelineInvariant`, `ReturnsSameProgram`, `ScoresTheOutput`, `GivesUpOnlyOnChange`, `RoundsAreRetraced`, `OutputsAreFixedPoints`, `AppliedMeansChanged` | `SameProgram`, `Idempotent`, `AppliedExact` and two more for any schedule, budgets and rounds, whatever the steps do |
| `EditSetProofs!ConflictsAreExact`, `CursorOnlyAdvances`, `RetainsAreMaximal` | for any source and any number of edits |
| `DiscoveryProofs!SoundAlways`, `WatchfulAlways`, `AlwaysFindsAll` | what is remembered is true, what is watched is watched; `FindsAll` for any tree, tracked files, rules, scopes, watchers, runs and history of changes |

`tlapm` takes some twelve minutes for `DiscoveryProofs`, and about one for each of the
others.

The inductive invariants, and why they are needed:

- **GoHelper.** `OwnReply` follows only if an id that is somewhere between
  `submit` and the reply still belongs to the request that travels with it
  (`IdsInTransit`), and that a request is held by one party at a time
  (`OneHand`): `allocate_id` skips ids that are pending, so an id cannot be used
  again before its reply has been delivered. After a failure nothing is pending,
  so late replies are dropped, not misrouted. `HelperImplementsApi` uses the same
  invariant for every step. The three theorems on the helper's end rest on what
  orders are possible: who has ended when (`Life`, `Exits`), what the reader has
  found (`Recorded`), that nothing is queued behind `Shutdown` (`Queues`). So,
  while nothing has gone wrong, a request without an answer is in transit
  (`Kept`), and the end of the output comes after the last reply (`Served`).
- **OutcomeCache.** A stamp is sound only because no later write can repeat it:
  a remembered stamp's modification time lies before `now - SETTLE`
  (`StampsSettled`), and a file time lags by less than `SETTLE`. The same is kept
  for a stamp that has been taken and not yet remembered (`LookupsSound`), which
  covers an edit between the stamp and the bytes. `CleanMeansSaved` is an action
  property: each step that changes a table sets `dirty` or makes the two equal.
- **Serve.** The server compares its executable before it accepts a caller's name,
  and the caller names itself before it waits; either may change in between.
  `Order` bounds each from one side: a named caller has no older executable than
  the server it waits for, and no newer one once the server has found its own
  unchanged. So whoever runs the call, both have one executable. `RanByServer`
  says that a call a server ran is answered, about to be, or lost; and that nobody
  falls back while a server has the call is kept from the moment the caller gives up,
  which it does on a reply or on a connection that was closed.
- **Engine.** A stored outcome is the one its key determines, of a text that
  needs no rewriting where the key is of a format run, or the one a format run
  reported when it wrote the text of that key (`Honest`, `Cached`, `Recorded`); tasks
  under way have read what they report on (`Standing`); and while nobody else writes,
  a file that is done holds what some text became, reported as that text was (`Left`,
  `Comes`). Nothing makes that text a fixed point, so `FormattedPassesCheck` asks for
  it: where the reported files are `Settled`, a check says of them what the format run
  said, less its changes (`CheckedIsClean`).
- **Vet.** A remembered key names stamps that no later change produces (`Past`).
  Then what go vet read is a witness that stays right: wherever the module has
  the key's stamp it has the content that was read, and where the key has no file
  the witness has none (`Agrees`). The second half is what fails when a file is
  created after the fingerprint.
- **Pipeline.** Each round compares with its own input. The chain of inputs of a
  call has one fingerprint (`OneProgram`), because a round starts with the text
  whose fingerprint the round before accepted; and each round but the last
  changed its input (`EachChanged`). A fixed point is a fact about a whole round:
  its last round answered, in order, every question that another round over the
  same text will ask. The invariant keeps the positions of a round, as a set that
  is closed under what the answers determine (`Trail`), and says that a round is
  in every closed set that has its beginning (`OnTrail`). Both hold whatever the
  answers are, because answers are never taken back. So a later round over a text
  goes where the first one went (`Carried`, `Returned`): a second call ends with
  its source, and rounds that come back to an earlier text repeat for ever.
- **EditSet.** apply compares neighbours. In an order by start, if an edit
  overlaps a later one then some pair of neighbours between them overlaps,
  unless everything in between is empty at the earlier edit's start, which the
  order by end rules out (`OverlapReachesNeighbour`).

- **Discovery.** `FindsAll` compares the end of a run with a look at everything,
  and what the run used may be listings, watches and comparisons of any earlier
  run. Three invariants carry it.
  `Sound` is about the past. A stamp that has settled, of an inode that was in use,
  is given to nothing that is written later (`Past`, `PastStays`); so a path that
  has it is what it was, with the entries it had. A stored listing is what its
  directory holds under *some* rules that agree with the stamps stored above it,
  whenever the stamps a walk would compare are those on disk (`TrueStore`). During a
  run the same is said of each visit at each of its three steps (`Visited`, `Looked`,
  `Saw`, `Remembered`, `Layered`), with the rules the walk went on by instead: a
  directory is stamped before it is listed and its rules before they are read, so
  what changes in between leaves a stamp that no later look finds. The step that
  needs `~behind` is the save, which puts listings of two runs beside each other
  (`FreshStored`, `KeptStored`).
  `Watchful` is about the kernel. Each watch is on what its path names, or its loss is
  reported (`Attached`), every change is told to the watches that see it (`Told`), and
  so what is clean, or spared the comparison, is as it was seen or is reported. A
  directory that was listed before it was watched is kept out until `Recheck`.
  `Undisturbed` is about the run itself: by `Sound` and `Watchful` each listing it
  replays is right (`ReplaysRight`), the walk passes nothing by (`Ahead`), and what
  the comparison does not look at is unchanged (`Compared`, with `Racy` for files
  written in the tick of the index). `StagedTrue` says that the remembered comparison
  with `HEAD` is that comparison. TLC checked `Undisturbed` and `StagedTrue` on the
  instance of `discovery` before they were proved.

### Assumptions

- Hashes do not collide (keys of the cache and of vet, fingerprints of programs
  decide as the code decides).
- The clock does not go back.
- `FormatAssumption` and `TextAssumption` give the tools their types. Nothing is
  assumed of what they make of text they wrote: of the formatter of scripts alone
  `Pipeline` proves a fixed point (`Idempotent`), of the fixes of the sorting rules
  `SortSound` checks it, and fixes and formatter together, or the steps of a Go file,
  have none (see the smaller observations). `TextAssumption` adds that laying out a Go
  text leaves its function in it, since the lane asks for scores of the text on disk
  only where the reply had scores. A reply too large for a frame fails the reader, as
  `GoHelper` has it; `Lanes` has that failure among its crashes, and lets such a reply
  arrive besides.
- `NoneAssumption`, `OutcomeAssumption`, `EngineAssumption`, `ServeAssumption` and
  the assumptions of the other modules give constants their types and keep `None`
  apart from values. TLC evaluates all of them.
- `Discovery`: `TimesAssumption` has file times lag behind the clock by less than
  `SETTLE` and never run back, which is what `SETTLE` is for in `memory.rs`; a run is
  short beside a tick. `PathsAssumption`, `FilesAssumption` and `ContentsAssumption`
  say that paths lie in directories, that sources are files and no part of `.git`, and
  that every file may hold something. `KeepsAssumption` says that a tool which puts a
  modification time back does so neither to a source file nor to `info/exclude`. For
  source files this is git's own limit: an entry whose stat is unchanged is taken as
  unchanged. For `info/exclude` it is one of `Memory::save` (see Findings). Rules files
  inside the tree may have their times put back, and the theorem holds.
- `Pipeline` assumes that passes and parser are deterministic.
- `EditSet` assumes offsets within the source. That they fall between characters
  is a matter of the passes that make them.
- `Serve` follows Linux for what a process finds of its replaced executable.

### Only model-checked

Liveness (`EveryTicketAnswered`, `OwnerReturns`, `NoOrphan`, `EveryCallEnds`,
`ReplacedServerStops`, `Terminates`, `ScriptsFinish`, `RunEnds`) is beyond the
prover. `EditsKeepMeaning` and everything else of `rules`, but for `ConflictExact`
and `RetainsMaximal`, rest on recursive definitions and folds. The other way round, the types, `ScoresOutput`, `GivesUpOnChange` and
`CursorAdvances` are proved and need no run. All other invariants and action
properties that the runs check are proved.

## 5. Findings

1. **Listings under rules that have changed** (`discovery_scoped`). A rules file
   changes, and the next run covers only some paths. It lists the directory of the
   rules file again and remembers it, but not the directories below, whose old
   listings are kept beside it. The next full run finds every stamp unchanged and
   replays them, under rules that no longer hold. The same comes of two changes and
   no partial run (`Scopes` = {`Whole`}, `MaxEvents` = 2 in the configuration): a
   rules file appears, a run within `SETTLE` remembers the directories below it
   but not its own, which has not settled, and the rules file goes again. The
   next run takes the rules as unchanged since the old listing, and replays the
   listings made in between. The third way is a directory that was never stored,
   because it had not settled, above one that was: a partial run remembers the upper
   one, with rules that may have changed since the lower one was listed. `LeftBehind`
   covers the three; that nothing else goes wrong is the theorem `AlwaysFindsAll`,
   for any number of changes.
2. **A directive that loses its var** (`spacing_embeds`). A `go:embed` group flush
   above a func or a type is that declaration's doc and also belongs to the next
   var. Ordering moves the var in front and the group stays with the func; the
   repair then finds no var behind the group.
3. **Two servers** (`serve_two`). `README.md` says a second server exits with
   code 2. Two servers started together can both find nobody listening, and the
   second renames its socket over the first one's.
4. **A file created while vet runs** (`vet_creates`). The key is taken before
   go vet runs and stamps files only. A file created in between is read by go vet
   and not part of the key; after it is removed, a pass is reported for a module
   that was never vetted.

Smaller observations, met while modelling and not the subject of a run:

- `Cache::remember` and vet's inputs trust a stamp by its modification time alone;
  a tool that keeps modification times and writes twice within one tick of a
  coarse clock gets the first content's outcome.
- `memory.rs:20-21` says that an ignore file modified within `SETTLE` of the run is
  never stored. `Memory::save` (`memory.rs:207`) looks at the modification time of
  `info/exclude` and the global excludes only, where `Stamp::is_settled` looks at both
  times. If a tool writes `info/exclude`, puts the modification time back, and writes
  again within the tick, a run in between stores listings that the next run takes as
  filtered by the second text. With `"exclude"` in `KEEPS` and two changes TLC finds
  `FindsAll` violated; `KeepsAssumption` excludes it.
- The Go spacing rule reports statements that share a line on every run, and a
  directive with no var after it is left where it is.
- Spacing runs before gofmt (`format.go:31-78`) and passes over statements that share a
  line (`gaps.go:46-57`). gofmt then splits `x := 1; return x`, and the next pass
  would put a blank line between the two. The lane stores the split text as clean
  (`go_lane.rs:144-146`), so the run says fixed, a second format run passes from the
  store, and a check reports a change and a violation. `MCEngine` has such a text
  ("shared"); `ReportsTruth` says exactly how far a stored outcome may stray, and
  `FormattedPassesCheck` holds of settled trees only.
- The script lane looks for findings in the text it writes only if there were some
  before the layout (`script_lane.rs:115-126`). Where the layout adds the first one
  (`MCEngine`'s "long"), the format run passes and a check fails.
- Dependency errors of the sorting rules around cycles and disabled lines are
  reported and not fixed; a finding on a disabled line is dropped with its fix, which is
  the one fix of the whole list, so a list with no other finding stays as it is;
  `eslint-disable` without `eslint-enable` disables nothing.
- `ExpandedCall` needs one run per level of calls nested in objects.
- A document that already contains the placeholder's text is not masked.
- An indented line of go vet's output after a line that was not understood joins the
  last message that has a position; `plan_files` leaves out `node_modules`, which
  `./...` includes.
- The script lane replaces a file by text made from bytes read earlier; an edit in
  between is overwritten.

## 6. Not modelled

The lint rules that only report (anti-slop, observability, naming, boundaries)
and the drizzle pass are predicates and layouts over a syntax tree that an
external parser makes: a model of them would be their text once more. Argument
parsing, the parsing of rule options, reports and the lookup of the helper are
functions without state; the store file's encoding is one with a checksum.
What oxc, the markup and Markdown printers, git, go vet, gofmt and goimports do
is external. Discovery outside a repository keeps nothing between runs.
`components` in `PROJECT.json` lists every part with its reason.

## 7. Plan

What is left:

1. Lint fixes and formatter in turn: for which rules and layouts the two together
   reach a fixed point, and with them the stored outcomes of rewritten files.
2. The rules and passes that are left out above, if one of them grows state.
