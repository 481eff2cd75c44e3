------------------------- MODULE OutcomeCacheProofs -------------------------
(***************************************************************************)
(* The outcome cache is transparent, for any number of processes,          *)
(* configurations and contents, any budget and any clock coarser than      *)
(* fmtkit's by less than SETTLE.                                           *)
(***************************************************************************)
EXTENDS OutcomeCache, TLAPS

\* What transform and clean build is an outcome.
LEMMA OutcomeType ==
    ASSUME NEW cf \in Configs, NEW m, NEW c \in Contents
    PROVE  /\ transform(cf, m, c) \in Outcomes
           /\ clean(cf, c) \in Outcomes
           /\ Format(cf, c) \in Contents
  BY FormatAssumption DEF transform, clean, Outcomes

\* The clean outcome a write leaves behind speaks of the text it wrote, and says
\* that there is nothing to write (script_lane.rs, process_inner).
LEMMA CleanSpeaksOfOutput ==
    ASSUME NEW cf \in Configs, NEW c \in Contents
    PROVE  clean(cf, c) = [changed |-> FALSE, about |-> Format(cf, c)]
  <1>1. transform(cf, "format", c) = [changed |-> Format(cf, c) # c, about |-> Format(cf, c)]
    BY DEF transform
  <1>2. clean(cf, c) = [[changed |-> Format(cf, c) # c, about |-> Format(cf, c)]
                            EXCEPT !.changed = FALSE]
    BY <1>1, Zenon DEF clean
  <1> QED BY <1>2

\* What is promised of a text is promised from then on.
LEMMA PromisedGrows ==
    ASSUME formatted \subseteq formatted', NEW cf, NEW m, NEW c
    PROVE  /\ Left(cf, c) => Left(cf, c)'
           /\ Promised(cf, m, c) \subseteq Promised(cf, m, c)'
  <1>1. Left(cf, c) => Left(cf, c)'
    BY DEF Left
  <1> QED BY <1>1 DEF Promised

\* The record a forgotten lookup leaves is well typed.
LEMMA BlankTypes ==
    ASSUME Contents # {}
    PROVE  /\ NoFresh \in [stamp : Stamps, content : Contents]
           /\ NoResult \in [kind : {"none", "hit", "fresh", "failed"},
                            outcome : Outcomes, seen : Contents]
           /\ \A cf \in Configs :
                 NoRun(cf) \in [config : Configs, mode : {"format", "check"}, settled : Int]
  <1>1. NoContent \in Contents
    BY DEF NoContent
  <1> QED BY <1>1 DEF NoFresh, NoResult, NoRun, Stamps, Outcomes

\* The types hold initially.
LEMMA InitTypes == Init => TypeOK
  <1> SUFFICES ASSUME Init PROVE TypeOK
    OBVIOUS
  <1> USE BoundsAssumption
  <1>1. /\ now = 0 /\ now \in 0..MaxClock
        /\ Coarse(now) \in Int
    BY CoarseAssumption DEF Init
  <1>2. PICK c \in Contents : file = Written(c)
    BY DEF Init
  <1>3. file \in [content : Contents, mtime : Int, ctime : Int]
    BY <1>1, <1>2 DEF Written
  <1>4. PICK cf \in Configs : run = [p \in Procs |-> NoRun(cf)]
    BY DEF Init
  <1>5. /\ run \in [Procs -> [config : Configs, mode : {"format", "check"}, settled : Int]]
        /\ fresh \in [Procs -> [stamp : Stamps, content : Contents]]
        /\ result \in [Procs -> [kind : {"none", "hit", "fresh", "failed"},
                                 outcome : Outcomes, seen : Contents]]
    BY <1>2, <1>4, BlankTypes DEF Init
  <1>6. disk \in [entries : SUBSET Entries, stamps : SUBSET StampEntries]
    BY DEF Init, EmptyStore
  <1>7. /\ pc \in [Procs -> {"closed", "idle", "stat", "read", "work", "write", "done"}]
        /\ entries \in [Procs -> SUBSET Entries]
        /\ stamps \in [Procs -> SUBSET StampEntries]
        /\ used \in [Procs -> SUBSET Keys]
        /\ dirty \in [Procs -> BOOLEAN]
        /\ edits \in 0..MaxEdits
        /\ formatted \in SUBSET [config : Configs, content : Contents]
    BY DEF Init
  <1> QED BY <1>1, <1>3, <1>5, <1>6, <1>7 DEF TypeOK

\* Everything holds initially: nothing is stored and nobody runs.
LEMMA InitInvariant == Init => IInv
  <1> SUFFICES ASSUME Init PROVE IInv
    OBVIOUS
  <1>1. TypeOK
    BY InitTypes
  <1>2. AllEntries = {} /\ AllStamps = {}
    BY DEF Init, AllEntries, AllStamps, EmptyStore
  <1>3. NoDanglingStamp
    BY DEF Init, NoDanglingStamp, Backed, EmptyStore
  <1>4. \A p \in Procs : pc[p] = "closed" /\ result[p].kind = "none"
    BY DEF Init, NoResult
  <1> QED BY <1>1, <1>2, <1>3, <1>4
          DEF IInv, StoreCoherent, StampsSound, StampsSettled,
              LookupsSound, HitIsCurrent, HitNeedsNoWrite

-----------------------------------------------------------------------------
(* Types *)

\* The file after a write now has a time that any settled stamp precedes.
LEMMA WrittenType ==
    ASSUME now \in 0..MaxClock, NEW c \in Contents
    PROVE  /\ Written(c) \in [content : Contents, mtime : Int, ctime : Int]
           /\ Written(c).content = c
           /\ Written(c).mtime > now - SETTLE
           /\ Stamp(Written(c)).mtime = Written(c).mtime
  <1>1. Coarse(now) \in Int /\ now < Coarse(now) + SETTLE /\ SETTLE \in Nat
    BY CoarseAssumption
  <1>2. now \in Int
    BY BoundsAssumption
  <1> QED BY <1>1, <1>2 DEF Written, Stamp

\* A hit comes from an entry, and an entry's outcome is well typed.
LEMMA GetTypes ==
    ASSUME TypeOK, NEW p \in Procs
    PROVE  /\ \A k, o : o \in get(p, k) => \E e \in entries[p] : e.key = k /\ e.outcome = o
           /\ \A pk, st, o : o \in get_stamped(p, pk, st) =>
                 \E x \in stamps[p], e \in entries[p] :
                    x.path = pk /\ x.stamp = st /\ e.key = x.key /\ e.outcome = o
           /\ \A e \in entries[p] : e.key \in Keys /\ e.outcome \in Outcomes
           /\ \A x \in stamps[p] : x.key \in Keys
  <1>1. entries[p] \subseteq Entries /\ stamps[p] \subseteq StampEntries
    BY DEF TypeOK
  <1>2. \A k, o : o \in get(p, k) => \E e \in entries[p] : e.key = k /\ e.outcome = o
    BY DEF get
  <1>3. ASSUME NEW pk, NEW st, NEW o, o \in get_stamped(p, pk, st)
        PROVE  \E x \in stamps[p], e \in entries[p] :
                  x.path = pk /\ x.stamp = st /\ e.key = x.key /\ e.outcome = o
    <2>1. PICK x \in stamps[p] : x.path = pk /\ x.stamp = st /\ o \in get(p, x.key)
      BY <1>3 DEF get_stamped
    <2> QED BY <2>1, <1>2
  <1> QED BY <1>1, <1>2, <1>3 DEF Entries, StampEntries

\* What a process knows is well typed.
LEMMA ProcTypes ==
    ASSUME TypeOK, NEW p \in Procs
    PROVE  /\ run[p].config \in Configs /\ run[p].mode \in {"format", "check"}
           /\ run[p].settled \in Int
           /\ fresh[p].stamp \in Stamps /\ fresh[p].stamp.mtime \in Int
           /\ fresh[p].content \in Contents
           /\ file.content \in Contents /\ Stamp(file) \in Stamps
           /\ now \in Int /\ now \in 0..MaxClock
  BY BoundsAssumption DEF TypeOK, Stamps, Stamp

\* The records a run leaves in the tables are well typed.
LEMMA StoredTypes ==
    ASSUME NEW cf \in Configs, NEW m \in {"format", "check"}, NEW c \in Contents
    PROVE  /\ Key(cf, m, c) \in Keys
           /\ path_key(cf, m) \in PathKeys
           /\ Key(cf, m, c).config = cf /\ Key(cf, m, c).mode = m /\ Key(cf, m, c).content = c
           /\ \A o \in Outcomes : [key |-> Key(cf, m, c), outcome |-> o] \in Entries
           /\ \A st \in Stamps :
                 [path |-> path_key(cf, m), stamp |-> st, key |-> Key(cf, m, c)] \in StampEntries
  BY DEF Key, path_key, Keys, PathKeys, Entries, StampEntries

\* remember keeps the stamps well typed.
LEMMA RememberTypes ==
    ASSUME TypeOK, NEW p \in Procs, NEW k, NEW st \in Stamps,
           NEW cf \in Configs, NEW m \in {"format", "check"}, NEW c \in Contents,
           k = Key(cf, m, c), remember(p, k, st)
    PROVE  stamps' \in [Procs -> SUBSET StampEntries]
  <1>1. k.config = cf /\ k.mode = m
    BY StoredTypes
  <1>2. [path |-> path_key(k.config, k.mode), stamp |-> st, key |-> k] \in StampEntries
    BY StoredTypes, <1>1
  <1>3. stamps[p] \subseteq StampEntries /\ stamps \in [Procs -> SUBSET StampEntries]
    BY DEF TypeOK
  <1> QED BY <1>2, <1>3 DEF remember

\* insert keeps the entries well typed.
LEMMA InsertTypes ==
    ASSUME TypeOK, NEW p \in Procs, NEW k \in Keys, NEW o \in Outcomes, insert(p, k, o)
    PROVE  entries' \in [Procs -> SUBSET Entries] /\ used' \in [Procs -> SUBSET Keys]
  <1>1. [key |-> k, outcome |-> o] \in Entries
    BY DEF Entries
  <1> QED BY <1>1 DEF insert, TypeOK

\* MarkDirty keeps dirty a function to the Booleans.
LEMMA DirtyTypes ==
    ASSUME TypeOK, NEW p \in Procs, MarkDirty(p)
    PROVE  dirty' \in [Procs -> BOOLEAN]
  <1>1. dirty \in [Procs -> BOOLEAN]
    BY DEF TypeOK
  <1>2. (dirty[p] \/ entries'[p] # entries[p] \/ stamps'[p] # stamps[p]) \in BOOLEAN
    BY Zenon
  <1> QED BY <1>1, <1>2 DEF MarkDirty

\* Report keeps the results well typed.
LEMMA ReportTypes ==
    ASSUME TypeOK, NEW p \in Procs, NEW kind \in {"none", "hit", "fresh", "failed"},
           NEW o \in Outcomes, NEW c \in Contents, Report(p, kind, o, c)
    PROVE  /\ result' \in [Procs -> [kind : {"none", "hit", "fresh", "failed"},
                                     outcome : Outcomes, seen : Contents]]
           /\ pc' \in [Procs -> {"closed", "idle", "stat", "read", "work", "write", "done"}]
  BY DEF Report, TypeOK

\* What has been written is never forgotten, and is a text.
LEMMA FormattedStep ==
    ASSUME TypeOK, NEW p \in Procs, Process(p)
    PROVE  /\ formatted \subseteq formatted'
           /\ formatted' \in SUBSET [config : Configs, content : Contents]
  <1>1. CASE Write(p)
    <2>1. [config |-> run[p].config, content |-> Format(run[p].config, fresh[p].content)]
             \in [config : Configs, content : Contents]
      BY ProcTypes, OutcomeType
    <2> QED BY <1>1, <2>1 DEF Write, TypeOK
  <1>2. CASE ~Write(p)
    BY <1>2 DEF Process, Open, Begin, Stat, Read, Work, WriteFails, Flush, Close, TypeOK
  <1> QED BY <1>1, <1>2

\* A step of a process keeps the types.
LEMMA ProcessTypes ==
    ASSUME TypeOK, NEW p \in Procs, Process(p)
    PROVE  TypeOK'
  <1>f. formatted' \in SUBSET [config : Configs, content : Contents]
    BY FormattedStep
  <1> USE <1>f
  <1> DEFINE k == Key(run[p].config, run[p].mode, fresh[p].content)
  <1>1. ASSUME NEW cf \in Configs, Open(p, cf)
        PROVE  TypeOK'
    <2>1. run' \in [Procs -> [config : Configs, mode : {"format", "check"}, settled : Int]]
      BY <1>1 DEF Open, NoRun, TypeOK
    <2>2. /\ entries' \in [Procs -> SUBSET Entries] /\ stamps' \in [Procs -> SUBSET StampEntries]
          /\ used' \in [Procs -> SUBSET Keys]
          /\ pc' \in [Procs -> {"closed", "idle", "stat", "read", "work", "write", "done"}]
      BY <1>1 DEF Open, TypeOK
    <2>3. dirty' \in [Procs -> BOOLEAN]
      BY <1>1 DEF Open, TypeOK
    <2> QED BY <1>1, <2>1, <2>2, <2>3 DEF Open, TypeOK, world
  <1>2. ASSUME NEW m \in Modes, Begin(p, m)
        PROVE  TypeOK'
    <2>1. m \in {"format", "check"} /\ now - SETTLE \in Int
      BY ModesAssumption, CoarseAssumption, ProcTypes
    <2>2. run' \in [Procs -> [config : Configs, mode : {"format", "check"}, settled : Int]]
      BY <1>2, <2>1, ProcTypes DEF Begin, TypeOK
    <2>3. pc' \in [Procs -> {"closed", "idle", "stat", "read", "work", "write", "done"}]
      BY <1>2 DEF Begin, TypeOK
    <2> QED BY <1>2, <2>2, <2>3 DEF Begin, TypeOK, world, tables
  <1>a. \A K \in SUBSET Keys :
           [used EXCEPT ![p] = @ \cup K] \in [Procs -> SUBSET Keys] /\ used \in [Procs -> SUBSET Keys]
    BY DEF TypeOK
  <1> USE ProcTypes
  <1>3. ASSUME Stat(p)
        PROVE  TypeOK'
    <2> DEFINE pk == path_key(run[p].config, run[p].mode)
    <2> DEFINE hits == get_stamped(p, pk, Stamp(file))
    <2>1. CASE \E o \in hits : Report(p, "hit", o, file.content)
      <3>1. PICK o \in hits : Report(p, "hit", o, file.content)
        BY <2>1
      <3>2. o \in Outcomes
        BY GetTypes
      <3> DEFINE K == {e.key : e \in {x \in stamps[p] : x.path = pk}}
      <3>3. K \in SUBSET Keys
        BY GetTypes
      <3>4. used' = [used EXCEPT ![p] = @ \cup K] \/ used' = used
        BY <1>3 DEF Stat
      <3> HIDE DEF K
      <3>5. used' \in [Procs -> SUBSET Keys]
        BY <1>a, <3>3, <3>4
      <3>6. fresh' \in [Procs -> [stamp : Stamps, content : Contents]]
        BY <1>3 DEF Stat, TypeOK
      <3> QED BY <1>3, <3>1, <3>2, <3>5, <3>6, ReportTypes DEF Stat, TypeOK, world
    <2>2. CASE ~ \E o \in hits : Report(p, "hit", o, file.content)
      <3>1. /\ pc' = [pc EXCEPT ![p] = "read"]
            /\ fresh' = [fresh EXCEPT ![p].stamp = Stamp(file)]
            /\ UNCHANGED <<result, used, world, disk, run, entries, stamps, dirty>>
        BY <1>3, <2>2 DEF Stat
      <3> QED BY <3>1 DEF TypeOK, world
    <2> QED BY <2>1, <2>2
  <1>4. ASSUME Read(p)
        PROVE  TypeOK'
    <2> DEFINE kr == Key(run[p].config, run[p].mode, file.content)
    <2>1. fresh' \in [Procs -> [stamp : Stamps, content : Contents]]
      BY <1>4 DEF Read, TypeOK
    <2>2. CASE \E o \in get(p, kr) : Report(p, "hit", o, file.content)
      <3>1. PICK o \in get(p, kr) : Report(p, "hit", o, file.content)
        BY <2>2
      <3>2. o \in Outcomes /\ get(p, kr) # {}
        BY GetTypes
      <3>3. remember(p, kr, fresh[p].stamp) /\ MarkDirty(p)
              /\ used' = [used EXCEPT ![p] = @ \cup {kr}] /\ entries' = entries
        BY <1>4, <3>2 DEF Read
      <3>4. kr \in Keys
        BY StoredTypes
      <3>5. used' \in [Procs -> SUBSET Keys]
        BY <3>3, <3>4 DEF TypeOK
      <3>6. stamps' \in [Procs -> SUBSET StampEntries]
        BY <3>3, RememberTypes
      <3>7. dirty' \in [Procs -> BOOLEAN]
        BY <3>3, DirtyTypes
      <3>8. /\ result' \in [Procs -> [kind : {"none", "hit", "fresh", "failed"},
                                     outcome : Outcomes, seen : Contents]]
            /\ pc' \in [Procs -> {"closed", "idle", "stat", "read", "work", "write", "done"}]
        BY <3>1, <3>2, ReportTypes
      <3> QED BY <1>4, <2>1, <3>3, <3>5, <3>6, <3>7, <3>8 DEF Read, TypeOK, world
    <2>3. CASE ~ \E o \in get(p, kr) : Report(p, "hit", o, file.content)
      <3>1. /\ pc' = [pc EXCEPT ![p] = "work"]
            /\ UNCHANGED <<result, tables, world, disk, run>>
        BY <1>4, <2>3 DEF Read
      <3> QED BY <2>1, <3>1 DEF TypeOK, world, tables
    <2> QED BY <2>2, <2>3
  <1>5. ASSUME Work(p)
        PROVE  TypeOK'
    <2> DEFINE o == transform(run[p].config, run[p].mode, fresh[p].content)
    <2>1. k \in Keys /\ o \in Outcomes
      BY StoredTypes, OutcomeType
    <2>2. UNCHANGED <<world, disk, run, fresh>>
      BY <1>5 DEF Work
    <2>3. CASE Report(p, "failed", o, fresh[p].content) /\ UNCHANGED tables
      BY <2>1, <2>2, <2>3, ReportTypes DEF TypeOK, world, tables
    <2>4. CASE pc' = [pc EXCEPT ![p] = "done"] /\ UNCHANGED <<result, tables>>
      BY <2>2, <2>4 DEF TypeOK, world, tables
    <2>5. CASE pc' = [pc EXCEPT ![p] = "write"] /\ UNCHANGED <<result, tables>>
      BY <2>2, <2>5 DEF TypeOK, world, tables
    <2>6. CASE /\ Report(p, "fresh", o, fresh[p].content) /\ insert(p, k, o)
               /\ remember(p, k, fresh[p].stamp) /\ MarkDirty(p)
      <3>1. stamps' \in [Procs -> SUBSET StampEntries]
        BY <2>6, RememberTypes
      <3>2. entries' \in [Procs -> SUBSET Entries] /\ used' \in [Procs -> SUBSET Keys]
        BY <2>1, <2>6, InsertTypes
      <3>3. dirty' \in [Procs -> BOOLEAN]
        BY <2>6, DirtyTypes
      <3>4. /\ result' \in [Procs -> [kind : {"none", "hit", "fresh", "failed"},
                                     outcome : Outcomes, seen : Contents]]
            /\ pc' \in [Procs -> {"closed", "idle", "stat", "read", "work", "write", "done"}]
        BY <2>1, <2>6, ReportTypes
      <3> QED BY <2>2, <3>1, <3>2, <3>3, <3>4 DEF TypeOK, world
    <2> QED BY <1>5, <2>3, <2>4, <2>5, <2>6 DEF Work
  <1>6. ASSUME Write(p)
        PROVE  TypeOK'
    <2> DEFINE cf == run[p].config
    <2> DEFINE out == Format(cf, fresh[p].content)
    <2>1. /\ out \in Contents /\ clean(cf, fresh[p].content) \in Outcomes
          /\ transform(cf, "format", fresh[p].content) \in Outcomes
      BY OutcomeType
    <2>2. Key(cf, "format", out) \in Keys
      BY <2>1, StoredTypes
    <2>3. file' \in [content : Contents, mtime : Int, ctime : Int]
      BY <1>6, <2>1, WrittenType DEF Write
    <2>4. entries' \in [Procs -> SUBSET Entries] /\ used' \in [Procs -> SUBSET Keys]
      BY <1>6, <2>1, <2>2, InsertTypes DEF Write
    <2>5. dirty' \in [Procs -> BOOLEAN]
      BY <1>6, DirtyTypes DEF Write
    <2>6. /\ result' \in [Procs -> [kind : {"none", "hit", "fresh", "failed"},
                                     outcome : Outcomes, seen : Contents]]
          /\ pc' \in [Procs -> {"closed", "idle", "stat", "read", "work", "write", "done"}]
      BY <1>6, <2>1, ReportTypes DEF Write
    <2> QED BY <1>6, <2>3, <2>4, <2>5, <2>6 DEF Write, TypeOK
  <1>7. ASSUME WriteFails(p)
        PROVE  TypeOK'
    BY <1>7, OutcomeType, ReportTypes DEF WriteFails, TypeOK, world, tables
  <1>8. ASSUME Forget(p)
        PROVE  /\ run' \in [Procs -> [config : Configs, mode : {"format", "check"}, settled : Int]]
               /\ fresh' \in [Procs -> [stamp : Stamps, content : Contents]]
               /\ result' \in [Procs -> [kind : {"none", "hit", "fresh", "failed"},
                                         outcome : Outcomes, seen : Contents]]
    BY <1>8, BlankTypes DEF Forget, TypeOK
  <1>9. ASSUME Flush(p)
        PROVE  TypeOK'
    <2>1. Kept(p) \subseteq Entries /\ KeptStamps(p) \subseteq StampEntries
      BY DEF Kept, KeptStamps, TypeOK
    <2>2. Forget(p) /\ UNCHANGED world /\ pc' = [pc EXCEPT ![p] = "idle"]
      BY <1>9 DEF Flush
    <2>3. /\ entries' = [entries EXCEPT ![p] = Kept(p)] \/ entries' = entries
          /\ stamps' = [stamps EXCEPT ![p] = KeptStamps(p)] \/ stamps' = stamps
          /\ used' = [used EXCEPT ![p] = {}] \/ used' = used
          /\ disk' = [entries |-> Kept(p), stamps |-> KeptStamps(p)] \/ disk' = disk
          /\ dirty' = [dirty EXCEPT ![p] = FALSE] \/ dirty' = dirty
      BY <1>9 DEF Flush, tables
    <2>4. entries' \in [Procs -> SUBSET Entries]
      BY <2>1, <2>3 DEF TypeOK
    <2>5. stamps' \in [Procs -> SUBSET StampEntries]
      BY <2>1, <2>3 DEF TypeOK
    <2>6. used' \in [Procs -> SUBSET Keys]
      BY <2>3 DEF TypeOK
    <2>7. dirty' \in [Procs -> BOOLEAN]
      BY <2>3 DEF TypeOK
    <2>8. disk' \in [entries : SUBSET Entries, stamps : SUBSET StampEntries]
      BY <2>1, <2>3 DEF TypeOK
    <2> QED BY <1>8, <2>2, <2>4, <2>5, <2>6, <2>7, <2>8 DEF TypeOK, world
  <1>10. ASSUME Close(p)
         PROVE  TypeOK'
    BY <1>8, <1>10 DEF Close, TypeOK, world
  <1> QED BY <1>1, <1>2, <1>3, <1>4, <1>5, <1>6, <1>7, <1>9, <1>10 DEF Process

\* Every step keeps the types.
LEMMA StepTypes == TypeOK /\ [Next]_vars => TypeOK'
  <1> SUFFICES ASSUME TypeOK, [Next]_vars PROVE TypeOK'
    OBVIOUS
  <1>1. CASE Tick
    BY <1>1, BoundsAssumption DEF Tick, TypeOK, tables
  <1>2. CASE StoreLost
    BY <1>2 DEF StoreLost, EmptyStore, TypeOK, tables, world
  <1>3. ASSUME NEW c \in Contents, Edit(c)
        PROVE  TypeOK'
    <2>1. file' \in [content : Contents, mtime : Int, ctime : Int]
      BY <1>3, WrittenType DEF Edit, TypeOK
    <2> QED BY <1>3, <2>1, BoundsAssumption DEF Edit, TypeOK, tables
  <1>4. CASE UNCHANGED vars
    BY <1>4 DEF vars, world, tables, TypeOK
  <1> QED BY <1>1, <1>2, <1>3, <1>4, ProcessTypes DEF Next

-----------------------------------------------------------------------------
(* What a step can put into the tables *)

\* insert adds one entry, and loses no key.
LEMMA InsertAdds ==
    ASSUME TypeOK, NEW p \in Procs, NEW k, NEW o, insert(p, k, o)
    PROVE  /\ \A q \in Procs : \A e \in entries'[q] :
                 e \in entries[q] \/ (q = p /\ e = [key |-> k, outcome |-> o])
           /\ \A e \in entries[p] : \E x \in entries'[p] : x.key = e.key
           /\ \E x \in entries'[p] : x.key = k
           /\ \A q \in Procs \ {p} : entries'[q] = entries[q]
  <1> DEFINE new == [key |-> k, outcome |-> o]
  <1>1. entries \in [Procs -> SUBSET Entries]
    BY DEF TypeOK
  <1>2. entries' = [entries EXCEPT ![p] = {e \in @ : e.key # k} \cup {new}]
    BY DEF insert
  <1>3. new.key = k
    OBVIOUS
  <1> HIDE DEF new
  <1>4. entries'[p] = {e \in entries[p] : e.key # k} \cup {new}
    BY <1>1, <1>2
  <1>5. \A q \in Procs \ {p} : entries'[q] = entries[q]
    BY <1>1, <1>2
  <1> QED BY <1>3, <1>4, <1>5 DEF new

\* remember adds at most one stamp, and only a settled one.
LEMMA RememberAdds ==
    ASSUME TypeOK, NEW p \in Procs, NEW k, NEW st, remember(p, k, st)
    PROVE  /\ \A q \in Procs : \A e \in stamps'[q] :
                 \/ e \in stamps[q]
                 \/ /\ q = p /\ Settled(p, st)
                    /\ e = [path |-> path_key(k.config, k.mode), stamp |-> st, key |-> k]
           /\ \A q \in Procs \ {p} : stamps'[q] = stamps[q]
  <1> DEFINE pk  == path_key(k.config, k.mode)
  <1> DEFINE new == [path |-> pk, stamp |-> st, key |-> k]
  <1>1. stamps \in [Procs -> SUBSET StampEntries]
    BY DEF TypeOK
  <1>2. stamps' = [stamps EXCEPT ![p] =
           IF Settled(p, st) THEN {e \in @ : e.path # pk} \cup {new} ELSE @]
    BY DEF remember
  <1> HIDE DEF pk, new
  <1>3. stamps'[p] = IF Settled(p, st) THEN {e \in stamps[p] : e.path # pk} \cup {new}
                                       ELSE stamps[p]
    BY <1>1, <1>2
  <1>4. \A q \in Procs \ {p} : stamps'[q] = stamps[q]
    BY <1>1, <1>2
  <1> QED BY <1>3, <1>4 DEF pk, new

\* An entry holds what may be reported of its content.
EntryOK(e) == e.outcome \in Promised(e.key.config, e.key.mode, e.key.content)

\* An entry that holds what may be reported keeps doing so.
LEMMA EntryStaysOK ==
    ASSUME formatted \subseteq formatted', NEW e, EntryOK(e)
    PROVE  EntryOK(e)'
  <1>1. PICK cf, m, c : cf = e.key.config /\ m = e.key.mode /\ c = e.key.content
    OBVIOUS
  <1>2. Promised(cf, m, c) \subseteq Promised(cf, m, c)'
    BY PromisedGrows
  <1> QED BY <1>1, <1>2 DEF EntryOK

\* A new stamp is one that p has looked up in this run.
StampOK(e, p) ==
    /\ e.path = path_key(e.key.config, e.key.mode)
    /\ e.stamp.mtime < run[p].settled
    /\ run[p].settled <= now - SETTLE
    /\ e.stamp = Stamp(file) => e.key.content = file.content

\* What a process adds to its own tables in one step (Cache::insert, remember).
LEMMA ProcessAdds ==
    ASSUME IInv, NEW p \in Procs, Process(p)
    PROVE  /\ \A q \in Procs : \A e \in entries'[q] : e \in AllEntries \/ EntryOK(e)'
           /\ \A q \in Procs : \A e \in stamps'[q] :
                 e \in AllStamps \/ (file' = file /\ StampOK(e, p))
           /\ \A e \in disk'.entries : e \in AllEntries
           /\ \A e \in disk'.stamps : e \in AllStamps
  <1> DEFINE Goal ==
        /\ \A q \in Procs : \A e \in entries'[q] : e \in AllEntries \/ EntryOK(e)'
        /\ \A q \in Procs : \A e \in stamps'[q] :
              e \in AllStamps \/ (file' = file /\ StampOK(e, p))
        /\ \A e \in disk'.entries : e \in AllEntries
        /\ \A e \in disk'.stamps : e \in AllStamps
  <1>0. TypeOK /\ LookupsSound
    BY DEF IInv
  <1>a. /\ \A q \in Procs : entries[q] \subseteq AllEntries /\ stamps[q] \subseteq AllStamps
        /\ disk.entries \subseteq AllEntries /\ disk.stamps \subseteq AllStamps
    BY DEF AllEntries, AllStamps
  <1>b. ASSUME entries' = entries, stamps' = stamps, disk' = disk
        PROVE  Goal
    BY <1>a, <1>b
  <1>t. /\ run[p].config \in Configs /\ run[p].mode \in {"format", "check"}
        /\ fresh[p].content \in Contents /\ file.content \in Contents
    BY <1>0, ProcTypes
  <1>g. formatted \subseteq formatted'
    BY <1>0, FormattedStep
  <1>1. ASSUME NEW cf \in Configs, Open(p, cf)
        PROVE  Goal
    <2>1. \A q \in Procs : /\ entries'[q] = entries[q] \/ entries'[q] = disk.entries
                           /\ stamps'[q] = stamps[q] \/ stamps'[q] = disk.stamps
      BY <1>1, <1>0 DEF Open, TypeOK
    <2>2. disk' = disk
      BY <1>1 DEF Open
    <2> QED BY <1>a, <2>1, <2>2
  <1>2. ASSUME NEW m \in Modes, Begin(p, m)
        PROVE  Goal
    BY <1>2, <1>b DEF Begin, tables
  <1>3. ASSUME Stat(p)
        PROVE  Goal
    BY <1>3, <1>b DEF Stat
  <1>4. ASSUME Read(p)
        PROVE  Goal
    <2> DEFINE k == Key(run[p].config, run[p].mode, file.content)
    <2>0. file' = file /\ entries' = entries /\ disk' = disk
      BY <1>4 DEF Read, world, tables
    <2>1. CASE stamps' = stamps
      BY <1>b, <2>0, <2>1
    <2>2. CASE remember(p, k, fresh[p].stamp)
      <3>1. k.config = run[p].config /\ k.mode = run[p].mode /\ k.content = file.content
        BY <1>t, StoredTypes
      <3>2. run[p].settled <= now - SETTLE
        BY <1>0, <1>4 DEF LookupsSound, Read
      <3>3. ASSUME NEW q \in Procs, NEW e \in stamps'[q], e \notin stamps[q]
            PROVE  StampOK(e, p)
        <4>1. /\ e = [path |-> path_key(k.config, k.mode), stamp |-> fresh[p].stamp, key |-> k]
              /\ Settled(p, fresh[p].stamp)
          BY <1>0, <2>2, <3>3, RememberAdds
        <4> HIDE DEF k
        <4>2. e.path = path_key(k.config, k.mode) /\ e.stamp = fresh[p].stamp /\ e.key = k
          BY <4>1
        <4> QED BY <3>1, <3>2, <4>1, <4>2 DEF StampOK, Settled
      <3> QED BY <1>a, <2>0, <3>3
    <2> QED BY <1>4, <2>1, <2>2 DEF Read, tables
  <1>5. ASSUME Work(p)
        PROVE  Goal
    <2> DEFINE k == Key(run[p].config, run[p].mode, fresh[p].content)
    <2> DEFINE o == transform(run[p].config, run[p].mode, fresh[p].content)
    <2>0. file' = file /\ disk' = disk
      BY <1>5 DEF Work, world
    <2>1. CASE UNCHANGED tables
      BY <1>b, <2>0, <2>1 DEF tables
    <2>2. CASE /\ fresh[p].content \notin Failed \cup Generated /\ Storable(run[p].mode, o)
               /\ insert(p, k, o) /\ remember(p, k, fresh[p].stamp)
      <3>1. k.config = run[p].config /\ k.mode = run[p].mode /\ k.content = fresh[p].content
        BY <1>t, StoredTypes
      <3>2. /\ run[p].settled <= now - SETTLE
            /\ fresh[p].stamp.mtime < run[p].settled /\ fresh[p].stamp = Stamp(file)
                 => fresh[p].content = file.content
        BY <1>0, <1>5 DEF LookupsSound, Work
      <3>3. ASSUME NEW q \in Procs, NEW e \in stamps'[q], e \notin stamps[q]
            PROVE  StampOK(e, p)
        <4>1. /\ e = [path |-> path_key(k.config, k.mode), stamp |-> fresh[p].stamp, key |-> k]
              /\ Settled(p, fresh[p].stamp)
          BY <1>0, <2>2, <3>3, RememberAdds
        <4> HIDE DEF k
        <4>2. e.path = path_key(k.config, k.mode) /\ e.stamp = fresh[p].stamp /\ e.key = k
          BY <4>1
        <4> QED BY <3>1, <3>2, <4>1, <4>2 DEF StampOK, Settled
      <3>4. ASSUME NEW q \in Procs, NEW e \in entries'[q], e \notin entries[q]
            PROVE  EntryOK(e)'
        <4>1. e = [key |-> k, outcome |-> o]
          BY <1>0, <2>2, <3>4, InsertAdds
        <4>2. Storable(run[p].mode, o)
          BY <2>2
        <4> HIDE DEF k, o
        <4>3. e.key = k /\ e.outcome = o
          BY <4>1
        <4>4. o = transform(k.config, k.mode, k.content)
          BY <3>1 DEF o
        <4>5. CASE k.mode = "check"
          BY <1>g, <2>2, <3>1, <4>3, <4>4, <4>5, EntryStaysOK DEF EntryOK, Promised
        <4>6. CASE k.mode # "check"
          <5>1. ~o.changed /\ k.mode = "format"
            BY <1>t, <3>1, <4>2, <4>6 DEF Storable
          <5>2. Format(k.config, k.content) = k.content
            BY <4>4, <5>1 DEF transform
          <5>3. o = [changed |-> FALSE, about |-> k.content]
            BY <4>4, <5>1, <5>2 DEF transform
          <5>4. Left(k.config, k.content)
            BY <2>2, <3>1, <5>2 DEF Left
          <5>5. EntryOK(e)
            BY <4>3, <4>6, <5>3, <5>4 DEF EntryOK, Promised
          <5> QED BY <1>g, <5>5, EntryStaysOK
        <4> QED BY <4>5, <4>6
      <3> QED BY <1>a, <2>0, <3>3, <3>4
    <2> QED BY <1>5, <2>1, <2>2 DEF Work, tables
  <1>6. ASSUME Write(p)
        PROVE  Goal
    <2> DEFINE cf  == run[p].config
    <2> DEFINE out == Format(cf, fresh[p].content)
    <2> DEFINE k   == Key(cf, "format", out)
    <2> DEFINE o   == clean(cf, fresh[p].content)
    <2>1. insert(p, k, o) /\ stamps' = stamps /\ disk' = disk
      BY <1>6 DEF Write
    <2>2. out \in Contents
      BY <1>t, OutcomeType
    <2>3. k.config = cf /\ k.mode = "format" /\ k.content = out
      BY <1>t, <2>2, StoredTypes
    <2>4. o = [changed |-> FALSE, about |-> out]
      BY <1>t, CleanSpeaksOfOutput
    <2>5. formatted' = formatted \cup {[config |-> cf, content |-> out]}
      BY <1>6 DEF Write
    <2>6. ASSUME NEW q \in Procs, NEW e \in entries'[q], e \notin entries[q]
          PROVE  EntryOK(e)'
      <3>1. e = [key |-> k, outcome |-> o]
        BY <1>0, <2>1, <2>6, InsertAdds
      <3>2. PICK x, y : x = cf /\ y = out
        OBVIOUS
      <3> HIDE DEF k, o, out, cf
      <3>3. e.key.config = x /\ e.key.mode = "format" /\ e.key.content = y
        BY <2>3, <3>1, <3>2
      <3>4. e.outcome = [changed |-> FALSE, about |-> y]
        BY <2>4, <3>1, <3>2
      <3>5. [config |-> x, content |-> y] \in formatted'
        BY <2>5, <3>2
      <3> QED BY <3>3, <3>4, <3>5 DEF EntryOK, Promised, Left
    <2> QED BY <1>a, <2>1, <2>6
  <1>7. ASSUME WriteFails(p)
        PROVE  Goal
    BY <1>7, <1>b DEF WriteFails, tables
  <1>8. ASSUME Flush(p)
        PROVE  Goal
    <2>1. Kept(p) \subseteq entries[p] /\ KeptStamps(p) \subseteq stamps[p]
      BY DEF Kept, KeptStamps
    <2>2. CASE UNCHANGED <<disk, tables>>
      BY <1>b, <2>2 DEF tables
    <2>3. CASE /\ entries' = [entries EXCEPT ![p] = Kept(p)]
               /\ stamps' = [stamps EXCEPT ![p] = KeptStamps(p)]
               /\ disk' = [entries |-> Kept(p), stamps |-> KeptStamps(p)] \/ disk' = disk
      <3>1. \A q \in Procs : entries'[q] \subseteq entries[q] /\ stamps'[q] \subseteq stamps[q]
        BY <1>0, <2>1, <2>3 DEF TypeOK
      <3>2. /\ disk'.entries \subseteq entries[p] \/ disk' = disk
            /\ disk'.stamps \subseteq stamps[p] \/ disk' = disk
        BY <2>1, <2>3
      <3> QED BY <1>a, <3>1, <3>2
    <2> QED BY <1>8, <2>2, <2>3 DEF Flush, tables
  <1>9. ASSUME Close(p)
        PROVE  Goal
    <2>1. \A q \in Procs : entries'[q] \subseteq entries[q] /\ stamps'[q] \subseteq stamps[q]
      BY <1>0, <1>9 DEF Close, TypeOK
    <2>2. disk' = disk
      BY <1>9 DEF Close
    <2> QED BY <1>a, <2>1, <2>2
  <1> QED BY <1>1, <1>2, <1>3, <1>4, <1>5, <1>6, <1>7, <1>8, <1>9 DEF Process

-----------------------------------------------------------------------------
(* The invariant *)

\* A step of p leaves what the other processes do and know alone.
LEMMA OthersUnchanged ==
    ASSUME TypeOK, NEW p \in Procs, Process(p), NEW q \in Procs, q # p
    PROVE  /\ pc'[q] = pc[q] /\ run'[q] = run[q] /\ fresh'[q] = fresh[q]
           /\ result'[q] = result[q]
           /\ entries'[q] = entries[q] /\ stamps'[q] = stamps[q]
  <1>t. /\ pc = [x \in Procs |-> pc[x]] /\ run = [x \in Procs |-> run[x]]
        /\ fresh = [x \in Procs |-> fresh[x]] /\ result = [x \in Procs |-> result[x]]
        /\ entries = [x \in Procs |-> entries[x]] /\ stamps = [x \in Procs |-> stamps[x]]
    BY DEF TypeOK
  <1>1. ASSUME NEW cf \in Configs, Open(p, cf)
        PROVE  pc'[q] = pc[q] /\ run'[q] = run[q] /\ fresh'[q] = fresh[q]
               /\ result'[q] = result[q] /\ entries'[q] = entries[q] /\ stamps'[q] = stamps[q]
    BY <1>1, <1>t DEF Open
  <1>2. ASSUME NEW m \in Modes, Begin(p, m)
        PROVE  pc'[q] = pc[q] /\ run'[q] = run[q] /\ fresh'[q] = fresh[q]
               /\ result'[q] = result[q] /\ entries'[q] = entries[q] /\ stamps'[q] = stamps[q]
    BY <1>2, <1>t DEF Begin, tables
  <1>3. CASE Stat(p)
    BY <1>3, <1>t DEF Stat, Report
  <1>4. CASE Read(p)
    BY <1>4, <1>t DEF Read, Report, remember, tables
  <1>5. CASE Work(p)
    BY <1>5, <1>t DEF Work, Report, remember, insert, tables
  <1>6. CASE Write(p)
    BY <1>6, <1>t DEF Write, Report, insert
  <1>7. CASE WriteFails(p)
    BY <1>7, <1>t DEF WriteFails, Report, tables
  <1>8. CASE Flush(p)
    BY <1>8, <1>t DEF Flush, Forget, tables
  <1>9. CASE Close(p)
    BY <1>9, <1>t DEF Close, Forget
  <1> QED BY <1>1, <1>2, <1>3, <1>4, <1>5, <1>6, <1>7, <1>8, <1>9 DEF Process

\* Only a write changes the file, and a write gives it the time of now; the
\* clock stands still meanwhile and never goes back.
LEMMA FileStep ==
    ASSUME TypeOK, Next
    PROVE  /\ \/ file' = file
              \/ now' = now /\ \E c \in Contents : file' = Written(c)
           /\ now' \in Int /\ now' >= now
  <1> USE BoundsAssumption
  <1>n. now \in Int
    BY DEF TypeOK
  <1>1. CASE Tick
    BY <1>1, <1>n DEF Tick
  <1>2. CASE StoreLost
    BY <1>2, <1>n DEF StoreLost, world
  <1>3. ASSUME NEW c \in Contents, Edit(c)
        PROVE  now' = now /\ file' = Written(c)
    BY <1>3 DEF Edit
  <1>4. ASSUME NEW p \in Procs, Process(p)
        PROVE  now' = now /\ (file' = file \/ \E c \in Contents : file' = Written(c))
    <2>1. CASE Write(p)
      <3>1. Format(run[p].config, fresh[p].content) \in Contents
        BY ProcTypes, OutcomeType
      <3> QED BY <2>1, <3>1 DEF Write
    <2>2. CASE ~Write(p)
      BY <1>4, <2>2 DEF Process, Open, Begin, Stat, Read, Work, WriteFails, Flush, Close, world
    <2> QED BY <2>1, <2>2
  <1> QED BY <1>1, <1>2, <1>3, <1>4, <1>n DEF Next

\* A stamp from before the horizon says nothing about a file written since.
LEMMA StampOutlived ==
    ASSUME TypeOK, Next, NEW st \in Stamps, st.mtime < now - SETTLE, st = Stamp(file')
    PROVE  file' = file
  <1>1. CASE file' = file
    BY <1>1
  <1>2. CASE \E c \in Contents : file' = Written(c)
    <2>1. PICK c \in Contents : file' = Written(c)
      BY <1>2
    <2>2. file'.mtime > now - SETTLE /\ Stamp(file').mtime = file'.mtime
          /\ file'.mtime \in Int
      BY <2>1, WrittenType DEF TypeOK
    <2>3. st.mtime \in Int /\ now \in Int /\ SETTLE \in Int
      BY BoundsAssumption, CoarseAssumption DEF TypeOK, Stamps
    <2> QED BY <2>2, <2>3
  <1> QED BY <1>1, <1>2, FileStep

\* Every step keeps what is stored right.
LEMMA StoresStep ==
    ASSUME IInv, Next
    PROVE  StoreCoherent' /\ StampsSound' /\ StampsSettled'
  <1> USE DEF IInv
  <1>a. SETTLE \in Int /\ now \in Int /\ now' \in Int /\ now' >= now
    BY CoarseAssumption, FileStep, BoundsAssumption DEF TypeOK
  <1>b. \A e \in AllEntries : EntryOK(e)
    BY DEF StoreCoherent, EntryOK
  <1>d. formatted \subseteq formatted'
    <2>1. ASSUME NEW p \in Procs, Process(p) PROVE formatted \subseteq formatted'
      BY <2>1, FormattedStep
    <2> QED BY <2>1 DEF Next, Tick, StoreLost, Edit
  <1>c. \A e \in AllStamps : /\ e.path = path_key(e.key.config, e.key.mode)
                             /\ e.stamp = Stamp(file) => e.key.content = file.content
                             /\ e.stamp.mtime < now - SETTLE
                             /\ e.stamp \in Stamps
    <2>1. AllStamps \subseteq StampEntries
      BY DEF AllStamps, TypeOK
    <2> QED BY <2>1 DEF StampsSound, StampsSettled, StampEntries
  <1>1. /\ \A e \in AllEntries' : e \in AllEntries \/ EntryOK(e)'
        /\ \A e \in AllStamps' :
              e \in AllStamps \/ (file' = file /\ \E p \in Procs : StampOK(e, p))
    <2>1. CASE Tick
      BY <2>1 DEF Tick, tables, AllEntries, AllStamps
    <2>2. CASE StoreLost
      <3>1. disk'.entries = {} /\ disk'.stamps = {} /\ entries' = entries /\ stamps' = stamps
        BY <2>2 DEF StoreLost, EmptyStore, tables
      <3> QED BY <3>1 DEF AllEntries, AllStamps
    <2>3. ASSUME NEW c \in Contents, Edit(c)
          PROVE  AllEntries' = AllEntries /\ AllStamps' = AllStamps
      BY <2>3 DEF Edit, tables, AllEntries, AllStamps
    <2>4. ASSUME NEW p \in Procs, Process(p)
          PROVE  /\ \A e \in AllEntries' : e \in AllEntries \/ EntryOK(e)'
                 /\ \A e \in AllStamps' :
                       e \in AllStamps \/ (file' = file /\ \E x \in Procs : StampOK(e, x))
      <3>1. \A e \in AllEntries' : e \in disk'.entries \/ \E q \in Procs : e \in entries'[q]
        BY DEF AllEntries
      <3>2. \A e \in AllStamps' : e \in disk'.stamps \/ \E q \in Procs : e \in stamps'[q]
        BY DEF AllStamps
      <3> QED BY <2>4, <3>1, <3>2, ProcessAdds
    <2> QED BY <2>1, <2>2, <2>3, <2>4 DEF Next
  <1>2. StoreCoherent'
    <2>1. \A e \in AllEntries' : EntryOK(e)'
      BY <1>1, <1>b, <1>d, EntryStaysOK
    <2> QED BY <2>1 DEF EntryOK, StoreCoherent
  <1>3. ASSUME NEW e \in AllStamps'
        PROVE  /\ e.path = path_key(e.key.config, e.key.mode)
               /\ e.stamp = Stamp(file') => e.key.content = file'.content
               /\ e.stamp.mtime < now' - SETTLE
    <2>0. e.stamp.mtime \in Int
      <3>1. TypeOK'
        BY StepTypes
      <3>2. AllStamps' \subseteq StampEntries
        BY <3>1 DEF TypeOK, AllStamps
      <3> QED BY <3>2 DEF StampEntries, Stamps
    <2>1. CASE e \in AllStamps
      <3>1. e.stamp = Stamp(file') => file' = file
        BY <1>c, <2>1, StampOutlived
      <3> QED BY <1>a, <1>c, <2>0, <2>1, <3>1
    <2>2. CASE file' = file /\ \E p \in Procs : StampOK(e, p)
      <3>1. PICK p \in Procs : StampOK(e, p)
        BY <2>2
      <3>2. run[p].settled \in Int
        BY ProcTypes
      <3> QED BY <1>a, <2>0, <2>2, <3>1, <3>2 DEF StampOK
    <2> QED BY <1>1, <2>1, <2>2
  <1> QED BY <1>2, <1>3 DEF StampsSound, StampsSettled

\* Every stamp still leads to an entry.
LEMMA BackedStep ==
    ASSUME IInv, Next
    PROVE  NoDanglingStamp'
  <1>0. TypeOK /\ NoDanglingStamp
    BY DEF IInv
  <1>a. ASSUME entries' = entries, stamps' = stamps, disk' = disk
        PROVE  NoDanglingStamp'
    BY <1>0, <1>a DEF NoDanglingStamp, Backed
  <1>b. Backed({}, {})
    BY DEF Backed
  <1>1. CASE Tick
    BY <1>1, <1>a DEF Tick, tables
  <1>2. CASE StoreLost
    BY <1>0, <1>2, <1>b DEF StoreLost, EmptyStore, tables, NoDanglingStamp
  <1>3. ASSUME NEW c \in Contents, Edit(c)
        PROVE  NoDanglingStamp'
    BY <1>3, <1>a DEF Edit, tables
  <1>4. ASSUME NEW p \in Procs, Process(p)
        PROVE  NoDanglingStamp'
    <2>a. ASSUME Backed(entries'[p], stamps'[p]), Backed(disk'.entries, disk'.stamps)
          PROVE  NoDanglingStamp'
      <3>1. \A q \in Procs \ {p} : entries'[q] = entries[q] /\ stamps'[q] = stamps[q]
        BY <1>0, <1>4, OthersUnchanged
      <3>2. \A q \in Procs : Backed(entries'[q], stamps'[q])
        BY <1>0, <2>a, <3>1 DEF NoDanglingStamp
      <3> QED BY <2>a, <3>2 DEF NoDanglingStamp
    <2>b. Backed(entries[p], stamps[p]) /\ Backed(disk.entries, disk.stamps)
      BY <1>0 DEF NoDanglingStamp
    <2>1. ASSUME NEW cf \in Configs, Open(p, cf)
          PROVE  NoDanglingStamp'
      <3>1. entries'[p] = disk.entries /\ stamps'[p] = disk.stamps /\ disk' = disk
        BY <1>0, <2>1 DEF Open, TypeOK
      <3> QED BY <2>a, <2>b, <3>1
    <2>2. ASSUME NEW m \in Modes, Begin(p, m)
          PROVE  NoDanglingStamp'
      BY <1>a, <2>2 DEF Begin, tables
    <2>3. CASE Stat(p)
      BY <1>a, <2>3 DEF Stat
    <2>4. CASE Read(p)
      <3> DEFINE k == Key(run[p].config, run[p].mode, file.content)
      <3>0. entries' = entries /\ disk' = disk
        BY <2>4 DEF Read, tables
      <3>1. CASE stamps' = stamps
        BY <1>a, <3>0, <3>1
      <3>2. CASE remember(p, k, fresh[p].stamp) /\ get(p, k) # {}
        <4>1. \E x \in entries[p] : x.key = k
          BY <3>2 DEF get
        <4> HIDE DEF k
        <4>2. \A e \in stamps'[p] : e \in stamps[p] \/ e.key = k
          BY <1>0, <3>2, RememberAdds
        <4>3. Backed(entries'[p], stamps'[p])
          BY <2>b, <3>0, <4>1, <4>2 DEF Backed
        <4> QED BY <2>a, <2>b, <3>0, <4>3
      <3> QED BY <2>4, <3>1, <3>2 DEF Read, tables
    <2>5. CASE Work(p)
      <3> DEFINE k == Key(run[p].config, run[p].mode, fresh[p].content)
      <3> DEFINE o == transform(run[p].config, run[p].mode, fresh[p].content)
      <3>0. disk' = disk
        BY <2>5 DEF Work
      <3>1. CASE UNCHANGED tables
        BY <1>a, <3>0, <3>1 DEF tables
      <3>2. CASE insert(p, k, o) /\ remember(p, k, fresh[p].stamp)
        <4> HIDE DEF k, o
        <4>1. \A e \in stamps'[p] : e \in stamps[p] \/ e.key = k
          BY <1>0, <3>2, RememberAdds
        <4>2. /\ \A e \in entries[p] : \E x \in entries'[p] : x.key = e.key
              /\ \E x \in entries'[p] : x.key = k
          BY <1>0, <3>2, InsertAdds
        <4>3. Backed(entries'[p], stamps'[p])
          BY <2>b, <4>1, <4>2 DEF Backed
        <4> QED BY <2>a, <2>b, <3>0, <4>3
      <3> QED BY <2>5, <3>1, <3>2 DEF Work, tables
    <2>6. CASE Write(p)
      <3> DEFINE k == Key(run[p].config, "format", Format(run[p].config, fresh[p].content))
      <3> DEFINE o == clean(run[p].config, fresh[p].content)
      <3>1. insert(p, k, o) /\ stamps' = stamps /\ disk' = disk
        BY <2>6 DEF Write
      <3> HIDE DEF k, o
      <3>2. \A e \in entries[p] : \E x \in entries'[p] : x.key = e.key
        BY <1>0, <3>1, InsertAdds
      <3>3. Backed(entries'[p], stamps'[p])
        BY <2>b, <3>1, <3>2 DEF Backed
      <3> QED BY <2>a, <2>b, <3>1, <3>3
    <2>7. CASE WriteFails(p)
      BY <1>a, <2>7 DEF WriteFails, tables
    <2>8. CASE Flush(p)
      <3>1. Backed(Kept(p), KeptStamps(p))
        BY <2>b DEF Backed, Kept, KeptStamps
      <3>2. CASE UNCHANGED <<disk, tables>>
        BY <1>a, <3>2 DEF tables
      <3>3. CASE /\ entries' = [entries EXCEPT ![p] = Kept(p)]
                 /\ stamps' = [stamps EXCEPT ![p] = KeptStamps(p)]
                 /\ disk' = [entries |-> Kept(p), stamps |-> KeptStamps(p)] \/ disk' = disk
        <4>1. entries'[p] = Kept(p) /\ stamps'[p] = KeptStamps(p)
          BY <1>0, <3>3 DEF TypeOK
        <4>2. (disk'.entries = Kept(p) /\ disk'.stamps = KeptStamps(p)) \/ disk' = disk
          BY <3>3
        <4> QED BY <2>a, <2>b, <3>1, <4>1, <4>2
      <3> QED BY <2>8, <3>2, <3>3 DEF Flush, tables
    <2>9. CASE Close(p)
      <3>1. entries'[p] = {} /\ stamps'[p] = {} /\ disk' = disk
        BY <1>0, <2>9 DEF Close, TypeOK
      <3> QED BY <1>b, <2>a, <2>b, <3>1
    <2> QED BY <1>4, <2>1, <2>2, <2>3, <2>4, <2>5, <2>6, <2>7, <2>8, <2>9 DEF Process
  <1> QED BY <1>1, <1>2, <1>3, <1>4 DEF Next

\* What LookupsSound, HitIsCurrent and HitNeedsNoWrite say of one process.
ProcOK(p) ==
    /\ pc[p] \notin {"closed", "idle"} => run[p].settled <= now - SETTLE
    /\ pc[p] \in {"work", "write"} /\ fresh[p].stamp.mtime < run[p].settled
          /\ fresh[p].stamp = Stamp(file) => fresh[p].content = file.content
    /\ pc[p] # "done" => result[p].kind # "hit"
    /\ result[p].kind = "hit" /\ pc[p] = "done" =>
          /\ result[p].outcome \in Promised(run[p].config, run[p].mode, result[p].seen)
          /\ run[p].mode = "format" => Left(run[p].config, result[p].seen)

\* The three are what ProcOK says of every process.
LEMMA ProcsOK == LookupsSound /\ HitIsCurrent /\ HitNeedsNoWrite <=> \A p \in Procs : ProcOK(p)
  BY DEF LookupsSound, HitIsCurrent, HitNeedsNoWrite, ProcOK

\* A process that takes no step stays sound, whatever happens to the file.
LEMMA IdleStep ==
    ASSUME IInv, Next, NEW q \in Procs, pc'[q] = pc[q], run'[q] = run[q],
           fresh'[q] = fresh[q], result'[q] = result[q], formatted \subseteq formatted'
    PROVE  ProcOK(q)'
  <1>1. ProcOK(q) /\ TypeOK
    BY ProcsOK DEF IInv
  <1>2. /\ run[q].settled \in Int /\ now \in Int /\ SETTLE \in Int /\ now' \in Int /\ now' >= now
        /\ fresh[q].stamp \in Stamps /\ fresh[q].stamp.mtime \in Int
    BY <1>1, ProcTypes, FileStep, CoarseAssumption
  <1>3. ASSUME pc[q] \in {"work", "write"}, fresh[q].stamp.mtime < run[q].settled,
               fresh[q].stamp = Stamp(file')
        PROVE  fresh[q].content = file'.content
    <2>1. run[q].settled <= now - SETTLE
      BY <1>1, <1>3 DEF ProcOK
    <2>2. file' = file
      BY <1>1, <1>2, <1>3, <2>1, StampOutlived
    <2> QED BY <1>1, <1>3, <2>2 DEF ProcOK
  <1>4. pc[q] \notin {"closed", "idle"} => run[q].settled <= now' - SETTLE
    BY <1>1, <1>2 DEF ProcOK
  <1>5. PICK cf, m, c : cf = run[q].config /\ m = run[q].mode /\ c = result[q].seen
    OBVIOUS
  <1>6. (Left(cf, c) => Left(cf, c)') /\ Promised(cf, m, c) \subseteq Promised(cf, m, c)'
    BY PromisedGrows
  <1>7. result[q].kind = "hit" /\ pc[q] = "done" =>
           /\ result'[q].outcome \in Promised(cf, m, c)'
           /\ m = "format" => Left(cf, c)'
    BY <1>1, <1>5, <1>6 DEF ProcOK
  <1>8. cf = run'[q].config /\ m = run'[q].mode /\ c = result'[q].seen
    BY <1>5
  <1> QED BY <1>1, <1>3, <1>4, <1>7, <1>8 DEF ProcOK, Promised, Left

\* A hit, by the stamp or by the bytes, is about the content the file has.
LEMMA HitOK ==
    ASSUME IInv, NEW p \in Procs, NEW e \in entries[p], NEW o, e.outcome = o,
           e.key = Key(run[p].config, run[p].mode, file.content)
    PROVE  /\ o \in Promised(run[p].config, run[p].mode, file.content)
           /\ run[p].mode = "format" => Left(run[p].config, file.content)
  <1>1. e \in AllEntries
    BY DEF AllEntries
  <1>2. /\ e.key.config = run[p].config /\ e.key.mode = run[p].mode
        /\ e.key.content = file.content
    BY ProcTypes, StoredTypes DEF IInv
  <1>3. o \in Promised(run[p].config, run[p].mode, file.content)
    BY <1>1, <1>2 DEF IInv, StoreCoherent
  <1> QED BY <1>3 DEF Promised

\* A process's own step leaves it sound.
LEMMA OwnStep ==
    ASSUME IInv, NEW p \in Procs, Process(p)
    PROVE  ProcOK(p)'
  <1>0. TypeOK /\ ProcOK(p) /\ TypeOK'
    <2>1. Next
      BY DEF Next
    <2> QED BY <2>1, ProcsOK, StepTypes DEF IInv
  <1>t. /\ run[p].config \in Configs /\ run[p].mode \in {"format", "check"}
        /\ file.content \in Contents /\ fresh[p].content \in Contents
        /\ now \in Int /\ SETTLE \in Int /\ run[p].settled \in Int
    BY <1>0, ProcTypes, CoarseAssumption
  <1>f. /\ pc = [x \in Procs |-> pc[x]] /\ run = [x \in Procs |-> run[x]]
        /\ fresh = [x \in Procs |-> fresh[x]] /\ result = [x \in Procs |-> result[x]]
    BY <1>0 DEF TypeOK
  <1>g. formatted \subseteq formatted'
    BY <1>0, FormattedStep
  <1>r. ASSUME NEW kind, NEW o, NEW c, Report(p, kind, o, c)
        PROVE  pc'[p] = "done" /\ result'[p].kind = kind /\ result'[p].outcome = o
               /\ result'[p].seen = c
    BY <1>r, <1>f DEF Report
  <1>h. ASSUME NEW o, Report(p, "hit", o, file.content), run' = run, now' = now,
               pc[p] \notin {"closed", "idle"},
               NEW e \in entries[p], e.outcome = o,
               e.key = Key(run[p].config, run[p].mode, file.content)
        PROVE  ProcOK(p)'
    <2>0. PICK cf, m, c : cf = run[p].config /\ m = run[p].mode /\ c = file.content
      OBVIOUS
    <2>1. o \in Promised(cf, m, c) /\ (m = "format" => Left(cf, c))
      BY <1>h, <2>0, HitOK
    <2>4. o \in Promised(cf, m, c)' /\ (m = "format" => Left(cf, c)')
      BY <1>g, <2>1, PromisedGrows
    <2>2. /\ pc'[p] = "done" /\ result'[p].outcome = o /\ result'[p].seen = file.content
      BY <1>h, <1>r
    <2>3. run[p].settled <= now - SETTLE
      BY <1>0, <1>h DEF ProcOK
    <2>5. cf = run'[p].config /\ m = run'[p].mode /\ c = result'[p].seen
      BY <1>h, <2>0, <2>2
    <2> QED BY <1>h, <2>2, <2>3, <2>4, <2>5 DEF ProcOK, Promised, Left
  <1>m. ASSUME NEW kind, kind # "hit", NEW o, NEW c, Report(p, kind, o, c), run' = run, now' = now,
               pc[p] \notin {"closed", "idle"}
        PROVE  ProcOK(p)'
    <2>1. pc'[p] = "done" /\ result'[p].kind # "hit"
      BY <1>m, <1>r
    <2>2. run[p].settled <= now - SETTLE
      BY <1>0, <1>m DEF ProcOK
    <2> QED BY <1>m, <2>1, <2>2 DEF ProcOK
  <1>1. ASSUME NEW cf \in Configs, Open(p, cf)
        PROVE  ProcOK(p)'
    <2>1. pc'[p] = "idle" /\ result' = result /\ pc[p] = "closed"
      BY <1>1, <1>f DEF Open
    <2> QED BY <1>0, <2>1 DEF ProcOK
  <1>2. ASSUME NEW m \in Modes, Begin(p, m)
        PROVE  ProcOK(p)'
    <2>1. /\ pc'[p] = "stat" /\ result' = result /\ pc[p] = "idle" /\ now' = now
          /\ run'[p].settled = now - SETTLE
      BY <1>2, <1>f DEF Begin, world
    <2> QED BY <1>0, <1>t, <2>1 DEF ProcOK
  <1>3. CASE Stat(p)
    <2> DEFINE pk == path_key(run[p].config, run[p].mode)
    <2>0. run' = run /\ now' = now /\ pc[p] = "stat"
      BY <1>3 DEF Stat, world
    <2>1. ASSUME NEW o \in get_stamped(p, pk, Stamp(file)), Report(p, "hit", o, file.content)
          PROVE  ProcOK(p)'
      <3>1. PICK x \in stamps[p], e \in entries[p] :
               x.path = pk /\ x.stamp = Stamp(file) /\ e.key = x.key /\ e.outcome = o
        BY <1>0, <2>1, GetTypes
      <3>2. x \in AllStamps /\ x.key \in Keys
        BY <1>0, GetTypes DEF AllStamps
      <3>3. x.path = path_key(x.key.config, x.key.mode) /\ x.key.content = file.content
        BY <3>1, <3>2 DEF IInv, StampsSound
      <3>4. x.key.config = run[p].config /\ x.key.mode = run[p].mode
        BY <3>1, <3>3 DEF path_key
      <3>5. x.key = Key(run[p].config, run[p].mode, file.content)
        BY <3>2, <3>3, <3>4 DEF Key, Keys
      <3> QED BY <1>h, <2>0, <2>1, <3>1, <3>5
    <2>2. CASE pc' = [pc EXCEPT ![p] = "read"] /\ result' = result
      <3>1. pc'[p] = "read"
        BY <2>2, <1>f
      <3> QED BY <1>0, <2>0, <2>2, <3>1 DEF ProcOK
    <2> QED BY <1>3, <2>1, <2>2 DEF Stat
  <1>4. CASE Read(p)
    <2> DEFINE k == Key(run[p].config, run[p].mode, file.content)
    <2>0. run' = run /\ now' = now /\ pc[p] = "read" /\ file' = file
      BY <1>4 DEF Read, world
    <2>1. ASSUME NEW o \in get(p, k), Report(p, "hit", o, file.content)
          PROVE  ProcOK(p)'
      <3>1. PICK e \in entries[p] : e.key = k /\ e.outcome = o
        BY <1>0, <2>1, GetTypes
      <3> QED BY <1>h, <2>0, <2>1, <3>1
    <2>2. CASE pc' = [pc EXCEPT ![p] = "work"] /\ result' = result
      <3>1. pc'[p] = "work"
        BY <2>2, <1>f
      <3>2. fresh'[p].content = file.content
        BY <1>4, <1>0 DEF Read, TypeOK
      <3> QED BY <1>0, <2>0, <2>2, <3>1, <3>2 DEF ProcOK
    <2> QED BY <1>4, <2>1, <2>2 DEF Read
  <1>5. CASE Work(p)
    <2> DEFINE o == transform(run[p].config, run[p].mode, fresh[p].content)
    <2>0. run' = run /\ now' = now /\ pc[p] = "work" /\ file' = file /\ fresh' = fresh
      BY <1>5 DEF Work, world
    <2>1. CASE \/ Report(p, "failed", o, fresh[p].content)
               \/ Report(p, "fresh", o, fresh[p].content)
      BY <1>m, <2>0, <2>1
    <2>2. CASE pc' = [pc EXCEPT ![p] = "done"] /\ result' = result
      <3>1. pc'[p] = "done"
        BY <2>2, <1>f
      <3> QED BY <1>0, <2>0, <2>2, <3>1 DEF ProcOK
    <2>3. CASE /\ pc' = [pc EXCEPT ![p] = "write"] /\ result' = result
      <3>1. pc'[p] = "write"
        BY <2>3, <1>f
      <3> QED BY <1>0, <2>0, <2>3, <3>1 DEF ProcOK
    <2> QED BY <1>5, <2>1, <2>2, <2>3 DEF Work
  <1>6. CASE Write(p)
    <2>1. run' = run /\ now' = now /\ pc[p] = "write"
      BY <1>6 DEF Write
    <2> QED BY <1>6, <1>m, <2>1 DEF Write
  <1>7. CASE WriteFails(p)
    <2>1. run' = run /\ now' = now /\ pc[p] = "write"
      BY <1>7 DEF WriteFails, world
    <2> QED BY <1>7, <1>m, <2>1 DEF WriteFails
  <1>8. CASE Flush(p)
    <2>1. pc'[p] = "idle" /\ result'[p].kind = "none"
      BY <1>8, <1>f DEF Flush, Forget, NoResult
    <2> QED BY <2>1 DEF ProcOK
  <1>9. CASE Close(p)
    <2>1. pc'[p] = "closed" /\ result'[p].kind = "none"
      BY <1>9, <1>f DEF Close, Forget, NoResult
    <2> QED BY <2>1 DEF ProcOK
  <1> QED BY <1>1, <1>2, <1>3, <1>4, <1>5, <1>6, <1>7, <1>8, <1>9 DEF Process

\* Every step leaves every process sound.
LEMMA LookupsStep ==
    ASSUME IInv, Next
    PROVE  LookupsSound' /\ HitIsCurrent' /\ HitNeedsNoWrite'
  <1>0. TypeOK
    BY DEF IInv
  <1>1. ASSUME NEW q \in Procs
        PROVE  ProcOK(q)'
    <2>a. ASSUME pc' = pc, run' = run, fresh' = fresh, result' = result, formatted' = formatted
          PROVE  ProcOK(q)'
      BY <2>a, IdleStep
    <2>1. CASE Tick
      BY <2>1, <2>a DEF Tick
    <2>2. CASE StoreLost
      BY <2>2, <2>a DEF StoreLost
    <2>3. ASSUME NEW c \in Contents, Edit(c)
          PROVE  ProcOK(q)'
      BY <2>3, <2>a DEF Edit
    <2>4. ASSUME NEW p \in Procs, Process(p)
          PROVE  ProcOK(q)'
      <3>1. CASE q = p
        BY <2>4, <3>1, OwnStep
      <3>2. CASE q # p
        BY <1>0, <2>4, <3>2, OthersUnchanged, FormattedStep, IdleStep
      <3> QED BY <3>1, <3>2
    <2> QED BY <2>1, <2>2, <2>3, <2>4 DEF Next
  <1>2. (\A p \in Procs : ProcOK(p))' => (LookupsSound /\ HitIsCurrent /\ HitNeedsNoWrite)'
    BY DEF LookupsSound, HitIsCurrent, HitNeedsNoWrite, ProcOK
  <1> QED BY <1>1, <1>2

\* A step that changes nothing keeps the invariant.
LEMMA StutterStep == IInv /\ UNCHANGED vars => IInv'
  <1> SUFFICES ASSUME IInv, UNCHANGED vars PROVE IInv'
    OBVIOUS
  <1>1. /\ now' = now /\ file' = file /\ edits' = edits /\ disk' = disk /\ pc' = pc /\ run' = run
        /\ fresh' = fresh /\ result' = result /\ entries' = entries /\ stamps' = stamps
        /\ used' = used /\ dirty' = dirty /\ formatted' = formatted
    BY DEF vars, world, tables
  <1>2. TypeOK'
    BY <1>1 DEF IInv, TypeOK
  <1>3. AllEntries' = AllEntries /\ AllStamps' = AllStamps
    BY <1>1 DEF AllEntries, AllStamps
  <1>4. StoreCoherent'
    <2>1. ASSUME NEW e \in AllEntries
          PROVE  EntryOK(e)'
      BY <1>1, <2>1, EntryStaysOK DEF IInv, StoreCoherent, EntryOK
    <2> QED BY <1>3, <2>1 DEF StoreCoherent, EntryOK
  <1>5. StampsSound' /\ StampsSettled' /\ NoDanglingStamp'
    BY <1>1, <1>3 DEF IInv, StampsSound, StampsSettled, NoDanglingStamp, Backed, Stamp
  <1>6. ASSUME NEW q \in Procs
        PROVE  ProcOK(q)'
    <2>1. ProcOK(q)
      BY ProcsOK DEF IInv
    <2> QED BY <1>1, <2>1 DEF ProcOK, Promised, Left, transform, Stamp
  <1>7. (\A p \in Procs : ProcOK(p))' => (LookupsSound /\ HitIsCurrent /\ HitNeedsNoWrite)'
    BY DEF LookupsSound, HitIsCurrent, HitNeedsNoWrite, ProcOK
  <1> QED BY <1>2, <1>4, <1>5, <1>6, <1>7 DEF IInv

\* The inductive invariant of the outcome cache.
THEOREM CacheInvariant == Spec => []IInv
  <1>1. Init => IInv
    BY InitInvariant
  <1>2. IInv /\ [Next]_vars => IInv'
    <2>1. ASSUME IInv, Next
          PROVE  IInv'
      <3>1. TypeOK'
        BY <2>1, StepTypes DEF IInv
      <3> QED BY <2>1, <3>1, StoresStep, BackedStep, LookupsStep DEF IInv
    <2> QED BY <2>1, StutterStep
  <1> QED BY <1>1, <1>2, PTL DEF Spec

\* The variables of the outcome cache keep their types.
THEOREM CacheTypes == Spec => []TypeOK
  <1>1. IInv => TypeOK
    BY DEF IInv
  <1> QED BY <1>1, CacheInvariant, PTL

\* A hit reports on the bytes the file has, with any number of processes sharing
\* the store and anything writing the file meanwhile.
THEOREM HitsAreCurrent == Spec => []HitIsCurrent
  <1>1. IInv => HitIsCurrent
    BY DEF IInv
  <1> QED BY <1>1, CacheInvariant, PTL

\* script_lane::process_inner: a format run that trusts the cache skips a write only
\* over bytes that a format run under its configuration has written.
THEOREM HitsSkipNoWrite == Spec => []HitNeedsNoWrite
  <1>1. IInv => HitNeedsNoWrite
    BY DEF IInv
  <1> QED BY <1>1, CacheInvariant, PTL

\* Every store, in memory and on disk, holds what processing its key's content
\* reports or, of a text a format run wrote, that there is nothing to write; its
\* stamps lead to the file's own content, and none leads nowhere.
THEOREM StoresAreCoherent == Spec => [](StoreCoherent /\ StampsSound /\ NoDanglingStamp)
  <1>1. IInv => StoreCoherent /\ StampsSound /\ NoDanglingStamp
    BY DEF IInv
  <1> QED BY <1>1, CacheInvariant, PTL

\* A table that changes is marked, unless the change was just written.
LEMMA SavedStep == TypeOK /\ [Next]_vars => [\A p \in Procs : StaysSaved(p)]_vars
  <1> SUFFICES ASSUME TypeOK, [Next]_vars, NEW q \in Procs PROVE StaysSaved(q) \/ UNCHANGED vars
    OBVIOUS
  <1>t. dirty \in [Procs -> BOOLEAN] /\ entries = [x \in Procs |-> entries[x]]
        /\ stamps = [x \in Procs |-> stamps[x]] /\ pc = [x \in Procs |-> pc[x]]
    BY DEF TypeOK
  <1>0. ASSUME entries'[q] = entries[q], stamps'[q] = stamps[q], dirty'[q] = dirty[q]
        PROVE  StaysSaved(q)
    BY <1>0 DEF StaysSaved
  <1>1. CASE Tick \/ StoreLost \/ \E c \in Contents : Edit(c)
    BY <1>0, <1>1 DEF Tick, StoreLost, Edit, tables
  <1>2. ASSUME NEW p \in Procs, MarkDirty(p), p # q => entries'[q] = entries[q] /\ stamps'[q] = stamps[q]
        PROVE  StaysSaved(q)
    BY <1>t, <1>0, <1>2 DEF MarkDirty, StaysSaved
  <1>3. ASSUME NEW p \in Procs, Process(p) PROVE StaysSaved(q)
    <2>1. p # q => entries'[q] = entries[q] /\ stamps'[q] = stamps[q]
      BY <1>3, OthersUnchanged
    <2>2. CASE Stat(p)
      BY <1>0, <2>2 DEF Stat
    <2>3. CASE Read(p)
      BY <1>0, <1>2, <2>1, <2>3 DEF Read, tables
    <2>4. CASE Work(p)
      BY <1>0, <1>2, <2>1, <2>4 DEF Work, tables
    <2>5. CASE Write(p)
      BY <1>2, <2>1, <2>5 DEF Write
    <2>6. CASE WriteFails(p)
      BY <1>0, <2>6 DEF WriteFails, tables
    <2>7. CASE Flush(p)
      <3>1. CASE ~dirty[p]
        BY <1>0, <2>7, <3>1 DEF Flush, tables
      <3>2. CASE dirty[p] /\ p # q
        BY <1>t, <1>0, <2>1, <2>7, <3>2 DEF Flush
      <3>3. CASE dirty[p] /\ p = q
        <4>1. entries'[q] = Kept(q) /\ stamps'[q] = KeptStamps(q)
          BY <1>t, <2>7, <3>3 DEF Flush
        <4>2. disk' = [entries |-> Kept(q), stamps |-> KeptStamps(q)] \/ dirty' = dirty
          BY <2>7, <3>3 DEF Flush
        <4> QED BY <3>3, <4>1, <4>2 DEF StaysSaved
      <3> QED BY <3>1, <3>2, <3>3
    <2>8. CASE Close(p)
      BY <1>t, <1>0, <2>1, <2>8 DEF Close, StaysSaved
    <2>9. ASSUME NEW cf \in Configs, Open(p, cf) PROVE StaysSaved(q)
      BY <1>t, <1>0, <2>1, <2>9 DEF Open, StaysSaved
    <2>10. ASSUME NEW m \in Modes, Begin(p, m) PROVE StaysSaved(q)
      BY <1>0, <2>10 DEF Begin, tables
    <2> QED BY <1>3, <2>2, <2>3, <2>4, <2>5, <2>6, <2>7, <2>8, <2>9, <2>10 DEF Process
  <1> QED BY <1>1, <1>3 DEF Next

\* Cache::flush, Tables::insert: a process that is not dirty has, at every step,
\* exactly the tables it read from the store or last wrote to it, so that the
\* flush that skips the write loses nothing.
THEOREM CleanTablesAreSaved == Spec => CleanMeansSaved
  <1>1. IInv /\ [Next]_vars => [\A p \in Procs : StaysSaved(p)]_vars
    BY SavedStep DEF IInv
  <1> QED BY <1>1, CacheInvariant, PTL DEF Spec, CleanMeansSaved
=============================================================================
