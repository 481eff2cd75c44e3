----------------------------- MODULE VetProofs ------------------------------
(***************************************************************************)
(* A verdict of go vet, remembered or not, is true of the files it is      *)
(* given for, when the file system is orderly.                             *)
(*                                                                         *)
(* A remembered key names, for every file, a stamp no later change can     *)
(* produce again (Past).  So whatever happens to the module, a file whose  *)
(* stamp is the key's holds what go vet read of it (Agrees): what was read *)
(* is the witness, and it passed.  While a run is under way the same is    *)
(* true of what go vet has read so far.                                    *)
(***************************************************************************)
EXTENDS Vet, TLAPS

USE DEF Stamps

\* A stamp that no change after time t produces.
Past(s, t) == s # Absent => s.ctime <= t /\ (FINE \/ s.mtime + SETTLE < t)

\* The module is as g wherever its stamps are those of key.
Agrees(key, g) ==
    \A f \in Files :
        /\ key[f] = Absent => g[f] = Absent
        /\ Stamp(f) = key[f] => Content(f) = g[f]

KeyComplete == (pc = "vet" /\ settled) => Complete(seen)

ClockOk == \A f \in Files : files[f] # Absent => files[f].stamp.ctime <= now

MarksOk ==
    \A i \in DOMAIN marks :
        /\ \A f \in Files : Past(marks[i][f], now)
        /\ \E g \in Passing : Agrees(marks[i], g)

SeenOk ==
    /\ pc # "idle" => \A f \in Files : seen[f] = Absent => files[f] = Absent
    /\ \A f \in Files : seen[f] \in Stamps => seen[f].ctime <= now
    /\ (pc = "vet" /\ settled) => \A f \in Files : Past(seen[f], now)
    /\ (pc = "stat" /\ ~touched) => \A f \in Files : seen[f] # Unseen => seen[f] = Stamp(f)

ReadOk ==
    /\ pc = "stat" => read = Nothing
    /\ (pc = "vet" /\ settled) =>
          \A f \in Files : read[f] # Unseen =>
              /\ seen[f] = Absent => read[f] = Absent
              /\ Stamp(f) = seen[f] => read[f] = Content(f)
    /\ (pc = "vet" /\ ~touched) => \A f \in Files : read[f] # Unseen => read[f] = Content(f)

IInv == TypeOK /\ KeyComplete /\ ClockOk /\ MarksOk /\ SeenOk /\ ReadOk /\ VerdictSound

-----------------------------------------------------------------------------
(***************************************************************************)
(* Types.                                                                  *)
(***************************************************************************)

\* Using a mark keeps the marks, in another order.
LEMMA UsedPermutes ==
    ASSUME TypeOK, NEW i \in DOMAIN marks
    PROVE  /\ Used(i) \in Seq(Key)
           /\ DOMAIN Used(i) = DOMAIN marks
           /\ Len(Used(i)) = Len(marks)
           /\ \A j, k \in DOMAIN Used(i) : Used(i)[j] = Used(i)[k] => j = k
           /\ \A k \in DOMAIN Used(i) : \E j \in DOMAIN marks : Used(i)[k] = marks[j]
<1>1. marks \in Seq(Key) /\ DOMAIN marks = 1 .. Len(marks) /\ Len(marks) \in Nat
  BY DEF TypeOK
<1>2. \A k \in DOMAIN marks : Used(i)[k] \in Key
  BY <1>1 DEF Used
<1>3. Used(i) \in Seq(Key) /\ DOMAIN Used(i) = DOMAIN marks /\ Len(Used(i)) = Len(marks)
  <2>1. Used(i) = [k \in 1 .. Len(marks) |-> Used(i)[k]]
    BY <1>1 DEF Used
  <2> QED BY <1>1, <1>2, <2>1
<1>4. \A j, k \in DOMAIN marks : marks[j] = marks[k] => j = k
  BY DEF TypeOK
<1>5. \A k \in DOMAIN marks : Used(i)[k] = marks[IF k < i THEN k ELSE IF k < Len(marks) THEN k + 1 ELSE i]
  BY DEF Used
<1>6. \A k \in DOMAIN marks : (IF k < i THEN k ELSE IF k < Len(marks) THEN k + 1 ELSE i) \in DOMAIN marks
  BY <1>1
<1>7. \A k \in DOMAIN marks : \E j \in DOMAIN marks : Used(i)[k] = marks[j]
  BY <1>5, <1>6
<1>8. \A j, k \in DOMAIN marks : Used(i)[j] = Used(i)[k] => j = k
  <2> SUFFICES ASSUME NEW j \in DOMAIN marks, NEW k \in DOMAIN marks, Used(i)[j] = Used(i)[k]
               PROVE  j = k
    OBVIOUS
  <2> DEFINE From(n) == IF n < i THEN n ELSE IF n < Len(marks) THEN n + 1 ELSE i
  <2>1. From(j) \in DOMAIN marks /\ From(k) \in DOMAIN marks
    BY <1>6
  <2>2. marks[From(j)] = marks[From(k)]
    BY <1>5
  <2>3. From(j) = From(k)
    <3> HIDE DEF From
    <3> QED BY <1>4, <2>1, <2>2
  <2> QED BY <1>1, <2>3
<1> QED BY <1>3, <1>7, <1>8

\* A new mark comes last; nothing else is added, and the store stays bounded.
LEMMA MarkAdds ==
    ASSUME TypeOK, NEW key \in Key
    PROVE  /\ Mark(key) \in Seq(Key)
           /\ Len(Mark(key)) <= MARKS
           /\ \A j, k \in DOMAIN Mark(key) : Mark(key)[j] = Mark(key)[k] => j = k
           /\ \A k \in DOMAIN Mark(key) : Mark(key)[k] = key \/ \E j \in DOMAIN marks : Mark(key)[k] = marks[j]
<1>1. CASE Marked(key)
  <2>1. PICK at \in DOMAIN marks : Mark(key) = Used(at)
    BY <1>1 DEF Mark, Marked
  <2>2. /\ Used(at) \in Seq(Key) /\ Len(Used(at)) = Len(marks)
        /\ \A j, k \in DOMAIN Used(at) : Used(at)[j] = Used(at)[k] => j = k
        /\ \A k \in DOMAIN Used(at) : \E j \in DOMAIN marks : Used(at)[k] = marks[j]
    BY UsedPermutes
  <2>3. Len(marks) <= MARKS
    BY DEF TypeOK
  <2> QED BY <2>1, <2>2, <2>3
<1>2. CASE ~Marked(key)
  <2> DEFINE kept == IF Len(marks) < MARKS THEN marks ELSE Tail(marks)
  <2>1. marks \in Seq(Key) /\ Len(marks) \in Nat /\ Len(marks) <= MARKS /\ MARKS \in Nat \ {0}
    BY VetAssumption DEF TypeOK
  <2>2. \A j, k \in DOMAIN marks : marks[j] = marks[k] => j = k
    BY DEF TypeOK
  <2>3. /\ kept \in Seq(Key) /\ Len(kept) < MARKS /\ Len(kept) \in Nat
        /\ \A k \in 1 .. Len(kept) : \E j \in DOMAIN marks : kept[k] = marks[j]
        /\ \A j, k \in 1 .. Len(kept) : kept[j] = kept[k] => j = k
    <3>1. CASE Len(marks) < MARKS
      BY <2>1, <2>2, <3>1
    <3>2. CASE ~(Len(marks) < MARKS)
      <4>1. kept = Tail(marks) /\ marks # <<>>
        BY <2>1, <3>2
      <4>2. kept \in Seq(Key) /\ Len(kept) = Len(marks) - 1 /\ \A k \in 1 .. Len(kept) : kept[k] = marks[k + 1]
        BY <2>1, <4>1
      <4> QED BY <2>1, <2>2, <3>2, <4>2
    <3> QED BY <3>1, <3>2
  <2>4. Mark(key) = Append(kept, key)
    BY <1>2 DEF Mark
  <2> HIDE DEF kept
  <2>5. /\ Mark(key) \in Seq(Key) /\ Len(Mark(key)) = Len(kept) + 1
        /\ DOMAIN Mark(key) = 1 .. Len(kept) + 1
        /\ \A k \in 1 .. Len(kept) : Mark(key)[k] = kept[k]
        /\ Mark(key)[Len(kept) + 1] = key
    BY <2>3, <2>4
  <2>6. \A k \in 1 .. Len(kept) : kept[k] # key
    BY <1>2, <2>3 DEF Marked
  <2>7. Len(Mark(key)) <= MARKS
    BY <2>1, <2>3, <2>5
  <2>8. \A k \in DOMAIN Mark(key) : k \in 1 .. Len(kept) \/ k = Len(kept) + 1
    BY <2>3, <2>5
  <2>9. \A k \in DOMAIN Mark(key) : Mark(key)[k] = key \/ \E j \in DOMAIN marks : Mark(key)[k] = marks[j]
    <3> TAKE k \in DOMAIN Mark(key)
    <3>1. CASE k \in 1 .. Len(kept)
      BY <2>3, <2>5, <3>1
    <3>2. CASE k = Len(kept) + 1
      BY <2>5, <3>2
    <3> QED BY <2>8, <3>1, <3>2
  <2>10. \A j, k \in DOMAIN Mark(key) : Mark(key)[j] = Mark(key)[k] => j = k
    BY <2>3, <2>5, <2>6, <2>8
  <2> QED BY <2>5, <2>7, <2>9, <2>10
<1> QED BY <1>1, <1>2

\* The file system's clock lags by less than SETTLE.
LEMMA TimesAreClose ==
    ASSUME NEW t \in 0 .. MaxNow
    PROVE  /\ t \in Nat /\ At(t) \in Nat /\ At(t) <= t
           /\ (FINE => At(t) = t) /\ (~FINE => t < At(t) + SETTLE)
<1>1. Coarse(t) \in Nat /\ Coarse(t) <= t /\ t < Coarse(t) + SETTLE
  BY VetAssumption
<1> QED BY <1>1, VetAssumption DEF At

\* Types are kept by every step, whatever the file system does.
LEMMA TypeStep ==
    ASSUME TypeOK, KeyComplete, [Next]_vars
    PROVE  TypeOK' /\ KeyComplete'
<1> USE VetAssumption
<1>s. \A f \in Files : Stamp(f) \in Stamps \cup {Absent} /\ Content(f) \in Contents \cup {Absent}
  BY DEF TypeOK, KeyComplete, Stamp, Content
<1>n. Nothing \in [Files -> Stamps \cup {Absent, Unseen}] /\ Nothing \in [Files -> Contents \cup {Absent, Unseen}]
  BY DEF Nothing
<1>1. CASE Fingerprint
  BY <1>1, <1>n DEF TypeOK, KeyComplete, Fingerprint, Begin
<1>2. CASE NoFingerprint
  BY <1>2, <1>n DEF TypeOK, KeyComplete, NoFingerprint, Begin
<1>3. CASE Skip
  <2>1. PICK i \in DOMAIN marks : marks' = Used(i)
    BY <1>3 DEF Skip
  <2>2. /\ marks' \in Seq(Key) /\ Len(marks') <= MARKS
        /\ \A j, k \in DOMAIN marks' : marks'[j] = marks'[k] => j = k
    <3>1. Len(marks) <= MARKS
      BY DEF TypeOK
    <3> QED BY UsedPermutes, <2>1, <3>1
  <2> QED BY <1>3, <2>2 DEF TypeOK, KeyComplete, Skip, disk
<1>4. CASE Miss
  <2>1. Settled \in BOOLEAN
    BY DEF Settled
  <2> QED BY <1>4, <2>1 DEF TypeOK, KeyComplete, Miss, disk
<1>5. CASE Clean
  <2>1. CASE ~settled
    BY <1>5, <2>1 DEF TypeOK, KeyComplete, Clean, disk
  <2>2. CASE settled
    <3>1. seen \in Key
      BY <1>5, <2>2 DEF TypeOK, KeyComplete, Clean, Complete, Key
    <3>2. marks' = Mark(seen)
      BY <1>5, <2>2 DEF Clean
    <3>3. /\ marks' \in Seq(Key) /\ Len(marks') <= MARKS
          /\ \A j, k \in DOMAIN marks' : marks'[j] = marks'[k] => j = k
      BY MarkAdds, <3>1, <3>2
    <3> QED BY <1>5, <3>3 DEF TypeOK, KeyComplete, Clean, disk
  <2> QED BY <2>1, <2>2
<1>6. CASE Errors
  BY <1>6 DEF TypeOK, KeyComplete, Errors, disk
<1>7. CASE Fails
  BY <1>7 DEF TypeOK, KeyComplete, Fails, disk
<1>8. CASE Tick
  BY <1>8 DEF TypeOK, KeyComplete, Tick, run
<1>9. ASSUME NEW f \in Files, Stat(f) PROVE TypeOK' /\ KeyComplete'
  BY <1>9, <1>s DEF TypeOK, KeyComplete, Stat, disk
<1>10. ASSUME NEW f \in Files, Read(f) PROVE TypeOK' /\ KeyComplete'
  BY <1>10, <1>s DEF TypeOK, KeyComplete, Read, disk
<1>11. ASSUME NEW f \in Files, Put(f) PROVE TypeOK' /\ KeyComplete'
  <2>1. now' \in 0 .. MaxNow
    BY <1>11 DEF TypeOK, Put
  <2>2. At(now') \in Nat
    BY <2>1, TimesAreClose
  <2>3. PICK c \in Contents, m \in IF KEEPS THEN 0 .. At(now') ELSE {At(now')} :
          files' = [files EXCEPT ![f] = [content |-> c, stamp |-> [mtime |-> m, ctime |-> At(now')]]]
    BY <1>11 DEF Put
  <2>4. m \in Nat
    BY <2>2, <2>3
  <2>5. files' \in [Files -> [content : Contents, stamp : Stamps] \cup {Absent}]
    BY <2>2, <2>3, <2>4 DEF TypeOK
  <2> QED BY <1>11, <2>1, <2>5 DEF TypeOK, KeyComplete, Put, run
<1>12. ASSUME NEW f \in Files, Remove(f) PROVE TypeOK' /\ KeyComplete'
  BY <1>12 DEF TypeOK, KeyComplete, Remove, run
<1>13. CASE UNCHANGED vars
  BY <1>13 DEF TypeOK, KeyComplete, vars, disk, run
<1> QED
  BY <1>1, <1>2, <1>3, <1>4, <1>5, <1>6, <1>7, <1>8, <1>9, <1>10, <1>11, <1>12, <1>13
  DEF Next, Write, Create

-----------------------------------------------------------------------------
(***************************************************************************)
(* What a change of the module on disk does.                               *)
(***************************************************************************)

\* The past stays the past.
LEMMA PastStays ==
    ASSUME NEW s \in Stamps \cup {Absent}, NEW t \in Nat, NEW u \in Nat, t <= u, Past(s, t)
    PROVE  Past(s, u)
BY VetAssumption DEF Past

\* A change gives a file a stamp that it never had.
LEMMA PutIsNew ==
    ASSUME TypeOK, Orderly, NEW f \in Files, Put(f)
    PROVE  /\ now' \in Nat /\ now <= now'
           /\ files'[f] # Absent /\ files'[f].stamp \in Stamps /\ files'[f].stamp.ctime <= now'
           /\ \A s \in Stamps : Past(s, now) => files'[f].stamp # s
           /\ \A e \in Files : e # f => files'[e] = files[e]
<1>1. PICK c \in Contents, m \in IF KEEPS THEN 0 .. At(now') ELSE {At(now')} :
        files' = [files EXCEPT ![f] = [content |-> c, stamp |-> [mtime |-> m, ctime |-> At(now')]]]
  BY DEF Put
<1>2. now \in Nat /\ now' \in Nat /\ now' \in 0 .. MaxNow /\ now <= now' /\ (FINE => now' = now + 1) /\ (~FINE => now' = now)
  BY VetAssumption DEF Put, TypeOK
<1>3. /\ At(now') \in Nat /\ At(now') <= now'
      /\ (FINE => At(now') = now') /\ (~FINE => now' < At(now') + SETTLE)
  BY <1>2, TimesAreClose DEF At
<1>4. m \in Nat /\ (~KEEPS => m = At(now'))
  BY <1>3
<1>5. /\ files'[f] = [content |-> c, stamp |-> [mtime |-> m, ctime |-> At(now')]]
      /\ \A e \in Files : e # f => files'[e] = files[e]
  BY <1>1 DEF TypeOK
<1>6. files'[f] # Absent
  BY <1>3, <1>4, <1>5, AbsentAssumption
<1>7. \A s \in Stamps : Past(s, now) => files'[f].stamp # s
  <2> SUFFICES ASSUME NEW s \in Stamps, Past(s, now) PROVE files'[f].stamp # s
    OBVIOUS
  <2>1. s # Absent
    BY AbsentAssumption
  <2>2. s.ctime <= now /\ (FINE \/ s.mtime + SETTLE < now) /\ s.ctime \in Nat /\ s.mtime \in Nat
    BY <2>1 DEF Past
  <2>3. files'[f].stamp.ctime = At(now') /\ files'[f].stamp.mtime = m
    BY <1>5
  <2>4. CASE FINE
    BY <1>2, <1>3, <2>2, <2>3, <2>4
  <2>5. CASE ~FINE
    BY <1>2, <1>3, <1>4, <2>2, <2>3, <2>5, VetAssumption DEF Orderly
  <2> QED BY <2>4, <2>5
<1> QED BY <1>2, <1>3, <1>4, <1>5, <1>6, <1>7

\* What a settled key agrees with it goes on agreeing with.
LEMMA ChangeKeepsAgreement ==
    ASSUME TypeOK, Orderly, NEW f \in Files, Put(f) \/ Remove(f),
           NEW e \in Files, NEW s \in Stamps \cup {Absent}, Past(s, now),
           NEW v, s = Absent => v = Absent, Stamp(e) = s => Content(e) = v
    PROVE  Stamp(e)' = s => Content(e)' = v
<1>1. CASE Put(f)
  <2>1. CASE e = f
    <3>1. files'[f] # Absent /\ files'[f].stamp # s
      BY <1>1, PutIsNew, AbsentAssumption
    <3> QED BY <2>1, <3>1 DEF Stamp
  <2>2. CASE e # f
    <3>1. files'[e] = files[e]
      BY <1>1, <2>2, PutIsNew
    <3> QED BY <3>1 DEF Stamp, Content
  <2> QED BY <2>1, <2>2
<1>2. CASE Remove(f)
  <2>1. CASE e = f
    <3>1. files'[e] = Absent
      BY <1>2, <2>1 DEF Remove, TypeOK
    <3>2. Stamp(e)' = Absent /\ Content(e)' = Absent
      BY <3>1 DEF Stamp, Content
    <3> QED BY <3>2
  <2>2. CASE e # f
    <3>1. files'[e] = files[e]
      BY <1>2, <2>2 DEF Remove, TypeOK
    <3> QED BY <3>1 DEF Stamp, Content
  <2> QED BY <2>1, <2>2
<1> QED BY <1>1, <1>2

\* A change of the module keeps the invariant.
LEMMA ChangeStep ==
    ASSUME IInv, Orderly, NEW f \in Files, Put(f) \/ Remove(f), TypeOK', KeyComplete',
           (files[f] = Absent /\ Put(f)) => pc = "idle"
    PROVE  IInv'
<1>t. /\ TypeOK /\ KeyComplete /\ now \in Nat /\ now' \in Nat /\ now <= now'
      /\ \A e \in Files : e # f => files'[e] = files[e]
  BY PutIsNew DEF IInv, TypeOK, Remove
<1>u. /\ UNCHANGED <<marks, pc, seen, settled, read, outcome>> /\ touched'
  BY DEF Put, Remove, run
<1>1. ClockOk'
  <2> SUFFICES ASSUME NEW e \in Files, files'[e] # Absent PROVE files'[e].stamp.ctime <= now'
    BY DEF ClockOk
  <2>1. CASE e = f
    <3>1. Put(f)
      BY <2>1, <1>t DEF Remove, TypeOK
    <3> QED BY <1>t, <2>1, <3>1, PutIsNew
  <2>2. CASE e # f
    <3>1. files[e] # Absent /\ files'[e] = files[e]
      BY <1>t, <2>2
    <3>2. files[e].stamp.ctime <= now /\ files[e].stamp.ctime \in Nat
      BY <1>t, <3>1 DEF IInv, ClockOk, TypeOK
    <3> QED BY <1>t, <3>1, <3>2
  <2> QED BY <2>1, <2>2
<1>2. MarksOk'
  <2> SUFFICES ASSUME NEW i \in DOMAIN marks
               PROVE  /\ \A e \in Files : Past(marks[i][e], now')
                      /\ \E g \in Passing : Agrees(marks[i], g)'
    BY <1>u DEF MarksOk, Agrees
  <2>1. marks[i] \in Key
    BY <1>t DEF TypeOK
  <2>2. \A e \in Files : Past(marks[i][e], now) /\ marks[i][e] \in Stamps \cup {Absent}
    BY <2>1 DEF IInv, MarksOk, Key
  <2>3. \A e \in Files : Past(marks[i][e], now')
    BY <1>t, <2>2, PastStays
  <2>4. PICK g \in Passing : Agrees(marks[i], g)
    BY DEF IInv, MarksOk
  <2>5. ASSUME NEW e \in Files
        PROVE  /\ marks[i][e] = Absent => g[e] = Absent
               /\ Stamp(e)' = marks[i][e] => Content(e)' = g[e]
    <3>1. (marks[i][e] = Absent => g[e] = Absent) /\ (Stamp(e) = marks[i][e] => Content(e) = g[e])
      BY <2>4 DEF Agrees
    <3> QED BY <1>t, <2>2, <3>1, ChangeKeepsAgreement
  <2>6. Agrees(marks[i], g)'
    BY <1>u, <2>5 DEF Agrees
  <2> QED BY <2>3, <2>6
<1>3. SeenOk'
  <2>1. pc # "idle" => \A e \in Files : seen[e] = Absent => files'[e] = Absent
    <3> SUFFICES ASSUME pc # "idle", NEW e \in Files, seen[e] = Absent PROVE files'[e] = Absent
      OBVIOUS
    <3>1. files[e] = Absent
      BY DEF IInv, SeenOk
    <3>2. e # f
      BY <3>1 DEF Remove
    <3> QED BY <1>t, <3>1, <3>2
  <2>2. \A e \in Files : seen[e] \in Stamps => seen[e].ctime <= now'
    <3> SUFFICES ASSUME NEW e \in Files, seen[e] \in Stamps PROVE seen[e].ctime <= now'
      OBVIOUS
    <3>1. seen[e].ctime <= now /\ seen[e].ctime \in Nat
      BY DEF IInv, SeenOk
    <3> QED BY <1>t, <3>1
  <2>3. (pc = "vet" /\ settled) => \A e \in Files : Past(seen[e], now')
    <3> SUFFICES ASSUME pc = "vet", settled, NEW e \in Files PROVE Past(seen[e], now')
      OBVIOUS
    <3>1. Past(seen[e], now) /\ seen[e] \in Stamps \cup {Absent}
      BY <1>t DEF IInv, SeenOk, KeyComplete, Complete, TypeOK
    <3> QED BY <1>t, <3>1, PastStays
  <2> QED BY <1>u, <2>1, <2>2, <2>3 DEF SeenOk
<1>4. ReadOk'
  <2>1. (pc = "vet" /\ settled) =>
          \A e \in Files : read[e] # Unseen =>
              /\ seen[e] = Absent => read[e] = Absent
              /\ Stamp(e)' = seen[e] => read[e] = Content(e)'
    <3> SUFFICES ASSUME pc = "vet", settled, NEW e \in Files, read[e] # Unseen
                 PROVE  /\ seen[e] = Absent => read[e] = Absent
                        /\ Stamp(e)' = seen[e] => read[e] = Content(e)'
      OBVIOUS
    <3>1. (seen[e] = Absent => read[e] = Absent) /\ (Stamp(e) = seen[e] => read[e] = Content(e))
      BY DEF IInv, ReadOk
    <3>2. Past(seen[e], now) /\ seen[e] \in Stamps \cup {Absent}
      BY <1>t DEF IInv, SeenOk, KeyComplete, Complete, TypeOK
    <3> QED BY <1>t, <3>1, <3>2, ChangeKeepsAgreement
  <2>2. pc = "stat" => read = Nothing
    BY DEF IInv, ReadOk
  <2> QED BY <1>u, <2>1, <2>2 DEF ReadOk, Nothing
<1>5. VerdictSound'
  BY <1>u DEF VerdictSound
<1> QED BY <1>1, <1>2, <1>3, <1>4, <1>5 DEF IInv

-----------------------------------------------------------------------------
(***************************************************************************)
(* The steps of vet_module.                                                *)
(***************************************************************************)

\* Marks are sound as long as each of them is an old one or agrees with a
\* module that passes.
LEMMA MarksStep ==
    ASSUME IInv, UNCHANGED <<now, files>>,
           \A k \in DOMAIN marks' :
               \/ \E j \in DOMAIN marks : marks'[k] = marks[j]
               \/ /\ \A f \in Files : Past(marks'[k][f], now)
                  /\ \E g \in Passing : Agrees(marks'[k], g)
    PROVE  MarksOk'
<1> SUFFICES ASSUME NEW k \in DOMAIN marks'
             PROVE  /\ \A f \in Files : Past(marks'[k][f], now)
                    /\ \E g \in Passing : Agrees(marks'[k], g)
  BY DEF MarksOk, Agrees, Stamp, Content
<1>1. CASE \E j \in DOMAIN marks : marks'[k] = marks[j]
  BY <1>1 DEF IInv, MarksOk
<1>2. CASE ~\E j \in DOMAIN marks : marks'[k] = marks[j]
  BY <1>2
<1> QED BY <1>1, <1>2

\* A module that agrees with a passing one on every stamp passes.
LEMMA AgreementPasses ==
    ASSUME NEW key, NEW g \in Passing, Agrees(key, g), \A f \in Files : key[f] = Stamp(f)
    PROVE  Module \in Passing
<1>1. \A f \in Files : Content(f) = g[f]
  BY DEF Agrees
<1>2. g = [f \in Files |-> g[f]]
  BY VetAssumption
<1>3. Module = g
  BY <1>1, <1>2 DEF Module
<1> QED BY <1>3

LEMMA BeginStep ==
    ASSUME IInv, Begin, pc' \in {"stat", "vet"}, TypeOK', KeyComplete'
    PROVE  IInv'
<1>1. ClockOk'
  BY DEF IInv, ClockOk, Begin
<1>2. MarksOk'
  BY MarksStep DEF Begin
<1>3. \A f \in Files : Nothing[f] = Unseen
  BY DEF Nothing
<1>4. SeenOk'
  BY <1>3, VetAssumption, AbsentAssumption DEF SeenOk, Begin
<1>5. ReadOk'
  BY <1>3 DEF ReadOk, Begin, Nothing
<1>6. VerdictSound'
  BY DEF VerdictSound
<1> QED BY <1>1, <1>2, <1>4, <1>5, <1>6 DEF IInv

LEMMA StatStep ==
    ASSUME IInv, NEW f \in Files, Stat(f), TypeOK', KeyComplete'
    PROVE  IInv'
<1>t. TypeOK /\ UNCHANGED <<now, files, touched, marks, pc, settled, read, outcome>> /\ pc = "stat"
  BY DEF IInv, Stat, disk
<1>s. seen'[f] = Stamp(f) /\ \A e \in Files : e # f => seen'[e] = seen[e]
  BY <1>t DEF Stat, TypeOK
<1>1. ClockOk'
  BY <1>t DEF IInv, ClockOk
<1>2. MarksOk'
  BY <1>t, MarksStep
<1>3. SeenOk'
  <2>1. \A e \in Files : seen'[e] = Absent => files[e] = Absent
    <3>1. Stamp(f) = Absent => files[f] = Absent
      BY <1>t, AbsentAssumption DEF Stamp, TypeOK
    <3> QED BY <1>t, <1>s, <3>1 DEF IInv, SeenOk
  <2>2. \A e \in Files : seen'[e] \in Stamps => seen'[e].ctime <= now
    <3>1. Stamp(f) \in Stamps => Stamp(f).ctime <= now
      BY AbsentAssumption DEF Stamp, IInv, ClockOk
    <3> QED BY <1>s, <3>1 DEF IInv, SeenOk
  <2>3. ~touched => \A e \in Files : seen'[e] # Unseen => seen'[e] = Stamp(e)
    BY <1>t, <1>s DEF IInv, SeenOk
  <2> QED BY <1>t, <2>1, <2>2, <2>3 DEF SeenOk, Stamp
<1>4. ReadOk'
  BY <1>t DEF IInv, ReadOk, Nothing
<1>5. VerdictSound'
  BY <1>t DEF VerdictSound
<1> QED BY <1>1, <1>2, <1>3, <1>4, <1>5 DEF IInv

LEMMA SkipStep ==
    ASSUME IInv, Skip, TypeOK', KeyComplete'
    PROVE  IInv'
<1>t. TypeOK /\ UNCHANGED <<now, files, touched, seen, settled, read>> /\ pc = "stat" /\ pc' = "idle"
  BY DEF IInv, Skip, disk
<1>m. PICK i \in DOMAIN marks : marks[i] = seen /\ marks' = Used(i)
  BY DEF Skip
<1>1. ClockOk'
  BY <1>t DEF IInv, ClockOk
<1>2. MarksOk'
  <2>1. \A k \in DOMAIN marks' : \E j \in DOMAIN marks : marks'[k] = marks[j]
    BY <1>t, <1>m, UsedPermutes
  <2> QED BY <1>t, <2>1, MarksStep
<1>3. SeenOk'
  BY <1>t DEF IInv, SeenOk
<1>4. ReadOk'
  BY <1>t DEF ReadOk
<1>5. VerdictSound'
  <2> SUFFICES ASSUME ~touched PROVE Module \in Passing
    BY <1>t DEF VerdictSound, Module, Content
  <2>1. PICK g \in Passing : Agrees(seen, g)
    BY <1>m DEF IInv, MarksOk
  <2>2. \A f \in Files : seen[f] = Stamp(f)
    BY <1>t DEF IInv, SeenOk, Skip, Complete
  <2> QED BY <2>1, <2>2, AgreementPasses
<1> QED BY <1>1, <1>2, <1>3, <1>4, <1>5 DEF IInv

LEMMA MissStep ==
    ASSUME IInv, Miss, TypeOK', KeyComplete'
    PROVE  IInv'
<1>t. /\ TypeOK /\ UNCHANGED <<now, files, touched, marks, seen, read, outcome>>
      /\ pc = "stat" /\ pc' = "vet" /\ settled' = Settled
  BY DEF IInv, Miss, disk
<1>1. ClockOk'
  BY <1>t DEF IInv, ClockOk
<1>2. MarksOk'
  BY <1>t, MarksStep
<1>3. SeenOk'
  <2>1. settled' => \A f \in Files : Past(seen[f], now)
    <3> SUFFICES ASSUME Settled, NEW f \in Files, seen[f] # Absent PROVE Past(seen[f], now)
      BY <1>t DEF Past
    <3>1. seen[f] \in Stamps
      BY <1>t DEF Miss, Complete, TypeOK
    <3>2. seen[f].mtime < (IF now >= SETTLE THEN now - SETTLE ELSE 0)
      BY DEF Settled
    <3>3. seen[f].mtime + SETTLE < now
      BY <1>t, <3>1, <3>2, VetAssumption DEF TypeOK
    <3>4. seen[f].ctime <= now
      BY <3>1 DEF IInv, SeenOk
    <3> QED BY <3>3, <3>4 DEF Past
  <2>2. \A f \in Files : seen[f] = Absent => files[f] = Absent
    BY <1>t DEF IInv, SeenOk
  <2>3. \A f \in Files : seen[f] \in Stamps => seen[f].ctime <= now
    BY DEF IInv, SeenOk
  <2> QED BY <1>t, <2>1, <2>2, <2>3 DEF SeenOk
<1>4. ReadOk'
  <2>1. \A f \in Files : read[f] = Unseen
    BY <1>t DEF IInv, ReadOk, Nothing
  <2> QED BY <1>t, <2>1 DEF ReadOk
<1>5. VerdictSound'
  BY <1>t DEF VerdictSound
<1> QED BY <1>1, <1>2, <1>3, <1>4, <1>5 DEF IInv

LEMMA ReadStep ==
    ASSUME IInv, NEW f \in Files, Read(f), TypeOK', KeyComplete'
    PROVE  IInv'
<1>t. TypeOK /\ UNCHANGED <<now, files, touched, marks, pc, seen, settled, outcome>> /\ pc = "vet"
  BY DEF IInv, Read, disk
<1>r. read'[f] = Content(f) /\ \A e \in Files : e # f => read'[e] = read[e]
  BY <1>t DEF Read, TypeOK
<1>1. ClockOk'
  BY <1>t DEF IInv, ClockOk
<1>2. MarksOk'
  BY <1>t, MarksStep
<1>3. SeenOk'
  BY <1>t DEF IInv, SeenOk, Stamp
<1>4. ReadOk'
  <2>1. seen[f] = Absent => Content(f) = Absent
    BY <1>t DEF IInv, SeenOk, Content
  <2>2. settled => \A e \in Files : read'[e] # Unseen =>
              /\ seen[e] = Absent => read'[e] = Absent
              /\ Stamp(e) = seen[e] => read'[e] = Content(e)
    BY <1>t, <1>r, <2>1 DEF IInv, ReadOk
  <2>3. ~touched => \A e \in Files : read'[e] # Unseen => read'[e] = Content(e)
    BY <1>t, <1>r DEF IInv, ReadOk
  <2> QED BY <1>t, <2>2, <2>3 DEF ReadOk, Stamp, Content
<1>5. VerdictSound'
  BY <1>t DEF VerdictSound
<1> QED BY <1>1, <1>2, <1>3, <1>4, <1>5 DEF IInv

LEMMA CleanStep ==
    ASSUME IInv, Clean, TypeOK', KeyComplete'
    PROVE  IInv'
<1>t. TypeOK /\ UNCHANGED <<now, files, touched, seen, settled, read>> /\ pc = "vet" /\ pc' = "idle"
  BY DEF IInv, Clean, disk
<1>r. read \in Passing /\ \A f \in Files : read[f] # Unseen
  BY DEF Clean, Complete
<1>1. ClockOk'
  BY <1>t DEF IInv, ClockOk
<1>2. MarksOk'
  <2>1. CASE ~settled
    <3>1. marks' = marks
      BY <2>1 DEF Clean
    <3> QED BY <1>t, <3>1, MarksStep
  <2>2. CASE settled
    <3>1. seen \in Key
      BY <1>t, <2>2 DEF IInv, TypeOK, KeyComplete, Complete, Key
    <3>2. marks' = Mark(seen)
      BY <2>2 DEF Clean
    <3>3. \A k \in DOMAIN marks' : marks'[k] = seen \/ \E j \in DOMAIN marks : marks'[k] = marks[j]
      BY <1>t, <3>1, <3>2, MarkAdds
    <3>4. \A f \in Files : Past(seen[f], now)
      BY <1>t, <2>2 DEF IInv, SeenOk
    <3>5. Agrees(seen, read)
      BY <1>t, <1>r, <2>2 DEF IInv, ReadOk, Agrees
    <3> QED BY <1>t, <1>r, <3>3, <3>4, <3>5, MarksStep
  <2> QED BY <2>1, <2>2
<1>3. SeenOk'
  BY <1>t DEF IInv, SeenOk
<1>4. ReadOk'
  BY <1>t DEF ReadOk
<1>5. VerdictSound'
  <2> SUFFICES ASSUME ~touched PROVE Module \in Passing
    BY <1>t DEF VerdictSound, Module, Content
  <2>1. \A f \in Files : read[f] = Content(f)
    BY <1>t, <1>r DEF IInv, ReadOk
  <2>2. read = [f \in Files |-> read[f]]
    BY <1>t DEF TypeOK
  <2>3. read = Module
    BY <2>1, <2>2 DEF Module
  <2> QED BY <1>r, <2>3
<1> QED BY <1>1, <1>2, <1>3, <1>4, <1>5 DEF IInv

LEMMA OtherStep ==
    ASSUME IInv, Errors \/ Fails \/ Tick \/ UNCHANGED vars, TypeOK', KeyComplete'
    PROVE  IInv'
<1>t. /\ TypeOK /\ now \in Nat /\ now' \in Nat /\ now <= now'
      /\ UNCHANGED <<files, touched, marks, seen, settled, read>>
      /\ (pc' = pc /\ outcome' = outcome) \/ (pc' = "idle" /\ outcome' = "errors")
  <2>1. TypeOK /\ now \in Nat
    BY DEF IInv, TypeOK
  <2>2. CASE Errors \/ Fails
    BY <2>1, <2>2 DEF Errors, Fails, disk
  <2>3. CASE Tick
    BY <2>1, <2>3 DEF Tick, run
  <2>4. CASE UNCHANGED vars
    BY <2>1, <2>4 DEF vars, disk, run
  <2> QED BY <2>2, <2>3, <2>4
<1>1. ClockOk'
  <2> SUFFICES ASSUME NEW f \in Files, files[f] # Absent PROVE files[f].stamp.ctime <= now'
    BY <1>t DEF ClockOk
  <2>1. files[f].stamp.ctime <= now /\ files[f].stamp.ctime \in Nat
    BY <1>t DEF IInv, ClockOk, TypeOK
  <2> QED BY <1>t, <2>1
<1>2. MarksOk'
  <2> SUFFICES ASSUME NEW i \in DOMAIN marks
               PROVE  /\ \A f \in Files : Past(marks[i][f], now')
                      /\ \E g \in Passing : Agrees(marks[i], g)
    BY <1>t DEF MarksOk, Agrees, Stamp, Content
  <2>1. \A f \in Files : Past(marks[i][f], now) /\ marks[i][f] \in Stamps \cup {Absent}
    BY <1>t DEF IInv, MarksOk, TypeOK, Key
  <2>2. \A f \in Files : Past(marks[i][f], now')
    BY <1>t, <2>1, PastStays
  <2> QED BY <2>2 DEF IInv, MarksOk
<1>3. SeenOk'
  <2>1. \A f \in Files : seen[f] \in Stamps => seen[f].ctime <= now'
    <3> SUFFICES ASSUME NEW f \in Files, seen[f] \in Stamps PROVE seen[f].ctime <= now'
      OBVIOUS
    <3>1. seen[f].ctime <= now /\ seen[f].ctime \in Nat
      BY DEF IInv, SeenOk
    <3> QED BY <1>t, <3>1
  <2>2. (pc = "vet" /\ settled) => \A f \in Files : Past(seen[f], now')
    <3> SUFFICES ASSUME pc = "vet", settled, NEW f \in Files PROVE Past(seen[f], now')
      OBVIOUS
    <3>1. Past(seen[f], now) /\ seen[f] \in Stamps \cup {Absent}
      BY <1>t DEF IInv, SeenOk, KeyComplete, Complete, TypeOK
    <3> QED BY <1>t, <3>1, PastStays
  <2> QED BY <1>t, <2>1, <2>2 DEF IInv, SeenOk, Stamp
<1>4. ReadOk'
  BY <1>t DEF IInv, ReadOk, Nothing, Stamp, Content
<1>5. VerdictSound'
  BY <1>t DEF IInv, VerdictSound, Module, Content
<1> QED BY <1>1, <1>2, <1>3, <1>4, <1>5 DEF IInv

-----------------------------------------------------------------------------
(***************************************************************************)
(* The theorems.                                                           *)
(***************************************************************************)

LEMMA TypeInit ==
    ASSUME Init
    PROVE  TypeOK /\ KeyComplete
<1>1. marks \in Seq(Key) /\ Len(marks) = 0 /\ DOMAIN marks = {}
  BY DEF Init
<1>2. Nothing \in [Files -> Stamps \cup {Absent, Unseen}] /\ Nothing \in [Files -> Contents \cup {Absent, Unseen}]
  BY DEF Nothing
<1>3. files \in [Files -> [content : Contents, stamp : Stamps] \cup {Absent}]
  BY DEF Init
<1>4. Len(marks) <= MARKS /\ \A i, j \in DOMAIN marks : marks[i] = marks[j] => i = j
  BY <1>1, VetAssumption
<1>5. settled = FALSE /\ touched = FALSE /\ now = 0 /\ pc = "idle" /\ outcome = "none" /\ seen = Nothing /\ read = Nothing
  BY DEF Init
<1>6. now \in 0 .. MaxNow
  BY <1>5, VetAssumption
<1> QED BY <1>1, <1>2, <1>3, <1>4, <1>5, <1>6 DEF TypeOK, KeyComplete

\* Types are right, whatever the file system does; in particular the store
\* never keeps more than MARKS passes, and none of them twice.
THEOREM TypeCorrect == Spec => []TypeOK
<1>1. Init => TypeOK /\ KeyComplete
  BY TypeInit
<1>2. TypeOK /\ KeyComplete /\ [Next]_vars => (TypeOK /\ KeyComplete)'
  BY TypeStep
<1> QED BY <1>1, <1>2, PTL DEF Spec

\* In an orderly file system the invariant is inductive: a remembered key
\* vouches for a module that passed.
THEOREM VetInvariant == Orderly => (Spec => []IInv)
<1> SUFFICES ASSUME Orderly PROVE Spec => []IInv
  OBVIOUS
<1>1. Init => IInv
  <2> SUFFICES ASSUME Init PROVE IInv
    OBVIOUS
  <2>1. TypeOK /\ KeyComplete
    BY TypeInit
  <2>2. \A f \in Files : Nothing[f] = Unseen
    BY DEF Nothing
  <2>3. ClockOk
    BY DEF Init, ClockOk
  <2>4. MarksOk
    BY DEF Init, MarksOk
  <2>5. SeenOk /\ ReadOk
    BY <2>2, VetAssumption, AbsentAssumption DEF Init, SeenOk, ReadOk
  <2>6. VerdictSound
    BY DEF Init, VerdictSound
  <2> QED BY <2>1, <2>3, <2>4, <2>5, <2>6 DEF IInv
<1>2. IInv /\ [Next]_vars => IInv'
  <2> SUFFICES ASSUME IInv, [Next]_vars PROVE IInv'
    OBVIOUS
  <2>1. TypeOK' /\ KeyComplete'
    BY TypeStep DEF IInv
  <2>2. CASE Fingerprint \/ NoFingerprint
    BY <2>1, <2>2, BeginStep DEF Fingerprint, NoFingerprint
  <2>3. CASE Skip
    BY <2>1, <2>3, SkipStep
  <2>4. CASE Miss
    BY <2>1, <2>4, MissStep
  <2>5. CASE Clean
    BY <2>1, <2>5, CleanStep
  <2>6. CASE Errors \/ Fails \/ Tick \/ UNCHANGED vars
    BY <2>1, <2>6, OtherStep
  <2>7. ASSUME NEW f \in Files, Stat(f) PROVE IInv'
    BY <2>1, <2>7, StatStep
  <2>8. ASSUME NEW f \in Files, Read(f) PROVE IInv'
    BY <2>1, <2>8, ReadStep
  <2>9. ASSUME NEW f \in Files, Write(f) \/ Create(f) \/ Remove(f) PROVE IInv'
    BY <2>1, <2>9, ChangeStep DEF Write, Create, Orderly, Remove
  <2> QED BY <2>2, <2>3, <2>4, <2>5, <2>6, <2>7, <2>8, <2>9 DEF Next
<1> QED BY <1>1, <1>2, PTL DEF Spec

\* In an orderly file system a run without errors over files that do not
\* change tells the truth about them, remembered or not.
THEOREM VerdictIsSound == Orderly => (Spec => []VerdictSound)
<1> SUFFICES ASSUME Orderly PROVE Spec => []VerdictSound
  OBVIOUS
<1>1. Spec => []IInv
  BY VetInvariant
<1>2. IInv => VerdictSound
  BY DEF IInv
<1> QED BY <1>1, <1>2, PTL
=============================================================================
