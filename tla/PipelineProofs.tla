--------------------------- MODULE PipelineProofs ---------------------------
(***************************************************************************)
(* What format_source returns, for every schedule, every number of extra   *)
(* rounds and whatever the steps and the parser do: the same program, with *)
(* scores of the text returned, or an error.                               *)
(***************************************************************************)
EXTENDS Pipeline, SequenceTheorems, TLAPS

\* Where a round stands: what was compared, and what is still to be.
RoundOk ==
    /\ pc = "parse" => (last = None <=> expected = None)
    /\ pc = "stages" => expected # None /\ reads[text] = expected
    /\ last = None => text = input
    /\ pc = "end" => result \in Results

\* The inputs of all rounds are one program.  The fingerprint of the source
\* is known from the first comparison on.
OneProgram ==
    /\ expected # None \/ Len(inputs) > 1 =>
          \A i \in DOMAIN inputs : reads[inputs[i]] \in Prints /\ reads[inputs[i]] = reads[source]
    /\ expected # None => expected = reads[source]

\* Every round but the current one changed its input.
EachChanged == \A i \in DOMAIN inputs : i + 1 \in DOMAIN inputs => inputs[i] # inputs[i + 1]

IInv ==
    /\ TypeOK
    /\ RoundOk
    /\ OneProgram
    /\ EachChanged
    /\ SameProgram
    /\ ScoresOutput
    /\ GivesUpOnChange

-----------------------------------------------------------------------------

\* A stage of the schedule is a record with a step and a positive budget.
LEMMA StageTypes ==
    ASSUME TypeOK
    PROVE  /\ schedule \in Seq([step : Steps, budget : Nat \ {0}])
           /\ Len(schedule) \in Nat
           /\ DOMAIN schedule = 1 .. Len(schedule)
           /\ \A i \in DOMAIN schedule : schedule[i].step \in Steps /\ schedule[i].budget \in Nat \ {0}
           /\ source \in Texts
           /\ input \in Texts
<1>1. schedule \in Seq([step : Steps, budget : Nat \ {0}])
  BY StepsAssumption DEF schedule
<1>2. Len(schedule) \in Nat /\ DOMAIN schedule = 1 .. Len(schedule)
  BY <1>1
<1>3. \A i \in DOMAIN schedule : schedule[i] \in [step : Steps, budget : Nat \ {0}]
  BY <1>1, <1>2, ElementOfSeq
<1>4. Len(inputs) \in Nat /\ 1 \in DOMAIN inputs /\ Len(inputs) \in DOMAIN inputs
  BY StepsAssumption DEF TypeOK
<1> QED
  BY <1>1, <1>2, <1>3, <1>4 DEF TypeOK, source, input

\* A call starts with nothing known.
LEMMA InitOk == Init => IInv
<1> SUFFICES ASSUME Init PROVE IInv
  OBVIOUS
<1>1. PICK t \in Texts : inputs = <<t>> /\ text = t
  BY DEF Init
<1>2. Len(inputs) = 1 /\ inputs[1] = t /\ inputs \in Seq(Texts) /\ DOMAIN inputs = {1}
  BY <1>1
<1>3. schedule \in Seq([step : Steps, budget : Nat \ {0}])
  BY StepsAssumption DEF schedule
<1>4. Len(schedule) \in Nat /\ DOMAIN schedule = 1 .. Len(schedule)
  BY <1>3
<1>5. cursor \in [stage : 1 .. Len(schedule) + 1, runs : Nat] /\ cursor.runs = 0
  BY <1>4 DEF Init
<1>6. cursor.stage \in DOMAIN schedule => stage.budget \in Nat
  <2>1. \A i \in DOMAIN schedule : schedule[i] \in [step : Steps, budget : Nat \ {0}]
    BY <1>3, <1>4, ElementOfSeq
  <2> QED
    BY <2>1 DEF stage
<1>7. TypeOK
  BY <1>1, <1>2, <1>5, <1>6, StepsAssumption DEF Init, TypeOK
<1> QED
  BY <1>1, <1>2, <1>7, ValuesAssumption
  DEF Init, IInv, RoundOk, OneProgram, EachChanged, SameProgram, ScoresOutput, GivesUpOnChange, source, input

\* The parser answers a text once and for all.
LEMMA ReadsOnce ==
    ASSUME TypeOK, NEW t \in Texts, NEW p \in Prints \cup {Broken}, Reads(t, p)
    PROVE  /\ reads' \in [Texts -> Prints \cup {Broken, Unknown}]
           /\ reads'[t] = p
           /\ \A u \in Texts : reads[u] # Unknown => reads'[u] = reads[u]
           /\ does' = does
BY DEF TypeOK, Reads

\* So does a step.
LEMMA DoesOnce ==
    ASSUME TypeOK, NEW s \in Steps, NEW t \in Texts, NEW out \in Texts \cup {Fails}, Does(s, t, out)
    PROVE  /\ does' \in [Steps \X Texts -> Texts \cup {Fails, Unknown}]
           /\ reads' = reads
BY DEF TypeOK, Does

\* What ends a call leaves the round as it is.
LEMMA EndTypes ==
    ASSUME TypeOK, NEW r \in Results, End(r),
           does' \in [Steps \X Texts -> Texts \cup {Fails, Unknown}],
           reads' \in [Texts -> Prints \cup {Broken, Unknown}]
    PROVE  TypeOK'
<1>1. schedule' = schedule /\ stage' = stage
  BY DEF End, file, round, schedule, stage
<1> QED
  BY <1>1 DEF TypeOK, End, file, round

\* The next stage exists, or is the end of the schedule.
LEMMA NextStageTypes ==
    ASSUME TypeOK, cursor.stage \in DOMAIN schedule
    PROVE  /\ NextStage \in [stage : 1 .. Len(schedule) + 1, runs : Nat]
           /\ NextStage.stage \in DOMAIN schedule => 0 <= schedule[NextStage.stage].budget
           /\ NextStage.runs = 0
BY StageTypes DEF TypeOK, NextStage

\* A round over t starts well.
LEMMA FreshTypes ==
    ASSUME TypeOK, NEW t \in Texts, NEW before \in Seq(Texts), Len(before) <= EXTRA_ROUNDS,
           Fresh(t, before), nth' \in 1 .. 2, formatted' \in SUBSET Steps, result' \in Results \cup {None}
    PROVE  TypeOK'
<1>1. schedule' = schedule
  BY DEF Fresh, schedule
<1>2. inputs' \in Seq(Texts) /\ Len(inputs') = Len(before) + 1 /\ Len(before) \in Nat
  BY DEF Fresh
<1>3. cursor' \in [stage : 1 .. Len(schedule) + 1, runs : Nat] /\ cursor'.runs = 0
  BY StageTypes DEF Fresh
<1>4. cursor'.stage \in DOMAIN schedule => 0 <= schedule[cursor'.stage].budget
  BY StageTypes, <1>3
<1>5. Len(inputs') \in 1 .. EXTRA_ROUNDS + 1
  BY <1>2, StepsAssumption
<1> QED
  BY <1>1, <1>2, <1>3, <1>4, <1>5 DEF TypeOK, Fresh, stage

\* Every step of a call keeps the types.
LEMMA NextTypes ==
    ASSUME TypeOK, RoundOk, Next
    PROVE  TypeOK'
<1>1. CASE Unparsed
  <2>1. Err(IF last = None THEN "syntax" ELSE "invariant") \in Results
    BY DEF Err, Results, Errors
  <2> QED
    BY <1>1, <2>1, ReadsOnce, EndTypes DEF Unparsed, TypeOK
<1>2. CASE OtherProgram
  <2>1. Err("invariant") \in Results
    BY DEF Err, Results, Errors
  <2> QED
    BY <1>2, <2>1, ReadsOnce, EndTypes DEF OtherProgram, TypeOK
<1>3. CASE Parsed
  <2>1. PICK p \in Prints : Reads(text, p) /\ expected' = IF expected = None THEN p ELSE expected
    BY <1>3 DEF Parsed
  <2>2. schedule' = schedule /\ stage' = stage
    BY <1>3 DEF Parsed, file, schedule, stage
  <2>3. reads' \in [Texts -> Prints \cup {Broken, Unknown}] /\ does' = does
    BY <2>1, ReadsOnce DEF TypeOK
  <2>4. expected' \in Prints \cup {None}
    BY <2>1 DEF TypeOK
  <2> QED
    BY <1>3, <2>2, <2>3, <2>4 DEF Parsed, TypeOK, file
<1>4. CASE Exhausted
  <2>1. schedule' = schedule
    BY <1>4 DEF Exhausted, file, schedule
  <2> QED
    BY <1>4, <2>1, NextStageTypes DEF Exhausted, InStage, TypeOK, file, stage
<1>5. CASE StepFails
  <2>1. Err("invariant") \in Results
    BY DEF Err, Results, Errors
  <2>2. stage.step \in Steps
    BY <1>5, StageTypes DEF StepFails, InStage, stage
  <2>3. does' \in [Steps \X Texts -> Texts \cup {Fails, Unknown}] /\ reads' = reads
    BY <1>5, <2>2, DoesOnce DEF StepFails, TypeOK
  <2> QED
    BY <1>5, <2>1, <2>3, EndTypes DEF StepFails, TypeOK
<1>6. CASE StepIdle
  <2>1. schedule' = schedule
    BY <1>6 DEF StepIdle, file, schedule
  <2>2. stage.step \in Steps
    BY <1>6, StageTypes DEF StepIdle, InStage, stage
  <2>3. does' \in [Steps \X Texts -> Texts \cup {Fails, Unknown}] /\ reads' = reads
    BY <1>6, <2>2, DoesOnce DEF StepIdle, TypeOK
  <2> QED
    BY <1>6, <2>1, <2>3, NextStageTypes DEF StepIdle, InStage, TypeOK, file, stage
<1>7. CASE StepChanges
  <2>1. schedule' = schedule
    BY <1>7 DEF StepChanges, file, schedule
  <2>2. stage.step \in Steps /\ stage.budget \in Nat
    BY <1>7, StageTypes DEF StepChanges, InStage, stage
  <2>3. PICK out \in Texts : Does(stage.step, text, out) /\ text' = out
    BY <1>7 DEF StepChanges
  <2>4. does' \in [Steps \X Texts -> Texts \cup {Fails, Unknown}] /\ reads' = reads
    BY <2>2, <2>3, DoesOnce DEF TypeOK
  <2>5. cursor' \in [stage : 1 .. Len(schedule) + 1, runs : Nat] /\ cursor'.stage = cursor.stage
        /\ cursor'.runs = cursor.runs + 1
    BY <1>7 DEF StepChanges, TypeOK
  <2>6. cursor'.runs <= stage.budget
    BY <1>7, <2>2, <2>5 DEF StepChanges, Spent, TypeOK
  <2> QED
    BY <1>7, <2>1, <2>2, <2>3, <2>4, <2>5, <2>6 DEF StepChanges, TypeOK, file, stage
<1>8. CASE Settled
  <2>1. Ok(text, Union, Complexity) \in Results
    BY DEF TypeOK, Ok, Union, Complexity, Results
  <2> QED
    BY <1>8, <2>1, EndTypes DEF Settled, TypeOK
<1>9. CASE GiveUp
  <2>1. Err("idempotency") \in Results
    BY DEF Err, Results, Errors
  <2> QED
    BY <1>9, <2>1, EndTypes DEF GiveUp, TypeOK
<1>10. CASE Again
  BY <1>10, FreshTypes DEF Again, Applied, MayRetry, TypeOK
<1>11. CASE Reformat
  <2>1. result.output \in Texts
    BY <1>11 DEF Reformat, RoundOk, TypeOK, Results
  <2>2. <<>> \in Seq(Texts) /\ Len(<<>>) <= EXTRA_ROUNDS
    BY StepsAssumption
  <2>3. nth' \in 1 .. 2 /\ formatted' \in SUBSET Steps /\ result' \in Results \cup {None}
    BY <1>11 DEF Reformat
  <2>4. Fresh(result.output, <<>>)
    BY <1>11 DEF Reformat
  <2> QED
    BY <2>1, <2>2, <2>3, <2>4, FreshTypes
<1> QED
  BY <1>1, <1>2, <1>3, <1>4, <1>5, <1>6, <1>7, <1>8, <1>9, <1>10, <1>11 DEF Next

\* A text the parser has not seen compares with nothing, and one it has seen
\* keeps its fingerprint: what is known of the inputs stays known.
LEMMA ProgramKept ==
    ASSUME TypeOK, OneProgram, NEW t \in Texts, NEW p \in Prints \cup {Broken}, Reads(t, p),
           expected # None \/ Len(inputs) > 1, inputs' = inputs
    PROVE  /\ \A i \in DOMAIN inputs : reads'[inputs[i]] \in Prints /\ reads'[inputs[i]] = reads'[source]
           /\ reads'[source] = reads[source]
<1>1. \A i \in DOMAIN inputs : inputs[i] \in Texts
  BY ElementOfSeq DEF TypeOK
<1>2. \A i \in DOMAIN inputs : reads[inputs[i]] \in Prints /\ reads[inputs[i]] = reads[source]
  BY DEF OneProgram
<1>3. \A i \in DOMAIN inputs : reads'[inputs[i]] = reads[inputs[i]]
  BY <1>1, <1>2, ReadsOnce, ValuesAssumption
<1>4. 1 \in DOMAIN inputs
  BY StepsAssumption DEF TypeOK
<1> QED
  BY <1>2, <1>3, <1>4 DEF source

\* The parser's answers that end a call leave the rest as it was.
LEMMA FailureOk ==
    ASSUME IInv, NEW why \in Errors \ {"idempotency"}, End(Err(why)), pc # "end",
           OneProgram'
    PROVE  /\ RoundOk' /\ EachChanged'
           /\ SameProgram' /\ ScoresOutput' /\ GivesUpOnChange'
<1>1. result' = [ok |-> FALSE, why |-> why] /\ result'.ok = FALSE /\ result'.why = why
  BY DEF End, Err
<1>2. Err(why) \in Results
  BY DEF Err, Results, Errors
<1>3. result' \in Results
  BY <1>2 DEF End
<1>4. /\ pc' = "end" /\ inputs' = inputs /\ text' = text /\ last' = last
  BY DEF End, round
<1> QED
  BY <1>1, <1>3, <1>4
  DEF IInv, RoundOk, EachChanged, SameProgram, ScoresOutput, GivesUpOnChange, Errors, input

\* The stages work on a text of the source's program.
LEMMA StagesKnow ==
    ASSUME IInv, pc = "stages"
    PROVE  /\ reads[text] = reads[source]
           /\ reads[text] \in Prints
           /\ \A i \in DOMAIN inputs : reads[inputs[i]] \in Prints /\ reads[inputs[i]] = reads[source]
BY DEF IInv, RoundOk, OneProgram, TypeOK

\* What does not touch the inputs, the answers and the round's fingerprint
\* keeps the three facts about them.
LEMMA StageStepOk ==
    ASSUME IInv, pc = "stages", reads' = reads, expected' = expected, inputs' = inputs,
           pc' \in {"parse", "stages"}, pc' = "stages" => text' = text,
           \/ last' = last /\ text' = text /\ pc' = "stages"
           \/ last' \in Steps
    PROVE  RoundOk' /\ OneProgram' /\ EachChanged' /\ SameProgram' /\ ScoresOutput' /\ GivesUpOnChange'
<1>1. source' = source /\ input' = input
  BY DEF source, input
<1>2. RoundOk'
  BY <1>1, ValuesAssumption DEF IInv, RoundOk
<1> QED
  BY <1>1, <1>2 DEF IInv, OneProgram, EachChanged, SameProgram, ScoresOutput, GivesUpOnChange

\* A round over t follows rounds over one program, each of which changed it.
LEMMA FreshOk ==
    ASSUME IInv, NEW t \in Texts, NEW before \in Seq(Texts), Fresh(t, before),
           before # <<>> => before = inputs /\ t # input /\ reads[t] = reads[source] /\ pc = "stages"
    PROVE  RoundOk' /\ OneProgram' /\ EachChanged' /\ SameProgram' /\ ScoresOutput' /\ GivesUpOnChange'
<1>1. /\ inputs' = Append(before, t) /\ text' = t /\ last' = None /\ expected' = None /\ pc' = "parse"
      /\ reads' = reads
  BY DEF Fresh
<1>2. /\ Len(before) \in Nat /\ Len(inputs') = Len(before) + 1
      /\ DOMAIN inputs' = 1 .. Len(before) + 1 /\ DOMAIN before = 1 .. Len(before)
      /\ inputs'[Len(before) + 1] = t
      /\ \A i \in 1 .. Len(before) : inputs'[i] = before[i]
  BY <1>1
<1>3. RoundOk'
  BY <1>1, <1>2 DEF RoundOk, input
<1>4. OneProgram' /\ EachChanged'
  <2>1. CASE before = <<>>
    <3>1. Len(before) = 0
      BY <2>1
    <3>2. Len(inputs') = 1 /\ DOMAIN inputs' = {1}
      BY <3>1, <1>2
    <3> QED
      BY <3>2, <1>1 DEF OneProgram, EachChanged
  <2>2. CASE before # <<>>
    <3>1. /\ before = inputs /\ t # input /\ reads[t] = reads[source] /\ reads[source] \in Prints
          /\ \A i \in DOMAIN inputs : reads[inputs[i]] \in Prints /\ reads[inputs[i]] = reads[source]
      BY <2>2, StagesKnow DEF IInv, RoundOk, OneProgram, TypeOK
    <3>2. Len(inputs) \in Nat /\ Len(inputs) >= 1
      BY StepsAssumption DEF IInv, TypeOK
    <3>3. source' = source
      BY <1>2, <3>1, <3>2 DEF source
    <3>4. \A i \in DOMAIN inputs' : reads'[inputs'[i]] \in Prints /\ reads'[inputs'[i]] = reads'[source']
      BY <1>1, <1>2, <3>1, <3>2, <3>3
    <3>5. OneProgram'
      BY <1>1, <3>3, <3>4 DEF OneProgram
    <3>6. EachChanged'
      <4> SUFFICES ASSUME NEW i \in DOMAIN inputs', i + 1 \in DOMAIN inputs'
                   PROVE  inputs'[i] # inputs'[i + 1]
        BY DEF EachChanged
      <4>1. CASE i + 1 = Len(inputs) + 1
        BY <4>1, <1>2, <3>1, <3>2 DEF input
      <4>2. CASE i + 1 # Len(inputs) + 1
        BY <4>2, <1>2, <3>1, <3>2 DEF IInv, EachChanged
      <4> QED
        BY <4>1, <4>2
    <3> QED
      BY <3>5, <3>6
  <2> QED
    BY <2>1, <2>2
<1> QED
  BY <1>1, <1>3, <1>4 DEF SameProgram, ScoresOutput, GivesUpOnChange

\* The invariant is inductive.
LEMMA NextOk ==
    ASSUME IInv, Next
    PROVE  IInv'
<1> USE DEF IInv
<1>t. TypeOK'
  BY NextTypes
<1>1. CASE Unparsed
  <2>1. Reads(text, Broken) /\ pc = "parse" /\ inputs' = inputs /\ expected' = expected
    BY <1>1 DEF Unparsed, End, round
  <2>2. OneProgram'
    BY <2>1, ProgramKept DEF OneProgram, TypeOK, source
  <2> QED
    BY <1>1, <1>t, <2>2, FailureOk DEF Unparsed, Errors
<1>2. CASE OtherProgram
  <2>1. PICK p \in Prints : Reads(text, p)
    BY <1>2 DEF OtherProgram
  <2>2. pc = "parse" /\ inputs' = inputs /\ expected' = expected
    BY <1>2 DEF OtherProgram, End, round
  <2>3. OneProgram'
    BY <2>1, <2>2, ProgramKept DEF OneProgram, TypeOK, source
  <2> QED
    BY <1>2, <1>t, <2>3, FailureOk DEF OtherProgram, Errors
<1>3. CASE Parsed
  <2>1. PICK p \in Prints : /\ Reads(text, p) /\ ~Differs(p)
                            /\ expected' = IF expected = None THEN p ELSE expected
    BY <1>3 DEF Parsed
  <2>2. /\ pc = "parse" /\ pc' = "stages" /\ inputs' = inputs /\ text' = text /\ last' = last
        /\ source' = source /\ input' = input
    BY <1>3 DEF Parsed, source, input
  <2>3. reads'[text] = p
    BY <2>1, ReadsOnce DEF TypeOK
  <2>4. expected' = p /\ expected' # None
    BY <2>1, <2>2, ValuesAssumption DEF RoundOk, Differs, TypeOK
  <2>5. OneProgram'
    <3>1. CASE expected # None \/ Len(inputs) > 1
      <4>1. /\ \A i \in DOMAIN inputs : reads'[inputs[i]] \in Prints /\ reads'[inputs[i]] = reads'[source]
            /\ reads'[source] = reads[source]
        BY <3>1, <2>1, <2>2, ProgramKept DEF TypeOK
      <4>2. expected' = reads'[source]
        <5>1. CASE expected # None
          BY <5>1, <4>1, <2>1 DEF OneProgram
        <5>2. CASE expected = None
          <6>1. text = input
            BY <5>2, <2>2 DEF RoundOk
          <6>2. Len(inputs) \in DOMAIN inputs
            BY StepsAssumption DEF TypeOK
          <6> QED
            BY <6>1, <6>2, <4>1, <2>3, <2>4 DEF input
        <5> QED
          BY <5>1, <5>2
      <4> QED
        BY <4>1, <4>2, <2>2 DEF OneProgram
    <3>2. CASE expected = None /\ ~(Len(inputs) > 1)
      <4>1. Len(inputs) = 1 /\ DOMAIN inputs = {1}
        <5>1. Len(inputs) \in Nat /\ DOMAIN inputs = 1 .. Len(inputs) /\ Len(inputs) >= 1
          BY StepsAssumption DEF TypeOK
        <5> QED
          BY <3>2, <5>1
      <4>2. text = source
        BY <3>2, <4>1, <2>2 DEF RoundOk, input, source
      <4> QED
        BY <4>1, <4>2, <2>1, <2>2, <2>3, <2>4 DEF OneProgram, source
    <3> QED
      BY <3>1, <3>2
  <2>6. RoundOk'
    BY <2>2, <2>3, <2>4 DEF RoundOk
  <2> QED
    BY <1>t, <2>2, <2>5, <2>6 DEF EachChanged, SameProgram, ScoresOutput, GivesUpOnChange
<1>4. CASE Exhausted
  BY <1>4, <1>t, StageStepOk DEF Exhausted, InStage
<1>5. CASE StepFails
  <2>1. /\ pc = "stages" /\ inputs' = inputs /\ expected' = expected /\ reads' = reads
    BY <1>5 DEF StepFails, InStage, Does, End, round
  <2>2. OneProgram'
    BY <2>1 DEF OneProgram, source
  <2> QED
    BY <1>5, <1>t, <2>1, <2>2, FailureOk DEF StepFails, Errors
<1>6. CASE StepIdle
  BY <1>6, <1>t, StageStepOk DEF StepIdle, InStage, Does
<1>7. CASE StepChanges
  <2>1. stage.step \in Steps
    BY <1>7, StageTypes DEF StepChanges, InStage, stage
  <2>2. /\ pc = "stages" /\ reads' = reads /\ expected' = expected /\ inputs' = inputs /\ pc' = "parse"
        /\ last' \in Steps
    BY <1>7, <2>1 DEF StepChanges, InStage, Does
  <2> QED
    BY <2>2, <1>t, StageStepOk
<1>8. CASE Settled
  <2>1. /\ pc = "stages" /\ pc' = "end" /\ inputs' = inputs /\ text' = text /\ reads' = reads
        /\ expected' = expected /\ last' = last /\ score' = score /\ Applied = {}
        /\ result' = [ok |-> TRUE, output |-> text, applied |-> Union, complexity |-> Complexity]
    BY <1>8 DEF Settled, RoundOver, Stable, End, Ok, round, file
  <2>2. result'.ok = TRUE /\ result'.output = text /\ result'.complexity = Complexity
    BY <2>1
  <2>3. source' = source /\ input' = input
    BY <2>1 DEF source, input
  <2>4. result' \in Results
    BY <2>1 DEF TypeOK, Union, Complexity, Results
  <2>5. RoundOk' /\ OneProgram' /\ EachChanged'
    BY <2>1, <2>3, <2>4 DEF RoundOk, OneProgram, EachChanged
  <2>6. SameProgram'
    BY <2>1, <2>2, <2>3, StagesKnow DEF SameProgram
  <2>7. ScoresOutput' /\ GivesUpOnChange'
    BY <2>1, <2>2 DEF ScoresOutput, GivesUpOnChange, Complexity
  <2> QED
    BY <1>t, <2>5, <2>6, <2>7
<1>9. CASE GiveUp
  <2>1. /\ pc = "stages" /\ pc' = "end" /\ inputs' = inputs /\ text' = text /\ reads' = reads
        /\ expected' = expected /\ last' = last
        /\ result' = [ok |-> FALSE, why |-> "idempotency"]
    BY <1>9 DEF GiveUp, RoundOver, End, Err, round
  <2>2. text # input
    BY <1>9 DEF GiveUp, Stable, Applied
  <2>3. source' = source /\ input' = input
    BY <2>1 DEF source, input
  <2>4. Len(inputs) = EXTRA_ROUNDS + 1 /\ DOMAIN inputs = 1 .. EXTRA_ROUNDS + 1
    BY <1>9, StepsAssumption DEF GiveUp, MayRetry, TypeOK
  <2>5. GivesUpOnChange'
    <3>1. \A i \in 1 .. EXTRA_ROUNDS : inputs[i] # inputs[i + 1]
      <4>1. EachChanged
        OBVIOUS
      <4>2. \A i \in 1 .. EXTRA_ROUNDS : i \in DOMAIN inputs /\ i + 1 \in DOMAIN inputs
        BY <2>4, StepsAssumption
      <4> QED
        BY <4>1, <4>2 DEF EachChanged
    <3> QED
      BY <2>1, <2>2, <2>3, <2>4, <3>1 DEF GivesUpOnChange
  <2>6. result' \in Results
    BY <2>1 DEF Results, Errors
  <2>7. RoundOk' /\ OneProgram' /\ EachChanged'
    BY <2>1, <2>3, <2>6 DEF RoundOk, OneProgram, EachChanged
  <2> QED
    BY <1>t, <2>1, <2>5, <2>7 DEF SameProgram, ScoresOutput
<1>10. CASE Again
  <2>1. Fresh(text, inputs) /\ text # input /\ pc = "stages"
    BY <1>10 DEF Again, RoundOver, Stable, Applied
  <2>2. text \in Texts /\ inputs \in Seq(Texts)
    BY DEF TypeOK
  <2> QED
    BY <1>t, <2>1, <2>2, FreshOk, StagesKnow
<1>11. CASE Reformat
  <2>1. Fresh(result.output, <<>>) /\ result.output \in Texts /\ <<>> \in Seq(Texts)
    <3>1. result \in Results /\ result.ok
      BY <1>11 DEF Reformat, RoundOk
    <3>2. result.output \in Texts
      BY <3>1 DEF Results
    <3> QED
      BY <1>11, <3>2 DEF Reformat
  <2> QED
    BY <1>t, <2>1, FreshOk
<1> QED
  BY <1>1, <1>2, <1>3, <1>4, <1>5, <1>6, <1>7, <1>8, <1>9, <1>10, <1>11 DEF Next

\* Nothing happens to the invariant between the steps.
LEMMA StutterOk ==
    ASSUME IInv, UNCHANGED vars
    PROVE  IInv'
<1>1. /\ does' = does /\ reads' = reads /\ declaration' = declaration /\ score' = score /\ nth' = nth
      /\ pc' = pc /\ inputs' = inputs /\ text' = text /\ cursor' = cursor /\ last' = last
      /\ expected' = expected /\ applied' = applied /\ formatted' = formatted /\ result' = result
  BY DEF vars, file, round
<1>2. schedule' = schedule /\ stage' = stage /\ source' = source /\ input' = input
  BY <1>1 DEF schedule, stage, source, input
<1>3. TypeOK'
  BY <1>1, <1>2 DEF IInv, TypeOK
<1> QED
  BY <1>1, <1>2, <1>3
  DEF IInv, RoundOk, OneProgram, EachChanged, SameProgram, ScoresOutput, GivesUpOnChange

\* Every state of format_source (crates/ts/src/pipeline.rs) satisfies the
\* inductive invariant.
THEOREM PipelineInvariant == Spec => []IInv
<1>1. Init => IInv
  BY InitOk
<1>2. IInv /\ [Next]_vars => IInv'
  BY NextOk, StutterOk
<1> QED
  BY <1>1, <1>2, PTL DEF Spec

\* format_source returns the program it was given: each round compares with
\* its own input only, and no chain of rounds drifts.
THEOREM ReturnsSameProgram == Spec => []SameProgram
<1>1. IInv => SameProgram
  BY DEF IInv
<1> QED
  BY <1>1, PipelineInvariant, PTL

\* The scores returned are scores of the text returned.
THEOREM ScoresTheOutput == Spec => []ScoresOutput
<1>1. IInv => ScoresOutput
  BY DEF IInv
<1> QED
  BY <1>1, PipelineInvariant, PTL

\* An idempotency error means EXTRA_ROUNDS + 1 rounds that each changed the
\* text.
THEOREM GivesUpOnlyOnChange == Spec => []GivesUpOnChange
<1>1. IInv => GivesUpOnChange
  BY DEF IInv
<1> QED
  BY <1>1, PipelineInvariant, PTL

-----------------------------------------------------------------------------
(***************************************************************************)
(* The fixed point.  A round that has been carried out is retraced by any  *)
(* later round over the same text, because its questions have all been     *)
(* answered.  Positions in a round are related by the answers: a set of    *)
(* them is closed when it has, with a position, the one its answer leads   *)
(* to.                                                                     *)
(***************************************************************************)
Positions ==
    [at : {"parse", "stages"}, text : Texts, cursor : [stage : Nat, runs : Nat],
     last : Steps \cup {None}, expected : Prints \cup {None}]

Here == [at |-> pc, text |-> text, cursor |-> cursor, last |-> last, expected |-> expected]

Beginning(t) ==
    [at |-> "parse", text |-> t, cursor |-> [stage |-> 1, runs |-> 0], last |-> None, expected |-> None]

\* The answer the position h waits for, and whether it has been given and
\* lets the round go on.
Answer(h) == does[<<schedule[h.cursor.stage].step, h.text>>]
Overspent(h) == h.cursor.runs >= schedule[h.cursor.stage].budget
ParseKnown(h) ==
    /\ h.at = "parse"
    /\ reads[h.text] \in Prints
    /\ h.expected # None /\ h.last # None => h.expected = reads[h.text]
StageKnown(h) ==
    /\ h.at = "stages"
    /\ h.cursor.stage \in DOMAIN schedule
    /\ Overspent(h) \/ Answer(h) \in Texts
Known(h) == ParseKnown(h) \/ StageKnown(h)

\* Where the round is after it.
AfterParse(h) ==
    [at |-> "stages", text |-> h.text, cursor |-> h.cursor, last |-> h.last,
     expected |-> IF h.expected = None THEN reads[h.text] ELSE h.expected]
AfterIdle(h) ==
    [at |-> "stages", text |-> h.text, cursor |-> [stage |-> h.cursor.stage + 1, runs |-> 0],
     last |-> h.last, expected |-> h.expected]
AfterChange(h) ==
    [at |-> "parse", text |-> Answer(h),
     cursor |-> [stage |-> h.cursor.stage, runs |-> h.cursor.runs + 1],
     last |-> schedule[h.cursor.stage].step, expected |-> h.expected]
After(h) ==
    IF h.at = "parse" THEN AfterParse(h)
    ELSE IF Overspent(h) \/ Answer(h) = h.text THEN AfterIdle(h)
    ELSE AfterChange(h)

Done(h) == h.at = "stages" /\ h.cursor.stage \notin DOMAIN schedule

Closed(S) == \A h \in S : Known(h) => After(h) \in S

\* A round over t has been carried out and ends with u.
Leads(S, t, u) ==
    /\ Beginning(t) \in S
    /\ \A h \in S : (Known(h) /\ After(h) \in S) \/ (Done(h) /\ h.text = u)
EndsIn(t, u) == \E S \in SUBSET Positions : Leads(S, t, u)

\* The round is where its answers lead ...
OnTrail ==
    pc # "end" => \A S \in SUBSET Positions : Closed(S) /\ Beginning(input) \in S => Here \in S

\* ... and has left no question behind it open.
Walked(S) ==
    /\ Beginning(input) \in S
    /\ Here \in S
    /\ \A h \in S \ {Here} : Known(h) /\ After(h) \in S
Trail == pc # "end" => \E S \in SUBSET Positions : Walked(S)

\* The rounds before it were carried out, and a text that was returned is a
\* fixed point.
Carried == \A i \in DOMAIN inputs : i + 1 \in DOMAIN inputs => EndsIn(inputs[i], inputs[i + 1])
Returned == pc = "end" /\ result.ok => EndsIn(result.output, result.output)
Second == nth = 2 => EndsIn(source, source) /\ Len(inputs) = 1

\* The steps recorded are those that changed something.
Counted ==
    /\ applied = {} => text = input
    /\ formatted = {} <=> Len(inputs) = 1

Retraced ==
    /\ IInv
    /\ OnTrail
    /\ Trail
    /\ Carried
    /\ Returned
    /\ Second
    /\ Counted
    /\ AppliedExact
    /\ Idempotent

-----------------------------------------------------------------------------

\* Every step of a call is made under the same schedule, and no answer of the
\* parser or of a pass is ever taken back.
LEMMA AnswersStay ==
    ASSUME TypeOK, Next
    PROVE  /\ schedule' = schedule
           /\ \A t \in Texts : reads[t] # Unknown => reads'[t] = reads[t]
           /\ \A s \in Steps, t \in Texts : does[<<s, t>>] # Unknown => does'[<<s, t>>] = does[<<s, t>>]
<1>1. declaration' = declaration
  BY DEF Next, Unparsed, OtherProgram, Parsed, Exhausted, StepFails, StepIdle, StepChanges, Settled, GiveUp,
         Again, Reformat, Fresh, End, file
<1>2. \/ UNCHANGED <<does, reads>>
      \/ \E p \in Prints \cup {Broken} : Reads(text, p)
      \/ \E out \in Texts \cup {Fails} : InStage /\ Does(stage.step, text, out)
  <2>1. text \in Texts
    BY DEF TypeOK
  <2>2. CASE Unparsed \/ OtherProgram \/ Parsed
    BY <2>2 DEF Unparsed, OtherProgram, Parsed
  <2>3. CASE Exhausted \/ Settled \/ GiveUp \/ Again \/ Reformat
    BY <2>3 DEF Exhausted, Settled, GiveUp, Again, Reformat, Fresh
  <2>4. CASE StepFails \/ StepIdle \/ StepChanges
    BY <2>1, <2>4 DEF StepFails, StepIdle, StepChanges
  <2> QED
    BY <2>2, <2>3, <2>4 DEF Next
<1>3. CASE UNCHANGED <<does, reads>>
  BY <1>1, <1>3 DEF schedule
<1>4. ASSUME NEW p \in Prints \cup {Broken}, Reads(text, p)
      PROVE  /\ \A t \in Texts : reads[t] # Unknown => reads'[t] = reads[t]
             /\ does' = does
  BY <1>4, ReadsOnce DEF TypeOK
<1>5. ASSUME NEW out \in Texts \cup {Fails}, Does(stage.step, text, out)
      PROVE  /\ \A s \in Steps, t \in Texts : does[<<s, t>>] # Unknown => does'[<<s, t>>] = does[<<s, t>>]
             /\ reads' = reads
  BY <1>5 DEF TypeOK, Does
<1> QED
  BY <1>1, <1>2, <1>3, <1>4, <1>5 DEF schedule

\* What is known of a position stays known.
LEMMA KnownStays ==
    ASSUME TypeOK, Next, NEW h \in Positions, Known(h)
    PROVE  Known(h)' /\ After(h)' = After(h)
<1>1. schedule' = schedule
  BY AnswersStay
<1>2. CASE h.at = "parse"
  <2>1. ParseKnown(h) /\ h.text \in Texts
    BY <1>2 DEF Known, StageKnown, Positions
  <2>2. reads[h.text] # Unknown
    BY <2>1, ValuesAssumption DEF ParseKnown
  <2>3. reads'[h.text] = reads[h.text]
    BY <2>1, <2>2, AnswersStay
  <2> QED
    BY <1>2, <2>1, <2>3 DEF Known, ParseKnown, After, AfterParse
<1>3. CASE h.at = "stages"
  <2>1. StageKnown(h) /\ h.text \in Texts
    BY <1>3 DEF Known, ParseKnown, Positions
  <2>2. schedule[h.cursor.stage].step \in Steps
    BY <2>1, StageTypes DEF StageKnown
  <2>3. Overspent(h)' = Overspent(h)
    BY <1>1 DEF Overspent
  <2>4. CASE Overspent(h)
    BY <1>1, <1>3, <2>1, <2>3, <2>4 DEF Known, StageKnown, After, AfterIdle
  <2>5. CASE ~Overspent(h)
    <3>1. Answer(h) \in Texts
      BY <2>1, <2>5 DEF StageKnown
    <3>2. Answer(h)' = Answer(h)
      BY <1>1, <2>1, <2>2, <3>1, AnswersStay, ValuesAssumption DEF Answer
    <3> QED
      BY <1>1, <1>3, <2>1, <2>3, <2>5, <3>1, <3>2 DEF Known, StageKnown, After, AfterIdle, AfterChange
  <2> QED
    BY <2>4, <2>5
<1> QED
  BY <1>2, <1>3 DEF Positions

\* What a closed set says of a round stays said.
LEMMA EndsStay ==
    ASSUME TypeOK, Next, NEW t, NEW u, EndsIn(t, u)
    PROVE  EndsIn(t, u)'
<1>1. PICK S \in SUBSET Positions : Leads(S, t, u)
  BY DEF EndsIn
<1>2. schedule' = schedule
  BY AnswersStay
<1>3. ASSUME NEW h \in S
      PROVE  (Known(h)' /\ After(h)' \in S) \/ (Done(h)' /\ h.text = u)
  BY <1>1, <1>2, KnownStays DEF Leads, Done
<1>4. Leads(S, t, u)'
  BY <1>1, <1>3 DEF Leads, Beginning
<1> QED
  BY <1>4 DEF EndsIn, Positions

\* Where the round is, is a position.
LEMMA HereTypes ==
    ASSUME TypeOK, pc # "end"
    PROVE  Here \in Positions /\ Beginning(input) \in Positions
<1>1. cursor \in [stage : Nat, runs : Nat]
  BY StageTypes DEF TypeOK
<1> QED
  BY <1>1, StageTypes DEF TypeOK, Here, Beginning, Positions

\* A step within a round gets the answer its position waits for, and goes
\* where it leads.
Moves == Parsed \/ Exhausted \/ StepIdle \/ StepChanges

LEMMA MovesOn ==
    ASSUME TypeOK, Moves, NEW h, h = Here
    PROVE  Known(h)' /\ Here' = After(h)'
<1>1. h = [at |-> pc, text |-> text, cursor |-> cursor, last |-> last, expected |-> expected]
  BY DEF Here
<1>2. /\ h.at = pc /\ h.text = text /\ h.cursor = cursor /\ h.last = last /\ h.expected = expected
  BY <1>1
<1>3. schedule' = schedule
  BY DEF Moves, Parsed, Exhausted, StepIdle, StepChanges, file, schedule
<1>4. text \in Texts /\ cursor \in [stage : 1 .. Len(schedule) + 1, runs : Nat]
  BY DEF TypeOK
<1>5. CASE Parsed
  <2>1. PICK p \in Prints : /\ Reads(text, p) /\ ~Differs(p)
                            /\ expected' = IF expected = None THEN p ELSE expected
    BY <1>5 DEF Parsed
  <2>2. reads'[text] = p
    BY <2>1, <1>4, ReadsOnce
  <2>3. /\ pc = "parse" /\ pc' = "stages" /\ text' = text /\ cursor' = cursor /\ last' = last
    BY <1>5 DEF Parsed
  <2>4. ParseKnown(h)'
    BY <1>2, <2>1, <2>2, <2>3 DEF ParseKnown, Differs
  <2>5. Here' = AfterParse(h)'
    BY <1>2, <2>1, <2>2, <2>3 DEF Here, AfterParse
  <2> QED
    BY <1>2, <2>3, <2>4, <2>5 DEF Known, After
<1>6. CASE Exhausted
  <2>1. /\ pc = "stages" /\ pc' = pc /\ text' = text /\ last' = last /\ expected' = expected
        /\ cursor' = [stage |-> cursor.stage + 1, runs |-> 0] /\ cursor.stage \in DOMAIN schedule
        /\ cursor.runs >= stage.budget
    BY <1>6 DEF Exhausted, InStage, NextStage, Spent
  <2>2. Overspent(h)'
    BY <1>2, <1>3, <2>1 DEF Overspent, stage
  <2>3. Here' = AfterIdle(h)'
    BY <1>2, <2>1 DEF Here, AfterIdle
  <2> QED
    BY <1>2, <1>3, <2>1, <2>2, <2>3 DEF Known, StageKnown, After
<1>7. CASE StepIdle
  <2>1. /\ pc = "stages" /\ pc' = pc /\ text' = text /\ last' = last /\ expected' = expected
        /\ cursor' = [stage |-> cursor.stage + 1, runs |-> 0] /\ cursor.stage \in DOMAIN schedule
        /\ Does(stage.step, text, text)
    BY <1>7 DEF StepIdle, InStage, NextStage
  <2>2. stage.step \in Steps
    BY <2>1, StageTypes DEF stage
  <2>3. Answer(h)' = text
    BY <1>2, <1>3, <1>4, <2>1, <2>2 DEF Answer, Does, TypeOK, stage
  <2>4. Here' = AfterIdle(h)'
    BY <1>2, <2>1 DEF Here, AfterIdle
  <2> QED
    BY <1>2, <1>3, <1>4, <2>1, <2>3, <2>4 DEF Known, StageKnown, After
<1>8. CASE StepChanges
  <2>1. PICK out \in Texts \ {text} : Does(stage.step, text, out) /\ text' = out
    BY <1>8 DEF StepChanges
  <2>2. /\ pc = "stages" /\ pc' = "parse" /\ last' = stage.step /\ expected' = expected
        /\ cursor' = [cursor EXCEPT !.runs = @ + 1] /\ cursor.stage \in DOMAIN schedule
        /\ ~(cursor.runs >= stage.budget)
    BY <1>8 DEF StepChanges, InStage, Spent
  <2>3. stage.step \in Steps
    BY <2>2, StageTypes DEF stage
  <2>4. Answer(h)' = out
    BY <1>2, <1>3, <1>4, <2>1, <2>3 DEF Answer, Does, TypeOK, stage
  <2>5. ~Overspent(h)'
    BY <1>2, <1>3, <2>2 DEF Overspent, stage
  <2>6. cursor' = [stage |-> cursor.stage, runs |-> cursor.runs + 1]
    BY <1>4, <2>2
  <2>7. Here' = AfterChange(h)'
    BY <1>2, <1>3, <2>1, <2>2, <2>4, <2>6 DEF Here, AfterChange, stage
  <2> QED
    BY <1>2, <1>3, <1>4, <2>1, <2>2, <2>4, <2>5, <2>7 DEF Known, StageKnown, After
<1> QED
  BY <1>5, <1>6, <1>7, <1>8 DEF Moves

\* A step within a round keeps it on its trail.
LEMMA MovesKeepTrail ==
    ASSUME TypeOK, TypeOK', Next, Moves, OnTrail, Trail
    PROVE  OnTrail' /\ Trail'
<1>1. pc # "end" /\ pc' # "end" /\ inputs' = inputs
  BY DEF Moves, Parsed, Exhausted, StepIdle, StepChanges, InStage, TypeOK
<1>2. PICK h : h = Here
  OBVIOUS
<1>3. Known(h)' /\ Here' = After(h)'
  BY <1>2, MovesOn
<1>4. input' = input /\ Beginning(input)' = Beginning(input)
  BY <1>1 DEF input, Beginning
<1>5. OnTrail'
  <2> SUFFICES ASSUME NEW S \in SUBSET Positions, Closed(S)', Beginning(input)' \in S
               PROVE  Here' \in S
    BY DEF OnTrail, Positions
  <2>1. Closed(S)
    <3> SUFFICES ASSUME NEW g \in S, Known(g) PROVE After(g) \in S
      BY DEF Closed
    <3>1. Known(g)' /\ After(g)' = After(g)
      BY KnownStays
    <3> QED
      BY <3>1 DEF Closed
  <2>2. h \in S
    BY <1>1, <1>2, <1>4, <2>1 DEF OnTrail
  <2> QED
    BY <1>3, <2>2 DEF Closed
<1>6. Trail'
  <2>1. PICK S \in SUBSET Positions : Walked(S)
    BY <1>1 DEF Trail
  <2>2. PICK after : after = Here'
    OBVIOUS
  <2>3. after \in Positions
    <3>1. schedule' = schedule /\ Len(schedule) \in Nat
      BY AnswersStay, StageTypes
    <3>2. cursor' \in [stage : Nat, runs : Nat]
      BY <3>1 DEF TypeOK
    <3> QED
      BY <1>1, <2>2, <3>2 DEF TypeOK, Here, Positions
  <2>4. ASSUME NEW g \in S \cup {after}, g # after
        PROVE  Known(g)' /\ After(g)' \in S \cup {after}
    <3>1. CASE g = h
      BY <1>3, <2>2, <3>1
    <3>2. CASE g # h
      <4>1. g \in S /\ Known(g) /\ After(g) \in S
        BY <1>2, <2>1, <2>4, <3>2 DEF Walked
      <4> QED
        BY <4>1, KnownStays
    <3> QED
      BY <3>1, <3>2
  <2>5. Walked(S \cup {after})'
    BY <1>4, <2>1, <2>2, <2>4 DEF Walked
  <2> QED
    BY <2>3, <2>5 DEF Trail, Positions
<1> QED
  BY <1>5, <1>6

\* A step that keeps the inputs keeps what is known of the rounds over them.
LEMMA InputsStay ==
    ASSUME TypeOK, Next, Carried, Second, inputs' = inputs, nth' = nth
    PROVE  Carried' /\ Second'
<1>1. Carried'
  <2> SUFFICES ASSUME NEW i \in DOMAIN inputs, i + 1 \in DOMAIN inputs
               PROVE  EndsIn(inputs[i], inputs[i + 1])'
    BY DEF Carried
  <2>1. PICK t, u : t = inputs[i] /\ u = inputs[i + 1]
    OBVIOUS
  <2>2. EndsIn(t, u)'
    BY <2>1, EndsStay DEF Carried
  <2> QED
    BY <2>1, <2>2
<1>2. Second'
  <2>1. PICK t : t = source
    OBVIOUS
  <2>2. nth = 2 => EndsIn(t, t)'
    BY <2>1, EndsStay DEF Second
  <2> QED
    BY <2>1, <2>2 DEF Second, source
<1> QED
  BY <1>1, <1>2

\* A round that retraces one that ended with u goes on, or is over and has u.
LEMMA Retrace ==
    ASSUME OnTrail, pc # "end", NEW u, EndsIn(input, u)
    PROVE  Known(Here) \/ (Done(Here) /\ text = u)
<1>1. PICK S \in SUBSET Positions : Leads(S, input, u)
  BY DEF EndsIn
<1>2. Closed(S)
  BY <1>1 DEF Leads, Closed, Known, ParseKnown, StageKnown, Done
<1>3. Here \in S
  BY <1>1, <1>2 DEF OnTrail, Leads
<1>4. Here.text = text
  BY DEF Here
<1> QED
  BY <1>1, <1>3, <1>4 DEF Leads

\* A round that is over has been carried out.
LEMMA RoundEnds ==
    ASSUME Trail, RoundOver
    PROVE  EndsIn(input, text)
<1>1. PICK S \in SUBSET Positions : Walked(S)
  BY DEF Trail, RoundOver
<1>2. Done(Here) /\ Here.text = text
  BY DEF RoundOver, Done, Here
<1>3. Leads(S, input, text)
  BY <1>1, <1>2 DEF Walked, Leads
<1> QED
  BY <1>3 DEF EndsIn

\* The round of a second call neither fails nor changes the text: every
\* question it asks was answered by the last round of the first call.
LEMMA SecondIsIdle ==
    ASSUME TypeOK, OnTrail, Second, nth = 2
    PROVE  ~Unparsed /\ ~OtherProgram /\ ~StepFails /\ ~(RoundOver /\ ~Stable)
<1>1. source = input
  BY DEF Second, source, input
<1>2. PICK u : u = source
  OBVIOUS
<1>3. EndsIn(input, u)
  BY <1>1, <1>2 DEF Second
<1>4. pc # "end" => Known(Here) \/ (Done(Here) /\ text = input)
  BY <1>1, <1>2, <1>3, Retrace
<1>5. /\ Here.at = pc /\ Here.text = text /\ Here.cursor = cursor /\ Here.last = last
      /\ Here.expected = expected
  BY DEF Here
<1>6. text \in Texts
  BY DEF TypeOK
<1>7. ~Unparsed
  BY <1>4, <1>5, <1>6, ValuesAssumption DEF Unparsed, Reads, Known, ParseKnown, StageKnown, Done
<1>8. ~OtherProgram
  <2> SUFFICES ASSUME OtherProgram PROVE FALSE
    OBVIOUS
  <2>1. PICK p \in Prints : Reads(text, p) /\ Differs(p)
    BY DEF OtherProgram
  <2>2. ParseKnown(Here)
    BY <1>4, <1>5 DEF OtherProgram, Known, StageKnown, Done
  <2>3. reads[text] = p
    BY <1>5, <2>1, <2>2, ValuesAssumption DEF ParseKnown, Reads
  <2> QED
    BY <1>5, <2>1, <2>2, <2>3 DEF ParseKnown, Differs
<1>9. ~StepFails
  <2> SUFFICES ASSUME StepFails PROVE FALSE
    OBVIOUS
  <2>1. pc = "stages" /\ cursor.stage \in DOMAIN schedule /\ ~Spent /\ Does(stage.step, text, Fails)
    BY DEF StepFails, InStage
  <2>2. StageKnown(Here)
    BY <1>4, <1>5, <2>1 DEF Known, ParseKnown, Done
  <2>3. Answer(Here) \in Texts
    BY <1>5, <2>1, <2>2 DEF StageKnown, Overspent, Spent, stage
  <2>4. does[<<stage.step, text>>] \in Texts
    BY <1>5, <2>3 DEF Answer, stage
  <2> QED
    BY <2>1, <2>4, ValuesAssumption DEF Does
<1>10. ~(RoundOver /\ ~Stable)
  BY <1>4, <1>5 DEF RoundOver, Stable, Applied, Known, ParseKnown, StageKnown
<1> QED
  BY <1>7, <1>8, <1>9, <1>10

\* A call that fails is a first call.
LEMMA FailuresAreFirst ==
    ASSUME Retraced, Unparsed \/ OtherProgram \/ StepFails \/ GiveUp
    PROVE  OnTrail' /\ Trail' /\ Carried' /\ Returned' /\ Second' /\ Counted' /\ AppliedExact' /\ Idempotent'
<1>1. Next
  BY DEF Next
<1>2. nth # 2
  BY SecondIsIdle DEF Retraced, IInv, GiveUp
<1>3. PICK why : End(Err(why))
  BY DEF Unparsed, OtherProgram, StepFails, GiveUp
<1>4. /\ pc' = "end" /\ inputs' = inputs /\ nth' = nth /\ result' = [ok |-> FALSE, why |-> why]
      /\ text' = text /\ applied' = applied /\ formatted' = formatted
  BY <1>3 DEF End, Err, file, round
<1>5. result'.ok = FALSE
  BY <1>4
<1>6. Carried' /\ Second'
  BY <1>1, <1>4, InputsStay DEF Retraced, IInv
<1>7. Counted'
  BY <1>4 DEF Retraced, Counted, input
<1> QED
  BY <1>2, <1>4, <1>5, <1>6, <1>7 DEF OnTrail, Trail, Returned, AppliedExact, Idempotent

\* A call that returns a text has come to a fixed point, and returns its
\* source only if its first round did.
LEMMA SettledIsFixed ==
    ASSUME Retraced, Settled
    PROVE  OnTrail' /\ Trail' /\ Carried' /\ Returned' /\ Second' /\ Counted' /\ AppliedExact' /\ Idempotent'
<1>1. Next
  BY DEF Next
<1>2. /\ RoundOver /\ pc' = "end" /\ inputs' = inputs /\ nth' = nth /\ text' = text
      /\ applied' = applied /\ formatted' = formatted /\ UNCHANGED <<does, reads>>
      /\ result' = [ok |-> TRUE, output |-> text, applied |-> formatted, complexity |-> Complexity]
  BY DEF Settled, End, Ok, Union, file, round
<1>3. result'.ok = TRUE /\ result'.output = text /\ result'.applied = formatted
  BY <1>2
<1>4. text = input
  BY DEF Settled, Stable, Applied, Retraced, Counted
<1>5. Carried' /\ Second'
  BY <1>1, <1>2, InputsStay DEF Retraced, IInv
<1>6. Counted'
  BY <1>2 DEF Retraced, Counted, input
<1>7. PICK t : t = text
  OBVIOUS
<1>8. EndsIn(t, t)
  BY <1>2, <1>4, <1>7, RoundEnds DEF Retraced
<1>9. Returned'
  <2>1. EndsIn(t, t)'
    BY <1>1, <1>8, EndsStay DEF Retraced, IInv
  <2> QED
    BY <1>3, <1>7, <2>1 DEF Returned
<1>10. formatted = {} <=> text = source
  <2>1. Len(inputs) \in Nat \ {0}
    BY StepsAssumption DEF Retraced, IInv, TypeOK
  <2>2. CASE Len(inputs) = 1
    BY <1>4, <2>2 DEF Retraced, Counted, input, source
  <2>3. CASE Len(inputs) # 1
    <3>1. 1 \in DOMAIN inputs /\ 2 \in DOMAIN inputs
      <4>1. inputs \in Seq(Texts)
        BY DEF Retraced, IInv, TypeOK
      <4>2. DOMAIN inputs = 1 .. Len(inputs)
        BY <4>1
      <4> QED
        BY <2>1, <2>3, <4>2
    <3>2. EndsIn(inputs[1], inputs[2]) /\ inputs[1] # inputs[2]
      BY <3>1 DEF Retraced, IInv, Carried, EachChanged
    <3>3. PICK u : u = inputs[2]
      OBVIOUS
    <3>4. text # source
      <4> SUFFICES ASSUME text = source PROVE FALSE
        OBVIOUS
      <4>1. EndsIn(input, u)
        BY <1>4, <3>2, <3>3 DEF source
      <4>2. text = u
        BY <1>2, <4>1, Retrace DEF Retraced, RoundOver, Known, ParseKnown, StageKnown, Here
      <4> QED
        BY <3>2, <3>3, <4>2 DEF source
    <3> QED
      BY <2>3, <3>4 DEF Retraced, Counted
  <2> QED
    BY <2>2, <2>3
<1>11. AppliedExact'
  BY <1>2, <1>3, <1>10 DEF AppliedExact, source
<1>12. Idempotent'
  <2> SUFFICES ASSUME nth = 2 PROVE text = source /\ formatted = {}
    BY <1>2, <1>3 DEF Idempotent, source
  <2>1. Len(inputs) = 1
    BY DEF Retraced, Second
  <2> QED
    BY <1>4, <2>1 DEF Retraced, Counted, input, source
<1> QED
  BY <1>2, <1>5, <1>6, <1>9, <1>11, <1>12 DEF OnTrail, Trail

\* A round begins on its trail, whatever its text.
LEMMA FreshTrail ==
    ASSUME TypeOK, TypeOK', Next, NEW t \in Texts, NEW before \in Seq(Texts), Fresh(t, before)
    PROVE  /\ OnTrail' /\ Trail'
           /\ pc' # "end" /\ text' = t /\ applied' = {}
           /\ Len(inputs') = Len(before) + 1 /\ inputs'[Len(before) + 1] = t /\ input' = t
           /\ \A i \in 1 .. Len(before) : inputs'[i] = before[i]
<1>1. /\ text' = t /\ inputs' = Append(before, t) /\ cursor' = [stage |-> 1, runs |-> 0]
      /\ last' = None /\ expected' = None /\ applied' = {} /\ pc' = "parse"
  BY DEF Fresh
<1>2. /\ Len(before) \in Nat /\ Len(inputs') = Len(before) + 1 /\ inputs'[Len(before) + 1] = t
      /\ \A i \in 1 .. Len(before) : inputs'[i] = before[i]
  BY <1>1
<1>3. input' = t
  BY <1>2 DEF input
<1>4. Here' = Beginning(t)
  BY <1>1 DEF Here, Beginning
<1>5. Beginning(input)' = Beginning(t)
  BY <1>3 DEF Beginning
<1>6. Beginning(t) \in Positions
  BY DEF Beginning, Positions
<1>7. OnTrail'
  BY <1>4, <1>5 DEF OnTrail
<1>8. Trail'
  <2>1. Walked({Beginning(t)})'
    BY <1>4, <1>5 DEF Walked
  <2> QED
    BY <1>6, <2>1 DEF Trail, Positions
<1> QED
  BY <1>1, <1>2, <1>3, <1>7, <1>8

\* Another round is begun because the last one changed its text.
LEMMA AgainKeeps ==
    ASSUME Retraced, TypeOK', Again
    PROVE  OnTrail' /\ Trail' /\ Carried' /\ Returned' /\ Second' /\ Counted' /\ AppliedExact' /\ Idempotent'
<1>1. Next
  BY DEF Next
<1>2. /\ RoundOver /\ text # input /\ Applied = applied /\ applied # {}
      /\ Fresh(text, inputs) /\ formatted' = formatted \cup applied /\ nth' = nth
  BY DEF Again, Stable, Applied
<1>3. /\ TypeOK /\ text \in Texts /\ inputs \in Seq(Texts) /\ DOMAIN inputs = 1 .. Len(inputs)
      /\ Len(inputs) \in Nat \ {0}
  BY StepsAssumption DEF Retraced, IInv, TypeOK
<1>4. /\ OnTrail' /\ Trail' /\ pc' # "end" /\ text' = text /\ applied' = {}
      /\ Len(inputs') = Len(inputs) + 1 /\ inputs'[Len(inputs) + 1] = text /\ input' = text
      /\ \A i \in 1 .. Len(inputs) : inputs'[i] = inputs[i]
  BY <1>1, <1>2, <1>3, FreshTrail
<1>5. EndsIn(input, text)
  BY <1>2, RoundEnds DEF Retraced
<1>6. Carried'
  <2>1. DOMAIN inputs' = 1 .. Len(inputs) + 1
    BY <1>2, <1>3 DEF Fresh
  <2> SUFFICES ASSUME NEW i \in DOMAIN inputs', i + 1 \in DOMAIN inputs'
               PROVE  EndsIn(inputs[i], inputs[i + 1])'
    BY DEF Carried
  <2>2. PICK t, u : t = inputs'[i] /\ u = inputs'[i + 1]
    OBVIOUS
  <2>3. EndsIn(t, u)
    <3>1. CASE i = Len(inputs)
      BY <1>3, <1>4, <1>5, <2>2, <3>1 DEF input
    <3>2. CASE i # Len(inputs)
      <4>1. i \in DOMAIN inputs /\ i + 1 \in DOMAIN inputs
        BY <1>3, <2>1, <3>2
      <4> QED
        BY <1>3, <1>4, <2>2, <4>1 DEF Retraced, Carried
    <3> QED
      BY <3>1, <3>2
  <2>4. EndsIn(t, u)'
    BY <1>1, <1>3, <2>3, EndsStay
  <2> QED
    BY <2>2, <2>4
<1>7. nth # 2
  BY <1>2, <1>3, SecondIsIdle DEF Retraced, Stable
<1>8. Counted'
  BY <1>2, <1>3, <1>4 DEF Counted
<1> QED
  BY <1>2, <1>4, <1>6, <1>7, <1>8 DEF Returned, Second, AppliedExact, Idempotent

\* The second call is over a text that was returned.
LEMMA ReformatKeeps ==
    ASSUME Retraced, TypeOK', Reformat
    PROVE  OnTrail' /\ Trail' /\ Carried' /\ Returned' /\ Second' /\ Counted' /\ AppliedExact' /\ Idempotent'
<1>1. Next
  BY DEF Next
<1>2. pc = "end" /\ result.ok /\ Fresh(result.output, <<>>) /\ formatted' = {} /\ nth' = 2
  BY DEF Reformat
<1>3. PICK t : t = result.output
  OBVIOUS
<1>4. t \in Texts
  <2>1. result \in Results
    BY <1>2 DEF Retraced, IInv, RoundOk
  <2> QED
    BY <1>2, <1>3, <2>1 DEF Results
<1>5. <<>> \in Seq(Texts) /\ Len(<<>>) = 0
  OBVIOUS
<1>6. /\ OnTrail' /\ Trail' /\ pc' # "end" /\ text' = t /\ applied' = {} /\ input' = t
      /\ Len(inputs') = 1 /\ inputs'[1] = t
  <2>1. Fresh(t, <<>>)
    BY <1>2, <1>3 DEF Fresh
  <2>2. PICK before \in Seq(Texts) : before = <<>> /\ Len(before) = 0
    BY <1>5
  <2>3. Fresh(t, before)
    BY <2>1, <2>2
  <2>4. TypeOK
    BY DEF Retraced, IInv
  <2>5. /\ OnTrail' /\ Trail' /\ pc' # "end" /\ text' = t /\ applied' = {} /\ input' = t
        /\ Len(inputs') = Len(before) + 1 /\ inputs'[Len(before) + 1] = t
    BY <1>1, <1>4, <2>3, <2>4, FreshTrail
  <2>6. Len(before) + 1 = 1
    BY <2>2
  <2> QED
    BY <2>5, <2>6
<1>7. DOMAIN inputs' = {1}
  BY <1>2, <1>5, <1>6 DEF Fresh
<1>8. EndsIn(t, t)'
  BY <1>1, <1>2, <1>3, EndsStay DEF Retraced, Returned, IInv
<1> QED
  BY <1>2, <1>6, <1>7, <1>8 DEF Carried, Returned, Second, source, Counted, AppliedExact, Idempotent

\* A step within a round.
LEMMA MovesKeep ==
    ASSUME Retraced, TypeOK', Moves
    PROVE  OnTrail' /\ Trail' /\ Carried' /\ Returned' /\ Second' /\ Counted' /\ AppliedExact' /\ Idempotent'
<1>1. Next
  BY DEF Moves, Next
<1>2. OnTrail' /\ Trail'
  BY <1>1, MovesKeepTrail DEF Retraced, IInv
<1>3. inputs' = inputs /\ nth' = nth /\ formatted' = formatted /\ pc' # "end"
  BY DEF Moves, Parsed, Exhausted, StepIdle, StepChanges, InStage, file
<1>4. Carried' /\ Second'
  BY <1>1, <1>3, InputsStay DEF Retraced, IInv
<1>5. applied' # {} \/ (applied' = applied /\ text' = text)
  BY DEF Moves, Parsed, Exhausted, StepIdle, StepChanges
<1>6. Counted'
  BY <1>3, <1>5 DEF Retraced, Counted, input
<1> QED
  BY <1>2, <1>3, <1>4, <1>6 DEF Returned, AppliedExact, Idempotent

\* Between the steps nothing is asked and nothing moves.
LEMMA RetracedStutters ==
    ASSUME Retraced, UNCHANGED vars
    PROVE  Retraced'
<1>1. /\ does' = does /\ reads' = reads /\ declaration' = declaration /\ score' = score /\ nth' = nth
      /\ pc' = pc /\ inputs' = inputs /\ text' = text /\ cursor' = cursor /\ last' = last
      /\ expected' = expected /\ applied' = applied /\ formatted' = formatted /\ result' = result
  BY DEF vars, file, round
<1>2. schedule' = schedule /\ source' = source /\ input' = input /\ Here' = Here
  BY <1>1 DEF schedule, source, input, Here
<1>3. ASSUME NEW h PROVE Known(h)' = Known(h) /\ After(h)' = After(h) /\ Done(h)' = Done(h)
  BY <1>1, <1>2 DEF Known, ParseKnown, StageKnown, After, AfterParse, AfterIdle, AfterChange, Answer,
                    Overspent, Done
<1>4. ASSUME NEW t, NEW u PROVE EndsIn(t, u)' = EndsIn(t, u)
  BY <1>3 DEF EndsIn, Leads, Beginning, Positions
<1>5. IInv'
  BY StutterOk DEF Retraced
<1>6. OnTrail'
  BY <1>1, <1>2, <1>3 DEF Retraced, OnTrail, Closed, Beginning, Positions
<1>7. Trail'
  BY <1>1, <1>2, <1>3 DEF Retraced, Trail, Walked, Beginning, Positions
<1> QED
  BY <1>1, <1>2, <1>4, <1>5, <1>6, <1>7
  DEF Retraced, Carried, Returned, Second, Counted, AppliedExact, Idempotent

LEMMA RetracedInit == Init => Retraced
<1> SUFFICES ASSUME Init PROVE Retraced
  OBVIOUS
<1>1. PICK t \in Texts : inputs = <<t>> /\ text = t
  BY DEF Init
<1>2. Len(inputs) = 1 /\ input = t /\ DOMAIN inputs = {1}
  BY <1>1 DEF input
<1>3. Here = Beginning(input) /\ Beginning(input) \in Positions
  BY <1>1, <1>2 DEF Init, Here, Beginning, Positions
<1>4. OnTrail
  BY <1>3 DEF OnTrail
<1>5. Trail
  <2>1. Walked({Here})
    BY <1>3 DEF Walked
  <2> QED
    BY <1>3, <2>1 DEF Trail
<1> QED
  BY <1>1, <1>2, <1>4, <1>5, InitOk
  DEF Init, Retraced, Carried, Returned, Second, Counted, AppliedExact, Idempotent

\* The positions of format_source stay on a trail that its answers lay out.
THEOREM RoundsAreRetraced == Spec => []Retraced
<1>1. Init => Retraced
  BY RetracedInit
<1>2. Retraced /\ [Next]_vars => Retraced'
  <2> SUFFICES ASSUME Retraced, Next PROVE Retraced'
    BY RetracedStutters
  <2>1. IInv' /\ TypeOK'
    BY NextOk DEF Retraced, IInv
  <2>2. CASE Moves
    BY <2>1, <2>2, MovesKeep DEF Retraced
  <2>3. CASE Unparsed \/ OtherProgram \/ StepFails \/ GiveUp
    BY <2>1, <2>3, FailuresAreFirst DEF Retraced
  <2>4. CASE Settled
    BY <2>1, <2>4, SettledIsFixed DEF Retraced
  <2>5. CASE Again
    BY <2>1, <2>5, AgainKeeps DEF Retraced
  <2>6. CASE Reformat
    BY <2>1, <2>6, ReformatKeeps DEF Retraced
  <2> QED
    BY <2>2, <2>3, <2>4, <2>5, <2>6 DEF Next, Moves
<1> QED
  BY <1>1, <1>2, PTL DEF Spec

\* A file format_source has formatted is found formatted by the next call:
\* it succeeds, applies nothing and returns the text as it is.
THEOREM OutputsAreFixedPoints == Spec => []Idempotent
<1>1. Retraced => Idempotent
  BY DEF Retraced
<1> QED
  BY <1>1, RoundsAreRetraced, PTL

\* `applied' is empty exactly when the output is the source, over all rounds
\* together: a chain of rounds that comes back to its source never ends.
THEOREM AppliedMeansChanged == Spec => []AppliedExact
<1>1. Retraced => AppliedExact
  BY DEF Retraced
<1> QED
  BY <1>1, RoundsAreRetraced, PTL
=============================================================================
