------------------------------- MODULE GoFormat ------------------------------
(* The steps of the Go formatter on one file                                  *)
(* (go/helper/format/format.go, go/helper/complexity/golang.go).              *)
(*                                                                            *)
(* A request selects steps.  What a step makes of a text is a function of the *)
(* text, given with the request: a text, or None when it fails.  The text the *)
(* spacing rule reports on is its violations, and the text that is scored its *)
(* complexity; goimports looks at the disk only to resolve imports.           *)
EXTENDS Naturals, Sequences

LOCAL INSTANCE SequencesExt

None == 0

Empty == [output |-> None, error |-> "none", violations |-> None, applied |-> <<>>, complexity |-> None]

\* A reply under way: the text so far, and what has been reported.
Start(req) == [text |-> req.source, reply |-> Empty]

failed_Current(state, req, step) == [state EXCEPT !.reply = [@ EXCEPT !.error = step, !.output = state.text, !.complexity = None]]
failed(state, req, step) == [state EXCEPT !.reply = [@ EXCEPT !.error = step, !.output = req.source, !.complexity = None]]

\* goimports with or without resolving.
goimports(req) == IF req.resolve THEN req.does.resolving ELSE req.does.goimports

StepOf(req, name) == IF name = "goimports" THEN goimports(req) ELSE req.does[name]

Step(state, req, name) ==
    LET formatted == StepOf(req, name)[state.text]
    IN CASE state.reply.error # "none" \/ name \notin req.steps -> state
         [] formatted = None -> failed(state, req, name)
         [] OTHER -> [text |-> formatted,
                      reply |-> [state.reply EXCEPT !.violations = IF name = "spacing" THEN state.text ELSE @,
                                                    !.applied = IF formatted = state.text THEN @ ELSE Append(@, name)]]

\* Functions with a body, in order; a text that does not parse is an error.
Score(req, text) == IF text \in req.does.parses THEN text ELSE None

Finish(state, req) ==
    LET scores == Score(req, state.text)
    IN CASE state.reply.error # "none" -> state.reply
         [] state.reply.error = "none" /\ "complexity" \in req.steps /\ scores = None -> failed(state, req, "complexity").reply
         [] OTHER -> [state.reply EXCEPT !.output = state.text, !.complexity = IF "complexity" \in req.steps THEN scores ELSE None]

Process(req) ==
    Finish(FoldLeft(LAMBDA state, name : Step(state, req, name), Start(req), <<"spacing", "gofmt", "goimports">>), req)
==============================================================================
