--------------------------- MODULE RoundExercises ---------------------------
(***************************************************************************)
(* The experiments around the round graph and what each concludes:         *)
(* probe.py (exercise), which runs the cases of SPECS through the          *)
(* library's adapter and through the round graph;                          *)
(* process_restart_probe.py, which asks in one process and answers in the  *)
(* next one; and langchain-elicitation-identity/reproduce.py (observe),    *)
(* which came first and asks what the adapter does with an answer when a   *)
(* repeated call is worded differently.  A thread runs one case.           *)
(*                                                                         *)
(* The adapter is the library's; it keeps no round: when its node is       *)
(* resumed it makes its calls again, the first one included.               *)
(*                                                                         *)
(* rows is a history: the row that an experiment keeps of a case.  The     *)
(* experiment ends it with the first exception or the result.  A client    *)
(* that recovers later, which PreviewRounds has, is no part of it.         *)
(***************************************************************************)
EXTENDS PreviewRounds

ASSUME ExerciseAssumption ==
    /\ NoToken \notin RequestStates({"process-A"})
    /\ None # [isError |-> TRUE, text |-> "mismatch", subject |-> None]

VARIABLES
    path,   \* thread -> what drives its case
    rows    \* thread -> the row of its case

exerciseVars == <<ckpt, run, shown, consent, aborts, requests, inbox,
                  SPECS, sequence, issued, completed, path, rows>>

\* The paths of observe: the adapter with a plain answer, or with one that
\* names the subject it is for (bound_answer), and a session without either.
IdentityPaths == {"identity_adapter", "bound_adapter", "direct_session"}
AdapterPaths == {"original_adapter", "identity_adapter", "bound_adapter"}
Paths == IdentityPaths \cup
         {"original_adapter", "checkpointed_round_graph", "process_restart"}

NewRow ==
    [outcome |-> "open", status |-> "none", calls |-> <<>>, shown |-> <<>>,
     answers |-> <<>>, log |-> <<>>, completed |-> <<>>]

Spec1(fresh, drift, error, rounds) ==
    [fresh |-> fresh, drift |-> drift, error |-> error, rounds |-> rounds]

ExerciseInit ==
    /\ Init
    /\ path \in [Threads -> Paths]
    /\ rows = [t \in Threads |-> NewRow]
    /\ \A t \in Threads :
           /\ path[t] \in AdapterPaths =>
                  SPECS[t].rounds = 1 /\ ~ SPECS[t].error
           /\ path[t] \in {"bound_adapter", "direct_session"} =>
                  SPECS[t] = Spec1(FALSE, TRUE, FALSE, 1)
           /\ path[t] = "process_restart" =>
                  SPECS[t] = Spec1(FALSE, FALSE, FALSE, 1)
-----------------------------------------------------------------------------
\* What a thread has recorded so far.
Own(t) == {i \in DOMAIN completed : completed[i].case = t}
Subjects(t) ==
    LET nth(n) == CHOOSE i \in Own(t) : Cardinality({j \in Own(t) : j <= i}) = n
    IN  [n \in 1 .. Cardinality(Own(t)) |-> completed[nth(n)].subject]

\* Rows that are over are kept as they are.
Note(t, row) ==
    rows' = IF rows[t].outcome = "open" THEN [rows EXCEPT ![t] = row] ELSE rows
Over(t, outcome) ==
    [rows[t] EXCEPT !.outcome = outcome, !.status = ckpt'[t].status,
                    !.completed = Subjects(t)]
Log(t, phase, subject) ==
    [rows[t] EXCEPT !.log = Append(@, [phase |-> phase, subject |-> subject])]

\* SessionRecorder: the row has the call before it is sent, and the state that
\* came back when it is there.
Called(t, tok, answers) ==
    [rows[t] EXCEPT !.calls =
        Append(@, [state |-> tok, answers |-> answers, received |-> NoToken])]
CallReturned(t) ==
    [rows[t] EXCEPT !.calls[Len(rows[t].calls)].received = inbox[t].token]
-----------------------------------------------------------------------------
(* The round graph, driven by exercise or by the two processes.  These have *)
(* no second try: what fails in them ends the experiment.                   *)

Driven(t) ==
    /\ path[t] \in {"checkpointed_round_graph", "process_restart"}
    /\ path[t] = "process_restart" => rows[t].outcome = "open"

\* Once; from then on a form is answered.  Recovery may invoke again.
GraphInvokes(t) ==
    /\ Driven(t) /\ Invoke(t)
    /\ rows[t].outcome = "open" => rows[t].shown = <<>>
    /\ UNCHANGED rows

GraphCalls(t) ==
    /\ Driven(t) /\ (BeginCall(t) \/ ContinueCall(t))
    /\ Note(t, Called(t, ckpt[t].frame.token, ckpt[t].answers))

GraphReceives(t) ==
    /\ Driven(t) /\ (BeginReturns(t) \/ ContinueReturns(t))
    /\ Note(t, CallReturned(t))

\* exercise asserts that a form is about draft-A before it keeps it.
GraphShows(t) ==
    /\ Driven(t) /\ Review(t)
    /\ Note(t, IF path[t] = "checkpointed_round_graph"
                  /\ ckpt[t].frame.form.subject # "draft-A"
               THEN Over(t, "raised")
               ELSE [rows[t] EXCEPT !.shown = Append(@, ckpt[t].frame.form)])

GraphResumes(t) ==
    /\ Driven(t) /\ Resume(t)
    /\ Note(t, [rows[t] EXCEPT !.answers = Append(@, consent'[t].answers)])

\* validate_answers raises; ANSWER_KEYS_DIFFER is told from the rest.
GraphRefuses(t) ==
    /\ Driven(t) /\ rows[t].outcome = "open"
    /\ run[t] = "stopped" /\ ckpt[t].next = "review" /\ WithinLimit(t)
    /\ shown[t] = ckpt[t].frame.form
    /\ \E answers \in Resumes :
           /\ ~ ValidAnswers(shown[t].keys, answers)
           /\ ckpt' = ckpt
           /\ Note(t, Over(t, IF DOMAIN answers # shown[t].keys
                              THEN "keys_differ" ELSE "raised"))
    /\ UNCHANGED <<run, shown, consent, aborts, requests, inbox>>

GraphReturns(t) ==
    Driven(t) /\ Finish(t) /\ Note(t, Over(t, "returned"))

\* A row says "raised" of a lost call as of the limit; here they differ.
GraphRaises(t) ==
    /\ Driven(t)
    /\ \/ RoundLimit(t) /\ Note(t, Over(t, "raised"))
       \/ Abort(t) /\ Note(t, Over(t, "failed"))

ExerciseClient(t) ==
    \/ GraphInvokes(t) \/ GraphCalls(t) \/ GraphReceives(t) \/ GraphShows(t)
    \/ GraphResumes(t) \/ GraphRefuses(t) \/ GraphReturns(t) \/ GraphRaises(t)
-----------------------------------------------------------------------------
(* The library's adapter around one call of a tool.  The checkpoint has the *)
(* answer (answers) with the node that is to run again (begin).             *)

Adapted(t) == path[t] \in AdapterPaths /\ rows[t].outcome = "open"

AdapterInvokes(t) ==
    /\ Adapted(t) /\ shown[t] = NoForm
    /\ Invoke(t) /\ UNCHANGED rows

AdapterCalls(t) ==
    /\ Adapted(t) /\ BeginCall(t) /\ UNCHANGED rows

\* The question interrupts a node that was not resumed.
AdapterShows(t) ==
    /\ Adapted(t) /\ run[t] = "calling" /\ inbox[t].kind = "input"
    /\ ckpt[t].answers = NoAnswers
    /\ shown' = [shown EXCEPT ![t] = inbox[t].form]
    /\ run' = [run EXCEPT ![t] = "stopped"]
    /\ inbox' = [inbox EXCEPT ![t] = NoFrame]
    /\ Note(t, [rows[t] EXCEPT !.shown = <<inbox[t].form>>])
    /\ UNCHANGED <<ckpt, consent, aborts, requests>>

\* An answer for the key that was shown; a case of observe declines.
Submitted(t, k) ==
    {Sole(k, "accept", "yes")} \cup
    {a \in {Sole(k, "decline", "none")} : path[t] = "identity_adapter"}

\* Command(resume=answer).
AdapterResumes(t) ==
    /\ Adapted(t) /\ run[t] = "stopped" /\ shown[t] # NoForm
    /\ \E k \in shown[t].keys : \E answers \in Submitted(t, k) :
           ckpt' = [ckpt EXCEPT ![t].answers = answers]
    /\ run' = [run EXCEPT ![t] = "running"]
    /\ Note(t, [rows[t] EXCEPT !.answers = <<ckpt'[t].answers>>])
    /\ UNCHANGED <<shown, consent, aborts, requests, inbox>>

\* The resumed node has the answer for the question of its repeated call.
AdapterAnswers(t) ==
    /\ Adapted(t) /\ run[t] = "calling" /\ inbox[t].kind = "input"
    /\ ckpt[t].answers # NoAnswers
    /\ inbox' = [inbox EXCEPT ![t] = NoFrame]
    /\ IF DOMAIN ckpt[t].answers = inbox[t].form.keys
       THEN /\ requests' = requests \cup
                   {[thread |-> t, attempt |-> aborts[t],
                     token |-> inbox[t].token, answers |-> ckpt[t].answers]}
            /\ UNCHANGED <<run, ckpt, rows>>
       ELSE /\ run' = [run EXCEPT ![t] = "stopped"]
            /\ UNCHANGED <<requests, ckpt>>
            /\ Note(t, Over(t, "raised"))
    /\ UNCHANGED <<shown, consent, aborts>>

\* The last frame of a call is the end of the case.
CallEnds(t, outcome) ==
    /\ run[t] = "calling" /\ inbox[t].kind = "terminal"
    /\ ckpt' = [ckpt EXCEPT ![t].next = "end", ![t].result = inbox[t].result,
                            ![t].status = IF inbox[t].result.isError
                                          THEN "tool_error" ELSE "completed"]
    /\ run' = [run EXCEPT ![t] = "stopped"]
    /\ inbox' = [inbox EXCEPT ![t] = NoFrame]
    /\ Note(t, Over(t, outcome))
    /\ UNCHANGED <<shown, consent, aborts, requests>>

AdapterReturns(t) == Adapted(t) /\ CallEnds(t, "returned")

AdapterRaises(t) == Adapted(t) /\ Abort(t) /\ Note(t, Over(t, "failed"))

Adapter(t) ==
    \/ AdapterInvokes(t) \/ AdapterCalls(t) \/ AdapterShows(t)
    \/ AdapterResumes(t) \/ AdapterAnswers(t) \/ AdapterReturns(t)
    \/ AdapterRaises(t)
-----------------------------------------------------------------------------
(* The control of observe: the same session, without adapter and graph.     *)

Direct(t) == path[t] = "direct_session" /\ rows[t].outcome = "open"

DirectCalls(t) ==
    Direct(t) /\ (Invoke(t) \/ BeginCall(t)) /\ UNCHANGED rows

\* The answer goes back with the state that came with the question.
DirectAnswers(t) ==
    /\ Direct(t) /\ run[t] = "calling" /\ inbox[t].kind = "input"
    /\ \E k \in inbox[t].form.keys :
           /\ requests' = requests \cup
                  {[thread |-> t, attempt |-> aborts[t],
                    token |-> inbox[t].token,
                    answers |-> Sole(k, "accept", "yes")]}
           /\ Note(t, [rows[t] EXCEPT !.shown = <<inbox[t].form>>,
                           !.answers = <<Sole(k, "accept", "yes")>>])
    /\ shown' = [shown EXCEPT ![t] = inbox[t].form]
    /\ inbox' = [inbox EXCEPT ![t] = NoFrame]
    /\ UNCHANGED <<ckpt, run, consent, aborts>>

\* not result.is_error is asserted of the result.
DirectReturns(t) ==
    /\ Direct(t)
    /\ CallEnds(t, IF inbox[t].result.isError THEN "raised" ELSE "returned")

DirectRaises(t) == Direct(t) /\ Abort(t) /\ Note(t, Over(t, "failed"))

DirectSession(t) ==
    DirectCalls(t) \/ DirectAnswers(t) \/ DirectReturns(t) \/ DirectRaises(t)
-----------------------------------------------------------------------------
(* The servers: the probe's, with its log, and the doubles of the restart   *)
(* probe, whose assertions are the error that a lost call is.               *)

ServeLogged(request) ==
    LET t == request.thread
    IN  /\ path[t] \in {"original_adapter", "checkpointed_round_graph"}
        /\ \/ ServeInitial(request) /\ Note(t, Log(t, "initial",
                 IF SPECS[t].drift /\ sequence[t] > 0 THEN "draft-B"
                 ELSE "draft-A"))
           \/ /\ \/ ServeRefusal(request) \/ ServeNextRound(request)
                 \/ ServePreview(request)
              /\ Note(t, Log(t, "resume", request.token.subject))
        /\ UNCHANGED path

\* The server of observe, whose one form has confirm or confirm-{number} for
\* its key.  A bound answer names the subject that was shown.
BoundElsewhere(t, state) ==
    path[t] = "bound_adapter" /\ shown[t].subject # state.subject

IdentityAsks(request) ==
    LET t == request.thread
    IN  /\ path[t] \in IdentityPaths
        /\ ServeInitial(request)
        /\ Note(t, Log(t, "initial",
                 IF SPECS[t].drift /\ sequence[t] > 0 THEN "draft-B"
                 ELSE "draft-A"))
        /\ UNCHANGED path

IdentityAnswers(request) ==
    LET t == request.thread
        state == request.token
    IN  /\ path[t] \in IdentityPaths /\ state # NoToken
        /\ \/ ServeRefusal(request)
           \/ ~ BoundElsewhere(t, state) /\ ServePreview(request)
           \/ /\ state \in issued /\ AcceptedBy(state, request.answers)
              /\ BoundElsewhere(t, state)
              /\ Deliver(request, Text(TRUE, "mismatch", None))
              /\ UNCHANGED serverVars
        /\ Note(t, Log(t, "resume", state.subject))
        /\ UNCHANGED path

TOKEN(t) == [case |-> t, round |-> 1, serial |-> 0, subject |-> "process-A"]
RestartForm == [keys |-> {<<0, 0>>}, subject |-> "process-A"]

\* PhaseOneSession: process A, which has shown nothing yet.
PhaseOneCall(request) ==
    LET t == request.thread
    IN  /\ path[t] = "process_restart" /\ rows[t].shown = <<>>
        /\ request.token = NoToken
        /\ Deliver(request, InputFrame(TOKEN(t), RestartForm))
        /\ Note(t, Log(t, "initial", "process-A"))
        /\ UNCHANGED <<serverVars, path>>

\* PhaseTwoSession: process B takes the one answer, and no initial call.
PhaseTwoCall(request) ==
    LET t == request.thread
    IN  /\ path[t] = "process_restart" /\ rows[t].shown # <<>>
        /\ request.token = TOKEN(t)
        /\ request.answers = Sole(<<0, 0>>, "accept", "yes")
        /\ Deliver(request, Text(FALSE, "completed-from-process-B", None))
        /\ Note(t, Log(t, "resume", "process-A"))
        /\ UNCHANGED <<serverVars, path>>

LoseCall(request) ==
    /\ Lose(request)
    /\ IF Awaited(request)
       THEN ckpt' = ckpt /\ Note(request.thread, Over(request.thread, "failed"))
       ELSE UNCHANGED rows
    /\ UNCHANGED <<serverVars, path>>

\* Every case is over, and so is what recovered after its end.
ExerciseDone ==
    /\ \A t \in Threads :
           IF path[t] = "checkpointed_round_graph" THEN ckpt[t].next = "end"
           ELSE rows[t].outcome # "open"
    /\ requests = {}
    /\ UNCHANGED exerciseVars

ExerciseNext ==
    \/ \E t \in Threads : ExerciseClient(t) /\ UNCHANGED <<serverVars, path>>
    \/ \E t \in Threads : Adapter(t) /\ UNCHANGED <<serverVars, path>>
    \/ \E t \in Threads : DirectSession(t) /\ UNCHANGED <<serverVars, path>>
    \/ \E request \in requests : ServeLogged(request)
    \/ \E request \in requests : IdentityAsks(request)
    \/ \E request \in requests : IdentityAnswers(request)
    \/ \E request \in requests : PhaseOneCall(request)
    \/ \E request \in requests : PhaseTwoCall(request)
    \/ \E request \in requests : LoseCall(request)
    \/ ExerciseDone

ExerciseSpec == ExerciseInit /\ [][ExerciseNext]_exerciseVars
-----------------------------------------------------------------------------
(* What the experiments conclude.                                           *)

\* The entries of SPECS, with what drives each, the restart, and the entries
\* of CASE_SPEC.
Case(p, spec, decision) == [path |-> p, spec |-> spec, decision |-> decision]
Graph(spec, decision) == Case("checkpointed_round_graph", spec, decision)
CASES ==
    [baseline_stable |-> Case("original_adapter",
                              Spec1(FALSE, TRUE, FALSE, 1), "accept"),
     baseline_fresh |-> Case("original_adapter",
                             Spec1(TRUE, TRUE, FALSE, 1), "accept"),
     saved_same |-> Graph(Spec1(FALSE, FALSE, FALSE, 1), "accept"),
     saved_stable |-> Graph(Spec1(FALSE, TRUE, FALSE, 1), "accept"),
     saved_fresh |-> Graph(Spec1(TRUE, TRUE, FALSE, 1), "accept"),
     saved_two_rounds |-> Graph(Spec1(TRUE, TRUE, FALSE, 2), "accept"),
     saved_decline |-> Graph(Spec1(FALSE, TRUE, FALSE, 1), "decline"),
     saved_cancel |-> Graph(Spec1(FALSE, TRUE, FALSE, 1), "cancel"),
     saved_wrong_key |-> Graph(Spec1(FALSE, TRUE, FALSE, 1), "wrong_key"),
     saved_error |-> Graph(Spec1(FALSE, TRUE, TRUE, 1), "accept"),
     restart |-> Case("process_restart",
                      Spec1(FALSE, FALSE, FALSE, 1), "accept"),
     stable_same |-> Case("identity_adapter",
                          Spec1(FALSE, FALSE, FALSE, 1), "accept"),
     stable_changed |-> Case("identity_adapter",
                             Spec1(FALSE, TRUE, FALSE, 1), "accept"),
     fresh_changed |-> Case("identity_adapter",
                            Spec1(TRUE, TRUE, FALSE, 1), "accept"),
     stable_changed_bound |-> Case("bound_adapter",
                                   Spec1(FALSE, TRUE, FALSE, 1), "accept"),
     stable_changed_decline |-> Case("identity_adapter",
                                     Spec1(FALSE, TRUE, FALSE, 1), "decline"),
     direct_original_state |-> Case("direct_session",
                                    Spec1(FALSE, TRUE, FALSE, 1), "accept")]
Saved == {"saved_same", "saved_stable", "saved_fresh", "saved_two_rounds"}

IsOf(t, case) == path[t] = CASES[case].path /\ SPECS[t] = CASES[case].spec

Phases(r) == [i \in DOMAIN r.log |-> r.log[i].phase]

\* What exercise asserts of a row of the round graph, whichever its case.
RowHolds(r) ==
    /\ Cardinality({i \in DOMAIN r.log : r.log[i].phase = "initial"}) = 1
    /\ Len(r.calls) = Len(r.log)
    /\ \A i \in 1 .. Len(r.calls) - 1 :
           r.calls[i + 1].state = r.calls[i].received

\* What process A asserts of the frame it leaves, process B of that and of its
\* result, and orchestrate of the calls that the two have kept.
SavedByA(t) ==
    /\ rows[t].shown = <<RestartForm>>
    /\ rows[t].calls[1].received = TOKEN(t)
CompletedByB(t) ==
    /\ consent[t].frame = InputFrame(TOKEN(t), RestartForm)
    /\ rows[t].status = "completed"
    /\ ckpt[t].result.text = "completed-from-process-B"
RestartVerified(t) ==
    /\ SavedByA(t) /\ CompletedByB(t)
    /\ Phases(rows[t]) = <<"initial", "resume">>

\* What observe asserts of the row of a case in the end.
IdentityVerified(t, case) ==
    LET r == rows[t]
    IN  /\ r.completed = CASE case = "stable_changed" -> <<"draft-B">>
                           [] case \in {"stable_same", "direct_original_state"}
                              -> <<"draft-A">>
                           [] OTHER -> <<>>
        /\ case = "stable_changed" => r.status = "completed"
        /\ case = "fresh_changed" => r.outcome = "raised"
        /\ case = "stable_changed_bound" =>
               ckpt[t].result # None /\ ckpt[t].result.text = "mismatch"
        /\ case = "direct_original_state" =>
               r.outcome = "returned" /\ Phases(r) = <<"initial", "resume">>

\* What is asserted of the row of a case.
Verified(t, case) ==
    LET r == rows[t]
    IN  /\ r.outcome # "open"
        /\ path[t] = "checkpointed_round_graph" => RowHolds(r)
        /\ case \in Saved =>
               /\ r.completed = <<"draft-A">> /\ r.status = "completed"
               /\ \A i \in DOMAIN r.log : r.log[i].subject = "draft-A"
        /\ case = "saved_two_rounds" => Len(r.shown) = 2
        /\ CASE case = "baseline_stable" ->
                    r.completed = <<"draft-B">> /\ r.status = "completed"
             [] case = "baseline_fresh" ->
                    /\ r.outcome \in {"raised", "keys_differ", "failed"}
                    /\ r.completed = <<>>
             [] case = "saved_error" ->
                    r.completed = <<>> /\ r.status = "tool_error"
             [] case = "saved_wrong_key" ->
                    /\ r.completed = <<>> /\ Len(r.calls) = 1
                    /\ r.outcome = "keys_differ"
             [] case = "restart" -> RestartVerified(t)
             [] case \in {"saved_decline", "saved_cancel"} ->
                    r.completed = <<>>
             [] path[t] \in IdentityPaths -> IdentityVerified(t, case)
             [] OTHER -> TRUE

\* The case was driven as its entry says, and no call was lost on the way.
Drove(t, case) ==
    LET r == rows[t]
        decision == CASES[case].decision
    IN  IF decision = "wrong_key" THEN r.outcome = "keys_differ"
        ELSE /\ r.outcome = IF case \in {"baseline_fresh", "fresh_changed"}
                            THEN "raised" ELSE "returned"
             /\ Len(r.answers) = SPECS[t].rounds
             /\ \A i \in DOMAIN r.answers :
                    r.answers[i] = Sole(CHOOSE k \in r.shown[i].keys : TRUE,
                        decision,
                        IF decision = "accept" THEN "yes" ELSE "none")

\* The cases whose assertions hold of nothing else.  Of a declined, cancelled
\* or failing case they only ask that it recorded nothing, which a lost call
\* brings about, too; of stable_same, that it recorded its draft, which it has
\* also when the reply is lost; and fresh_changed raises whatever the answer.
Conclusive ==
    Saved \cup {"baseline_stable", "saved_wrong_key", "restart",
                "stable_changed", "stable_changed_bound", "direct_original_state"}

\* The experiments tell the truth: of a case that was driven as planned every
\* assertion holds, whatever the round graph and the adapter did in between,
\* and the cases that show what is kept and what is not are verified of no
\* other history of answers, losses and failures.
ExercisesAreTrue ==
    \A t \in Threads : \A case \in DOMAIN CASES :
        IsOf(t, case) =>
            /\ Drove(t, case) => Verified(t, case)
            /\ case \in Conclusive => (Verified(t, case) => Drove(t, case))

\* A recorded preview is of the subject its reviewer was shown, whatever a
\* repeated initial call would have been worded as, also when the client
\* recovers from crashes; the adapter's is that of the repeated call, exactly
\* when the server words that differently, and only if its keys stay; an answer
\* that names its subject, or goes back with its state, is never for another.
SubjectsAreExplained ==
    \A i \in DOMAIN completed :
        LET t == completed[i].case
        IN  CASE path[t] \in {"original_adapter", "identity_adapter"} ->
                 /\ ~ SPECS[t].fresh
                 /\ (completed[i].subject # shown[t].subject) <=> SPECS[t].drift
            [] path[t] \in {"bound_adapter", "direct_session"} ->
                 completed[i].subject = shown[t].subject
            [] OTHER -> /\ consent[t].form.subject = completed[i].subject
                 /\ consent[t].frame.token.round = SPECS[t].rounds
=============================================================================
