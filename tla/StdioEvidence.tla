---------------------------- MODULE StdioEvidence ----------------------------
(***************************************************************************)
(* What the stdio restart fixture leaves behind, and who believes it: the  *)
(* records of the two client processes (Recorder, client_phase) and of the *)
(* server (serve, emit), the check the probe makes of them                 *)
(* (stdio_restart_probe.py, check_case), and the one a reader makes of the *)
(* retained copy without running anything                                  *)
(* (contributions/stdio-evidence-capsule/verify.py, verify_case).          *)
(*                                                                         *)
(* wire and served are histories: every step is one of StdioRestart.  The  *)
(* first process shows the question and exits, the second one answers it;  *)
(* a client that is cut short leaves no record and its run no verdict      *)
(* (subprocess.run(check=True)), so the histories end there.  They keep    *)
(* one call more than any case has.                                        *)
(***************************************************************************)
EXTENDS StdioRestart, SequencesExt

VARIABLES
    wire,   \* thread -> the calls its clients made, with their replies
    served  \* thread -> the server's log of these calls

evidenceVars == <<ckpt, run, shown, consent, aborts, requests, inbox,
                  rounds, effects, used, stores, replayed, wire, served>>

EvidenceCases ==
    {"preserved", "lost_server_state", "replayed_initial", "declined"}
MaxCalls == 4

EvidenceInit ==
    /\ RestartInit
    /\ wire = [t \in Threads |-> <<>>] /\ served = [t \in Threads |-> <<>>]

\* The log of thread t after row, and after a client that did not return 0.
Kept(log, t, row) ==
    [log EXCEPT ![t] = IF aborts'[t] > 0 THEN <<>>
                       ELSE IF Len(@) = MaxCalls THEN @ ELSE Append(@, row)]
Cut(log) == [t \in Threads |-> IF aborts'[t] > 0 THEN <<>> ELSE log[t]]

Row(state, answers, result) ==
    [state |-> state, answers |-> answers, result |-> result]

\* Recorder.call_tool: the row has its result when the reply is there.
Recorded(t) ==
    /\ BeginReturns(t) \/ ContinueReturns(t)
    /\ wire' = Kept(wire, t, Row(ckpt[t].frame.token, ckpt[t].answers,
                                 inbox[t]))
    /\ UNCHANGED <<served, storeVars>>

Unrecorded(t) ==
    /\ \/ Invoke(t) \/ BeginCall(t) \/ ContinueCall(t)
       \/ Review(t) \/ RoundLimit(t) \/ Resume(t) \/ Finish(t) \/ Abort(t)
    /\ wire' = Cut(wire) /\ served' = Cut(served)
    /\ UNCHANGED storeVars

\* emit: the request, the result to be returned, and a snapshot.  store, which
\* of its databases the server had open, is known to nobody who checks.
Emitted(t, state, answers, result) ==
    served' = Kept(served, t,
        [state |-> state, answers |-> answers, result |-> result,
         rounds |-> rounds', effects |-> effects', store |-> stores'])

Asked == InputFrame(rounds'[Len(rounds')].token, Form(Len(rounds')))
Answered(tok, answers) == TerminalFrame(Outcome(tok, answers))

EmitInitial(request) ==
    /\ ServeIssue(request)
    /\ Emitted(request.thread, NoToken, request.answers, Asked)
    /\ UNCHANGED wire

EmitContinuation(request) ==
    /\ ServeContinuation(request)
    /\ Emitted(request.thread, request.token, request.answers,
               Answered(request.token, request.answers))
    /\ UNCHANGED wire

\* client_phase, replayed_initial: past the graph, through the same recorder.
RecordReplayInitial(t) ==
    /\ ReplayInitial(t)
    /\ Emitted(t, NoToken, NoAnswers, Asked)
    /\ wire' = Kept(wire, t, Row(NoToken, NoAnswers, Asked))

RecordReplayAnswer(t, answers) ==
    /\ ReplayAnswer(t, answers)
    /\ Emitted(t, replayed[t], answers, Answered(replayed[t], answers))
    /\ wire' = Kept(wire, t, Row(replayed[t], answers,
                                 Answered(replayed[t], answers)))

EvidenceNext ==
    \/ \E t \in Threads : Recorded(t)
    \/ \E t \in Threads : Unrecorded(t)
    \/ \E request \in requests : EmitInitial(request)
    \/ \E request \in requests : EmitContinuation(request)
    \/ \E request \in requests :
           /\ Lose(request) /\ UNCHANGED storeVars
           /\ wire' = Cut(wire) /\ served' = Cut(served)
    \/ StartEmpty /\ UNCHANGED <<wire, served>>
    \/ \E t \in Threads : RecordReplayInitial(t)
    \/ \E t \in Threads : \E answers \in Resumes :
           RecordReplayAnswer(t, answers)
    \/ RestartDone /\ UNCHANGED <<wire, served>>

EvidenceSpec == EvidenceInit /\ [][EvidenceNext]_evidenceVars
-----------------------------------------------------------------------------
\* client_phase writes its file at its end: the graph's, or the replay's.
GraphEnded(t) == ckpt[t].next = "end"
ReplayEnded(t) ==
    /\ ckpt[t].next = "review" /\ run[t] = "stopped"
    /\ Len(wire[t]) = 3 /\ wire[t][3].state # NoToken
Returned(t) == aborts[t] = 0 /\ (GraphEnded(t) \/ ReplayEnded(t))

Decision(case) == IF case = "declined" THEN Sole(KEY, "decline", "none")
                  ELSE Sole(KEY, "accept", "yes")

\* What the second client's file says of its end.
Supplied(t) == IF GraphEnded(t) THEN consent[t].answers
               ELSE Last(wire[t]).answers
Result(t) == IF GraphEnded(t) THEN ckpt[t].result
             ELSE Last(wire[t]).result.result
Status(t) == IF GraphEnded(t) THEN ckpt[t].status ELSE "naive_control_returned"
Reopened(t) == IF GraphEnded(t) THEN consent[t].frame ELSE ckpt[t].frame

ToolText(text, isError, subject) ==
    [isError |-> isError, text |-> text, subject |-> subject]
Expected(case) ==
    CASE case = "preserved" -> ToolText("previewed", FALSE, 1)
      [] case = "lost_server_state" -> ToolText("UNKNOWN_ROUND", TRUE, None)
      [] case = "replayed_initial" -> ToolText("previewed", FALSE, 2)
      [] case = "declined" -> ToolText("skipped", FALSE, None)

\* compare_results and the comparison of the requests, zip(strict=True).
SameCalls(t) ==
    /\ Len(wire[t]) = Len(served[t])
    /\ \A i \in DOMAIN wire[t] :
           wire[t][i] = Row(served[t][i].state, served[t][i].answers,
                            served[t][i].result)

\* check_case: what the probe asserts of the records of a case.
CheckCase(t, case) ==
    LET w == wire[t]
        token == w[1].result.token
        labels == Last(served[t]).effects
    IN  /\ Returned(t) /\ Supplied(t) = Decision(case)
        /\ SameCalls(t)
        /\ w[1].state = NoToken /\ w[1].result = Reopened(t)
        /\ Result(t) = Expected(case)
        /\ IF case = "replayed_initial"
           THEN /\ Len(w) = 3 /\ w[2].state = NoToken
                /\ w[3].state # token /\ w[3].state = w[2].result.token
                /\ shown[t].subject = 1 /\ w[2].result.form.subject = 2
                /\ Cardinality(labels) = 1
                /\ \A e \in labels : e.subject = 2
           ELSE /\ Len(w) = 2 /\ w[2].state = token
                /\ w[2].answers = Supplied(t)
                /\ Status(t) = IF Result(t).isError THEN "tool_error"
                               ELSE "completed"
                /\ Cardinality(labels) = IF case = "preserved" THEN 1 ELSE 0
                /\ labels \subseteq {[token |-> token, subject |-> 1]}

\* verify_case, expected_snapshot: the tables at the end.
ExpectedStore(case, token, new) ==
    LET row(tok, status) == [token |-> tok, status |-> status]
    IN  CASE case = "preserved" ->
               [rounds |-> <<row(token, "accept")>>,
                effects |-> {[token |-> token, subject |-> 1]}]
          [] case = "lost_server_state" -> [rounds |-> <<>>, effects |-> {}]
          [] case = "declined" ->
               [rounds |-> <<row(token, "decline")>>, effects |-> {}]
          [] case = "replayed_initial" ->
               [rounds |-> <<row(token, "pending"), row(new, "accept")>>,
                effects |-> {[token |-> new, subject |-> 2]}]

\* verify_case: what a reader of the retained records asks of them.
VerifyCase(t, case) ==
    LET w == wire[t]
        s == served[t]
        token == w[1].result.token
        final == Last(s)
        replay == case = "replayed_initial"
    IN  /\ Returned(t)
        /\ Len(w) = IF replay THEN 3 ELSE 2
        /\ w[1].result = Reopened(t)
        /\ w[1] = Row(NoToken, NoAnswers, InputFrame(token, Form(1)))
        /\ shown[t] = Form(1)
        /\ Supplied(t) = Decision(case) /\ Last(w).answers = Decision(case)
        /\ Last(w).result = TerminalFrame(Result(t))
        /\ SameCalls(t)
        /\ s[1].rounds = <<[token |-> token, status |-> "pending"]>>
        /\ s[1].effects = {}
        /\ IF replay
           THEN /\ w[2].result.token # token
                /\ w[2] = Row(NoToken, NoAnswers,
                              InputFrame(w[2].result.token, Form(2)))
                /\ w[3].state = w[2].result.token
           ELSE w[2].state = token
        /\ [rounds |-> final.rounds, effects |-> final.effects] =
               ExpectedStore(case, token, w[2].result.token)
        /\ Result(t) = Expected(case)
        /\ Status(t) = IF replay THEN "naive_control_returned"
                       ELSE IF Expected(case).isError THEN "tool_error"
                       ELSE "completed"
-----------------------------------------------------------------------------
\* What was done, which the records do not say: which stores the server had
\* open, and whether the wrong application had its turn.
Did(t, case) ==
    LET stores_ == {served[t][i].store : i \in DOMAIN served[t]}
    IN  /\ Returned(t) /\ Supplied(t) = Decision(case)
        /\ Cardinality(stores_) = IF case = "lost_server_state" THEN 2 ELSE 1
        /\ IF case = "replayed_initial" THEN ReplayEnded(t)
           ELSE GraphEnded(t) /\ replayed[t] = NoToken

\* Both checks accept the records of a case exactly when the case is what was
\* done: no other history of restarts, replays and answers passes for it, and
\* none of its own is rejected - although a store that was replaced early
\* enough, and a question that was replaced and never answered, are in nobody's
\* record.
VerdictsAreTrue ==
    \A t \in Threads : \A case \in EvidenceCases :
        /\ CheckCase(t, case) <=> Did(t, case)
        /\ VerifyCase(t, case) <=> Did(t, case)
=============================================================================
