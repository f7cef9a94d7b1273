----------------------------- MODULE RoundGraph -----------------------------
(***************************************************************************)
(* The client of a multi-round MCP tool call:                              *)
(* contributions/preserved-mcp-rounds/round_graph.py, build_round_graph.   *)
(* Each thread runs the graph                                              *)
(*                                                                         *)
(*     begin -> review -> continue_original_round -> (review | finish)     *)
(*                                                                         *)
(* and checkpoints what a node returned before the next node starts        *)
(* (durability='sync').  The checkpoint survives the process; everything   *)
(* else - the running invocation, the call it awaits, a reply that was     *)
(* received and not yet checkpointed - is lost when the process dies.      *)
(*                                                                         *)
(* The module knows nothing of the server.  A composition takes requests   *)
(* from the channel and answers them with Deliver.                         *)
(***************************************************************************)
EXTENDS Forms, Naturals

CONSTANTS
    Threads,        \* LangGraph thread ids, one operation each
    NoToken,        \* request_state of an initial call
    Resumes,        \* the answer maps a reviewer may supply
    MaxRounds,      \* max_rounds of build_round_graph
    MaxAborts,      \* bound on how often a thread's invocation is cut short
    BlindResume     \* may the caller resend a resume it is unsure about?

VARIABLES
    ckpt,       \* thread -> its last checkpoint
    run,        \* thread -> what its process is doing
    shown,      \* thread -> the form its reviewer was shown last
    consent,    \* thread -> the last checkpoint with status answered, and the
                \* form the reviewer had been shown (history only)
    aborts,     \* thread -> how often an invocation was cut short
    requests,   \* calls sent and not yet handled
    inbox       \* thread -> the reply its awaited call received

clientVars == <<ckpt, run, shown, consent, aborts, requests, inbox>>

NoForm == [keys |-> {}, subject |-> None]

\* pack_result: an InputRequiredResult or a CallToolResult.
InputFrame(tok, form) ==
    [kind |-> "input", token |-> tok, form |-> form, result |-> None]
TerminalFrame(result) ==
    [kind |-> "terminal", token |-> NoToken, form |-> NoForm,
     result |-> result]
NoFrame == [kind |-> "none", token |-> NoToken, form |-> NoForm,
            result |-> None]

NewThread ==
    [next |-> "begin", status |-> "new", roundIndex |-> 0, frame |-> NoFrame,
     answers |-> NoAnswers, result |-> None]
NoConsent == [form |-> NoForm, frame |-> NoFrame, answers |-> NoAnswers]

ClientInit ==
    /\ ckpt = [t \in Threads |-> NewThread]
    /\ run = [t \in Threads |-> "stopped"]
    /\ shown = [t \in Threads |-> NoForm]
    /\ consent = [t \in Threads |-> NoConsent]
    /\ aborts = [t \in Threads |-> 0]
    /\ requests = {}
    /\ inbox = [t \in Threads |-> NoFrame]

\* The types, given the tokens, subjects and results of the server.
Frames(tokens, subjects, results) ==
    [kind : {"none", "input", "terminal"}, token : tokens \cup {NoToken},
     form : [keys : SUBSET Keys, subject : subjects \cup {None}],
     result : results \cup {None}]
Checkpoints(tokens, subjects, results) ==
    [next : {"begin", "review", "continue", "finish", "end"},
     status : {"new", "received", "answered", "completed", "tool_error"},
     roundIndex : Nat, frame : Frames(tokens, subjects, results),
     answers : AnswerMaps, result : results \cup {None}]
ClientTypeOK(tokens, subjects, results) ==
    /\ ckpt \in [Threads -> Checkpoints(tokens, subjects, results)]
    /\ run \in [Threads -> {"stopped", "running", "calling"}]
    /\ shown \in [Threads -> [keys : SUBSET Keys,
                              subject : subjects \cup {None}]]
    /\ consent \in [Threads ->
           [form : [keys : SUBSET Keys, subject : subjects \cup {None}],
            frame : Frames(tokens, subjects, results),
            answers : AnswerMaps]]
    /\ aborts \in [Threads -> Nat]
    /\ requests \subseteq [thread : Threads, attempt : Nat,
                           token : tokens \cup {NoToken},
                           answers : AnswerMaps]
    /\ inbox \in [Threads -> Frames(tokens, subjects, results)]
-----------------------------------------------------------------------------
\* ainvoke(input) on a new thread, ainvoke(None) on one that was cut short.
Invoke(t) ==
    /\ run[t] = "stopped"
    /\ ckpt[t].next # "end"
    /\ run' = [run EXCEPT ![t] = "running"]
    /\ UNCHANGED <<ckpt, shown, consent, aborts, requests, inbox>>

CallTool(t, tok, answers) ==
    /\ requests' = requests \cup {[thread |-> t, attempt |-> aborts[t],
                                   token |-> tok, answers |-> answers]}
    /\ run' = [run EXCEPT ![t] = "calling"]
    /\ UNCHANGED <<ckpt, shown, consent, aborts, inbox>>

\* begin, up to its await: the initial call has no request_state.
BeginCall(t) ==
    /\ run[t] = "running" /\ ckpt[t].next = "begin"
    /\ CallTool(t, NoToken, NoAnswers)

\* Variant: review sends the continuation itself, before its answer is in the
\* checkpoint.
ContinueFromReview(t) ==
    /\ run[t] = "running" /\ ckpt[t].next \in {"review", "continue"}
    /\ ckpt[t].next = "review" => shown[t] = ckpt[t].frame.form
    /\ \E answers \in IF ckpt[t].next = "review" THEN Resumes
                      ELSE {ckpt[t].answers} :
           CallTool(t, ckpt[t].frame.token, answers)

\* continue_original_round, up to its await.
ContinueCall(t) ==
    /\ run[t] = "running" /\ ckpt[t].next = "continue"
    /\ CallTool(t, ckpt[t].frame.token, ckpt[t].answers)

\* The update that begin or continue_original_round returns is checkpointed
\* together with the node that next_node picks.
Received(t, roundIndex) ==
    /\ run[t] = "calling" /\ inbox[t] # NoFrame
    /\ ckpt' = [ckpt EXCEPT
           ![t].frame = inbox[t],
           ![t].answers = NoAnswers,
           ![t].roundIndex = roundIndex,
           ![t].status = "received",
           ![t].next = IF inbox[t].kind = "input" THEN "review"
                       ELSE "finish"]
    /\ run' = [run EXCEPT ![t] = "running"]
    /\ inbox' = [inbox EXCEPT ![t] = NoFrame]
    /\ UNCHANGED <<shown, consent, aborts, requests>>

BeginReturns(t) == ckpt[t].next = "begin" /\ Received(t, 1)

ContinueReturns(t) ==
    ckpt[t].next = "continue" /\ Received(t, ckpt[t].roundIndex + 1)

\* Variant: one form more than the limit.
WithinLimitOrNext(t) == ckpt[t].roundIndex <= MaxRounds + 1

\* The limit that review checks first.
WithinLimit(t) == ckpt[t].roundIndex <= MaxRounds

\* review up to interrupt(): the form is shown, the token is not.
Review(t) ==
    /\ run[t] = "running" /\ ckpt[t].next = "review"
    /\ WithinLimit(t)
    /\ shown' = [shown EXCEPT ![t] = ckpt[t].frame.form]
    /\ run' = [run EXCEPT ![t] = "stopped"]
    /\ UNCHANGED <<ckpt, consent, aborts, requests, inbox>>

\* review raises ROUND_LIMIT before it asks: the invocation ends.
RoundLimit(t) ==
    /\ run[t] = "running" /\ ckpt[t].next = "review"
    /\ ~ WithinLimit(t)
    /\ run' = [run EXCEPT ![t] = "stopped"]
    /\ UNCHANGED <<ckpt, shown, consent, aborts, requests, inbox>>

\* ainvoke(Command(resume=...)): review runs again from its first line.  An
\* answer that validate_answers or ROUND_LIMIT rejects raises and changes
\* nothing.  A caller resumes the form it was shown; one that lost track after
\* a crash (BlindResume) may send the answer to that form once more although
\* another form is pending by now.
Resume(t) ==
    /\ run[t] = "stopped" /\ ckpt[t].next = "review"
    /\ shown[t] # NoForm
    /\ WithinLimit(t)
    /\ \E answers \in Resumes :
           /\ \/ shown[t] = ckpt[t].frame.form
              \/ BlindResume /\ DOMAIN answers = shown[t].keys
           /\ ValidAnswers(ckpt[t].frame.form.keys, answers)
           /\ ckpt' = [ckpt EXCEPT ![t].answers = answers,
                                   ![t].status = "answered",
                                   ![t].next = "continue"]
           /\ consent' = [consent EXCEPT ![t] =
                  [form |-> shown[t], frame |-> ckpt[t].frame,
                   answers |-> answers]]
    /\ run' = [run EXCEPT ![t] = "running"]
    /\ UNCHANGED <<shown, aborts, requests, inbox>>

\* finish: the terminal frame becomes the result.
Finish(t) ==
    /\ run[t] = "running" /\ ckpt[t].next = "finish"
    /\ ckpt' = [ckpt EXCEPT
           ![t].result = ckpt[t].frame.result,
           ![t].status = IF ckpt[t].frame.result.isError THEN "tool_error"
                         ELSE "completed",
           ![t].next = "end"]
    /\ run' = [run EXCEPT ![t] = "stopped"]
    /\ UNCHANGED <<shown, consent, aborts, requests, inbox>>

\* The process is killed, or the awaited call raises: the invocation ends
\* anywhere between two checkpoints.  A request it sent may still be handled;
\* a reply it received is gone.
Abort(t) ==
    /\ run[t] # "stopped"
    /\ aborts[t] < MaxAborts
    /\ aborts' = [aborts EXCEPT ![t] = aborts[t] + 1]
    /\ run' = [run EXCEPT ![t] = "stopped"]
    /\ inbox' = [inbox EXCEPT ![t] = NoFrame]
    /\ UNCHANGED <<ckpt, shown, consent, requests>>

Client(t) ==
    \/ Invoke(t) \/ BeginCall(t) \/ ContinueCall(t)
    \/ BeginReturns(t) \/ ContinueReturns(t) \/ Review(t)
    \/ RoundLimit(t) \/ Resume(t) \/ Finish(t) \/ Abort(t)
-----------------------------------------------------------------------------
\* Does the process that sent the request still await its reply?
Awaited(request) ==
    /\ run[request.thread] = "calling"
    /\ aborts[request.thread] = request.attempt
    /\ inbox[request.thread] = NoFrame

\* The server handled the request: its reply reaches the process that awaits
\* it, or nobody.
Deliver(request, frame) ==
    /\ requests' = requests \ {request}
    /\ inbox' = IF Awaited(request)
                THEN [inbox EXCEPT ![request.thread] = frame] ELSE inbox
    /\ UNCHANGED <<ckpt, run, shown, consent, aborts>>

\* The request never reaches a server, or its server dies or fails on it
\* before the commit.  The process that awaits it gets an error.
Lose(request) ==
    /\ requests' = requests \ {request}
    /\ IF Awaited(request)
       THEN /\ aborts[request.thread] < MaxAborts
            /\ aborts' = [aborts EXCEPT ![request.thread] = @ + 1]
            /\ run' = [run EXCEPT ![request.thread] = "stopped"]
       ELSE UNCHANGED <<aborts, run>>
    /\ UNCHANGED <<ckpt, shown, consent, inbox>>
-----------------------------------------------------------------------------
\* What an application that recovers does again and again: it invokes the
\* pending node, and the nodes run to their end.
ClientFairness ==
    \A t \in Threads :
        /\ WF_clientVars(Invoke(t) /\ ckpt[t].next # "review")
        /\ WF_clientVars(BeginCall(t) \/ ContinueCall(t))
        /\ WF_clientVars(BeginReturns(t) \/ ContinueReturns(t))
        /\ WF_clientVars(Review(t) \/ RoundLimit(t))
        /\ WF_clientVars(Finish(t))

\* An answer is stored for the form the reviewer was shown, never for another
\* one that happened to be pending: "Obtain the response to those exact keys".
AnswersShownForm ==
    \A t \in Threads :
        ckpt[t].next = "continue" => consent[t].form = ckpt[t].frame.form
=============================================================================
