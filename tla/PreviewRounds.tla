--------------------------- MODULE PreviewRounds ---------------------------
(***************************************************************************)
(* contributions/preserved-mcp-rounds/probe.py: the round graph in front   *)
(* of the probe's server.  SPECS says for each operation how many forms    *)
(* the server asks (rounds), whether it words a repeated initial call      *)
(* differently (drift), gives every issue fresh keys (fresh) or fails      *)
(* instead of recording (error).  The request_state encodes what is asked. *)
(* The server outlives its clients.                                        *)
(***************************************************************************)
EXTENDS RoundGraph, Sequences, FiniteSets

CONSTANTS
    Specs,      \* the entries of SPECS
    MaxForms    \* the most forms one of them asks

\* What a request_state encodes.
RequestStates(subjects) ==
    [case : Threads, round : Nat, serial : Nat, subject : subjects]

ASSUME PreviewAssumption ==
    /\ Specs \subseteq [fresh : BOOLEAN, drift : BOOLEAN, error : BOOLEAN,
                        rounds : 1 .. MaxForms]
    /\ MaxForms \in Nat /\ MaxRounds \in Nat \ {0} /\ MaxAborts \in Nat
    /\ Resumes \subseteq AnswerMaps
    /\ NoToken \notin RequestStates({"draft-A", "draft-B"})

VARIABLES
    SPECS,      \* operation -> its spec
    sequence,   \* operation -> how many initial calls the server has seen
    issued,     \* the request states the server has issued
    completed   \* the previews recorded, in order

serverVars == <<SPECS, sequence, issued, completed>>
vars == <<ckpt, run, shown, consent, aborts, requests, inbox,
          SPECS, sequence, issued, completed>>

Init ==
    /\ ClientInit
    /\ SPECS \in [Threads -> Specs]
    /\ sequence = [t \in Threads |-> 0]
    /\ issued = {}
    /\ completed = <<>>
-----------------------------------------------------------------------------
\* f'confirm-{serial}-{round}' with fresh keys, f'confirm-{round}' without.
FormKey(state) ==
    <<IF SPECS[state.case].fresh THEN state.serial ELSE 0, state.round>>
FormOf(state) == [keys |-> {FormKey(state)}, subject |-> state.subject]

Text(isError, text, subject) ==
    TerminalFrame([isError |-> isError, text |-> text, subject |-> subject])

\* question: remember the state and ask.
Ask(request, state) ==
    /\ issued' = issued \cup {state}
    /\ Deliver(request, InputFrame(state, FormOf(state)))

\* Variant: the initial calls are not counted.
ServeInitialUncounted(request) ==
    LET t == request.thread
    IN  /\ request.token = NoToken
        /\ Ask(request, [case |-> t, round |-> 1, serial |-> 1,
                         subject |-> "draft-A"])
        /\ UNCHANGED <<SPECS, sequence, completed>>

ServeInitial(request) ==
    LET t == request.thread
        serial == sequence[t] + 1
    IN  /\ request.token = NoToken
        /\ sequence' = [sequence EXCEPT ![t] = serial]
        /\ Ask(request,
               [case |-> t, round |-> 1, serial |-> serial,
                subject |-> IF SPECS[t].drift /\ serial > 1 THEN "draft-B"
                            ELSE "draft-A"])
        /\ UNCHANGED <<SPECS, completed>>

\* The original answer is there and is an accepted form with the exact note.
AcceptedBy(state, answers) ==
    /\ FormKey(state) \in DOMAIN answers
    /\ answers[FormKey(state)] = [action |-> "accept", content |-> "yes"]

\* UNKNOWN_ROUND, MISSING_ORIGINAL_ANSWER, FORM_CONTENT_DIFFER and the
\* synthetic failure are tool errors; a decline or a cancel is a skip.
ServeRefusal(request) ==
    LET state == request.token
        answers == request.answers
        declined == /\ state \in issued
                    /\ FormKey(state) \in DOMAIN answers
                    /\ answers[FormKey(state)].action # "accept"
    IN  /\ state # NoToken
        /\ \/ state \notin issued \/ SPECS[state.case].error
           \/ ~ AcceptedBy(state, answers)
        /\ Deliver(request, IF declined THEN Text(FALSE, "skipped", None)
                            ELSE Text(TRUE, "failed", None))
        /\ UNCHANGED serverVars

\* Variant: a round is skipped.
ServeLastRound(request) ==
    LET state == request.token
    IN  /\ state # NoToken /\ state \in issued /\ ~ SPECS[state.case].error
        /\ AcceptedBy(state, request.answers)
        /\ state.round < SPECS[state.case].rounds
        /\ Ask(request, [state EXCEPT !.round = SPECS[state.case].rounds])
        /\ UNCHANGED <<SPECS, sequence, completed>>

ServeNextRound(request) ==
    LET state == request.token
    IN  /\ state # NoToken /\ state \in issued /\ ~ SPECS[state.case].error
        /\ AcceptedBy(state, request.answers)
        /\ state.round < SPECS[state.case].rounds
        /\ Ask(request, [state EXCEPT !.round = @ + 1])
        /\ UNCHANGED <<SPECS, sequence, completed>>

\* Variant: the preview is worded as an initial call would be by now.
ServeReworded(request) ==
    LET state == request.token
        subject == IF SPECS[state.case].drift /\ sequence[state.case] > 1
                   THEN "draft-B" ELSE "draft-A"
    IN  /\ state # NoToken /\ state \in issued /\ ~ SPECS[state.case].error
        /\ AcceptedBy(state, request.answers)
        /\ state.round = SPECS[state.case].rounds
        /\ completed' = Append(completed, [case |-> state.case,
                                           subject |-> subject])
        /\ Deliver(request, Text(FALSE, "previewed", subject))
        /\ UNCHANGED <<SPECS, sequence, issued>>

ServePreview(request) ==
    LET state == request.token
    IN  /\ state # NoToken /\ state \in issued /\ ~ SPECS[state.case].error
        /\ AcceptedBy(state, request.answers)
        /\ state.round = SPECS[state.case].rounds
        /\ completed' = Append(completed, [case |-> state.case,
                                           subject |-> state.subject])
        /\ Deliver(request, Text(FALSE, "previewed", state.subject))
        /\ UNCHANGED <<SPECS, sequence, issued>>

Serve(request) ==
    \/ ServeInitial(request) \/ ServeRefusal(request)
    \/ ServeNextRound(request) \/ ServePreview(request)

\* Every operation has ended and no call of a dead client is left.
Done ==
    /\ \A t \in Threads : ckpt[t].next = "end"
    /\ requests = {}
    /\ UNCHANGED vars

Next ==
    \/ \E t \in Threads : Client(t) /\ UNCHANGED serverVars
    \/ \E request \in requests : Serve(request)
    \/ \E request \in requests : Lose(request) /\ UNCHANGED serverVars
    \/ Done

Spec == Init /\ [][Next]_vars
-----------------------------------------------------------------------------
\* The limit is never outrun: the client's round_index is the server's round
\* of the pending form and counts forms asked, not calls sent; no answer is
\* stored for a form beyond the limit, and an operation that asks more forms
\* records nothing.
LimitStopsOperation ==
    /\ \A t \in Threads :
           ckpt[t].frame.kind = "input" =>
               ckpt[t].roundIndex = ckpt[t].frame.token.round
    /\ \A t \in Threads :
           ckpt[t].status = "answered" => ckpt[t].roundIndex <= MaxRounds
    /\ \A i \in DOMAIN completed : SPECS[completed[i].case].rounds <= MaxRounds

\* A checkpointed form is followed by the next form of the same operation and
\* subject, or by its end: rounds are never skipped, repeated or swapped for
\* those of another initial call.
RoundsInOrder ==
    [][\A t \in Threads :
           /\ ckpt[t].frame.kind = "input"
           /\ ckpt'[t].frame.kind = "input"
           /\ ckpt'[t].frame # ckpt[t].frame
           => ckpt'[t].frame.token =
                  [ckpt[t].frame.token EXCEPT !.round = @ + 1]]_vars
=============================================================================
