----------------------------- MODULE CommitGap -----------------------------
(***************************************************************************)
(* contributions/mcp-commit-gap/probe.py: the round graph of RoundGraph in *)
(* front of the store of ReceiptRounds.  The server commits a label and    *)
(* its reply is on the way; the client may die before the reply is in its  *)
(* checkpoint, and a fresh client sends the pending call again, to a fresh *)
(* server process on the same store - possibly while a call of the dead    *)
(* client is still to be handled.                                          *)
(*                                                                         *)
(* Every server process of a system runs in the one mode of its store:     *)
(* ReceiptStore says how the store sees to that.                           *)
(***************************************************************************)
EXTENDS RoundGraph, ReceiptRounds, FiniteSets

CONSTANTS
    Modes,  \* the modes in which the store may be opened
    ARGS    \* the arguments of the fixture's one operation

VARIABLE storeMode  \* the mode in the store's config table

ASSUME CommitGapAssumption ==
    /\ Modes \subseteq MODES
    /\ ARGS \in Arguments
    /\ "preview" \in Names
    /\ KEY \in Keys
    /\ MaxRounds \in Nat \ {0} /\ MaxAborts \in Nat
    /\ MaxEffects \in Nat
    /\ Resumes \subseteq AnswerMaps
    /\ NoToken \notin Tokens
    /\ None \notin Bindings /\ None \notin Results /\ None \notin Arguments

vars == <<ckpt, run, shown, consent, aborts, requests, inbox,
          rounds, effects, storeMode>>

Init == ClientInit /\ StoreInit /\ storeMode \in Modes

TypeOK ==
    /\ storeMode \in Modes
    /\ StoreTypeOK /\ ClientTypeOK(Tokens, Arguments, Results)

Form == [keys |-> {KEY}, subject |-> ARGS]
ServerCall(request) ==
    [name |-> "preview", arguments |-> ARGS, token |-> request.token,
     answers |-> request.answers]
-----------------------------------------------------------------------------
\* call_tool without request_state: issue a round and ask.
ServeInitial(request) ==
    /\ request.token = NoToken
    /\ \E tok \in Tokens :
           /\ Issue(ARGS, tok)
           /\ Deliver(request, InputFrame(tok, Form))
    /\ UNCHANGED storeMode

\* call_tool with request_state: complete the round.
ServeContinuation(request) ==
    /\ request.token # NoToken
    /\ LET call == ServerCall(request)
       IN  /\ ~ Raises(storeMode, call)
           /\ Commits(storeMode, call) => Len(effects) < MaxEffects
           /\ Complete(storeMode, call)
           /\ Deliver(request, TerminalFrame(Reply(storeMode, call)))
    /\ UNCHANGED storeMode

\* client(), phase recover: after the recovery a syntactically valid, changed
\* answer is sent under the same token, past the graph.
ChangedRepeat(t, answers) ==
    /\ storeMode = "receipt" /\ ckpt[t].status = "completed"
    /\ answers # consent[t].answers
    /\ Complete(storeMode, ServerCall([token |-> consent[t].frame.token,
                                      answers |-> answers]))
    /\ UNCHANGED <<clientVars, storeMode>>

\* Every operation has ended and no call of a dead client is left.
Done ==
    /\ \A t \in Threads : ckpt[t].next = "end"
    /\ requests = {}
    /\ UNCHANGED vars

Next ==
    \/ \E t \in Threads : Client(t) /\ UNCHANGED <<storeVars, storeMode>>
    \/ \E t \in Threads : \E answers \in Resumes :
           ChangedRepeat(t, answers)
    \/ \E request \in requests : ServeInitial(request)
    \/ \E request \in requests : ServeContinuation(request)
    \/ \E request \in requests :
           Lose(request) /\ UNCHANGED <<storeVars, storeMode>>
    \/ Done

Spec == Init /\ [][Next]_vars

\* A server that is up handles the calls it has received.
ServerFairness ==
    \A t \in Threads :
        WF_vars(\E request \in requests :
                    /\ request.thread = t /\ Awaited(request)
                    /\ ServeInitial(request) \/ ServeContinuation(request))

FairSpec == Spec /\ ClientFairness /\ ServerFairness
-----------------------------------------------------------------------------
Token(t) == consent[t].frame.token
Consented(t) == consent[t] # NoConsent
Accepted(t) == Consented(t) /\ Accepts(consent[t].answers)

\* A round leaves at most one label, over every crash, lost reply and repeat,
\* under the guard and the receipt policy.
AtMostOneEffect ==
    storeMode # "naive" =>
        \A tok \in Tokens : \A i, j \in EffectsOf(tok) : i = j

\* A label is committed only for an accepting answer that is already in the
\* client's checkpoint, given to the very form it was shown: a label cannot
\* outrun the durable answer it rests on.
ConsentBeforeEffect ==
    \A i \in DOMAIN effects : \E t \in Threads :
        /\ Accepted(t) /\ Token(t) = effects[i].token
        /\ consent[t].form = Form /\ consent[t].form.subject = effects[i].label

\* A thread that reports completion names a label of its own round that the
\* server did commit.
CompletedNamesItsEffect ==
    \A t \in Threads :
        ckpt[t].status = "completed" =>
            ckpt[t].result.effect \in EffectsOf(Token(t))

\* Receipt policy: whatever crashes in between, an operation that ends has
\* reported the one label of its round if the answer accepted the form, and an
\* error and no label otherwise.
OriginalResultRecovered ==
    \A t \in Threads :
        storeMode = "receipt" /\ ckpt[t].next = "end" =>
            IF Accepted(t)
            THEN /\ ckpt[t].status = "completed"
                 /\ EffectsOf(Token(t)) = {ckpt[t].result.effect}
                 /\ ckpt[t].result = rounds[Token(t)].result
            ELSE ckpt[t].status = "tool_error" /\ EffectsOf(Token(t)) = {}

\* Guard policy: an accepted operation that ends has exactly one label, also
\* when its result is lost and it can report only ROUND_ALREADY_CLOSED.
GuardKeepsOneEffect ==
    \A t \in Threads :
        storeMode = "closed_guard" /\ ckpt[t].next = "end" /\ Accepted(t) =>
            /\ Cardinality(EffectsOf(Token(t))) = 1
            /\ ckpt[t].status = "tool_error" =>
                   ckpt[t].result.why = "closed" /\ aborts[t] > 0

\* What an operation has decided, done and reported, in the terms of
\* ConfirmedEffect: the answer in its checkpoint, the label in its round's
\* receipt, and the label in its result.
Decision(t) ==
    IF ~ Consented(t) THEN "none"
    ELSE IF Accepted(t) THEN "accepted" ELSE "rejected"
EffectOf(t) ==
    IF Consented(t) /\ Bound(Token(t))
    THEN rounds[Token(t)].result.effect ELSE 0
Outcome(t) ==
    IF ckpt[t].next = "end"
    THEN [done |-> TRUE, effect |-> ckpt[t].result.effect]
    ELSE [done |-> FALSE, effect |-> 0]

Decisions == [t \in Threads |-> Decision(t)]
EffectOfEach == [t \in Threads |-> EffectOf(t)]
Outcomes == [t \in Threads |-> Outcome(t)]

\* The receipt policy implements the promise of ConfirmedEffect.
Promise == INSTANCE ConfirmedEffect WITH
    Operations <- Threads,
    EffectIds <- 1 .. MaxEffects,
    decision <- Decisions,
    effect <- EffectOfEach,
    outcome <- Outcomes

KeepsPromise == Promise!Spec
=============================================================================
