---------------------------- MODULE StdioRestart ----------------------------
(***************************************************************************)
(* contributions/stdio-round-restart/stdio_restart_probe.py: the round     *)
(* graph in front of RoundStore, whose rounds are pending until a first    *)
(* valid answer closes them with the answer's action.  Client and server   *)
(* processes restart; the server may come back on an empty store           *)
(* (lost_server_state) while the client's checkpoint is intact; and a      *)
(* wrong application may issue a new round and answer it with what was     *)
(* said of the old one (replayed_initial).                                 *)
(***************************************************************************)
EXTENDS RoundGraph, Sequences, FiniteSets

CONSTANTS
    Tokens,         \* the tokens secrets.token_hex can return
    KEY,            \* the one form key of the fixture
    MaxStores       \* bound on the stores a server is started with

ASSUME StdioAssumption ==
    /\ MaxStores \in Nat \ {0} /\ MaxRounds \in Nat \ {0}
    /\ MaxAborts \in Nat /\ Resumes \subseteq AnswerMaps
    /\ NoToken \notin Tokens /\ KEY \in Keys

VARIABLES
    rounds,     \* table rounds: the row with id i is rounds[i]
    effects,    \* table effects
    used,       \* the tokens that were ever issued: none is issued twice
    stores,     \* how many stores have been started
    replayed    \* thread -> the round the wrong application put in its place

storeVars == <<rounds, effects, used, stores, replayed>>
restartVars == <<ckpt, run, shown, consent, aborts, requests, inbox,
                rounds, effects, used, stores, replayed>>

RestartInit ==
    /\ ClientInit
    /\ rounds = <<>> /\ effects = {} /\ used = {} /\ stores = 1
    /\ replayed = [t \in Threads |-> NoToken]
-----------------------------------------------------------------------------
RoundIds(tok) == {i \in DOMAIN rounds : rounds[i].token = tok}
Form(id) == [keys |-> {KEY}, subject |-> id]

\* issue: a fresh token; the row's id names the subject.
Issue(tok) ==
    /\ tok \notin used
    /\ used' = used \cup {tok}
    /\ rounds' = Append(rounds, [token |-> tok, status |-> "pending"])
    /\ UNCHANGED <<effects, stores>>

\* The answers that close a pending round.
Closes(answers) ==
    /\ DOMAIN answers = {KEY}
    /\ \/ answers[KEY] = [action |-> "accept", content |-> "yes"]
       \/ /\ answers[KEY].action \in {"decline", "cancel"}
          /\ answers[KEY].content = "none"

\* Variant: a closed round is answered as a skipped one.
OutcomeSkipped(tok, answers) ==
    LET id == CHOOSE i \in RoundIds(tok) : TRUE
        accepted == /\ rounds[id].status = "pending" /\ Closes(answers)
                    /\ answers[KEY].action = "accept"
    IN  IF RoundIds(tok) = {}
        THEN [isError |-> TRUE, text |-> "UNKNOWN_ROUND", subject |-> None]
        ELSE IF rounds[id].status = "pending" /\ ~ Closes(answers)
        THEN [isError |-> TRUE, text |-> "INVALID", subject |-> None]
        ELSE IF accepted
        THEN [isError |-> FALSE, text |-> "previewed", subject |-> id]
        ELSE [isError |-> FALSE, text |-> "skipped", subject |-> None]

\* answer: what it returns.
Outcome(tok, answers) ==
    LET error(text) == [isError |-> TRUE, text |-> text, subject |-> None]
    IN  IF RoundIds(tok) = {} THEN error("UNKNOWN_ROUND")
        ELSE LET id == CHOOSE i \in RoundIds(tok) : TRUE
             IN  IF rounds[id].status # "pending"
                 THEN error("ROUND_ALREADY_CLOSED")
                 ELSE IF ~ Closes(answers) THEN error("INVALID")
                 ELSE IF answers[KEY].action = "accept"
                 THEN [isError |-> FALSE, text |-> "previewed",
                       subject |-> id]
                 ELSE [isError |-> FALSE, text |-> "skipped",
                       subject |-> None]

\* Variant: the update of the status forgets which round it is about.
AnswerEveryRound(tok, answers) ==
    LET closing == {i \in RoundIds(tok) : rounds[i].status = "pending"}
    IN  IF Closes(answers) /\ closing # {}
        THEN /\ rounds' = [i \in DOMAIN rounds |->
                    [rounds[i] EXCEPT !.status = answers[KEY].action]]
             /\ effects' = effects \cup
                    {[token |-> tok, subject |-> i] :
                     i \in {j \in closing : answers[KEY].action = "accept"}}
             /\ UNCHANGED <<used, stores>>
        ELSE UNCHANGED <<rounds, effects, used, stores>>

\* answer: what it writes.  A pending round gets the action as its status,
\* and a label if it was accepted, in one transaction.
AnswerRound(tok, answers) ==
    LET closing == {i \in RoundIds(tok) : rounds[i].status = "pending"}
    IN  IF Closes(answers)
        THEN /\ rounds' = [i \in DOMAIN rounds |->
                    IF i \in closing
                    THEN [rounds[i] EXCEPT !.status = answers[KEY].action]
                    ELSE rounds[i]]
             /\ effects' = effects \cup
                    {[token |-> tok, subject |-> i] :
                     i \in {j \in closing : answers[KEY].action = "accept"}}
             /\ UNCHANGED <<used, stores>>
        ELSE UNCHANGED <<rounds, effects, used, stores>>

\* Variant: the draft is numbered by the tokens issued so far.
ServeRenumbered(request) ==
    /\ request.token = NoToken
    /\ \E tok \in Tokens :
           /\ Issue(tok)
           /\ Deliver(request, InputFrame(tok, Form(Cardinality(used) + 1)))
    /\ UNCHANGED replayed

ServeIssue(request) ==
    /\ request.token = NoToken
    /\ \E tok \in Tokens :
           /\ Issue(tok)
           /\ Deliver(request, InputFrame(tok, Form(Len(rounds) + 1)))
    /\ UNCHANGED replayed

ServeContinuation(request) ==
    /\ request.token # NoToken
    /\ AnswerRound(request.token, request.answers)
    /\ Deliver(request,
               TerminalFrame(Outcome(request.token, request.answers)))
    /\ UNCHANGED replayed

\* serve, phase b of lost_server_state: the new server opens an empty file.
StartEmpty ==
    /\ stores < MaxStores
    /\ stores' = stores + 1
    /\ rounds' = <<>> /\ effects' = {}
    /\ UNCHANGED <<used, replayed>> /\ UNCHANGED clientVars

\* client_phase, replayed_initial: a second initial call past the graph, while
\* the first question is the one that was shown ...
ReplayInitial(t) ==
    /\ ckpt[t].next = "review" /\ run[t] = "stopped" /\ shown[t] # NoForm
    /\ replayed[t] = NoToken
    /\ \E tok \in Tokens :
           /\ Issue(tok)
           /\ replayed' = [replayed EXCEPT ![t] = tok]
    /\ UNCHANGED clientVars

\* ... and the reviewer's answer to that question sent with the new token.
ReplayAnswer(t, answers) ==
    /\ replayed[t] # NoToken /\ ckpt[t].next = "review"
    /\ AnswerRound(replayed[t], answers)
    /\ UNCHANGED replayed /\ UNCHANGED clientVars

\* Every operation has ended and no call of a dead client is left.
RestartDone ==
    /\ \A t \in Threads : ckpt[t].next = "end"
    /\ requests = {}
    /\ UNCHANGED restartVars

RestartNext ==
    \/ \E t \in Threads : Client(t) /\ UNCHANGED storeVars
    \/ \E request \in requests : ServeIssue(request)
    \/ \E request \in requests : ServeContinuation(request)
    \/ \E request \in requests : Lose(request) /\ UNCHANGED storeVars
    \/ StartEmpty
    \/ \E t \in Threads : ReplayInitial(t)
    \/ \E t \in Threads : \E answers \in Resumes : ReplayAnswer(t, answers)
    \/ RestartDone

RestartSpec == RestartInit /\ [][RestartNext]_restartVars
-----------------------------------------------------------------------------
Token(t) == consent[t].frame.token

\* Every label the graph asked for carries the subject its reviewer was shown
\* and accepted, although a store that starts over numbers its drafts anew; a
\* label nobody consented to is one the wrong application asked for.
LabelsShownSubject ==
    \A e \in effects :
        /\ \E t \in Threads : e.token = Token(t) \/ e.token = replayed[t]
        /\ \A t \in Threads :
               e.token = Token(t) =>
                   /\ consent[t].form.subject = e.subject
                   /\ consent[t].answers[KEY].action = "accept"

\* An operation that ends without the success it may have had can say why:
\* its first answer had closed the round before its client was cut short, or
\* the server's rounds were lost, or the server refused the answer.
EndsAreExplained ==
    \A t \in Threads :
        ckpt[t].next = "end" =>
            LET text == ckpt[t].result.text
                closes == Closes(consent[t].answers)
            IN  /\ text = "ROUND_ALREADY_CLOSED" => closes /\ aborts[t] > 0
                /\ text = "UNKNOWN_ROUND" => stores > 1
                /\ text = "INVALID" => ~ closes
                /\ text \in {"previewed", "skipped"} =>
                       closes /\ (consent[t].answers[KEY].action = "accept"
                                  <=> text = "previewed")
=============================================================================
