----------------------------- MODULE GapEvidence -----------------------------
(***************************************************************************)
(* The experiment of contributions/mcp-commit-gap/probe.py, and the check  *)
(* it makes of its own records.  Three client processes run one operation: *)
(* prepare shows the form, crash answers it and exits the moment the reply *)
(* is received (RecordedSession, os._exit), recover runs the pending call  *)
(* again and, under the receipt policy, repeats it with a changed answer.  *)
(* Every call is in the client's and in the server's log; the parent reads *)
(* the store after the crash and at the end (run, check).                  *)
(*                                                                         *)
(* The logs are histories: every step is one of CommitGap.  An operation   *)
(* that leaves the script is not checked any more (run raises), so its     *)
(* logs end there.                                                         *)
(***************************************************************************)
EXTENDS CommitGap

VARIABLES
    wire,   \* thread -> the calls its clients recorded
    served, \* thread -> the server's log of these calls
    crash   \* thread -> what the parent and recover find after the exit

evidenceVars == <<ckpt, run, shown, consent, aborts, requests, inbox,
                  rounds, effects, storeMode, wire, served, crash>>

NoCrash == [found |-> "none"]
OffScript == [found |-> "other"]
Found == [found |-> "crash", effects |-> effects, rounds |-> rounds]

EvidenceInit ==
    /\ Init
    /\ wire = [t \in Threads |-> <<>>] /\ served = [t \in Threads |-> <<>>]
    /\ crash = [t \in Threads |-> NoCrash]

\* The script of the three processes has at most four calls.
MaxCalls == 4
Row(state, answers, result) ==
    [state |-> state, answers |-> answers, result |-> result]
Emitted(state, answers, result) ==
    [state |-> state, answers |-> answers, result |-> result,
     effects |-> effects', rounds |-> rounds']

Forget(t) ==
    /\ wire' = [wire EXCEPT ![t] = <<>>]
    /\ served' = [served EXCEPT ![t] = <<>>]
    /\ crash' = [crash EXCEPT ![t] = OffScript]

\* A call of thread t that the server handled; received: by a client that
\* still waits for it, and records it at once (RecordedSession.call_tool).
Log(t, state, answers, result, received) ==
    IF crash[t] = OffScript THEN UNCHANGED <<wire, served, crash>>
    ELSE IF Len(served[t]) = MaxCalls THEN Forget(t)
    ELSE /\ served' = [served EXCEPT ![t] =
                Append(@, Emitted(state, answers, result))]
         /\ wire' = IF received
                    THEN [wire EXCEPT ![t] =
                             Append(@, Row(state, answers, result))]
                    ELSE wire
         /\ UNCHANGED crash

\* os._exit in RecordedSession: a reply with the first label has been received
\* and the graph has not had it.  Any other end of a client fails the run.
ScriptedExit(t) ==
    /\ ckpt[t].next = "continue" /\ inbox[t] # NoFrame
    /\ ~ inbox[t].result.isError /\ inbox[t].result.effect = 1
    /\ crash[t] = NoCrash

ClientExit(t) ==
    /\ Abort(t)
    /\ IF ScriptedExit(t)
       THEN crash' = [crash EXCEPT ![t] = Found] /\ UNCHANGED <<wire, served>>
       ELSE Forget(t)
    /\ UNCHANGED <<storeVars, storeMode>>

ClientStep(t) ==
    /\ \/ Invoke(t) \/ BeginCall(t) \/ ContinueCall(t)
       \/ BeginReturns(t) \/ ContinueReturns(t) \/ Review(t)
       \/ RoundLimit(t) \/ Resume(t) \/ Finish(t)
    /\ UNCHANGED <<storeVars, storeMode, wire, served, crash>>

EmitInitial(request) ==
    /\ ServeInitial(request)
    /\ \E tok \in Tokens :
           /\ ~ rounds[tok].issued /\ rounds'[tok].issued
           /\ Log(request.thread, NoToken, request.answers,
                  InputFrame(tok, Form), Awaited(request))

EmitContinuation(request) ==
    /\ ServeContinuation(request)
    /\ Log(request.thread, request.token, request.answers,
           TerminalFrame(Reply(storeMode, ServerCall(request))),
           Awaited(request))

\* call_tool raises: the client that awaits the call fails with it.
LoseCall(request) ==
    /\ Lose(request)
    /\ IF Awaited(request) THEN Forget(request.thread)
       ELSE UNCHANGED <<wire, served, crash>>
    /\ UNCHANGED <<storeVars, storeMode>>

\* client, phase recover: the changed answer, recorded like every call.
RecordChangedRepeat(t, answers) ==
    /\ ChangedRepeat(t, answers)
    /\ Log(t, Token(t), answers,
           TerminalFrame(Reply(storeMode, ServerCall(
               [token |-> Token(t), answers |-> answers]))), TRUE)

EvidenceNext ==
    \/ \E t \in Threads : ClientStep(t)
    \/ \E t \in Threads : ClientExit(t)
    \/ \E t \in Threads : \E answers \in Resumes :
           RecordChangedRepeat(t, answers)
    \/ \E request \in requests : EmitInitial(request)
    \/ \E request \in requests : EmitContinuation(request)
    \/ \E request \in requests : LoseCall(request)
    \/ Done /\ UNCHANGED <<wire, served, crash>>

EvidenceSpec == EvidenceInit /\ [][EvidenceNext]_evidenceVars
-----------------------------------------------------------------------------
\* answer() of the probe, and the answer with a note that differs.
Yes == Sole(KEY, "accept", "yes")
Changed == Sole(KEY, "accept", "yes_changed")

\* The requests and results of the two logs, pair by pair.
SameCalls(t) ==
    /\ Len(wire[t]) = Len(served[t])
    /\ \A i \in DOMAIN wire[t] :
           wire[t][i] = Row(served[t][i].state, served[t][i].answers,
                            served[t][i].result)

\* check: what a mode is expected to make of the repeated call.
Recovered(t, mode) ==
    LET original == wire[t][2].result.result
        resumed == ckpt[t].result
    IN  CASE mode = "naive" ->
               /\ Len(effects) = 2 /\ resumed.effect = 2
               /\ ckpt[t].status = "completed"
          [] mode = "closed_guard" ->
               /\ Len(effects) = 1 /\ resumed = Refusal("closed")
               /\ ckpt[t].status = "tool_error"
          [] mode = "receipt" ->
               /\ Len(effects) = 1 /\ resumed = original
               /\ ckpt[t].status = "completed"
               /\ wire[t][4].result.result = Refusal("mismatch")
               /\ effects = crash[t].effects /\ rounds = crash[t].rounds

\* check: what the probe asserts of the records of a mode.
CheckCase(t, mode) ==
    LET w == wire[t]
        token == w[1].result.token
    IN  /\ ckpt[t].next = "end" /\ crash[t].found = "crash"
        /\ Len(w) = (IF mode = "receipt" THEN 4 ELSE 3) /\ SameCalls(t)
        /\ w[1].state = NoToken
        /\ \A i \in 2 .. Len(w) : w[i].state = token
        /\ w[2].answers = Yes /\ w[3].answers = Yes
        /\ Len(crash[t].effects) = 1
        /\ served[t][2].effects = crash[t].effects
        /\ served[t][2].rounds = crash[t].rounds
        /\ ckpt[t].result = w[3].result.result
        /\ Recovered(t, mode)

\* What was done: the reviewer said yes, the client died between the reply and
\* its checkpoint, the operation was recovered, and in receipt mode one changed
\* answer was sent after it.
Did(t, mode) ==
    /\ ckpt[t].next = "end" /\ crash[t].found = "crash"
    /\ mode = storeMode /\ consent[t].answers = Yes
    /\ Len(served[t]) = IF mode = "receipt" THEN 4 ELSE 3

\* Nobody else has used the store.
Alone(t) == \A tok \in Tokens : rounds[tok].issued => tok = Token(t)

\* The experiment shows what it says.  Run alone on the store of any mode it
\* finds two labels and another result, one label and no result, or the one
\* label and its result; and its check accepts nothing else as one of them, not
\* the records of another mode, answer or exit, nor labels that somebody else
\* has left in the store.
ExperimentIsTrue ==
    \A t \in Threads : \A mode \in MODES :
        /\ Did(t, mode) /\ Alone(t) => CheckCase(t, mode)
        /\ CheckCase(t, mode) =>
               Did(t, mode) /\ EffectsOf(Token(t)) = DOMAIN effects
=============================================================================
