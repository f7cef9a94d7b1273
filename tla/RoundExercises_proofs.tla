------------------------ MODULE RoundExercises_proofs ------------------------
(***************************************************************************)
(* What the experiments of RoundExercises conclude (ExercisesAreTrue), for *)
(* any number of cases side by side, forms, lost calls and recoveries.     *)
(*                                                                         *)
(* The invariant (VerdictInv) is that of RoundSystems_proofs and, of every *)
(* thread, what drives it (Drives): while its row is open, no call of it   *)
(* has been lost, and one of a few shapes holds of its row (Work); once it *)
(* is over, the row says what came of the last answer (Ended).             *)
(***************************************************************************)
EXTENDS RoundSystems_proofs

\* What a thread of the round graph is asked, if no call of it is lost: the
\* states, the keys of the forms and the frames.  All are about what its first
\* call was about.
AskedOf(t) == IF path[t] = "process_restart" THEN "process-A" ELSE "draft-A"
StateAt(t, i) ==
    [case |-> t, round |-> i,
     serial |-> IF path[t] = "process_restart" THEN 0 ELSE 1,
     subject |-> AskedOf(t)]
FormNo(t, i) == FormAt(t, StateAt(t, i))
KeyAt(t, i) ==
    IF path[t] = "process_restart" THEN <<0, 0>> ELSE FormKey(StateAt(t, i))
QuestionAt(t, i) == InputFrame(StateAt(t, i), FormNo(t, i))
YesTo(key) == Sole(key, "accept", "yes")

\* The previews recorded of a thread.
Previewed(t, subject) ==
    \E i \in DOMAIN completed : Own(t) = {i} /\ completed[i].subject = subject

\* A row with c calls, of which the first g brought a question, with l entries
\* in the server's log, s forms shown and a answers.
CallRow(state, answers, received) ==
    [state |-> state, answers |-> answers, received |-> received]
CallsAre(t, calls, c, g) ==
    /\ IsLog(calls) /\ Len(calls) = c
    /\ \A i \in 1 .. c :
           calls[i] = CallRow(IF i = 1 THEN NoToken ELSE StateAt(t, i - 1),
                              calls[i].answers,
                              IF i <= g THEN StateAt(t, i) ELSE NoToken)
EntryNo(t, i) ==
    [phase |-> IF i = 1 THEN "initial" ELSE "resume", subject |-> AskedOf(t)]
LogIs(t, log, l) ==
    IsLog(log) /\ Len(log) = l /\ \A i \in 1 .. l : log[i] = EntryNo(t, i)
ShownAre(t, forms, s) ==
    IsLog(forms) /\ Len(forms) = s /\ \A i \in 1 .. s : forms[i] = FormNo(t, i)
AnswersAre(t, answers, a) ==
    /\ IsLog(answers) /\ Len(answers) = a
    /\ \A i \in 1 .. a : /\ DOMAIN answers[i] = {KeyAt(t, i)}
                         /\ answers[i] \in AnswerMaps
    /\ \A i \in 1 .. a - 1 : answers[i] = YesTo(KeyAt(t, i))
RowIs(t, c, g, l, s, a) ==
    /\ CallsAre(t, rows[t].calls, c, g) /\ LogIs(t, rows[t].log, l)
    /\ ShownAre(t, rows[t].shown, s) /\ AnswersAre(t, rows[t].answers, a)

\* The s-th answer was the one that goes on, or an accepted one.
Yes(t, s) == rows[t].answers[s] = YesTo(KeyAt(t, s))
Accepts(t, s) == rows[t].answers[s][KeyAt(t, s)].action = "accept"

\* Form s is the one that is pending, and the server knows its state.
IsPending(t, frame, s) ==
    /\ s \in 1 .. SPECS[t].rounds /\ frame = QuestionAt(t, s)
    /\ path[t] = "checkpointed_round_graph" => StateAt(t, s) \in issued

\* What the s-th answer led to, when it was the last one.
EndsAfter(t, s, result) ==
    /\ s \in 1 .. SPECS[t].rounds
    /\ IF path[t] = "process_restart"
       THEN /\ Yes(t, s) /\ result.isError = FALSE
            /\ result.text = "completed-from-process-B"
       ELSE IF Yes(t, s) /\ ~ SPECS[t].error
       THEN /\ s = SPECS[t].rounds /\ Previewed(t, "draft-A")
            /\ result.isError = FALSE
       ELSE /\ Own(t) = {}
            /\ SPECS[t].error /\ Accepts(t, s) => result.isError = TRUE

\* An open case of the round graph, from its first call to its result.
Begins(t) ==
    /\ ckpt[t].next = "begin" /\ run[t] # "calling"
    /\ RowIs(t, 0, 0, 0, 0, 0) /\ sequence[t] = 0 /\ Own(t) = {}
FirstCalled(t) ==
    /\ ckpt[t].next = "begin" /\ run[t] = "calling" /\ inbox[t] = NoFrame
    /\ RowIs(t, 1, 0, 0, 0, 0) /\ sequence[t] = 0 /\ Own(t) = {}
IsAsked(t) ==
    /\ ckpt[t].next = "begin" /\ run[t] = "calling"
    /\ RowIs(t, 1, 0, 1, 0, 0) /\ IsPending(t, inbox[t], 1) /\ Own(t) = {}
Reviews(t, s) ==
    /\ ckpt[t].next = "review" /\ run[t] = "running"
    /\ RowIs(t, s, s, s, s - 1, s - 1) /\ IsPending(t, ckpt[t].frame, s)
    /\ s > 1 => Yes(t, s - 1)
    /\ Own(t) = {}
HasShown(t, s) ==
    /\ ckpt[t].next = "review" /\ run[t] = "stopped"
    /\ RowIs(t, s, s, s, s, s - 1) /\ IsPending(t, ckpt[t].frame, s)
    /\ s > 1 => Yes(t, s - 1)
    /\ shown[t] = FormNo(t, s) /\ Own(t) = {}
Holds(t, s) ==
    /\ IsPending(t, ckpt[t].frame, s) /\ rows[t].answers[s] = ckpt[t].answers
    /\ ckpt[t].next = "continue"
Continues(t, s) ==
    /\ Holds(t, s) /\ run[t] = "running"
    /\ RowIs(t, s, s, s, s, s) /\ Own(t) = {}
AnswerSent(t, s) ==
    /\ Holds(t, s) /\ run[t] = "calling" /\ inbox[t] = NoFrame
    /\ RowIs(t, s + 1, s, s, s, s) /\ Own(t) = {}
AskedAgain(t, s) ==
    /\ Holds(t, s) /\ run[t] = "calling" /\ IsPending(t, inbox[t], s + 1)
    /\ RowIs(t, s + 1, s, s + 1, s, s) /\ Yes(t, s) /\ Own(t) = {}
Told(t, s) ==
    /\ Holds(t, s) /\ run[t] = "calling" /\ inbox[t].kind = "terminal"
    /\ RowIs(t, s + 1, s, s + 1, s, s) /\ EndsAfter(t, s, inbox[t].result)
Concludes(t, s) ==
    /\ ckpt[t].next = "finish" /\ run[t] = "running"
    /\ RowIs(t, s + 1, s, s + 1, s, s)
    /\ consent[t].frame = QuestionAt(t, s)
    /\ EndsAfter(t, s, ckpt[t].frame.result)
GraphWork(t) ==
    /\ aborts[t] = 0 /\ ckpt[t].status \in {"new", "received", "answered"}
    /\ \/ Begins(t) \/ FirstCalled(t) \/ IsAsked(t)
       \/ \E s \in Nat \ {0} :
              \/ Reviews(t, s) \/ HasShown(t, s) \/ Continues(t, s)
              \/ AnswerSent(t, s) \/ AskedAgain(t, s) \/ Told(t, s)
              \/ Concludes(t, s)

\* What is left of it when it is over.
GraphReturned(t, s) ==
    /\ s \in 1 .. SPECS[t].rounds /\ RowIs(t, s + 1, s, s + 1, s, s)
    /\ IF path[t] = "process_restart"
       THEN /\ Yes(t, s) /\ rows[t].status = "completed"
            /\ ckpt[t].result.text = "completed-from-process-B"
            /\ consent[t].frame = QuestionAt(t, s)
       ELSE IF Yes(t, s) /\ ~ SPECS[t].error
       THEN /\ s = SPECS[t].rounds /\ rows[t].status = "completed"
            /\ rows[t].completed = <<"draft-A">>
       ELSE /\ rows[t].completed = <<>>
            /\ SPECS[t].error /\ Accepts(t, s) => rows[t].status = "tool_error"
GraphOver(t) ==
    /\ rows[t].outcome = "returned" => \E s \in Nat \ {0} : GraphReturned(t, s)
    /\ rows[t].outcome # "returned" =>
           rows[t].status \notin {"completed", "tool_error"}
    /\ rows[t].outcome = "keys_differ" =>
           /\ rows[t].completed = <<>>
           /\ \E s \in 1 .. SPECS[t].rounds : RowIs(t, s, s, s, s, s - 1)

\* A case of the adapter, its answer, and what came of it.
ToFirst(t) == YesTo(FormKey(First(t)))
OwnAnswers(t) ==
    {ToFirst(t)} \cup {a \in {Sole(FormKey(First(t)), "decline", "none")} :
                           path[t] = "identity_adapter"}
Mismatched == [isError |-> TRUE, text |-> "mismatch", subject |-> None]
OneAttempt(t) ==
    aborts[t] = 0 /\ \A r \in requests : r.thread = t => r.attempt = 0
Records(t, answers) == path[t] # "bound_adapter" /\ answers = ToFirst(t)
AdapterWork(t) ==
    LET answers == ckpt[t].answers
    IN  /\ OneAttempt(t) /\ ckpt[t].status = "new" /\ ckpt[t].result = None
        /\ shown[t] # NoForm => rows[t].shown = <<FormOf(First(t))>>
        /\ answers # NoAnswers =>
               rows[t].answers = <<answers>> /\ answers \in OwnAnswers(t)
        /\ inbox[t].kind = "input" /\ shown[t] # NoForm => Second(t) \in issued
        /\ \A r \in requests : r.thread = t /\ r.token # NoToken =>
               /\ answers # NoAnswers /\ r.answers = answers
               /\ Second(t) \in issued
        /\ inbox[t].kind = "terminal" =>
               /\ shown[t] # NoForm /\ answers # NoAnswers /\ ~ SPECS[t].fresh
               /\ path[t] = "bound_adapter" => inbox[t].result = Mismatched
        /\ IF inbox[t].kind = "terminal" /\ Records(t, answers)
           THEN Previewed(t, Second(t).subject) /\ inbox[t].result.isError = FALSE
           ELSE Own(t) = {}
AdapterReturned(t, answers) ==
    /\ ~ SPECS[t].fresh /\ rows[t].shown = <<FormOf(First(t))>>
    /\ rows[t].answers = <<answers>>
    /\ path[t] = "bound_adapter" => ckpt[t].result = Mismatched
    /\ IF Records(t, answers)
       THEN /\ rows[t].completed = <<Second(t).subject>>
            /\ rows[t].status = "completed"
       ELSE rows[t].completed = <<>>
AdapterOver(t) ==
    /\ rows[t].outcome = "returned" =>
           \E answers \in OwnAnswers(t) : AdapterReturned(t, answers)
    /\ rows[t].outcome = "raised" => SPECS[t].fresh /\ rows[t].completed = <<>>
    /\ rows[t].outcome # "returned" =>
           rows[t].status = "new" /\ ckpt[t].result = None

\* A case of the session alone.
OneEntry == <<[phase |-> "initial", subject |-> "draft-A"]>>
TwoEntries == Append(OneEntry, [phase |-> "resume", subject |-> "draft-A"])
DirectKept(t) ==
    rows[t].shown = <<FormOf(First(t))>> /\ rows[t].answers = <<ToFirst(t)>>
DirectWork(t) ==
    /\ OneAttempt(t) /\ shown[t] \in {NoForm, FormOf(First(t))}
    /\ shown[t] = NoForm =>
           /\ inbox[t].kind # "terminal" /\ Own(t) = {}
           /\ inbox[t] = NoFrame => rows[t].log = <<>> /\ sequence[t] = 0
           /\ inbox[t].kind = "input" =>
                  /\ inbox[t] = InputFrame(First(t), FormOf(First(t)))
                  /\ First(t) \in issued /\ rows[t].log = OneEntry
    /\ shown[t] # NoForm =>
           /\ DirectKept(t) /\ inbox[t].kind # "input" /\ First(t) \in issued
           /\ IF inbox[t].kind = "terminal"
              THEN Previewed(t, "draft-A") /\ rows[t].log = TwoEntries
              ELSE Own(t) = {} /\ rows[t].log = OneEntry
    /\ \A r \in requests : r.thread = t /\ r.token # NoToken =>
           r.token = First(t) /\ r.answers = ToFirst(t)
DirectOver(t) ==
    rows[t].outcome = "returned" =>
        /\ DirectKept(t) /\ rows[t].log = TwoEntries
        /\ rows[t].completed = <<"draft-A">>

\* What drives a thread, and what its row says.
Entry(t) ==
    /\ path[t] = "process_restart" => SPECS[t] = Spec1(FALSE, FALSE, FALSE, 1)
    /\ path[t] \in AdapterPaths => SPECS[t].rounds = 1 /\ ~ SPECS[t].error
    /\ path[t] \in {"bound_adapter", "direct_session"} =>
           SPECS[t] = Spec1(FALSE, TRUE, FALSE, 1)
Work(t) ==
    /\ OfGraph(t) => GraphWork(t)
    /\ path[t] \in AdapterPaths => AdapterWork(t)
    /\ path[t] = "direct_session" => DirectWork(t)
Ended(t) ==
    /\ OfGraph(t) => GraphOver(t)
    /\ path[t] \in AdapterPaths => AdapterOver(t)
    /\ path[t] = "direct_session" => DirectOver(t)
Drives(t) == Entry(t) /\ (Open(t) => Work(t)) /\ (~ Open(t) => Ended(t))
VerdictInv == ExerciseInv /\ \A t \in Threads : Drives(t)

-----------------------------------------------------------------------------
\* What a thread is asked depends on its case only.
LEMMA CaseKept ==
    ASSUME path' = path, SPECS' = SPECS, NEW t
    PROVE  /\ \A i : /\ StateAt(t, i)' = StateAt(t, i)
                     /\ FormNo(t, i)' = FormNo(t, i)
                     /\ KeyAt(t, i)' = KeyAt(t, i)
                     /\ QuestionAt(t, i)' = QuestionAt(t, i)
                     /\ EntryNo(t, i)' = EntryNo(t, i)
           /\ \A x, c, g : CallsAre(t, x, c, g)' <=> CallsAre(t, x, c, g)
           /\ \A x, l : LogIs(t, x, l)' <=> LogIs(t, x, l)
           /\ \A x, s : ShownAre(t, x, s)' <=> ShownAre(t, x, s)
           /\ \A x, a : AnswersAre(t, x, a)' <=> AnswersAre(t, x, a)
           /\ (OfGraph(t)' <=> OfGraph(t)) /\ (Entry(t)' <=> Entry(t))
<1>1. \A i : StateAt(t, i)' = StateAt(t, i) /\ EntryNo(t, i)' = EntryNo(t, i)
  BY DEF StateAt, AskedOf, EntryNo
<1>2. \A state : FormAt(t, state)' = FormAt(t, state)
                 /\ FormKey(state)' = FormKey(state)
  BY DEF FormAt, FormOf, FormKey
<1>3. \A i : /\ FormNo(t, i)' = FormNo(t, i) /\ KeyAt(t, i)' = KeyAt(t, i)
             /\ QuestionAt(t, i)' = QuestionAt(t, i)
  BY <1>1, <1>2 DEF FormNo, KeyAt, QuestionAt
<1>4. \A x, c, g : CallsAre(t, x, c, g)' <=> CallsAre(t, x, c, g)
  BY <1>1 DEF CallsAre
<1>5. \A x, l : LogIs(t, x, l)' <=> LogIs(t, x, l)
  BY <1>1 DEF LogIs
<1>6. \A x, s : ShownAre(t, x, s)' <=> ShownAre(t, x, s)
  BY <1>3 DEF ShownAre
<1>7. \A x, a : AnswersAre(t, x, a)' <=> AnswersAre(t, x, a)
  BY <1>3 DEF AnswersAre
<1>8. (OfGraph(t)' <=> OfGraph(t)) /\ (Entry(t)' <=> Entry(t))
  BY DEF OfGraph, Entry
<1> QED
  BY <1>1, <1>3, <1>4, <1>5, <1>6, <1>7, <1>8

\* What is kept in an open row.
OnlyIn(t, field) ==
    /\ field # "calls" => rows'[t].calls = rows[t].calls
    /\ field # "log" => rows'[t].log = rows[t].log
    /\ field # "shown" => rows'[t].shown = rows[t].shown
    /\ field # "answers" => rows'[t].answers = rows[t].answers
LEMMA LogField ==
    ASSUME DOMAIN rows = Threads, NEW t \in Threads, IsRow(rows[t]), Open(t),
           NEW phase, NEW subject, Note(t, Log(t, phase, subject))
    PROVE  /\ OnlyIn(t, "log")
           /\ rows'[t].log = Append(rows[t].log,
                                    [phase |-> phase, subject |-> subject])
<1> DEFINE r == rows[t]
           x == Append(rows[t].log, [phase |-> phase, subject |-> subject])
<1>1. r \in [outcome : {r.outcome}, status : {r.status}, calls : {r.calls},
            shown : {r.shown}, answers : {r.answers}, log : {r.log},
            completed : {r.completed}]
  BY DEF IsRow
<1>2. rows'[t] = [r EXCEPT !.log = x]
  BY DEF Note, Open, Log
<1> HIDE DEF r, x
<1>3. OnlyIn(t, "log") /\ rows'[t].log = x
  BY <1>1, <1>2 DEF OnlyIn, r
<1> QED
  BY <1>3 DEF x

LEMMA CallsField ==
    ASSUME DOMAIN rows = Threads, NEW t \in Threads, IsRow(rows[t]), Open(t),
           NEW tok, NEW answers, Note(t, Called(t, tok, answers))
    PROVE  /\ OnlyIn(t, "calls")
           /\ rows'[t].calls = Append(rows[t].calls,
                                      CallRow(tok, answers, NoToken))
<1> DEFINE r == rows[t]
           x == Append(rows[t].calls, CallRow(tok, answers, NoToken))
<1>1. r \in [outcome : {r.outcome}, status : {r.status}, calls : {r.calls},
            shown : {r.shown}, answers : {r.answers}, log : {r.log},
            completed : {r.completed}]
  BY DEF IsRow
<1>2. rows'[t] = [r EXCEPT !.calls = x]
  BY DEF Note, Open, Called, CallRow
<1> HIDE DEF r, x
<1>3. OnlyIn(t, "calls") /\ rows'[t].calls = x
  BY <1>1, <1>2 DEF OnlyIn, r
<1> QED
  BY <1>3 DEF x

LEMMA NoteFields ==
    ASSUME DOMAIN rows = Threads, NEW t \in Threads, IsRow(rows[t]), Open(t)
    PROVE  /\ Note(t, CallReturned(t)) =>
                  /\ OnlyIn(t, "calls")
                  /\ rows'[t].calls = [rows[t].calls EXCEPT
                         ![Len(rows[t].calls)].received = inbox[t].token]
           /\ \A x : Note(t, [rows[t] EXCEPT !.shown = x]) =>
                  OnlyIn(t, "shown") /\ rows'[t].shown = x
           /\ \A x : Note(t, [rows[t] EXCEPT !.answers = x]) =>
                  OnlyIn(t, "answers") /\ rows'[t].answers = x
           /\ \A x, y : Note(t, [rows[t] EXCEPT !.shown = x, !.answers = y]) =>
                  /\ rows'[t].shown = x /\ rows'[t].answers = y
                  /\ rows'[t].calls = rows[t].calls
                  /\ rows'[t].log = rows[t].log
           /\ \A outcome : Note(t, Over(t, outcome)) =>
                  /\ OnlyIn(t, "over") /\ rows'[t].outcome = outcome
                  /\ rows'[t].status = ckpt'[t].status
                  /\ rows'[t].completed = Subjects(t)
<1> DEFINE r == rows[t]
<1>1. r \in [outcome : {r.outcome}, status : {r.status}, calls : {r.calls},
            shown : {r.shown}, answers : {r.answers}, log : {r.log},
            completed : {r.completed}]
  BY DEF IsRow
<1>2. \A row : Note(t, row) => rows'[t] = row
  BY DEF Note, Open
<1> HIDE DEF r
<1>4. ASSUME NEW x, rows'[t] = [r EXCEPT !.calls = x]
      PROVE  OnlyIn(t, "calls") /\ rows'[t].calls = x
  BY <1>1, <1>4 DEF OnlyIn, r
<1>5. ASSUME NEW x, rows'[t] = [r EXCEPT !.shown = x]
      PROVE  OnlyIn(t, "shown") /\ rows'[t].shown = x
  BY <1>1, <1>5 DEF OnlyIn, r
<1>6. ASSUME NEW x, rows'[t] = [r EXCEPT !.answers = x]
      PROVE  OnlyIn(t, "answers") /\ rows'[t].answers = x
  BY <1>1, <1>6 DEF OnlyIn, r
<1>7. ASSUME NEW x, NEW y, rows'[t] = [r EXCEPT !.shown = x, !.answers = y]
      PROVE  /\ rows'[t].shown = x /\ rows'[t].answers = y
             /\ rows'[t].calls = rows[t].calls /\ rows'[t].log = rows[t].log
  BY <1>1, <1>7 DEF r
<1>11. ASSUME Note(t, CallReturned(t))
       PROVE  /\ OnlyIn(t, "calls")
              /\ rows'[t].calls = [rows[t].calls EXCEPT
                     ![Len(rows[t].calls)].received = inbox[t].token]
  <2> DEFINE x == [rows[t].calls EXCEPT
                     ![Len(rows[t].calls)].received = inbox[t].token]
  <2>1. rows'[t] = [r EXCEPT !.calls = x]
    BY <1>2, <1>11 DEF CallReturned, r
  <2> HIDE DEF x
  <2>2. OnlyIn(t, "calls") /\ rows'[t].calls = x
    BY <1>4, <2>1
  <2> QED
    BY <2>2 DEF x
<1>12. ASSUME NEW outcome, Note(t, Over(t, outcome))
       PROVE  /\ OnlyIn(t, "over") /\ rows'[t].outcome = outcome
              /\ rows'[t].status = ckpt'[t].status
              /\ rows'[t].completed = Subjects(t)
  <2> DEFINE y == ckpt'[t].status
             z == Subjects(t)
             new == [r EXCEPT !.outcome = outcome, !.status = y,
                              !.completed = z]
  <2>1. rows'[t] = new
    BY <1>2, <1>12, Zenon DEF Over, r
  <2> HIDE DEF y, z
  <2>2. new \in [outcome : {outcome}, status : {y}, calls : {r.calls},
                shown : {r.shown}, answers : {r.answers}, log : {r.log},
                completed : {z}]
    BY <1>1
  <2> HIDE DEF new
  <2>3. /\ new.outcome = outcome /\ new.status = y /\ new.completed = z
        /\ new.calls = r.calls /\ new.shown = r.shown
        /\ new.answers = r.answers /\ new.log = r.log
    BY <2>2
  <2> QED
    BY <2>1, <2>3 DEF OnlyIn, r, y, z
<1>13. ASSUME NEW x, Note(t, [rows[t] EXCEPT !.shown = x])
       PROVE  OnlyIn(t, "shown") /\ rows'[t].shown = x
  BY <1>2, <1>5, <1>13, Zenon DEF r
<1>14. ASSUME NEW x, Note(t, [rows[t] EXCEPT !.answers = x])
       PROVE  OnlyIn(t, "answers") /\ rows'[t].answers = x
  BY <1>2, <1>6, <1>14, Zenon DEF r
<1>15. ASSUME NEW x, NEW y, Note(t, [rows[t] EXCEPT !.shown = x, !.answers = y])
       PROVE  /\ rows'[t].shown = x /\ rows'[t].answers = y
              /\ rows'[t].calls = rows[t].calls /\ rows'[t].log = rows[t].log
  BY <1>2, <1>7, <1>15, Zenon DEF r
<1> QED
  BY <1>11, <1>12, <1>13, <1>14, <1>15, Zenon

\* Rows that are over stay.
LEMMA NoteOver ==
    ASSUME NEW t, ~ Open(t), NEW row, Note(t, row)
    PROVE  rows' = rows
BY DEF Note, Open

\* What the steps append to a row's logs.
LEMMA CallsExtended ==
    ASSUME NEW t, NEW calls, NEW c \in Nat, CallsAre(t, calls, c, c),
           NEW tok, tok = IF c = 0 THEN NoToken ELSE StateAt(t, c), NEW answers
    PROVE  CallsAre(t, Append(calls, CallRow(tok, answers, NoToken)), c + 1, c)
<1> DEFINE new == CallRow(tok, answers, NoToken)
           longer == Append(calls, new)
<1>1. new.answers = answers
  BY DEF CallRow
<1> HIDE DEF new
<1>2. /\ IsLog(longer) /\ Len(longer) = c + 1
      /\ \A i \in 1 .. c : longer[i] = calls[i]
      /\ longer[c + 1] = new
  BY LogGrows DEF CallsAre
<1> HIDE DEF longer
<1>3. ASSUME NEW i \in 1 .. c
      PROVE  longer[i] = CallRow(IF i = 1 THEN NoToken ELSE StateAt(t, i - 1),
                             longer[i].answers,
                             IF i <= c THEN StateAt(t, i) ELSE NoToken)
  BY <1>2 DEF CallsAre
<1>4. longer[c + 1] = CallRow(IF c + 1 = 1 THEN NoToken
                              ELSE StateAt(t, c + 1 - 1),
                          longer[c + 1].answers,
                          IF c + 1 <= c THEN StateAt(t, c + 1) ELSE NoToken)
  <2>1. new = CallRow(tok, new.answers, NoToken)
    BY <1>1 DEF new
  <2> QED
    BY <1>2, <2>1
<1>5. ASSUME NEW i \in 1 .. c + 1
      PROVE  longer[i] = CallRow(IF i = 1 THEN NoToken ELSE StateAt(t, i - 1),
                             longer[i].answers,
                             IF i <= c THEN StateAt(t, i) ELSE NoToken)
  BY <1>3, <1>4
<1>6. CallsAre(t, longer, c + 1, c)
  BY <1>2, <1>5 DEF CallsAre
<1> QED
  BY <1>6 DEF longer, new

LEMMA CallsReturned ==
    ASSUME NEW t, NEW calls, NEW c \in Nat, CallsAre(t, calls, c + 1, c),
           NEW tok
    PROVE  LET new == [calls EXCEPT ![Len(calls)].received = tok]
           IN  /\ tok = StateAt(t, c + 1) => CallsAre(t, new, c + 1, c + 1)
               /\ tok = NoToken => CallsAre(t, new, c + 1, c)
<1> DEFINE last == CallRow(IF c + 1 = 1 THEN NoToken ELSE StateAt(t, c),
                           calls[c + 1].answers, NoToken)
           then == CallRow(IF c + 1 = 1 THEN NoToken ELSE StateAt(t, c),
                           calls[c + 1].answers, tok)
           new == [calls EXCEPT ![Len(calls)].received = tok]
<1>1. /\ IsLog(calls) /\ Len(calls) = c + 1 /\ DOMAIN calls = 1 .. c + 1
      /\ calls[c + 1] = last
      /\ \A i \in 1 .. c :
             calls[i] = CallRow(IF i = 1 THEN NoToken ELSE StateAt(t, i - 1),
                            calls[i].answers, StateAt(t, i))
  BY LogLength DEF CallsAre
<1>2. [last EXCEPT !.received = tok] = then /\ then.answers = calls[c + 1].answers
  BY DEF CallRow
<1>3. new = [calls EXCEPT ![c + 1] = then]
  BY <1>1, <1>2
<1> HIDE DEF last, then, new
<1>4. IsLog(new) /\ Len(new) = c + 1
  <2>1. PICK S : calls \in Seq(S)
    BY <1>1 DEF IsLog
  <2>2. calls \in Seq(S \cup {then})
    BY <2>1
  <2>3. new \in Seq(S \cup {then}) /\ Len(new) = c + 1
    BY <1>1, <1>3, <2>2
  <2> QED
    BY <2>3 DEF IsLog
<1>5. new[c + 1] = then /\ \A i \in 1 .. c : new[i] = calls[i]
  BY <1>1, <1>3
<1>6. ASSUME NEW g \in {c, c + 1},
             tok = IF c + 1 <= g THEN StateAt(t, c + 1) ELSE NoToken
      PROVE  CallsAre(t, new, c + 1, g)
  <2>1. ASSUME NEW i \in 1 .. c
        PROVE  new[i] = CallRow(IF i = 1 THEN NoToken ELSE StateAt(t, i - 1),
                            new[i].answers,
                            IF i <= g THEN StateAt(t, i) ELSE NoToken)
    BY <1>1, <1>5
  <2>2. new[c + 1] = CallRow(IF c + 1 = 1 THEN NoToken
                             ELSE StateAt(t, c + 1 - 1),
                         new[c + 1].answers,
                         IF c + 1 <= g THEN StateAt(t, c + 1) ELSE NoToken)
    BY <1>2, <1>5, <1>6 DEF then
  <2>3. ASSUME NEW i \in 1 .. c + 1
        PROVE  new[i] = CallRow(IF i = 1 THEN NoToken ELSE StateAt(t, i - 1),
                            new[i].answers,
                            IF i <= g THEN StateAt(t, i) ELSE NoToken)
    BY <2>1, <2>2
  <2> QED
    BY <1>4, <2>3 DEF CallsAre
<1>7. /\ tok = StateAt(t, c + 1) => CallsAre(t, new, c + 1, c + 1)
      /\ tok = NoToken => CallsAre(t, new, c + 1, c)
  BY <1>6
<1> QED
  BY <1>7 DEF new

LEMMA LogExtends ==
    ASSUME NEW t, NEW log, NEW l \in Nat, LogIs(t, log, l)
    PROVE  LogIs(t, Append(log, EntryNo(t, l + 1)), l + 1)
<1> DEFINE longer == Append(log, EntryNo(t, l + 1))
<1>1. /\ IsLog(longer) /\ Len(longer) = l + 1
      /\ \A i \in 1 .. l : longer[i] = log[i]
      /\ longer[l + 1] = EntryNo(t, l + 1)
  BY LogGrows DEF LogIs
<1> HIDE DEF longer
<1>2. \A i \in 1 .. l + 1 : longer[i] = EntryNo(t, i)
  BY <1>1 DEF LogIs
<1>3. LogIs(t, longer, l + 1)
  BY <1>1, <1>2 DEF LogIs
<1> QED
  BY <1>3 DEF longer

LEMMA ShownExtended ==
    ASSUME NEW t, NEW forms, NEW s \in Nat, ShownAre(t, forms, s)
    PROVE  ShownAre(t, Append(forms, FormNo(t, s + 1)), s + 1)
<1> DEFINE longer == Append(forms, FormNo(t, s + 1))
<1>1. /\ IsLog(longer) /\ Len(longer) = s + 1
      /\ \A i \in 1 .. s : longer[i] = forms[i]
      /\ longer[s + 1] = FormNo(t, s + 1)
  BY LogGrows DEF ShownAre
<1> HIDE DEF longer
<1>2. \A i \in 1 .. s + 1 : longer[i] = FormNo(t, i)
  BY <1>1 DEF ShownAre
<1>3. ShownAre(t, longer, s + 1)
  BY <1>1, <1>2 DEF ShownAre
<1> QED
  BY <1>3 DEF longer

LEMMA AnswersExtended ==
    ASSUME NEW t, NEW answers, NEW a \in Nat, AnswersAre(t, answers, a),
           a > 0 => answers[a] = YesTo(KeyAt(t, a)),
           NEW x \in AnswerMaps, DOMAIN x = {KeyAt(t, a + 1)}
    PROVE  /\ AnswersAre(t, Append(answers, x), a + 1)
           /\ Append(answers, x)[a + 1] = x
<1> DEFINE longer == Append(answers, x)
<1>1. /\ IsLog(longer) /\ Len(longer) = a + 1
      /\ \A i \in 1 .. a : longer[i] = answers[i]
      /\ longer[a + 1] = x
  BY LogGrows DEF AnswersAre
<1> HIDE DEF longer
<1>2. \A i \in 1 .. a + 1 : /\ DOMAIN longer[i] = {KeyAt(t, i)}
                            /\ longer[i] \in AnswerMaps
  BY <1>1 DEF AnswersAre
<1>3. ASSUME NEW i \in 1 .. a + 1 - 1
      PROVE  longer[i] = YesTo(KeyAt(t, i))
  <2>1. i \in 1 .. a /\ (i = a \/ i \in 1 .. a - 1)
    OBVIOUS
  <2> QED
    BY <1>1, <2>1 DEF AnswersAre
<1>4. AnswersAre(t, longer, a + 1)
  BY <1>1, <1>2, <1>3 DEF AnswersAre
<1> QED
  BY <1>1, <1>4 DEF longer

-----------------------------------------------------------------------------
\* What a step of an open thread, and of no other case, does to its row.
Moves(t) == ExerciseInv /\ t \in Threads /\ SPECS' = SPECS /\ path' = path

LEMMA MovesRow ==
    ASSUME NEW t, Moves(t)
    PROVE  /\ DOMAIN rows = Threads /\ t \in Threads /\ IsRow(rows[t])
           /\ path' = path /\ SPECS' = SPECS
BY DEF Moves, ExerciseInv, Books

\* A row that keeps all but the logs in which the step writes.
LEMMA RowIsNow ==
    ASSUME NEW t, Moves(t), NEW c, NEW g, NEW l, NEW s, NEW a,
           CallsAre(t, rows'[t].calls, c, g), LogIs(t, rows'[t].log, l),
           ShownAre(t, rows'[t].shown, s), AnswersAre(t, rows'[t].answers, a)
    PROVE  RowIs(t, c, g, l, s, a)'
<1>1. path' = path /\ SPECS' = SPECS
  BY MovesRow
<1>2. /\ \A x : CallsAre(t, x, c, g)' <=> CallsAre(t, x, c, g)
      /\ \A x : LogIs(t, x, l)' <=> LogIs(t, x, l)
      /\ \A x : ShownAre(t, x, s)' <=> ShownAre(t, x, s)
      /\ \A x : AnswersAre(t, x, a)' <=> AnswersAre(t, x, a)
  BY <1>1, CaseKept
<1> QED
  BY <1>2 DEF RowIs

\* An answer is read as before, where it is the same.
LEMMA AnswerKept ==
    ASSUME NEW t, Moves(t), NEW s, rows'[t].answers[s] = rows[t].answers[s]
    PROVE  (Yes(t, s)' <=> Yes(t, s)) /\ (Accepts(t, s)' <=> Accepts(t, s))
<1>1. KeyAt(t, s)' = KeyAt(t, s)
  BY MovesRow, CaseKept
<1> QED
  BY <1>1 DEF Yes, YesTo, Accepts

LEMMA RowSame ==
    ASSUME NEW t, Moves(t), NEW c, NEW g, NEW l, NEW s, NEW a,
           RowIs(t, c, g, l, s, a), rows'[t] = rows[t]
    PROVE  RowIs(t, c, g, l, s, a)'
BY RowIsNow DEF RowIs

LEMMA RowLogs ==
    ASSUME NEW t, Moves(t), Open(t),
           NEW c, NEW g, NEW l \in Nat, NEW s, NEW a, RowIs(t, c, g, l, s, a),
           Note(t, Log(t, EntryNo(t, l + 1).phase, EntryNo(t, l + 1).subject))
    PROVE  /\ RowIs(t, c, g, l + 1, s, a)' /\ Open(t)'
           /\ rows'[t].answers = rows[t].answers
<1> DEFINE p == EntryNo(t, l + 1).phase
           q == EntryNo(t, l + 1).subject
<1>0. /\ DOMAIN rows = Threads /\ t \in Threads /\ IsRow(rows[t])
      /\ \A u \in Threads : IsRow(rows[u])
  BY DEF Moves, ExerciseInv, Books
<1>1. [phase |-> p, subject |-> q] = EntryNo(t, l + 1)
  BY DEF EntryNo
<1> HIDE DEF p, q
<1>2. Note(t, Log(t, p, q))
  BY DEF p, q
<1>3. /\ OnlyIn(t, "log")
      /\ rows'[t].log = Append(rows[t].log, EntryNo(t, l + 1))
  <2>1. /\ OnlyIn(t, "log")
        /\ rows'[t].log = Append(rows[t].log, [phase |-> p, subject |-> q])
    BY <1>0, <1>2, LogField
  <2> QED
    BY <1>1, <2>1, Zenon
<1>4. /\ CallsAre(t, rows[t].calls, c, g) /\ LogIs(t, rows[t].log, l)
      /\ ShownAre(t, rows[t].shown, s) /\ AnswersAre(t, rows[t].answers, a)
  BY DEF RowIs
<1>5. LogIs(t, rows'[t].log, l + 1)
  BY <1>3, <1>4, LogExtends
<1>6. RowIs(t, c, g, l + 1, s, a)'
  BY <1>3, <1>4, <1>5, RowIsNow DEF OnlyIn
<1>7. Open(t)'
  BY <1>2, LogKept DEF Moves
<1> QED
  BY <1>3, <1>6, <1>7 DEF OnlyIn

LEMMA RowCalls ==
    ASSUME NEW t, Moves(t), Open(t),
           NEW c \in Nat, NEW l, NEW s, NEW a, RowIs(t, c, c, l, s, a),
           NEW tok, NEW answers,
           c = 0 => tok = NoToken, c > 0 => tok = StateAt(t, c),
           Note(t, Called(t, tok, answers))
    PROVE  /\ RowIs(t, c + 1, c, l, s, a)' /\ Open(t)'
           /\ rows'[t].answers = rows[t].answers
<1>0. /\ DOMAIN rows = Threads /\ t \in Threads /\ IsRow(rows[t])
      /\ \A u \in Threads : IsRow(rows[u])
  BY DEF Moves, ExerciseInv, Books
<1>1. /\ OnlyIn(t, "calls")
      /\ rows'[t].calls = Append(rows[t].calls, CallRow(tok, answers, NoToken))
  BY <1>0, CallsField
<1>2. /\ CallsAre(t, rows[t].calls, c, c) /\ LogIs(t, rows[t].log, l)
      /\ ShownAre(t, rows[t].shown, s) /\ AnswersAre(t, rows[t].answers, a)
  BY DEF RowIs
<1>3. CallsAre(t, rows'[t].calls, c + 1, c)
  <2>1. tok = IF c = 0 THEN NoToken ELSE StateAt(t, c)
    OBVIOUS
  <2> QED
    BY <1>1, <1>2, <2>1, CallsExtended
<1>4. RowIs(t, c + 1, c, l, s, a)'
  BY <1>1, <1>2, <1>3, RowIsNow DEF OnlyIn
<1>5. rows'[t].outcome = rows[t].outcome
  BY <1>0, NotesKept, Zenon
<1> QED
  BY <1>1, <1>4, <1>5 DEF OnlyIn, Open

LEMMA RowReceives ==
    ASSUME NEW t, Moves(t), Open(t),
           NEW c \in Nat, NEW l, NEW s, NEW a, RowIs(t, c + 1, c, l, s, a),
           Note(t, CallReturned(t))
    PROVE  /\ inbox[t].token = StateAt(t, c + 1)
                  => RowIs(t, c + 1, c + 1, l, s, a)'
           /\ inbox[t].token = NoToken => RowIs(t, c + 1, c, l, s, a)'
           /\ rows'[t].answers = rows[t].answers /\ Open(t)'
<1>0. /\ DOMAIN rows = Threads /\ t \in Threads /\ IsRow(rows[t])
      /\ \A u \in Threads : IsRow(rows[u])
  BY DEF Moves, ExerciseInv, Books
<1>1. /\ OnlyIn(t, "calls")
      /\ rows'[t].calls = [rows[t].calls EXCEPT
                               ![Len(rows[t].calls)].received = inbox[t].token]
  BY <1>0, NoteFields, Zenon
<1>2. /\ CallsAre(t, rows[t].calls, c + 1, c) /\ LogIs(t, rows[t].log, l)
      /\ ShownAre(t, rows[t].shown, s) /\ AnswersAre(t, rows[t].answers, a)
  BY DEF RowIs
<1>3. /\ inbox[t].token = StateAt(t, c + 1)
             => CallsAre(t, rows'[t].calls, c + 1, c + 1)
      /\ inbox[t].token = NoToken => CallsAre(t, rows'[t].calls, c + 1, c)
  <2>1. LET new == [rows[t].calls EXCEPT
                        ![Len(rows[t].calls)].received = inbox[t].token]
        IN  /\ inbox[t].token = StateAt(t, c + 1)
                   => CallsAre(t, new, c + 1, c + 1)
            /\ inbox[t].token = NoToken => CallsAre(t, new, c + 1, c)
    BY <1>2, CallsReturned
  <2> QED
    BY <1>1, <2>1
<1>4. rows'[t].outcome = rows[t].outcome
  BY <1>0, NotesKept, Zenon
<1>5. /\ inbox[t].token = StateAt(t, c + 1)
             => RowIs(t, c + 1, c + 1, l, s, a)'
      /\ inbox[t].token = NoToken => RowIs(t, c + 1, c, l, s, a)'
  BY <1>1, <1>2, <1>3, RowIsNow DEF OnlyIn
<1> QED
  BY <1>1, <1>4, <1>5 DEF OnlyIn, Open

LEMMA RowShows ==
    ASSUME NEW t, Moves(t), Open(t),
           NEW c, NEW g, NEW l, NEW s \in Nat, NEW a, RowIs(t, c, g, l, s, a),
           NEW form, form = FormNo(t, s + 1),
           Note(t, [rows[t] EXCEPT !.shown = Append(rows[t].shown, form)])
    PROVE  /\ RowIs(t, c, g, l, s + 1, a)' /\ Open(t)'
           /\ rows'[t].answers = rows[t].answers
<1> DEFINE x == Append(rows[t].shown, form)
<1> HIDE DEF x
<1>0. /\ DOMAIN rows = Threads /\ t \in Threads /\ IsRow(rows[t])
      /\ \A u \in Threads : IsRow(rows[u])
  BY DEF Moves, ExerciseInv, Books
<1>1. OnlyIn(t, "shown") /\ rows'[t].shown = x
  BY <1>0, NoteFields, Zenon DEF x
<1>2. /\ CallsAre(t, rows[t].calls, c, g) /\ LogIs(t, rows[t].log, l)
      /\ ShownAre(t, rows[t].shown, s) /\ AnswersAre(t, rows[t].answers, a)
  BY DEF RowIs
<1>3. ShownAre(t, rows'[t].shown, s + 1)
  BY <1>1, <1>2, ShownExtended DEF x
<1>4. RowIs(t, c, g, l, s + 1, a)'
  BY <1>1, <1>2, <1>3, RowIsNow DEF OnlyIn
<1>5. rows'[t].outcome = rows[t].outcome
  BY <1>0, NotesKept, Zenon DEF x
<1> QED
  BY <1>1, <1>4, <1>5 DEF OnlyIn, Open

LEMMA RowAnswers ==
    ASSUME NEW t, Moves(t), Open(t),
           NEW c, NEW g, NEW l, NEW s, NEW a \in Nat, RowIs(t, c, g, l, s, a),
           a > 0 => Yes(t, a),
           NEW answers \in AnswerMaps, DOMAIN answers = {KeyAt(t, a + 1)},
           Note(t, [rows[t] EXCEPT !.answers = Append(rows[t].answers, answers)])
    PROVE  /\ RowIs(t, c, g, l, s, a + 1)' /\ Open(t)'
           /\ rows'[t].answers[a + 1] = answers
<1> DEFINE x == Append(rows[t].answers, answers)
<1> HIDE DEF x
<1>0. /\ DOMAIN rows = Threads /\ t \in Threads /\ IsRow(rows[t])
      /\ \A u \in Threads : IsRow(rows[u])
  BY DEF Moves, ExerciseInv, Books
<1>1. OnlyIn(t, "answers") /\ rows'[t].answers = x
  BY <1>0, NoteFields, Zenon DEF x
<1>2. /\ CallsAre(t, rows[t].calls, c, g) /\ LogIs(t, rows[t].log, l)
      /\ ShownAre(t, rows[t].shown, s) /\ AnswersAre(t, rows[t].answers, a)
  BY DEF RowIs
<1>3. /\ AnswersAre(t, rows'[t].answers, a + 1)
      /\ rows'[t].answers[a + 1] = answers
  <2>1. a > 0 => rows[t].answers[a] = YesTo(KeyAt(t, a))
    BY DEF Yes
  <2>2. ASSUME NEW old, AnswersAre(t, old, a),
               a > 0 => old[a] = YesTo(KeyAt(t, a))
        PROVE  /\ AnswersAre(t, Append(old, answers), a + 1)
               /\ Append(old, answers)[a + 1] = answers
    BY <2>2, AnswersExtended
  <2>3. AnswersAre(t, x, a + 1) /\ x[a + 1] = answers
    BY <1>2, <2>1, <2>2, Zenon DEF x
  <2> QED
    BY <1>1, <2>3
<1>4. RowIs(t, c, g, l, s, a + 1)'
  BY <1>1, <1>2, <1>3, RowIsNow DEF OnlyIn
<1>5. rows'[t].outcome = rows[t].outcome
  BY <1>0, NotesKept, Zenon DEF x
<1> QED
  BY <1>3, <1>4, <1>5 DEF Open

LEMMA RowOver ==
    ASSUME NEW t, Moves(t), Open(t), NEW outcome, outcome # "open",
           Note(t, Over(t, outcome))
    PROVE  /\ \A c, g, l, s, a :
                  RowIs(t, c, g, l, s, a) => RowIs(t, c, g, l, s, a)'
           /\ rows'[t].outcome = outcome /\ rows'[t].status = ckpt'[t].status
           /\ rows'[t].completed = Subjects(t)
           /\ rows'[t].answers = rows[t].answers
           /\ rows'[t].shown = rows[t].shown /\ rows'[t].log = rows[t].log
           /\ ~ Open(t)'
<1>0. /\ DOMAIN rows = Threads /\ t \in Threads /\ IsRow(rows[t])
      /\ \A u \in Threads : IsRow(rows[u])
  BY DEF Moves, ExerciseInv, Books
<1>1. /\ OnlyIn(t, "over") /\ rows'[t].outcome = outcome
      /\ rows'[t].status = ckpt'[t].status
      /\ rows'[t].completed = Subjects(t)
  BY <1>0, NoteFields, Zenon
<1>2. ASSUME NEW c, NEW g, NEW l, NEW s, NEW a, RowIs(t, c, g, l, s, a)
      PROVE  RowIs(t, c, g, l, s, a)'
  BY <1>1, <1>2, RowIsNow DEF RowIs, OnlyIn
<1> QED
  BY <1>1, <1>2 DEF OnlyIn, Open

\* What a thread has recorded.
LEMMA SubjectsAre ==
    ASSUME NEW t
    PROVE  /\ Own(t) = {} => Subjects(t) = <<>>
           /\ \A i \in Nat : Own(t) = {i} => Subjects(t) = <<completed[i].subject>>
<1>1. ASSUME Own(t) = {}
      PROVE  Subjects(t) = <<>>
  <2>1. Cardinality(Own(t)) = 0
    BY <1>1, FS_EmptySet
  <2> QED
    BY <1>1, <2>1 DEF Subjects
<1>2. ASSUME NEW i \in Nat, Own(t) = {i}
      PROVE  Subjects(t) = <<completed[i].subject>>
  <2>1. Cardinality(Own(t)) = 1
    BY <1>2, FS_Singleton
  <2>2. {j \in Own(t) : j <= i} = {i}
    BY <1>2
  <2>3. (CHOOSE j \in Own(t) : Cardinality({k \in Own(t) : k <= j}) = 1) = i
    BY <1>2, <2>1, <2>2
  <2>4. ASSUME NEW n \in 1 .. 1
        PROVE  (CHOOSE j \in Own(t) :
                    Cardinality({k \in Own(t) : k <= j}) = n) = i
    <3>1. n = 1
      OBVIOUS
    <3> QED
      BY <2>3, <3>1, Zenon
  <2>5. Subjects(t) = [n \in 1 .. 1 |->
            completed[CHOOSE j \in Own(t) :
                          Cardinality({k \in Own(t) : k <= j}) = n].subject]
    BY <2>1, Zenon DEF Subjects
  <2>6. Subjects(t) = [n \in 1 .. 1 |-> completed[i].subject]
    BY <2>4, <2>5, Zenon
  <2> QED
    BY <2>6
<1> QED
  BY <1>1, <1>2

-----------------------------------------------------------------------------
\* The previews of a thread stay, and are the only ones of it.
SameRecord(t) ==
    Own(t)' = Own(t) /\ \A i \in Own(t) : completed'[i] = completed[i]

LEMMA RecordSame ==
    ASSUME completed' = completed, NEW t
    PROVE  SameRecord(t)
BY DEF SameRecord, Own

LEMMA RecordKept ==
    ASSUME NEW t, SameRecord(t)
    PROVE  /\ Own(t)' = Own(t)
           /\ \A x : Previewed(t, x) => Previewed(t, x)'
<1>1. ASSUME NEW x, Previewed(t, x)
      PROVE  Previewed(t, x)'
  <2>1. PICK i \in DOMAIN completed : Own(t) = {i} /\ completed[i].subject = x
    BY <1>1 DEF Previewed
  <2>2. Own(t)' = {i} /\ completed'[i] = completed[i]
    BY <2>1 DEF SameRecord
  <2>3. i \in DOMAIN completed'
    BY <2>2 DEF Own
  <2> QED
    BY <2>1, <2>2, <2>3 DEF Previewed
<1> QED
  BY <1>1 DEF SameRecord

\* A preview that is recorded is one of its thread's.
LEMMA RecordGrows ==
    ASSUME ExerciseInv, NEW t \in Threads, NEW x \in AllSubjects,
           completed' = Append(completed, [case |-> t, subject |-> x])
    PROVE  /\ \A u \in Threads \ {t} : SameRecord(u)
           /\ Own(t) = {} => Previewed(t, x)'
<1> DEFINE new == [case |-> t, subject |-> x]
           ThisRow == [case : Threads, subject : AllSubjects]
<1>1. /\ new \in ThisRow /\ new.case = t /\ new.subject = x
      /\ completed \in Seq(ThisRow)
  BY DEF ExerciseInv, Books
<1> HIDE DEF new, ThisRow
<1>2. /\ Len(completed) \in Nat /\ DOMAIN completed = 1 .. Len(completed)
      /\ DOMAIN completed' = 1 .. Len(completed) + 1
      /\ \A i \in 1 .. Len(completed) : completed'[i] = completed[i]
      /\ completed'[Len(completed) + 1] = new
  BY <1>1 DEF new
<1>3. /\ DOMAIN completed' = DOMAIN completed \cup {Len(completed) + 1}
      /\ Len(completed) + 1 \notin DOMAIN completed
      /\ \A i \in DOMAIN completed : completed'[i] = completed[i]
  BY <1>2
<1>4. ASSUME NEW u \in Threads \ {t}
      PROVE  SameRecord(u)
  BY <1>1, <1>2, <1>3 DEF SameRecord, Own
<1>5. ASSUME Own(t) = {}
      PROVE  Previewed(t, x)'
  <2>1. Own(t)' = {Len(completed) + 1}
    BY <1>1, <1>2, <1>3, <1>5 DEF Own
  <2> QED
    BY <1>1, <1>2, <1>3, <2>1 DEF Previewed
<1> QED
  BY <1>4, <1>5

\* What the round graph is asked.
LEMMA AskedFacts ==
    ASSUME ExerciseInv, NEW t \in Threads, NEW i \in Nat \ {0}
    PROVE  /\ StateAt(t, i) \in AllStates /\ StateAt(t, i) # NoToken
           /\ QuestionAt(t, i).kind = "input" /\ QuestionAt(t, i) # NoFrame
           /\ QuestionAt(t, i).token = StateAt(t, i)
           /\ QuestionAt(t, i).form = FormNo(t, i)
           /\ FormNo(t, i).keys = {KeyAt(t, i)} /\ FormNo(t, i) # NoForm
           /\ FormNo(t, i).subject = AskedOf(t)
           /\ path[t] # "process_restart" =>
                  FormKey(StateAt(t, i)) = KeyAt(t, i)
           /\ StateAt(t, i).case = t /\ StateAt(t, i).round = i
           /\ StateAt(t, i).subject = AskedOf(t)
<1>1. StateAt(t, i) \in AllStates /\ StateAt(t, i).case = t
      /\ StateAt(t, i).round = i /\ StateAt(t, i).subject = AskedOf(t)
  BY DEF StateAt, AskedOf, AllStates
<1>2. StateAt(t, i) # NoToken
  BY <1>1, StatesAreNoToken
<1>3. /\ FormNo(t, i).keys = {KeyAt(t, i)} /\ FormNo(t, i).subject = AskedOf(t)
      /\ path[t] # "process_restart" => FormKey(StateAt(t, i)) = KeyAt(t, i)
  BY <1>1 DEF FormNo, FormAt, FormOf, KeyAt, RestartForm, AskedOf
<1>4. FormNo(t, i) # NoForm
  BY <1>3 DEF NoForm
<1>5. /\ QuestionAt(t, i).kind = "input" /\ QuestionAt(t, i) # NoFrame
      /\ QuestionAt(t, i).token = StateAt(t, i)
      /\ QuestionAt(t, i).form = FormNo(t, i)
  BY DEF QuestionAt, InputFrame, NoFrame
<1> QED
  BY <1>1, <1>2, <1>3, <1>4, <1>5

LEMMA AskedNext ==
    ASSUME NEW t, NEW i
    PROVE  AtRound(StateAt(t, i), i + 1) = StateAt(t, i + 1)
BY DEF StateAt, AskedOf, AtRound

\* Nothing of a thread changes but that its calls are handled.
Idles(t) ==
    /\ ckpt'[t] = ckpt[t] /\ run'[t] = run[t] /\ shown'[t] = shown[t]
    /\ consent'[t] = consent[t] /\ aborts'[t] = aborts[t]
    /\ inbox'[t] = inbox[t] /\ sequence'[t] = sequence[t]
    /\ rows'[t] = rows[t] /\ issued \subseteq issued' /\ SameRecord(t)
    /\ \A r \in requests' : r.thread = t => r \in requests

LEMMA GraphIdles ==
    ASSUME NEW t, Moves(t), Idles(t)
    PROVE  (GraphWork(t) => GraphWork(t)') /\ (GraphOver(t) => GraphOver(t)')
<1>1. /\ \A i : /\ StateAt(t, i)' = StateAt(t, i)
                /\ FormNo(t, i)' = FormNo(t, i)
                /\ QuestionAt(t, i)' = QuestionAt(t, i)
      /\ path' = path /\ SPECS' = SPECS
  BY CaseKept DEF Moves
<1>2. /\ \A c, g, l, s, a :
             RowIs(t, c, g, l, s, a) => RowIs(t, c, g, l, s, a)'
      /\ \A s : (Yes(t, s)' <=> Yes(t, s)) /\ (Accepts(t, s)' <=> Accepts(t, s))
  BY RowSame, AnswerKept DEF Idles
<1>3. /\ Own(t)' = Own(t) /\ \A x : Previewed(t, x) => Previewed(t, x)'
  BY RecordKept DEF Idles
<1>4. /\ ckpt'[t] = ckpt[t] /\ run'[t] = run[t] /\ shown'[t] = shown[t]
      /\ consent'[t] = consent[t] /\ aborts'[t] = aborts[t]
      /\ inbox'[t] = inbox[t] /\ sequence'[t] = sequence[t]
      /\ rows'[t] = rows[t] /\ issued \subseteq issued'
  BY DEF Idles
<1>5. ASSUME NEW s
      PROVE  /\ IsPending(t, ckpt[t].frame, s) => IsPending(t, ckpt[t].frame, s)'
             /\ IsPending(t, inbox[t], s) => IsPending(t, inbox[t], s)'
             /\ Holds(t, s) => Holds(t, s)'
             /\ EndsAfter(t, s, inbox[t].result)
                    => EndsAfter(t, s, inbox[t].result)'
             /\ EndsAfter(t, s, ckpt[t].frame.result)
                    => EndsAfter(t, s, ckpt[t].frame.result)'
  <2>1. IsPending(t, ckpt[t].frame, s) => IsPending(t, ckpt[t].frame, s)'
    BY <1>1, <1>4 DEF IsPending
  <2>2. IsPending(t, inbox[t], s) => IsPending(t, inbox[t], s)'
    BY <1>1, <1>4 DEF IsPending
  <2>3. Holds(t, s) => Holds(t, s)'
    BY <1>4, <2>1 DEF Holds
  <2>4. EndsAfter(t, s, inbox[t].result) => EndsAfter(t, s, inbox[t].result)'
    BY <1>1, <1>2, <1>3, <1>4 DEF EndsAfter
  <2>5. EndsAfter(t, s, ckpt[t].frame.result)
            => EndsAfter(t, s, ckpt[t].frame.result)'
    BY <1>1, <1>2, <1>3, <1>4 DEF EndsAfter
  <2> QED
    BY <2>1, <2>2, <2>3, <2>4, <2>5
<1>6. ASSUME GraphWork(t)
      PROVE  GraphWork(t)'
  <2>1. Begins(t) => Begins(t)'
    BY <1>2, <1>3, <1>4 DEF Begins
  <2>2. FirstCalled(t) => FirstCalled(t)'
    BY <1>2, <1>3, <1>4 DEF FirstCalled
  <2>3. IsAsked(t) => IsAsked(t)'
    <3>1. IsPending(t, inbox[t], 1) => IsPending(t, inbox[t], 1)'
      BY <1>1, <1>4 DEF IsPending
    <3> QED
      BY <1>2, <1>3, <1>4, <3>1 DEF IsAsked
  <2>4. ASSUME NEW s \in Nat \ {0}
        PROVE  /\ Reviews(t, s) => Reviews(t, s)'
               /\ HasShown(t, s) => HasShown(t, s)'
               /\ Continues(t, s) => Continues(t, s)'
               /\ AnswerSent(t, s) => AnswerSent(t, s)'
               /\ AskedAgain(t, s) => AskedAgain(t, s)'
               /\ Told(t, s) => Told(t, s)'
               /\ Concludes(t, s) => Concludes(t, s)'
    <3>1. Reviews(t, s) => Reviews(t, s)'
      BY <1>2, <1>3, <1>4, <1>5 DEF Reviews
    <3>2. HasShown(t, s) => HasShown(t, s)'
      BY <1>1, <1>2, <1>3, <1>4, <1>5 DEF HasShown
    <3>3. Continues(t, s) => Continues(t, s)'
      BY <1>2, <1>3, <1>4, <1>5 DEF Continues
    <3>4. AnswerSent(t, s) => AnswerSent(t, s)'
      BY <1>2, <1>3, <1>4, <1>5 DEF AnswerSent
    <3>5. AskedAgain(t, s) => AskedAgain(t, s)'
      <4>1. IsPending(t, inbox[t], s + 1) => IsPending(t, inbox[t], s + 1)'
        BY <1>1, <1>4 DEF IsPending
      <4> QED
        BY <1>2, <1>3, <1>4, <1>5, <4>1 DEF AskedAgain
    <3>6. Told(t, s) => Told(t, s)'
      BY <1>2, <1>3, <1>4, <1>5 DEF Told
    <3>7. Concludes(t, s) => Concludes(t, s)'
      BY <1>1, <1>2, <1>3, <1>4, <1>5 DEF Concludes
    <3> QED
      BY <3>1, <3>2, <3>3, <3>4, <3>5, <3>6, <3>7
  <2> QED
    BY <1>4, <1>6, <2>1, <2>2, <2>3, <2>4 DEF GraphWork
<1>7. ASSUME GraphOver(t)
      PROVE  GraphOver(t)'
  <2>1. \A s \in Nat \ {0} : GraphReturned(t, s) => GraphReturned(t, s)'
    BY <1>1, <1>2, <1>4 DEF GraphReturned
  <2> QED
    BY <1>1, <1>2, <1>4, <1>7, <2>1 DEF GraphOver
<1> QED
  BY <1>6, <1>7

\* The cases without the graph do not read what their process is doing.
OneIdles(t) ==
    /\ ckpt'[t] = ckpt[t] /\ shown'[t] = shown[t] /\ aborts'[t] = aborts[t]
    /\ inbox'[t] = inbox[t] /\ sequence'[t] = sequence[t]
    /\ rows'[t] = rows[t] /\ issued \subseteq issued' /\ SameRecord(t)
    /\ \A r \in requests' : r.thread = t =>
           r \in requests \/ (r.token = NoToken /\ r.attempt = 0)

LEMMA CasesKept ==
    ASSUME path' = path, SPECS' = SPECS, NEW t
    PROVE  /\ \A state : FormOf(state)' = FormOf(state)
           /\ First(t)' = First(t) /\ Second(t)' = Second(t)
           /\ ToFirst(t)' = ToFirst(t) /\ OwnAnswers(t)' = OwnAnswers(t)
           /\ \A answers : Records(t, answers)' <=> Records(t, answers)
<1>1. \A state : FormOf(state)' = FormOf(state) /\ FormKey(state)' = FormKey(state)
  BY DEF FormOf, FormKey
<1>2. First(t)' = First(t) /\ Second(t)' = Second(t)
  BY DEF First, Second
<1>3. ToFirst(t)' = ToFirst(t) /\ OwnAnswers(t)' = OwnAnswers(t)
  BY <1>1, <1>2 DEF ToFirst, OwnAnswers, YesTo
<1>4. \A answers : Records(t, answers)' <=> Records(t, answers)
  BY <1>3 DEF Records
<1> QED
  BY <1>1, <1>2, <1>3, <1>4

LEMMA AdapterIdles ==
    ASSUME NEW t, Moves(t), OneIdles(t)
    PROVE  /\ AdapterWork(t) => AdapterWork(t)'
           /\ AdapterOver(t) => AdapterOver(t)'
<1>1. /\ \A state : FormOf(state)' = FormOf(state)
      /\ First(t)' = First(t) /\ Second(t)' = Second(t)
      /\ ToFirst(t)' = ToFirst(t) /\ OwnAnswers(t)' = OwnAnswers(t)
      /\ \A answers : Records(t, answers)' <=> Records(t, answers)
      /\ path' = path /\ SPECS' = SPECS
  BY CasesKept DEF Moves
<1>2. Own(t)' = Own(t) /\ \A x : Previewed(t, x) => Previewed(t, x)'
  BY RecordKept DEF OneIdles
<1>3. /\ ckpt'[t] = ckpt[t] /\ shown'[t] = shown[t]
      /\ aborts'[t] = aborts[t] /\ inbox'[t] = inbox[t]
      /\ rows'[t] = rows[t] /\ issued \subseteq issued'
      /\ \A r \in requests' : r.thread = t =>
             r \in requests \/ (r.token = NoToken /\ r.attempt = 0)
  BY DEF OneIdles
<1>4. ASSUME AdapterWork(t)
      PROVE  AdapterWork(t)'
  <2>1. OneAttempt(t)'
    BY <1>3, <1>4 DEF AdapterWork, OneAttempt
  <2>2. \A r \in requests' : r.thread = t /\ r.token # NoToken =>
               /\ ckpt[t].answers # NoAnswers /\ r.answers = ckpt[t].answers
               /\ Second(t) \in issued
    BY <1>3, <1>4 DEF AdapterWork, OneIdles
  <2>3. IF inbox[t].kind = "terminal" /\ Records(t, ckpt[t].answers)
        THEN Previewed(t, Second(t).subject) /\ inbox[t].result.isError = FALSE
        ELSE Own(t) = {}
    BY <1>4 DEF AdapterWork
  <2>4. IF inbox'[t].kind = "terminal" /\ Records(t, ckpt[t].answers)'
        THEN Previewed(t, Second(t).subject)' /\ inbox'[t].result.isError = FALSE
        ELSE Own(t)' = {}
    <3>1. Records(t, ckpt[t].answers)' <=> Records(t, ckpt[t].answers)
      BY <1>1, <1>3 DEF Records
    <3>2. Previewed(t, Second(t).subject) => Previewed(t, Second(t).subject)'
      <4>1. Previewed(t, Second(t).subject)' <=>
                \E i \in DOMAIN completed' :
                    Own(t)' = {i} /\ completed'[i].subject = Second(t).subject
        BY <1>1 DEF Previewed
      <4> QED
        BY <1>2, <4>1 DEF Previewed
    <3> QED
      BY <1>2, <1>3, <2>3, <3>1, <3>2
  <2> QED
    BY <1>1, <1>3, <1>4, <2>1, <2>2, <2>4 DEF AdapterWork
<1>5. ASSUME AdapterOver(t)
      PROVE  AdapterOver(t)'
  <2>1. \A answers : AdapterReturned(t, answers) => AdapterReturned(t, answers)'
    BY <1>1, <1>3 DEF AdapterReturned
  <2> QED
    BY <1>1, <1>3, <1>5, <2>1 DEF AdapterOver
<1> QED
  BY <1>4, <1>5

LEMMA DirectIdles ==
    ASSUME NEW t, Moves(t), OneIdles(t)
    PROVE  (DirectWork(t) => DirectWork(t)') /\ (DirectOver(t) => DirectOver(t)')
<1>1. /\ \A state : FormOf(state)' = FormOf(state)
      /\ First(t)' = First(t) /\ ToFirst(t)' = ToFirst(t)
  BY CasesKept DEF Moves
<1>2. /\ Own(t)' = Own(t)
      /\ Previewed(t, "draft-A") => Previewed(t, "draft-A")'
  BY RecordKept DEF OneIdles
<1>3. /\ ckpt'[t] = ckpt[t] /\ shown'[t] = shown[t]
      /\ aborts'[t] = aborts[t] /\ inbox'[t] = inbox[t]
      /\ sequence'[t] = sequence[t]
      /\ rows'[t] = rows[t] /\ issued \subseteq issued'
      /\ \A r \in requests' : r.thread = t =>
             r \in requests \/ (r.token = NoToken /\ r.attempt = 0)
  BY DEF OneIdles
<1>4. DirectKept(t)' <=> DirectKept(t)
  BY <1>1, <1>3 DEF DirectKept
<1>5. ASSUME DirectWork(t)
      PROVE  DirectWork(t)'
  <2>1. OneAttempt(t)'
    BY <1>3, <1>5 DEF DirectWork, OneAttempt
  <2>2. \A r \in requests' : r.thread = t /\ r.token # NoToken =>
            r.token = First(t) /\ r.answers = ToFirst(t)
    BY <1>3, <1>5 DEF DirectWork
  <2>3. InputFrame(First(t), FormOf(First(t)))' = InputFrame(First(t), FormOf(First(t)))
    BY <1>1 DEF InputFrame
  <2>4. shown[t] = NoForm =>
           /\ inbox[t].kind # "terminal" /\ Own(t) = {}
           /\ inbox[t] = NoFrame => rows[t].log = <<>> /\ sequence[t] = 0
           /\ inbox[t].kind = "input" =>
                  /\ inbox[t] = InputFrame(First(t), FormOf(First(t)))
                  /\ First(t) \in issued /\ rows[t].log = OneEntry
    BY <1>5 DEF DirectWork
  <2>5. shown[t] # NoForm =>
           /\ DirectKept(t) /\ inbox[t].kind # "input" /\ First(t) \in issued
           /\ IF inbox[t].kind = "terminal"
              THEN Previewed(t, "draft-A") /\ rows[t].log = TwoEntries
              ELSE Own(t) = {} /\ rows[t].log = OneEntry
    BY <1>5 DEF DirectWork
  <2>6. shown'[t] \in {NoForm, FormOf(First(t))'}
    BY <1>1, <1>3, <1>5 DEF DirectWork
  <2>7. shown'[t] = NoForm =>
           /\ inbox'[t].kind # "terminal" /\ Own(t)' = {}
           /\ inbox'[t] = NoFrame => rows'[t].log = <<>> /\ sequence'[t] = 0
           /\ inbox'[t].kind = "input" =>
                  /\ inbox'[t] = InputFrame(First(t), FormOf(First(t)))'
                  /\ First(t)' \in issued' /\ rows'[t].log = OneEntry
    BY <1>1, <1>2, <1>3, <2>3, <2>4
  <2>8. shown'[t] # NoForm =>
           /\ DirectKept(t)' /\ inbox'[t].kind # "input"
           /\ First(t)' \in issued'
           /\ IF inbox'[t].kind = "terminal"
              THEN Previewed(t, "draft-A")' /\ rows'[t].log = TwoEntries
              ELSE Own(t)' = {} /\ rows'[t].log = OneEntry
    BY <1>1, <1>2, <1>3, <1>4, <2>5
  <2>9. \A r \in requests' : r.thread = t /\ r.token # NoToken =>
            r.token = First(t)' /\ r.answers = ToFirst(t)'
    BY <1>1, <2>2
  <2>10. NoForm' = NoForm /\ NoFrame' = NoFrame /\ OneEntry' = OneEntry
         /\ TwoEntries' = TwoEntries
    BY DEF NoForm, NoFrame, OneEntry, TwoEntries
  <2> QED
    BY <2>1, <2>6, <2>7, <2>8, <2>9, <2>10, Zenon DEF DirectWork
<1>6. ASSUME DirectOver(t)
      PROVE  DirectOver(t)'
  BY <1>3, <1>4, <1>6 DEF DirectOver
<1> QED
  BY <1>5, <1>6

\* A case that waits, or is over, is what it was.
LEMMA DrivesIdle ==
    ASSUME NEW t, Moves(t), Idles(t), Drives(t)
    PROVE  Drives(t)'
<1>1. /\ Entry(t)' /\ (OfGraph(t)' <=> OfGraph(t)) /\ path' = path
      /\ (Open(t)' <=> Open(t))
  BY CaseKept DEF Moves, Drives, Idles, Open
<1>2. OneIdles(t)
  BY DEF Idles, OneIdles
<1>3. /\ GraphWork(t) => GraphWork(t)'
      /\ GraphOver(t) => GraphOver(t)'
      /\ AdapterWork(t) => AdapterWork(t)'
      /\ AdapterOver(t) => AdapterOver(t)'
      /\ DirectWork(t) => DirectWork(t)'
      /\ DirectOver(t) => DirectOver(t)'
  BY <1>2, GraphIdles, AdapterIdles, DirectIdles
<1> QED
  BY <1>1, <1>3 DEF Drives, Work, Ended

\* A case that is over stays so: recovery may go on with a case of the round
\* graph, and changes nothing of what was concluded of it.
LEMMA DrivesOver ==
    ASSUME NEW t, Moves(t), Drives(t), ~ Open(t), rows' = rows,
           path[t] = "checkpointed_round_graph"
           \/ (ckpt'[t] = ckpt[t] /\ consent'[t] = consent[t])
    PROVE  Drives(t)' /\ ~ Open(t)'
<1>1. /\ Entry(t)' /\ (OfGraph(t)' <=> OfGraph(t)) /\ path' = path
      /\ ~ Open(t)' /\ SPECS' = SPECS
      /\ \A i : QuestionAt(t, i)' = QuestionAt(t, i)
  BY CaseKept DEF Moves, Drives, Open
<1>2. Ended(t)
  BY DEF Drives
<1>3. /\ \A c, g, l, s, a :
             RowIs(t, c, g, l, s, a) => RowIs(t, c, g, l, s, a)'
      /\ \A s : (Yes(t, s)' <=> Yes(t, s)) /\ (Accepts(t, s)' <=> Accepts(t, s))
  BY RowSame, AnswerKept
<1>4. /\ \A state : FormOf(state)' = FormOf(state)
      /\ First(t)' = First(t) /\ Second(t)' = Second(t)
      /\ ToFirst(t)' = ToFirst(t) /\ OwnAnswers(t)' = OwnAnswers(t)
      /\ \A answers : Records(t, answers)' <=> Records(t, answers)
  BY CasesKept DEF Moves
<1>5. OfGraph(t) => GraphOver(t)'
  <2>1. \A s \in Nat \ {0} : GraphReturned(t, s) => GraphReturned(t, s)'
    <3>1. path[t] = "process_restart" =>
              ckpt'[t] = ckpt[t] /\ consent'[t] = consent[t]
      OBVIOUS
    <3> QED
      BY <1>1, <1>3, <3>1 DEF GraphReturned
  <2> QED
    BY <1>1, <1>2, <1>3, <2>1 DEF Ended, GraphOver
<1>6. path[t] \in AdapterPaths => AdapterOver(t)'
  <2>1. path[t] \in AdapterPaths => ckpt'[t] = ckpt[t]
    BY DEF AdapterPaths
  <2>2. path[t] \in AdapterPaths =>
            \A answers : AdapterReturned(t, answers)
                             => AdapterReturned(t, answers)'
    BY <1>1, <1>4, <2>1 DEF AdapterReturned
  <2> QED
    BY <1>1, <1>2, <1>4, <2>1, <2>2 DEF Ended, AdapterOver
<1>7. path[t] = "direct_session" => DirectOver(t)'
  BY <1>2, <1>4 DEF Ended, DirectOver, DirectKept
<1> QED
  BY <1>1, <1>5, <1>6, <1>7 DEF Drives, Ended

-----------------------------------------------------------------------------
\* An open case that its own process moves.
Goes(t) ==
    /\ Moves(t) /\ Drives(t) /\ Open(t)
    /\ sequence' = sequence /\ issued' = issued /\ completed' = completed

LEMMA GoesGraph ==
    ASSUME NEW t, Goes(t), OfGraph(t)
    PROVE  /\ ExerciseInv /\ t \in Threads /\ GraphWork(t) /\ GraphAsks(t)
           /\ Waits(t) /\ Entry(t) /\ path' = path /\ SPECS' = SPECS
           /\ ckpt \in [Threads -> States(ExerciseFrames, ExerciseMaps,
                                       ExerciseResults \cup {None})]
           /\ DOMAIN ckpt = Threads /\ DOMAIN run = Threads
           /\ DOMAIN shown = Threads /\ DOMAIN consent = Threads
           /\ DOMAIN aborts = Threads /\ DOMAIN inbox = Threads
           /\ inbox[t] \in ExerciseFrames
           /\ SPECS[t].rounds \in Nat \ {0}
           /\ issued' = issued /\ Own(t)' = Own(t) /\ sequence' = sequence
           /\ \A x : Previewed(t, x) => Previewed(t, x)'
           /\ \A i : /\ QuestionAt(t, i)' = QuestionAt(t, i)
                     /\ StateAt(t, i)' = StateAt(t, i)
                     /\ FormNo(t, i)' = FormNo(t, i)
<1>1. ExerciseInv /\ t \in Threads /\ path' = path /\ SPECS' = SPECS
  BY DEF Goes, Moves
<1>2. GraphWork(t) /\ Entry(t)
  BY DEF Goes, Drives, Work
<1>3. GraphAsks(t) /\ Waits(t)
  BY <1>1 DEF ExerciseInv, ExerciseThread, GraphThread, Runs
<1>4. /\ ckpt \in [Threads -> States(ExerciseFrames, ExerciseMaps,
                                  ExerciseResults \cup {None})]
      /\ DOMAIN ckpt = Threads /\ DOMAIN run = Threads
      /\ DOMAIN shown = Threads /\ DOMAIN consent = Threads
      /\ DOMAIN aborts = Threads /\ DOMAIN inbox = Threads
      /\ inbox[t] \in ExerciseFrames
  BY <1>1 DEF ExerciseInv, ExerciseShape, Shape
<1>5. SPECS[t].rounds \in Nat \ {0}
  <2>1. SPECS[t] \in Specs /\ MaxForms \in Nat
    BY <1>1, PreviewAssumption DEF ExerciseInv, Books
  <2>2. SPECS[t].rounds \in 1 .. MaxForms
    BY <2>1, PreviewAssumption
  <2> QED
    BY <2>1, <2>2
<1>6. completed' = completed /\ issued' = issued /\ sequence' = sequence
  BY DEF Goes
<1>7. /\ Own(t)' = Own(t)
      /\ \A x : Previewed(t, x) => Previewed(t, x)'
  BY <1>6, RecordSame, RecordKept
<1>8. \A i : /\ QuestionAt(t, i)' = QuestionAt(t, i)
             /\ StateAt(t, i)' = StateAt(t, i)
             /\ FormNo(t, i)' = FormNo(t, i)
  BY <1>1, CaseKept
<1> QED
  BY <1>1, <1>2, <1>3, <1>4, <1>5, <1>6, <1>7, <1>8

LEMMA GraphGoesOn ==
    ASSUME NEW t, Moves(t), Drives(t), OfGraph(t),
           Open(t)' => GraphWork(t)', ~ Open(t)' => GraphOver(t)'
    PROVE  Drives(t)'
<1>1. Entry(t)' /\ OfGraph(t)' /\ path' = path
  BY CaseKept DEF Moves, Drives
<1>2. path[t] \notin AdapterPaths /\ path[t] # "direct_session"
  BY DEF OfGraph, AdapterPaths
<1> QED
  BY <1>1, <1>2 DEF Drives, Work, Ended

\* An invocation that ends its case otherwise than with a result.
LEMMA GraphFails ==
    ASSUME NEW t, Moves(t), Drives(t), OfGraph(t), Open(t),
           NEW outcome \in {"raised", "failed"}, Note(t, Over(t, outcome)),
           ckpt'[t].status = ckpt[t].status
    PROVE  Drives(t)'
<1>1. GraphWork(t)
  BY DEF Drives, Work
<1>2. /\ rows'[t].outcome = outcome /\ rows'[t].status = ckpt'[t].status
      /\ ~ Open(t)'
  BY RowOver
<1>3. ckpt[t].status \in {"new", "received", "answered"}
  BY <1>1 DEF GraphWork
<1>4. GraphOver(t)'
  BY <1>2, <1>3 DEF GraphOver
<1> QED
  BY <1>2, <1>4, GraphGoesOn

\* Only the node that is pending, and what its process does, can be at work.
LEMMA GraphAt ==
    ASSUME NEW t, GraphWork(t)
    PROVE  /\ ckpt[t].next = "begin" /\ run[t] # "calling" => Begins(t)
           /\ ckpt[t].next = "begin" /\ run[t] = "calling" =>
                  FirstCalled(t) \/ IsAsked(t)
           /\ ckpt[t].next = "review" /\ run[t] = "running" =>
                  \E s \in Nat \ {0} : Reviews(t, s)
           /\ ckpt[t].next = "review" /\ run[t] = "stopped" =>
                  \E s \in Nat \ {0} : HasShown(t, s)
           /\ ckpt[t].next = "continue" /\ run[t] = "running" =>
                  \E s \in Nat \ {0} : Continues(t, s)
           /\ ckpt[t].next = "continue" /\ run[t] = "calling" =>
                  \E s \in Nat \ {0} :
                      AnswerSent(t, s) \/ AskedAgain(t, s) \/ Told(t, s)
           /\ ckpt[t].next = "finish" => \E s \in Nat \ {0} : Concludes(t, s)
           /\ run[t] = "stopped" =>
                  Begins(t) \/ \E s \in Nat \ {0} : HasShown(t, s)
           /\ aborts[t] = 0 /\ ckpt[t].status \in {"new", "received", "answered"}
<1>1. CASE Begins(t) \/ FirstCalled(t) \/ IsAsked(t)
  BY <1>1 DEF GraphWork, Begins, FirstCalled, IsAsked
<1>2. ASSUME NEW s \in Nat \ {0},
             \/ Reviews(t, s) \/ HasShown(t, s) \/ Continues(t, s)
             \/ AnswerSent(t, s) \/ AskedAgain(t, s) \/ Told(t, s)
             \/ Concludes(t, s)
      PROVE  /\ Reviews(t, s) =>
                    ckpt[t].next = "review" /\ run[t] = "running"
             /\ HasShown(t, s) =>
                    ckpt[t].next = "review" /\ run[t] = "stopped"
             /\ Continues(t, s) =>
                    ckpt[t].next = "continue" /\ run[t] = "running"
             /\ AnswerSent(t, s) \/ AskedAgain(t, s) \/ Told(t, s) =>
                    ckpt[t].next = "continue" /\ run[t] = "calling"
             /\ Concludes(t, s) =>
                    ckpt[t].next = "finish" /\ run[t] = "running"
  BY DEF Reviews, HasShown, Continues, AnswerSent, AskedAgain, Told, Concludes,
         Holds
<1>3. CASE \E s \in Nat \ {0} :
              \/ Reviews(t, s) \/ HasShown(t, s) \/ Continues(t, s)
              \/ AnswerSent(t, s) \/ AskedAgain(t, s) \/ Told(t, s)
              \/ Concludes(t, s)
  <2>1. aborts[t] = 0 /\ ckpt[t].status \in {"new", "received", "answered"}
    BY DEF GraphWork
  <2> QED
    BY <1>2, <1>3, <2>1
<1> QED
  BY <1>1, <1>3 DEF GraphWork

LEMMA GraphInvokesOn ==
    ASSUME NEW t, Goes(t), GraphInvokes(t)
    PROVE  Drives(t)'
<1>1. OfGraph(t)
  BY DEF GraphInvokes, Driven, OfGraph
<1> USE GoesGraph, GraphAt
<1>2. /\ run[t] = "stopped" /\ run'[t] = "running" /\ ckpt' = ckpt
      /\ aborts' = aborts /\ rows' = rows /\ rows[t].shown = <<>>
  BY <1>1 DEF GraphInvokes, Invoke, Goes, Open
<1>3. Begins(t)
  <2>1. ASSUME NEW s \in Nat \ {0}, HasShown(t, s)
        PROVE  FALSE
    BY <1>2, <2>1 DEF HasShown, RowIs, ShownAre
  <2> QED
    BY <1>1, <1>2, <2>1
<1>4. RowIs(t, 0, 0, 0, 0, 0)'
  BY <1>2, <1>3, RowSame DEF Begins, Goes
<1>5. Begins(t)'
  BY <1>1, <1>2, <1>3, <1>4 DEF Begins
<1>6. Open(t)' /\ GraphWork(t)'
  BY <1>1, <1>2, <1>5 DEF GraphWork, Open, Goes
<1> QED
  BY <1>1, <1>6, GraphGoesOn DEF Goes

LEMMA GraphCallsOn ==
    ASSUME NEW t, Goes(t), GraphCalls(t)
    PROVE  Drives(t)'
<1>1. OfGraph(t)
  BY DEF GraphCalls, Driven, OfGraph
<1> USE GoesGraph, GraphAt
<1> DEFINE tok == ckpt[t].frame.token
<1>2. /\ run[t] = "running" /\ run'[t] = "calling" /\ ckpt' = ckpt
      /\ aborts' = aborts /\ inbox' = inbox
      /\ ckpt[t].next \in {"begin", "continue"}
      /\ Note(t, Called(t, tok, ckpt[t].answers))
  <2>1. /\ run[t] = "running" /\ run' = [run EXCEPT ![t] = "calling"]
        /\ ckpt' = ckpt /\ aborts' = aborts /\ inbox' = inbox
        /\ ckpt[t].next \in {"begin", "continue"}
        /\ Note(t, Called(t, tok, ckpt[t].answers))
    BY Zenon DEF GraphCalls, BeginCall, ContinueCall, CallTool
  <2> QED
    BY <1>1, <2>1
<1>3. inbox[t] = NoFrame
  BY <1>1, <1>2 DEF Waits
<1>4. CASE ckpt[t].next = "begin"
  <2>1. Begins(t)
    BY <1>1, <1>2, <1>4
  <2>2. tok = NoToken
    <3>1. GraphAsks(t)
      BY <1>1
    <3>2. ckpt[t].frame = NoFrame
      BY <1>4, <3>1 DEF GraphAsks
    <3> QED
      BY <3>2 DEF NoFrame
  <2>3. RowIs(t, 1, 0, 0, 0, 0)' /\ Open(t)'
    <3>1. RowIs(t, 0, 0, 0, 0, 0) /\ Moves(t) /\ Open(t)
      BY <2>1 DEF Begins, Goes
    <3>2. RowIs(t, 0 + 1, 0, 0, 0, 0)' /\ Open(t)'
      BY <1>2, <2>2, <3>1, RowCalls
    <3> QED
      BY <3>2
  <2>4. FirstCalled(t)'
    BY <1>1, <1>2, <1>3, <2>1, <2>3 DEF FirstCalled, Begins
  <2>5. GraphWork(t)'
    BY <1>1, <1>2, <2>4 DEF GraphWork
  <2> QED
    BY <1>1, <2>3, <2>5, GraphGoesOn DEF Goes
<1>5. CASE ckpt[t].next = "continue"
  <2>1. PICK s \in Nat \ {0} : Continues(t, s)
    BY <1>1, <1>2, <1>5
  <2>2. tok = StateAt(t, s)
    <3>1. ckpt[t].frame = QuestionAt(t, s)
      BY <2>1 DEF Continues, Holds, IsPending
    <3>2. ExerciseInv /\ t \in Threads
      BY <1>1
    <3>3. QuestionAt(t, s).token = StateAt(t, s)
      BY <3>2, AskedFacts
    <3> QED
      BY <3>1, <3>3, Zenon
  <2>3. /\ RowIs(t, s + 1, s, s, s, s)' /\ Open(t)'
        /\ rows'[t].answers = rows[t].answers
    <3>1. RowIs(t, s, s, s, s, s) /\ Moves(t) /\ Open(t)
      BY <2>1 DEF Continues, Goes
    <3> QED
      BY <1>2, <2>2, <3>1, RowCalls
  <2>4. Holds(t, s)'
    BY <1>1, <1>2, <2>1, <2>3 DEF Continues, Holds, IsPending
  <2>5. AnswerSent(t, s)'
    BY <1>1, <1>2, <1>3, <2>1, <2>3, <2>4 DEF Continues, AnswerSent
  <2>6. GraphWork(t)'
    BY <1>1, <1>2, <2>5 DEF GraphWork
  <2> QED
    BY <1>1, <2>3, <2>6, GraphGoesOn DEF Goes
<1> QED
  BY <1>2, <1>4, <1>5

\* What the graph checkpoints of a reply.
LEMMA ReceivedAt ==
    ASSUME NEW t, Goes(t), OfGraph(t), NEW n, Received(t, n)
    PROVE  /\ ckpt'[t].frame = inbox[t] /\ ckpt'[t].status = "received"
           /\ ckpt'[t].next = IF inbox[t].kind = "input" THEN "review"
                              ELSE "finish"
           /\ run[t] = "calling" /\ run'[t] = "running" /\ inbox[t] # NoFrame
           /\ consent' = consent /\ aborts' = aborts
<1>1. /\ DOMAIN run = Threads /\ DOMAIN ckpt = Threads /\ t \in Threads
      /\ ckpt[t] \in States(ExerciseFrames, ExerciseMaps,
                          ExerciseResults \cup {None})
  BY GoesGraph
<1>2. /\ run[t] = "calling" /\ inbox[t] # NoFrame
      /\ run' = [run EXCEPT ![t] = "running"]
      /\ consent' = consent /\ aborts' = aborts
  BY Zenon DEF Received
<1> DEFINE f == inbox[t]
           next == IF inbox[t].kind = "input" THEN "review" ELSE "finish"
<1>3. ckpt' = [ckpt EXCEPT
           ![t].frame = f, ![t].answers = NoAnswers, ![t].roundIndex = n,
           ![t].status = "received", ![t].next = next]
  BY Zenon DEF Received
<1> HIDE DEF f, next
<1>4. ckpt'[t].frame = f /\ ckpt'[t].status = "received" /\ ckpt'[t].next = next
  BY <1>1, <1>3 DEF States
<1>5. run'[t] = "running"
  BY <1>1, <1>2
<1> QED
  BY <1>2, <1>4, <1>5 DEF f, next

LEMMA GraphReceivesOn ==
    ASSUME NEW t, Goes(t), GraphReceives(t)
    PROVE  Drives(t)'
<1>1. OfGraph(t)
  BY DEF GraphReceives, Driven, OfGraph
<1> USE GoesGraph, GraphAt
<1>2. /\ ckpt'[t].frame = inbox[t] /\ ckpt'[t].status = "received"
      /\ ckpt'[t].next = IF inbox[t].kind = "input" THEN "review"
                         ELSE "finish"
      /\ run[t] = "calling" /\ run'[t] = "running" /\ inbox[t] # NoFrame
      /\ consent' = consent /\ aborts' = aborts
      /\ ckpt[t].next \in {"begin", "continue"}
      /\ Note(t, CallReturned(t))
  <2>1. /\ Note(t, CallReturned(t)) /\ ckpt[t].next \in {"begin", "continue"}
        /\ \E n : Received(t, n)
    BY Zenon DEF GraphReceives, BeginReturns, ContinueReturns
  <2> QED
    BY <1>1, <2>1, ReceivedAt
<1>3. /\ ExerciseInv /\ t \in Threads /\ Moves(t) /\ Open(t)
      /\ Own(t)' = Own(t)
  BY <1>1 DEF Goes
<1>4. ASSUME NEW s \in Nat \ {0}, IsPending(t, inbox[t], s)
      PROVE  /\ inbox[t].token = StateAt(t, s) /\ ckpt'[t].next = "review"
             /\ IsPending(t, ckpt[t].frame, s)'
  <2>1. inbox[t] = QuestionAt(t, s)
    BY <1>4 DEF IsPending
  <2>2. inbox[t].token = StateAt(t, s) /\ inbox[t].kind = "input"
    BY <1>3, <2>1, AskedFacts
  <2>3. IsPending(t, ckpt[t].frame, s)'
    BY <1>1, <1>2, <1>4 DEF IsPending
  <2> QED
    BY <1>2, <2>2, <2>3
<1>5. CASE ckpt[t].next = "begin"
  <2>1. IsAsked(t)
    BY <1>1, <1>2, <1>5 DEF FirstCalled
  <2>2. IsPending(t, inbox[t], 1) /\ RowIs(t, 0 + 1, 0, 1, 0, 0) /\ Own(t) = {}
    BY <2>1 DEF IsAsked
  <2>3. /\ inbox[t].token = StateAt(t, 0 + 1) /\ ckpt'[t].next = "review"
        /\ IsPending(t, ckpt[t].frame, 1)'
    BY <1>4, <2>2
  <2>4. RowIs(t, 0 + 1, 0 + 1, 1, 0, 0)' /\ Open(t)'
    BY <1>2, <1>3, <2>2, <2>3, RowReceives
  <2>5. RowIs(t, 1, 1, 1, 1 - 1, 1 - 1)'
    BY <2>4
  <2>6. Reviews(t, 1)'
    BY <1>2, <1>3, <2>2, <2>3, <2>5 DEF Reviews
  <2>7. GraphWork(t)'
    BY <1>1, <1>2, <2>6 DEF GraphWork
  <2> QED
    BY <1>1, <2>4, <2>7, GraphGoesOn DEF Goes
<1>6. CASE ckpt[t].next = "continue"
  <2>1. PICK s \in Nat \ {0} : AskedAgain(t, s) \/ Told(t, s)
    BY <1>1, <1>2, <1>6 DEF AnswerSent
  <2>2. CASE AskedAgain(t, s)
    <3>1. /\ IsPending(t, inbox[t], s + 1) /\ RowIs(t, s + 1, s, s + 1, s, s)
          /\ Yes(t, s) /\ Own(t) = {}
      BY <2>2 DEF AskedAgain
    <3>2. /\ inbox[t].token = StateAt(t, s + 1) /\ ckpt'[t].next = "review"
          /\ IsPending(t, ckpt[t].frame, s + 1)'
      <4>1. s + 1 \in Nat \ {0}
        OBVIOUS
      <4> QED
        BY <1>4, <3>1, <4>1
    <3>3. /\ RowIs(t, s + 1, s + 1, s + 1, s, s)' /\ Open(t)'
          /\ rows'[t].answers = rows[t].answers
      BY <1>2, <1>3, <3>1, <3>2, RowReceives
    <3>4. Yes(t, s)'
      BY <1>3, <3>1, <3>3, AnswerKept
    <3>5. Reviews(t, s + 1)'
      <4>1. s + 1 - 1 = s
        OBVIOUS
      <4> QED
        BY <1>2, <1>3, <3>1, <3>2, <3>3, <3>4, <4>1 DEF Reviews
    <3>6. GraphWork(t)'
      <4>1. s + 1 \in Nat \ {0}
        OBVIOUS
      <4> QED
        BY <1>1, <1>2, <3>5, <4>1 DEF GraphWork
    <3> QED
      BY <1>1, <3>3, <3>6, GraphGoesOn DEF Goes
  <2>3. CASE Told(t, s)
    <3>1. /\ Holds(t, s) /\ RowIs(t, s + 1, s, s + 1, s, s)
          /\ inbox[t].kind = "terminal" /\ EndsAfter(t, s, inbox[t].result)
      BY <2>3 DEF Told
    <3>2. inbox[t].token = NoToken
      BY <1>1, <3>1, ExerciseKinds
    <3>3. /\ RowIs(t, s + 1, s, s + 1, s, s)' /\ Open(t)'
          /\ rows'[t].answers = rows[t].answers
      BY <1>2, <1>3, <3>1, <3>2, RowReceives
    <3>4. (Yes(t, s)' <=> Yes(t, s)) /\ (Accepts(t, s)' <=> Accepts(t, s))
      BY <1>3, <3>3, AnswerKept
    <3>5. EndsAfter(t, s, ckpt[t].frame.result)'
      BY <1>1, <1>2, <3>1, <3>4 DEF EndsAfter
    <3>6. consent'[t].frame = QuestionAt(t, s)'
      <4>1. GraphAsks(t)
        BY <1>1
      <4>2. consent[t].frame = ckpt[t].frame
        BY <1>6, <4>1 DEF GraphAsks
      <4>3. ckpt[t].frame = QuestionAt(t, s)
        BY <3>1 DEF Holds, IsPending
      <4> QED
        BY <1>1, <1>2, <4>2, <4>3
    <3>7. Concludes(t, s)'
      BY <1>2, <3>1, <3>3, <3>5, <3>6 DEF Concludes
    <3>8. GraphWork(t)'
      BY <1>1, <1>2, <3>7 DEF GraphWork
    <3> QED
      BY <1>1, <3>3, <3>8, GraphGoesOn DEF Goes
  <2> QED
    BY <2>1, <2>2, <2>3
<1> QED
  BY <1>2, <1>5, <1>6

LEMMA GraphShowsOn ==
    ASSUME NEW t, Goes(t), GraphShows(t)
    PROVE  Drives(t)'
<1>1. OfGraph(t)
  BY DEF GraphShows, Driven, OfGraph
<1> USE GoesGraph, GraphAt
<1>2. /\ run[t] = "running" /\ ckpt[t].next = "review" /\ run'[t] = "stopped"
      /\ shown'[t] = ckpt[t].frame.form /\ ckpt' = ckpt /\ aborts' = aborts
  BY <1>1 DEF GraphShows, Review
<1>3. PICK s \in Nat \ {0} : Reviews(t, s)
  BY <1>1, <1>2
<1>4. /\ ExerciseInv /\ t \in Threads /\ Moves(t) /\ Open(t)
      /\ Own(t)' = Own(t)
  BY <1>1 DEF Goes
<1>5. /\ RowIs(t, s, s, s, s - 1, s - 1) /\ IsPending(t, ckpt[t].frame, s)
      /\ (s > 1 => Yes(t, s - 1)) /\ Own(t) = {}
  BY <1>3 DEF Reviews
<1>6. ckpt[t].frame.form = FormNo(t, s)
  <2>1. ckpt[t].frame = QuestionAt(t, s)
    BY <1>5 DEF IsPending
  <2> QED
    BY <1>4, <2>1, AskedFacts
<1>7. Note(t, [rows[t] EXCEPT !.shown = Append(rows[t].shown, FormNo(t, s))])
  <2>1. FormNo(t, s).subject = AskedOf(t)
    BY <1>4, AskedFacts
  <2>2. ~ (path[t] = "checkpointed_round_graph"
           /\ ckpt[t].frame.form.subject # "draft-A")
    BY <1>6, <2>1 DEF AskedOf
  <2> QED
    BY <1>6, <2>2, Zenon DEF GraphShows
<1>8. /\ RowIs(t, s, s, s, s, s - 1)' /\ Open(t)'
      /\ rows'[t].answers = rows[t].answers
  <2>1. s - 1 \in Nat /\ s - 1 + 1 = s
    OBVIOUS
  <2> QED
    BY <1>4, <1>5, <1>7, <2>1, RowShows
<1>9. s > 1 => Yes(t, s - 1)'
  BY <1>4, <1>5, <1>8, AnswerKept
<1>10. IsPending(t, ckpt[t].frame, s)'
  BY <1>1, <1>2, <1>5 DEF IsPending
<1>11. HasShown(t, s)'
  BY <1>1, <1>2, <1>4, <1>5, <1>6, <1>8, <1>9, <1>10 DEF HasShown
<1>12. GraphWork(t)'
  BY <1>1, <1>2, <1>11 DEF GraphWork
<1> QED
  BY <1>1, <1>8, <1>12, GraphGoesOn DEF Goes

LEMMA GraphResumesOn ==
    ASSUME NEW t, Goes(t), GraphResumes(t)
    PROVE  Drives(t)'
<1>1. OfGraph(t)
  BY DEF GraphResumes, Driven, OfGraph
<1> USE GoesGraph, GraphAt
<1>2. /\ run[t] = "stopped" /\ ckpt[t].next = "review"
      /\ UNCHANGED <<shown, aborts, requests, inbox>>
      /\ run' = [run EXCEPT ![t] = "running"]
  BY Zenon DEF GraphResumes, Resume
<1>3. PICK answers \in Resumes :
          /\ ValidAnswers(ckpt[t].frame.form.keys, answers)
          /\ ckpt' = [ckpt EXCEPT ![t].answers = answers,
                                  ![t].status = "answered",
                                  ![t].next = "continue"]
          /\ consent' = [consent EXCEPT ![t] =
                 [form |-> shown[t], frame |-> ckpt[t].frame,
                  answers |-> answers]]
  BY Zenon DEF GraphResumes, Resume
<1>4. /\ ExerciseInv /\ t \in Threads /\ Moves(t) /\ Open(t)
      /\ Own(t)' = Own(t) /\ DOMAIN ckpt = Threads /\ DOMAIN consent = Threads
      /\ ckpt[t] \in States(ExerciseFrames, ExerciseMaps,
                          ExerciseResults \cup {None})
      /\ run'[t] = "running"
  BY <1>1, <1>2 DEF Goes
<1>5. PICK s \in Nat \ {0} : HasShown(t, s)
  BY <1>1, <1>2
<1>6. /\ RowIs(t, s, s, s, s, s - 1) /\ IsPending(t, ckpt[t].frame, s)
      /\ (s > 1 => Yes(t, s - 1)) /\ Own(t) = {}
  BY <1>5 DEF HasShown
<1>7. /\ ckpt'[t].answers = answers /\ ckpt'[t].status = "answered"
      /\ ckpt'[t].next = "continue" /\ ckpt'[t].frame = ckpt[t].frame
      /\ consent'[t].answers = answers
  BY <1>3, <1>4 DEF States
<1>8. answers \in AnswerMaps /\ DOMAIN answers = {KeyAt(t, s)}
  <2>1. answers \in AnswerMaps
    BY PreviewAssumption
  <2>2. ckpt[t].frame = QuestionAt(t, s)
    BY <1>6 DEF IsPending
  <2>3. ckpt[t].frame.form.keys = {KeyAt(t, s)}
    BY <1>4, <2>2, AskedFacts
  <2> QED
    BY <1>3, <2>1, <2>3 DEF ValidAnswers
<1>9. Note(t, [rows[t] EXCEPT !.answers = Append(rows[t].answers, answers)])
  <2>1. Note(t, [rows[t] EXCEPT !.answers =
                     Append(rows[t].answers, consent'[t].answers)])
    BY Zenon DEF GraphResumes
  <2> QED
    BY <1>7, <2>1, Zenon
<1>10. /\ RowIs(t, s, s, s, s, s)' /\ Open(t)'
       /\ rows'[t].answers[s] = answers
  <2>1. PICK a \in Nat : a = s - 1
    OBVIOUS
  <2>2. s = a + 1 /\ (a > 0 => Yes(t, a)) /\ RowIs(t, s, s, s, s, a)
    BY <1>6, <2>1
  <2>3. DOMAIN answers = {KeyAt(t, a + 1)}
    BY <1>8, <2>2
  <2>4. /\ RowIs(t, s, s, s, s, a + 1)' /\ Open(t)'
        /\ rows'[t].answers[a + 1] = answers
    <3> HIDE GoesGraph, GraphAt
    <3> QED
      BY <1>4, <1>8, <1>9, <2>2, <2>3, RowAnswers
  <2> QED
    BY <2>2, <2>4
<1>11. IsPending(t, ckpt[t].frame, s)'
  BY <1>1, <1>6, <1>7 DEF IsPending
<1>12. Continues(t, s)'
  BY <1>4, <1>6, <1>7, <1>10, <1>11 DEF Continues, Holds
<1>13. GraphWork(t)'
  BY <1>1, <1>2, <1>7, <1>12 DEF GraphWork
<1> QED
  BY <1>1, <1>10, <1>13, GraphGoesOn DEF Goes

LEMMA GraphRefusesOn ==
    ASSUME NEW t, Goes(t), GraphRefuses(t)
    PROVE  Drives(t)'
<1>1. OfGraph(t)
  BY DEF GraphRefuses, Driven, OfGraph
<1> USE GoesGraph, GraphAt
<1>2. PICK outcome \in {"keys_differ", "raised"} : Note(t, Over(t, outcome))
  BY Zenon DEF GraphRefuses
<1>3. run[t] = "stopped" /\ ckpt[t].next = "review" /\ ckpt' = ckpt
  BY Zenon DEF GraphRefuses
<1>4. PICK s \in Nat \ {0} : HasShown(t, s)
  BY <1>1, <1>3
<1>5. /\ RowIs(t, s, s, s, s, s - 1) /\ IsPending(t, ckpt[t].frame, s)
      /\ Own(t) = {}
  BY <1>4 DEF HasShown
<1>6. /\ RowIs(t, s, s, s, s, s - 1)' /\ rows'[t].outcome = outcome
      /\ rows'[t].status = ckpt[t].status /\ rows'[t].completed = <<>>
      /\ ~ Open(t)'
  BY <1>2, <1>3, <1>5, RowOver, SubjectsAre DEF Goes
<1>7. s \in 1 .. SPECS'[t].rounds
  BY <1>1, <1>5 DEF IsPending
<1>8. GraphOver(t)'
  <2>1. ckpt[t].status \in {"new", "received", "answered"}
    BY <1>1
  <2> QED
    BY <1>6, <1>7, <2>1 DEF GraphOver
<1> QED
  BY <1>1, <1>6, <1>8, GraphGoesOn DEF Goes

LEMMA GraphReturnsOn ==
    ASSUME NEW t, Goes(t), GraphReturns(t)
    PROVE  Drives(t)'
<1>1. OfGraph(t)
  BY DEF GraphReturns, Driven, OfGraph
<1> USE GoesGraph, GraphAt
<1>2. /\ run[t] = "running" /\ ckpt[t].next = "finish" /\ consent' = consent
      /\ ckpt' = [ckpt EXCEPT
           ![t].result = ckpt[t].frame.result,
           ![t].status = IF ckpt[t].frame.result.isError THEN "tool_error"
                         ELSE "completed",
           ![t].next = "end"]
      /\ Note(t, Over(t, "returned"))
  BY Zenon DEF GraphReturns, Finish
<1>3. /\ ExerciseInv /\ t \in Threads /\ Moves(t) /\ Open(t)
      /\ path' = path /\ SPECS' = SPECS
      /\ ckpt[t] \in States(ExerciseFrames, ExerciseMaps,
                          ExerciseResults \cup {None})
      /\ DOMAIN ckpt = Threads
  BY <1>1 DEF Goes
<1>4. PICK s \in Nat \ {0} : Concludes(t, s)
  BY <1>1, <1>2
<1>5. /\ RowIs(t, s + 1, s, s + 1, s, s)
      /\ consent[t].frame = QuestionAt(t, s)
      /\ EndsAfter(t, s, ckpt[t].frame.result)
  BY <1>4 DEF Concludes
<1>6. /\ ckpt'[t].result = ckpt[t].frame.result
      /\ ckpt'[t].status = IF ckpt[t].frame.result.isError THEN "tool_error"
                           ELSE "completed"
  BY <1>2, <1>3 DEF States
<1>7. /\ RowIs(t, s + 1, s, s + 1, s, s)' /\ rows'[t].outcome = "returned"
      /\ rows'[t].status = IF ckpt[t].frame.result.isError THEN "tool_error"
                           ELSE "completed"
      /\ rows'[t].completed = Subjects(t)
      /\ ~ Open(t)'
      /\ rows'[t].answers = rows[t].answers
  BY <1>2, <1>3, <1>5, <1>6, RowOver
<1>8. (Yes(t, s)' <=> Yes(t, s)) /\ (Accepts(t, s)' <=> Accepts(t, s))
  BY <1>3, <1>7, AnswerKept
<1>9. /\ Own(t) = {} => rows'[t].completed = <<>>
      /\ Previewed(t, "draft-A") => rows'[t].completed = <<"draft-A">>
  <2>1. ASSUME Previewed(t, "draft-A")
        PROVE  Subjects(t) = <<"draft-A">>
    <3>1. PICK i \in DOMAIN completed :
              Own(t) = {i} /\ completed[i].subject = "draft-A"
      BY <2>1 DEF Previewed
    <3>2. i \in Nat
      <4>1. completed \in Seq([case : Threads, subject : AllSubjects])
        BY <1>3 DEF ExerciseInv, Books
      <4> QED
        BY <4>1
    <3> QED
      BY <3>1, <3>2, SubjectsAre
  <2> QED
    BY <1>7, <2>1, SubjectsAre
<1>10. consent'[t].frame = QuestionAt(t, s)'
  BY <1>1, <1>2, <1>5
<1>11. GraphReturned(t, s)'
  <2>1. s \in 1 .. SPECS'[t].rounds
    BY <1>3, <1>5 DEF EndsAfter
  <2>2. IF path'[t] = "process_restart"
        THEN /\ Yes(t, s)' /\ rows'[t].status = "completed"
             /\ ckpt'[t].result.text = "completed-from-process-B"
             /\ consent'[t].frame = QuestionAt(t, s)'
        ELSE IF Yes(t, s)' /\ ~ SPECS'[t].error
        THEN /\ s = SPECS'[t].rounds /\ rows'[t].status = "completed"
             /\ rows'[t].completed = <<"draft-A">>
        ELSE /\ rows'[t].completed = <<>>
             /\ SPECS'[t].error /\ Accepts(t, s)'
                    => rows'[t].status = "tool_error"
    BY <1>3, <1>5, <1>6, <1>7, <1>8, <1>9, <1>10 DEF EndsAfter
  <2> QED
    BY <1>7, <2>1, <2>2 DEF GraphReturned
<1>12. GraphOver(t)'
  BY <1>7, <1>11 DEF GraphOver
<1> QED
  BY <1>1, <1>7, <1>12, GraphGoesOn DEF Goes

LEMMA GraphRaisesOn ==
    ASSUME NEW t, Goes(t), GraphRaises(t)
    PROVE  Drives(t)'
<1>1. OfGraph(t)
  BY DEF GraphRaises, Driven, OfGraph
<1>2. PICK outcome \in {"raised", "failed"} : Note(t, Over(t, outcome))
  BY Zenon DEF GraphRaises
<1>3. ckpt' = ckpt
  BY DEF GraphRaises, RoundLimit, Abort
<1> QED
  BY <1>1, <1>2, <1>3, GraphFails DEF Goes

\* A step of the round graph.
LEMMA GraphDrives ==
    ASSUME ExerciseInv, NEW t \in Threads, Drives(t), ExerciseClient(t),
           UNCHANGED <<serverVars, path>>
    PROVE  Drives(t)'
<1>1. /\ SPECS' = SPECS /\ path' = path /\ sequence' = sequence
      /\ issued' = issued /\ completed' = completed
  BY DEF serverVars
<1>2. Moves(t)
  BY <1>1 DEF Moves
<1>3. CASE Open(t)
  <2>1. Goes(t)
    BY <1>1, <1>2, <1>3 DEF Goes
  <2> QED
    BY <2>1, GraphInvokesOn, GraphCallsOn, GraphReceivesOn, GraphShowsOn,
       GraphResumesOn, GraphRefusesOn, GraphReturnsOn, GraphRaisesOn
       DEF ExerciseClient
<1>4. CASE ~ Open(t)
  <2>1. Driven(t) /\ ~ GraphRefuses(t)
    BY <1>4, Zenon DEF ExerciseClient, GraphInvokes, GraphCalls, GraphReceives,
       GraphShows, GraphResumes, GraphRefuses, GraphReturns, GraphRaises, Open
  <2>2. path[t] = "checkpointed_round_graph"
    BY <1>4, <2>1 DEF Driven, Open
  <2>3. rows' = rows
    <3>1. \A row : Note(t, row) => rows' = rows
      BY <1>4, NoteOver
    <3>2. \/ GraphInvokes(t) \/ GraphCalls(t) \/ GraphReceives(t)
          \/ GraphShows(t) \/ GraphResumes(t) \/ GraphReturns(t)
          \/ GraphRaises(t)
      BY <2>1 DEF ExerciseClient
    <3> QED
      BY <3>1, <3>2, Zenon DEF GraphInvokes, GraphCalls, GraphReceives,
         GraphShows, GraphResumes, GraphReturns, GraphRaises
  <2> QED
    BY <1>2, <1>4, <2>2, <2>3, DrivesOver
<1> QED
  BY <1>3, <1>4

-----------------------------------------------------------------------------
\* The process of an open case awaits each of its calls.
LEMMA OpenAwaits ==
    ASSUME ExerciseInv, NEW r \in requests, NEW t, t = r.thread, Drives(t),
           Open(t)
    PROVE  Awaited(r) /\ t \in Threads /\ aborts[t] = 0
<1>1. /\ t \in Threads /\ r.attempt \in Nat /\ path[t] \in Paths
      /\ ExerciseThread(t) /\ Work(t)
  BY TokenFacts DEF ExerciseInv, ExerciseShape, Shape, Books, Drives
<1>2. ASSUME OfGraph(t)
      PROVE  Awaited(r) /\ aborts[t] = 0
  <2>1. GraphWork(t) /\ Calls1(t)
    BY <1>1, <1>2 DEF Work, ExerciseThread, GraphThread, Runs
  <2>2. aborts[t] = 0
    BY <2>1 DEF GraphWork
  <2>3. r.attempt = aborts[t]
    BY <1>1, <2>1, <2>2 DEF Calls1
  <2> QED
    BY <2>1, <2>2, <2>3 DEF Calls1, Awaited
<1>3. ASSUME OneAttempt(t), OneCall(t)
      PROVE  Awaited(r) /\ aborts[t] = 0
  BY <1>3 DEF OneAttempt, OneCall, Awaited
<1>4. ASSUME ~ OfGraph(t)
      PROVE  OneAttempt(t) /\ OneCall(t)
  <2>1. path[t] \in AdapterPaths \/ path[t] = "direct_session"
    BY <1>1, <1>4 DEF OfGraph, Paths, IdentityPaths, AdapterPaths
  <2>2. CASE path[t] \in AdapterPaths
    BY <1>1, <2>2 DEF Work, AdapterWork, ExerciseThread, AdapterThread
  <2>3. CASE path[t] = "direct_session"
    BY <1>1, <2>3 DEF Work, DirectWork, ExerciseThread, DirectThread
  <2> QED
    BY <2>1, <2>2, <2>3
<1> QED
  BY <1>1, <1>2, <1>3, <1>4

\* A reply to it.
LEMMA OpenHears ==
    ASSUME ExerciseInv, NEW r \in requests, NEW t, t = r.thread, Drives(t),
           Open(t), NEW f, Deliver(r, f)
    PROVE  /\ ckpt' = ckpt /\ run' = run /\ shown' = shown
           /\ consent' = consent /\ aborts' = aborts /\ aborts[t] = 0
           /\ requests' = requests \ {r} /\ run[t] = "calling"
           /\ inbox[t] = NoFrame /\ inbox'[t] = f
<1>1. Awaited(r) /\ t \in Threads /\ aborts[t] = 0 /\ DOMAIN inbox = Threads
  BY OpenAwaits DEF ExerciseInv, ExerciseShape, Shape
<1> QED
  BY <1>1 DEF Deliver, Awaited

\* What a call of the round graph is about.
LEMMA GraphSent ==
    ASSUME ExerciseInv, NEW r \in requests, NEW t, t = r.thread, Drives(t),
           Open(t), OfGraph(t)
    PROVE  /\ r.token = NoToken => FirstCalled(t)
           /\ r.token # NoToken =>
                  \E s \in Nat \ {0} :
                      /\ AnswerSent(t, s) /\ r.token = StateAt(t, s)
                      /\ r.answers = rows[t].answers[s]
<1>1. Awaited(r) /\ t \in Threads
  BY OpenAwaits
<1>2. /\ run[t] = "calling" /\ inbox[t] = NoFrame
      /\ GraphWork(t) /\ Runs(t)
  BY <1>1 DEF Awaited, ExerciseInv, ExerciseThread, GraphThread, Drives, Work
<1>3. /\ ckpt[t].next \in {"begin", "continue"}
      /\ ckpt[t].next = "begin" => r.token = NoToken
      /\ ckpt[t].next = "continue" =>
             r.token = ckpt[t].frame.token /\ r.answers = ckpt[t].answers
  BY <1>1, <1>2, CurrentCall
<1>4. CASE ckpt[t].next = "begin"
  <2>1. FirstCalled(t) \/ IsAsked(t)
    BY <1>2, <1>4, GraphAt
  <2>2. ~ IsAsked(t)
    <3>1. QuestionAt(t, 1) # NoFrame
      BY <1>1, AskedFacts
    <3> QED
      BY <1>2, <3>1 DEF IsAsked, IsPending
  <2> QED
    BY <1>3, <1>4, <2>1, <2>2
<1>5. CASE ckpt[t].next = "continue"
  <2>1. PICK s \in Nat \ {0} : AnswerSent(t, s) \/ AskedAgain(t, s) \/ Told(t, s)
    BY <1>2, <1>5, GraphAt
  <2>2. ~ AskedAgain(t, s)
    <3>1. s + 1 \in Nat \ {0}
      OBVIOUS
    <3>2. QuestionAt(t, s + 1) # NoFrame
      BY <1>1, <3>1, AskedFacts
    <3> QED
      BY <1>2, <3>2 DEF AskedAgain, IsPending
  <2>3. ~ Told(t, s)
    BY <1>2 DEF Told, NoFrame
  <2>4. AnswerSent(t, s)
    BY <2>1, <2>2, <2>3
  <2>5. ckpt[t].frame = QuestionAt(t, s) /\ ckpt[t].answers = rows[t].answers[s]
    BY <2>4 DEF AnswerSent, Holds, IsPending
  <2>6. QuestionAt(t, s).token = StateAt(t, s) /\ StateAt(t, s) # NoToken
    BY <1>1, AskedFacts
  <2>7. r.token = StateAt(t, s) /\ r.answers = rows[t].answers[s]
    BY <1>3, <1>5, <2>5, <2>6
  <2> QED
    BY <2>4, <2>6, <2>7
<1> QED
  BY <1>3, <1>4, <1>5

\* The first question.
LEMMA GraphIsAsked ==
    ASSUME NEW r \in requests, NEW t, t = r.thread, Moves(t), Drives(t),
           Open(t), OfGraph(t), FirstCalled(t), completed' = completed,
           Deliver(r, QuestionAt(t, 1)),
           Note(t, Log(t, EntryNo(t, 1).phase, EntryNo(t, 1).subject)),
           path[t] = "checkpointed_round_graph" => StateAt(t, 1) \in issued'
    PROVE  Drives(t)'
<1>1. ExerciseInv /\ t \in Threads /\ SPECS' = SPECS /\ path' = path
  BY DEF Moves
<1>2. /\ ckpt' = ckpt /\ run' = run /\ aborts' = aborts
      /\ inbox'[t] = QuestionAt(t, 1)
  BY <1>1, OpenHears
<1>3. RowIs(t, 1, 0, 0, 0, 0) /\ Own(t) = {}
  BY DEF FirstCalled
<1>4. RowIs(t, 1, 0, 1, 0, 0)' /\ Open(t)'
  <2>1. RowIs(t, 1, 0, 0 + 1, 0, 0)' /\ Open(t)'
    BY <1>3, RowLogs
  <2> QED
    BY <2>1
<1>5. Own(t)' = {}
  BY <1>3, RecordSame, RecordKept
<1>6. /\ \A i : /\ QuestionAt(t, i)' = QuestionAt(t, i)
                /\ StateAt(t, i)' = StateAt(t, i)
      /\ SPECS[t].rounds \in Nat \ {0}
  <2>1. SPECS[t] \in Specs /\ MaxForms \in Nat
    BY <1>1, PreviewAssumption DEF ExerciseInv, Books
  <2>2. SPECS[t].rounds \in 1 .. MaxForms
    BY <2>1, PreviewAssumption
  <2> QED
    BY <1>1, <2>1, <2>2, CaseKept
<1>7. IsPending(t, inbox[t], 1)'
  BY <1>1, <1>2, <1>6 DEF IsPending
<1>8. IsAsked(t)'
  BY <1>2, <1>4, <1>5, <1>7 DEF FirstCalled, IsAsked
<1>9. GraphWork(t)'
  <2>1. GraphWork(t)
    BY DEF Drives, Work
  <2> QED
    BY <1>2, <1>8, <2>1 DEF GraphWork
<1> QED
  BY <1>4, <1>9, GraphGoesOn

\* What follows an answer: the next question, or the end.
LEMMA GraphIsTold ==
    ASSUME NEW r \in requests, NEW t, t = r.thread, Moves(t), Drives(t),
           Open(t), OfGraph(t), NEW s \in Nat \ {0}, AnswerSent(t, s),
           NEW f, Deliver(r, f), issued \subseteq issued',
           Note(t, Log(t, EntryNo(t, s + 1).phase, EntryNo(t, s + 1).subject)),
           \/ /\ f = QuestionAt(t, s + 1) /\ s < SPECS[t].rounds
              /\ path[t] = "checkpointed_round_graph" =>
                     StateAt(t, s + 1) \in issued'
              /\ Yes(t, s) /\ Own(t)' = {}
           \/ /\ f.kind = "terminal"
              /\ IF path[t] = "process_restart"
                 THEN /\ Yes(t, s) /\ f.result.isError = FALSE
                      /\ f.result.text = "completed-from-process-B"
                 ELSE IF Yes(t, s) /\ ~ SPECS[t].error
                 THEN /\ s = SPECS[t].rounds /\ Previewed(t, "draft-A")'
                      /\ f.result.isError = FALSE
                 ELSE /\ Own(t)' = {}
                      /\ SPECS[t].error /\ Accepts(t, s)
                             => f.result.isError = TRUE
    PROVE  Drives(t)'
<1>1. ExerciseInv /\ t \in Threads /\ SPECS' = SPECS /\ path' = path
  BY DEF Moves
<1>2. /\ ckpt' = ckpt /\ run' = run /\ aborts' = aborts /\ inbox'[t] = f
  BY <1>1, OpenHears
<1>3. /\ RowIs(t, s + 1, s, s, s, s) /\ Holds(t, s) /\ run[t] = "calling"
  BY DEF AnswerSent
<1>4. /\ RowIs(t, s + 1, s, s + 1, s, s)' /\ Open(t)'
      /\ rows'[t].answers = rows[t].answers
  BY <1>3, RowLogs
<1>5. \A i : /\ QuestionAt(t, i)' = QuestionAt(t, i)
             /\ StateAt(t, i)' = StateAt(t, i)
  BY <1>1, CaseKept
<1>6. /\ Holds(t, s)' /\ s \in 1 .. SPECS[t].rounds
      /\ (Yes(t, s)' <=> Yes(t, s)) /\ (Accepts(t, s)' <=> Accepts(t, s))
  <2>1. IsPending(t, ckpt[t].frame, s)'
    BY <1>1, <1>2, <1>3, <1>5 DEF Holds, IsPending
  <2> QED
    BY <1>2, <1>3, <1>4, <2>1, AnswerKept DEF Holds, IsPending
<1>7. SPECS[t].rounds \in Nat
  BY <1>1, PreviewAssumption DEF ExerciseInv, Books
<1>8. ASSUME f = QuestionAt(t, s + 1), s < SPECS[t].rounds,
             path[t] = "checkpointed_round_graph" =>
                 StateAt(t, s + 1) \in issued',
             Yes(t, s), Own(t)' = {}
      PROVE  AskedAgain(t, s)'
  <2>1. IsPending(t, inbox[t], s + 1)'
    BY <1>1, <1>2, <1>5, <1>7, <1>8 DEF IsPending
  <2> QED
    BY <1>2, <1>3, <1>4, <1>6, <1>8, <2>1 DEF AskedAgain
<1>9. ASSUME f.kind = "terminal",
             IF path[t] = "process_restart"
             THEN /\ Yes(t, s) /\ f.result.isError = FALSE
                  /\ f.result.text = "completed-from-process-B"
             ELSE IF Yes(t, s) /\ ~ SPECS[t].error
             THEN /\ s = SPECS[t].rounds /\ Previewed(t, "draft-A")'
                  /\ f.result.isError = FALSE
             ELSE /\ Own(t)' = {}
                  /\ SPECS[t].error /\ Accepts(t, s)
                         => f.result.isError = TRUE
      PROVE  Told(t, s)'
  <2>1. EndsAfter(t, s, inbox[t].result)'
    BY <1>1, <1>2, <1>6, <1>9 DEF EndsAfter
  <2> QED
    BY <1>2, <1>3, <1>4, <1>6, <1>9, <2>1 DEF Told
<1>10. GraphWork(t)'
  <2>1. GraphWork(t)
    BY DEF Drives, Work
  <2> QED
    BY <1>2, <1>6, <1>8, <1>9, <2>1 DEF GraphWork
<1> QED
  BY <1>4, <1>10, GraphGoesOn

\* The probe's server reads the last answer of the row.
LEMMA AnswerIs ==
    ASSUME ExerciseInv, NEW t \in Threads, path[t] # "process_restart",
           NEW s \in Nat \ {0}, NEW c, NEW g, NEW l, RowIs(t, c, g, l, s, s)
    PROVE  LET state == StateAt(t, s)
               answers == rows[t].answers[s]
           IN  /\ AcceptedBy(state, answers) <=> Yes(t, s)
               /\ FormKey(state) \in DOMAIN answers
               /\ answers[FormKey(state)].action = "accept" <=> Accepts(t, s)
<1> DEFINE K == KeyAt(t, s)
           answers == rows[t].answers[s]
           yes == [action |-> "accept", content |-> "yes"]
<1>1. FormKey(StateAt(t, s)) = K
  BY AskedFacts
<1>2. DOMAIN answers = {K} /\ answers \in AnswerMaps
  BY DEF RowIs, AnswersAre
<1> HIDE DEF K, answers
<1>3. answers = [k \in {K} |-> answers[k]]
  <2>1. answers # NoAnswers
    BY <1>2 DEF NoAnswers
  <2>2. PICK k \in Keys : answers \in [{k} -> Answer]
    BY <1>2, <2>1 DEF AnswerMaps
  <2> QED
    BY <1>2, <2>2
<1>4. Yes(t, s) <=> answers = [k \in {K} |-> yes]
  BY DEF Yes, YesTo, Sole, K, answers
<1> HIDE DEF yes
<1>5. answers[K] = yes <=> answers = [k \in {K} |-> yes]
  BY <1>3
<1>6. AcceptedBy(StateAt(t, s), answers) <=> answers[K] = yes
  BY <1>1, <1>2 DEF AcceptedBy, yes
<1>7. answers[K].action = "accept" <=> Accepts(t, s)
  BY DEF Accepts, K, answers
<1> QED
  BY <1>1, <1>2, <1>4, <1>5, <1>6, <1>7 DEF answers

\* The probe's server and an open case of the round graph.
LEMMA ProbeDrives ==
    ASSUME ExerciseInv, NEW r \in requests, NEW t, t = r.thread,
           path[t] = "checkpointed_round_graph", Drives(t), Open(t),
           ServeLogged(r)
    PROVE  Drives(t)'
<1>1. t \in Threads /\ OfGraph(t) /\ path' = path
  BY TokenFacts DEF ExerciseInv, OfGraph, ServeLogged
<1>2. CASE ServeInitial(r) /\ Note(t, Log(t, "initial",
                 IF SPECS[t].drift /\ sequence[t] > 0 THEN "draft-B"
                 ELSE "draft-A"))
  <2> DEFINE state == [case |-> t, round |-> 1, serial |-> sequence[t] + 1,
                       subject |-> IF SPECS[t].drift /\ sequence[t] + 1 > 1
                                   THEN "draft-B" ELSE "draft-A"]
  <2>1. /\ r.token = NoToken /\ SPECS' = SPECS /\ completed' = completed
        /\ issued' = issued \cup {state}
        /\ Deliver(r, InputFrame(state, FormOf(state)))
    BY <1>2, Zenon DEF ServeInitial, Ask
  <2>2. FirstCalled(t)
    BY <1>1, <2>1, GraphSent
  <2>3. sequence[t] = 0
    BY <2>2 DEF FirstCalled
  <2>4. state = StateAt(t, 1)
    BY <2>3 DEF StateAt, AskedOf
  <2> HIDE DEF state
  <2>5. InputFrame(state, FormOf(state)) = QuestionAt(t, 1)
    BY <2>4 DEF QuestionAt, FormNo, FormAt
  <2>6. EntryNo(t, 1).phase = "initial" /\ EntryNo(t, 1).subject = "draft-A"
    BY DEF EntryNo, AskedOf
  <2>7. Note(t, Log(t, EntryNo(t, 1).phase, EntryNo(t, 1).subject))
    <3>1. (IF SPECS[t].drift /\ sequence[t] > 0 THEN "draft-B" ELSE "draft-A")
              = "draft-A"
      BY <2>3
    <3> QED
      BY <1>2, <2>6, <3>1, Zenon
  <2>8. Moves(t)
    BY <1>1, <2>1 DEF Moves
  <2>9. Deliver(r, QuestionAt(t, 1)) /\ StateAt(t, 1) \in issued'
    BY <2>1, <2>4, <2>5
  <2> QED
    BY <1>1, <2>1, <2>2, <2>7, <2>8, <2>9, GraphIsAsked
<1>3. ASSUME ServeRefusal(r) \/ ServeNextRound(r) \/ ServePreview(r),
             Note(t, Log(t, "resume", r.token.subject))
      PROVE  Drives(t)'
  <2>1. r.token # NoToken
    BY <1>3 DEF ServeRefusal, ServeNextRound, ServePreview
  <2>2. PICK s \in Nat \ {0} : /\ AnswerSent(t, s) /\ r.token = StateAt(t, s)
                               /\ r.answers = rows[t].answers[s]
    BY <1>1, <2>1, GraphSent
  <2>3. /\ Own(t) = {} /\ RowIs(t, s + 1, s, s, s, s)
        /\ StateAt(t, s) \in issued /\ s \in 1 .. SPECS[t].rounds
    BY <2>2 DEF AnswerSent, Holds, IsPending
  <2>4. /\ AcceptedBy(r.token, r.answers) <=> Yes(t, s)
        /\ FormKey(r.token) \in DOMAIN r.answers
        /\ r.answers[FormKey(r.token)].action = "accept" <=> Accepts(t, s)
    BY <1>1, <2>2, <2>3, AnswerIs
  <2>5. /\ r.token.case = t /\ r.token.round = s
        /\ r.token.subject = "draft-A"
    <3>1. /\ StateAt(t, s).case = t /\ StateAt(t, s).round = s
          /\ StateAt(t, s).subject = AskedOf(t)
      BY <1>1, AskedFacts
    <3> QED
      BY <2>2, <3>1 DEF AskedOf
  <2>6. Note(t, Log(t, EntryNo(t, s + 1).phase, EntryNo(t, s + 1).subject))
    <3>1. EntryNo(t, s + 1).phase = "resume"
          /\ EntryNo(t, s + 1).subject = "draft-A"
      BY DEF EntryNo, AskedOf
    <3> QED
      BY <1>3, <2>5, <3>1, Zenon
  <2>7. CASE ServeRefusal(r)
    <3>1. UNCHANGED serverVars
      BY <2>7, Zenon DEF ServeRefusal
    <3>2. SPECS' = SPECS /\ issued' = issued /\ completed' = completed
      BY <3>1 DEF serverVars
    <3>3. ~ Yes(t, s) \/ SPECS[t].error
      BY <2>2, <2>3, <2>4, <2>5, <2>7 DEF ServeRefusal
    <3>4. PICK f : /\ Deliver(r, f) /\ f.kind = "terminal"
                   /\ Accepts(t, s) => f.result.isError = TRUE
      <4>1. Deliver(r, Text(FALSE, "skipped", None))
            \/ Deliver(r, Text(TRUE, "failed", None))
        BY <2>7, Zenon DEF ServeRefusal
      <4>2. Accepts(t, s) => Deliver(r, Text(TRUE, "failed", None))
        BY <2>2, <2>3, <2>4, <2>7 DEF ServeRefusal
      <4>3. /\ Text(FALSE, "skipped", None).kind = "terminal"
            /\ Text(TRUE, "failed", None).kind = "terminal"
            /\ Text(TRUE, "failed", None).result.isError = TRUE
        BY DEF Text, TerminalFrame
      <4> QED
        BY <4>1, <4>2, <4>3, Zenon
    <3>5. Own(t)' = {} /\ Moves(t)
      BY <1>1, <2>3, <3>2, RecordSame, RecordKept DEF Moves
    <3> QED
      BY <1>1, <2>2, <2>6, <3>2, <3>3, <3>4, <3>5, GraphIsTold
  <2>8. CASE ServeNextRound(r)
    <3> DEFINE next == AtRound(r.token, r.token.round + 1)
    <3>1. /\ SPECS' = SPECS /\ completed' = completed
          /\ issued' = issued \cup {next}
          /\ AcceptedBy(r.token, r.answers)
          /\ r.token.round < SPECS[r.token.case].rounds
          /\ Deliver(r, InputFrame(next, FormOf(next)))
      BY <2>8, Zenon DEF ServeNextRound, Ask, AtRound
    <3>2. next = StateAt(t, s + 1)
      BY <2>2, <2>5, AskedNext
    <3> HIDE DEF next
    <3>3. InputFrame(next, FormOf(next)) = QuestionAt(t, s + 1)
      BY <3>2 DEF QuestionAt, FormNo, FormAt
    <3>4. Deliver(r, QuestionAt(t, s + 1)) /\ StateAt(t, s + 1) \in issued'
      BY <3>1, <3>2, <3>3
    <3>5. Own(t)' = {} /\ Moves(t)
      BY <1>1, <2>3, <3>1, RecordSame, RecordKept DEF Moves
    <3>6. Yes(t, s) /\ s < SPECS[t].rounds /\ issued \subseteq issued'
      BY <2>4, <2>5, <3>1
    <3> QED
      BY <1>1, <2>2, <2>6, <3>4, <3>5, <3>6, GraphIsTold
  <2>9. CASE ServePreview(r)
    <3> DEFINE f == Text(FALSE, "previewed", r.token.subject)
    <3>1. /\ SPECS' = SPECS /\ issued' = issued
          /\ AcceptedBy(r.token, r.answers) /\ ~ SPECS[r.token.case].error
          /\ r.token.round = SPECS[r.token.case].rounds
          /\ completed' = Append(completed, [case |-> r.token.case,
                                             subject |-> r.token.subject])
          /\ Deliver(r, f)
      BY <2>9, Zenon DEF ServePreview
    <3>2. f.kind = "terminal" /\ f.result.isError = FALSE
      BY DEF Text, TerminalFrame
    <3> HIDE DEF f
    <3>3. Previewed(t, "draft-A")' /\ Moves(t)
      <4>1. completed' = Append(completed, [case |-> t, subject |-> "draft-A"])
        BY <2>5, <3>1
      <4> QED
        BY <1>1, <2>3, <3>1, <4>1, RecordGrows DEF Moves, AllSubjects
    <3>4. Yes(t, s) /\ ~ SPECS[t].error /\ s = SPECS[t].rounds
      BY <2>4, <2>5, <3>1
    <3> QED
      BY <1>1, <2>2, <2>6, <3>1, <3>2, <3>3, <3>4, GraphIsTold
  <2> QED
    BY <1>3, <2>7, <2>8, <2>9
<1> QED
  BY <1>2, <1>3, Zenon DEF ServeLogged

\* The doubles of the restart probe.
LEMMA RestartDrives ==
    ASSUME ExerciseInv, NEW r \in requests, NEW t, t = r.thread, Drives(t),
           Open(t), PhaseOneCall(r) \/ PhaseTwoCall(r)
    PROVE  Drives(t)'
<1>1. /\ path[t] = "process_restart" /\ path' = path /\ SPECS' = SPECS
      /\ issued' = issued /\ completed' = completed
  BY Zenon DEF PhaseOneCall, PhaseTwoCall, serverVars
<1>2. t \in Threads /\ OfGraph(t) /\ Moves(t)
  BY <1>1, TokenFacts DEF ExerciseInv, OfGraph, Moves
<1>3. /\ TOKEN(t) = StateAt(t, 1) /\ RestartForm = FormNo(t, 1)
      /\ \A i : KeyAt(t, i) = <<0, 0>>
  BY <1>1 DEF TOKEN, StateAt, AskedOf, FormNo, FormAt, KeyAt
<1>4. CASE PhaseOneCall(r)
  <2>1. /\ r.token = NoToken /\ Deliver(r, InputFrame(TOKEN(t), RestartForm))
        /\ Note(t, Log(t, "initial", "process-A"))
    BY <1>4, Zenon DEF PhaseOneCall
  <2>2. FirstCalled(t)
    BY <1>2, <2>1, GraphSent
  <2>3. InputFrame(TOKEN(t), RestartForm) = QuestionAt(t, 1)
    BY <1>3 DEF QuestionAt
  <2>4. EntryNo(t, 1).phase = "initial" /\ EntryNo(t, 1).subject = "process-A"
    BY <1>1 DEF EntryNo, AskedOf
  <2>5. /\ Deliver(r, QuestionAt(t, 1))
        /\ Note(t, Log(t, EntryNo(t, 1).phase, EntryNo(t, 1).subject))
    BY <2>1, <2>3, <2>4, Zenon
  <2> QED
    BY <1>1, <1>2, <2>2, <2>5, GraphIsAsked
<1>5. CASE PhaseTwoCall(r)
  <2> DEFINE f == Text(FALSE, "completed-from-process-B", None)
  <2>1. /\ r.token = TOKEN(t) /\ r.answers = Sole(<<0, 0>>, "accept", "yes")
        /\ Deliver(r, f) /\ Note(t, Log(t, "resume", "process-A"))
    BY <1>5, Zenon DEF PhaseTwoCall
  <2>2. /\ f.kind = "terminal" /\ f.result.isError = FALSE
        /\ f.result.text = "completed-from-process-B"
    BY DEF Text, TerminalFrame
  <2> HIDE DEF f
  <2>3. r.token # NoToken
    <3>1. StateAt(t, 1) # NoToken
      BY <1>2, AskedFacts
    <3> QED
      BY <1>3, <2>1, <3>1
  <2>4. PICK s \in Nat \ {0} : /\ AnswerSent(t, s) /\ r.token = StateAt(t, s)
                               /\ r.answers = rows[t].answers[s]
    BY <1>2, <2>3, GraphSent
  <2>5. Yes(t, s)
    BY <1>3, <2>1, <2>4 DEF Yes, YesTo
  <2>6. Note(t, Log(t, EntryNo(t, s + 1).phase, EntryNo(t, s + 1).subject))
    <3>1. EntryNo(t, s + 1).phase = "resume"
          /\ EntryNo(t, s + 1).subject = "process-A"
      BY <1>1 DEF EntryNo, AskedOf
    <3> QED
      BY <2>1, <3>1, Zenon
  <2> QED
    BY <1>1, <1>2, <2>1, <2>2, <2>4, <2>5, <2>6, GraphIsTold
<1> QED
  BY <1>4, <1>5

-----------------------------------------------------------------------------
\* The adapter's cases.
LEMMA GoesOne ==
    ASSUME NEW t, Goes(t)
    PROVE  /\ ExerciseInv /\ t \in Threads /\ Entry(t)
           /\ path' = path /\ SPECS' = SPECS
           /\ ckpt \in [Threads -> States(ExerciseFrames, ExerciseMaps,
                                       ExerciseResults \cup {None})]
           /\ DOMAIN ckpt = Threads /\ DOMAIN run = Threads
           /\ DOMAIN shown = Threads /\ DOMAIN inbox = Threads
           /\ inbox[t] \in ExerciseFrames /\ NoFrame.kind = "none"
           /\ DOMAIN rows = Threads /\ IsRow(rows[t])
           /\ \A u \in Threads : IsRow(rows[u])
           /\ issued' = issued /\ Own(t)' = Own(t) /\ SameRecord(t)
           /\ sequence' = sequence
           /\ path[t] \in AdapterPaths =>
                  AdapterWork(t) /\ AdapterThread(t) /\ OneCall(t)
           /\ path[t] = "direct_session" =>
                  DirectWork(t) /\ DirectThread(t) /\ OneCall(t)
<1>1. ExerciseInv /\ t \in Threads /\ path' = path /\ SPECS' = SPECS
  BY DEF Goes, Moves
<1>2. /\ Entry(t) /\ path[t] \in AdapterPaths => AdapterWork(t)
      /\ path[t] = "direct_session" => DirectWork(t)
  BY DEF Goes, Drives, Work
<1>3. /\ path[t] \in AdapterPaths => AdapterThread(t) /\ OneCall(t)
      /\ path[t] = "direct_session" => DirectThread(t) /\ OneCall(t)
  BY <1>1 DEF ExerciseInv, ExerciseThread, AdapterThread, DirectThread
<1>4. /\ ckpt \in [Threads -> States(ExerciseFrames, ExerciseMaps,
                                  ExerciseResults \cup {None})]
      /\ DOMAIN ckpt = Threads /\ DOMAIN run = Threads
      /\ DOMAIN shown = Threads /\ DOMAIN inbox = Threads
      /\ inbox[t] \in ExerciseFrames
      /\ DOMAIN rows = Threads /\ IsRow(rows[t])
      /\ \A u \in Threads : IsRow(rows[u])
  BY <1>1 DEF ExerciseInv, ExerciseShape, Shape, Books
<1>5. /\ issued' = issued /\ Own(t)' = Own(t) /\ SameRecord(t)
      /\ sequence' = sequence
  BY RecordSame, RecordKept DEF Goes
<1>6. NoFrame.kind = "none"
  BY DEF NoFrame
<1>7. Entry(t)
  BY DEF Goes, Drives
<1> QED
  BY <1>1, <1>2, <1>3, <1>4, <1>5, <1>6, <1>7

LEMMA AdapterGoesOn ==
    ASSUME NEW t, Moves(t), Drives(t), path[t] \in AdapterPaths,
           Open(t)' => AdapterWork(t)', ~ Open(t)' => AdapterOver(t)'
    PROVE  Drives(t)'
<1>1. /\ Entry(t)' /\ (OfGraph(t)' <=> OfGraph(t)) /\ path' = path
  BY CaseKept DEF Moves, Drives
<1>2. ~ OfGraph(t) /\ path[t] # "direct_session"
  BY DEF OfGraph, AdapterPaths
<1> QED
  BY <1>1, <1>2 DEF Drives, Work, Ended

LEMMA DirectGoesOn ==
    ASSUME NEW t, Moves(t), Drives(t), path[t] = "direct_session",
           Open(t)' => DirectWork(t)', ~ Open(t)' => DirectOver(t)'
    PROVE  Drives(t)'
<1>1. /\ Entry(t)' /\ (OfGraph(t)' <=> OfGraph(t)) /\ path' = path
  BY CaseKept DEF Moves, Drives
<1>2. ~ OfGraph(t) /\ path[t] \notin AdapterPaths
  BY DEF OfGraph, AdapterPaths
<1> QED
  BY <1>1, <1>2 DEF Drives, Work, Ended

\* The adapter's steps that leave its row alone.
LEMMA AdapterIdlesOn ==
    ASSUME NEW t, Goes(t), AdapterInvokes(t) \/ AdapterCalls(t)
    PROVE  Drives(t)'
<1>1. path[t] \in AdapterPaths
  BY DEF AdapterInvokes, AdapterCalls, Adapted
<1> USE GoesOne
<1>2. /\ rows' = rows /\ ckpt' = ckpt /\ shown' = shown /\ aborts' = aborts
      /\ inbox' = inbox
      /\ \A r \in requests' : r.thread = t =>
             r \in requests \/ (r.token = NoToken /\ r.attempt = aborts[t])
  BY DEF AdapterInvokes, AdapterCalls, Invoke, BeginCall, CallTool
<1>3. AdapterWork(t) /\ aborts[t] = 0
  BY <1>1 DEF AdapterWork, OneAttempt
<1>4. OneIdles(t)
  BY <1>2, <1>3 DEF OneIdles
<1>5. AdapterWork(t)' /\ Open(t)'
  BY <1>2, <1>3, <1>4, AdapterIdles DEF Goes, Open
<1> QED
  BY <1>1, <1>5, AdapterGoesOn DEF Goes

LEMMA AdapterShowsOn ==
    ASSUME NEW t, Goes(t), AdapterShows(t)
    PROVE  Drives(t)'
<1>1. path[t] \in AdapterPaths
  BY DEF AdapterShows, Adapted
<1> USE GoesOne
<1>2. /\ run[t] = "calling" /\ inbox[t].kind = "input"
      /\ ckpt[t].answers = NoAnswers
      /\ shown'[t] = inbox[t].form /\ inbox'[t] = NoFrame
      /\ ckpt' = ckpt /\ aborts' = aborts /\ requests' = requests
  BY DEF AdapterShows
<1>3. Note(t, [rows[t] EXCEPT !.shown = <<inbox[t].form>>])
  BY Zenon DEF AdapterShows
<1>4. AdapterWork(t) /\ AdapterThread(t) /\ OneCall(t) /\ Open(t) /\ Moves(t)
  BY <1>1 DEF Goes
<1>5. shown[t] = NoForm /\ inbox[t] = InputFrame(First(t), FormOf(First(t)))
  BY <1>2, <1>4 DEF AdapterThread
<1>6. inbox[t].form = FormOf(First(t))
  BY <1>5 DEF InputFrame
<1>7. /\ OnlyIn(t, "shown") /\ rows'[t].shown = <<FormOf(First(t))>>
      /\ rows'[t].outcome = rows[t].outcome
  <2> DEFINE x == <<inbox[t].form>>
  <2> HIDE DEF x
  <2>1. Note(t, [rows[t] EXCEPT !.shown = x])
    BY <1>3 DEF x
  <2>2. OnlyIn(t, "shown") /\ rows'[t].shown = x
    <3>1. DOMAIN rows = Threads /\ t \in Threads /\ IsRow(rows[t])
      BY GoesOne
    <3> HIDE GoesOne
    <3> QED
      BY <1>4, <2>1, <3>1, NoteFields, Zenon
  <2>3. rows'[t].outcome = rows[t].outcome
    <3>1. DOMAIN rows = Threads /\ t \in Threads
          /\ \A u \in Threads : IsRow(rows[u])
      BY GoesOne
    <3> HIDE GoesOne
    <3> QED
      BY <2>1, <3>1, NotesKept, Zenon
  <2> QED
    BY <1>6, <2>2, <2>3 DEF x
<1>8. Own(t) = {} /\ ckpt[t].status = "new" /\ ckpt[t].result = None
  BY <1>2, <1>4 DEF AdapterWork
<1>9. \A r \in requests : r.thread # t
  <2>1. inbox[t] # NoFrame
    BY <1>2
  <2> QED
    BY <1>4, <2>1 DEF OneCall
<1>10. First(t)' = First(t) /\ \A state : FormOf(state)' = FormOf(state)
  BY CasesKept
<1>11. aborts[t] = 0
  BY <1>4 DEF AdapterWork, OneAttempt
<1>12. AdapterWork(t)'
  BY <1>2, <1>7, <1>8, <1>9, <1>10, <1>11 DEF AdapterWork, OneAttempt
<1>13. Open(t)'
  BY <1>4, <1>7 DEF Open
<1> QED
  BY <1>1, <1>4, <1>12, <1>13, AdapterGoesOn DEF Goes

LEMMA AdapterResumesOn ==
    ASSUME NEW t, Goes(t), AdapterResumes(t)
    PROVE  Drives(t)'
<1>1. path[t] \in AdapterPaths
  BY DEF AdapterResumes, Adapted
<1> USE GoesOne
<1>2. /\ run[t] = "stopped" /\ shown[t] # NoForm /\ shown' = shown
      /\ inbox' = inbox /\ aborts' = aborts /\ requests' = requests
  BY Zenon DEF AdapterResumes
<1>25. PICK k \in shown[t].keys : \E answers \in Submitted(t, k) :
           ckpt' = [ckpt EXCEPT ![t].answers = answers]
  BY Zenon DEF AdapterResumes
<1>3. PICK answers \in Submitted(t, k) :
          ckpt' = [ckpt EXCEPT ![t].answers = answers]
  BY <1>25, Zenon
<1>4. AdapterWork(t) /\ AdapterThread(t) /\ OneCall(t) /\ Open(t) /\ Moves(t)
  BY <1>1 DEF Goes
<1>5. /\ ckpt'[t].answers = answers /\ ckpt'[t].status = ckpt[t].status
      /\ ckpt'[t].result = ckpt[t].result
  BY <1>3 DEF States
<1>6. shown[t] = FormOf(First(t)) /\ k = FormKey(First(t))
  BY <1>2, <1>25, <1>4, AdapterForms DEF AdapterThread
<1>7. answers \in OwnAnswers(t)
  BY <1>3, <1>6 DEF Submitted, OwnAnswers, ToFirst, YesTo
<1>8. answers # NoAnswers
  BY <1>3 DEF Submitted, Sole, NoAnswers
<1>9. Note(t, [rows[t] EXCEPT !.answers = <<answers>>])
  <2>1. Note(t, [rows[t] EXCEPT !.answers = <<ckpt'[t].answers>>])
    BY Zenon DEF AdapterResumes
  <2> QED
    BY <1>5, <2>1, Zenon
<1>10. /\ OnlyIn(t, "answers") /\ rows'[t].answers = <<answers>>
       /\ rows'[t].outcome = rows[t].outcome
  <2> DEFINE x == <<answers>>
  <2> HIDE DEF x
  <2>1. Note(t, [rows[t] EXCEPT !.answers = x])
    BY <1>9 DEF x
  <2>2. OnlyIn(t, "answers") /\ rows'[t].answers = x
    <3>1. DOMAIN rows = Threads /\ t \in Threads /\ IsRow(rows[t])
      BY GoesOne
    <3> HIDE GoesOne
    <3> QED
      BY <1>4, <2>1, <3>1, NoteFields, Zenon
  <2>3. rows'[t].outcome = rows[t].outcome
    <3>1. DOMAIN rows = Threads /\ t \in Threads
          /\ \A u \in Threads : IsRow(rows[u])
      BY GoesOne
    <3> HIDE GoesOne
    <3> QED
      BY <2>1, <3>1, NotesKept, Zenon
  <2> QED
    BY <2>2, <2>3 DEF x
<1>11. inbox[t] = NoFrame /\ \A r \in requests : r.thread # t
  BY <1>2, <1>4 DEF OneCall
<1>12. /\ Own(t) = {} /\ ckpt[t].status = "new" /\ ckpt[t].result = None
       /\ rows[t].shown = <<FormOf(First(t))>>
  BY <1>2, <1>4, <1>11 DEF AdapterWork
<1>13. /\ First(t)' = First(t) /\ OwnAnswers(t)' = OwnAnswers(t)
       /\ \A state : FormOf(state)' = FormOf(state)
  BY CasesKept
<1>14. aborts[t] = 0
  BY <1>4 DEF AdapterWork, OneAttempt
<1>15. rows'[t].shown = rows[t].shown
  BY <1>10 DEF OnlyIn
<1>16. AdapterWork(t)'
  BY <1>2, <1>5, <1>7, <1>10, <1>11, <1>12, <1>13, <1>14, <1>15
     DEF AdapterWork, OneAttempt
<1>17. Open(t)'
  BY <1>4, <1>10 DEF Open
<1> QED
  BY <1>1, <1>4, <1>16, <1>17, AdapterGoesOn DEF Goes

LEMMA AdapterAnswersOn ==
    ASSUME NEW t, Goes(t), AdapterAnswers(t)
    PROVE  Drives(t)'
<1>1. path[t] \in AdapterPaths
  BY DEF AdapterAnswers, Adapted
<1> USE GoesOne
<1>2. /\ run[t] = "calling" /\ inbox[t].kind = "input"
      /\ ckpt[t].answers # NoAnswers
      /\ shown' = shown /\ aborts' = aborts /\ ckpt' = ckpt
      /\ inbox'[t] = NoFrame
  BY Zenon DEF AdapterAnswers
<1>3. AdapterWork(t) /\ AdapterThread(t) /\ OneCall(t) /\ Open(t) /\ Moves(t)
  BY <1>1 DEF Goes
<1>4. /\ shown[t] # NoForm /\ shown[t] = FormOf(First(t))
      /\ inbox[t] = InputFrame(Second(t), FormOf(Second(t)))
      /\ DOMAIN ckpt[t].answers = shown[t].keys
  BY <1>2, <1>3 DEF AdapterThread
<1>5. inbox[t].token = Second(t) /\ inbox[t].form = FormOf(Second(t))
  BY <1>4 DEF InputFrame
<1>6. /\ Own(t) = {} /\ Second(t) \in issued /\ aborts[t] = 0
      /\ rows[t].shown = <<FormOf(First(t))>>
      /\ rows[t].answers = <<ckpt[t].answers>>
      /\ ckpt[t].answers \in OwnAnswers(t)
      /\ ckpt[t].status = "new" /\ ckpt[t].result = None
  BY <1>2, <1>3, <1>4 DEF AdapterWork, OneAttempt
<1>7. \A r \in requests : r.thread # t
  <2>1. inbox[t] # NoFrame
    BY <1>2
  <2> QED
    BY <1>3, <2>1 DEF OneCall
<1>8. /\ First(t)' = First(t) /\ OwnAnswers(t)' = OwnAnswers(t)
      /\ Second(t)' = Second(t)
      /\ \A state : FormOf(state)' = FormOf(state)
  BY CasesKept
<1>9. CASE DOMAIN ckpt[t].answers = inbox[t].form.keys
  <2>1. /\ requests' = requests \cup
                {[thread |-> t, attempt |-> aborts[t],
                  token |-> inbox[t].token, answers |-> ckpt[t].answers]}
        /\ rows' = rows
    BY <1>9, Zenon DEF AdapterAnswers
  <2>2. \A r \in requests' : r.thread = t =>
            r.attempt = 0 /\ r.answers = ckpt[t].answers
    BY <1>6, <1>7, <2>1
  <2>3. OneAttempt(t)'
    BY <1>2, <1>6, <2>2 DEF OneAttempt
  <2>4. AdapterWork(t)'
    <3>1. /\ ckpt'[t] = ckpt[t] /\ shown'[t] = shown[t] /\ rows'[t] = rows[t]
          /\ inbox'[t].kind = "none" /\ issued' = issued /\ Own(t)' = {}
      BY <1>2, <1>6, <2>1
    <3>2. \A r \in requests' : r.thread = t /\ r.token # NoToken =>
              /\ ckpt'[t].answers # NoAnswers
              /\ r.answers = ckpt'[t].answers /\ Second(t)' \in issued'
      BY <1>2, <1>6, <1>8, <2>2, <3>1
    <3> HIDE GoesOne
    <3> QED
      BY <1>2, <1>6, <1>8, <2>3, <3>1, <3>2 DEF AdapterWork
  <2>5. Open(t)'
    BY <1>3, <2>1 DEF Open
  <2> QED
    BY <1>1, <1>3, <2>4, <2>5, AdapterGoesOn DEF Goes
<1>10. CASE DOMAIN ckpt[t].answers # inbox[t].form.keys
  <2>1. Note(t, Over(t, "raised"))
    BY <1>10, Zenon DEF AdapterAnswers
  <2>2. /\ rows'[t].outcome = "raised" /\ rows'[t].status = ckpt'[t].status
        /\ rows'[t].completed = Subjects(t) /\ ~ Open(t)'
    BY <1>3, <2>1, RowOver
  <2>3. Subjects(t) = <<>>
    BY <1>6, SubjectsAre
  <2>4. FormKey(First(t)) # FormKey(Second(t))
    <3>1. FormOf(First(t)).keys # FormOf(Second(t)).keys
      BY <1>4, <1>5, <1>10
    <3>2. \A state : FormOf(state).keys = {FormKey(state)}
      BY DEF FormOf
    <3> QED
      BY <3>1, <3>2
  <2>5. SPECS[t].fresh
    BY <2>4 DEF FormKey, First, Second
  <2>6. AdapterOver(t)'
    BY <1>2, <1>6, <2>2, <2>3, <2>5 DEF AdapterOver
  <2> QED
    BY <1>1, <1>3, <2>2, <2>6, AdapterGoesOn DEF Goes
<1> QED
  BY <1>9, <1>10

\* The end of a call, and the status and the result that it brings.
LEMMA EndsWith ==
    ASSUME NEW t, Moves(t), NEW outcome, CallEnds(t, outcome)
    PROVE  /\ ckpt'[t].result = inbox[t].result
           /\ ckpt'[t].status = IF inbox[t].result.isError
                                THEN "tool_error" ELSE "completed"
           /\ inbox[t].kind = "terminal" /\ Note(t, Over(t, outcome))
<1>1. ckpt \in [Threads -> States(ExerciseFrames, ExerciseMaps,
                               ExerciseResults \cup {None})]
      /\ t \in Threads
  BY DEF Moves, ExerciseInv, ExerciseShape, Shape
<1> DEFINE status == IF inbox[t].result.isError THEN "tool_error"
                     ELSE "completed"
           result == inbox[t].result
<1> HIDE DEF status, result
<1>2. ckpt' = [ckpt EXCEPT ![t].next = "end", ![t].result = result,
                           ![t].status = status]
  BY Zenon DEF CallEnds, status, result
<1>3. ckpt'[t] = [ckpt[t] EXCEPT !.next = "end", !.result = result,
                                 !.status = status]
  BY <1>1, <1>2
<1>4. ckpt'[t].result = result /\ ckpt'[t].status = status
  BY <1>1, <1>3 DEF States
<1>5. inbox[t].kind = "terminal" /\ Note(t, Over(t, outcome))
  BY Zenon DEF CallEnds
<1> QED
  BY <1>4, <1>5 DEF status, result

LEMMA RecordedSubjects ==
    ASSUME NEW t, NEW x, Previewed(t, x), \E S : completed \in Seq(S)
    PROVE  Subjects(t) = <<x>>
<1>1. PICK i \in DOMAIN completed : Own(t) = {i} /\ completed[i].subject = x
  BY DEF Previewed
<1>2. i \in Nat
  BY <1>1
<1> QED
  BY <1>1, <1>2, SubjectsAre

LEMMA AdapterReturnsOn ==
    ASSUME NEW t, Goes(t), AdapterReturns(t)
    PROVE  Drives(t)'
<1>1. path[t] \in AdapterPaths /\ CallEnds(t, "returned")
  BY DEF AdapterReturns, Adapted
<1> USE GoesOne
<1>2. AdapterWork(t) /\ Open(t) /\ Moves(t)
  BY <1>1 DEF Goes
<1>3. /\ ckpt'[t].result = inbox[t].result
      /\ ckpt'[t].status = IF inbox[t].result.isError
                           THEN "tool_error" ELSE "completed"
      /\ inbox[t].kind = "terminal" /\ Note(t, Over(t, "returned"))
  BY <1>1, <1>2, EndsWith
<1>4. /\ rows'[t].outcome = "returned" /\ rows'[t].status = ckpt'[t].status
      /\ rows'[t].completed = Subjects(t)
      /\ rows'[t].answers = rows[t].answers
      /\ rows'[t].shown = rows[t].shown /\ ~ Open(t)'
  BY <1>2, <1>3, RowOver
<1> DEFINE answers == ckpt[t].answers
<1>5. /\ shown[t] # NoForm /\ answers # NoAnswers /\ ~ SPECS[t].fresh
      /\ path[t] = "bound_adapter" => inbox[t].result = Mismatched
      /\ rows[t].shown = <<FormOf(First(t))>>
      /\ rows[t].answers = <<answers>> /\ answers \in OwnAnswers(t)
      /\ IF Records(t, answers)
         THEN Previewed(t, Second(t).subject) /\ inbox[t].result.isError = FALSE
         ELSE Own(t) = {}
  BY <1>2, <1>3 DEF AdapterWork
<1> HIDE DEF answers
<1>6. IF Records(t, answers)
      THEN Subjects(t) = <<Second(t).subject>> /\ ckpt'[t].status = "completed"
      ELSE Subjects(t) = <<>>
  <2>1. \E S : completed \in Seq(S)
    BY <1>2 DEF Moves, ExerciseInv, Books
  <2>2. Previewed(t, Second(t).subject) => Subjects(t) = <<Second(t).subject>>
    BY <2>1, RecordedSubjects
  <2>3. Own(t) = {} => Subjects(t) = <<>>
    BY SubjectsAre
  <2> QED
    BY <1>3, <1>5, <2>2, <2>3
<1>7. /\ First(t)' = First(t) /\ OwnAnswers(t)' = OwnAnswers(t)
      /\ Second(t)' = Second(t)
      /\ \A state : FormOf(state)' = FormOf(state)
  BY CasesKept
<1>8. \E a \in OwnAnswers(t)' : AdapterReturned(t, a)'
  <2>1. PICK a : a = answers
    OBVIOUS
  <2>2. a \in OwnAnswers(t)' /\ AdapterReturned(t, a)'
    <3>1. ToFirst(t)' = ToFirst(t)
      BY CasesKept
    <3>2. Records(t, a)' <=> Records(t, answers)
      BY <2>1, <3>1 DEF Records
    <3> QED
      BY <1>3, <1>4, <1>5, <1>6, <1>7, <2>1, <3>2 DEF AdapterReturned
  <2> QED
    BY <2>2
<1>9. AdapterOver(t)'
  BY <1>4, <1>8 DEF AdapterOver
<1> QED
  BY <1>1, <1>2, <1>4, <1>9, AdapterGoesOn DEF Goes

LEMMA AdapterRaisesOn ==
    ASSUME NEW t, Goes(t), AdapterRaises(t)
    PROVE  Drives(t)'
<1>1. /\ path[t] \in AdapterPaths /\ ckpt' = ckpt
      /\ Note(t, Over(t, "failed"))
  BY DEF AdapterRaises, Adapted, Abort
<1> USE GoesOne
<1>2. AdapterWork(t) /\ Open(t) /\ Moves(t)
  BY <1>1 DEF Goes
<1>3. /\ rows'[t].outcome = "failed" /\ rows'[t].status = ckpt'[t].status
      /\ ~ Open(t)'
  BY <1>1, <1>2, RowOver
<1>4. AdapterOver(t)'
  BY <1>1, <1>2, <1>3 DEF AdapterOver, AdapterWork
<1> QED
  BY <1>1, <1>2, <1>3, <1>4, AdapterGoesOn DEF Goes

LEMMA AdapterDrives ==
    ASSUME ExerciseInv, NEW t \in Threads, Drives(t), Adapter(t),
           UNCHANGED <<serverVars, path>>
    PROVE  Drives(t)'
<1>1. Open(t)
  BY Zenon DEF Adapter, AdapterInvokes, AdapterCalls, AdapterShows,
               AdapterResumes, AdapterAnswers, AdapterReturns, AdapterRaises,
               Adapted, Open
<1>2. Goes(t)
  BY <1>1 DEF Goes, Moves, serverVars
<1> QED
  BY <1>2, AdapterIdlesOn, AdapterShowsOn, AdapterResumesOn, AdapterAnswersOn,
     AdapterReturnsOn, AdapterRaisesOn DEF Adapter

\* A reply to the adapter, and the answer that it is for.
LEMMA AdapterHears ==
    ASSUME NEW r \in requests, NEW t, t = r.thread, Moves(t), Drives(t),
           Open(t), path[t] \in AdapterPaths, NEW f, Deliver(r, f),
           NEW phase, NEW subject, Note(t, Log(t, phase, subject)),
           issued \subseteq issued',
           f.kind = "input" /\ shown[t] # NoForm => Second(t) \in issued',
           f.kind = "terminal" =>
               /\ shown[t] # NoForm /\ ckpt[t].answers # NoAnswers
               /\ ~ SPECS[t].fresh
               /\ path[t] = "bound_adapter" => f.result = Mismatched,
           IF f.kind = "terminal" /\ Records(t, ckpt[t].answers)
           THEN Previewed(t, Second(t).subject)' /\ f.result.isError = FALSE
           ELSE Own(t)' = {}
    PROVE  Drives(t)'
<1>1. /\ ExerciseInv /\ t \in Threads /\ path' = path /\ SPECS' = SPECS
      /\ DOMAIN rows = Threads /\ IsRow(rows[t])
      /\ \A u \in Threads : IsRow(rows[u])
  BY DEF Moves, ExerciseInv, Books
<1>2. AdapterWork(t) /\ AdapterThread(t) /\ OneCall(t)
  BY <1>1 DEF Drives, Work, ExerciseInv, ExerciseThread, AdapterThread
<1>3. /\ ckpt' = ckpt /\ shown' = shown /\ aborts' = aborts
      /\ aborts[t] = 0 /\ requests' = requests \ {r} /\ inbox'[t] = f
  BY <1>1, OpenHears
<1>4. \A s \in requests' : s.thread # t
  BY <1>2, <1>3 DEF OneCall
<1>5. rows'[t].shown = rows[t].shown /\ rows'[t].answers = rows[t].answers
  BY <1>1, LogField DEF OnlyIn
<1>6. /\ \A state : FormOf(state)' = FormOf(state)
      /\ First(t)' = First(t) /\ Second(t)' = Second(t)
      /\ OwnAnswers(t)' = OwnAnswers(t) /\ ToFirst(t)' = ToFirst(t)
  BY <1>1, CasesKept
<1>7. Open(t)'
  BY <1>1, LogKept
<1>8. OneAttempt(t)'
  BY <1>3, <1>4 DEF OneAttempt
<1>9. Records(t, ckpt[t].answers)' <=> Records(t, ckpt[t].answers)
  BY <1>1, <1>3, <1>6 DEF Records
<1>10. AdapterWork(t)'
  <2>1. /\ ckpt[t].status = "new" /\ ckpt[t].result = None
        /\ shown[t] # NoForm => rows[t].shown = <<FormOf(First(t))>>
        /\ ckpt[t].answers # NoAnswers =>
               /\ rows[t].answers = <<ckpt[t].answers>>
               /\ ckpt[t].answers \in OwnAnswers(t)
    BY <1>2 DEF AdapterWork
  <2> QED
    BY <1>1, <1>3, <1>4, <1>5, <1>6, <1>8, <1>9, <2>1 DEF AdapterWork
<1> QED
  BY <1>7, <1>10, AdapterGoesOn

\* What a call of the adapter is about.
LEMMA AdapterSent ==
    ASSUME ExerciseInv, NEW r \in requests, NEW t, t = r.thread, Drives(t),
           Open(t), path[t] \in AdapterPaths
    PROVE  /\ t \in Threads /\ Own(t) = {}
           /\ SPECS[t].rounds = 1 /\ ~ SPECS[t].error
           /\ r.token = NoToken => sequence[t] = HasAsked(t)
           /\ r.token # NoToken =>
                  /\ r.token = Second(t) /\ shown[t] = FormOf(First(t))
                  /\ shown[t] # NoForm /\ ~ SPECS[t].fresh
                  /\ ckpt[t].answers # NoAnswers
                  /\ r.answers = ckpt[t].answers
                  /\ r.answers \in OwnAnswers(t) /\ Second(t) \in issued
                  /\ AcceptedBy(r.token, r.answers) <=>
                         r.answers = ToFirst(t)
<1>1. t \in Threads /\ Awaited(r)
  BY OpenAwaits
<1>2. inbox[t] = NoFrame /\ NoFrame.kind = "none"
  BY <1>1 DEF Awaited, NoFrame
<1>3. /\ AdapterWork(t) /\ AdapterThread(t)
      /\ SPECS[t].rounds = 1 /\ ~ SPECS[t].error
  BY <1>1 DEF Drives, Entry, Work, ExerciseInv, ExerciseThread
<1>4. Own(t) = {}
  BY <1>2, <1>3 DEF AdapterWork
<1>5. r.token = NoToken => sequence[t] = HasAsked(t)
  BY <1>3 DEF AdapterThread
<1>6. ASSUME r.token # NoToken
      PROVE  /\ r.token = Second(t) /\ shown[t] = FormOf(First(t))
             /\ shown[t] # NoForm /\ ~ SPECS[t].fresh
             /\ ckpt[t].answers # NoAnswers
             /\ r.answers = ckpt[t].answers
             /\ r.answers \in OwnAnswers(t) /\ Second(t) \in issued
             /\ AcceptedBy(r.token, r.answers) <=> r.answers = ToFirst(t)
  <2>1. /\ r.token = Second(t) /\ shown[t] # NoForm /\ ~ SPECS[t].fresh
        /\ shown[t] = FormOf(First(t))
    BY <1>3, <1>6 DEF AdapterThread
  <2>2. /\ ckpt[t].answers # NoAnswers /\ r.answers = ckpt[t].answers
        /\ r.answers \in OwnAnswers(t) /\ Second(t) \in issued
    BY <1>3, <1>6 DEF AdapterWork
  <2>3. FormKey(Second(t)) = FormKey(First(t))
    BY <2>1 DEF FormKey, First, Second
  <2>4. r.answers = ToFirst(t)
        \/ r.answers = Sole(FormKey(First(t)), "decline", "none")
    BY <2>2 DEF OwnAnswers
  <2>5. AcceptedBy(r.token, r.answers) <=> r.answers = ToFirst(t)
    <3> DEFINE k == FormKey(First(t))
    <3>1. FormKey(r.token) = k
      BY <2>1, <2>3
    <3> HIDE DEF k
    <3>2. ASSUME NEW a, a = Sole(k, "accept", "yes")
          PROVE  /\ k \in DOMAIN a
                 /\ a[k] = [action |-> "accept", content |-> "yes"]
      BY <3>2 DEF Sole
    <3>3. ASSUME NEW a, a = Sole(k, "decline", "none")
          PROVE  a[k] # [action |-> "accept", content |-> "yes"]
      <4>1. a[k] = [action |-> "decline", content |-> "none"]
        BY <3>3 DEF Sole
      <4> QED
        BY <4>1
    <3>4. ToFirst(t) = Sole(k, "accept", "yes")
      BY DEF ToFirst, YesTo, k
    <3>5. \/ r.answers = Sole(k, "accept", "yes")
          \/ r.answers = Sole(k, "decline", "none")
      BY <2>4, <3>4 DEF k
    <3>6. AcceptedBy(r.token, r.answers) <=>
              /\ k \in DOMAIN r.answers
              /\ r.answers[k] = [action |-> "accept", content |-> "yes"]
      BY <3>1 DEF AcceptedBy
    <3>7. CASE r.answers = Sole(k, "accept", "yes")
      BY <3>2, <3>4, <3>6, <3>7
    <3>8. CASE r.answers = Sole(k, "decline", "none")
      <4>1. r.answers # Sole(k, "accept", "yes")
        BY <3>2, <3>3, <3>8
      <4> QED
        BY <3>3, <3>4, <3>6, <3>8, <4>1
    <3> QED
      BY <3>5, <3>7, <3>8
  <2> QED
    BY <2>1, <2>2, <2>5
<1> QED
  BY <1>1, <1>3, <1>4, <1>5, <1>6

\* The servers and an open case of the adapter.
LEMMA AdapterServed ==
    ASSUME ExerciseInv, NEW r \in requests, NEW t, t = r.thread,
           path[t] \in AdapterPaths, Drives(t), Open(t), path' = path,
           NEW phase, NEW subject, Note(t, Log(t, phase, subject)),
           \/ ServeInitial(r) \/ ServeRefusal(r) \/ ServeNextRound(r)
           \/ ServePreview(r) /\ ~ BoundElsewhere(t, r.token)
           \/ /\ r.token # NoToken /\ path[t] = "bound_adapter"
              /\ Deliver(r, Text(TRUE, "mismatch", None))
              /\ UNCHANGED serverVars
    PROVE  Drives(t)'
<1>1. /\ t \in Threads /\ Own(t) = {}
      /\ SPECS[t].rounds = 1 /\ ~ SPECS[t].error
      /\ r.token = NoToken => sequence[t] = HasAsked(t)
      /\ r.token # NoToken =>
             /\ r.token = Second(t) /\ shown[t] = FormOf(First(t))
             /\ shown[t] # NoForm /\ ~ SPECS[t].fresh
             /\ ckpt[t].answers # NoAnswers
             /\ r.answers = ckpt[t].answers
             /\ r.answers \in OwnAnswers(t) /\ Second(t) \in issued
             /\ AcceptedBy(r.token, r.answers) <=> r.answers = ToFirst(t)
  BY AdapterSent
<1>2. Second(t).case = t /\ Second(t).round = 1
  BY DEF Second
<1>3. path[t] = "bound_adapter" =>
          SPECS[t].drift /\ OwnAnswers(t) = {ToFirst(t)}
  <2>1. path[t] = "bound_adapter" => SPECS[t].drift
    BY DEF Drives, Entry, Spec1
  <2>2. path[t] = "bound_adapter" => OwnAnswers(t) = {ToFirst(t)}
    BY DEF OwnAnswers
  <2> QED
    BY <2>1, <2>2
<1>4. CASE ServeInitial(r)
  <2> DEFINE state == [case |-> t, round |-> 1, serial |-> sequence[t] + 1,
                       subject |-> IF SPECS[t].drift /\ sequence[t] + 1 > 1
                                   THEN "draft-B" ELSE "draft-A"]
             f == InputFrame(state, FormOf(state))
  <2>1. /\ r.token = NoToken /\ SPECS' = SPECS /\ completed' = completed
        /\ issued' = issued \cup {state} /\ Deliver(r, f)
    BY <1>4, Zenon DEF ServeInitial, Ask
  <2>2. shown[t] # NoForm => state = Second(t)
    <3>1. shown[t] # NoForm => sequence[t] = 1
      BY <1>1, <2>1 DEF HasAsked
    <3> QED
      BY <3>1 DEF Second
  <2>3. f.kind = "input"
    BY DEF InputFrame
  <2> HIDE DEF f, state
  <2>4. Own(t)' = {} /\ Moves(t)
    BY <1>1, <2>1, RecordSame, RecordKept DEF Moves
  <2>5. issued \subseteq issued' /\ (shown[t] # NoForm => Second(t) \in issued')
    BY <2>1, <2>2
  <2> QED
    BY <2>1, <2>3, <2>4, <2>5, AdapterHears
<1>5. CASE ServeRefusal(r)
  <2>1. /\ r.token # NoToken /\ UNCHANGED serverVars
        /\ \/ r.token \notin issued \/ SPECS[r.token.case].error
           \/ ~ AcceptedBy(r.token, r.answers)
        /\ \/ Deliver(r, Text(FALSE, "skipped", None))
           \/ Deliver(r, Text(TRUE, "failed", None))
    BY <1>5, Zenon DEF ServeRefusal
  <2>2. r.answers # ToFirst(t) /\ ckpt[t].answers # ToFirst(t)
    BY <1>1, <1>2, <2>1
  <2>3. path[t] # "bound_adapter"
    BY <1>1, <1>3, <2>1, <2>2
  <2>4. PICK f : Deliver(r, f) /\ f.kind = "terminal"
    <3>1. /\ Text(FALSE, "skipped", None).kind = "terminal"
          /\ Text(TRUE, "failed", None).kind = "terminal"
      BY DEF Text, TerminalFrame
    <3> QED
      BY <2>1, <3>1, Zenon
  <2>5. SPECS' = SPECS /\ issued' = issued /\ completed' = completed
    BY <2>1 DEF serverVars
  <2>6. Own(t)' = {} /\ Moves(t)
    BY <1>1, <2>5, RecordSame, RecordKept DEF Moves
  <2>7. ~ Records(t, ckpt[t].answers)
    BY <2>2 DEF Records
  <2> QED
    BY <1>1, <2>1, <2>3, <2>4, <2>5, <2>6, <2>7, AdapterHears
<1>6. CASE ServeNextRound(r)
  <2>1. r.token # NoToken /\ r.token.round < SPECS[r.token.case].rounds
    BY <1>6, Zenon DEF ServeNextRound
  <2> QED
    BY <1>1, <1>2, <2>1
<1>7. CASE ServePreview(r) /\ ~ BoundElsewhere(t, r.token)
  <2> DEFINE f == Text(FALSE, "previewed", r.token.subject)
  <2>1. /\ r.token # NoToken /\ SPECS' = SPECS /\ issued' = issued
        /\ AcceptedBy(r.token, r.answers)
        /\ completed' = Append(completed, [case |-> r.token.case,
                                           subject |-> r.token.subject])
        /\ Deliver(r, f)
    BY <1>7, Zenon DEF ServePreview
  <2>2. f.kind = "terminal" /\ f.result.isError = FALSE
    BY DEF Text, TerminalFrame
  <2> HIDE DEF f
  <2>3. path[t] # "bound_adapter"
    <3>1. SPECS[t].drift => Second(t).subject # FormOf(First(t)).subject
      BY DEF Second, First, FormOf
    <3> QED
      BY <1>1, <1>3, <1>7, <2>1, <3>1 DEF BoundElsewhere
  <2>4. Previewed(t, Second(t).subject)'
    <3>1. Second(t).subject \in AllSubjects /\ Second(t)' = Second(t)
      BY <2>1 DEF Second, AllSubjects
    <3>2. completed' = Append(completed, [case |-> t,
                                          subject |-> Second(t).subject])
      BY <1>1, <1>2, <2>1
    <3>3. PICK x : x = Second(t).subject
      OBVIOUS
    <3>4. Previewed(t, x)'
      BY <1>1, <3>1, <3>2, <3>3, RecordGrows
    <3> QED
      BY <3>1, <3>3, <3>4 DEF Previewed
  <2>5. Moves(t)
    BY <1>1, <2>1 DEF Moves
  <2>6. Records(t, ckpt[t].answers)
    BY <1>1, <2>1, <2>3 DEF Records
  <2> QED
    BY <1>1, <2>1, <2>2, <2>3, <2>4, <2>5, <2>6, AdapterHears
<1>8. CASE /\ r.token # NoToken /\ path[t] = "bound_adapter"
           /\ Deliver(r, Text(TRUE, "mismatch", None))
           /\ UNCHANGED serverVars
  <2>1. SPECS' = SPECS /\ issued' = issued /\ completed' = completed
    BY <1>8 DEF serverVars
  <2>2. PICK f : Deliver(r, f) /\ f.kind = "terminal" /\ f.result = Mismatched
    <3>1. /\ Text(TRUE, "mismatch", None).kind = "terminal"
          /\ Text(TRUE, "mismatch", None).result = Mismatched
      BY DEF Text, TerminalFrame, Mismatched
    <3> QED
      BY <1>8, <3>1, Zenon
  <2>3. Own(t)' = {} /\ Moves(t)
    BY <1>1, <2>1, RecordSame, RecordKept DEF Moves
  <2>4. ~ Records(t, ckpt[t].answers)
    BY <1>8 DEF Records
  <2> QED
    BY <1>1, <1>8, <2>1, <2>2, <2>3, <2>4, AdapterHears
<1> QED
  BY <1>4, <1>5, <1>6, <1>7, <1>8

\* The session alone.
LEMMA DirectCallsOn ==
    ASSUME NEW t, Goes(t), DirectCalls(t)
    PROVE  Drives(t)'
<1>1. path[t] = "direct_session"
  BY DEF DirectCalls, Direct
<1> USE GoesOne
<1>2. /\ rows' = rows /\ ckpt' = ckpt /\ shown' = shown /\ aborts' = aborts
      /\ inbox' = inbox
      /\ \A r \in requests' : r.thread = t =>
             r \in requests \/ (r.token = NoToken /\ r.attempt = aborts[t])
  BY DEF DirectCalls, Invoke, BeginCall, CallTool
<1>3. DirectWork(t) /\ aborts[t] = 0
  BY <1>1 DEF DirectWork, OneAttempt
<1>4. OneIdles(t)
  BY <1>2, <1>3 DEF OneIdles
<1>5. DirectWork(t)' /\ Open(t)'
  BY <1>2, <1>3, <1>4, DirectIdles DEF Goes, Open
<1> QED
  BY <1>1, <1>5, DirectGoesOn DEF Goes

LEMMA DirectAnswersOn ==
    ASSUME NEW t, Goes(t), DirectAnswers(t)
    PROVE  Drives(t)'
<1>1. path[t] = "direct_session"
  BY DEF DirectAnswers, Direct
<1> USE GoesOne
<1>2. /\ run[t] = "calling" /\ inbox[t].kind = "input"
      /\ shown'[t] = inbox[t].form /\ inbox'[t] = NoFrame
      /\ ckpt' = ckpt /\ aborts' = aborts
  BY Zenon DEF DirectAnswers
<1>3. DirectWork(t) /\ DirectThread(t) /\ OneCall(t) /\ Open(t) /\ Moves(t)
  BY <1>1 DEF Goes
<1>4. /\ shown[t] = NoForm /\ Own(t) = {} /\ aborts[t] = 0
      /\ inbox[t] = InputFrame(First(t), FormOf(First(t)))
      /\ First(t) \in issued /\ rows[t].log = OneEntry
  BY <1>2, <1>3 DEF DirectThread, DirectWork, OneAttempt
<1>5. /\ inbox[t].token = First(t) /\ inbox[t].form = FormOf(First(t))
      /\ FormOf(First(t)).keys = {FormKey(First(t))}
      /\ FormOf(First(t)) # NoForm
  BY <1>4, AdapterForms DEF InputFrame
<1>6. /\ requests' = requests \cup
             {[thread |-> t, attempt |-> aborts[t],
               token |-> First(t), answers |-> ToFirst(t)]}
      /\ Note(t, [rows[t] EXCEPT !.shown = <<FormOf(First(t))>>,
                      !.answers = <<ToFirst(t)>>])
  <2>1. PICK k \in inbox[t].form.keys :
            /\ requests' = requests \cup
                  {[thread |-> t, attempt |-> aborts[t],
                    token |-> inbox[t].token,
                    answers |-> Sole(k, "accept", "yes")]}
            /\ Note(t, [rows[t] EXCEPT !.shown = <<inbox[t].form>>,
                            !.answers = <<Sole(k, "accept", "yes")>>])
    BY Zenon DEF DirectAnswers
  <2>2. k = FormKey(First(t))
    BY <1>5
  <2>3. Sole(k, "accept", "yes") = ToFirst(t)
    BY <2>2 DEF ToFirst, YesTo
  <2> QED
    BY <1>5, <2>1, <2>3, Zenon
<1>7. /\ rows'[t].shown = <<FormOf(First(t))>>
      /\ rows'[t].answers = <<ToFirst(t)>> /\ rows'[t].log = rows[t].log
      /\ rows'[t].outcome = rows[t].outcome
  <2> DEFINE x == <<FormOf(First(t))>>
             y == <<ToFirst(t)>>
  <2> HIDE DEF x, y
  <2>1. Note(t, [rows[t] EXCEPT !.shown = x, !.answers = y])
    BY <1>6 DEF x, y
  <2>2. /\ rows'[t].shown = x /\ rows'[t].answers = y
        /\ rows'[t].log = rows[t].log
    <3>1. DOMAIN rows = Threads /\ t \in Threads /\ IsRow(rows[t])
      BY GoesOne
    <3> HIDE GoesOne
    <3>2. \A v, w : Note(t, [rows[t] EXCEPT !.shown = v, !.answers = w]) =>
              /\ rows'[t].shown = v /\ rows'[t].answers = w
              /\ rows'[t].calls = rows[t].calls
              /\ rows'[t].log = rows[t].log
      BY <1>3, <3>1, NoteFields, Zenon
    <3> QED
      BY <2>1, <3>2, Zenon
  <2>3. rows'[t].outcome = rows[t].outcome
    <3>1. DOMAIN rows = Threads /\ t \in Threads
          /\ \A u \in Threads : IsRow(rows[u])
      BY GoesOne
    <3> HIDE GoesOne
    <3> QED
      BY <2>1, <3>1, NotesKept, Zenon
  <2> QED
    BY <2>2, <2>3 DEF x, y
<1>8. \A r \in requests : r.thread # t
  <2>1. inbox[t] # NoFrame
    BY <1>2
  <2> QED
    BY <1>3, <2>1 DEF OneCall
<1>9. /\ First(t)' = First(t) /\ ToFirst(t)' = ToFirst(t)
      /\ \A state : FormOf(state)' = FormOf(state)
  BY CasesKept
<1>10. OneAttempt(t)'
  BY <1>2, <1>4, <1>6, <1>8 DEF OneAttempt
<1>11. \A r \in requests' : r.thread = t =>
           r.token = First(t)' /\ r.answers = ToFirst(t)'
  <2>1. \A r \in requests' : r.thread = t =>
            r = [thread |-> t, attempt |-> aborts[t],
                 token |-> First(t), answers |-> ToFirst(t)]
    BY <1>6, <1>8
  <2> QED
    BY <1>9, <2>1
<1>12. DirectKept(t)'
  BY <1>7, <1>9 DEF DirectKept
<1>13. DirectWork(t)'
  <2>1. /\ shown'[t] = FormOf(First(t))' /\ shown'[t] # NoForm
        /\ inbox'[t].kind = "none" /\ First(t)' \in issued'
        /\ Own(t)' = {} /\ rows'[t].log = OneEntry
    BY <1>2, <1>4, <1>5, <1>7, <1>9
  <2> HIDE GoesOne
  <2> QED
    BY <1>10, <1>11, <1>12, <2>1 DEF DirectWork
<1>14. Open(t)'
  BY <1>3, <1>7 DEF Open
<1> QED
  BY <1>1, <1>3, <1>13, <1>14, DirectGoesOn DEF Goes

LEMMA DirectEndsOn ==
    ASSUME NEW t, Goes(t), DirectReturns(t) \/ DirectRaises(t)
    PROVE  Drives(t)'
<1>1. path[t] = "direct_session"
  BY Zenon DEF DirectReturns, DirectRaises, Direct
<1> USE GoesOne
<1>2. DirectWork(t) /\ Open(t) /\ Moves(t)
  BY <1>1 DEF Goes
<1>3. CASE DirectRaises(t)
  <2>1. Note(t, Over(t, "failed"))
    BY <1>3, Zenon DEF DirectRaises
  <2>2. rows'[t].outcome = "failed" /\ ~ Open(t)'
    BY <1>2, <2>1, RowOver
  <2>3. DirectOver(t)'
    BY <2>2 DEF DirectOver
  <2> QED
    BY <1>1, <1>2, <2>2, <2>3, DirectGoesOn DEF Goes
<1>4. CASE DirectReturns(t)
  <2>1. PICK outcome \in {"raised", "returned"} : CallEnds(t, outcome)
    BY <1>4, Zenon DEF DirectReturns
  <2>2. inbox[t].kind = "terminal" /\ Note(t, Over(t, outcome))
    BY <1>2, <2>1, EndsWith
  <2>3. /\ rows'[t].completed = Subjects(t) /\ ~ Open(t)'
        /\ rows'[t].answers = rows[t].answers
        /\ rows'[t].shown = rows[t].shown /\ rows'[t].log = rows[t].log
    BY <1>2, <2>2, RowOver
  <2>4. /\ DirectKept(t) /\ Previewed(t, "draft-A")
        /\ rows[t].log = TwoEntries
    BY <1>2, <2>2 DEF DirectWork
  <2>5. Subjects(t) = <<"draft-A">>
    <3>1. \E S : completed \in Seq(S)
      BY <1>2 DEF Moves, ExerciseInv, Books
    <3> QED
      BY <2>4, <3>1, RecordedSubjects
  <2>6. DirectOver(t)'
    <3>1. /\ First(t)' = First(t) /\ ToFirst(t)' = ToFirst(t)
          /\ \A state : FormOf(state)' = FormOf(state)
      BY CasesKept
    <3>2. DirectKept(t)'
      BY <2>3, <2>4, <3>1 DEF DirectKept
    <3> QED
      BY <2>3, <2>4, <2>5, <3>2 DEF DirectOver
  <2> QED
    BY <1>1, <1>2, <2>3, <2>6, DirectGoesOn DEF Goes
<1> QED
  BY <1>3, <1>4

LEMMA DirectDrives ==
    ASSUME ExerciseInv, NEW t \in Threads, Drives(t), DirectSession(t),
           UNCHANGED <<serverVars, path>>
    PROVE  Drives(t)'
<1>1. Open(t)
  BY Zenon DEF DirectSession, DirectCalls, DirectAnswers, DirectReturns,
               DirectRaises, Direct, Open
<1>2. Goes(t)
  BY <1>1 DEF Goes, Moves, serverVars
<1> QED
  BY <1>2, DirectCallsOn, DirectAnswersOn, DirectEndsOn DEF DirectSession

\* The server's question and its end, to an open case of the session alone.
LEMMA DirectServed ==
    ASSUME ExerciseInv, NEW r \in requests, NEW t, t = r.thread,
           path[t] = "direct_session", Drives(t), Open(t),
           IdentityAsks(r) \/ IdentityAnswers(r)
    PROVE  Drives(t)'
<1>1. Awaited(r) /\ t \in Threads /\ aborts[t] = 0
  BY OpenAwaits
<1>2. inbox[t] = NoFrame /\ NoFrame.kind = "none"
  BY <1>1 DEF Awaited, NoFrame
<1>3. /\ DirectWork(t) /\ DirectThread(t) /\ OneCall(t)
      /\ SPECS[t] = Spec1(FALSE, TRUE, FALSE, 1)
      /\ DOMAIN rows = Threads /\ IsRow(rows[t])
      /\ \A u \in Threads : IsRow(rows[u])
  BY <1>1 DEF Drives, Entry, Work, ExerciseInv, ExerciseThread, DirectThread,
              Books
<1>4. path' = path
  BY DEF IdentityAsks, IdentityAnswers
<1>5. CASE IdentityAsks(r)
  <2> DEFINE state == [case |-> t, round |-> 1, serial |-> sequence[t] + 1,
                       subject |-> IF SPECS[t].drift /\ sequence[t] + 1 > 1
                                   THEN "draft-B" ELSE "draft-A"]
  <2>1. /\ r.token = NoToken /\ SPECS' = SPECS /\ completed' = completed
        /\ issued' = issued \cup {state}
        /\ Deliver(r, InputFrame(state, FormOf(state)))
    BY <1>5, Zenon DEF IdentityAsks, ServeInitial, Ask
  <2>2. /\ shown[t] = NoForm /\ Own(t) = {}
        /\ rows[t].log = <<>> /\ sequence[t] = 0
    BY <1>2, <1>3, <2>1 DEF DirectThread, DirectWork
  <2>3. state = First(t)
    BY <2>2 DEF First
  <2> HIDE DEF state
  <2>4. Note(t, Log(t, "initial", "draft-A"))
    <3>1. (IF SPECS[t].drift /\ sequence[t] > 0 THEN "draft-B" ELSE "draft-A")
              = "draft-A"
      BY <2>2
    <3> QED
      BY <1>5, <3>1, Zenon DEF IdentityAsks
  <2>5. rows'[t].log = OneEntry
    <3>1. rows'[t].log = Append(rows[t].log, [phase |-> "initial",
                                              subject |-> "draft-A"])
      BY <1>1, <1>3, <2>4, LogField
    <3>2. \A x : Append(<<>>, x) = <<x>>
      OBVIOUS
    <3> QED
      BY <2>2, <3>1, <3>2, Zenon DEF OneEntry
  <2>6. Moves(t)
    BY <1>1, <1>4, <2>1 DEF Moves
  <2>7. /\ shown' = shown /\ aborts' = aborts /\ requests' = requests \ {r}
        /\ inbox'[t] = InputFrame(First(t), FormOf(First(t)))
    BY <2>1, <2>3, OpenHears
  <2>8. \A s \in requests' : s.thread # t
    BY <1>3, <2>7 DEF OneCall
  <2>9. /\ First(t)' = First(t) /\ ToFirst(t)' = ToFirst(t)
        /\ \A state1 : FormOf(state1)' = FormOf(state1)
    BY <1>4, <2>1, CasesKept
  <2>10. Own(t)' = {} /\ Open(t)'
    <3>1. Own(t)' = {}
      BY <2>1, <2>2, RecordSame, RecordKept
    <3>2. Open(t)'
      BY <1>1, <1>3, <2>4, LogKept
    <3> QED
      BY <3>1, <3>2
  <2>11. DirectWork(t)'
    <3>1. OneAttempt(t)'
      BY <1>1, <2>7, <2>8 DEF OneAttempt
    <3>2. /\ inbox'[t].kind = "input" /\ inbox'[t] # NoFrame
          /\ First(t)' \in issued'
      BY <2>1, <2>3, <2>7, <2>9 DEF InputFrame, NoFrame
    <3>3. inbox'[t] = InputFrame(First(t), FormOf(First(t)))'
      BY <2>7, <2>9 DEF InputFrame
    <3> QED
      BY <2>2, <2>5, <2>7, <2>8, <2>9, <2>10, <3>1, <3>2, <3>3 DEF DirectWork
  <2> QED
    BY <2>6, <2>10, <2>11, DirectGoesOn
<1>6. CASE IdentityAnswers(r)
  <2>1. /\ r.token # NoToken /\ Note(t, Log(t, "resume", r.token.subject))
        /\ \/ ServeRefusal(r)
           \/ ServePreview(r)
           \/ BoundElsewhere(t, r.token)
    BY <1>6, Zenon DEF IdentityAnswers
  <2>2. /\ shown[t] # NoForm /\ r.token = First(t) /\ r.answers = ToFirst(t)
        /\ DirectKept(t) /\ First(t) \in issued
        /\ Own(t) = {} /\ rows[t].log = OneEntry
        /\ shown[t] = FormOf(First(t))
    BY <1>2, <1>3, <2>1 DEF DirectThread, DirectWork
  <2>3. AcceptedBy(r.token, r.answers) /\ ~ SPECS[r.token.case].error
    <3>1. ToFirst(t) = Sole(FormKey(First(t)), "accept", "yes")
          /\ First(t).case = t
      BY DEF ToFirst, YesTo, First
    <3>2. PICK k : k = FormKey(First(t))
      OBVIOUS
    <3>3. ASSUME NEW a, a = Sole(k, "accept", "yes")
          PROVE  /\ k \in DOMAIN a
                 /\ a[k] = [action |-> "accept", content |-> "yes"]
      BY <3>3 DEF Sole
    <3> QED
      BY <1>3, <2>2, <3>1, <3>2, <3>3 DEF AcceptedBy, Spec1
  <2>4. ServePreview(r)
    <3>1. ~ ServeRefusal(r)
      BY <2>2, <2>3, Zenon DEF ServeRefusal
    <3>2. ~ BoundElsewhere(t, r.token)
      BY DEF BoundElsewhere
    <3> QED
      BY <2>1, <3>1, <3>2
  <2> DEFINE f == Text(FALSE, "previewed", r.token.subject)
  <2>5. /\ SPECS' = SPECS /\ issued' = issued
        /\ completed' = Append(completed, [case |-> r.token.case,
                                           subject |-> r.token.subject])
        /\ Deliver(r, f)
    BY <2>4, Zenon DEF ServePreview
  <2>6. f.kind = "terminal"
    BY DEF Text, TerminalFrame
  <2> HIDE DEF f
  <2>7. Moves(t)
    BY <1>1, <1>4, <2>5 DEF Moves
  <2>8. Previewed(t, "draft-A")'
    <3>1. completed' = Append(completed, [case |-> t, subject |-> "draft-A"])
      BY <2>2, <2>5 DEF First
    <3> QED
      BY <1>1, <2>2, <3>1, RecordGrows DEF AllSubjects
  <2>9. /\ rows'[t].log = TwoEntries /\ rows'[t].shown = rows[t].shown
        /\ rows'[t].answers = rows[t].answers
    <3>1. Note(t, Log(t, "resume", "draft-A"))
      <4>1. r.token.subject = "draft-A"
        BY <2>2 DEF First
      <4> QED
        BY <2>1, <4>1, Zenon
    <3>2. /\ OnlyIn(t, "log")
          /\ rows'[t].log = Append(rows[t].log, [phase |-> "resume",
                                                 subject |-> "draft-A"])
      BY <1>1, <1>3, <3>1, LogField
    <3>3. rows'[t].log = TwoEntries
      BY <2>2, <3>2, Zenon DEF TwoEntries
    <3> QED
      BY <3>2, <3>3 DEF OnlyIn
  <2>10. /\ shown' = shown /\ aborts' = aborts /\ requests' = requests \ {r}
         /\ inbox'[t] = f
    BY <2>5, OpenHears
  <2>11. \A s \in requests' : s.thread # t
    BY <1>3, <2>10 DEF OneCall
  <2>12. /\ First(t)' = First(t) /\ ToFirst(t)' = ToFirst(t)
         /\ \A state : FormOf(state)' = FormOf(state)
    BY <1>4, <2>5, CasesKept
  <2>13. Open(t)'
    BY <1>1, <1>3, <2>1, LogKept
  <2>14. DirectWork(t)'
    <3>1. OneAttempt(t)'
      BY <1>1, <2>10, <2>11 DEF OneAttempt
    <3>2. DirectKept(t)'
      BY <2>2, <2>9, <2>12 DEF DirectKept
    <3> QED
      BY <2>2, <2>5, <2>6, <2>8, <2>9, <2>10, <2>11, <2>12, <3>1, <3>2
         DEF DirectWork
  <2> QED
    BY <2>7, <2>13, <2>14, DirectGoesOn
<1> QED
  BY <1>5, <1>6

\* A call lost to an open case, and any reply to one that is over.
LEMMA LostDrives ==
    ASSUME ExerciseInv, NEW r \in requests, NEW t, t = r.thread, Drives(t),
           LoseCall(r)
    PROVE  Drives(t)'
<1>1. /\ t \in Threads /\ path[t] \in Paths /\ SPECS' = SPECS /\ path' = path
      /\ completed' = completed /\ Lose(r)
      /\ IF Awaited(r) THEN ckpt' = ckpt /\ Note(t, Over(t, "failed"))
         ELSE UNCHANGED rows
  BY TokenFacts DEF ExerciseInv, Books, LoseCall, serverVars
<1>2. Moves(t)
  BY <1>1 DEF Moves
<1>3. ckpt' = ckpt /\ consent' = consent
  BY <1>1 DEF Lose
<1>4. CASE ~ Open(t)
  <2>1. rows' = rows
    BY <1>1, <1>4, NoteOver
  <2> QED
    BY <1>2, <1>3, <1>4, <2>1, DrivesOver
<1>5. CASE Open(t)
  <2>1. Note(t, Over(t, "failed"))
    BY <1>1, <1>5, OpenAwaits
  <2>2. CASE OfGraph(t)
    BY <1>2, <1>3, <1>5, <2>1, <2>2, GraphFails
  <2>3. CASE path[t] \in AdapterPaths
    <3>1. /\ rows'[t].outcome = "failed" /\ rows'[t].status = ckpt'[t].status
          /\ ~ Open(t)'
      BY <1>2, <1>5, <2>1, RowOver
    <3>2. AdapterWork(t)
      BY <1>5, <2>3 DEF Drives, Work
    <3>3. AdapterOver(t)'
      BY <1>3, <3>1, <3>2 DEF AdapterOver, AdapterWork
    <3> QED
      BY <1>2, <2>3, <3>1, <3>3, AdapterGoesOn
  <2>4. CASE path[t] = "direct_session"
    <3>1. rows'[t].outcome = "failed" /\ ~ Open(t)'
      BY <1>2, <1>5, <2>1, RowOver
    <3>2. DirectOver(t)'
      BY <3>1 DEF DirectOver
    <3> QED
      BY <1>2, <2>4, <3>1, <3>2, DirectGoesOn
  <2> QED
    BY <1>1, <2>2, <2>3, <2>4 DEF OfGraph, Paths, IdentityPaths, AdapterPaths
<1> QED
  BY <1>4, <1>5

\* A state that comes back is one of the thread that sends it.
LEMMA TokenCase ==
    ASSUME ExerciseInv, NEW r \in requests, r.token # NoToken
    PROVE  /\ r.thread \in Threads /\ r.token.case = r.thread
           /\ r.token.subject \in AllSubjects
<1> DEFINE t == r.thread
<1>1. t \in Threads /\ r.token \in AllStates /\ path[t] \in Paths
  BY TokenFacts DEF ExerciseInv, Books
<1>2. ExerciseThread(t)
  BY <1>1 DEF ExerciseInv
<1>3. CASE OfGraph(t)
  <2>1. GraphThread(t)
    BY <1>2, <1>3 DEF ExerciseThread
  <2>2. consent[t] # NoConsent /\ Question(t, consent[t].frame)
    BY <2>1 DEF GraphThread, GraphSends
  <2>3. PICK n \in Nat : r.token = AtRound(consent[t].frame.token, n)
    BY <2>1 DEF GraphThread, GraphSends
  <2>4. /\ consent[t].frame.token \in AllStates
        /\ consent[t].frame.token.case = t
    BY <2>2 DEF Question
  <2> QED
    BY <1>1, <2>3, <2>4 DEF AtRound, AllStates, AllSubjects
<1>4. CASE path[t] \in AdapterPaths
  <2>1. r.token = Second(t)
    BY <1>2, <1>4 DEF ExerciseThread, AdapterThread
  <2> QED
    BY <1>1, <2>1 DEF Second, AllStates, AllSubjects
<1>5. CASE path[t] = "direct_session"
  <2>1. DirectThread(t)
    BY <1>2, <1>5 DEF ExerciseThread
  <2>2. r.token.case = t
    BY <2>1 DEF DirectThread
  <2> QED
    BY <1>1, <2>2 DEF AllStates, AllSubjects
<1> QED
  BY <1>1, <1>3, <1>4, <1>5 DEF OfGraph, Paths, IdentityPaths, AdapterPaths

\* The servers do what they do to one thread.
LEMMA ServedElsewhere ==
    ASSUME ExerciseInv, NEW r \in requests,
           \/ ServeInitial(r) \/ ServeRefusal(r) \/ ServeNextRound(r)
           \/ ServePreview(r)
           \/ (\E f : Deliver(r, f)) /\ UNCHANGED serverVars
    PROVE  /\ SPECS' = SPECS /\ issued \subseteq issued'
           /\ \E f : Deliver(r, f)
           /\ \A u \in Threads \ {r.thread} :
                  sequence'[u] = sequence[u] /\ SameRecord(u)
<1>1. CASE ServeInitial(r)
  <2>1. /\ SPECS' = SPECS /\ completed' = completed
        /\ \A u \in Threads \ {r.thread} : sequence'[u] = sequence[u]
        /\ \E f : Deliver(r, f)
    BY <1>1, InitialServed
  <2>2. issued \subseteq issued'
    <3>1. \E x : issued' = issued \cup {x}
      BY <1>1, Zenon DEF ServeInitial, Ask
    <3> QED
      BY <3>1
  <2> QED
    BY <2>1, <2>2, RecordSame
<1>2. CASE ServeRefusal(r)
  <2>1. UNCHANGED serverVars /\ \E f : Deliver(r, f)
    BY <1>2, Zenon DEF ServeRefusal
  <2> QED
    BY <2>1, RecordSame DEF serverVars
<1>3. CASE ServeNextRound(r)
  <2>1. /\ SPECS' = SPECS /\ completed' = completed /\ sequence' = sequence
        /\ \E f : Deliver(r, f) /\ \E x : issued' = issued \cup {x}
    BY <1>3, Zenon DEF ServeNextRound, Ask
  <2> QED
    BY <2>1, RecordSame
<1>4. CASE ServePreview(r)
  <2>1. /\ SPECS' = SPECS /\ issued' = issued /\ sequence' = sequence
        /\ completed' = Append(completed, [case |-> r.token.case,
                                           subject |-> r.token.subject])
        /\ r.token # NoToken
    BY <1>4, Zenon DEF ServePreview
  <2>2. \E f : Deliver(r, f)
    BY <1>4, Zenon DEF ServePreview
  <2>3. /\ r.thread \in Threads /\ r.token.case = r.thread
        /\ r.token.subject \in AllSubjects
    BY <2>1, TokenCase
  <2>4. \A u \in Threads \ {r.thread} : SameRecord(u)
    BY <2>1, <2>3, RecordGrows
  <2> QED
    BY <2>1, <2>2, <2>4
<1>5. CASE (\E f : Deliver(r, f)) /\ UNCHANGED serverVars
  BY <1>5, RecordSame DEF serverVars
<1> QED
  BY <1>1, <1>2, <1>3, <1>4, <1>5

LEMMA NoteElsewhere ==
    ASSUME ExerciseInv, NEW t, NEW u \in Threads \ {t},
           rows' = rows \/ \E row : Note(t, row)
    PROVE  rows'[u] = rows[u]
BY DEF ExerciseInv, Books, Note

\* So do the steps of a client.
LEMMA ClientElsewhere ==
    ASSUME ExerciseInv, NEW t \in Threads, NEW u \in Threads \ {t},
           ExerciseClient(t) \/ Adapter(t) \/ DirectSession(t)
    PROVE  Untouched(u) /\ rows'[u] = rows[u]
<1>1. /\ DOMAIN ckpt = Threads /\ DOMAIN run = Threads
      /\ DOMAIN shown = Threads /\ DOMAIN inbox = Threads
      /\ ExerciseShape
  BY DEF ExerciseInv, ExerciseShape, Shape
<1>2. Client(t) => Untouched(u)
  BY <1>1, Others DEF ExerciseShape
<1>3. ASSUME /\ \E c : ckpt' = [ckpt EXCEPT ![t] = c] \/ ckpt' = ckpt
             /\ \E c : run' = [run EXCEPT ![t] = c] \/ run' = run
             /\ \E c : shown' = [shown EXCEPT ![t] = c] \/ shown' = shown
             /\ \E c : inbox' = [inbox EXCEPT ![t] = c] \/ inbox' = inbox
             /\ consent' = consent /\ aborts' = aborts
             /\ requests' = requests
                \/ \E c : c.thread = t /\ requests' = requests \cup {c}
      PROVE  Untouched(u)
  <2>1. /\ ckpt'[u] = ckpt[u] /\ run'[u] = run[u] /\ shown'[u] = shown[u]
        /\ inbox'[u] = inbox[u]
    BY <1>1, <1>3
  <2>2. \A r : r.thread = u => (r \in requests' <=> r \in requests)
    BY <1>3
  <2> QED
    BY <1>3, <2>1, <2>2 DEF Untouched
<1>4. CASE ExerciseClient(t)
  <2>1. RowsHeld(t) /\ (Client(t) \/ UNCHANGED clientVars)
    BY <1>4, GraphRows
  <2>2. UNCHANGED clientVars => Untouched(u)
    BY DEF clientVars, Untouched
  <2> QED
    BY <1>2, <2>1, <2>2 DEF RowsHeld
<1>5. ASSUME NEW outcome, CallEnds(t, outcome)
      PROVE  Untouched(u) /\ rows'[u] = rows[u]
  <2>1. /\ run' = [run EXCEPT ![t] = "stopped"]
        /\ inbox' = [inbox EXCEPT ![t] = NoFrame]
        /\ Note(t, Over(t, outcome))
        /\ shown' = shown /\ consent' = consent /\ aborts' = aborts
        /\ requests' = requests
    BY <1>5, Zenon DEF CallEnds
  <2>2. \E c : ckpt' = [ckpt EXCEPT ![t] = c]
    BY <1>1, <1>5, Zenon DEF CallEnds
  <2>3. Untouched(u)
    BY <1>3, <2>1, <2>2
  <2> QED
    BY <2>1, <2>3, NoteElsewhere
<1>6. CASE Adapter(t)
  <2>1. CASE AdapterInvokes(t) \/ AdapterCalls(t) \/ AdapterRaises(t)
    <3>1. Client(t) /\ (rows' = rows \/ \E row : Note(t, row))
      BY <2>1, Zenon DEF AdapterInvokes, AdapterCalls, AdapterRaises, Client
    <3> QED
      BY <1>2, <3>1, NoteElsewhere
  <2>2. CASE AdapterShows(t)
    <3>1. /\ shown' = [shown EXCEPT ![t] = inbox[t].form]
          /\ run' = [run EXCEPT ![t] = "stopped"]
          /\ inbox' = [inbox EXCEPT ![t] = NoFrame]
          /\ ckpt' = ckpt /\ consent' = consent /\ aborts' = aborts
          /\ requests' = requests /\ \E row : Note(t, row)
      BY <2>2, Zenon DEF AdapterShows
    <3> QED
      BY <1>3, <3>1, NoteElsewhere
  <2>3. CASE AdapterResumes(t)
    <3>1. /\ run' = [run EXCEPT ![t] = "running"]
          /\ shown' = shown /\ consent' = consent /\ aborts' = aborts
          /\ requests' = requests /\ inbox' = inbox
          /\ \E row : Note(t, row)
      BY <2>3, Zenon DEF AdapterResumes
    <3>2. \E c : ckpt' = [ckpt EXCEPT ![t] = c]
      BY <2>3, Zenon DEF AdapterResumes
    <3> QED
      BY <1>3, <3>1, <3>2, NoteElsewhere
  <2>4. CASE AdapterAnswers(t)
    <3>1. /\ inbox' = [inbox EXCEPT ![t] = NoFrame]
          /\ shown' = shown /\ consent' = consent /\ aborts' = aborts
          /\ ckpt' = ckpt /\ (rows' = rows \/ \E row : Note(t, row))
          /\ run' = run \/ run' = [run EXCEPT ![t] = "stopped"]
      BY <2>4, Zenon DEF AdapterAnswers
    <3>2. requests' = requests
          \/ \E c : c.thread = t /\ requests' = requests \cup {c}
      <4> DEFINE c == [thread |-> t, attempt |-> aborts[t],
                       token |-> inbox[t].token, answers |-> ckpt[t].answers]
      <4>1. requests' = requests \/ requests' = requests \cup {c}
        BY <2>4, Zenon DEF AdapterAnswers
      <4>2. c.thread = t
        OBVIOUS
      <4> HIDE DEF c
      <4> QED
        BY <4>1, <4>2
    <3>3. Untouched(u)
      BY <1>3, <3>1, <3>2
    <3> QED
      BY <3>1, <3>3, NoteElsewhere
  <2>5. CASE AdapterReturns(t)
    BY <1>5, <2>5 DEF AdapterReturns
  <2> QED
    BY <1>6, <2>1, <2>2, <2>3, <2>4, <2>5, Zenon DEF Adapter
<1>7. CASE DirectSession(t)
  <2>1. CASE DirectCalls(t) \/ DirectRaises(t)
    <3>1. Client(t) /\ (rows' = rows \/ \E row : Note(t, row))
      BY <2>1, Zenon DEF DirectCalls, DirectRaises, Client
    <3> QED
      BY <1>2, <3>1, NoteElsewhere
  <2>2. CASE DirectAnswers(t)
    <3>1. /\ shown' = [shown EXCEPT ![t] = inbox[t].form]
          /\ inbox' = [inbox EXCEPT ![t] = NoFrame]
          /\ ckpt' = ckpt /\ run' = run /\ consent' = consent
          /\ aborts' = aborts
      BY <2>2, Zenon DEF DirectAnswers
    <3>2. PICK x, row : /\ requests' = requests \cup
                               {[thread |-> t, attempt |-> aborts[t],
                                 token |-> inbox[t].token, answers |-> x]}
                        /\ Note(t, row)
      BY <2>2, Zenon DEF DirectAnswers
    <3>3. \E c : c.thread = t /\ requests' = requests \cup {c}
      BY <3>2
    <3>4. Untouched(u)
      BY <1>3, <3>1, <3>3
    <3> QED
      BY <3>2, <3>4, NoteElsewhere
  <2>3. CASE DirectReturns(t)
    BY <1>5, <2>3, Zenon DEF DirectReturns
  <2> QED
    BY <1>7, <2>1, <2>2, <2>3, Zenon DEF DirectSession
<1> QED
  BY <1>4, <1>6, <1>7

\* Whatever a server does: it replies, and its log has an entry more.
Serves(r) ==
    \/ ServeLogged(r) \/ IdentityAsks(r) \/ IdentityAnswers(r)
    \/ PhaseOneCall(r) \/ PhaseTwoCall(r)

LEMMA ServesElsewhere ==
    ASSUME ExerciseInv, NEW r \in requests, Serves(r)
    PROVE  /\ SPECS' = SPECS /\ path' = path /\ issued \subseteq issued'
           /\ r.thread \in Threads
           /\ (\E f : Deliver(r, f)) /\ \E row : Note(r.thread, row)
           /\ \A u \in Threads \ {r.thread} :
                  sequence'[u] = sequence[u] /\ SameRecord(u)
<1>1. CASE ServeLogged(r)
  <2>1. /\ \/ ServeInitial(r) \/ ServeRefusal(r) \/ ServeNextRound(r)
           \/ ServePreview(r)
        /\ path' = path /\ \E row : Note(r.thread, row)
    BY <1>1, Zenon DEF ServeLogged
  <2> QED
    BY <2>1, ServedElsewhere, TokenFacts DEF ExerciseInv
<1>2. CASE IdentityAsks(r)
  <2>1. ServeInitial(r) /\ path' = path /\ \E row : Note(r.thread, row)
    BY <1>2, Zenon DEF IdentityAsks
  <2> QED
    BY <2>1, ServedElsewhere, TokenFacts DEF ExerciseInv
<1>3. CASE IdentityAnswers(r)
  <2>1. /\ \/ ServeRefusal(r) \/ ServePreview(r)
           \/ (\E f : Deliver(r, f)) /\ UNCHANGED serverVars
        /\ path' = path /\ \E row : Note(r.thread, row)
    BY <1>3, Zenon DEF IdentityAnswers
  <2> QED
    BY <2>1, ServedElsewhere, TokenFacts DEF ExerciseInv
<1>4. CASE PhaseOneCall(r) \/ PhaseTwoCall(r)
  <2>1. /\ (\E f : Deliver(r, f)) /\ serverVars' = serverVars
        /\ path' = path /\ \E row : Note(r.thread, row)
    BY <1>4, Zenon DEF PhaseOneCall, PhaseTwoCall
  <2> QED
    BY <2>1, ServedElsewhere, TokenFacts DEF ExerciseInv
<1> QED
  BY <1>1, <1>2, <1>3, <1>4 DEF Serves

LEMMA ServedDrives ==
    ASSUME ExerciseInv, NEW r \in requests, NEW t, t = r.thread, Drives(t),
           Serves(r)
    PROVE  Drives(t)'
<1>1. /\ SPECS' = SPECS /\ path' = path /\ t \in Threads
      /\ (\E f : Deliver(r, f)) /\ \E row : Note(t, row)
  BY ServesElsewhere
<1>2. CASE ~ Open(t)
  <2>1. rows' = rows
    BY <1>1, <1>2, NoteOver
  <2>2. ckpt' = ckpt /\ consent' = consent
    BY <1>1, Zenon DEF Deliver
  <2> QED
    BY <1>1, <1>2, <2>1, <2>2, DrivesOver DEF Moves
<1>3. CASE Open(t)
  <2>1. CASE ServeLogged(r)
    <3>1. path[t] \in {"original_adapter", "checkpointed_round_graph"}
      BY <2>1, Zenon DEF ServeLogged
    <3>2. CASE path[t] = "checkpointed_round_graph"
      BY <1>3, <2>1, <3>2, ProbeDrives
    <3>3. CASE path[t] = "original_adapter"
      <4>1. path[t] \in AdapterPaths /\ ~ BoundElsewhere(t, r.token)
        BY <3>3 DEF AdapterPaths, BoundElsewhere
      <4>2. PICK phase, subject :
                /\ Note(t, Log(t, phase, subject))
                /\ \/ ServeInitial(r) \/ ServeRefusal(r)
                   \/ ServeNextRound(r) \/ ServePreview(r)
        BY <2>1, Zenon DEF ServeLogged
      <4> QED
        BY <1>1, <1>3, <4>1, <4>2, AdapterServed
    <3> QED
      BY <3>1, <3>2, <3>3
  <2>2. CASE IdentityAsks(r) \/ IdentityAnswers(r)
    <3>1. path[t] \in IdentityPaths
      BY <2>2, Zenon DEF IdentityAsks, IdentityAnswers
    <3>2. CASE path[t] = "direct_session"
      BY <1>3, <2>2, <3>2, DirectServed
    <3>3. CASE path[t] # "direct_session"
      <4>1. path[t] \in AdapterPaths
        BY <3>1, <3>3 DEF IdentityPaths, AdapterPaths
      <4>2. BoundElsewhere(t, r.token) => path[t] = "bound_adapter"
        BY DEF BoundElsewhere
      <4>3. PICK phase, subject :
                /\ Note(t, Log(t, phase, subject))
                /\ \/ ServeInitial(r) \/ ServeRefusal(r)
                   \/ ServePreview(r) /\ ~ BoundElsewhere(t, r.token)
                   \/ /\ r.token # NoToken /\ BoundElsewhere(t, r.token)
                      /\ Deliver(r, Text(TRUE, "mismatch", None))
                      /\ UNCHANGED serverVars
        BY <2>2, Zenon DEF IdentityAsks, IdentityAnswers
      <4> QED
        BY <1>1, <1>3, <4>1, <4>2, <4>3, AdapterServed
    <3> QED
      BY <3>2, <3>3
  <2>3. CASE PhaseOneCall(r) \/ PhaseTwoCall(r)
    BY <1>3, <2>3, RestartDrives
  <2> QED
    BY <2>1, <2>2, <2>3 DEF Serves
<1> QED
  BY <1>2, <1>3

\* A step moves one thread; the others stay as they are.
LEMMA DrivesAll ==
    ASSUME VerdictInv, NEW t \in Threads, SPECS' = SPECS, path' = path,
           issued \subseteq issued', Drives(t)',
           \A u \in Threads \ {t} :
               /\ Untouched(u) /\ rows'[u] = rows[u]
               /\ sequence'[u] = sequence[u] /\ SameRecord(u)
    PROVE  \A u \in Threads : Drives(u)'
<1>1. SUFFICES ASSUME NEW u \in Threads \ {t}
               PROVE  Drives(u)'
  OBVIOUS
<1>2. Moves(u) /\ Drives(u)
  BY DEF VerdictInv, Moves
<1>3. Idles(u)
  BY DEF Idles, Untouched
<1> QED
  BY <1>2, <1>3, DrivesIdle

LEMMA VerdictMoves ==
    VerdictInv /\ [ExerciseNext]_exerciseVars => VerdictInv'
<1> SUFFICES ASSUME VerdictInv, [ExerciseNext]_exerciseVars
             PROVE  VerdictInv'
  OBVIOUS
<1>1. ExerciseInv'
  BY ExerciseMoves DEF VerdictInv
<1>2. ExerciseInv /\ ExerciseShape /\ \A t \in Threads : Drives(t)
  BY DEF VerdictInv, ExerciseInv
<1>3. ASSUME NEW t \in Threads, UNCHANGED <<serverVars, path>>,
             ExerciseClient(t) \/ Adapter(t) \/ DirectSession(t)
      PROVE  \A u \in Threads : Drives(u)'
  <2>1. Drives(t)'
    BY <1>2, <1>3, GraphDrives, AdapterDrives, DirectDrives
  <2>2. /\ SPECS' = SPECS /\ path' = path /\ sequence' = sequence
        /\ issued' = issued /\ completed' = completed
    BY <1>3 DEF serverVars
  <2>3. \A u \in Threads \ {t} :
            Untouched(u) /\ rows'[u] = rows[u] /\ SameRecord(u)
    BY <1>2, <1>3, <2>2, ClientElsewhere, RecordSame
  <2> QED
    BY <2>1, <2>2, <2>3, DrivesAll
<1>4. ASSUME NEW r \in requests, Serves(r)
      PROVE  \A u \in Threads : Drives(u)'
  <2>1. PICK t \in Threads : t = r.thread
    BY <1>2, <1>4, ServesElsewhere
  <2>2. Drives(t)'
    BY <1>2, <1>4, <2>1, ServedDrives
  <2>3. /\ SPECS' = SPECS /\ path' = path /\ issued \subseteq issued'
        /\ (\E f : Deliver(r, f)) /\ \E row : Note(t, row)
        /\ \A u \in Threads \ {t} :
               sequence'[u] = sequence[u] /\ SameRecord(u)
    BY <1>2, <1>4, <2>1, ServesElsewhere
  <2>4. \A u \in Threads \ {t} : Untouched(u)
    BY <1>2, <2>1, <2>3, Others DEF ExerciseShape
  <2>5. \A u \in Threads \ {t} : rows'[u] = rows[u]
    BY <1>2, <2>3, NoteElsewhere
  <2> QED
    BY <2>2, <2>3, <2>4, <2>5, DrivesAll
<1>5. ASSUME NEW r \in requests, LoseCall(r)
      PROVE  \A u \in Threads : Drives(u)'
  <2>1. PICK t \in Threads : t = r.thread
    BY <1>2, TokenFacts
  <2>2. Drives(t)'
    BY <1>2, <1>5, <2>1, LostDrives
  <2>3. /\ Lose(r) /\ path' = path
        /\ SPECS' = SPECS /\ sequence' = sequence
        /\ issued' = issued /\ completed' = completed
        /\ rows' = rows \/ \E row : Note(t, row)
    BY <1>5, <2>1 DEF LoseCall, serverVars
  <2>4. \A u \in Threads \ {t} : Untouched(u)
    BY <1>2, <2>1, <2>3, Others DEF ExerciseShape
  <2>5. \A u \in Threads \ {t} : rows'[u] = rows[u] /\ SameRecord(u)
    BY <1>2, <2>3, NoteElsewhere, RecordSame
  <2> QED
    BY <2>2, <2>3, <2>4, <2>5, DrivesAll
<1>6. ASSUME ExerciseDone \/ UNCHANGED exerciseVars
      PROVE  \A u \in Threads : Drives(u)'
  <2>1. /\ ckpt' = ckpt /\ run' = run /\ shown' = shown /\ consent' = consent
        /\ aborts' = aborts /\ requests' = requests /\ inbox' = inbox
        /\ SPECS' = SPECS /\ sequence' = sequence /\ completed' = completed
        /\ issued' = issued /\ path' = path /\ rows' = rows
    BY <1>6, Zenon DEF ExerciseDone, exerciseVars
  <2>2. ASSUME NEW u \in Threads
        PROVE  Drives(u)'
    BY <1>2, <2>1, RecordSame, DrivesIdle DEF Moves, Idles
  <2> QED
    BY <2>2
<1>7. \A u \in Threads : Drives(u)'
  <2>1. \/ \E t \in Threads :
               /\ ExerciseClient(t) \/ Adapter(t) \/ DirectSession(t)
               /\ UNCHANGED <<serverVars, path>>
        \/ \E r \in requests : Serves(r)
        \/ \E r \in requests : LoseCall(r)
        \/ ExerciseDone \/ UNCHANGED exerciseVars
    BY Zenon DEF ExerciseNext, Serves
  <2> QED
    BY <1>3, <1>4, <1>5, <1>6, <2>1
<1> QED
  BY <1>1, <1>7 DEF VerdictInv

\* Every case begins with an empty row.
LEMMA VerdictStarts == ExerciseInit => VerdictInv
<1> SUFFICES ASSUME ExerciseInit, NEW t \in Threads
             PROVE  Drives(t)
  BY ExerciseStarts DEF VerdictInv
<1>1. /\ ckpt[t] = NewThread /\ run[t] = "stopped" /\ shown[t] = NoForm
      /\ aborts[t] = 0 /\ inbox[t] = NoFrame /\ requests = {}
      /\ sequence[t] = 0 /\ completed = <<>> /\ rows[t] = NewRow
  BY DEF ExerciseInit, Init, ClientInit
<1>2. Entry(t)
  BY DEF ExerciseInit, Entry
<1>3. /\ ckpt[t].next = "begin" /\ ckpt[t].status = "new"
      /\ ckpt[t].answers = NoAnswers /\ ckpt[t].result = None
      /\ inbox[t].kind = "none"
      /\ rows[t].calls = <<>> /\ rows[t].log = <<>> /\ rows[t].shown = <<>>
      /\ rows[t].answers = <<>> /\ rows[t].outcome = "open"
  BY <1>1 DEF NewThread, NewRow, NoFrame
<1>4. Own(t) = {}
  BY <1>1 DEF Own
<1>5. RowIs(t, 0, 0, 0, 0, 0)
  <2>1. Len(<<>>) = 0 /\ \A i \in 1 .. 0 : FALSE
    OBVIOUS
  <2>2. 1 .. 0 - 1 = {}
    OBVIOUS
  <2>3. CallsAre(t, <<>>, 0, 0)
    BY <2>1, EmptyLog DEF CallsAre
  <2>4. LogIs(t, <<>>, 0) /\ ShownAre(t, <<>>, 0)
    BY <2>1, EmptyLog DEF LogIs, ShownAre
  <2>5. AnswersAre(t, <<>>, 0)
    BY <2>1, <2>2, EmptyLog DEF AnswersAre
  <2> QED
    BY <1>3, <2>3, <2>4, <2>5 DEF RowIs
<1>6. GraphWork(t)
  BY <1>1, <1>3, <1>4, <1>5 DEF GraphWork, Begins
<1>7. OneAttempt(t)
  BY <1>1 DEF OneAttempt
<1>8. AdapterWork(t)
  BY <1>1, <1>3, <1>4, <1>7 DEF AdapterWork
<1>9. DirectWork(t)
  BY <1>1, <1>3, <1>4, <1>7 DEF DirectWork
<1> QED
  BY <1>2, <1>3, <1>6, <1>8, <1>9 DEF Drives, Work, Open

\* The cases, with what each was driven by and with.
LEMMA CasesAre ==
    /\ DOMAIN CASES =
           Saved \cup {"baseline_stable", "baseline_fresh", "saved_decline",
                       "saved_cancel", "saved_wrong_key", "saved_error",
                       "restart", "stable_same", "stable_changed",
                       "fresh_changed", "stable_changed_bound",
                       "stable_changed_decline", "direct_original_state"}
    /\ \A c \in Saved : /\ CASES[c].path = "checkpointed_round_graph"
                        /\ CASES[c].decision = "accept"
                        /\ CASES[c].spec.error = FALSE
    /\ CASES["saved_two_rounds"].spec.rounds = 2
    /\ CASES["baseline_stable"] = Case("original_adapter",
                                       Spec1(FALSE, TRUE, FALSE, 1), "accept")
    /\ CASES["baseline_fresh"] = Case("original_adapter",
                                      Spec1(TRUE, TRUE, FALSE, 1), "accept")
    /\ CASES["saved_decline"] = Graph(Spec1(FALSE, TRUE, FALSE, 1), "decline")
    /\ CASES["saved_cancel"] = Graph(Spec1(FALSE, TRUE, FALSE, 1), "cancel")
    /\ CASES["saved_wrong_key"] =
           Graph(Spec1(FALSE, TRUE, FALSE, 1), "wrong_key")
    /\ CASES["saved_error"] = Graph(Spec1(FALSE, TRUE, TRUE, 1), "accept")
    /\ CASES["restart"] = Case("process_restart",
                               Spec1(FALSE, FALSE, FALSE, 1), "accept")
    /\ CASES["stable_same"] = Case("identity_adapter",
                                   Spec1(FALSE, FALSE, FALSE, 1), "accept")
    /\ CASES["stable_changed"] = Case("identity_adapter",
                                      Spec1(FALSE, TRUE, FALSE, 1), "accept")
    /\ CASES["fresh_changed"] = Case("identity_adapter",
                                     Spec1(TRUE, TRUE, FALSE, 1), "accept")
    /\ CASES["stable_changed_bound"] =
           Case("bound_adapter", Spec1(FALSE, TRUE, FALSE, 1), "accept")
    /\ CASES["stable_changed_decline"] =
           Case("identity_adapter", Spec1(FALSE, TRUE, FALSE, 1), "decline")
    /\ CASES["direct_original_state"] =
           Case("direct_session", Spec1(FALSE, TRUE, FALSE, 1), "accept")
<1>1. ASSUME NEW c \in Saved
      PROVE  /\ CASES[c].path = "checkpointed_round_graph"
             /\ CASES[c].decision = "accept"
             /\ CASES[c].spec.error = FALSE
  BY DEF CASES, Saved, Graph, Case, Spec1
<1>2. CASES["saved_two_rounds"].spec.rounds = 2
  BY DEF CASES, Graph, Case, Spec1
<1>3. DOMAIN CASES =
           Saved \cup {"baseline_stable", "baseline_fresh", "saved_decline",
                       "saved_cancel", "saved_wrong_key", "saved_error",
                       "restart", "stable_same", "stable_changed",
                       "fresh_changed", "stable_changed_bound",
                       "stable_changed_decline", "direct_original_state"}
  BY DEF CASES, Saved
<1> QED
  BY <1>1, <1>2, <1>3 DEF CASES

\* The answers are told apart by their action.
LEMMA SoleIs ==
    ASSUME NEW k, NEW action, NEW content
    PROVE  /\ Sole(k, action, content)[k].action = action
           /\ action # "accept" => Sole(k, action, content) # YesTo(k)
<1>1. ASSUME NEW a, NEW c
      PROVE  Sole(k, a, c)[k].action = a
  <2> DEFINE answer == [action |-> a, content |-> c]
  <2>1. answer.action = a
    OBVIOUS
  <2> HIDE DEF answer
  <2>2. Sole(k, a, c) = [x \in {k} |-> answer]
    BY DEF Sole, answer
  <2> QED
    BY <2>1, <2>2
<1>2. /\ Sole(k, action, content)[k].action = action
      /\ Sole(k, "accept", "yes")[k].action = "accept"
  BY <1>1
<1> QED
  BY <1>2, Zenon DEF YesTo

\* A row of the round graph that holds what exercise asserts of it.
LEMMA RowIsHeld ==
    ASSUME NEW t \in Threads, path[t] = "checkpointed_round_graph",
           NEW c \in Nat \ {0}, NEW g \in Nat, g >= c - 1, NEW s, NEW a,
           RowIs(t, c, g, c, s, a)
    PROVE  /\ RowHolds(rows[t]) /\ Len(rows[t].calls) = c
           /\ \A i \in DOMAIN rows[t].log : rows[t].log[i].subject = "draft-A"
<1> DEFINE calls == rows[t].calls
           log == rows[t].log
<1>1. /\ IsLog(calls) /\ Len(calls) = c /\ IsLog(log) /\ Len(log) = c
      /\ \A i \in 1 .. c : log[i] = EntryNo(t, i)
      /\ \A i \in 1 .. c :
             calls[i] = CallRow(IF i = 1 THEN NoToken ELSE StateAt(t, i - 1),
                                calls[i].answers,
                                IF i <= g THEN StateAt(t, i) ELSE NoToken)
  BY DEF RowIs, CallsAre, LogIs
<1>2. \A i \in 1 .. c : /\ log[i].phase = IF i = 1 THEN "initial" ELSE "resume"
                        /\ log[i].subject = AskedOf(t)
  <2>1. ASSUME NEW i \in 1 .. c
        PROVE  /\ log[i].phase = IF i = 1 THEN "initial" ELSE "resume"
               /\ log[i].subject = AskedOf(t)
    <3>1. log[i] = EntryNo(t, i)
      BY <1>1
    <3> HIDE DEF log
    <3> QED
      BY <3>1 DEF EntryNo
  <2> QED
    BY <2>1
<1>3. \A i \in 1 .. c :
          /\ calls[i].state = IF i = 1 THEN NoToken ELSE StateAt(t, i - 1)
          /\ calls[i].received = IF i <= g THEN StateAt(t, i) ELSE NoToken
  <2>1. ASSUME NEW i \in 1 .. c
        PROVE  /\ calls[i].state = IF i = 1 THEN NoToken ELSE StateAt(t, i - 1)
               /\ calls[i].received = IF i <= g THEN StateAt(t, i) ELSE NoToken
    <3> DEFINE x == calls[i].answers
               state == IF i = 1 THEN NoToken ELSE StateAt(t, i - 1)
               received == IF i <= g THEN StateAt(t, i) ELSE NoToken
    <3>1. calls[i] = CallRow(state, x, received)
      BY <1>1
    <3> HIDE DEF calls, x, state, received
    <3>2. calls[i].state = state /\ calls[i].received = received
      BY <3>1 DEF CallRow
    <3> QED
      BY <3>2 DEF state, received
  <2> QED
    BY <2>1
<1>4. AskedOf(t) = "draft-A"
  BY DEF AskedOf
<1>5. DOMAIN log = 1 .. c
  BY <1>1 DEF IsLog
<1> HIDE DEF calls, log
<1>6. {i \in DOMAIN log : log[i].phase = "initial"} = {1}
  BY <1>2, <1>5
<1>7. ASSUME NEW i \in 1 .. c - 1
      PROVE  calls[i + 1].state = calls[i].received
  <2>1. i \in 1 .. c /\ i + 1 \in 1 .. c /\ i + 1 # 1 /\ i <= g
    OBVIOUS
  <2>2. calls[i].received = StateAt(t, i)
    BY <1>3, <2>1
  <2>3. \A j \in 1 .. c : j # 1 => calls[j].state = StateAt(t, j - 1)
    BY <1>3
  <2>4. PICK j \in 1 .. c : j = i + 1
    BY <2>1
  <2>5. j - 1 = i
    BY <2>4
  <2> QED
    BY <2>1, <2>2, <2>3, <2>4, <2>5
<1>8. Cardinality({1}) = 1
  BY FS_Singleton
<1>9. RowHolds(rows[t])
  BY <1>1, <1>6, <1>7, <1>8 DEF RowHolds, calls, log
<1> QED
  BY <1>1, <1>2, <1>4, <1>5, <1>9 DEF calls, log

\* The answers of a case of the round graph are those planned of it.
LEMMA GraphDrove ==
    ASSUME ExerciseInv, NEW t \in Threads, NEW s \in Nat \ {0}, NEW c, NEW g, NEW l,
           RowIs(t, c, g, l, s, s), NEW case, NEW decision,
           CASES[case].decision = decision, decision # "wrong_key",
           case \notin {"baseline_fresh", "fresh_changed"}
    PROVE  /\ decision = "accept" =>
                  (Drove(t, case) <=> /\ rows[t].outcome = "returned"
                                      /\ s = SPECS[t].rounds /\ Yes(t, s))
           /\ decision # "accept" =>
                  (Drove(t, case) =>
                      /\ rows[t].outcome = "returned" /\ ~ Yes(t, s))
<1> DEFINE shows == rows[t].shown
           answers == rows[t].answers
           content == IF decision = "accept" THEN "yes" ELSE "none"
<1>1. /\ IsLog(shows) /\ Len(shows) = s /\ IsLog(answers) /\ Len(answers) = s
      /\ \A i \in 1 .. s : shows[i] = FormNo(t, i)
      /\ \A i \in 1 .. s - 1 : answers[i] = YesTo(KeyAt(t, i))
  BY DEF RowIs, ShownAre, AnswersAre
<1>2. ASSUME NEW i \in 1 .. s
      PROVE  (CHOOSE k \in shows[i].keys : TRUE) = KeyAt(t, i)
  <2>1. shows[i].keys = {KeyAt(t, i)}
    BY <1>1, AskedFacts
  <2>2. (CHOOSE k \in shows[i].keys : TRUE) \in shows[i].keys
    BY <2>1
  <2> QED
    BY <2>1, <2>2
<1>3. DOMAIN answers = 1 .. s
  BY <1>1 DEF IsLog
<1>4. Drove(t, case) <=>
          /\ rows[t].outcome = "returned" /\ s = SPECS[t].rounds
          /\ \A i \in 1 .. s :
                 answers[i] = Sole(KeyAt(t, i), decision, content)
  <2>1. Drove(t, case) <=>
            /\ rows[t].outcome = "returned" /\ Len(answers) = SPECS[t].rounds
            /\ \A i \in DOMAIN answers :
                   answers[i] = Sole(CHOOSE k \in shows[i].keys : TRUE,
                                     decision, content)
    BY Zenon DEF Drove
  <2> HIDE DEF shows, answers, content
  <2> QED
    BY <1>1, <1>2, <1>3, <2>1
<1>5. Yes(t, s) <=> answers[s] = Sole(KeyAt(t, s), "accept", "yes")
  BY DEF Yes, YesTo
<1>6. \A i \in 1 .. s - 1 : answers[i] = Sole(KeyAt(t, i), "accept", "yes")
  BY <1>1 DEF YesTo
<1>7. decision # "accept" =>
          \A k : Sole(k, decision, content) # Sole(k, "accept", "yes")
  BY SoleIs DEF YesTo
<1>8. s \in 1 .. s /\ \A i \in 1 .. s : i = s \/ i \in 1 .. s - 1
  OBVIOUS
<1> HIDE DEF shows, answers
<1> QED
  BY <1>4, <1>5, <1>6, <1>7, <1>8

\* So is the one answer of a case of the adapter or of the session alone.
LEMMA OneDrove ==
    ASSUME NEW t, NEW answers, NEW case, NEW decision,
           rows[t].shown = <<FormOf(First(t))>>, rows[t].answers = <<answers>>,
           SPECS[t].rounds = 1,
           CASES[case].decision = decision, decision # "wrong_key",
           case \notin {"baseline_fresh", "fresh_changed"}
    PROVE  Drove(t, case) <=>
               /\ rows[t].outcome = "returned"
               /\ answers = Sole(FormKey(First(t)), decision,
                                 IF decision = "accept" THEN "yes" ELSE "none")
<1> DEFINE shows == rows[t].shown
           all == rows[t].answers
           content == IF decision = "accept" THEN "yes" ELSE "none"
           key == FormKey(First(t))
<1>1. FormOf(First(t)).keys = {key}
  BY DEF FormOf
<1>2. DOMAIN all = {1} /\ Len(all) = 1 /\ all[1] = answers
  <2>1. 1 .. 1 = {1}
    OBVIOUS
  <2> QED
    BY <2>1
<1>3. shows[1].keys = {key}
  BY <1>1
<1> HIDE DEF key, shows, all
<1>4. (CHOOSE k \in shows[1].keys : TRUE) = key
  <2>1. (CHOOSE k \in shows[1].keys : TRUE) \in shows[1].keys
    BY <1>3
  <2> QED
    BY <1>3, <2>1
<1>5. Drove(t, case) <=>
          /\ rows[t].outcome = "returned" /\ Len(all) = 1
          /\ \A i \in DOMAIN all :
                 all[i] = Sole(CHOOSE k \in shows[i].keys : TRUE,
                               decision, content)
  BY Zenon DEF Drove, shows, all
<1> QED
  BY <1>2, <1>4, <1>5 DEF key

\* What the experiments conclude of one case.
Truth(t, case) ==
    /\ Drove(t, case) => Verified(t, case)
    /\ case \in Conclusive => (Verified(t, case) => Drove(t, case))

\* The saved cases of the probe.
LEMMA SavedTruth ==
    ASSUME ExerciseInv, NEW t \in Threads, Drives(t), NEW case \in Saved,
           IsOf(t, case)
    PROVE  Truth(t, case)
<1>1. /\ path[t] = "checkpointed_round_graph" /\ ~ SPECS[t].error
      /\ CASES[case].decision = "accept"
      /\ case = "saved_two_rounds" => SPECS[t].rounds = 2
  BY CasesAre DEF IsOf
<1>2. case \notin {"baseline_fresh", "fresh_changed"}
  BY DEF Saved
<1>3. path[t] # "process_restart" /\ OfGraph(t)
  BY <1>1 DEF OfGraph
<1>4. Verified(t, case) <=>
          /\ rows[t].outcome # "open" /\ RowHolds(rows[t])
          /\ rows[t].completed = <<"draft-A">> /\ rows[t].status = "completed"
          /\ \A i \in DOMAIN rows[t].log : rows[t].log[i].subject = "draft-A"
          /\ case = "saved_two_rounds" => Len(rows[t].shown) = 2
  BY <1>1 DEF Verified, Saved, IdentityPaths
<1>5. rows[t].outcome # "open" => GraphOver(t)
  BY <1>3 DEF Drives, Ended, Open
<1>6. ASSUME NEW s \in Nat \ {0}, GraphReturned(t, s),
             rows[t].outcome = "returned"
      PROVE  Drove(t, case) <=> Verified(t, case)
  <2>1. RowIs(t, s + 1, s, s + 1, s, s)
    BY <1>6 DEF GraphReturned
  <2>2. Drove(t, case) <=> s = SPECS[t].rounds /\ Yes(t, s)
    BY <1>1, <1>2, <1>6, <2>1, GraphDrove
  <2>3. s + 1 \in Nat \ {0} /\ s \in Nat /\ s >= s + 1 - 1
    OBVIOUS
  <2>4. /\ RowHolds(rows[t])
        /\ \A i \in DOMAIN rows[t].log : rows[t].log[i].subject = "draft-A"
    BY <1>1, <2>1, <2>3, RowIsHeld
  <2>5. Len(rows[t].shown) = s
    BY <2>1 DEF RowIs, ShownAre
  <2>6. IF Yes(t, s)
        THEN /\ s = SPECS[t].rounds /\ rows[t].status = "completed"
             /\ rows[t].completed = <<"draft-A">>
        ELSE rows[t].completed = <<>>
    BY <1>1, <1>3, <1>6 DEF GraphReturned
  <2>7. <<"draft-A">> # <<>>
    OBVIOUS
  <2> QED
    BY <1>1, <1>4, <1>6, <2>2, <2>4, <2>5, <2>6, <2>7
<1>7. Drove(t, case) => rows[t].outcome = "returned"
  BY <1>1, <1>2, Zenon DEF Drove
<1>8. Verified(t, case) => rows[t].outcome = "returned"
  BY <1>4, <1>5 DEF GraphOver
<1> QED
  BY <1>5, <1>6, <1>7, <1>8 DEF Truth, GraphOver

\* The others: a refused answer, a failing tool, an answer under another key.
LEMMA RefusedTruth ==
    ASSUME ExerciseInv, NEW t \in Threads, Drives(t),
           NEW case \in {"saved_decline", "saved_cancel", "saved_error"},
           IsOf(t, case)
    PROVE  Truth(t, case)
<1>1. /\ path[t] = "checkpointed_round_graph" /\ SPECS[t].rounds = 1
      /\ CASES[case].decision
             = CASE case = "saved_decline" -> "decline"
                 [] case = "saved_cancel" -> "cancel" [] OTHER -> "accept"
      /\ case = "saved_error" => SPECS[t].error = TRUE
  <2>1. CASE case = "saved_decline"
    BY <2>1, CasesAre DEF IsOf, Graph, Case, Spec1
  <2>2. CASE case = "saved_cancel"
    BY <2>2, CasesAre DEF IsOf, Graph, Case, Spec1
  <2>3. CASE case = "saved_error"
    BY <2>3, CasesAre DEF IsOf, Graph, Case, Spec1
  <2> QED
    BY <2>1, <2>2, <2>3
<1>2. path[t] # "process_restart" /\ OfGraph(t)
  BY <1>1 DEF OfGraph
<1>3. case \notin Conclusive
  BY DEF Conclusive, Saved
<1>4. Verified(t, case) <=>
          /\ rows[t].outcome # "open" /\ RowHolds(rows[t])
          /\ rows[t].completed = <<>>
          /\ case = "saved_error" => rows[t].status = "tool_error"
  BY <1>1 DEF Verified, Saved, IdentityPaths
<1>5. ASSUME Drove(t, case)
      PROVE  Verified(t, case)
  <2>1. rows[t].outcome = "returned"
    BY <1>1, <1>5, Zenon DEF Drove
  <2>2. PICK s \in Nat \ {0} : GraphReturned(t, s)
    BY <1>2, <2>1 DEF Drives, Ended, Open, GraphOver
  <2>3. RowIs(t, s + 1, s, s + 1, s, s)
    BY <2>2 DEF GraphReturned
  <2>4. IF case = "saved_error" THEN Yes(t, s) ELSE ~ Yes(t, s)
    BY <1>1, <1>5, <2>3, GraphDrove
  <2>5. s + 1 \in Nat \ {0} /\ s \in Nat /\ s >= s + 1 - 1
    OBVIOUS
  <2>6. RowHolds(rows[t])
    BY <1>1, <2>3, <2>5, RowIsHeld
  <2>7. Yes(t, s) => Accepts(t, s)
    BY SoleIs DEF Yes, Accepts, YesTo
  <2>8. /\ rows[t].completed = <<>>
        /\ SPECS[t].error /\ Accepts(t, s) => rows[t].status = "tool_error"
    BY <1>1, <1>2, <2>2, <2>4 DEF GraphReturned
  <2> QED
    BY <1>1, <1>4, <2>1, <2>4, <2>6, <2>7, <2>8
<1> QED
  BY <1>3, <1>5 DEF Truth

LEMMA WrongKeyTruth ==
    ASSUME ExerciseInv, NEW t \in Threads, Drives(t),
           IsOf(t, "saved_wrong_key")
    PROVE  Truth(t, "saved_wrong_key")
<1>1. /\ path[t] = "checkpointed_round_graph" /\ SPECS[t].rounds = 1
      /\ CASES["saved_wrong_key"].decision = "wrong_key"
  BY CasesAre DEF IsOf, Graph, Case, Spec1
<1>2. Drove(t, "saved_wrong_key") <=> rows[t].outcome = "keys_differ"
  BY <1>1 DEF Drove
<1>3. Verified(t, "saved_wrong_key") <=>
          /\ rows[t].outcome = "keys_differ" /\ RowHolds(rows[t])
          /\ rows[t].completed = <<>> /\ Len(rows[t].calls) = 1
  BY <1>1 DEF Verified, Saved, IdentityPaths
<1>4. ASSUME rows[t].outcome = "keys_differ"
      PROVE  /\ RowHolds(rows[t])
             /\ rows[t].completed = <<>> /\ Len(rows[t].calls) = 1
  <2>1. GraphOver(t)
    BY <1>1, <1>4 DEF Drives, Ended, Open, OfGraph
  <2>2. rows[t].completed = <<>> /\ RowIs(t, 1, 1, 1, 1, 0)
    <3>1. PICK s \in 1 .. 1 : RowIs(t, s, s, s, s, s - 1)
      BY <1>1, <1>4, <2>1 DEF GraphOver
    <3>2. s = 1 /\ s - 1 = 0
      OBVIOUS
    <3>3. PICK a : a = s - 1 /\ RowIs(t, s, s, s, s, a)
      BY <3>1
    <3> QED
      BY <1>4, <2>1, <3>2, <3>3 DEF GraphOver
  <2>3. 1 \in Nat \ {0} /\ 1 \in Nat /\ 1 >= 1 - 1
    OBVIOUS
  <2> QED
    BY <1>1, <2>2, <2>3, RowIsHeld
<1> QED
  BY <1>2, <1>3, <1>4 DEF Truth

\* The log of a case that was asked and answered once.
LEMMA TwoPhases ==
    ASSUME NEW r, Len(r.log) = 2, IsLog(r.log),
           r.log[1].phase = "initial", r.log[2].phase = "resume"
    PROVE  Phases(r) = <<"initial", "resume">>
<1>1. DOMAIN r.log = {1, 2}
  BY DEF IsLog
<1>2. Phases(r) = [i \in {1, 2} |-> r.log[i].phase]
  BY <1>1 DEF Phases
<1>3. <<"initial", "resume">>
          = [i \in {1, 2} |-> IF i = 1 THEN "initial" ELSE "resume"]
  OBVIOUS
<1> QED
  BY <1>2, <1>3

\* The restart between the two processes.
LEMMA RestartTruth ==
    ASSUME ExerciseInv, NEW t \in Threads, Drives(t), IsOf(t, "restart")
    PROVE  Truth(t, "restart")
<1>1. /\ path[t] = "process_restart" /\ SPECS[t].rounds = 1
      /\ CASES["restart"].decision = "accept"
  BY CasesAre DEF IsOf, Case, Spec1
<1>2. OfGraph(t)
  BY <1>1 DEF OfGraph
<1>3. Verified(t, "restart") <=>
          rows[t].outcome # "open" /\ RestartVerified(t)
  BY <1>1 DEF Verified, Saved, IdentityPaths
<1>4. rows[t].outcome # "open" => GraphOver(t)
  BY <1>2 DEF Drives, Ended, Open
<1>5. Drove(t, "restart") => rows[t].outcome = "returned"
  BY <1>1, Zenon DEF Drove
<1>6. Verified(t, "restart") => rows[t].outcome = "returned"
  BY <1>3, <1>4 DEF GraphOver, RestartVerified, CompletedByB
<1>7. ASSUME rows[t].outcome = "returned"
      PROVE  Drove(t, "restart") /\ Verified(t, "restart")
  <2>1. PICK s \in Nat \ {0} : GraphReturned(t, s)
    BY <1>4, <1>7 DEF GraphOver
  <2>2. s = 1
    BY <1>1, <2>1 DEF GraphReturned
  <2>3. RowIs(t, 2, 1, 2, 1, 1)
    BY <2>1, <2>2 DEF GraphReturned
  <2>4. /\ Yes(t, 1) /\ rows[t].status = "completed"
        /\ ckpt[t].result.text = "completed-from-process-B"
        /\ consent[t].frame = QuestionAt(t, 1)
    BY <1>1, <2>1, <2>2 DEF GraphReturned
  <2>5. Drove(t, "restart")
    BY <1>1, <1>7, <2>3, <2>4, GraphDrove
  <2>6. StateAt(t, 1) = TOKEN(t) /\ FormNo(t, 1) = RestartForm
    BY <1>1 DEF StateAt, TOKEN, AskedOf, FormNo, FormAt
  <2>7. consent[t].frame = InputFrame(TOKEN(t), RestartForm)
    BY <2>4, <2>6, Zenon DEF QuestionAt
  <2>8. rows[t].shown = <<RestartForm>>
    <3>1. /\ IsLog(rows[t].shown) /\ Len(rows[t].shown) = 1
          /\ rows[t].shown[1] = RestartForm
      BY <2>3, <2>6 DEF RowIs, ShownAre
    <3>2. DOMAIN rows[t].shown = {1} /\ \E S : rows[t].shown \in Seq(S)
      BY <3>1 DEF IsLog
    <3> HIDE DEF RestartForm
    <3> QED
      BY <3>1, <3>2
  <2>9. rows[t].calls[1].received = TOKEN(t)
    <3> DEFINE x == rows[t].calls[1].answers
    <3>1. rows[t].calls[1] = CallRow(NoToken, x, StateAt(t, 1))
      BY <2>3 DEF RowIs, CallsAre
    <3> HIDE DEF x
    <3> QED
      BY <2>6, <3>1 DEF CallRow
  <2>10. Phases(rows[t]) = <<"initial", "resume">>
    <3>1. /\ IsLog(rows[t].log) /\ Len(rows[t].log) = 2
          /\ \A i \in 1 .. 2 : rows[t].log[i] = EntryNo(t, i)
      BY <2>3 DEF RowIs, LogIs
    <3>2. EntryNo(t, 1).phase = "initial" /\ EntryNo(t, 2).phase = "resume"
      BY DEF EntryNo
    <3>3. 1 \in 1 .. 2 /\ 2 \in 1 .. 2
      OBVIOUS
    <3> QED
      BY <3>1, <3>2, <3>3, TwoPhases
  <2> QED
    BY <1>3, <1>7, <2>4, <2>5, <2>7, <2>8, <2>9, <2>10
       DEF RestartVerified, SavedByA, CompletedByB
<1> QED
  BY <1>5, <1>6, <1>7 DEF Truth

\* What the answers of a case of the adapter, returned, made of it.
LEMMA AdapterDrove ==
    ASSUME NEW t, NEW answers \in OwnAnswers(t), AdapterReturned(t, answers),
           rows[t].outcome = "returned", SPECS[t].rounds = 1, NEW case,
           NEW decision \in {"accept", "decline"},
           CASES[case].decision = decision,
           case \notin {"baseline_fresh", "fresh_changed"}
    PROVE  /\ IF decision = "accept"
              THEN Drove(t, case) <=> answers = ToFirst(t)
              ELSE Drove(t, case) => answers # ToFirst(t)
           /\ IF answers = ToFirst(t) /\ path[t] # "bound_adapter"
              THEN /\ rows[t].completed = <<Second(t).subject>>
                   /\ rows[t].status = "completed"
              ELSE rows[t].completed = <<>>
           /\ path[t] = "bound_adapter" => ckpt[t].result = Mismatched
           /\ path[t] # "identity_adapter" => answers = ToFirst(t)
<1>1. Drove(t, case) <=>
          answers = Sole(FormKey(First(t)), decision,
                         IF decision = "accept" THEN "yes" ELSE "none")
  BY OneDrove DEF AdapterReturned
<1>2. Sole(FormKey(First(t)), "decline", "none") # ToFirst(t)
  BY SoleIs DEF ToFirst
<1>3. ToFirst(t) = Sole(FormKey(First(t)), "accept", "yes")
  BY DEF ToFirst, YesTo
<1>4. IF decision = "accept"
      THEN Drove(t, case) <=> answers = ToFirst(t)
      ELSE Drove(t, case) => answers # ToFirst(t)
  BY <1>1, <1>2, <1>3
<1>5. path[t] # "identity_adapter" => answers = ToFirst(t)
  BY DEF OwnAnswers
<1> QED
  BY <1>4, <1>5 DEF AdapterReturned, Records

\* The cases that record what the repeated call of the adapter is about.
LEMMA RecordedTruth ==
    ASSUME NEW t \in Threads, Drives(t),
           NEW case \in {"baseline_stable", "stable_same", "stable_changed"},
           IsOf(t, case)
    PROVE  Truth(t, case)
<1>1. /\ path[t] = IF case = "baseline_stable"
                   THEN "original_adapter" ELSE "identity_adapter"
      /\ SPECS[t].rounds = 1 /\ CASES[case].decision = "accept"
      /\ SPECS[t].drift <=> (case # "stable_same")
  <2>1. CASE case = "baseline_stable"
    BY <2>1, CasesAre DEF IsOf, Case, Spec1
  <2>2. CASE case = "stable_same"
    BY <2>2, CasesAre DEF IsOf, Case, Spec1
  <2>3. CASE case = "stable_changed"
    BY <2>3, CasesAre DEF IsOf, Case, Spec1
  <2> QED
    BY <2>1, <2>2, <2>3
<1>2. Second(t).subject
          = IF case = "stable_same" THEN "draft-A" ELSE "draft-B"
  BY <1>1 DEF Second
<1>3. /\ path[t] \in AdapterPaths /\ path[t] # "bound_adapter"
      /\ rows[t].outcome # "open" => AdapterOver(t)
  BY <1>1 DEF AdapterPaths, Drives, Ended, Open
<1>4. Verified(t, case) <=>
          /\ rows[t].outcome # "open"
          /\ rows[t].completed = <<Second(t).subject>>
          /\ case # "stable_same" => rows[t].status = "completed"
  <2>1. CASE case = "baseline_stable"
    BY <1>1, <1>2, <2>1 DEF Verified, Saved, IdentityPaths
  <2>2. CASE case = "stable_same"
    BY <1>1, <1>2, <2>2 DEF Verified, Saved, IdentityPaths, IdentityVerified
  <2>3. CASE case = "stable_changed"
    BY <1>1, <1>2, <2>3 DEF Verified, Saved, IdentityPaths, IdentityVerified
  <2> QED
    BY <2>1, <2>2, <2>3
<1>5. Drove(t, case) => rows[t].outcome = "returned"
  BY <1>1, Zenon DEF Drove
<1>6. case \in Conclusive <=> case # "stable_same"
  BY DEF Conclusive, Saved
<1>7. case # "stable_same" /\ Verified(t, case) => rows[t].outcome = "returned"
  BY <1>3, <1>4 DEF AdapterOver
<1>8. ASSUME rows[t].outcome = "returned"
      PROVE  /\ Drove(t, case) => Verified(t, case)
             /\ case # "stable_same" /\ Verified(t, case) => Drove(t, case)
  <2>1. PICK answers \in OwnAnswers(t) : AdapterReturned(t, answers)
    BY <1>3, <1>8 DEF AdapterOver
  <2>2. /\ Drove(t, case) <=> answers = ToFirst(t)
        /\ IF answers = ToFirst(t)
           THEN /\ rows[t].completed = <<Second(t).subject>>
                /\ rows[t].status = "completed"
           ELSE rows[t].completed = <<>>
    BY <1>1, <1>3, <1>8, <2>1, AdapterDrove
  <2>3. \A x : <<x>> # <<>>
    OBVIOUS
  <2> QED
    BY <1>4, <1>8, <2>2, <2>3
<1> QED
  BY <1>5, <1>6, <1>7, <1>8 DEF Truth

\* The cases in which the adapter raises, since the key has changed.
LEMMA RaisedTruth ==
    ASSUME NEW t \in Threads, Drives(t),
           NEW case \in {"baseline_fresh", "fresh_changed"}, IsOf(t, case)
    PROVE  Truth(t, case)
<1>1. /\ path[t] = IF case = "baseline_fresh"
                   THEN "original_adapter" ELSE "identity_adapter"
      /\ CASES[case].decision = "accept"
  <2>1. CASE case = "baseline_fresh"
    BY <2>1, CasesAre DEF IsOf, Case, Spec1
  <2>2. CASE case = "fresh_changed"
    BY <2>2, CasesAre DEF IsOf, Case, Spec1
  <2> QED
    BY <2>1, <2>2
<1>2. /\ path[t] \in AdapterPaths
      /\ rows[t].outcome # "open" => AdapterOver(t)
  BY <1>1 DEF AdapterPaths, Drives, Ended, Open
<1>3. rows[t].outcome = "raised" /\ rows[t].completed = <<>>
      => Verified(t, case)
  <2>1. CASE case = "baseline_fresh"
    BY <1>1, <2>1 DEF Verified, Saved, IdentityPaths
  <2>2. CASE case = "fresh_changed"
    BY <1>1, <2>2 DEF Verified, Saved, IdentityPaths, IdentityVerified
  <2> QED
    BY <2>1, <2>2
<1>4. Drove(t, case) => rows[t].outcome = "raised"
  BY <1>1, Zenon DEF Drove
<1>5. case \notin Conclusive
  BY DEF Conclusive, Saved
<1> QED
  BY <1>2, <1>3, <1>4, <1>5 DEF Truth, AdapterOver

\* The answer that names its subject, and the one that declines.
LEMMA UnrecordedTruth ==
    ASSUME NEW t \in Threads, Drives(t),
           NEW case \in {"stable_changed_bound", "stable_changed_decline"},
           IsOf(t, case)
    PROVE  Truth(t, case)
<1> DEFINE bound == case = "stable_changed_bound"
<1>1. /\ path[t] = IF bound THEN "bound_adapter" ELSE "identity_adapter"
      /\ SPECS[t].rounds = 1
      /\ CASES[case].decision = IF bound THEN "accept" ELSE "decline"
  <2>1. CASE case = "stable_changed_bound"
    BY <2>1, CasesAre DEF IsOf, Case, Spec1
  <2>2. CASE case = "stable_changed_decline"
    BY <2>2, CasesAre DEF IsOf, Case, Spec1
  <2> QED
    BY <2>1, <2>2
<1>2. /\ path[t] \in AdapterPaths
      /\ rows[t].outcome # "open" => AdapterOver(t)
  BY <1>1 DEF AdapterPaths, Drives, Ended, Open
<1>3. Verified(t, case) <=>
          /\ rows[t].outcome # "open" /\ rows[t].completed = <<>>
          /\ bound => /\ ckpt[t].result # None
                      /\ ckpt[t].result.text = "mismatch"
  <2>1. CASE case = "stable_changed_bound"
    BY <1>1, <2>1 DEF Verified, Saved, IdentityPaths, IdentityVerified
  <2>2. CASE case = "stable_changed_decline"
    BY <1>1, <2>2 DEF Verified, Saved, IdentityPaths, IdentityVerified
  <2> QED
    BY <2>1, <2>2
<1>4. Drove(t, case) => rows[t].outcome = "returned"
  BY <1>1, Zenon DEF Drove
<1>5. case \in Conclusive <=> bound
  BY DEF Conclusive, Saved
<1>6. bound /\ Verified(t, case) => rows[t].outcome = "returned"
  BY <1>2, <1>3 DEF AdapterOver
<1>7. ASSUME rows[t].outcome = "returned"
      PROVE  /\ Drove(t, case) => Verified(t, case)
             /\ bound => Drove(t, case)
  <2>1. PICK answers \in OwnAnswers(t) : AdapterReturned(t, answers)
    BY <1>2, <1>7 DEF AdapterOver
  <2>2. /\ IF bound THEN Drove(t, case) ELSE Drove(t, case) =>
                                                 answers # ToFirst(t)
        /\ IF answers = ToFirst(t) /\ path[t] # "bound_adapter"
           THEN TRUE ELSE rows[t].completed = <<>>
        /\ bound => ckpt[t].result = Mismatched
    <3>1. CASE bound
      BY <1>1, <1>7, <2>1, <3>1, AdapterDrove
    <3>2. CASE ~ bound
      BY <1>1, <1>7, <2>1, <3>2, AdapterDrove
    <3> QED
      BY <3>1, <3>2
  <2>3. Mismatched # None /\ Mismatched.text = "mismatch"
    BY ExerciseAssumption DEF Mismatched
  <2> HIDE DEF Mismatched
  <2> QED
    BY <1>1, <1>3, <1>7, <2>2, <2>3
<1> QED
  BY <1>4, <1>5, <1>6, <1>7 DEF Truth

\* The session alone.
LEMMA DirectTruth ==
    ASSUME NEW t \in Threads, Drives(t), IsOf(t, "direct_original_state")
    PROVE  Truth(t, "direct_original_state")
<1>1. /\ path[t] = "direct_session" /\ SPECS[t].rounds = 1
      /\ CASES["direct_original_state"].decision = "accept"
  BY CasesAre DEF IsOf, Case, Spec1
<1>2. rows[t].outcome # "open" => DirectOver(t)
  BY <1>1 DEF Drives, Ended, Open
<1>3. Verified(t, "direct_original_state") <=>
          /\ rows[t].completed = <<"draft-A">> /\ rows[t].outcome = "returned"
          /\ Phases(rows[t]) = <<"initial", "resume">>
  BY <1>1 DEF Verified, Saved, IdentityPaths, IdentityVerified
<1>4. Drove(t, "direct_original_state") => rows[t].outcome = "returned"
  BY <1>1, Zenon DEF Drove
<1>5. ASSUME rows[t].outcome = "returned"
      PROVE  /\ Drove(t, "direct_original_state")
             /\ Verified(t, "direct_original_state")
  <2>1. /\ DirectKept(t) /\ rows[t].log = TwoEntries
        /\ rows[t].completed = <<"draft-A">>
    BY <1>2, <1>5 DEF DirectOver
  <2>2. Drove(t, "direct_original_state")
    BY <1>1, <1>5, <2>1, OneDrove DEF DirectKept, ToFirst, YesTo
  <2>3. Phases(rows[t]) = <<"initial", "resume">>
    <3> DEFINE a == [phase |-> "initial", subject |-> "draft-A"]
               b == [phase |-> "resume", subject |-> "draft-A"]
    <3>1. TwoEntries = Append(<<a>>, b)
      BY DEF TwoEntries, OneEntry
    <3>2. a.phase = "initial" /\ b.phase = "resume"
      OBVIOUS
    <3> HIDE DEF a, b
    <3>3. /\ Append(<<a>>, b) \in Seq({a, b}) /\ Len(Append(<<a>>, b)) = 2
          /\ Append(<<a>>, b)[1] = a /\ Append(<<a>>, b)[2] = b
      OBVIOUS
    <3> QED
      BY <2>1, <3>1, <3>2, <3>3, TwoPhases DEF IsLog
  <2> QED
    BY <1>3, <1>5, <2>1, <2>2, <2>3
<1> QED
  BY <1>3, <1>4, <1>5 DEF Truth

\* The experiments tell the truth: a case that was driven as planned, by
\* whatever client and with whatever the server asks next, is verified, and
\* the conclusive ones are verified of no other history.
THEOREM ExercisesHold == ExerciseSpec => []ExercisesAreTrue
<1>1. ASSUME VerdictInv
      PROVE  ExercisesAreTrue
  <2>1. SUFFICES ASSUME NEW t \in Threads, NEW case \in DOMAIN CASES,
                        IsOf(t, case)
                 PROVE  Truth(t, case)
    BY DEF ExercisesAreTrue, Truth
  <2>2. ExerciseInv /\ Drives(t)
    BY <1>1 DEF VerdictInv
  <2>3. CASE case \in Saved
    BY <2>1, <2>2, <2>3, SavedTruth
  <2>4. CASE case \in {"saved_decline", "saved_cancel", "saved_error"}
    BY <2>1, <2>2, <2>4, RefusedTruth
  <2>5. CASE case = "saved_wrong_key"
    BY <2>1, <2>2, <2>5, WrongKeyTruth
  <2>6. CASE case = "restart"
    BY <2>1, <2>2, <2>6, RestartTruth
  <2>7. CASE case \in {"baseline_stable", "stable_same", "stable_changed"}
    BY <2>1, <2>2, <2>7, RecordedTruth
  <2>8. CASE case \in {"baseline_fresh", "fresh_changed"}
    BY <2>1, <2>2, <2>8, RaisedTruth
  <2>9. CASE case \in {"stable_changed_bound", "stable_changed_decline"}
    BY <2>1, <2>2, <2>9, UnrecordedTruth
  <2>10. CASE case = "direct_original_state"
    BY <2>1, <2>2, <2>10, DirectTruth
  <2>11. case \in Saved \cup
             {"baseline_stable", "baseline_fresh", "saved_decline",
              "saved_cancel", "saved_wrong_key", "saved_error",
              "restart", "stable_same", "stable_changed",
              "fresh_changed", "stable_changed_bound",
              "stable_changed_decline", "direct_original_state"}
    BY CasesAre
  <2> QED
    BY <2>3, <2>4, <2>5, <2>6, <2>7, <2>8, <2>9, <2>10, <2>11
<1> QED
  BY <1>1, VerdictStarts, VerdictMoves, PTL DEF ExerciseSpec
=============================================================================
