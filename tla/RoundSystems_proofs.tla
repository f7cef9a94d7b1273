------------------------ MODULE RoundSystems_proofs ------------------------
(***************************************************************************)
(* The safety properties of the two other systems around the round graph:  *)
(* StdioRestart, whose server may come back on an empty store, and         *)
(* RoundExercises, whose server asks several forms and words a repeated    *)
(* call differently.  Any number of threads, tokens, crashes and forms.    *)
(*                                                                         *)
(* The first part says what RoundGraph alone guarantees of one thread,     *)
(* whatever server it talks to; the second and the third add what each     *)
(* server makes of it; the fourth adds what the records of StdioRestart    *)
(* hold, and concludes what the checks of them accept.                     *)
(***************************************************************************)
EXTENDS StdioEvidence, RoundExercises, FiniteSetTheorems, TLAPS

(* Part 1: one thread of the round graph.                                  *)

\* The client's variables, for any frames, answer maps and results.
States(frames, maps, results) ==
    [next : {"begin", "review", "continue", "finish", "end"},
     status : {"new", "received", "answered", "completed", "tool_error"},
     roundIndex : Nat, frame : frames, answers : maps, result : results]
Shape(frames, maps, results) ==
    /\ ckpt \in [Threads -> States(frames, maps, results)]
    /\ run \in [Threads -> {"stopped", "running", "calling"}]
    /\ shown \in [Threads -> {f.form : f \in frames}]
    /\ consent \in [Threads -> [form : {f.form : f \in frames},
                                frame : frames, answers : maps]]
    /\ aborts \in [Threads -> Nat]
    /\ requests \subseteq [thread : Threads, attempt : Nat,
                           token : {f.token : f \in frames}, answers : maps]
    /\ inbox \in [Threads -> frames]

\* What the sets of a shape have to have.
Shapes(frames, maps, results) ==
    /\ NoFrame \in frames /\ NoAnswers \in maps /\ None \in results
    /\ Resumes \subseteq maps
    /\ \A f \in frames : f.result \in results

\* Nothing of thread t changes, its calls under way included.
Untouched(t) ==
    /\ ckpt'[t] = ckpt[t] /\ run'[t] = run[t] /\ shown'[t] = shown[t]
    /\ consent'[t] = consent[t] /\ aborts'[t] = aborts[t]
    /\ inbox'[t] = inbox[t]
    /\ \A r : r.thread = t => (r \in requests' <=> r \in requests)

\* A process has a reply only while it calls, and calls only from begin and
\* continue_original_round.
Waits(t) ==
    /\ inbox[t] # NoFrame => run[t] = "calling"
    /\ run[t] = "calling" => ckpt[t].next \in {"begin", "continue"}

\* Of a thread's calls at most one is of its current attempt; that one is
\* awaited, and carries what the pending node calls with.
Calls1(t) ==
    \A r \in requests : r.thread = t =>
        /\ r.attempt <= aborts[t]
        /\ r.attempt = aborts[t] =>
               /\ run[t] = "calling" /\ inbox[t] = NoFrame
               /\ ckpt[t].next = "begin" =>
                      r.token = NoToken /\ r.answers = NoAnswers
               /\ ckpt[t].next = "continue" =>
                      /\ r.token = ckpt[t].frame.token
                      /\ r.answers = ckpt[t].answers
               /\ \A s \in requests :
                      s.thread = t /\ s.attempt = aborts[t] => s = r

\* A thread of the round graph.
Runs(t) == Waits(t) /\ Calls1(t)

\* The client's steps keep the shape.
LEMMA ClientShape ==
    ASSUME NEW frames, NEW maps, NEW results, Shapes(frames, maps, results),
           Shape(frames, maps, results), NEW t \in Threads, Client(t)
    PROVE  Shape(frames, maps, results)'
<1> USE DEF Shape, Shapes
<1>1. CASE Invoke(t)
  BY <1>1 DEF Invoke
<1>2. ASSUME NEW tok \in {f.token : f \in frames}, NEW answers \in maps,
             CallTool(t, tok, answers)
      PROVE  Shape(frames, maps, results)'
  BY <1>2 DEF CallTool
<1>3. CASE BeginCall(t)
  <2>1. NoToken \in {f.token : f \in frames}
    BY DEF NoFrame
  <2> QED
    BY <1>2, <1>3, <2>1 DEF BeginCall
<1>4. CASE ContinueCall(t)
  <2>1. /\ ckpt[t].frame.token \in {f.token : f \in frames}
        /\ ckpt[t].answers \in maps
    BY DEF States
  <2> QED
    BY <1>2, <1>4, <2>1 DEF ContinueCall
<1>5. ASSUME NEW n \in Nat, Received(t, n)
      PROVE  Shape(frames, maps, results)'
  <2> DEFINE next == IF inbox[t].kind = "input" THEN "review" ELSE "finish"
  <2>1. ckpt' = [ckpt EXCEPT ![t] = [ckpt[t] EXCEPT
                     !.frame = inbox[t], !.answers = NoAnswers,
                     !.roundIndex = n, !.status = "received",
                     !.next = next]]
    BY <1>5 DEF Received
  <2>2. inbox[t] \in frames /\ next \in {"review", "finish"}
    OBVIOUS
  <2> HIDE DEF next
  <2>3. ckpt[t] \in States(frames, maps, results)
    OBVIOUS
  <2>4. [ckpt[t] EXCEPT
             !.frame = inbox[t], !.answers = NoAnswers,
             !.roundIndex = n, !.status = "received",
             !.next = next] \in States(frames, maps, results)
    BY <2>2, <2>3 DEF States
  <2>5. ckpt' \in [Threads -> States(frames, maps, results)]
    BY <2>1, <2>4
  <2> QED
    BY <1>5, <2>5 DEF Received
<1>6. CASE BeginReturns(t)
  BY <1>5, <1>6 DEF BeginReturns
<1>7. CASE ContinueReturns(t)
  <2>1. ckpt[t].roundIndex + 1 \in Nat
    BY DEF States
  <2> QED
    BY <1>5, <1>7, <2>1 DEF ContinueReturns
<1>8. CASE Review(t)
  <2>1. ckpt[t].frame.form \in {f.form : f \in frames}
    BY DEF States
  <2> QED
    BY <1>8, <2>1 DEF Review
<1>9. CASE RoundLimit(t)
  BY <1>9 DEF RoundLimit
<1>10. CASE Resume(t)
  <2>1. PICK answers \in Resumes :
           /\ ckpt' = [ckpt EXCEPT ![t].answers = answers,
                                   ![t].status = "answered",
                                   ![t].next = "continue"]
           /\ consent' = [consent EXCEPT ![t] =
                  [form |-> shown[t], frame |-> ckpt[t].frame,
                   answers |-> answers]]
    BY <1>10, Zenon DEF Resume
  <2>2. answers \in maps
    OBVIOUS
  <2>3. UNCHANGED <<shown, aborts, requests, inbox>>
        /\ run' = [run EXCEPT ![t] = "running"]
    BY <1>10 DEF Resume
  <2>4. ckpt[t] \in States(frames, maps, results)
    OBVIOUS
  <2>5. [ckpt[t] EXCEPT !.answers = answers, !.status = "answered",
                        !.next = "continue"] \in States(frames, maps, results)
    BY <2>2, <2>4 DEF States
  <2>6. ckpt' \in [Threads -> States(frames, maps, results)]
    BY <2>1, <2>5
  <2>7. [form |-> shown[t], frame |-> ckpt[t].frame, answers |-> answers]
            \in [form : {f.form : f \in frames}, frame : frames,
                 answers : maps]
    BY <2>2, <2>4 DEF States
  <2>8. consent' \in [Threads -> [form : {f.form : f \in frames},
                                  frame : frames, answers : maps]]
    BY <2>1, <2>7
  <2> QED
    BY <2>3, <2>6, <2>8
<1>11. CASE Finish(t)
  <2>1. ckpt[t].frame.result \in results
    BY DEF States
  <2>2. ckpt' = [ckpt EXCEPT ![t] = [ckpt[t] EXCEPT
            !.result = ckpt[t].frame.result,
            !.status = IF ckpt[t].frame.result.isError THEN "tool_error"
                       ELSE "completed",
            !.next = "end"]]
    BY <1>11 DEF Finish
  <2>3. ckpt[t] \in States(frames, maps, results)
    OBVIOUS
  <2>4. [ckpt[t] EXCEPT
             !.result = ckpt[t].frame.result,
             !.status = IF ckpt[t].frame.result.isError THEN "tool_error"
                        ELSE "completed",
             !.next = "end"] \in States(frames, maps, results)
    BY <2>1, <2>3 DEF States
  <2>5. ckpt' \in [Threads -> States(frames, maps, results)]
    BY <2>2, <2>4
  <2> QED
    BY <1>11, <2>5 DEF Finish
<1>12. CASE Abort(t)
  BY <1>12 DEF Abort
<1> QED
  BY <1>1, <1>3, <1>4, <1>6, <1>7, <1>8, <1>9, <1>10, <1>11, <1>12
     DEF Client

\* So do a reply and a lost request.
LEMMA ChannelShape ==
    ASSUME NEW frames, NEW maps, NEW results, Shapes(frames, maps, results),
           Shape(frames, maps, results), NEW r \in requests,
           Lose(r) \/ \E f \in frames : Deliver(r, f)
    PROVE  Shape(frames, maps, results)'
<1> USE DEF Shape, Shapes
<1>1. CASE \E f \in frames : Deliver(r, f)
  BY <1>1 DEF Deliver
<1>2. CASE Lose(r)
  <2>1. r.thread \in Threads /\ aborts[r.thread] + 1 \in Nat
    OBVIOUS
  <2>2. /\ requests' \subseteq requests
        /\ UNCHANGED <<ckpt, shown, consent, inbox>>
        /\ \/ UNCHANGED <<aborts, run>>
           \/ /\ aborts' = [aborts EXCEPT ![r.thread] = aborts[r.thread] + 1]
              /\ run' = [run EXCEPT ![r.thread] = "stopped"]
    BY <1>2 DEF Lose
  <2>3. aborts' \in [Threads -> Nat]
    BY <2>1, <2>2
  <2>4. run' \in [Threads -> {"stopped", "running", "calling"}]
    BY <2>1, <2>2
  <2> QED
    BY <2>2, <2>3, <2>4
<1> QED
  BY <1>1, <1>2

\* A step of one thread, and of the channel about one thread, touches no other.
LEMMA Others ==
    ASSUME NEW frames, NEW maps, NEW results, Shape(frames, maps, results),
           NEW t \in Threads, NEW u \in Threads, u # t,
           \/ Client(t)
           \/ \E r \in requests : r.thread = t /\ Lose(r)
           \/ \E r \in requests : \E f : r.thread = t /\ Deliver(r, f)
    PROVE  Untouched(u)
<1> USE DEF Shape, Untouched
<1>1. CASE Client(t)
  <2>1. CASE Invoke(t) \/ Review(t) \/ RoundLimit(t) \/ Finish(t) \/ Abort(t)
    BY <2>1 DEF Invoke, Review, RoundLimit, Finish, Abort
  <2>2. CASE BeginCall(t) \/ ContinueCall(t)
    BY <2>2 DEF BeginCall, ContinueCall, CallTool
  <2>3. CASE BeginReturns(t) \/ ContinueReturns(t)
    BY <2>3 DEF BeginReturns, ContinueReturns, Received
  <2>4. CASE Resume(t)
    BY <2>4 DEF Resume
  <2> QED
    BY <1>1, <2>1, <2>2, <2>3, <2>4 DEF Client
<1>2. CASE \E r \in requests : r.thread = t /\ Lose(r)
  BY <1>2 DEF Lose
<1>3. CASE \E r \in requests : \E f : r.thread = t /\ Deliver(r, f)
  BY <1>3 DEF Deliver
<1> QED
  BY <1>1, <1>2, <1>3

\* A thread that nobody touched runs as before.
LEMMA UntouchedRuns ==
    ASSUME NEW t \in Threads, Runs(t), Untouched(t)
    PROVE  Runs(t)'
BY DEF Runs, Waits, Calls1, Untouched

\* A thread's own steps leave its calls in order.
LEMMA ClientRuns ==
    ASSUME NEW frames, NEW maps, NEW results, Shape(frames, maps, results),
           NEW t \in Threads, Runs(t), Client(t)
    PROVE  Runs(t)'
<1>1. /\ t \in DOMAIN ckpt /\ t \in DOMAIN run /\ t \in DOMAIN aborts
      /\ t \in DOMAIN inbox /\ aborts[t] \in Nat
      /\ \A r \in requests : r.attempt \in Nat
  BY DEF Shape
<1>2. ckpt[t] \in States(frames, maps, results) /\ DOMAIN ckpt = Threads
  BY DEF Shape
<1> USE DEF Runs, Waits, Calls1
<1>3. CASE Invoke(t) \/ RoundLimit(t)
  BY <1>1, <1>3 DEF Invoke, RoundLimit
<1>4. CASE Review(t)
  BY <1>1, <1>4 DEF Review
<1>5. ASSUME NEW tok, NEW answers, run[t] = "running",
             CallTool(t, tok, answers),
             \/ /\ ckpt[t].next = "begin"
                /\ tok = NoToken /\ answers = NoAnswers
             \/ /\ ckpt[t].next = "continue"
                /\ tok = ckpt[t].frame.token /\ answers = ckpt[t].answers
      PROVE  Runs(t)'
  <2> DEFINE new == [thread |-> t, attempt |-> aborts[t], token |-> tok,
                     answers |-> answers]
  <2>1. /\ requests' = requests \cup {new} /\ run'[t] = "calling"
        /\ ckpt' = ckpt /\ aborts' = aborts /\ inbox' = inbox
    BY <1>1, <1>5 DEF CallTool
  <2>2. \A r \in requests : r.thread = t => r.attempt # aborts[t]
    BY <1>5
  <2>3. inbox[t] = NoFrame
    BY <1>5
  <2>4. Waits(t)'
    BY <1>5, <2>1
  <2>5. /\ new.thread = t /\ new.attempt = aborts[t] /\ new.token = tok
        /\ new.answers = answers
    OBVIOUS
  <2>6. Calls1(t)'
    <3> HIDE DEF new
    <3> SUFFICES ASSUME NEW r \in requests', r.thread = t
                 PROVE  /\ r.attempt <= aborts[t]
                        /\ r.attempt = aborts[t] =>
                             /\ ckpt[t].next = "begin" =>
                                    r.token = NoToken /\ r.answers = NoAnswers
                             /\ ckpt[t].next = "continue" =>
                                    /\ r.token = ckpt[t].frame.token
                                    /\ r.answers = ckpt[t].answers
                             /\ \A s \in requests' :
                                    s.thread = t /\ s.attempt = aborts[t]
                                        => s = r
      BY <2>1, <2>3
    <3>1. CASE r = new
      BY <1>1, <1>5, <2>1, <2>2, <2>5, <3>1
    <3>2. CASE r # new
      BY <1>1, <2>1, <2>2, <3>2
    <3> QED
      BY <3>1, <3>2
  <2> QED
    BY <2>4, <2>6
<1>6. CASE BeginCall(t)
  BY <1>5, <1>6 DEF BeginCall
<1>7. CASE ContinueCall(t)
  BY <1>5, <1>7 DEF ContinueCall
<1>8. ASSUME NEW n, Received(t, n)
      PROVE  Runs(t)'
  <2>1. /\ run'[t] = "running" /\ inbox'[t] = NoFrame
        /\ requests' = requests /\ aborts' = aborts
    BY <1>1, <1>8 DEF Received
  <2>2. inbox[t] # NoFrame
    BY <1>8 DEF Received
  <2> QED
    BY <2>1, <2>2
<1>9. CASE BeginReturns(t) \/ ContinueReturns(t)
  BY <1>8, <1>9 DEF BeginReturns, ContinueReturns
<1>10. CASE Resume(t)
  <2>1. /\ run[t] = "stopped" /\ run'[t] = "running"
        /\ requests' = requests /\ aborts' = aborts /\ inbox' = inbox
    BY <1>1, <1>10 DEF Resume
  <2> QED
    BY <2>1
<1>11. CASE Finish(t)
  <2>1. /\ run[t] = "running" /\ run'[t] = "stopped"
        /\ requests' = requests /\ aborts' = aborts /\ inbox' = inbox
    BY <1>1, <1>11 DEF Finish
  <2> QED
    BY <2>1
<1>12. CASE Abort(t)
  <2>1. /\ run'[t] = "stopped" /\ aborts'[t] = aborts[t] + 1
        /\ inbox'[t] = NoFrame /\ requests' = requests
    BY <1>1, <1>12 DEF Abort
  <2> QED
    BY <1>1, <2>1
<1> QED
  BY <1>3, <1>4, <1>6, <1>7, <1>9, <1>10, <1>11, <1>12 DEF Client

\* So do a reply to one of its calls and the loss of one.
LEMMA ChannelRuns ==
    ASSUME NEW frames, NEW maps, NEW results, Shape(frames, maps, results),
           NEW r \in requests, Runs(r.thread),
           Lose(r) \/ \E f : f # NoFrame /\ Deliver(r, f)
    PROVE  Runs(r.thread)'
<1> DEFINE t == r.thread
<1>1. /\ t \in Threads /\ t \in DOMAIN run /\ t \in DOMAIN aborts
      /\ t \in DOMAIN inbox /\ aborts[t] \in Nat
      /\ \A s \in requests : s.attempt \in Nat
  BY DEF Shape
<1> HIDE DEF t
<1>2. r.thread = t /\ Runs(t)
  BY DEF t
<1> SUFFICES Runs(t)'
  BY <1>2
<1> USE DEF Runs, Waits, Calls1
<1>3. CASE Lose(r)
  <2>1. requests' = requests \ {r} /\ ckpt' = ckpt /\ inbox' = inbox
    BY <1>3 DEF Lose
  <2>2. CASE Awaited(r)
    <3>1. aborts'[t] = aborts[t] + 1 /\ run'[t] = "stopped"
      BY <1>1, <1>2, <1>3, <2>2 DEF Lose
    <3>2. inbox[t] = NoFrame
      BY <1>2, <2>2 DEF Awaited
    <3> QED
      BY <1>1, <1>2, <2>1, <3>1, <3>2
  <2>3. CASE ~ Awaited(r)
    <3>1. aborts' = aborts /\ run' = run
      BY <1>3, <2>3 DEF Lose
    <3> QED
      BY <1>2, <2>1, <3>1
  <2> QED
    BY <2>2, <2>3
<1>4. ASSUME NEW f, f # NoFrame, Deliver(r, f)
      PROVE  Runs(t)'
  <2>1. /\ requests' = requests \ {r} /\ ckpt' = ckpt
        /\ aborts' = aborts /\ run' = run
    BY <1>4 DEF Deliver
  <2>2. CASE Awaited(r)
    <3>1. /\ inbox'[t] = f /\ run[t] = "calling" /\ r.attempt = aborts[t]
      BY <1>1, <1>2, <1>4, <2>2 DEF Deliver, Awaited
    <3>2. \A s \in requests' : s.thread = t => s.attempt # aborts[t]
      BY <1>2, <2>1, <3>1
    <3> QED
      BY <1>2, <2>1, <3>1, <3>2
  <2>3. CASE ~ Awaited(r)
    <3>1. inbox' = inbox
      BY <1>4, <2>3 DEF Deliver
    <3> QED
      BY <1>2, <2>1, <3>1
  <2> QED
    BY <2>2, <2>3
<1> QED
  BY <1>3, <1>4
\* What a step does to the thread that makes it, or that it is about.  A lost
\* call takes a request away, as does a reply, and nothing else does.
Rests(t) ==
    /\ ckpt'[t] = ckpt[t] /\ shown'[t] = shown[t]
    /\ consent'[t] = consent[t] /\ aborts'[t] = aborts[t]
    /\ inbox'[t] = inbox[t] /\ requests' \subseteq requests
Calls(t) ==
    /\ ckpt'[t] = ckpt[t] /\ shown'[t] = shown[t]
    /\ consent'[t] = consent[t] /\ aborts'[t] = aborts[t]
    /\ inbox'[t] = inbox[t] /\ inbox[t] = NoFrame
    /\ \E tok, answers :
           /\ requests' = requests \cup
                  {[thread |-> t, attempt |-> aborts[t], token |-> tok,
                    answers |-> answers]}
           /\ \/ /\ ckpt[t].next = "begin"
                 /\ tok = NoToken /\ answers = NoAnswers
              \/ /\ ckpt[t].next = "continue"
                 /\ tok = ckpt[t].frame.token /\ answers = ckpt[t].answers
Receives(t) ==
    /\ inbox[t] # NoFrame /\ inbox'[t] = NoFrame /\ requests' = requests
    /\ \E n : /\ \/ ckpt[t].next = "begin" /\ n = 1
                 \/ ckpt[t].next = "continue" /\ n = ckpt[t].roundIndex + 1
              /\ ckpt'[t] = [ckpt[t] EXCEPT
                     !.frame = inbox[t], !.answers = NoAnswers,
                     !.roundIndex = n, !.status = "received",
                     !.next = IF inbox[t].kind = "input" THEN "review"
                              ELSE "finish"]
    /\ shown'[t] = shown[t] /\ consent'[t] = consent[t]
    /\ aborts'[t] = aborts[t]
Shows(t) ==
    /\ ckpt[t].next = "review" /\ shown'[t] = ckpt[t].frame.form
    /\ WithinLimit(t) /\ ckpt'[t] = ckpt[t] /\ consent'[t] = consent[t]
    /\ aborts'[t] = aborts[t] /\ inbox'[t] = inbox[t]
    /\ requests' = requests
Consents(t) ==
    /\ ckpt[t].next = "review" /\ shown[t] # NoForm /\ WithinLimit(t)
    /\ \E answers \in Resumes :
           /\ \/ shown[t] = ckpt[t].frame.form
              \/ BlindResume /\ DOMAIN answers = shown[t].keys
           /\ ValidAnswers(ckpt[t].frame.form.keys, answers)
           /\ ckpt'[t] = [ckpt[t] EXCEPT !.answers = answers,
                              !.status = "answered", !.next = "continue"]
           /\ consent'[t] = [form |-> shown[t], frame |-> ckpt[t].frame,
                             answers |-> answers]
    /\ shown'[t] = shown[t] /\ aborts'[t] = aborts[t]
    /\ inbox'[t] = inbox[t] /\ inbox[t] = NoFrame /\ requests' = requests
Finishes(t) ==
    /\ ckpt[t].next = "finish"
    /\ ckpt'[t] = [ckpt[t] EXCEPT
           !.result = ckpt[t].frame.result,
           !.status = IF ckpt[t].frame.result.isError THEN "tool_error"
                      ELSE "completed",
           !.next = "end"]
    /\ shown'[t] = shown[t] /\ consent'[t] = consent[t]
    /\ aborts'[t] = aborts[t] /\ inbox'[t] = inbox[t]
    /\ inbox[t] = NoFrame /\ requests' = requests
Dies(t) ==
    /\ ckpt'[t] = ckpt[t] /\ shown'[t] = shown[t]
    /\ consent'[t] = consent[t] /\ aborts'[t] = aborts[t] + 1
    /\ inbox'[t] = NoFrame /\ requests' \subseteq requests
Gets(t, f) ==
    /\ ckpt'[t] = ckpt[t] /\ shown'[t] = shown[t]
    /\ consent'[t] = consent[t] /\ aborts'[t] = aborts[t]
    /\ inbox[t] = NoFrame /\ inbox'[t] = f /\ requests' \subseteq requests

\* Every step of the client is one of these.
LEMMA ClientMoves ==
    ASSUME NEW frames, NEW maps, NEW results, Shape(frames, maps, results),
           NEW t \in Threads, Runs(t), Client(t)
    PROVE  \/ Rests(t) \/ Calls(t) \/ Receives(t) \/ Shows(t) \/ Consents(t)
           \/ Finishes(t) \/ Dies(t)
<1>1. /\ DOMAIN ckpt = Threads /\ DOMAIN run = Threads
      /\ DOMAIN aborts = Threads /\ DOMAIN inbox = Threads
      /\ DOMAIN shown = Threads /\ DOMAIN consent = Threads
  BY DEF Shape
<1>2. ckpt[t] \in States(frames, maps, results)
  BY DEF Shape
<1>3. inbox[t] # NoFrame => run[t] = "calling"
  BY DEF Runs, Waits
<1>4. CASE Invoke(t) \/ RoundLimit(t)
  BY <1>1, <1>4 DEF Invoke, RoundLimit, Rests
<1>5. CASE BeginCall(t) \/ ContinueCall(t)
  BY <1>1, <1>3, <1>5 DEF BeginCall, ContinueCall, CallTool, Calls
<1>6. ASSUME NEW n, Received(t, n),
             \/ ckpt[t].next = "begin" /\ n = 1
             \/ ckpt[t].next = "continue" /\ n = ckpt[t].roundIndex + 1
      PROVE  Receives(t)
  <2>1. ckpt'[t] = [ckpt[t] EXCEPT
                     !.frame = inbox[t], !.answers = NoAnswers,
                     !.roundIndex = n, !.status = "received",
                     !.next = IF inbox[t].kind = "input" THEN "review"
                              ELSE "finish"]
    <3>1. ckpt' = [ckpt EXCEPT ![t] = [ckpt[t] EXCEPT
                     !.frame = inbox[t], !.answers = NoAnswers,
                     !.roundIndex = n, !.status = "received",
                     !.next = IF inbox[t].kind = "input" THEN "review"
                              ELSE "finish"]]
      BY <1>6, Zenon DEF Received
    <3> QED
      BY <1>1, <3>1, Zenon
  <2>2. /\ inbox[t] # NoFrame /\ inbox'[t] = NoFrame
        /\ requests' = requests /\ shown' = shown /\ consent' = consent
        /\ aborts' = aborts
    BY <1>1, <1>6 DEF Received
  <2> QED
    BY <1>6, <2>1, <2>2, Zenon DEF Receives
<1>7. CASE BeginReturns(t) \/ ContinueReturns(t)
  BY <1>6, <1>7 DEF BeginReturns, ContinueReturns
<1>8. CASE Review(t)
  BY <1>1, <1>8 DEF Review, Shows
<1>9. CASE Resume(t)
  <2>1. /\ run[t] = "stopped" /\ ckpt[t].next = "review"
        /\ shown[t] # NoForm /\ WithinLimit(t)
        /\ UNCHANGED <<shown, aborts, requests, inbox>>
    BY <1>9, Zenon DEF Resume
  <2>2. PICK answers \in Resumes :
           /\ \/ shown[t] = ckpt[t].frame.form
              \/ BlindResume /\ DOMAIN answers = shown[t].keys
           /\ ValidAnswers(ckpt[t].frame.form.keys, answers)
           /\ ckpt' = [ckpt EXCEPT ![t].answers = answers,
                                   ![t].status = "answered",
                                   ![t].next = "continue"]
           /\ consent' = [consent EXCEPT ![t] =
                  [form |-> shown[t], frame |-> ckpt[t].frame,
                   answers |-> answers]]
    BY <1>9, Zenon DEF Resume
  <2>3. ckpt'[t] = [ckpt[t] EXCEPT !.answers = answers,
                        !.status = "answered", !.next = "continue"]
    BY <1>1, <1>2, <2>2 DEF States
  <2>4. consent'[t] = [form |-> shown[t], frame |-> ckpt[t].frame,
                       answers |-> answers]
    BY <1>1, <2>2
  <2>5. inbox[t] = NoFrame
    BY <1>3, <2>1
  <2> QED
    BY <2>1, <2>2, <2>3, <2>4, <2>5, Zenon DEF Consents
<1>10. CASE Finish(t)
  <2>1. ckpt'[t] = [ckpt[t] EXCEPT
           !.result = ckpt[t].frame.result,
           !.status = IF ckpt[t].frame.result.isError THEN "tool_error"
                      ELSE "completed",
           !.next = "end"]
    BY <1>1, <1>2, <1>10 DEF Finish, States
  <2>2. /\ ckpt[t].next = "finish" /\ run[t] = "running"
        /\ UNCHANGED <<shown, consent, aborts, requests, inbox>>
    BY <1>10 DEF Finish
  <2> QED
    BY <1>3, <2>1, <2>2 DEF Finishes
<1>11. CASE Abort(t)
  BY <1>1, <1>11 DEF Abort, Dies
<1> QED
  BY <1>4, <1>5, <1>7, <1>8, <1>9, <1>10, <1>11 DEF Client

\* And a lost call, for the thread that sent it.
LEMMA LoseMoves ==
    ASSUME NEW frames, NEW maps, NEW results, Shape(frames, maps, results),
           NEW r \in requests, Lose(r)
    PROVE  Rests(r.thread) \/ Dies(r.thread)
<1>1. r.thread \in Threads /\ DOMAIN aborts = Threads
  BY DEF Shape
<1>2. /\ requests' \subseteq requests /\ ckpt' = ckpt /\ shown' = shown
      /\ consent' = consent /\ inbox' = inbox
  BY DEF Lose
<1>3. CASE Awaited(r)
  <2>1. inbox[r.thread] = NoFrame
    BY <1>3 DEF Awaited
  <2>2. aborts'[r.thread] = aborts[r.thread] + 1
    BY <1>1, <1>3 DEF Lose
  <2> QED
    BY <1>2, <2>1, <2>2 DEF Dies
<1>4. CASE ~ Awaited(r)
  <2>1. aborts' = aborts
    BY <1>4 DEF Lose
  <2> QED
    BY <1>2, <2>1 DEF Rests
<1> QED
  BY <1>3, <1>4

\* And a reply.
LEMMA ReplyMoves ==
    ASSUME NEW frames, NEW maps, NEW results, Shape(frames, maps, results),
           NEW r \in requests, NEW f, Deliver(r, f)
    PROVE  /\ ~ Awaited(r) => Rests(r.thread)
           /\ Awaited(r) => Gets(r.thread, f)
           /\ requests' = requests \ {r}
<1>1. r.thread \in Threads /\ DOMAIN inbox = Threads
  BY DEF Shape
<1>2. /\ requests' = requests \ {r} /\ ckpt' = ckpt /\ shown' = shown
      /\ consent' = consent /\ aborts' = aborts
  BY DEF Deliver
<1>3. CASE Awaited(r)
  <2>1. inbox[r.thread] = NoFrame
    BY <1>3 DEF Awaited
  <2>2. inbox'[r.thread] = f
    BY <1>1, <1>3 DEF Deliver
  <2> QED
    BY <1>2, <1>3, <2>1, <2>2 DEF Gets
<1>4. CASE ~ Awaited(r)
  <2>1. inbox' = inbox
    BY <1>4 DEF Deliver
  <2> QED
    BY <1>2, <1>4, <2>1 DEF Rests
<1> QED
  BY <1>3, <1>4

\* The call that a process awaits carries what the pending node calls with.
LEMMA CurrentCall ==
    ASSUME NEW r \in requests, Awaited(r), Runs(r.thread)
    PROVE  /\ ckpt[r.thread].next \in {"begin", "continue"}
           /\ ckpt[r.thread].next = "begin" =>
                  r.token = NoToken /\ r.answers = NoAnswers
           /\ ckpt[r.thread].next = "continue" =>
                  /\ r.token = ckpt[r.thread].frame.token
                  /\ r.answers = ckpt[r.thread].answers
BY DEF Awaited, Runs, Waits, Calls1

-----------------------------------------------------------------------------
(* Part 2: StdioRestart.                                                   *)

\* The frames its server sends, and the results they carry.
StdioResults ==
    [isError : BOOLEAN,
     text : {"UNKNOWN_ROUND", "ROUND_ALREADY_CLOSED", "INVALID", "previewed",
             "skipped"},
     subject : Nat \cup {None}]
StdioFrames ==
    {NoFrame} \cup {TerminalFrame(result) : result \in StdioResults}
    \cup {InputFrame(tok, Form(id)) : tok \in Tokens, id \in Nat \ {0}}
StdioShape == Shape(StdioFrames, AnswerMaps, StdioResults \cup {None})

\* The frames thread t has: of the reply it received, of its checkpoint, and of
\* the answer it stored.
Has(t) == {inbox[t], ckpt[t].frame, consent[t].frame}
Asking(t) == {f \in Has(t) : f.kind = "input"}

\* The clauses of EndsAreExplained, for any result of thread t.
Explained(t, result) ==
    LET text == result.text
        closes == Closes(consent[t].answers)
    IN  /\ text = "ROUND_ALREADY_CLOSED" => closes /\ aborts[t] > 0
        /\ text = "UNKNOWN_ROUND" => stores > 1
        /\ text = "INVALID" => ~ closes
        /\ text \in {"previewed", "skipped"} =>
               closes /\ (consent[t].answers[KEY].action = "accept"
                          <=> text = "previewed")

\* Before and after the answer: one thread at each node.
Asks(t) ==
    /\ ckpt[t].next = "begin" =>
           /\ ckpt[t].frame = NoFrame /\ shown[t] = NoForm
           /\ consent[t] = NoConsent /\ inbox[t].kind # "terminal"
    /\ ckpt[t].next = "review" =>
           /\ ckpt[t].frame.kind = "input" /\ consent[t] = NoConsent
           /\ shown[t] \in {NoForm, ckpt[t].frame.form}
    /\ ckpt[t].next = "continue" =>
           /\ ckpt[t].frame.kind = "input"
           /\ consent[t] = [form |-> ckpt[t].frame.form,
                            frame |-> ckpt[t].frame,
                            answers |-> ckpt[t].answers]
           /\ inbox[t].kind # "input"
           /\ inbox[t].kind = "terminal" => Explained(t, inbox[t].result)
Ends(t) ==
    /\ ckpt[t].next \in {"finish", "end"} =>
           /\ ckpt[t].frame.kind = "terminal"
           /\ consent[t].frame.kind = "input"
           /\ consent[t].form = consent[t].frame.form
    /\ ckpt[t].next = "finish" => Explained(t, ckpt[t].frame.result)
    /\ ckpt[t].next = "end" => Explained(t, ckpt[t].result)
Sends(t) ==
    \A r \in requests : r.thread = t /\ r.token # NoToken =>
        /\ consent[t].frame.kind = "input"
        /\ r.token = consent[t].frame.token
        /\ r.answers = consent[t].answers
StdioThread(t) == Runs(t) /\ Asks(t) /\ Ends(t) /\ Sends(t)

\* The server's tables.
Store ==
    /\ rounds \in Seq([token : Tokens,
                       status : {"pending", "accept", "decline", "cancel"}])
    /\ used \subseteq Tokens /\ stores \in Nat \ {0}
    /\ replayed \in [Threads -> Tokens \cup {NoToken}]
    /\ \A i \in DOMAIN rounds : rounds[i].token \in used
    /\ \A i, j \in DOMAIN rounds : rounds[i].token = rounds[j].token => i = j
    /\ \A t \in Threads : replayed[t] # NoToken => replayed[t] \in used

\* The answer of thread t has closed its round, and if nothing cut t short since
\* then t has the reply.
Settled(t) ==
    /\ consent[t].frame.kind = "input" /\ Closes(consent[t].answers)
    /\ aborts[t] = 0 /\ ckpt[t].next = "continue" => inbox[t] # NoFrame

\* The round a thread was asked is its own, and is what the table says.
Owns(t) ==
    \A f \in Asking(t) :
        /\ f.token \in used
        /\ \A u \in Threads : replayed[u] # f.token
        /\ \A u \in Threads \ {t} : \A g \in Asking(u) : g.token # f.token
        /\ \A i \in DOMAIN rounds : rounds[i].token = f.token =>
               /\ f.form.subject = i
               /\ rounds[i].status # "pending" => Settled(t)
        /\ stores = 1 => \E i \in DOMAIN rounds : rounds[i].token = f.token

\* A label is of the answer of a thread, or of a round put in its place.
Labelled(e) ==
    /\ e.token \in Tokens
    /\ \/ \E t \in Threads : replayed[t] = e.token
       \/ \E t \in Threads :
              /\ consent[t].frame.kind = "input"
              /\ consent[t].frame.token = e.token
              /\ consent[t].form.subject = e.subject
              /\ consent[t].answers[KEY].action = "accept"

StdioInv ==
    /\ Store
    /\ \A t \in Threads : StdioThread(t) /\ Owns(t)
    /\ \A e \in effects : Labelled(e)

\* What a step of thread t leaves of what its round and its labels rest on.
Keeps(t) ==
    /\ Asking(t)' \subseteq Asking(t)
    /\ Settled(t) => Settled(t)'
    /\ consent[t].frame.kind = "input" => consent'[t] = consent[t]

LEMMA StdioShapes == Shapes(StdioFrames, AnswerMaps, StdioResults \cup {None})
<1>1. NoAnswers \in AnswerMaps
  BY DEF AnswerMaps
<1>2. Resumes \subseteq AnswerMaps
  BY StdioAssumption
<1>3. ASSUME NEW f \in StdioFrames
      PROVE  f.result \in StdioResults \cup {None}
  BY DEF StdioFrames, NoFrame, TerminalFrame, InputFrame
<1>4. NoFrame \in StdioFrames
  BY DEF StdioFrames
<1> QED
  BY <1>1, <1>2, <1>3, <1>4, Zenon DEF Shapes

\* The three kinds of frames.
LEMMA StdioKinds ==
    ASSUME NEW f \in StdioFrames
    PROVE  /\ f.kind \in {"none", "input", "terminal"}
           /\ f.kind = "none" <=> f = NoFrame
           /\ f.kind = "input" => f.token \in Tokens /\ f.form # NoForm
           /\ f.kind # "input" => f.token = NoToken
<1>1. CASE f = NoFrame
  BY <1>1 DEF NoFrame
<1>2. CASE \E result \in StdioResults : f = TerminalFrame(result)
  BY <1>2 DEF NoFrame, TerminalFrame
<1>3. CASE \E tok \in Tokens, id \in Nat \ {0} : f = InputFrame(tok, Form(id))
  <2>1. PICK tok \in Tokens, id \in Nat \ {0} : f = InputFrame(tok, Form(id))
    BY <1>3
  <2>2. f.kind = "input" /\ f.token = tok /\ f.form = Form(id)
    BY <2>1 DEF InputFrame
  <2>3. Form(id).keys # NoForm.keys
    BY DEF Form, NoForm
  <2> QED
    BY <2>2, <2>3 DEF NoFrame
<1> QED
  BY <1>1, <1>2, <1>3 DEF StdioFrames

\* Nothing about a thread that nobody touched is lost with a store.
LEMMA StdioUntouched ==
    ASSUME NEW t \in Threads, StdioThread(t), Untouched(t),
           stores \in Nat, stores' \in Nat, stores' >= stores
    PROVE  StdioThread(t)' /\ Keeps(t)
<1>1. Runs(t)'
  BY UntouchedRuns DEF StdioThread
<1>2. /\ ckpt'[t] = ckpt[t] /\ shown'[t] = shown[t] /\ inbox'[t] = inbox[t]
      /\ consent'[t] = consent[t] /\ aborts'[t] = aborts[t]
      /\ \A r : r.thread = t => (r \in requests' <=> r \in requests)
  BY DEF Untouched
<1>3. \A result : Explained(t, result) => Explained(t, result)'
  BY <1>2 DEF Explained, Closes
<1>4. Asks(t)'
  BY <1>2, <1>3 DEF Asks, StdioThread
<1>5. Ends(t)'
  BY <1>2, <1>3 DEF Ends, StdioThread
<1>6. Sends(t)'
  BY <1>2 DEF Sends, StdioThread
<1>7. Keeps(t)
  BY <1>2 DEF Keeps, Asking, Has, Settled, Closes
<1> QED
  BY <1>1, <1>4, <1>5, <1>6, <1>7 DEF StdioThread
\* A thread that moves: by itself, or because a call of it was lost.
LEMMA StdioMoves ==
    ASSUME NEW t \in Threads, StdioShape, StdioThread(t), Runs(t)',
           stores' = stores, stores \in Nat,
           \/ Rests(t) \/ Calls(t) \/ Receives(t) \/ Shows(t) \/ Consents(t)
           \/ Finishes(t) \/ Dies(t)
    PROVE  StdioThread(t)' /\ Keeps(t)
<1> DEFINE c == ckpt[t]
<1>1. /\ c \in States(StdioFrames, AnswerMaps, StdioResults \cup {None})
      /\ inbox[t] \in StdioFrames /\ consent[t].frame \in StdioFrames
      /\ aborts[t] \in Nat /\ \A r \in requests : r.thread \in Threads
  BY DEF StdioShape, Shape
<1>2. c.frame \in StdioFrames /\ c.answers \in AnswerMaps
  BY <1>1 DEF States
<1>3. /\ \A f \in {inbox[t], c.frame, consent[t].frame} :
             /\ f.kind \in {"none", "input", "terminal"}
             /\ f.kind = "none" <=> f = NoFrame
             /\ f.kind = "input" => f.token \in Tokens /\ f.form # NoForm
             /\ f.kind # "input" => f.token = NoToken
  BY <1>1, <1>2, StdioKinds
<1>4. c.next \in {"begin", "review", "continue", "finish", "end"}
  BY <1>1 DEF States
<1>5. Asks(t) /\ Ends(t) /\ Sends(t) /\ Waits(t)
  BY DEF StdioThread, Runs
<1>6. NoConsent.frame = NoFrame /\ NoFrame.kind = "none"
  BY DEF NoConsent, NoFrame
<1>7. SUFFICES Asks(t)' /\ Ends(t)' /\ Sends(t)' /\ Keeps(t)
  BY DEF StdioThread
<1>8. ASSUME ckpt'[t] = c, shown'[t] = shown[t], consent'[t] = consent[t],
             aborts'[t] >= aborts[t], aborts'[t] \in Nat,
             \/ inbox'[t] = inbox[t]
             \/ inbox'[t] = NoFrame /\ aborts'[t] # 0
      PROVE  Asks(t)' /\ Ends(t)' /\ Keeps(t)
  <2>1. \A result : Explained(t, result) => Explained(t, result)'
    BY <1>1, <1>8 DEF Explained, Closes
  <2>2. Asks(t)'
    BY <1>5, <1>6, <1>8, <2>1 DEF Asks
  <2>3. Ends(t)'
    BY <1>5, <1>8, <2>1 DEF Ends
  <2>4. Asking(t)' \subseteq Asking(t)
    BY <1>6, <1>8 DEF Asking, Has
  <2>5. Settled(t) => Settled(t)'
    BY <1>1, <1>8 DEF Settled, Closes
  <2> QED
    BY <1>8, <2>2, <2>3, <2>4, <2>5 DEF Keeps
<1>9. ASSUME requests' \subseteq requests, consent'[t] = consent[t]
      PROVE  Sends(t)'
  BY <1>5, <1>9 DEF Sends
<1>10. CASE Rests(t)
  BY <1>1, <1>8, <1>9, <1>10 DEF Rests
<1>11. CASE Dies(t)
  BY <1>1, <1>8, <1>9, <1>11 DEF Dies
<1>12. CASE Calls(t)
  <2>1. PICK tok, answers :
           /\ requests' = requests \cup
                  {[thread |-> t, attempt |-> aborts[t], token |-> tok,
                    answers |-> answers]}
           /\ \/ /\ ckpt[t].next = "begin"
                 /\ tok = NoToken /\ answers = NoAnswers
              \/ /\ ckpt[t].next = "continue"
                 /\ tok = ckpt[t].frame.token /\ answers = ckpt[t].answers
    BY <1>12, Zenon DEF Calls
  <2>2. consent'[t] = consent[t]
    BY <1>12 DEF Calls
  <2>3. tok # NoToken => /\ consent[t].frame.kind = "input"
                         /\ tok = consent[t].frame.token
                         /\ answers = consent[t].answers
    BY <1>5, <2>1 DEF Asks
  <2>4. Sends(t)'
    BY <1>5, <2>1, <2>2, <2>3 DEF Sends
  <2> QED
    BY <1>1, <1>8, <1>12, <2>4 DEF Calls
<1>13. CASE Receives(t)
  <2>1. PICK n : ckpt'[t] = [c EXCEPT
                     !.frame = inbox[t], !.answers = NoAnswers,
                     !.roundIndex = n, !.status = "received",
                     !.next = IF inbox[t].kind = "input" THEN "review"
                              ELSE "finish"]
    BY <1>13, Zenon DEF Receives
  <2>2. /\ inbox[t] # NoFrame /\ inbox'[t] = NoFrame /\ requests' = requests
        /\ shown'[t] = shown[t] /\ consent'[t] = consent[t]
        /\ aborts'[t] = aborts[t] /\ c.next \in {"begin", "continue"}
    BY <1>13, Zenon DEF Receives
  <2>3. /\ ckpt'[t].frame = inbox[t] /\ ckpt'[t].answers = NoAnswers
        /\ inbox[t].kind = "input" => ckpt'[t].next = "review"
        /\ inbox[t].kind # "input" => ckpt'[t].next = "finish"
    BY <1>1, <2>1 DEF States
  <2>4. /\ c.next = "begin" => inbox[t].kind = "input"
        /\ c.next = "continue" => inbox[t].kind = "terminal"
    BY <1>3, <1>5, <2>2 DEF Asks
  <2>5. \A result : Explained(t, result) => Explained(t, result)'
    BY <2>2 DEF Explained, Closes
  <2>6. Asks(t)'
    BY <1>5, <2>2, <2>3, <2>4 DEF Asks
  <2>7. c.next = "continue" =>
            /\ consent[t].frame.kind = "input"
            /\ consent[t].form = consent[t].frame.form
            /\ Explained(t, inbox[t].result)
    BY <1>5, <2>4 DEF Asks
  <2>8. Ends(t)'
    BY <2>2, <2>3, <2>4, <2>5, <2>7 DEF Ends
  <2>9. Asking(t)' \subseteq Asking(t)
    BY <1>6, <2>2, <2>3 DEF Asking, Has
  <2>10. Settled(t) => Settled(t)'
    BY <2>2, <2>3, <2>4 DEF Settled, Closes
  <2> QED
    BY <1>9, <2>2, <2>6, <2>8, <2>9, <2>10 DEF Keeps
<1>14. CASE Shows(t)
  <2>1. /\ ckpt'[t] = ckpt[t] /\ consent'[t] = consent[t]
        /\ aborts'[t] = aborts[t] /\ inbox'[t] = inbox[t]
        /\ requests' = requests /\ c.next = "review"
        /\ shown'[t] = c.frame.form
    BY <1>14 DEF Shows
  <2>2. Asks(t)'
    BY <1>5, <2>1 DEF Asks
  <2>3. Ends(t)'
    BY <2>1 DEF Ends
  <2>4. Keeps(t)
    BY <2>1 DEF Keeps, Asking, Has, Settled, Closes
  <2> QED
    BY <1>9, <2>1, <2>2, <2>3, <2>4
<1>15. CASE Consents(t)
  <2>1. PICK answers \in Resumes :
           /\ ckpt'[t] = [c EXCEPT !.answers = answers,
                              !.status = "answered", !.next = "continue"]
           /\ consent'[t] = [form |-> shown[t], frame |-> ckpt[t].frame,
                             answers |-> answers]
    BY <1>15, Zenon DEF Consents
  <2>2. /\ shown'[t] = shown[t] /\ aborts'[t] = aborts[t]
        /\ inbox'[t] = inbox[t] /\ requests' = requests
        /\ c.next = "review" /\ shown[t] # NoForm /\ inbox[t] = NoFrame
    BY <1>15 DEF Consents
  <2>3. /\ ckpt'[t].frame = c.frame /\ ckpt'[t].answers = answers
        /\ ckpt'[t].next = "continue"
    BY <1>1, <2>1 DEF States
  <2>4. /\ c.frame.kind = "input" /\ consent[t] = NoConsent
        /\ shown[t] = c.frame.form
    BY <1>5, <2>2 DEF Asks
  <2>5. consent'[t].form = c.frame.form /\ consent'[t].frame = c.frame
    BY <2>1, <2>4
  <2>6. Asks(t)'
    BY <1>6, <2>1, <2>2, <2>3, <2>4 DEF Asks
  <2>7. Ends(t)'
    BY <2>3 DEF Ends
  <2>8. Sends(t)'
    BY <1>5, <1>6, <2>2, <2>4 DEF Sends
  <2>9. Keeps(t)
    BY <1>6, <2>2, <2>3, <2>4, <2>5 DEF Keeps, Asking, Has, Settled
  <2> QED
    BY <2>6, <2>7, <2>8, <2>9
<1>16. CASE Finishes(t)
  <2>1. PICK status : ckpt'[t] = [c EXCEPT !.result = c.frame.result,
                                           !.status = status, !.next = "end"]
    BY <1>16, Zenon DEF Finishes
  <2>2. /\ c.next = "finish" /\ shown'[t] = shown[t]
        /\ consent'[t] = consent[t] /\ aborts'[t] = aborts[t]
        /\ inbox'[t] = inbox[t] /\ requests' = requests
    BY <1>16 DEF Finishes
  <2>3. /\ ckpt'[t].frame = c.frame /\ ckpt'[t].result = c.frame.result
        /\ ckpt'[t].next = "end"
    BY <1>1, <2>1 DEF States
  <2>4. \A result : Explained(t, result) => Explained(t, result)'
    BY <2>2 DEF Explained, Closes
  <2>5. Ends(t)'
    BY <1>5, <2>2, <2>3, <2>4 DEF Ends
  <2>6. Asks(t)'
    BY <2>3 DEF Asks
  <2>7. Keeps(t)
    BY <2>2, <2>3 DEF Keeps, Asking, Has, Settled, Closes
  <2> QED
    BY <1>9, <2>2, <2>5, <2>6, <2>7
<1> QED
  BY <1>10, <1>11, <1>12, <1>13, <1>14, <1>15, <1>16
\* A step that leaves the store as it is.
LEMMA StdioKept ==
    ASSUME Store, \A t \in Threads : Owns(t), \A e \in effects : Labelled(e),
           UNCHANGED storeVars, \A t \in Threads : Keeps(t)
    PROVE  /\ Store' /\ \A t \in Threads : Owns(t)'
           /\ \A e \in effects' : Labelled(e)'
<1>1. /\ rounds' = rounds /\ effects' = effects /\ used' = used
      /\ stores' = stores /\ replayed' = replayed
  BY DEF storeVars
<1>2. Store'
  BY <1>1 DEF Store
<1>3. ASSUME NEW t \in Threads
      PROVE  Owns(t)'
  <2>1. \A u \in Threads : Asking(u)' \subseteq Asking(u)
    BY DEF Keeps
  <2>2. Settled(t) => Settled(t)'
    BY DEF Keeps
  <2> QED
    BY <1>1, <2>1, <2>2 DEF Owns
<1>4. ASSUME NEW e \in effects'
      PROVE  Labelled(e)'
  BY <1>1, <1>4 DEF Keeps, Labelled
<1> QED
  BY <1>2, <1>3, <1>4

\* Any step of a client, and any loss.
LEMMA StdioClient ==
    ASSUME StdioShape, StdioInv, UNCHANGED storeVars,
           \/ \E t \in Threads : Client(t)
           \/ \E r \in requests : Lose(r)
    PROVE  StdioShape' /\ StdioInv'
<1>1. /\ Store /\ \A t \in Threads : StdioThread(t) /\ Owns(t)
      /\ \A e \in effects : Labelled(e)
  BY DEF StdioInv
<1>2. stores \in Nat /\ stores' = stores
  BY <1>1 DEF Store, storeVars
<1>3. ASSUME NEW t \in Threads,
             Client(t) \/ \E r \in requests : r.thread = t /\ Lose(r)
      PROVE  StdioShape' /\ StdioInv'
  <2>1. StdioShape'
    BY <1>3, StdioShapes, ClientShape, ChannelShape DEF StdioShape
  <2>2. Runs(t)
    BY <1>1 DEF StdioThread
  <2>3. Runs(t)'
    BY <1>3, <2>2, ClientRuns, ChannelRuns DEF StdioShape
  <2>4. \/ Rests(t) \/ Calls(t) \/ Receives(t) \/ Shows(t) \/ Consents(t)
        \/ Finishes(t) \/ Dies(t)
    BY <1>3, <2>2, ClientMoves, LoseMoves DEF StdioShape
  <2>5. StdioThread(t)' /\ Keeps(t)
    BY <1>1, <1>2, <2>3, <2>4, StdioMoves
  <2>6. ASSUME NEW u \in Threads, u # t
        PROVE  StdioThread(u)' /\ Keeps(u)
    <3>1. Untouched(u)
      BY <1>3, <2>6, Others DEF StdioShape
    <3> QED
      BY <1>1, <1>2, <3>1, StdioUntouched
  <2>7. \A u \in Threads : StdioThread(u)' /\ Keeps(u)
    BY <2>5, <2>6
  <2> QED
    BY <1>1, <2>1, <2>7, StdioKept DEF StdioInv
<1>4. \A r \in requests : r.thread \in Threads
  BY DEF StdioShape, Shape
<1> QED
  BY <1>3, <1>4

\* A new row is the last one, and nobody has its token.
LEMMA StdioRows ==
    ASSUME Store, NEW tok \in Tokens, Issue(tok)
    PROVE  /\ tok \notin used /\ used' = used \cup {tok} /\ used' \subseteq Tokens
           /\ rounds' \in Seq([token : Tokens, status : {"pending", "accept",
                                                "decline", "cancel"}])
           /\ DOMAIN rounds' = DOMAIN rounds \cup {Len(rounds) + 1}
           /\ Len(rounds) + 1 \notin DOMAIN rounds
           /\ \A i \in DOMAIN rounds : rounds'[i] = rounds[i]
           /\ rounds'[Len(rounds) + 1] = [token |-> tok, status |-> "pending"]
           /\ \A i \in DOMAIN rounds' : rounds'[i].token \in used'
           /\ \A i, j \in DOMAIN rounds' :
                  rounds'[i].token = rounds'[j].token => i = j
           /\ effects' = effects /\ stores' = stores
<1> DEFINE RowSet == [token : Tokens,
                   status : {"pending", "accept", "decline", "cancel"}]
           new == [token |-> tok, status |-> "pending"]
<1>1. /\ tok \notin used /\ used' = used \cup {tok}
      /\ rounds' = Append(rounds, new) /\ effects' = effects
      /\ stores' = stores
  BY DEF Issue
<1>2. rounds \in Seq(RowSet) /\ used \subseteq Tokens
      /\ (\A i \in DOMAIN rounds : rounds[i].token \in used)
      /\ \A i, j \in DOMAIN rounds : rounds[i].token = rounds[j].token => i = j
  BY DEF Store
<1>3. new \in RowSet /\ new.token = tok
  OBVIOUS
<1> HIDE DEF RowSet, new
<1>4. /\ rounds' \in Seq(RowSet) /\ DOMAIN rounds = 1 .. Len(rounds)
      /\ DOMAIN rounds' = 1 .. Len(rounds) + 1 /\ Len(rounds) \in Nat
      /\ \A i \in 1 .. Len(rounds) : rounds'[i] = rounds[i]
      /\ rounds'[Len(rounds) + 1] = new
  BY <1>1, <1>2, <1>3
<1>5. /\ DOMAIN rounds' = DOMAIN rounds \cup {Len(rounds) + 1}
      /\ Len(rounds) + 1 \notin DOMAIN rounds
  BY <1>4
<1>6. \A i \in DOMAIN rounds' : rounds'[i].token \in used'
  BY <1>1, <1>2, <1>3, <1>4, <1>5
<1>7. \A i, j \in DOMAIN rounds' :
          rounds'[i].token = rounds'[j].token => i = j
  BY <1>1, <1>2, <1>3, <1>4, <1>5
<1> QED
  BY <1>1, <1>2, <1>4, <1>5, <1>6, <1>7 DEF RowSet, new

\* A round is issued, to thread t or past the graph.
LEMMA StdioIssued ==
    ASSUME Store, NEW tok \in Tokens, Issue(tok), NoToken \notin Tokens,
           \A u \in Threads : Owns(u),
           \A u \in Threads : Settled(u) => Settled(u)',
           NEW t \in Threads, NEW f, f.token = tok,
           f.form.subject = Len(rounds) + 1,
           \A u \in Threads \ {t} : Asking(u)' \subseteq Asking(u),
           \/ /\ replayed' = replayed
              /\ Asking(t)' \subseteq Asking(t) \cup {f}
           \/ /\ replayed' = [replayed EXCEPT ![t] = tok]
              /\ Asking(t)' \subseteq Asking(t)
    PROVE  Store' /\ \A u \in Threads : Owns(u)'
<1>1. /\ tok \notin used /\ used' = used \cup {tok}
      /\ DOMAIN rounds' = DOMAIN rounds \cup {Len(rounds) + 1}
      /\ Len(rounds) + 1 \notin DOMAIN rounds
      /\ \A i \in DOMAIN rounds : rounds'[i] = rounds[i]
      /\ rounds'[Len(rounds) + 1] = [token |-> tok, status |-> "pending"]
      /\ stores' = stores
  BY StdioRows
<1>2. replayed \in [Threads -> Tokens \cup {NoToken}]
      /\ \A u \in Threads : replayed[u] # NoToken => replayed[u] \in used
  BY DEF Store
<1>3. /\ replayed' \in [Threads -> Tokens \cup {NoToken}]
      /\ \A u \in Threads : replayed'[u] # NoToken => replayed'[u] \in used'
  BY <1>1, <1>2
<1>4. Store'
  BY <1>3, StdioRows DEF Store
<1>5. \A i \in DOMAIN rounds : rounds[i].token \in used
  BY DEF Store
<1>6. \A u \in Threads : \A g \in Asking(u) : g.token \in used
  BY DEF Owns
<1>7. \A u, v \in Threads : \A g \in Asking(u) :
          replayed[v] # g.token /\ (u # v => \A h \in Asking(v) : h.token # g.token)
  BY DEF Owns
<1>8. ASSUME NEW u \in Threads, NEW g \in Asking(u)'
      PROVE  /\ g.token \in used'
             /\ \A v \in Threads : replayed'[v] # g.token
             /\ \A v \in Threads \ {u} : \A h \in Asking(v)' : h.token # g.token
             /\ \A i \in DOMAIN rounds' : rounds'[i].token = g.token =>
                    /\ g.form.subject = i
                    /\ rounds'[i].status # "pending" => Settled(u)'
             /\ stores' = 1 => \E i \in DOMAIN rounds' : rounds'[i].token = g.token
  <2>1. CASE g \in Asking(u)
    <3>1. g.token \in used /\ g.token # tok
      BY <1>1, <1>6, <2>1
    <3>2. \A v \in Threads : replayed'[v] # g.token
      BY <1>2, <1>7, <2>1, <3>1
    <3>3. \A v \in Threads \ {u} : \A h \in Asking(v)' : h.token # g.token
      BY <1>7, <2>1, <3>1
    <3>4. \A i \in DOMAIN rounds' : rounds'[i].token = g.token =>
                    /\ g.form.subject = i
                    /\ rounds'[i].status # "pending" => Settled(u)'
      BY <1>1, <2>1, <3>1 DEF Owns
    <3>5. stores' = 1 => \E i \in DOMAIN rounds' : rounds'[i].token = g.token
      BY <1>1, <2>1 DEF Owns
    <3> QED
      BY <1>1, <3>1, <3>2, <3>3, <3>4, <3>5
  <2>2. CASE g \notin Asking(u)
    <3>1. u = t /\ g = f /\ replayed' = replayed
      BY <1>8, <2>2
    <3>2. \A v \in Threads : replayed'[v] # g.token
      BY <1>1, <1>2, <3>1
    <3>3. \A v \in Threads \ {u} : \A h \in Asking(v)' : h.token # g.token
      BY <1>1, <1>6, <3>1
    <3>4. \A i \in DOMAIN rounds' : rounds'[i].token = g.token =>
                    /\ g.form.subject = i
                    /\ rounds'[i].status # "pending" => Settled(u)'
      BY <1>1, <1>5, <3>1
    <3>5. \E i \in DOMAIN rounds' : rounds'[i].token = g.token
      BY <1>1, <3>1
    <3> QED
      BY <1>1, <3>1, <3>2, <3>3, <3>4, <3>5
  <2> QED
    BY <2>1, <2>2
<1> QED
  BY <1>4, <1>8 DEF Owns
\* A reply reaches the thread that awaits it.
LEMMA StdioGets ==
    ASSUME NEW t \in Threads, StdioShape, StdioThread(t), Runs(t)',
           stores' = stores, NEW f, Gets(t, f),
           \/ f.kind = "input" /\ ckpt[t].next = "begin"
           \/ /\ f.kind = "terminal" /\ ckpt[t].next = "continue"
              /\ Explained(t, f.result)
    PROVE  /\ StdioThread(t)' /\ consent'[t] = consent[t]
           /\ Asking(t)' \subseteq Asking(t) \cup {f}
           /\ f.kind = "terminal" => Asking(t)' \subseteq Asking(t)
           /\ Settled(t) => Settled(t)'
<1>1. /\ ckpt'[t] = ckpt[t] /\ shown'[t] = shown[t]
      /\ consent'[t] = consent[t] /\ aborts'[t] = aborts[t]
      /\ inbox[t] = NoFrame /\ inbox'[t] = f /\ requests' \subseteq requests
  BY DEF Gets
<1>2. \A result : Explained(t, result) => Explained(t, result)'
  BY <1>1 DEF Explained, Closes
<1>3. Asks(t) /\ Ends(t) /\ Sends(t)
  BY DEF StdioThread
<1>4. Asks(t)'
  BY <1>1, <1>2, <1>3 DEF Asks
<1>5. Ends(t)'
  BY <1>1, <1>2, <1>3 DEF Ends
<1>6. Sends(t)'
  BY <1>1, <1>3 DEF Sends
<1>7. /\ Asking(t)' \subseteq Asking(t) \cup {f}
      /\ f.kind = "terminal" => Asking(t)' \subseteq Asking(t)
  BY <1>1 DEF Asking, Has
<1>8. f # NoFrame
  BY DEF NoFrame
<1>9. Settled(t) => Settled(t)'
  BY <1>1, <1>8 DEF Settled, Closes
<1> QED
  BY <1>1, <1>4, <1>5, <1>6, <1>7, <1>9 DEF StdioThread

\* A round is issued for an initial call.
LEMMA StdioServeIssue ==
    ASSUME StdioShape, StdioInv, NEW r \in requests, ServeIssue(r)
    PROVE  StdioShape' /\ StdioInv'
<1> DEFINE t == r.thread
<1>1. PICK tok \in Tokens :
          Issue(tok) /\ Deliver(r, InputFrame(tok, Form(Len(rounds) + 1)))
  BY DEF ServeIssue
<1> DEFINE f == InputFrame(tok, Form(Len(rounds) + 1))
<1>2. /\ Store /\ \A u \in Threads : StdioThread(u) /\ Owns(u)
      /\ \A e \in effects : Labelled(e)
  BY DEF StdioInv
<1>3. /\ replayed' = replayed /\ r.token = NoToken /\ NoToken \notin Tokens
  BY StdioAssumption DEF ServeIssue
<1>4. /\ f.kind = "input" /\ f.token = tok /\ f.form.subject = Len(rounds) + 1
      /\ f \in StdioFrames /\ f # NoFrame
  <2>1. Len(rounds) + 1 \in Nat \ {0}
    BY <1>2 DEF Store
  <2>2. f \in StdioFrames
    BY <2>1 DEF StdioFrames
  <2>3. /\ f.kind = "input" /\ f.token = tok
        /\ f.form = Form(Len(rounds) + 1)
    BY DEF InputFrame
  <2>4. f.form.subject = Len(rounds) + 1
    BY <2>3 DEF Form
  <2>5. f # NoFrame
    BY <2>3 DEF NoFrame
  <2> QED
    BY <2>2, <2>3, <2>4, <2>5
<1> HIDE DEF f
<1>5. Deliver(r, f)
  BY <1>1 DEF f
<1>6. t \in Threads
  BY DEF StdioShape, Shape
<1>7. StdioShape'
  BY <1>4, <1>5, StdioShapes, ChannelShape DEF StdioShape
<1>8. Runs(t) /\ Runs(t)'
  BY <1>2, <1>4, <1>5, <1>6, ChannelRuns DEF StdioShape, StdioThread
<1>9. stores' = stores /\ effects' = effects /\ stores \in Nat
  BY <1>1, <1>2 DEF Issue, Store
<1>10. \A u \in Threads \ {t} : StdioThread(u)' /\ Keeps(u)
  <2> SUFFICES ASSUME NEW u \in Threads, u # t
               PROVE  StdioThread(u)' /\ Keeps(u)
    OBVIOUS
  <2>1. Untouched(u)
    BY <1>5, <1>6, Others DEF StdioShape
  <2> QED
    BY <1>2, <1>9, <2>1, StdioUntouched
<1>11. /\ StdioThread(t)' /\ consent'[t] = consent[t]
       /\ Asking(t)' \subseteq Asking(t) \cup {f}
       /\ Settled(t) => Settled(t)'
  <2>1. CASE Awaited(r)
    <3>1. Gets(t, f)
      BY <1>5, <2>1, ReplyMoves DEF StdioShape
    <3>2. ckpt[t].next = "begin"
      <4>1. /\ ckpt[t].next \in {"begin", "continue"}
            /\ ckpt[t].next = "continue" => r.token = ckpt[t].frame.token
        BY <1>8, <2>1, CurrentCall
      <4>2. ckpt[t].next = "continue" => ckpt[t].frame.kind = "input"
        BY <1>2, <1>6 DEF StdioThread, Asks
      <4>3. ckpt[t].frame \in StdioFrames
        BY <1>6 DEF StdioShape, Shape, States
      <4> QED
        BY <1>3, <4>1, <4>2, <4>3, StdioKinds
    <3> QED
      BY <1>2, <1>4, <1>6, <1>8, <1>9, <3>1, <3>2, StdioGets
  <2>2. CASE ~ Awaited(r)
    <3>1. Rests(t)
      BY <1>5, <2>2, ReplyMoves DEF StdioShape
    <3>2. StdioThread(t)' /\ Keeps(t)
      BY <1>2, <1>6, <1>8, <1>9, <3>1, StdioMoves
    <3> QED
      BY <3>1, <3>2 DEF Rests, Keeps
  <2> QED
    BY <2>1, <2>2
<1>12. \A u \in Threads : consent'[u] = consent[u]
  BY <1>5 DEF Deliver
<1>13. Store' /\ \A u \in Threads : Owns(u)'
  <2>1. /\ \A u \in Threads : Settled(u) => Settled(u)'
        /\ \A u \in Threads \ {t} : Asking(u)' \subseteq Asking(u)
    BY <1>10, <1>11 DEF Keeps
  <2> QED
    BY <1>1, <1>2, <1>3, <1>4, <1>6, <1>11, <2>1, StdioIssued
<1>14. \A e \in effects' : Labelled(e)'
  BY <1>2, <1>3, <1>9, <1>12 DEF Labelled
<1>15. \A u \in Threads : StdioThread(u)'
  BY <1>10, <1>11
<1> QED
  BY <1>7, <1>13, <1>14, <1>15 DEF StdioInv
\* What an answer does to the tables: only a round with its token is closed,
\* and labelled if the answer accepts.
LEMMA StdioAnswer ==
    ASSUME Store, NEW tok, NEW answers, AnswerRound(tok, answers)
    PROVE  /\ used' = used /\ stores' = stores
           /\ rounds' \in Seq([token : Tokens, status : {"pending", "accept",
                                                "decline", "cancel"}])
           /\ DOMAIN rounds' = DOMAIN rounds
           /\ \A i \in DOMAIN rounds :
                  /\ rounds'[i].token = rounds[i].token
                  /\ \/ rounds'[i] = rounds[i]
                     \/ rounds[i].token = tok /\ Closes(answers)
           /\ \A e \in effects' \ effects :
                  /\ answers[KEY].action = "accept" /\ Closes(answers)
                  /\ \E i \in DOMAIN rounds :
                         rounds[i].token = tok /\ e = [token |-> tok, subject |-> i]
<1> DEFINE RowSet == [token : Tokens,
                   status : {"pending", "accept", "decline", "cancel"}]
           closing == {i \in RoundIds(tok) : rounds[i].status = "pending"}
<1>1. rounds \in Seq(RowSet)
  BY DEF Store
<1>2. CASE ~ Closes(answers)
  BY <1>1, <1>2 DEF AnswerRound
<1>3. CASE Closes(answers)
  <2>1. /\ rounds' = [i \in DOMAIN rounds |->
                    IF i \in closing
                    THEN [rounds[i] EXCEPT !.status = answers[KEY].action]
                    ELSE rounds[i]]
        /\ effects' = effects \cup
               {[token |-> tok, subject |-> i] :
                i \in {j \in closing : answers[KEY].action = "accept"}}
        /\ used' = used /\ stores' = stores
    BY <1>3, Zenon DEF AnswerRound
  <2>2. answers[KEY].action \in {"accept", "decline", "cancel"}
    BY <1>3 DEF Closes
  <2>3. \A i \in closing : i \in DOMAIN rounds /\ rounds[i].token = tok
    BY DEF RoundIds
  <2> HIDE DEF closing
  <2>4. /\ DOMAIN rounds = 1 .. Len(rounds) /\ Len(rounds) \in Nat
        /\ \A i \in DOMAIN rounds : rounds[i] \in RowSet
    <3> HIDE DEF RowSet
    <3> QED
      BY <1>1
  <2>5. DOMAIN rounds' = 1 .. Len(rounds)
    BY <2>1, <2>4
  <2>6. \A i \in DOMAIN rounds :
            /\ i \in closing =>
                   rounds'[i] = [rounds[i] EXCEPT !.status = answers[KEY].action]
            /\ i \notin closing => rounds'[i] = rounds[i]
    BY <2>1
  <2>7. \A i \in DOMAIN rounds :
            rounds'[i] \in RowSet /\ rounds'[i].token = rounds[i].token
    BY <2>2, <2>4, <2>6
  <2>8. rounds' \in [1 .. Len(rounds) -> RowSet]
    <3> HIDE DEF RowSet
    <3> QED
      BY <2>1, <2>4, <2>5, <2>7
  <2>9. rounds' \in Seq(RowSet)
    <3> HIDE DEF RowSet
    <3> QED
      BY <2>4, <2>8
  <2>10. \A e \in effects' \ effects :
             /\ answers[KEY].action = "accept"
             /\ \E i \in DOMAIN rounds :
                    rounds[i].token = tok /\ e = [token |-> tok, subject |-> i]
    BY <2>1, <2>3
  <2> QED
    BY <1>3, <2>1, <2>3, <2>4, <2>5, <2>6, <2>7, <2>9, <2>10
<1> QED
  BY <1>2, <1>3

\* A thread that has answered was shown the form it answered.
LEMMA StdioConsent ==
    ASSUME NEW t \in Threads, StdioShape, StdioThread(t),
           consent[t].frame.kind = "input"
    PROVE  consent[t].form = consent[t].frame.form
<1>1. ckpt[t].next \in {"begin", "review", "continue", "finish", "end"}
  BY DEF StdioShape, Shape, States
<1>2. consent[t] # NoConsent
  BY DEF NoConsent, NoFrame
<1>3. Asks(t) /\ Ends(t)
  BY DEF StdioThread
<1>4. CASE ckpt[t].next = "continue"
  <2>1. consent[t] = [form |-> ckpt[t].frame.form, frame |-> ckpt[t].frame,
                      answers |-> ckpt[t].answers]
    BY <1>3, <1>4 DEF Asks
  <2>2. consent[t].form = ckpt[t].frame.form
        /\ consent[t].frame = ckpt[t].frame
    BY <2>1
  <2> QED
    BY <2>2
<1>5. CASE ckpt[t].next \in {"finish", "end"}
  BY <1>3, <1>5 DEF Ends
<1> QED
  BY <1>1, <1>2, <1>3, <1>4, <1>5 DEF Asks

\* What the server returns explains how the thread that awaits it ends.
LEMMA StdioOutcome ==
    ASSUME StdioShape, StdioInv, NEW r \in requests, r.token # NoToken,
           Awaited(r), r.thread \in Threads
    PROVE  /\ ckpt[r.thread].next = "continue"
           /\ Explained(r.thread, Outcome(r.token, r.answers))
           /\ Outcome(r.token, r.answers) \in StdioResults
<1> DEFINE t == r.thread
           id == CHOOSE i \in RoundIds(r.token) : TRUE
           out == Outcome(r.token, r.answers)
           error(text) == [isError |-> TRUE, text |-> text, subject |-> None]
<1>1. StdioThread(t) /\ Owns(t) /\ Store
  BY DEF StdioInv
<1>2. /\ consent[t].frame.kind = "input" /\ r.token = consent[t].frame.token
      /\ r.answers = consent[t].answers
  BY <1>1 DEF StdioThread, Sends
<1>3. ckpt[t].next = "continue"
  <2>1. Runs(t)
    BY <1>1 DEF StdioThread
  <2> QED
    BY <2>1, CurrentCall
<1>4. consent[t].frame \in Asking(t)
  BY <1>2 DEF Asking, Has
<1>5. /\ stores = 1 => RoundIds(r.token) # {}
      /\ \A i \in RoundIds(r.token) :
             rounds[i].status # "pending" => Settled(t)
  BY <1>1, <1>2, <1>4 DEF Owns, RoundIds
<1>6. Settled(t) => Closes(r.answers) /\ aborts[t] > 0
  <2>1. aborts[t] \in Nat /\ inbox[t] = NoFrame
    BY DEF StdioShape, Shape, Awaited
  <2> QED
    BY <1>2, <1>3, <2>1 DEF Settled
<1>7. stores \in Nat \ {0}
  BY <1>1 DEF Store
<1>8. id \in DOMAIN rounds => id \in Nat
  BY <1>1 DEF Store
<1>9. CASE RoundIds(r.token) = {}
  <2>1. out = error("UNKNOWN_ROUND")
    BY <1>9 DEF Outcome
  <2>2. out.text = "UNKNOWN_ROUND" /\ out \in StdioResults
    BY <2>1 DEF StdioResults
  <2>3. stores > 1
    BY <1>5, <1>7, <1>9
  <2>4. Explained(t, out)
    <3> HIDE DEF out
    <3> QED
      BY <2>2, <2>3 DEF Explained
  <2> QED
    BY <1>3, <2>2, <2>4
<1>10. CASE RoundIds(r.token) # {}
  <2>1. id \in RoundIds(r.token) /\ id \in Nat
    BY <1>8, <1>10 DEF RoundIds
  <2> HIDE DEF error
  <2>2. out = IF rounds[id].status # "pending"
              THEN error("ROUND_ALREADY_CLOSED")
              ELSE IF ~ Closes(r.answers) THEN error("INVALID")
              ELSE IF r.answers[KEY].action = "accept"
              THEN [isError |-> FALSE, text |-> "previewed", subject |-> id]
              ELSE [isError |-> FALSE, text |-> "skipped", subject |-> None]
    BY <1>10, Zenon DEF Outcome, error
  <2>3. \/ /\ out = error("ROUND_ALREADY_CLOSED")
           /\ Closes(r.answers) /\ aborts[t] > 0
        \/ out = error("INVALID") /\ ~ Closes(r.answers)
        \/ /\ out = [isError |-> FALSE, text |-> "previewed", subject |-> id]
           /\ Closes(r.answers) /\ r.answers[KEY].action = "accept"
        \/ /\ out = [isError |-> FALSE, text |-> "skipped", subject |-> None]
           /\ Closes(r.answers) /\ r.answers[KEY].action # "accept"
    BY <1>5, <1>6, <2>1, <2>2
  <2> HIDE DEF out, id
  <2>4. \/ /\ out.text = "ROUND_ALREADY_CLOSED"
           /\ Closes(r.answers) /\ aborts[t] > 0
        \/ out.text = "INVALID" /\ ~ Closes(r.answers)
        \/ /\ out.text = "previewed"
           /\ Closes(r.answers) /\ r.answers[KEY].action = "accept"
        \/ /\ out.text = "skipped"
           /\ Closes(r.answers) /\ r.answers[KEY].action # "accept"
    BY <2>3 DEF error
  <2>5. out \in StdioResults
    <3>1. /\ error("ROUND_ALREADY_CLOSED") \in StdioResults
          /\ error("INVALID") \in StdioResults
          /\ [isError |-> FALSE, text |-> "skipped", subject |-> None]
                 \in StdioResults
      BY DEF StdioResults, error
    <3>2. [isError |-> FALSE, text |-> "previewed", subject |-> id]
              \in StdioResults
      BY <2>1 DEF StdioResults
    <3> QED
      BY <2>3, <3>1, <3>2
  <2>6. Explained(t, out)
    BY <1>2, <2>4 DEF Explained
  <2> QED
    BY <1>3, <2>5, <2>6 DEF out
<1> QED
  BY <1>9, <1>10
\* The answer of a thread closes the round it was asked, if it closes any.
LEMMA StdioServeContinuation ==
    ASSUME StdioShape, StdioInv, NEW r \in requests, ServeContinuation(r)
    PROVE  StdioShape' /\ StdioInv'
<1> DEFINE t == r.thread
           f == TerminalFrame(Outcome(r.token, r.answers))
<1>1. /\ r.token # NoToken /\ AnswerRound(r.token, r.answers) /\ Deliver(r, f)
      /\ replayed' = replayed
  BY DEF ServeContinuation
<1>2. /\ Store /\ \A u \in Threads : StdioThread(u) /\ Owns(u)
      /\ \A e \in effects : Labelled(e)
  BY DEF StdioInv
<1>3. t \in Threads
  BY DEF StdioShape, Shape
<1>4. /\ f.kind = "terminal" /\ f.result = Outcome(r.token, r.answers)
      /\ f # NoFrame
  BY DEF TerminalFrame, NoFrame
<1> HIDE DEF f
<1>5. /\ consent[t].frame.kind = "input" /\ r.token = consent[t].frame.token
      /\ r.answers = consent[t].answers
      /\ consent[t].frame \in Asking(t)
      /\ consent[t].form = consent[t].frame.form
  <2>1. /\ consent[t].frame.kind = "input"
        /\ r.token = consent[t].frame.token
        /\ r.answers = consent[t].answers
    BY <1>1, <1>2, <1>3 DEF StdioThread, Sends
  <2> QED
    BY <1>2, <1>3, <2>1, StdioConsent DEF Asking, Has
<1>6. r.token \in Tokens
  <2>1. consent[t].frame \in StdioFrames
    BY <1>3 DEF StdioShape, Shape
  <2> QED
    BY <1>5, <2>1, StdioKinds
<1>7. /\ used' = used /\ stores' = stores
      /\ rounds' \in Seq([token : Tokens, status : {"pending", "accept",
                                           "decline", "cancel"}])
      /\ DOMAIN rounds' = DOMAIN rounds
      /\ \A i \in DOMAIN rounds :
             /\ rounds'[i].token = rounds[i].token
             /\ \/ rounds'[i] = rounds[i]
                \/ rounds[i].token = r.token /\ Closes(r.answers)
      /\ \A e \in effects' \ effects :
             /\ r.answers[KEY].action = "accept" /\ Closes(r.answers)
             /\ \E i \in DOMAIN rounds :
                    rounds[i].token = r.token
                    /\ e = [token |-> r.token, subject |-> i]
  BY <1>1, <1>2, StdioAnswer
<1>8. Runs(t) /\ Runs(t)'
  BY <1>1, <1>2, <1>3, <1>4, ChannelRuns DEF StdioShape, StdioThread
<1>9. stores \in Nat
  BY <1>2 DEF Store
<1>10. \A u \in Threads \ {t} : StdioThread(u)' /\ Keeps(u)
  <2> SUFFICES ASSUME NEW u \in Threads, u # t
               PROVE  StdioThread(u)' /\ Keeps(u)
    OBVIOUS
  <2>1. Untouched(u)
    BY <1>1, <1>3, Others DEF StdioShape
  <2> QED
    BY <1>2, <1>7, <1>9, <2>1, StdioUntouched
<1>11. /\ StdioShape' /\ StdioThread(t)' /\ Keeps(t)
       /\ Awaited(r) => inbox'[t] # NoFrame
       /\ ~ Awaited(r) => inbox'[t] = inbox[t]
  <2>1. CASE Awaited(r)
    <3>1. /\ ckpt[t].next = "continue" /\ Explained(t, f.result)
          /\ f.result \in StdioResults
      BY <1>1, <1>3, <1>4, <2>1, StdioOutcome
    <3>2. f \in StdioFrames
      BY <1>4, <3>1 DEF f, StdioFrames
    <3>3. StdioShape'
      BY <1>1, <3>2, StdioShapes, ChannelShape DEF StdioShape
    <3>4. Gets(t, f)
      BY <1>1, <2>1, ReplyMoves DEF StdioShape
    <3>5. /\ StdioThread(t)' /\ consent'[t] = consent[t]
          /\ Asking(t)' \subseteq Asking(t)
          /\ Settled(t) => Settled(t)'
      BY <1>2, <1>3, <1>4, <1>7, <1>8, <3>1, <3>4, StdioGets
    <3> QED
      BY <1>4, <2>1, <3>3, <3>4, <3>5 DEF Keeps, Gets
  <2>2. CASE ~ Awaited(r)
    <3>1. Rests(t)
      BY <1>1, <2>2, ReplyMoves DEF StdioShape
    <3>2. StdioThread(t)' /\ Keeps(t)
      BY <1>2, <1>3, <1>7, <1>8, <1>9, <3>1, StdioMoves
    <3>3. /\ requests' \subseteq requests /\ inbox' = inbox /\ ckpt' = ckpt
          /\ run' = run /\ shown' = shown /\ consent' = consent
          /\ aborts' = aborts
      BY <1>1, <2>2 DEF Deliver
    <3>4. StdioShape'
      BY <3>3 DEF StdioShape, Shape
    <3> QED
      BY <2>2, <3>2, <3>3, <3>4
  <2> QED
    BY <2>1, <2>2
<1>12. Closes(r.answers) => Settled(t)'
  <2> SUFFICES ASSUME Closes(r.answers), aborts'[t] = 0,
                      ckpt'[t].next = "continue", inbox'[t] = NoFrame
               PROVE  FALSE
    <3>1. consent'[t] = consent[t]
      BY <1>5, <1>11 DEF Keeps
    <3> QED
      BY <1>5, <3>1 DEF Settled, Closes
  <2>1. aborts' = aborts /\ ~ Awaited(r)
    BY <1>1, <1>11 DEF Deliver
  <2>2. r.attempt \in Nat /\ aborts[t] = 0
    BY <2>1 DEF StdioShape, Shape
  <2>3. r.attempt <= aborts[t]
    BY <1>8 DEF Runs, Calls1
  <2>4. r.attempt = aborts[t]
    BY <2>2, <2>3
  <2>5. run[t] = "calling" /\ inbox[t] = NoFrame
    BY <1>8, <2>4 DEF Runs, Calls1
  <2> QED
    BY <2>1, <2>4, <2>5 DEF Awaited
<1>13. Store'
  BY <1>1, <1>2, <1>7 DEF Store
<1>14. ASSUME NEW u \in Threads
       PROVE  Owns(u)'
  <2>1. Keeps(u)
    BY <1>10, <1>11
  <2>2. \A v \in Threads : Asking(v)' \subseteq Asking(v)
    BY <1>10, <1>11 DEF Keeps
  <2>3. ASSUME NEW g \in Asking(u)', NEW i \in DOMAIN rounds',
               rounds'[i].token = g.token
        PROVE  /\ g.form.subject = i
               /\ rounds'[i].status # "pending" => Settled(u)'
    <3>1. g \in Asking(u) /\ i \in DOMAIN rounds /\ rounds[i].token = g.token
      BY <1>7, <2>1, <2>3 DEF Keeps
    <3>2. /\ g.form.subject = i
          /\ rounds[i].status # "pending" => Settled(u)
      BY <1>2, <3>1 DEF Owns
    <3>3. rounds'[i] = rounds[i] \/ (rounds[i].token = r.token /\ Closes(r.answers))
      BY <1>7, <3>1
    <3>4. CASE rounds'[i] = rounds[i]
      BY <2>1, <3>2, <3>4 DEF Keeps
    <3>5. CASE rounds[i].token = r.token /\ Closes(r.answers)
      <4>1. u = t
        <5>1. \A v \in Threads \ {u} : \A h \in Asking(v) : h.token # g.token
          BY <1>2, <3>1 DEF Owns
        <5>2. consent[t].frame.token = g.token
          BY <1>5, <3>1, <3>5
        <5> QED
          BY <1>3, <1>5, <5>1, <5>2
      <4> QED
        BY <1>12, <3>2, <3>5, <4>1
    <3> QED
      BY <3>3, <3>4, <3>5
  <2>4. ASSUME NEW g \in Asking(u)', stores' = 1
        PROVE  \E i \in DOMAIN rounds' : rounds'[i].token = g.token
    <3>1. \E i \in DOMAIN rounds : rounds[i].token = g.token
      BY <1>2, <1>7, <2>2, <2>4 DEF Owns
    <3> QED
      BY <1>7, <3>1
  <2>5. ASSUME NEW g \in Asking(u)'
        PROVE  /\ g.token \in used'
               /\ \A v \in Threads : replayed'[v] # g.token
               /\ \A v \in Threads \ {u} : \A h \in Asking(v)' :
                      h.token # g.token
    BY <1>1, <1>2, <1>7, <2>2 DEF Owns
  <2> QED
    BY <2>3, <2>4, <2>5 DEF Owns
<1>15. consent' = consent
  BY <1>1 DEF Deliver
<1>16. ASSUME NEW e \in effects'
       PROVE  Labelled(e)'
  <2>1. CASE e \in effects
    BY <1>1, <1>2, <1>15, <2>1 DEF Labelled
  <2>2. CASE e \notin effects
    <3>1. PICK i \in DOMAIN rounds :
              /\ rounds[i].token = r.token
              /\ e = [token |-> r.token, subject |-> i]
      BY <1>7, <2>2
    <3>2. e.token = r.token /\ e.subject = i /\ r.answers[KEY].action = "accept"
      BY <1>7, <2>2, <3>1
    <3>3. consent[t].frame.form.subject = i
      BY <1>2, <1>3, <1>5, <3>1 DEF Owns
    <3> QED
      BY <1>3, <1>5, <1>6, <1>15, <3>2, <3>3 DEF Labelled
  <2> QED
    BY <2>1, <2>2
<1>17. \A u \in Threads : StdioThread(u)' /\ Owns(u)'
  BY <1>10, <1>11, <1>14
<1> QED
  BY <1>11, <1>13, <1>16, <1>17 DEF StdioInv

\* Steps past the client: an empty store, and the wrong application's two.
LEMMA StdioPast ==
    ASSUME StdioShape, StdioInv, UNCHANGED clientVars,
           \/ StartEmpty
           \/ \E t \in Threads : ReplayInitial(t)
           \/ \E t \in Threads, answers \in Resumes : ReplayAnswer(t, answers)
    PROVE  StdioShape' /\ StdioInv'
<1>1. /\ Store /\ \A u \in Threads : StdioThread(u) /\ Owns(u)
      /\ \A e \in effects : Labelled(e)
  BY DEF StdioInv
<1>2. /\ ckpt' = ckpt /\ run' = run /\ shown' = shown /\ consent' = consent
      /\ aborts' = aborts /\ requests' = requests /\ inbox' = inbox
  BY DEF clientVars
<1>3. StdioShape'
  BY <1>2 DEF StdioShape, Shape
<1>4. /\ stores \in Nat /\ stores' \in Nat /\ stores' >= stores
      /\ StartEmpty \/ stores' = stores
  <2>1. stores \in Nat \ {0}
    BY <1>1 DEF Store
  <2>2. StartEmpty => stores' = stores + 1
    BY DEF StartEmpty
  <2>3. ~ StartEmpty => stores' = stores
    <3>1. ASSUME NEW tok, NEW answers, AnswerRound(tok, answers)
          PROVE  stores' = stores
      BY <1>1, <3>1, StdioAnswer
    <3> QED
      BY <3>1 DEF ReplayInitial, Issue, ReplayAnswer
  <2> QED
    BY <2>1, <2>2, <2>3
<1>5. \A u \in Threads : StdioThread(u)' /\ Keeps(u)
  BY <1>1, <1>2, <1>4, StdioUntouched DEF Untouched
<1>6. /\ \A u \in Threads : Asking(u)' \subseteq Asking(u)
      /\ \A u \in Threads : Settled(u) => Settled(u)'
  BY <1>5 DEF Keeps
<1>7. CASE StartEmpty
  <2>1. /\ stores' = stores + 1 /\ rounds' = <<>> /\ effects' = {}
        /\ used' = used /\ replayed' = replayed
    BY <1>7 DEF StartEmpty
  <2>2. stores' # 1 /\ stores' \in Nat \ {0}
    BY <1>1, <2>1 DEF Store
  <2>3. DOMAIN rounds' = {}
    BY <2>1
  <2>4. Store'
    BY <1>1, <2>1, <2>2, <2>3 DEF Store
  <2>5. \A u \in Threads : Owns(u)'
    BY <1>1, <1>6, <2>1, <2>2, <2>3 DEF Owns
  <2> QED
    BY <1>3, <1>5, <2>1, <2>4, <2>5 DEF StdioInv
<1>8. ASSUME NEW t \in Threads, ReplayInitial(t)
      PROVE  StdioInv'
  <2>1. PICK tok \in Tokens : /\ Issue(tok)
                             /\ replayed' = [replayed EXCEPT ![t] = tok]
    BY <1>8 DEF ReplayInitial
  <2>2. NoToken \notin Tokens
    BY StdioAssumption
  <2> DEFINE f == InputFrame(tok, Form(Len(rounds) + 1))
  <2>3. f.token = tok /\ f.form.subject = Len(rounds) + 1
    <3>1. f.token = tok /\ f.form = Form(Len(rounds) + 1)
      BY DEF InputFrame
    <3> QED
      BY <3>1 DEF Form
  <2> HIDE DEF f
  <2>4. Store' /\ \A u \in Threads : Owns(u)'
    BY <1>1, <1>6, <2>1, <2>2, <2>3, StdioIssued
  <2>5. replayed[t] = NoToken /\ effects' = effects
    BY <1>8, <2>1 DEF ReplayInitial, Issue
  <2>6. replayed \in [Threads -> Tokens \cup {NoToken}]
    BY <1>1 DEF Store
  <2>7. ASSUME NEW e \in effects'
        PROVE  Labelled(e)'
    <3>1. e \in effects /\ e.token \in Tokens
      BY <1>1, <2>5 DEF Labelled
    <3>2. \A u \in Threads : replayed[u] = e.token => replayed'[u] = e.token
      BY <2>1, <2>2, <2>5, <2>6, <3>1
    <3> QED
      BY <1>1, <1>2, <3>1, <3>2 DEF Labelled
  <2> QED
    BY <1>5, <2>4, <2>7 DEF StdioInv
<1>9. ASSUME NEW t \in Threads, NEW answers \in Resumes,
             ReplayAnswer(t, answers)
      PROVE  StdioInv'
  <2>1. /\ replayed[t] # NoToken /\ AnswerRound(replayed[t], answers)
        /\ replayed' = replayed
    BY <1>9 DEF ReplayAnswer
  <2>2. /\ used' = used /\ stores' = stores
        /\ rounds' \in Seq([token : Tokens, status : {"pending", "accept",
                                             "decline", "cancel"}])
        /\ DOMAIN rounds' = DOMAIN rounds
        /\ \A i \in DOMAIN rounds :
               /\ rounds'[i].token = rounds[i].token
               /\ rounds'[i] = rounds[i] \/ rounds[i].token = replayed[t]
        /\ \A e \in effects' \ effects :
               \E i \in DOMAIN rounds :
                  e = [token |-> replayed[t], subject |-> i]
    BY <1>1, <2>1, StdioAnswer
  <2>3. Store'
    BY <1>1, <2>1, <2>2 DEF Store
  <2>4. ASSUME NEW u \in Threads
        PROVE  Owns(u)'
    <3>1. ASSUME NEW g \in Asking(u)'
          PROVE  /\ g.token \in used' /\ g \in Asking(u)
                 /\ \A v \in Threads : replayed'[v] # g.token
                 /\ \A v \in Threads \ {u} : \A h \in Asking(v)' :
                        h.token # g.token
      BY <1>1, <1>6, <2>1, <2>2 DEF Owns
    <3>2. ASSUME NEW g \in Asking(u)', NEW i \in DOMAIN rounds',
                 rounds'[i].token = g.token
          PROVE  /\ g.form.subject = i
                 /\ rounds'[i].status # "pending" => Settled(u)'
      <4>1. g \in Asking(u) /\ i \in DOMAIN rounds /\ replayed[t] # g.token
        BY <2>1, <2>2, <3>1
      <4>2. rounds[i].token = g.token /\ rounds'[i] = rounds[i]
        BY <2>2, <3>2, <4>1
      <4> QED
        BY <1>1, <1>6, <4>1, <4>2 DEF Owns
    <3>3. ASSUME NEW g \in Asking(u)', stores' = 1
          PROVE  \E i \in DOMAIN rounds' : rounds'[i].token = g.token
      <4>1. \E i \in DOMAIN rounds : rounds[i].token = g.token
        BY <1>1, <2>2, <3>1, <3>3 DEF Owns
      <4> QED
        BY <2>2, <4>1
    <3> QED
      BY <3>1, <3>2, <3>3 DEF Owns
  <2>5. replayed[t] \in Tokens
    BY <1>1, <2>1 DEF Store
  <2>6. ASSUME NEW e \in effects'
        PROVE  Labelled(e)'
    <3>1. CASE e \in effects
      BY <1>1, <1>2, <2>1, <3>1 DEF Labelled
    <3>2. CASE e \notin effects
      <4>1. e.token = replayed[t]
        BY <2>2, <3>2
      <4> QED
        BY <2>1, <2>5, <4>1 DEF Labelled
    <3> QED
      BY <3>1, <3>2
  <2> QED
    BY <1>5, <2>3, <2>4, <2>6 DEF StdioInv
<1> QED
  BY <1>3, <1>7, <1>8, <1>9
LEMMA StdioInit == RestartInit => StdioShape /\ StdioInv
<1> SUFFICES ASSUME RestartInit
             PROVE  StdioShape /\ StdioInv
  OBVIOUS
<1>1. /\ ckpt = [t \in Threads |-> NewThread]
      /\ run = [t \in Threads |-> "stopped"]
      /\ shown = [t \in Threads |-> NoForm]
      /\ consent = [t \in Threads |-> NoConsent]
      /\ aborts = [t \in Threads |-> 0] /\ requests = {}
      /\ inbox = [t \in Threads |-> NoFrame]
      /\ rounds = <<>> /\ effects = {} /\ used = {} /\ stores = 1
      /\ replayed = [t \in Threads |-> NoToken]
  BY DEF RestartInit, ClientInit
<1>2. NewThread \in States(StdioFrames, AnswerMaps, StdioResults \cup {None})
  BY StdioShapes DEF Shapes, States, NewThread
<1>3. NoForm \in {f.form : f \in StdioFrames}
  <2>1. NoFrame \in StdioFrames /\ NoFrame.form = NoForm
    BY DEF StdioFrames, NoFrame
  <2> QED
    BY <2>1
<1>4. NoConsent \in [form : {f.form : f \in StdioFrames}, frame : StdioFrames,
                     answers : AnswerMaps]
  BY <1>3, StdioShapes DEF Shapes, NoConsent
<1>5. StdioShape
  BY <1>1, <1>2, <1>3, <1>4, StdioShapes DEF StdioShape, Shape, Shapes
<1>6. Store
  BY <1>1 DEF Store
<1>7. ASSUME NEW t \in Threads
      PROVE  StdioThread(t) /\ Owns(t)
  <2>1. /\ ckpt[t].next = "begin" /\ ckpt[t].frame = NoFrame
        /\ shown[t] = NoForm /\ consent[t] = NoConsent /\ inbox[t] = NoFrame
        /\ run[t] = "stopped" /\ NoFrame.kind = "none"
        /\ NoConsent.frame = NoFrame
    BY <1>1 DEF NewThread, NoFrame, NoConsent
  <2>2. Runs(t) /\ Asks(t) /\ Ends(t) /\ Sends(t)
    BY <1>1, <2>1 DEF Runs, Waits, Calls1, Asks, Ends, Sends
  <2>3. Asking(t) = {}
    BY <2>1 DEF Asking, Has
  <2> QED
    BY <2>2, <2>3 DEF StdioThread, Owns
<1> QED
  BY <1>1, <1>5, <1>6, <1>7 DEF StdioInv

LEMMA StdioNext ==
    StdioShape /\ StdioInv /\ [RestartNext]_restartVars
        => StdioShape' /\ StdioInv'
<1> SUFFICES ASSUME StdioShape, StdioInv, [RestartNext]_restartVars
             PROVE  StdioShape' /\ StdioInv'
  OBVIOUS
<1>1. CASE \E t \in Threads : Client(t) /\ UNCHANGED storeVars
  BY <1>1, StdioClient
<1>2. CASE \E r \in requests : Lose(r) /\ UNCHANGED storeVars
  BY <1>2, StdioClient
<1>3. CASE \E r \in requests : ServeIssue(r)
  BY <1>3, StdioServeIssue
<1>4. CASE \E r \in requests : ServeContinuation(r)
  BY <1>4, StdioServeContinuation
<1>5. CASE StartEmpty
  BY <1>5, StdioPast DEF StartEmpty
<1>6. CASE \E t \in Threads : ReplayInitial(t)
  BY <1>6, StdioPast DEF ReplayInitial
<1>7. CASE \E t \in Threads : \E answers \in Resumes : ReplayAnswer(t, answers)
  BY <1>7, StdioPast DEF ReplayAnswer
<1>8. CASE RestartDone \/ UNCHANGED restartVars
  <2>1. /\ ckpt' = ckpt /\ run' = run /\ shown' = shown /\ consent' = consent
        /\ aborts' = aborts /\ requests' = requests /\ inbox' = inbox
        /\ rounds' = rounds /\ effects' = effects /\ used' = used
        /\ stores' = stores /\ replayed' = replayed
    BY <1>8 DEF RestartDone, restartVars
  <2>2. StdioShape'
    BY <2>1 DEF StdioShape, Shape
  <2>3. stores \in Nat
    BY DEF StdioInv, Store
  <2>4. \A t \in Threads : StdioThread(t)' /\ Keeps(t)
    BY <2>1, <2>3, StdioUntouched DEF StdioInv, Untouched
  <2> QED
    BY <2>1, <2>2, <2>4, StdioKept DEF StdioInv, storeVars
<1> QED
  BY <1>1, <1>2, <1>3, <1>4, <1>5, <1>6, <1>7, <1>8 DEF RestartNext

LEMMA StdioAlways == RestartSpec => [](StdioShape /\ StdioInv)
BY StdioInit, StdioNext, PTL DEF RestartSpec

\* Every label the graph asked for has the subject its reviewer was shown and
\* accepted, on any number of empty stores that number their drafts anew.
THEOREM LabelsAreConsented == RestartSpec => []LabelsShownSubject
<1>1. StdioShape /\ StdioInv => LabelsShownSubject
  <2> SUFFICES ASSUME StdioShape, StdioInv, NEW e \in effects
               PROVE  /\ \E t \in Threads : e.token = Token(t)
                                           \/ e.token = replayed[t]
                      /\ \A t \in Threads : e.token = Token(t) =>
                             /\ consent[t].form.subject = e.subject
                             /\ consent[t].answers[KEY].action = "accept"
    BY DEF LabelsShownSubject
  <2>1. Labelled(e) /\ \A t \in Threads : StdioThread(t) /\ Owns(t)
    BY DEF StdioInv
  <2>2. \E t \in Threads : e.token = Token(t) \/ e.token = replayed[t]
    BY <2>1 DEF Labelled, Token
  <2>3. ASSUME NEW t \in Threads, e.token = Token(t)
        PROVE  /\ consent[t].form.subject = e.subject
               /\ consent[t].answers[KEY].action = "accept"
    <3>1. consent[t].frame \in StdioFrames
      BY DEF StdioShape, Shape
    <3>2. consent[t].frame.kind = "input"
      BY <2>1, <2>3, <3>1, StdioAssumption, StdioKinds DEF Labelled, Token
    <3>3. consent[t].frame \in Asking(t) /\ consent[t].frame.token = e.token
      BY <2>3, <3>2 DEF Asking, Has, Token
    <3>4. \A u \in Threads : replayed[u] # e.token
      BY <2>1, <3>3 DEF Owns
    <3>5. PICK u \in Threads :
              /\ consent[u].frame.kind = "input"
              /\ consent[u].frame.token = e.token
              /\ consent[u].form.subject = e.subject
              /\ consent[u].answers[KEY].action = "accept"
      BY <2>1, <3>4 DEF Labelled
    <3>6. consent[u].frame \in Asking(u)
      BY <3>5 DEF Asking, Has
    <3>7. u = t
      BY <2>1, <3>3, <3>5, <3>6 DEF Owns
    <3> QED
      BY <3>5, <3>7
  <2> QED
    BY <2>2, <2>3
<1> QED
  BY <1>1, StdioAlways, PTL

\* An operation that ends without its success can say why: the first answer
\* had closed the round before a crash, the store was lost, or the answer was
\* refused; and a success or a skip is what the answer asked for.
THEOREM EndsExplained == RestartSpec => []EndsAreExplained
<1>1. StdioInv => EndsAreExplained
  BY DEF StdioInv, StdioThread, Ends, Explained, EndsAreExplained
<1> QED
  BY <1>1, StdioAlways, PTL
-----------------------------------------------------------------------------
(* Part 3: RoundExercises.                                                 *)

\* What is encoded in a request state.
AllStates ==
    [case : Threads, round : Nat \ {0}, serial : Nat,
     subject : {"draft-A", "draft-B", "process-A"}]

OfGraph(t) == path[t] \in {"checkpointed_round_graph", "process_restart"}
Open(t) == rows[t].outcome = "open"

\* What a row may look like, whatever is in it.
IsRow(row) ==
    row \in [outcome : {row.outcome}, status : {row.status},
            calls : {row.calls}, shown : {row.shown}, answers : {row.answers},
            log : {row.log}, completed : {row.completed}]

\* The form of a state, of the probe's server or of process A.
FormAt(t, state) ==
    IF path[t] = "process_restart" THEN RestartForm ELSE FormOf(state)
AtRound(state, n) == [state EXCEPT !.round = n]

\* A frame that asks thread t one of its forms.
Question(t, frame) ==
    /\ frame.token \in AllStates /\ frame.token.case = t
    /\ frame.form = FormAt(t, frame.token)
    /\ frame.token.round <= SPECS[t].rounds

\* The subjects recorded for thread t.
Noted(t) ==
    {completed[i].subject : i \in {j \in DOMAIN completed :
                                       completed[j].case = t}}

\* A thread of the round graph at each of its nodes.
GraphAsks(t) ==
    /\ ckpt[t].next = "begin" =>
           /\ ckpt[t].frame = NoFrame /\ shown[t] = NoForm
           /\ consent[t] = NoConsent /\ inbox[t].kind # "terminal"
           /\ inbox[t].kind = "input" =>
                  Question(t, inbox[t]) /\ inbox[t].token.round = 1
    /\ ckpt[t].next \in {"review", "continue"} =>
           /\ ckpt[t].frame.kind = "input" /\ Question(t, ckpt[t].frame)
           /\ ckpt[t].roundIndex = ckpt[t].frame.token.round
    /\ ckpt[t].next = "review" =>
           /\ \/ shown[t] = NoForm
              \/ \E n \in Nat :
                     shown[t] = FormAt(t, AtRound(ckpt[t].frame.token, n))
           /\ \/ consent[t] = NoConsent
              \/ \E n \in Nat :
                     /\ n <= ckpt[t].frame.token.round
                     /\ consent[t].frame.token =
                            AtRound(ckpt[t].frame.token, n)
    /\ ckpt[t].next = "continue" =>
           /\ shown[t] = ckpt[t].frame.form
           /\ consent[t] = [form |-> ckpt[t].frame.form,
                            frame |-> ckpt[t].frame,
                            answers |-> ckpt[t].answers]
           /\ ckpt[t].roundIndex <= MaxRounds
           /\ inbox[t].kind = "input" =>
                  /\ Question(t, inbox[t])
                  /\ inbox[t].token = AtRound(ckpt[t].frame.token,
                                          ckpt[t].frame.token.round + 1)
    /\ ckpt[t].next \in {"finish", "end"} => ckpt[t].frame.kind = "terminal"
    /\ ckpt[t].status = "answered" => ckpt[t].next = "continue"
GraphSends(t) ==
    /\ \/ consent[t] = NoConsent
       \/ /\ consent[t].frame.kind = "input" /\ Question(t, consent[t].frame)
          /\ consent[t].form = consent[t].frame.form
    /\ \A r \in requests : r.thread = t /\ r.token # NoToken =>
           /\ consent[t] # NoConsent /\ r.token.round <= MaxRounds
           /\ \E n \in Nat : /\ n <= consent[t].frame.token.round
                             /\ r.token = AtRound(consent[t].frame.token, n)
    /\ Noted(t) # {} =>
           /\ path[t] # "process_restart" /\ consent[t] # NoConsent
           /\ Noted(t) = {consent[t].frame.token.subject}
           /\ consent[t].frame.token.round = SPECS[t].rounds
           /\ SPECS[t].rounds <= MaxRounds
GraphThread(t) == Runs(t) /\ GraphAsks(t) /\ GraphSends(t)

\* A thread without the graph has one call under way, and none when its case is
\* over or its process has the reply.
OneCall(t) ==
    /\ ckpt[t].next \in {"begin", "end"} /\ ckpt[t].frame = NoFrame
    /\ ckpt[t].status # "answered"
    /\ Open(t) => ckpt[t].next = "begin"
    /\ ~ Open(t) => run[t] = "stopped"
    /\ inbox[t] # NoFrame => run[t] = "calling"
    /\ \A r \in requests : r.thread = t =>
           /\ Open(t) => run[t] = "calling" /\ inbox[t] = NoFrame
           /\ \A s \in requests : s.thread = t => s = r

\* The adapter asks its first form and answers its second.
First(t) == [case |-> t, round |-> 1, serial |-> 1, subject |-> "draft-A"]
Second(t) ==
    [case |-> t, round |-> 1, serial |-> 2,
     subject |-> IF SPECS[t].drift THEN "draft-B" ELSE "draft-A"]
HasAsked(t) == IF shown[t] = NoForm THEN 0 ELSE 1
AdapterThread(t) ==
    /\ OneCall(t)
    /\ shown[t] \in {NoForm, FormOf(First(t))}
    /\ ckpt[t].answers = NoAnswers \/ DOMAIN ckpt[t].answers = shown[t].keys
    /\ shown[t] = NoForm => ckpt[t].answers = NoAnswers
    /\ Open(t) /\ run[t] # "stopped" /\ shown[t] # NoForm =>
           ckpt[t].answers # NoAnswers
    /\ Open(t) /\ run[t] # "calling" => sequence[t] = HasAsked(t)
    /\ \A r \in requests : r.thread = t =>
           /\ r.token = NoToken => sequence[t] = HasAsked(t)
           /\ r.token # NoToken =>
                  /\ r.token = Second(t) /\ shown[t] # NoForm
                  /\ ~ SPECS[t].fresh
    /\ inbox[t].kind = "input" =>
           /\ shown[t] = NoForm =>
                  /\ inbox[t] = InputFrame(First(t), FormOf(First(t)))
                  /\ sequence[t] = 1
           /\ shown[t] # NoForm =>
                  inbox[t] = InputFrame(Second(t), FormOf(Second(t)))
    /\ Noted(t) # {} =>
           /\ path[t] # "bound_adapter" /\ shown[t] # NoForm
           /\ ~ SPECS[t].fresh /\ Noted(t) = {Second(t).subject}

\* The session answers the form it was asked.
DirectThread(t) ==
    /\ OneCall(t)
    /\ Open(t) /\ run[t] # "calling" => shown[t] = NoForm
    /\ \A r \in requests : r.thread = t =>
           IF shown[t] = NoForm THEN r.token = NoToken
           ELSE /\ r.token # NoToken /\ r.token.case = t
                /\ r.token.subject = shown[t].subject
    /\ inbox[t].kind = "input" =>
           /\ shown[t] = NoForm /\ inbox[t].token.case = t
           /\ inbox[t].form = FormOf(inbox[t].token)
    /\ Noted(t) # {} =>
           shown[t] # NoForm /\ Noted(t) = {shown[t].subject}

\* What the case of a thread is, and that it does not change.
OfCase(t) ==
    /\ ~ OfGraph(t) => SPECS[t].rounds = 1
    /\ path[t] \in {"bound_adapter", "direct_session"} => SPECS[t].drift
ExerciseThread(t) ==
    /\ OfCase(t)
    /\ OfGraph(t) => GraphThread(t)
    /\ path[t] \in AdapterPaths => AdapterThread(t)
    /\ path[t] = "direct_session" => DirectThread(t)

\* The frames of all the servers, and the client's variables.
AllSubjects == {"draft-A", "draft-B", "process-A"}
ExerciseResults ==
    [isError : BOOLEAN,
     text : {"skipped", "failed", "previewed", "mismatch",
             "completed-from-process-B"},
     subject : AllSubjects \cup {None}]
ExerciseForms ==
    [keys : {{k} : k \in Nat \X Nat}, subject : AllSubjects]
ExerciseFrames ==
    {NoFrame} \cup {TerminalFrame(result) : result \in ExerciseResults}
    \cup {InputFrame(state, form) : state \in AllStates, form \in ExerciseForms}
ExerciseMaps ==
    AnswerMaps \cup {Sole(k, action, content) : k \in Nat \X Nat,
                     action \in Actions, content \in Contents}
ExerciseShape ==
    Shape(ExerciseFrames, ExerciseMaps, ExerciseResults \cup {None})
Books ==
    /\ SPECS \in [Threads -> Specs] /\ path \in [Threads -> Paths]
    /\ sequence \in [Threads -> Nat]
    /\ DOMAIN rows = Threads /\ \A t \in Threads : IsRow(rows[t])
    /\ completed \in Seq([case : Threads, subject : AllSubjects])
ExerciseInv == ExerciseShape /\ Books /\ \A t \in Threads : ExerciseThread(t)

LEMMA ExerciseShapes ==
    Shapes(ExerciseFrames, ExerciseMaps, ExerciseResults \cup {None})
<1>1. NoAnswers \in ExerciseMaps
  BY DEF AnswerMaps, ExerciseMaps
<1>2. Resumes \subseteq ExerciseMaps
  BY PreviewAssumption DEF ExerciseMaps
<1>3. ASSUME NEW f \in ExerciseFrames
      PROVE  f.result \in ExerciseResults \cup {None}
  BY DEF ExerciseFrames, NoFrame, TerminalFrame, InputFrame
<1>4. NoFrame \in ExerciseFrames
  BY DEF ExerciseFrames
<1> QED
  BY <1>1, <1>2, <1>3, <1>4, Zenon DEF Shapes

LEMMA StatesAreNoToken == ASSUME NEW s \in AllStates PROVE s # NoToken
<1>1. s \in RequestStates({"draft-A", "draft-B"}) \cup
           RequestStates({"process-A"})
  BY DEF AllStates, RequestStates
<1> QED
  BY <1>1, PreviewAssumption, ExerciseAssumption

LEMMA ExerciseKinds ==
    ASSUME NEW f \in ExerciseFrames
    PROVE  /\ f.kind \in {"none", "input", "terminal"}
           /\ f.kind = "none" <=> f = NoFrame
           /\ f.kind = "input" =>
                  /\ f.token \in AllStates /\ f.token # NoToken
                  /\ f.form \in ExerciseForms /\ f.form # NoForm
           /\ f.kind # "input" => f.token = NoToken /\ f.form = NoForm
<1>1. CASE f = NoFrame
  BY <1>1 DEF NoFrame
<1>2. CASE \E result \in ExerciseResults : f = TerminalFrame(result)
  BY <1>2 DEF NoFrame, TerminalFrame
<1>3. CASE \E state \in AllStates, form \in ExerciseForms :
               f = InputFrame(state, form)
  <2>1. PICK state \in AllStates, form \in ExerciseForms :
                 f = InputFrame(state, form)
    BY <1>3
  <2>2. f.kind = "input" /\ f.token = state /\ f.form = form
    BY <2>1 DEF InputFrame
  <2>3. form.keys # {}
    BY DEF ExerciseForms
  <2>4. form # NoForm
    BY <2>3 DEF NoForm
  <2>5. f # NoFrame
    BY <2>2 DEF NoFrame
  <2>6. state # NoToken
    BY StatesAreNoToken
  <2> QED
    BY <2>2, <2>4, <2>5, <2>6
<1> QED
  BY <1>1, <1>2, <1>3 DEF ExerciseFrames

\* A form has one key, which says its round, and the serial if that counts.
LEMMA FormFacts ==
    ASSUME NEW t \in Threads, NEW s \in AllStates
    PROVE  /\ FormOf(s) \in ExerciseForms /\ FormOf(s).subject = s.subject
           /\ FormOf(s).keys = {FormKey(s)}
           /\ FormOf(s) # NoForm
           /\ RestartForm \in ExerciseForms /\ RestartForm # NoForm
<1>1. s.round \in Nat /\ s.serial \in Nat /\ s.subject \in AllSubjects
  BY DEF AllStates, AllSubjects
<1>2. FormOf(s).keys = {FormKey(s)} /\ FormOf(s).subject = s.subject
  BY DEF FormOf
<1>3. FormOf(s) \in ExerciseForms
  <2>1. /\ FormKey(s) = <<IF SPECS[s.case].fresh THEN s.serial ELSE 0, s.round>>
        /\ (IF SPECS[s.case].fresh THEN s.serial ELSE 0) \in Nat
    BY <1>1 DEF FormKey
  <2>2. FormKey(s) \in Nat \X Nat
    BY <1>1, <2>1
  <2> QED
    BY <1>1, <2>2 DEF ExerciseForms, FormOf
<1>4. RestartForm \in ExerciseForms
  <2>1. <<0, 0>> \in Nat \X Nat
    OBVIOUS
  <2> QED
    BY <2>1 DEF ExerciseForms, RestartForm, AllSubjects
<1>5. \A form \in ExerciseForms : form # NoForm
  <2> SUFFICES ASSUME NEW form \in ExerciseForms
               PROVE  form.keys # {}
    BY DEF NoForm
  <2> QED
    BY DEF ExerciseForms
<1> QED
  BY <1>2, <1>3, <1>4, <1>5

\* The forms of two rounds differ in their keys.
LEMMA RoundOfKey ==
    ASSUME NEW s \in AllStates, NEW n \in Nat, NEW m \in Nat,
           FormKey(AtRound(s, n)) = FormKey(AtRound(s, m))
    PROVE  n = m
<1>1. /\ AtRound(s, n).case = s.case /\ AtRound(s, n).serial = s.serial
      /\ AtRound(s, m).case = s.case /\ AtRound(s, m).serial = s.serial
      /\ AtRound(s, n).round = n /\ AtRound(s, m).round = m
  BY DEF AllStates, AtRound
<1> QED
  BY <1>1 DEF FormKey
\* A state at another round.
LEMMA RoundFacts ==
    ASSUME NEW s \in AllStates
    PROVE  /\ AtRound(s, s.round) = s
           /\ \A n \in Nat : /\ AtRound(s, n).round = n
                             /\ AtRound(s, n).case = s.case
                             /\ AtRound(s, n).serial = s.serial
                             /\ AtRound(s, n).subject = s.subject
           /\ \A n, m \in Nat : AtRound(AtRound(s, n), m) = AtRound(s, m)
           /\ \A n \in Nat \ {0} : AtRound(s, n) \in AllStates
BY DEF AllStates, AtRound

\* The rows that the experiments keep stay rows.
LEMMA RowKinds ==
    ASSUME NEW row, IsRow(row)
    PROVE  /\ \A x : /\ IsRow([row EXCEPT !.shown = x])
                    /\ [row EXCEPT !.shown = x].outcome = row.outcome
           /\ \A x : /\ IsRow([row EXCEPT !.answers = x])
                    /\ [row EXCEPT !.answers = x].outcome = row.outcome
           /\ \A x : /\ IsRow([row EXCEPT !.log = x])
                    /\ [row EXCEPT !.log = x].outcome = row.outcome
           /\ \A x : /\ IsRow([row EXCEPT !.calls = x])
                    /\ [row EXCEPT !.calls = x].outcome = row.outcome
           /\ \A x, y : /\ IsRow([row EXCEPT !.shown = x, !.answers = y])
                       /\ [row EXCEPT !.shown = x, !.answers = y].outcome
                              = row.outcome
<1>1. row \in [outcome : {row.outcome}, status : {row.status},
              calls : {row.calls}, shown : {row.shown},
              answers : {row.answers}, log : {row.log},
              completed : {row.completed}]
  BY DEF IsRow
<1>2. ASSUME NEW x
      PROVE  /\ IsRow([row EXCEPT !.shown = x])
             /\ [row EXCEPT !.shown = x].outcome = row.outcome
             /\ [row EXCEPT !.shown = x].answers = row.answers
  BY <1>1 DEF IsRow
<1>3. ASSUME NEW x
      PROVE  /\ IsRow([row EXCEPT !.answers = x])
             /\ [row EXCEPT !.answers = x].outcome = row.outcome
  BY <1>1 DEF IsRow
<1>4. ASSUME NEW x
      PROVE  /\ IsRow([row EXCEPT !.log = x])
             /\ [row EXCEPT !.log = x].outcome = row.outcome
  BY <1>1 DEF IsRow
<1>5. ASSUME NEW x
      PROVE  /\ IsRow([row EXCEPT !.calls = x])
             /\ [row EXCEPT !.calls = x].outcome = row.outcome
  BY <1>1 DEF IsRow
<1>6. ASSUME NEW x, NEW y
      PROVE  /\ IsRow([row EXCEPT !.shown = x, !.answers = y])
             /\ [row EXCEPT !.shown = x, !.answers = y].outcome = row.outcome
  <2> DEFINE new == [row EXCEPT !.shown = x, !.answers = y]
  <2>1. new \in [outcome : {row.outcome}, status : {row.status},
                calls : {row.calls}, shown : {x}, answers : {y},
                log : {row.log}, completed : {row.completed}]
    BY <1>1
  <2>2. /\ new.outcome = row.outcome /\ new.status = row.status
        /\ new.calls = row.calls /\ new.shown = x /\ new.answers = y
        /\ new.log = row.log /\ new.completed = row.completed
    BY <2>1
  <2> HIDE DEF new
  <2> QED
    BY <2>1, <2>2 DEF IsRow, new
<1> QED
  BY <1>2, <1>3, <1>4, <1>5, <1>6

\* What keeping a row does to all rows.
RowsHeld(t) ==
    /\ DOMAIN rows' = Threads /\ \A u \in Threads : IsRow(rows'[u])
    /\ \A u \in Threads \ {t} : rows'[u] = rows[u]

LEMMA RowsKept ==
    ASSUME DOMAIN rows = Threads, \A u \in Threads : IsRow(rows[u]),
           NEW t \in Threads, NEW row, IsRow(row), Note(t, row)
    PROVE  /\ RowsHeld(t)
           /\ rows'[t].outcome = IF Open(t) THEN row.outcome
                                 ELSE rows[t].outcome
BY DEF Note, RowsHeld, Open

\* The rows of the round graph and of the servers.
LEMMA NotesKept ==
    ASSUME DOMAIN rows = Threads, \A u \in Threads : IsRow(rows[u]),
           NEW t \in Threads
    PROVE  /\ \A phase, subject : Note(t, Log(t, phase, subject)) =>
                  RowsHeld(t) /\ rows'[t].outcome = rows[t].outcome
           /\ \A tok, answers : Note(t, Called(t, tok, answers)) =>
                  RowsHeld(t) /\ rows'[t].outcome = rows[t].outcome
           /\ Note(t, CallReturned(t)) =>
                  RowsHeld(t) /\ rows'[t].outcome = rows[t].outcome
           /\ \A x : Note(t, [rows[t] EXCEPT !.shown = x]) =>
                  RowsHeld(t) /\ rows'[t].outcome = rows[t].outcome
           /\ \A x : Note(t, [rows[t] EXCEPT !.answers = x]) =>
                  RowsHeld(t) /\ rows'[t].outcome = rows[t].outcome
           /\ \A x, y : Note(t, [rows[t] EXCEPT !.shown = x, !.answers = y]) =>
                  RowsHeld(t) /\ rows'[t].outcome = rows[t].outcome
           /\ \A outcome : Note(t, Over(t, outcome)) =>
                  /\ RowsHeld(t)
                  /\ rows'[t].outcome = IF Open(t) THEN outcome
                                        ELSE rows[t].outcome
<1>1. IsRow(rows[t])
  OBVIOUS
<1>2. ASSUME NEW row, IsRow(row), row.outcome = rows[t].outcome, Note(t, row)
      PROVE  RowsHeld(t) /\ rows'[t].outcome = rows[t].outcome
  BY <1>2, RowsKept
<1>3. ASSUME NEW x
      PROVE  /\ IsRow([rows[t] EXCEPT !.log = x])
             /\ [rows[t] EXCEPT !.log = x].outcome = rows[t].outcome
             /\ IsRow([rows[t] EXCEPT !.calls = x])
             /\ [rows[t] EXCEPT !.calls = x].outcome = rows[t].outcome
  BY <1>1, RowKinds
<1>4. ASSUME NEW phase, NEW subject, Note(t, Log(t, phase, subject))
      PROVE  RowsHeld(t) /\ rows'[t].outcome = rows[t].outcome
  BY <1>2, <1>3, <1>4, Zenon DEF Log
<1>5. ASSUME NEW tok, NEW answers, Note(t, Called(t, tok, answers))
      PROVE  RowsHeld(t) /\ rows'[t].outcome = rows[t].outcome
  BY <1>2, <1>3, <1>5, Zenon DEF Called
<1>6. ASSUME Note(t, CallReturned(t))
      PROVE  RowsHeld(t) /\ rows'[t].outcome = rows[t].outcome
  <2>1. \E x : CallReturned(t) = [rows[t] EXCEPT !.calls = x]
    BY DEF CallReturned
  <2> QED
    BY <1>2, <1>3, <1>6, <2>1
<1>7. ASSUME NEW x, Note(t, [rows[t] EXCEPT !.shown = x])
      PROVE  RowsHeld(t) /\ rows'[t].outcome = rows[t].outcome
  BY <1>1, <1>2, <1>7, RowKinds
<1>8. ASSUME NEW x, Note(t, [rows[t] EXCEPT !.answers = x])
      PROVE  RowsHeld(t) /\ rows'[t].outcome = rows[t].outcome
  BY <1>1, <1>2, <1>8, RowKinds
<1>9. ASSUME NEW x, NEW y, Note(t, [rows[t] EXCEPT !.shown = x, !.answers = y])
      PROVE  RowsHeld(t) /\ rows'[t].outcome = rows[t].outcome
  BY <1>1, <1>2, <1>9, RowKinds
<1>10. ASSUME NEW outcome, Note(t, Over(t, outcome))
       PROVE  /\ RowsHeld(t)
              /\ rows'[t].outcome = IF Open(t) THEN outcome
                                    ELSE rows[t].outcome
  <2>1. IsRow(Over(t, outcome)) /\ Over(t, outcome).outcome = outcome
    <3> DEFINE row == rows[t]
               new == Over(t, outcome)
               y == ckpt'[t].status
               z == Subjects(t)
    <3>1. new = [row EXCEPT !.outcome = outcome, !.status = y, !.completed = z]
      BY Zenon DEF Over
    <3>2. row \in [outcome : {row.outcome}, status : {row.status},
                  calls : {row.calls}, shown : {row.shown},
                  answers : {row.answers}, log : {row.log},
                  completed : {row.completed}]
      BY <1>1 DEF IsRow
    <3> HIDE DEF row, new, y, z
    <3>3. new \in [outcome : {outcome}, status : {y}, calls : {row.calls},
                  shown : {row.shown}, answers : {row.answers},
                  log : {row.log}, completed : {z}]
      BY <3>1, <3>2
    <3>4. /\ new.outcome = outcome /\ new.status = y /\ new.calls = row.calls
          /\ new.shown = row.shown /\ new.answers = row.answers
          /\ new.log = row.log /\ new.completed = z
      BY <3>3
    <3> QED
      BY <3>3, <3>4 DEF IsRow, new
  <2> QED
    BY <1>10, <2>1, RowsKept
<1> QED
  BY <1>4, <1>5, <1>6, <1>7, <1>8, <1>9, <1>10, Zenon

\* Nothing of the other threads changes.
LEMMA ExerciseElsewhere ==
    ASSUME NEW t \in Threads, ExerciseThread(t), Untouched(t),
           SPECS' = SPECS, path' = path, sequence'[t] = sequence[t],
           rows'[t] = rows[t], Noted(t)' = Noted(t)
    PROVE  ExerciseThread(t)'
<1>1. /\ ckpt'[t] = ckpt[t] /\ run'[t] = run[t] /\ shown'[t] = shown[t]
      /\ consent'[t] = consent[t] /\ aborts'[t] = aborts[t]
      /\ inbox'[t] = inbox[t]
      /\ \A r : r.thread = t => (r \in requests' <=> r \in requests)
  BY DEF Untouched
<1>2. OfCase(t)' /\ (OfGraph(t)' <=> OfGraph(t)) /\ (Open(t)' <=> Open(t))
  BY DEF ExerciseThread, OfCase, OfGraph, Open
<1>3. ASSUME GraphThread(t)
      PROVE  GraphThread(t)'
  <2>1. \A f : Question(t, f) => Question(t, f)'
    BY DEF Question, FormAt, FormOf, FormKey
  <2>2. \A state : FormAt(t, state)' = FormAt(t, state)
    BY DEF FormAt, FormOf, FormKey
  <2>3. GraphAsks(t)'
    BY <1>1, <1>3, <2>1, <2>2 DEF GraphThread, GraphAsks
  <2>4. GraphSends(t)'
    BY <1>1, <1>3, <2>1 DEF GraphThread, GraphSends
  <2> QED
    BY <1>3, <2>3, <2>4, UntouchedRuns DEF GraphThread
<1>4. OneCall(t) => OneCall(t)'
  BY <1>1, <1>2 DEF OneCall
<1>5. ASSUME AdapterThread(t)
      PROVE  AdapterThread(t)'
  <2>1. \A state : FormOf(state)' = FormOf(state)
    BY DEF FormOf, FormKey
  <2>2. Second(t)' = Second(t) /\ HasAsked(t)' = HasAsked(t)
    BY <1>1 DEF Second, HasAsked
  <2> QED
    BY <1>1, <1>2, <1>4, <1>5, <2>1, <2>2 DEF AdapterThread, First
<1>6. ASSUME DirectThread(t)
      PROVE  DirectThread(t)'
  <2>1. \A state : FormOf(state)' = FormOf(state)
    BY DEF FormOf, FormKey
  <2> QED
    BY <1>1, <1>2, <1>4, <1>6, <2>1 DEF DirectThread
<1> QED
  BY <1>2, <1>3, <1>5, <1>6 DEF ExerciseThread

\* Two forms of one operation with the same keys are one form.
LEMMA SameForm ==
    ASSUME NEW t \in Threads, NEW s \in AllStates, NEW n \in Nat,
           FormAt(t, AtRound(s, n)).keys = FormAt(t, s).keys
    PROVE  FormAt(t, AtRound(s, n)) = FormAt(t, s)
<1>1. CASE path[t] = "process_restart"
  BY <1>1 DEF FormAt
<1>2. CASE path[t] # "process_restart"
  <2>1. /\ FormAt(t, s) = FormOf(s)
        /\ FormAt(t, AtRound(s, n)) = FormOf(AtRound(s, n))
    BY <1>2 DEF FormAt
  <2>2. {FormKey(AtRound(s, n))} = {FormKey(s)}
    BY <2>1 DEF FormOf
  <2>3. s.round \in Nat /\ AtRound(s, s.round) = s
    BY RoundFacts DEF AllStates
  <2>4. FormKey(AtRound(s, n)) = FormKey(AtRound(s, s.round))
    BY <2>2, <2>3
  <2>5. n = s.round
    BY <2>3, <2>4, RoundOfKey
  <2> QED
    BY <2>3, <2>5
<1> QED
  BY <1>1, <1>2

\* A thread of the round graph that moves, or whose call is lost.
LEMMA GraphMoves ==
    ASSUME NEW t \in Threads, ExerciseShape, GraphThread(t), Runs(t)',
           SPECS' = SPECS, path' = path, Noted(t)' = Noted(t),
           \/ Rests(t) \/ Calls(t) \/ Receives(t) \/ Shows(t) \/ Consents(t)
           \/ Finishes(t) \/ Dies(t)
    PROVE  GraphThread(t)'
<1> DEFINE c == ckpt[t]
<1>1. /\ c \in States(ExerciseFrames, ExerciseMaps, ExerciseResults \cup {None})
      /\ inbox[t] \in ExerciseFrames /\ consent[t].frame \in ExerciseFrames
      /\ \A r \in requests : r.thread \in Threads
  BY DEF ExerciseShape, Shape
<1>2. c.frame \in ExerciseFrames /\ c.roundIndex \in Nat
      /\ c.next \in {"begin", "review", "continue", "finish", "end"}
  BY <1>1 DEF States
<1>3. \A f \in {inbox[t], c.frame, consent[t].frame} :
          /\ f.kind \in {"none", "input", "terminal"}
          /\ f.kind = "none" <=> f = NoFrame
          /\ f.kind = "input" => /\ f.token \in AllStates /\ f.token # NoToken
                                 /\ f.form # NoForm
          /\ f.kind # "input" => f.token = NoToken
  BY <1>1, <1>2, ExerciseKinds
<1>4. GraphAsks(t) /\ GraphSends(t)
  BY DEF GraphThread
<1>5. NoConsent.frame = NoFrame /\ NoFrame.kind = "none"
  BY DEF NoConsent, NoFrame
<1>6. /\ \A f : Question(t, f)' <=> Question(t, f)
      /\ \A state : FormAt(t, state)' = FormAt(t, state)
      /\ path'[t] = path[t] /\ SPECS'[t] = SPECS[t]
  BY DEF Question, FormAt, FormOf, FormKey
<1>7. SUFFICES GraphAsks(t)' /\ GraphSends(t)'
  BY DEF GraphThread
<1>8. ASSUME requests' \subseteq requests, consent'[t] = consent[t]
      PROVE  GraphSends(t)'
  BY <1>4, <1>6, <1>8 DEF GraphSends
<1>9. ASSUME ckpt'[t] = c, shown'[t] = shown[t], consent'[t] = consent[t],
             inbox'[t] \in {inbox[t], NoFrame}
      PROVE  GraphAsks(t)'
  BY <1>4, <1>5, <1>6, <1>9 DEF GraphAsks
<1>10. CASE Rests(t) \/ Dies(t)
  BY <1>8, <1>9, <1>10 DEF Rests, Dies
<1>11. CASE Calls(t)
  <2>1. PICK tok, answers :
           /\ requests' = requests \cup
                  {[thread |-> t, attempt |-> aborts[t], token |-> tok,
                    answers |-> answers]}
           /\ \/ /\ ckpt[t].next = "begin"
                 /\ tok = NoToken /\ answers = NoAnswers
              \/ /\ ckpt[t].next = "continue"
                 /\ tok = ckpt[t].frame.token /\ answers = ckpt[t].answers
    BY <1>11, Zenon DEF Calls
  <2>2. consent'[t] = consent[t]
    BY <1>11 DEF Calls
  <2>3. ASSUME tok # NoToken
        PROVE  /\ consent[t] # NoConsent /\ tok.round <= MaxRounds
               /\ \E n \in Nat : /\ n <= consent[t].frame.token.round
                                 /\ tok = AtRound(consent[t].frame.token, n)
    <3>1. /\ c.frame.kind = "input" /\ tok = c.frame.token
          /\ c.roundIndex = tok.round /\ c.roundIndex <= MaxRounds
          /\ consent[t].frame = c.frame
      BY <1>4, <2>1, <2>3 DEF GraphAsks
    <3>2. tok \in AllStates /\ tok.round \in Nat /\ AtRound(tok, tok.round) = tok
      BY <1>3, <3>1, RoundFacts DEF AllStates
    <3> QED
      BY <1>5, <3>1, <3>2
  <2>4. GraphSends(t)'
    BY <1>4, <1>6, <2>1, <2>2, <2>3 DEF GraphSends
  <2> QED
    BY <1>9, <1>11, <2>4 DEF Calls
<1>12. CASE Receives(t)
  <2>1. PICK n : /\ \/ ckpt[t].next = "begin" /\ n = 1
                    \/ ckpt[t].next = "continue" /\ n = ckpt[t].roundIndex + 1
                 /\ ckpt'[t] = [c EXCEPT
                     !.frame = inbox[t], !.answers = NoAnswers,
                     !.roundIndex = n, !.status = "received",
                     !.next = IF inbox[t].kind = "input" THEN "review"
                              ELSE "finish"]
    BY <1>12, Zenon DEF Receives
  <2>2. /\ inbox[t] # NoFrame /\ inbox'[t] = NoFrame /\ requests' = requests
        /\ shown'[t] = shown[t] /\ consent'[t] = consent[t]
    BY <1>12, Zenon DEF Receives
  <2>3. /\ ckpt'[t].frame = inbox[t] /\ ckpt'[t].roundIndex = n
        /\ ckpt'[t].status = "received"
        /\ inbox[t].kind = "input" => ckpt'[t].next = "review"
        /\ inbox[t].kind # "input" => ckpt'[t].next = "finish"
    BY <1>1, <2>1 DEF States
  <2>4. ASSUME inbox[t].kind = "terminal"
       PROVE  GraphAsks(t)'
    <3>1. /\ ckpt'[t].next = "finish" /\ ckpt'[t].frame.kind = "terminal"
          /\ ckpt'[t].status = "received"
      BY <2>3, <2>4
    <3> QED
      BY <3>1, Zenon DEF GraphAsks
  <2>5. ASSUME inbox[t].kind = "input", c.next = "begin"
       PROVE  GraphAsks(t)'
    <3>1. /\ ckpt'[t].next = "review" /\ ckpt'[t].status = "received"
          /\ ckpt'[t].frame = inbox[t] /\ ckpt'[t].roundIndex = 1
      BY <2>1, <2>3, <2>5
    <3>2. /\ Question(t, inbox[t]) /\ inbox[t].token.round = 1
          /\ shown'[t] = NoForm /\ consent'[t] = NoConsent
      BY <1>4, <2>2, <2>5 DEF GraphAsks
    <3>3. Question(t, ckpt[t].frame)'
      BY <1>6, <3>1, <3>2
    <3> QED
      BY <2>5, <3>1, <3>2, <3>3 DEF GraphAsks
  <2>6. ASSUME inbox[t].kind = "input", c.next = "continue"
       PROVE  GraphAsks(t)'
    <3> DEFINE old == c.frame.token
               new == inbox[t].token
    <3>1. /\ old \in AllStates /\ old.round \in Nat /\ new \in AllStates
          /\ new.round \in Nat
      BY <1>3, <1>4, <2>6 DEF GraphAsks, AllStates
    <3>2. /\ new = AtRound(old, old.round + 1) /\ Question(t, inbox[t])
          /\ c.roundIndex = old.round /\ c.frame.form = FormAt(t, old)
          /\ shown[t] = c.frame.form /\ consent[t].frame = c.frame
      BY <1>4, <2>6 DEF GraphAsks, Question
    <3>3. consent[t].frame.token = old
      BY <3>2
    <3> HIDE DEF old, new
    <3>4. new.round = old.round + 1 /\ AtRound(new, old.round) = old
      BY <3>1, <3>2, RoundFacts
    <3>5. n = new.round /\ old.round <= new.round
      BY <2>1, <2>6, <3>1, <3>2, <3>4
    <3>6. /\ ckpt'[t].next = "review" /\ ckpt'[t].frame = inbox[t]
          /\ ckpt'[t].status = "received" /\ ckpt'[t].roundIndex = new.round
      BY <2>3, <2>6, <3>5
    <3>7. Question(t, ckpt[t].frame)'
      BY <1>6, <3>2, <3>6
    <3>8. shown'[t] = FormAt(t, AtRound(new, old.round))
      BY <2>2, <3>2, <3>4
    <3>9. \E m \in Nat : shown'[t] = FormAt(t, AtRound(inbox[t].token, m))
      BY <3>1, <3>8 DEF new
    <3>10. consent'[t].frame.token = AtRound(new, old.round)
      BY <2>2, <3>3, <3>4
    <3>11. \E m \in Nat : /\ m <= inbox[t].token.round
                          /\ consent'[t].frame.token
                                = AtRound(inbox[t].token, m)
      BY <3>1, <3>5, <3>10 DEF new
    <3>12. ckpt'[t].roundIndex = inbox[t].token.round
      BY <3>6 DEF new
    <3> QED
      BY <1>6, <2>6, <3>6, <3>7, <3>9, <3>11, <3>12 DEF GraphAsks
  <2> QED
    BY <1>3, <1>8, <2>1, <2>2, <2>4, <2>5, <2>6
<1>13. CASE Shows(t)
  <2>1. /\ ckpt'[t] = ckpt[t] /\ consent'[t] = consent[t]
        /\ inbox'[t] = inbox[t]
        /\ requests' = requests /\ c.next = "review"
        /\ shown'[t] = c.frame.form
    BY <1>13 DEF Shows
  <2>2. /\ c.frame.kind = "input" /\ c.frame.form = FormAt(t, c.frame.token)
    BY <1>4, <2>1 DEF GraphAsks, Question
  <2>3. /\ c.frame.token.round \in Nat
        /\ AtRound(c.frame.token, c.frame.token.round) = c.frame.token
    BY <1>3, <2>2, RoundFacts DEF AllStates
  <2>4. shown'[t] = FormAt(t, AtRound(c.frame.token, c.frame.token.round))
    BY <2>1, <2>2, <2>3
  <2>5. GraphAsks(t)'
    BY <1>4, <1>6, <2>1, <2>3, <2>4 DEF GraphAsks
  <2> QED
    BY <1>8, <2>1, <2>5
<1>14. CASE Consents(t)
  <2>1. PICK answers \in Resumes :
           /\ \/ shown[t] = ckpt[t].frame.form
              \/ BlindResume /\ DOMAIN answers = shown[t].keys
           /\ ValidAnswers(ckpt[t].frame.form.keys, answers)
           /\ ckpt'[t] = [c EXCEPT !.answers = answers,
                              !.status = "answered", !.next = "continue"]
           /\ consent'[t] = [form |-> shown[t], frame |-> ckpt[t].frame,
                             answers |-> answers]
    BY <1>14, Zenon DEF Consents
  <2>2. /\ shown'[t] = shown[t] /\ inbox'[t] = inbox[t]
        /\ requests' = requests /\ WithinLimit(t)
        /\ c.next = "review" /\ shown[t] # NoForm /\ inbox[t] = NoFrame
    BY <1>14 DEF Consents
  <2>3. /\ ckpt'[t].frame = c.frame /\ ckpt'[t].answers = answers
        /\ ckpt'[t].next = "continue" /\ ckpt'[t].roundIndex = c.roundIndex
    BY <1>1, <2>1 DEF States
  <2>4. /\ c.frame.kind = "input" /\ Question(t, c.frame)
        /\ c.roundIndex = c.frame.token.round
        /\ \E n \in Nat : shown[t] = FormAt(t, AtRound(c.frame.token, n))
        /\ \/ consent[t] = NoConsent
           \/ \E n \in Nat : /\ n <= c.frame.token.round
                             /\ consent[t].frame.token
                                   = AtRound(c.frame.token, n)
    BY <1>4, <2>2 DEF GraphAsks
  <2>5. /\ c.frame.token \in AllStates /\ c.frame.token.round \in Nat
        /\ c.frame.form = FormAt(t, c.frame.token)
        /\ c.frame.token.round <= SPECS[t].rounds
    BY <1>3, <2>4 DEF Question, AllStates
  <2>6. shown[t] = c.frame.form
    <3>1. CASE DOMAIN answers = shown[t].keys
      BY <2>1, <2>4, <2>5, <3>1, SameForm DEF ValidAnswers
    <3> QED
      BY <2>1, <3>1
  <2>7. /\ consent'[t].form = c.frame.form /\ consent'[t].frame = c.frame
        /\ consent'[t].answers = answers
    BY <2>1, <2>6
  <2>8. GraphAsks(t)'
    BY <1>5, <1>6, <2>1, <2>2, <2>3, <2>4, <2>6 DEF GraphAsks, WithinLimit
  <2>9. \/ consent[t] = NoConsent
        \/ /\ consent[t].frame.token.round \in Nat
           /\ consent[t].frame.token.round <= c.frame.token.round
           /\ consent[t].frame.token.subject = c.frame.token.subject
           /\ \A n \in Nat : AtRound(consent[t].frame.token, n)
                                 = AtRound(c.frame.token, n)
    BY <2>4, <2>5, RoundFacts
  <2>10. ASSUME NEW r \in requests', r.thread = t, r.token # NoToken
         PROVE  /\ consent'[t] # NoConsent /\ r.token.round <= MaxRounds
                /\ \E n \in Nat : /\ n <= consent'[t].frame.token.round
                                  /\ r.token
                                        = AtRound(consent'[t].frame.token, n)
    <3>1. consent'[t] # NoConsent
      BY <1>5, <2>4, <2>7
    <3>2. /\ consent[t] # NoConsent /\ r.token.round <= MaxRounds
      BY <1>4, <2>2, <2>10 DEF GraphSends
    <3>3. PICK n \in Nat : /\ n <= consent[t].frame.token.round
                           /\ r.token = AtRound(consent[t].frame.token, n)
      BY <1>4, <2>2, <2>10 DEF GraphSends
    <3>4. n <= c.frame.token.round /\ r.token = AtRound(c.frame.token, n)
      BY <2>5, <2>9, <3>2, <3>3
    <3> QED
      BY <2>7, <3>1, <3>2, <3>4
  <2>11. ASSUME Noted(t) # {}
         PROVE  /\ path[t] # "process_restart" /\ consent'[t] # NoConsent
                /\ Noted(t) = {consent'[t].frame.token.subject}
                /\ consent'[t].frame.token.round = SPECS[t].rounds
                /\ SPECS[t].rounds <= MaxRounds
    <3>1. /\ path[t] # "process_restart" /\ consent[t] # NoConsent
          /\ Noted(t) = {consent[t].frame.token.subject}
          /\ consent[t].frame.token.round = SPECS[t].rounds
          /\ SPECS[t].rounds <= MaxRounds
      BY <1>4, <2>11 DEF GraphSends
    <3>2. c.frame.token.round = SPECS[t].rounds
      BY <2>5, <2>9, <3>1
    <3> QED
      BY <1>5, <2>4, <2>7, <2>9, <3>1, <3>2
  <2>12. GraphSends(t)'
    BY <1>6, <2>4, <2>7, <2>10, <2>11 DEF GraphSends
  <2> QED
    BY <2>8, <2>12
<1>15. CASE Finishes(t)
  <2>1. PICK status \in {"tool_error", "completed"} :
            ckpt'[t] = [c EXCEPT !.result = c.frame.result,
                                 !.status = status, !.next = "end"]
    BY <1>15, Zenon DEF Finishes
  <2>2. /\ c.next = "finish" /\ consent'[t] = consent[t]
        /\ requests' = requests
    BY <1>15 DEF Finishes
  <2>3. /\ ckpt'[t].frame = c.frame /\ ckpt'[t].status = status
        /\ ckpt'[t].next = "end"
    BY <1>1, <2>1 DEF States
  <2>4. GraphAsks(t)'
    BY <1>4, <2>1, <2>2, <2>3 DEF GraphAsks
  <2> QED
    BY <1>8, <2>2, <2>4
<1> QED
  BY <1>10, <1>11, <1>12, <1>13, <1>14, <1>15

\* A reply to a thread of the round graph, and what it may have recorded.
LEMMA GraphReply ==
    ASSUME NEW t \in Threads, ExerciseShape, GraphThread(t),
           SPECS' = SPECS, path' = path,
           NEW r \in requests, r.thread = t,
           NEW f \in ExerciseFrames, f # NoFrame, Deliver(r, f),
           f.kind = "terminal" => r.token # NoToken,
           f.kind = "input" =>
               /\ Question(t, f)
               /\ \/ r.token = NoToken /\ f.token.round = 1
                  \/ /\ r.token # NoToken
                     /\ f.token = AtRound(r.token, r.token.round + 1),
           \/ Noted(t)' = Noted(t)
           \/ /\ path[t] # "process_restart" /\ consent[t] # NoConsent
              /\ Noted(t)' = {consent[t].frame.token.subject}
              /\ consent[t].frame.token.round = SPECS[t].rounds
              /\ SPECS[t].rounds <= MaxRounds
    PROVE  GraphThread(t)'
<1>1. GraphAsks(t) /\ GraphSends(t) /\ Runs(t)
  BY DEF GraphThread
<1>2. Runs(t)'
  BY <1>1, ChannelRuns DEF ExerciseShape
<1>3. /\ \A g : Question(t, g)' <=> Question(t, g)
      /\ \A state : FormAt(t, state)' = FormAt(t, state)
      /\ path'[t] = path[t] /\ SPECS'[t] = SPECS[t]
  BY DEF Question, FormAt, FormOf, FormKey
<1>4. /\ ckpt'[t] = ckpt[t] /\ shown'[t] = shown[t]
      /\ consent'[t] = consent[t] /\ requests' \subseteq requests
  BY DEF Deliver
<1>5. GraphSends(t)'
  BY <1>1, <1>3, <1>4 DEF GraphSends
<1>6. f.kind \in {"input", "terminal"}
  BY ExerciseKinds
<1>7. CASE Awaited(r)
  <2>1. inbox'[t] = f
    BY <1>7, ReplyMoves DEF Gets, ExerciseShape
  <2>2. /\ ckpt[t].next \in {"begin", "continue"}
        /\ ckpt[t].next = "begin" => r.token = NoToken
        /\ ckpt[t].next = "continue" => r.token = ckpt[t].frame.token
    BY <1>1, <1>7, CurrentCall
  <2>3. ckpt[t].next = "continue" => r.token # NoToken
    <3>1. ckpt[t].frame \in ExerciseFrames
      BY DEF ExerciseShape, Shape, States
    <3>2. ckpt[t].next = "continue" => ckpt[t].frame.kind = "input"
      BY <1>1 DEF GraphAsks
    <3> QED
      BY <2>2, <3>1, <3>2, ExerciseKinds
  <2>4. CASE ckpt[t].next = "begin"
    <3>1. f.kind = "input" /\ Question(t, f) /\ f.token.round = 1
      BY <1>6, <2>2, <2>4
    <3>2. ckpt'[t].next = "begin" /\ Question(t, inbox[t])'
      BY <1>3, <1>4, <2>1, <2>4, <3>1
    <3>3. GraphAsks(t)'
      BY <1>1, <1>3, <1>4, <2>1, <2>4, <3>1, <3>2 DEF GraphAsks
    <3> QED
      BY <1>2, <1>5, <3>3 DEF GraphThread
  <2>5. CASE ckpt[t].next = "continue"
    <3>1. f.kind = "input" =>
              /\ Question(t, f)
              /\ f.token = AtRound(ckpt[t].frame.token,
                                   ckpt[t].frame.token.round + 1)
      BY <2>2, <2>3, <2>5
    <3>2. ckpt'[t].next = "continue" /\ (Question(t, inbox[t])' <=> Question(t, f))
      BY <1>3, <1>4, <2>1, <2>5
    <3>3. GraphAsks(t)'
      BY <1>1, <1>3, <1>4, <2>1, <2>5, <3>1, <3>2 DEF GraphAsks
    <3> QED
      BY <1>2, <1>5, <3>3 DEF GraphThread
  <2> QED
    BY <2>2, <2>4, <2>5
<1>8. CASE ~ Awaited(r)
  <2>1. inbox'[t] = inbox[t]
    BY <1>8, ReplyMoves DEF Rests, ExerciseShape
  <2>2. GraphAsks(t)'
    BY <1>1, <1>3, <1>4, <2>1 DEF GraphAsks
  <2> QED
    BY <1>2, <1>5, <2>2 DEF GraphThread
<1> QED
  BY <1>7, <1>8

\* What is recorded for a thread is recorded for no other.
LEMMA RecordedGrows ==
    ASSUME NEW t \in Threads, NEW s \in AllSubjects,
           completed \in Seq([case : Threads, subject : AllSubjects]),
           completed' = Append(completed, [case |-> t, subject |-> s])
    PROVE  /\ completed' \in Seq([case : Threads, subject : AllSubjects])
           /\ Noted(t)' = Noted(t) \cup {s}
           /\ \A u \in Threads \ {t} : Noted(u)' = Noted(u)
<1> DEFINE new == [case |-> t, subject |-> s]
           ThisRow == [case : Threads, subject : AllSubjects]
<1>1. new \in ThisRow /\ new.case = t /\ new.subject = s
  OBVIOUS
<1> HIDE DEF new, ThisRow
<1>2. /\ completed' \in Seq(ThisRow)
      /\ Len(completed) \in Nat /\ DOMAIN completed = 1 .. Len(completed)
      /\ DOMAIN completed' = 1 .. Len(completed) + 1
      /\ \A i \in 1 .. Len(completed) : completed'[i] = completed[i]
      /\ completed'[Len(completed) + 1] = new
  BY <1>1 DEF new, ThisRow
<1>3. /\ DOMAIN completed' = DOMAIN completed \cup {Len(completed) + 1}
      /\ Len(completed) + 1 \notin DOMAIN completed
  BY <1>2
<1>4. ASSUME NEW u \in Threads
      PROVE  Noted(u)' = Noted(u) \cup {x \in {s} : u = t}
  <2>1. ASSUME NEW x \in Noted(u)'
        PROVE  x \in Noted(u) \cup {y \in {s} : u = t}
    <3>1. PICK i \in DOMAIN completed' :
              completed'[i].case = u /\ x = completed'[i].subject
      BY DEF Noted
    <3> QED
      BY <1>1, <1>2, <1>3, <3>1 DEF Noted
  <2>2. ASSUME NEW x \in Noted(u)
        PROVE  x \in Noted(u)'
    <3>1. PICK i \in DOMAIN completed :
              completed[i].case = u /\ x = completed[i].subject
      BY DEF Noted
    <3> QED
      BY <1>2, <1>3, <3>1 DEF Noted
  <2>3. u = t => s \in Noted(u)'
    BY <1>1, <1>2, <1>3 DEF Noted
  <2> QED
    BY <2>1, <2>2, <2>3
<1>5. Noted(t)' = Noted(t) \cup {s}
  BY <1>4
<1>6. \A u \in Threads \ {t} : Noted(u)' = Noted(u)
  BY <1>4
<1> QED
  BY <1>2, <1>5, <1>6

\* A step that is about one thread.
About(t) ==
    /\ SPECS' = SPECS /\ path' = path /\ RowsHeld(t)
    /\ sequence' \in [Threads -> Nat]
    /\ completed' \in Seq([case : Threads, subject : AllSubjects])
    /\ \A u \in Threads \ {t} :
           /\ Untouched(u) /\ sequence'[u] = sequence[u]
           /\ Noted(u)' = Noted(u)

LEMMA ExerciseStep ==
    ASSUME ExerciseInv, NEW t \in Threads, About(t), ExerciseShape',
           OfGraph(t) => GraphThread(t)',
           path[t] \in AdapterPaths => AdapterThread(t)',
           path[t] = "direct_session" => DirectThread(t)'
    PROVE  ExerciseInv'
<1>1. Books /\ \A u \in Threads : ExerciseThread(u)
  BY DEF ExerciseInv
<1>2. Books'
  BY <1>1 DEF Books, About, RowsHeld
<1>3. ExerciseThread(t)'
  <2>1. OfCase(t)' /\ (OfGraph(t)' <=> OfGraph(t)) /\ path'[t] = path[t]
    BY <1>1 DEF About, ExerciseThread, OfCase, OfGraph
  <2> QED
    BY <2>1 DEF ExerciseThread
<1>4. ASSUME NEW u \in Threads \ {t}
      PROVE  ExerciseThread(u)'
  <2>1. /\ Untouched(u) /\ sequence'[u] = sequence[u]
        /\ Noted(u)' = Noted(u) /\ rows'[u] = rows[u]
        /\ SPECS' = SPECS /\ path' = path
    BY DEF About, RowsHeld
  <2> QED
    BY <1>1, <2>1, ExerciseElsewhere
<1> QED
  BY <1>2, <1>3, <1>4 DEF ExerciseInv

\* What a client's step, a lost call and a reply leave to the other threads.
LEMMA ClientAbout ==
    ASSUME ExerciseInv, NEW t \in Threads, RowsHeld(t),
           SPECS' = SPECS, path' = path, sequence' = sequence,
           completed' = completed,
           \/ Client(t)
           \/ \E r \in requests : r.thread = t /\ Lose(r)
           \/ \E r \in requests : \E f : r.thread = t /\ Deliver(r, f)
    PROVE  About(t)
<1>1. /\ completed \in Seq([case : Threads, subject : AllSubjects])
      /\ sequence \in [Threads -> Nat] /\ ExerciseShape
  BY DEF ExerciseInv, Books
<1>2. \A u \in Threads \ {t} : Untouched(u)
  BY <1>1, Others DEF ExerciseShape
<1>3. \A u \in Threads : Noted(u)' = Noted(u)
  BY DEF Noted
<1> QED
  BY <1>1, <1>2, <1>3 DEF About

\* Each step of the round graph, in the experiment that drives it.
LEMMA GraphRows ==
    ASSUME ExerciseInv, NEW t \in Threads, ExerciseClient(t)
    PROVE  /\ RowsHeld(t) /\ OfGraph(t)
           /\ Client(t) \/ UNCHANGED clientVars
<1>1. DOMAIN rows = Threads /\ \A u \in Threads : IsRow(rows[u])
  BY DEF ExerciseInv, Books
<1>2. UNCHANGED rows => RowsHeld(t)
  BY <1>1 DEF RowsHeld
<1>3. /\ \A tok, answers : Note(t, Called(t, tok, answers)) => RowsHeld(t)
      /\ Note(t, CallReturned(t)) => RowsHeld(t)
      /\ \A x : Note(t, [rows[t] EXCEPT !.shown = x]) => RowsHeld(t)
      /\ \A x : Note(t, [rows[t] EXCEPT !.answers = x]) => RowsHeld(t)
      /\ \A outcome : Note(t, Over(t, outcome)) => RowsHeld(t)
  BY <1>1, NotesKept
<1>4. Driven(t) => OfGraph(t)
  BY DEF Driven, OfGraph
<1>5. CASE GraphInvokes(t)
  BY <1>2, <1>4, <1>5 DEF GraphInvokes, Client
<1>6. CASE GraphCalls(t)
  BY <1>3, <1>4, <1>6, Zenon DEF GraphCalls, Client
<1>7. CASE GraphReceives(t)
  BY <1>3, <1>4, <1>7, Zenon DEF GraphReceives, Client
<1>8. CASE GraphShows(t)
  <2>1. \/ Note(t, Over(t, "raised"))
        \/ Note(t, [rows[t] EXCEPT !.shown =
                        Append(rows[t].shown, ckpt[t].frame.form)])
    BY <1>8, Zenon DEF GraphShows
  <2> QED
    BY <1>3, <1>4, <1>8, <2>1, Zenon DEF GraphShows, Client
<1>9. CASE GraphResumes(t)
  <2>1. Note(t, [rows[t] EXCEPT !.answers =
                     Append(rows[t].answers, consent'[t].answers)])
    BY <1>9, Zenon DEF GraphResumes
  <2> QED
    BY <1>3, <1>4, <1>9, <2>1, Zenon DEF GraphResumes, Client
<1>10. CASE GraphRefuses(t)
  <2>1. PICK answers \in Resumes : /\ ckpt' = ckpt
           /\ Note(t, Over(t, IF DOMAIN answers # shown[t].keys
                              THEN "keys_differ" ELSE "raised"))
    BY <1>10, Zenon DEF GraphRefuses
  <2>2. Driven(t) /\ UNCHANGED <<run, shown, consent, aborts, requests, inbox>>
    BY <1>10, Zenon DEF GraphRefuses
  <2> QED
    BY <1>3, <1>4, <2>1, <2>2, Zenon DEF clientVars
<1>11. CASE GraphReturns(t)
  BY <1>3, <1>4, <1>11, Zenon DEF GraphReturns, Client
<1>12. CASE GraphRaises(t)
  BY <1>3, <1>4, <1>12, Zenon DEF GraphRaises, Client
<1> QED
  BY <1>5, <1>6, <1>7, <1>8, <1>9, <1>10, <1>11, <1>12 DEF ExerciseClient

LEMMA GraphClient ==
    ASSUME ExerciseInv, NEW t \in Threads, ExerciseClient(t),
           UNCHANGED <<serverVars, path>>
    PROVE  ExerciseInv'
<1>1. RowsHeld(t) /\ OfGraph(t) /\ (Client(t) \/ UNCHANGED clientVars)
  BY GraphRows
<1>2. /\ SPECS' = SPECS /\ path' = path /\ sequence' = sequence
      /\ completed' = completed
  BY DEF serverVars
<1>3. /\ ExerciseShape /\ GraphThread(t) /\ Runs(t)
      /\ \A u \in Threads : Noted(u)' = Noted(u)
  BY <1>1, <1>2 DEF ExerciseInv, ExerciseThread, GraphThread, Noted
<1>4. path[t] \notin AdapterPaths /\ path[t] # "direct_session"
  BY <1>1 DEF OfGraph, AdapterPaths
<1>5. CASE Client(t)
  <2>1. ExerciseShape'
    BY <1>3, <1>5, ExerciseShapes, ClientShape DEF ExerciseShape
  <2>2. Runs(t)'
    BY <1>3, <1>5, ClientRuns DEF ExerciseShape
  <2>3. \/ Rests(t) \/ Calls(t) \/ Receives(t) \/ Shows(t) \/ Consents(t)
        \/ Finishes(t) \/ Dies(t)
    BY <1>3, <1>5, ClientMoves DEF ExerciseShape
  <2>4. GraphThread(t)'
    BY <1>2, <1>3, <2>2, <2>3, GraphMoves
  <2>5. About(t)
    BY <1>1, <1>2, <1>5, ClientAbout
  <2> QED
    BY <1>4, <2>1, <2>4, <2>5, ExerciseStep
<1>6. CASE UNCHANGED clientVars
  <2>1. /\ ckpt' = ckpt /\ run' = run /\ shown' = shown
        /\ consent' = consent /\ aborts' = aborts /\ requests' = requests
        /\ inbox' = inbox
    BY <1>6 DEF clientVars
  <2>2. ExerciseShape'
    BY <1>3, <2>1 DEF ExerciseShape, Shape
  <2>3. \A u \in Threads : Untouched(u)
    BY <2>1 DEF Untouched
  <2>4. Runs(t)' /\ Rests(t)
    BY <1>3, <2>1, <2>3, UntouchedRuns DEF Rests
  <2>5. GraphThread(t)'
    BY <1>2, <1>3, <2>4, GraphMoves
  <2>6. About(t)
    BY <1>1, <1>2, <1>3, <2>3 DEF About, ExerciseInv, Books
  <2> QED
    BY <1>4, <2>2, <2>5, <2>6, ExerciseStep
<1> QED
  BY <1>1, <1>5, <1>6

\* The frames that the servers send.
LEMMA ServerFrames ==
    /\ \A isError \in BOOLEAN,
          text \in {"skipped", "failed", "previewed", "mismatch",
                    "completed-from-process-B"},
          subject \in AllSubjects \cup {None} :
           /\ Text(isError, text, subject) \in ExerciseFrames
           /\ Text(isError, text, subject).kind = "terminal"
    /\ \A s \in AllStates, form \in ExerciseForms :
           /\ InputFrame(s, form) \in ExerciseFrames
           /\ InputFrame(s, form).kind = "input"
           /\ InputFrame(s, form).token = s
           /\ InputFrame(s, form).form = form
<1>1. ASSUME NEW isError \in BOOLEAN,
             NEW text \in {"skipped", "failed", "previewed", "mismatch",
                           "completed-from-process-B"},
             NEW subject \in AllSubjects \cup {None}
      PROVE  /\ Text(isError, text, subject) \in ExerciseFrames
             /\ Text(isError, text, subject).kind = "terminal"
  <2> DEFINE result == [isError |-> isError, text |-> text, subject |-> subject]
  <2>1. result \in ExerciseResults
    BY DEF ExerciseResults
  <2>2. Text(isError, text, subject) = TerminalFrame(result)
    BY Zenon DEF Text
  <2> HIDE DEF result
  <2> QED
    BY <2>1, <2>2 DEF ExerciseFrames, TerminalFrame
<1>2. ASSUME NEW s \in AllStates, NEW form \in ExerciseForms
      PROVE  /\ InputFrame(s, form) \in ExerciseFrames
             /\ InputFrame(s, form).kind = "input"
             /\ InputFrame(s, form).token = s
             /\ InputFrame(s, form).form = form
  BY DEF ExerciseFrames, InputFrame
<1> QED
  BY <1>1, <1>2

\* The state a call carries, and what the probe's server does with a call.
LEMMA TokenFacts ==
    ASSUME ExerciseShape, NEW r \in requests
    PROVE  /\ r.thread \in Threads
           /\ r.token # NoToken => r.token \in AllStates
<1>1. /\ r.thread \in Threads
      /\ r.token \in {f.token : f \in ExerciseFrames}
  BY DEF ExerciseShape, Shape
<1>2. PICK f \in ExerciseFrames : r.token = f.token
  BY <1>1
<1>3. f.kind = "input" => f.token \in AllStates
  BY ExerciseKinds
<1>4. f.kind # "input" => f.token = NoToken
  BY ExerciseKinds
<1> QED
  BY <1>1, <1>2, <1>3, <1>4

LEMMA InitialServed ==
    ASSUME ExerciseInv, NEW r \in requests, ServeInitial(r)
    PROVE  /\ r.token = NoToken /\ SPECS' = SPECS /\ completed' = completed
           /\ sequence' \in [Threads -> Nat]
           /\ sequence'[r.thread] = sequence[r.thread] + 1
           /\ \A u \in Threads \ {r.thread} : sequence'[u] = sequence[u]
           /\ \E s \in AllStates :
                  /\ s = [case |-> r.thread, round |-> 1,
                          serial |-> sequence[r.thread] + 1,
                          subject |-> IF SPECS[r.thread].drift
                                         /\ sequence[r.thread] + 1 > 1
                                      THEN "draft-B" ELSE "draft-A"]
                  /\ FormOf(s) \in ExerciseForms
                  /\ Deliver(r, InputFrame(s, FormOf(s)))
<1> DEFINE t == r.thread
           s == [case |-> t, round |-> 1, serial |-> sequence[t] + 1,
                 subject |-> IF SPECS[t].drift /\ sequence[t] + 1 > 1
                             THEN "draft-B" ELSE "draft-A"]
<1>1. sequence \in [Threads -> Nat] /\ t \in Threads
  BY TokenFacts DEF ExerciseInv, Books
<1>2. s \in AllStates
  BY <1>1 DEF AllStates
<1>3. /\ r.token = NoToken /\ SPECS' = SPECS /\ completed' = completed
      /\ sequence' = [sequence EXCEPT ![t] = sequence[t] + 1]
      /\ Deliver(r, InputFrame(s, FormOf(s)))
  BY Zenon DEF ServeInitial, Ask
<1> HIDE DEF s
<1>4. FormOf(s) \in ExerciseForms
  BY <1>1, <1>2, FormFacts
<1>5. sequence[t] + 1 \in Nat
  BY <1>1
<1> QED
  BY <1>1, <1>2, <1>3, <1>4, <1>5 DEF s

LEMMA RefusalServed ==
    ASSUME NEW r \in requests, ServeRefusal(r)
    PROVE  /\ r.token # NoToken /\ UNCHANGED serverVars
           /\ \E f \in ExerciseFrames : f.kind = "terminal" /\ Deliver(r, f)
<1>1. /\ r.token # NoToken /\ UNCHANGED serverVars
      /\ \/ Deliver(r, Text(FALSE, "skipped", None))
         \/ Deliver(r, Text(TRUE, "failed", None))
  BY Zenon DEF ServeRefusal
<1> QED
  BY <1>1, ServerFrames

LEMMA NextRoundServed ==
    ASSUME ExerciseInv, NEW r \in requests, ServeNextRound(r)
    PROVE  /\ r.token # NoToken /\ SPECS' = SPECS /\ completed' = completed
           /\ sequence' = sequence
           /\ r.token.round < SPECS[r.token.case].rounds
           /\ \E s \in AllStates :
                  /\ s = AtRound(r.token, r.token.round + 1)
                  /\ FormOf(s) \in ExerciseForms
                  /\ Deliver(r, InputFrame(s, FormOf(s)))
<1> DEFINE s == AtRound(r.token, r.token.round + 1)
<1>1. /\ r.token # NoToken /\ SPECS' = SPECS /\ completed' = completed
      /\ sequence' = sequence
      /\ r.token.round < SPECS[r.token.case].rounds
      /\ Deliver(r, InputFrame(s, FormOf(s)))
  BY Zenon DEF ServeNextRound, Ask, AtRound
<1>2. r.token \in AllStates /\ r.thread \in Threads
  BY <1>1, TokenFacts DEF ExerciseInv
<1>3. r.token.round + 1 \in Nat \ {0}
  BY <1>2 DEF AllStates
<1>4. s \in AllStates
  BY <1>2, <1>3, RoundFacts
<1>5. FormOf(s) \in ExerciseForms
  BY <1>2, <1>4, FormFacts
<1> QED
  BY <1>1, <1>4, <1>5

LEMMA PreviewServed ==
    ASSUME ExerciseInv, NEW r \in requests, ServePreview(r)
    PROVE  /\ r.token # NoToken /\ SPECS' = SPECS /\ sequence' = sequence
           /\ r.token \in AllStates
           /\ r.token.round = SPECS[r.token.case].rounds
           /\ completed' = Append(completed, [case |-> r.token.case,
                                              subject |-> r.token.subject])
           /\ \E f \in ExerciseFrames : f.kind = "terminal" /\ Deliver(r, f)
<1>1. /\ r.token # NoToken /\ SPECS' = SPECS /\ sequence' = sequence
      /\ r.token.round = SPECS[r.token.case].rounds
      /\ completed' = Append(completed, [case |-> r.token.case,
                                         subject |-> r.token.subject])
      /\ Deliver(r, Text(FALSE, "previewed", r.token.subject))
  BY Zenon DEF ServePreview
<1>2. r.token \in AllStates
  BY <1>1, TokenFacts DEF ExerciseInv
<1>3. r.token.subject \in AllSubjects
  BY <1>2 DEF AllStates, AllSubjects
<1>4. /\ Text(FALSE, "previewed", r.token.subject) \in ExerciseFrames
      /\ Text(FALSE, "previewed", r.token.subject).kind = "terminal"
  BY <1>3, ServerFrames
<1> QED
  BY <1>1, <1>2, <1>4

\* A reply keeps the shape and is about the thread that called.
LEMMA ReplyAbout ==
    ASSUME ExerciseInv, NEW r \in requests, NEW f \in ExerciseFrames,
           Deliver(r, f), RowsHeld(r.thread), SPECS' = SPECS, path' = path,
           sequence' \in [Threads -> Nat],
           \A u \in Threads \ {r.thread} : sequence'[u] = sequence[u],
           \/ completed' = completed
           \/ \E s \in AllSubjects :
                  completed' = Append(completed, [case |-> r.thread,
                                                  subject |-> s])
    PROVE  ExerciseShape' /\ About(r.thread)
<1>1. /\ ExerciseShape /\ r.thread \in Threads
      /\ completed \in Seq([case : Threads, subject : AllSubjects])
  BY TokenFacts DEF ExerciseInv, Books
<1>2. ExerciseShape'
  BY <1>1, ExerciseShapes, ChannelShape DEF ExerciseShape
<1>3. \A u \in Threads \ {r.thread} : Untouched(u)
  BY <1>1, Others DEF ExerciseShape
<1>4. /\ completed' \in Seq([case : Threads, subject : AllSubjects])
      /\ \A u \in Threads \ {r.thread} : Noted(u)' = Noted(u)
  <2>1. CASE completed' = completed
    BY <1>1, <2>1 DEF Noted
  <2>2. CASE completed' # completed
    BY <1>1, <2>2, RecordedGrows
  <2> QED
    BY <2>1, <2>2
<1> QED
  BY <1>2, <1>3, <1>4 DEF About

\* A reply to the round graph, of its own form or of the end.
LEMMA GraphAnswered ==
    ASSUME ExerciseInv, NEW r \in requests, OfGraph(r.thread),
           NEW f \in ExerciseFrames, f # NoFrame, Deliver(r, f),
           ExerciseShape', About(r.thread),
           f.kind = "terminal" => r.token # NoToken,
           f.kind = "input" =>
               /\ Question(r.thread, f)
               /\ \/ r.token = NoToken /\ f.token.round = 1
                  \/ /\ r.token # NoToken
                     /\ f.token = AtRound(r.token, r.token.round + 1),
           \/ Noted(r.thread)' = Noted(r.thread)
           \/ /\ path[r.thread] # "process_restart"
              /\ consent[r.thread] # NoConsent
              /\ Noted(r.thread)' = {consent[r.thread].frame.token.subject}
              /\ consent[r.thread].frame.token.round = SPECS[r.thread].rounds
              /\ SPECS[r.thread].rounds <= MaxRounds
    PROVE  ExerciseInv'
<1> DEFINE t == r.thread
<1>1. t \in Threads /\ ExerciseShape /\ GraphThread(t)
  BY TokenFacts DEF ExerciseInv, ExerciseThread
<1>2. path[t] \notin AdapterPaths /\ path[t] # "direct_session"
  BY DEF OfGraph, AdapterPaths
<1>3. SPECS' = SPECS /\ path' = path
  BY DEF About
<1>4. GraphThread(t)'
  BY <1>1, <1>3, GraphReply
<1> QED
  BY <1>1, <1>2, <1>4, ExerciseStep

\* What a server's log does to the rows.
LEMMA LogKept ==
    ASSUME ExerciseInv, NEW t \in Threads, NEW phase, NEW subject,
           Note(t, Log(t, phase, subject))
    PROVE  RowsHeld(t) /\ (Open(t)' <=> Open(t))
<1>1. DOMAIN rows = Threads /\ \A u \in Threads : IsRow(rows[u])
  BY DEF ExerciseInv, Books
<1>2. RowsHeld(t) /\ rows'[t].outcome = rows[t].outcome
  BY <1>1, NotesKept
<1> QED
  BY <1>2 DEF Open

\* The probe's server and the round graph.
LEMMA GraphServed ==
    ASSUME ExerciseInv, NEW r \in requests, path' = path, RowsHeld(r.thread),
           path[r.thread] = "checkpointed_round_graph",
           \/ ServeInitial(r) \/ ServeRefusal(r) \/ ServeNextRound(r)
           \/ ServePreview(r)
    PROVE  ExerciseInv'
<1> DEFINE t == r.thread
<1>1. /\ t \in Threads /\ ExerciseShape /\ GraphThread(t) /\ OfGraph(t)
      /\ sequence \in [Threads -> Nat]
      /\ SPECS \in [Threads -> Specs]
      /\ r.token # NoToken => r.token \in AllStates
  BY TokenFacts DEF ExerciseInv, ExerciseThread, Books, OfGraph
<1>2. \A s \in AllStates : FormAt(t, s) = FormOf(s)
  BY DEF FormAt
<1>3. \A form \in ExerciseForms, s \in AllStates : InputFrame(s, form) # NoFrame
  BY DEF InputFrame, NoFrame
<1>4. SPECS[t].rounds \in Nat \ {0}
  <2>1. SPECS[t] \in Specs /\ MaxForms \in Nat
    BY <1>1, PreviewAssumption
  <2>2. SPECS[t].rounds \in 1 .. MaxForms
    BY <2>1, PreviewAssumption
  <2> QED
    BY <2>1, <2>2
<1>5. r.token # NoToken =>
          /\ r.token.case = t /\ consent[t] # NoConsent
          /\ r.token.round <= MaxRounds
          /\ r.token.round <= consent[t].frame.token.round
          /\ r.token.subject = consent[t].frame.token.subject
          /\ consent[t].frame.token.round <= SPECS[t].rounds
  <2> SUFFICES ASSUME r.token # NoToken
               PROVE  /\ r.token.case = t /\ consent[t] # NoConsent
                      /\ r.token.round <= MaxRounds
                      /\ r.token.round <= consent[t].frame.token.round
                      /\ r.token.subject = consent[t].frame.token.subject
                      /\ consent[t].frame.token.round <= SPECS[t].rounds
    OBVIOUS
  <2>1. /\ consent[t] # NoConsent /\ Question(t, consent[t].frame)
        /\ r.token.round <= MaxRounds
    BY <1>1 DEF GraphThread, GraphSends
  <2>2. PICK n \in Nat : /\ n <= consent[t].frame.token.round
                         /\ r.token = AtRound(consent[t].frame.token, n)
    BY <1>1 DEF GraphThread, GraphSends
  <2>3. /\ consent[t].frame.token \in AllStates
        /\ consent[t].frame.token.case = t
        /\ consent[t].frame.token.round <= SPECS[t].rounds
    BY <2>1 DEF Question
  <2>4. /\ r.token.round = n /\ r.token.case = t
        /\ r.token.subject = consent[t].frame.token.subject
    BY <2>2, <2>3, RoundFacts
  <2> QED
    BY <2>1, <2>2, <2>3, <2>4
<1>6. CASE ServeInitial(r)
  <2>1. PICK s \in AllStates :
            /\ s.case = t /\ s.round = 1 /\ FormOf(s) \in ExerciseForms
            /\ Deliver(r, InputFrame(s, FormOf(s)))
    BY <1>6, InitialServed
  <2>2. /\ r.token = NoToken /\ SPECS' = SPECS /\ completed' = completed
        /\ sequence' \in [Threads -> Nat]
        /\ \A u \in Threads \ {t} : sequence'[u] = sequence[u]
    BY <1>6, InitialServed
  <2> DEFINE f == InputFrame(s, FormOf(s))
  <2>3. /\ f \in ExerciseFrames /\ f.kind = "input" /\ f.token = s
        /\ f.form = FormOf(s) /\ f # NoFrame
    BY <1>3, <2>1, ServerFrames
  <2> HIDE DEF f
  <2>4. ExerciseShape' /\ About(t)
    BY <2>1, <2>2, <2>3, ReplyAbout DEF f
  <2>5. Question(t, f)
    BY <1>2, <1>4, <2>1, <2>3 DEF Question
  <2>6. Noted(t)' = Noted(t)
    BY <2>2 DEF Noted
  <2>7. Deliver(r, f)
    BY <2>1 DEF f
  <2> QED
    BY <1>1, <2>1, <2>2, <2>3, <2>4, <2>5, <2>6, <2>7, GraphAnswered
<1>7. CASE ServeRefusal(r)
  <2>1. PICK f \in ExerciseFrames : f.kind = "terminal" /\ Deliver(r, f)
    BY <1>7, RefusalServed
  <2>2. /\ r.token # NoToken /\ SPECS' = SPECS /\ completed' = completed
        /\ sequence' = sequence
    BY <1>7, RefusalServed DEF serverVars
  <2>3. f # NoFrame
    BY <2>1 DEF NoFrame
  <2>4. ExerciseShape' /\ About(t)
    BY <1>1, <2>1, <2>2, ReplyAbout
  <2>5. Noted(t)' = Noted(t)
    BY <2>2 DEF Noted
  <2> QED
    BY <1>1, <2>1, <2>2, <2>3, <2>4, <2>5, GraphAnswered
<1>8. CASE ServeNextRound(r)
  <2>1. PICK s \in AllStates :
            /\ s = AtRound(r.token, r.token.round + 1)
            /\ FormOf(s) \in ExerciseForms
            /\ Deliver(r, InputFrame(s, FormOf(s)))
    BY <1>8, NextRoundServed
  <2>2. /\ r.token # NoToken /\ SPECS' = SPECS /\ completed' = completed
        /\ sequence' = sequence /\ r.token.round < SPECS[r.token.case].rounds
    BY <1>8, NextRoundServed
  <2> DEFINE f == InputFrame(s, FormOf(s))
  <2>3. /\ f \in ExerciseFrames /\ f.kind = "input" /\ f.token = s
        /\ f.form = FormOf(s) /\ f # NoFrame
    BY <1>3, <2>1, ServerFrames
  <2> HIDE DEF f
  <2>4. ExerciseShape' /\ About(t)
    BY <1>1, <2>1, <2>2, <2>3, ReplyAbout DEF f
  <2>5. Question(t, f)
    <3>1. r.token.round \in Nat
      BY <1>1, <2>2 DEF AllStates
    <3>2. s.case = t /\ s.round = r.token.round + 1
      BY <1>1, <1>5, <2>1, <2>2, <3>1, RoundFacts
    <3> QED
      BY <1>2, <1>4, <1>5, <2>2, <2>3, <3>1, <3>2 DEF Question
  <2>6. Noted(t)' = Noted(t)
    BY <2>2 DEF Noted
  <2>7. Deliver(r, f)
    BY <2>1 DEF f
  <2> QED
    BY <1>1, <2>1, <2>2, <2>3, <2>4, <2>5, <2>6, <2>7, GraphAnswered
<1>9. CASE ServePreview(r)
  <2>1. PICK f \in ExerciseFrames : f.kind = "terminal" /\ Deliver(r, f)
    BY <1>9, PreviewServed
  <2>2. /\ r.token # NoToken /\ SPECS' = SPECS /\ sequence' = sequence
        /\ r.token \in AllStates
        /\ r.token.round = SPECS[r.token.case].rounds
        /\ completed' = Append(completed, [case |-> r.token.case,
                                           subject |-> r.token.subject])
    BY <1>9, PreviewServed
  <2>3. f # NoFrame
    BY <2>1 DEF NoFrame
  <2>4. r.token.subject \in AllSubjects /\ r.token.case = t
    BY <1>5, <2>2 DEF AllStates, AllSubjects
  <2>5. ExerciseShape' /\ About(t)
    BY <1>1, <2>1, <2>2, <2>4, ReplyAbout
  <2>6. Noted(t)' = Noted(t) \cup {r.token.subject}
    BY <1>1, <2>2, <2>4, RecordedGrows DEF ExerciseInv, Books
  <2>7. consent[t].frame.token.round = SPECS[t].rounds
    <3>1. /\ consent[t].frame.token.round \in Nat
          /\ r.token.round \in Nat
      <4>1. Question(t, consent[t].frame)
        BY <1>1, <1>5, <2>2 DEF GraphThread, GraphSends
      <4> QED
        BY <2>2, <4>1 DEF Question, AllStates
    <3> QED
      BY <1>4, <1>5, <2>2, <2>4, <3>1
  <2>8. Noted(t)' = {consent[t].frame.token.subject}
    <3>1. Noted(t) # {} => Noted(t) = {consent[t].frame.token.subject}
      BY <1>1 DEF GraphThread, GraphSends
    <3> QED
      BY <1>5, <2>2, <2>6, <3>1
  <2> QED
    BY <1>1, <1>5, <2>1, <2>2, <2>3, <2>4, <2>5, <2>7, <2>8, GraphAnswered
<1> QED
  BY <1>6, <1>7, <1>8, <1>9

\* The doubles of the restart probe.
LEMMA RestartServed ==
    ASSUME ExerciseInv, NEW r \in requests, PhaseOneCall(r) \/ PhaseTwoCall(r)
    PROVE  ExerciseInv'
<1> DEFINE t == r.thread
<1>1. /\ t \in Threads /\ sequence \in [Threads -> Nat]
      /\ SPECS \in [Threads -> Specs]
  BY TokenFacts DEF ExerciseInv, Books
<1>2. TOKEN(t) \in AllStates /\ TOKEN(t).case = t /\ TOKEN(t).round = 1
  BY <1>1 DEF TOKEN, AllStates
<1>3. /\ path[t] = "process_restart" /\ path' = path /\ SPECS' = SPECS
      /\ sequence' = sequence /\ completed' = completed
      /\ \E phase, subject : Note(t, Log(t, phase, subject))
  BY Zenon DEF PhaseOneCall, PhaseTwoCall, serverVars
<1>4. RowsHeld(t) /\ OfGraph(t) /\ Noted(t)' = Noted(t)
  BY <1>1, <1>3, LogKept DEF OfGraph, Noted
<1>5. SPECS[t].rounds >= 1
  <2>1. SPECS[t] \in Specs /\ MaxForms \in Nat
    BY <1>1, PreviewAssumption
  <2>2. SPECS[t].rounds \in 1 .. MaxForms
    BY <2>1, PreviewAssumption
  <2> QED
    BY <2>1, <2>2
<1>6. CASE PhaseOneCall(r)
  <2> DEFINE f == InputFrame(TOKEN(t), RestartForm)
  <2>1. r.token = NoToken /\ Deliver(r, f)
    BY <1>6, Zenon DEF PhaseOneCall
  <2>2. /\ f \in ExerciseFrames /\ f.kind = "input" /\ f.token = TOKEN(t)
        /\ f.form = RestartForm
    BY <1>1, <1>2, FormFacts, ServerFrames
  <2> HIDE DEF f
  <2>3. f # NoFrame
    BY <2>2 DEF NoFrame
  <2>4. Question(t, f)
    <3>1. FormAt(t, f.token) = RestartForm
      BY <1>3 DEF FormAt
    <3> QED
      BY <1>2, <1>5, <2>2, <3>1 DEF Question
  <2>5. ExerciseShape' /\ About(t)
    BY <1>1, <1>3, <1>4, <2>1, <2>2, ReplyAbout
  <2> QED
    BY <1>2, <1>4, <2>1, <2>2, <2>3, <2>4, <2>5, GraphAnswered
<1>7. CASE PhaseTwoCall(r)
  <2> DEFINE f == Text(FALSE, "completed-from-process-B", None)
  <2>1. r.token = TOKEN(t) /\ Deliver(r, f)
    BY <1>7, Zenon DEF PhaseTwoCall
  <2>2. f \in ExerciseFrames /\ f.kind = "terminal"
    BY ServerFrames
  <2> HIDE DEF f
  <2>3. f # NoFrame
    BY <2>2 DEF NoFrame
  <2>4. r.token # NoToken
    BY <1>2, <2>1, StatesAreNoToken
  <2>5. ExerciseShape' /\ About(t)
    BY <1>1, <1>3, <1>4, <2>1, <2>2, ReplyAbout
  <2> QED
    BY <1>4, <2>1, <2>2, <2>3, <2>4, <2>5, GraphAnswered
<1> QED
  BY <1>6, <1>7

\* A reply to the one call of a thread without the graph.
LEMMA OneReply ==
    ASSUME ExerciseShape, NEW r \in requests, NEW f, Deliver(r, f),
           OneCall(r.thread), Open(r.thread)' <=> Open(r.thread)
    PROVE  /\ OneCall(r.thread)'
           /\ ckpt' = ckpt /\ run' = run /\ shown' = shown
           /\ inbox[r.thread] = NoFrame
           /\ inbox'[r.thread] = NoFrame \/ inbox'[r.thread] = f
           /\ \A s \in requests' : s.thread # r.thread
<1> DEFINE t == r.thread
<1>1. t \in Threads /\ DOMAIN inbox = Threads
  BY DEF ExerciseShape, Shape
<1>2. /\ ckpt' = ckpt /\ run' = run /\ shown' = shown
      /\ requests' = requests \ {r}
  BY DEF Deliver
<1>3. inbox[t] = NoFrame
  BY DEF OneCall
<1>4. /\ inbox'[t] = NoFrame \/ inbox'[t] = f
      /\ inbox'[t] # NoFrame => run[t] = "calling"
  <2>1. CASE Awaited(r)
    BY <1>1, <2>1 DEF Deliver, Awaited
  <2>2. CASE ~ Awaited(r)
    BY <1>3, <2>2 DEF Deliver
  <2> QED
    BY <2>1, <2>2
<1>5. \A s \in requests' : s.thread # t
  BY <1>2 DEF OneCall
<1>6. OneCall(t)'
  BY <1>2, <1>4, <1>5 DEF OneCall
<1> QED
  BY <1>2, <1>3, <1>4, <1>5, <1>6

\* A reply to the adapter.
LEMMA AdapterReply ==
    ASSUME ExerciseInv, NEW r \in requests, path[r.thread] \in AdapterPaths,
           NEW f, Deliver(r, f), ExerciseShape', About(r.thread),
           Open(r.thread)' <=> Open(r.thread),
           f.kind = "input" =>
               /\ sequence'[r.thread] = HasAsked(r.thread) + 1
               /\ f = IF shown[r.thread] = NoForm
                      THEN InputFrame(First(r.thread), FormOf(First(r.thread)))
                      ELSE InputFrame(Second(r.thread), FormOf(Second(r.thread))),
           \/ Noted(r.thread)' = Noted(r.thread)
           \/ /\ path[r.thread] # "bound_adapter"
              /\ shown[r.thread] # NoForm /\ ~ SPECS[r.thread].fresh
              /\ Noted(r.thread)' = {Second(r.thread).subject}
    PROVE  ExerciseInv'
<1> DEFINE t == r.thread
<1>1. t \in Threads /\ ExerciseShape /\ AdapterThread(t)
  BY TokenFacts DEF ExerciseInv, ExerciseThread
<1>2. ~ OfGraph(t) /\ path[t] # "direct_session"
  BY DEF OfGraph, AdapterPaths
<1>3. SPECS' = SPECS /\ path' = path
  BY DEF About
<1>4. /\ OneCall(t)'
      /\ ckpt' = ckpt /\ run' = run /\ shown' = shown
      /\ inbox[t] = NoFrame
      /\ inbox'[t] = NoFrame \/ inbox'[t] = f
      /\ \A s \in requests' : s.thread # t
  BY <1>1, OneReply DEF AdapterThread
<1>5. /\ \A state : FormOf(state)' = FormOf(state)
      /\ Second(t)' = Second(t) /\ First(t)' = First(t) /\ HasAsked(t)' = HasAsked(t)
  BY <1>3, <1>4 DEF FormOf, FormKey, Second, First, HasAsked
<1>6. Open(t) => run[t] = "calling"
  BY <1>1 DEF AdapterThread, OneCall
<1>7. NoFrame.kind = "none"
  BY DEF NoFrame
<1>8. inbox'[t].kind = "input" =>
          /\ shown[t] = NoForm =>
                 /\ inbox'[t] = InputFrame(First(t), FormOf(First(t)))
                 /\ sequence'[t] = 1
          /\ shown[t] # NoForm =>
                 inbox'[t] = InputFrame(Second(t), FormOf(Second(t)))
  BY <1>4, <1>7 DEF HasAsked
<1>9. Noted(t)' # {} =>
          /\ path[t] # "bound_adapter" /\ shown[t] # NoForm
          /\ ~ SPECS[t].fresh /\ Noted(t)' = {Second(t).subject}
  BY <1>1 DEF AdapterThread
<1>10. AdapterThread(t)'
  <2>1. /\ shown'[t] \in {NoForm, FormOf(First(t))'}
        /\ ckpt'[t].answers = NoAnswers \/ DOMAIN ckpt'[t].answers = shown'[t].keys
        /\ shown'[t] = NoForm => ckpt'[t].answers = NoAnswers
        /\ Open(t)' /\ run'[t] # "stopped" /\ shown'[t] # NoForm =>
               ckpt'[t].answers # NoAnswers
    BY <1>1, <1>4, <1>5 DEF AdapterThread
  <2>2. Open(t)' /\ run'[t] # "calling" => sequence'[t] = HasAsked(t)'
    BY <1>4, <1>6
  <2>3. inbox'[t].kind = "input" =>
          /\ shown'[t] = NoForm =>
                 /\ inbox'[t] = InputFrame(First(t), FormOf(First(t))')
                 /\ sequence'[t] = 1
          /\ shown'[t] # NoForm =>
                 inbox'[t] = InputFrame(Second(t)', FormOf(Second(t))')
    BY <1>4, <1>5, <1>8
  <2>4. Noted(t)' # {} =>
          /\ path'[t] # "bound_adapter" /\ shown'[t] # NoForm
          /\ ~ SPECS'[t].fresh /\ Noted(t)' = {Second(t)'.subject}
    BY <1>3, <1>4, <1>5, <1>9
  <2> QED
    BY <1>4, <1>5, <2>1, <2>2, <2>3, <2>4 DEF AdapterThread
<1> QED
  BY <1>1, <1>2, <1>10, ExerciseStep

\* A reply to the direct session.
LEMMA DirectReply ==
    ASSUME ExerciseInv, NEW r \in requests, path[r.thread] = "direct_session",
           NEW f, Deliver(r, f), ExerciseShape', About(r.thread),
           Open(r.thread)' <=> Open(r.thread),
           f.kind = "input" => /\ shown[r.thread] = NoForm
                               /\ f.token.case = r.thread
                               /\ f.form = FormOf(f.token),
           \/ Noted(r.thread)' = Noted(r.thread)
           \/ /\ shown[r.thread] # NoForm
              /\ Noted(r.thread)' = {shown[r.thread].subject}
    PROVE  ExerciseInv'
<1> DEFINE t == r.thread
<1>1. t \in Threads /\ ExerciseShape /\ DirectThread(t)
  BY TokenFacts DEF ExerciseInv, ExerciseThread
<1>2. ~ OfGraph(t) /\ path[t] \notin AdapterPaths
  BY DEF OfGraph, AdapterPaths
<1>3. SPECS' = SPECS
  BY DEF About
<1>4. /\ OneCall(t)'
      /\ run' = run /\ shown' = shown /\ inbox[t] = NoFrame
      /\ inbox'[t] = NoFrame \/ inbox'[t] = f
      /\ \A s \in requests' : s.thread # t
  BY <1>1, OneReply DEF DirectThread
<1>5. \A state : FormOf(state)' = FormOf(state)
  BY <1>3 DEF FormOf, FormKey
<1>6. NoFrame.kind = "none"
  BY DEF NoFrame
<1>7. inbox'[t].kind = "input" =>
          /\ shown'[t] = NoForm /\ inbox'[t].token.case = t
          /\ inbox'[t].form = FormOf(inbox[t].token)'
  BY <1>4, <1>5, <1>6
<1>8. DirectThread(t)'
  BY <1>1, <1>4, <1>7 DEF DirectThread
<1> QED
  BY <1>1, <1>2, <1>8, ExerciseStep

\* The servers and a thread without the graph.
LEMMA OneServed ==
    ASSUME ExerciseInv, NEW r \in requests, path' = path, RowsHeld(r.thread),
           Open(r.thread)' <=> Open(r.thread), ~ OfGraph(r.thread),
           \/ ServeInitial(r) \/ ServeRefusal(r) \/ ServeNextRound(r)
           \/ ServePreview(r) /\ ~ BoundElsewhere(r.thread, r.token)
           \/ /\ Deliver(r, Text(TRUE, "mismatch", None))
              /\ UNCHANGED serverVars
    PROVE  ExerciseInv'
<1> DEFINE t == r.thread
<1>1. /\ t \in Threads /\ ExerciseShape /\ OfCase(t)
      /\ sequence \in [Threads -> Nat] /\ path \in [Threads -> Paths]
      /\ r.token # NoToken => r.token \in AllStates
  BY TokenFacts DEF ExerciseInv, ExerciseThread, Books
<1>2. \/ path[t] \in AdapterPaths /\ AdapterThread(t)
      \/ path[t] = "direct_session" /\ DirectThread(t)
  BY <1>1 DEF OfGraph, Paths, IdentityPaths, AdapterPaths, ExerciseInv,
              ExerciseThread
<1>3. r.token # NoToken =>
          /\ r.token.case = t /\ shown[t] # NoForm
          /\ path[t] \in AdapterPaths => r.token = Second(t) /\ ~ SPECS[t].fresh
          /\ path[t] = "direct_session" => r.token.subject = shown[t].subject
  <2>1. path[t] = "direct_session" => path[t] \notin AdapterPaths
    BY DEF AdapterPaths
  <2> QED
    BY <1>2, <2>1 DEF AdapterThread, DirectThread, Second
<1>4. ASSUME NEW f \in ExerciseFrames, f.kind = "terminal", Deliver(r, f),
             SPECS' = SPECS, sequence' = sequence,
             \/ completed' = completed
             \/ /\ r.token # NoToken /\ path[t] # "bound_adapter"
                /\ completed' = Append(completed, [case |-> t,
                                                subject |-> r.token.subject])
      PROVE  ExerciseInv'
  <2>1. r.token # NoToken => r.token.subject \in AllSubjects
    BY <1>1 DEF AllStates, AllSubjects
  <2>2. ExerciseShape' /\ About(t)
    BY <1>1, <1>4, <2>1, ReplyAbout
  <2>3. \/ Noted(t)' = Noted(t)
        \/ /\ r.token # NoToken /\ path[t] # "bound_adapter"
           /\ Noted(t)' = Noted(t) \cup {r.token.subject}
    <3>1. completed' = completed => Noted(t)' = Noted(t)
      BY DEF Noted
    <3> QED
      BY <1>1, <1>4, <2>1, <3>1, RecordedGrows DEF ExerciseInv, Books
  <2>4. CASE path[t] \in AdapterPaths /\ AdapterThread(t)
    <3>1. Noted(t) # {} => Noted(t) = {Second(t).subject}
      BY <2>4 DEF AdapterThread
    <3> QED
      BY <1>3, <1>4, <2>2, <2>3, <2>4, <3>1, AdapterReply
  <2>5. CASE path[t] = "direct_session" /\ DirectThread(t)
    <3>1. Noted(t) # {} => Noted(t) = {shown[t].subject}
      BY <2>5 DEF DirectThread
    <3> QED
      BY <1>3, <1>4, <2>2, <2>3, <2>5, <3>1, DirectReply
  <2> QED
    BY <1>2, <2>4, <2>5
<1>5. CASE ServeInitial(r)
  <2>1. PICK s \in AllStates :
            /\ s = [case |-> t, round |-> 1, serial |-> sequence[t] + 1,
                    subject |-> IF SPECS[t].drift /\ sequence[t] + 1 > 1
                                THEN "draft-B" ELSE "draft-A"]
            /\ FormOf(s) \in ExerciseForms
            /\ Deliver(r, InputFrame(s, FormOf(s)))
    BY <1>5, InitialServed
  <2>2. /\ r.token = NoToken /\ SPECS' = SPECS /\ completed' = completed
        /\ sequence' \in [Threads -> Nat] /\ sequence'[t] = sequence[t] + 1
        /\ \A u \in Threads \ {t} : sequence'[u] = sequence[u]
    BY <1>5, InitialServed
  <2> DEFINE f == InputFrame(s, FormOf(s))
  <2>3. /\ f \in ExerciseFrames /\ f.kind = "input" /\ f.token = s
        /\ f.form = FormOf(s)
    BY <2>1, ServerFrames
  <2>4. Deliver(r, f)
    BY <2>1
  <2>5. s.case = t
    BY <2>1
  <2>6. CASE path[t] \in AdapterPaths /\ AdapterThread(t)
    <3>1. sequence[t] = HasAsked(t)
      BY <2>2, <2>6 DEF AdapterThread
    <3>2. s = IF shown[t] = NoForm THEN First(t) ELSE Second(t)
      <4>1. CASE shown[t] = NoForm
        <5>1. sequence[t] + 1 = 1 /\ ~ (sequence[t] + 1 > 1)
          BY <3>1, <4>1 DEF HasAsked
        <5> QED
          BY <2>1, <4>1, <5>1 DEF First
      <4>2. CASE shown[t] # NoForm
        <5>1. sequence[t] + 1 = 2 /\ sequence[t] + 1 > 1
          BY <3>1, <4>2 DEF HasAsked
        <5> QED
          BY <2>1, <4>2, <5>1 DEF Second
      <4> QED
        BY <4>1, <4>2
    <3>3. f = IF shown[t] = NoForm THEN InputFrame(First(t), FormOf(First(t)))
              ELSE InputFrame(Second(t), FormOf(Second(t)))
      BY <3>2
    <3> HIDE DEF f
    <3>4. ExerciseShape' /\ About(t)
      BY <2>2, <2>3, <2>4, ReplyAbout
    <3>5. Noted(t)' = Noted(t)
      BY <2>2 DEF Noted
    <3> QED
      BY <2>2, <2>4, <2>6, <3>1, <3>3, <3>4, <3>5, AdapterReply
  <2>7. CASE path[t] = "direct_session" /\ DirectThread(t)
    <3> HIDE DEF f
    <3>1. ExerciseShape' /\ About(t)
      BY <2>2, <2>3, <2>4, ReplyAbout
    <3>2. Noted(t)' = Noted(t)
      BY <2>2 DEF Noted
    <3>3. shown[t] = NoForm
      BY <2>2, <2>7 DEF DirectThread
    <3> QED
      BY <2>3, <2>4, <2>5, <2>7, <3>1, <3>2, <3>3, DirectReply
  <2> QED
    BY <1>2, <2>6, <2>7
<1>6. CASE ServeRefusal(r)
  BY <1>4, <1>6, RefusalServed DEF serverVars
<1>7. CASE ServeNextRound(r)
  <2>1. r.token # NoToken /\ r.token.round < SPECS[r.token.case].rounds
    BY <1>7, NextRoundServed
  <2>2. r.token.round \in Nat \ {0} /\ SPECS[t].rounds = 1
    BY <1>1, <2>1 DEF AllStates, OfCase
  <2> QED
    BY <1>3, <2>1, <2>2
<1>8. CASE ServePreview(r) /\ ~ BoundElsewhere(r.thread, r.token)
  <2>1. /\ r.token # NoToken /\ SPECS' = SPECS /\ sequence' = sequence
        /\ completed' = Append(completed, [case |-> r.token.case,
                                           subject |-> r.token.subject])
        /\ \E f \in ExerciseFrames : f.kind = "terminal" /\ Deliver(r, f)
    BY <1>8, PreviewServed
  <2>2. path[t] # "bound_adapter"
    <3> SUFFICES ASSUME path[t] = "bound_adapter"
                 PROVE  FALSE
      OBVIOUS
    <3>1. path[t] \in AdapterPaths /\ AdapterThread(t) /\ SPECS[t].drift
      BY <1>1, <1>2 DEF AdapterPaths, OfCase
    <3>2. shown[t] = FormOf(First(t))
      BY <1>3, <2>1, <3>1 DEF AdapterThread
    <3>3. shown[t].subject = "draft-A"
      BY <3>2 DEF FormOf, First
    <3>4. r.token.subject = "draft-B"
      BY <1>3, <2>1, <3>1 DEF Second
    <3> QED
      BY <1>8, <3>3, <3>4 DEF BoundElsewhere
  <2> QED
    BY <1>3, <1>4, <2>1, <2>2
<1>9. CASE Deliver(r, Text(TRUE, "mismatch", None)) /\ UNCHANGED serverVars
  BY <1>4, <1>9, ServerFrames DEF serverVars
<1> QED
  BY <1>5, <1>6, <1>7, <1>8, <1>9

\* The servers' steps in the experiments.
LEMMA LoggedServed ==
    ASSUME ExerciseInv, NEW r \in requests,
           ServeLogged(r) \/ IdentityAsks(r) \/ IdentityAnswers(r)
    PROVE  ExerciseInv'
<1> DEFINE t == r.thread
<1>1. t \in Threads
  BY TokenFacts DEF ExerciseInv
<1>2. path' = path /\ \E phase, subject : Note(t, Log(t, phase, subject))
  <2>1. CASE ServeLogged(r)
    BY <2>1, Zenon DEF ServeLogged
  <2>2. CASE IdentityAsks(r)
    BY <2>2, Zenon DEF IdentityAsks
  <2>3. CASE IdentityAnswers(r)
    BY <2>3, Zenon DEF IdentityAnswers
  <2> QED
    BY <2>1, <2>2, <2>3
<1>3. RowsHeld(t) /\ (Open(t)' <=> Open(t))
  BY <1>1, <1>2, LogKept
<1>4. CASE path[t] = "checkpointed_round_graph"
  <2>1. \/ ServeInitial(r) \/ ServeRefusal(r) \/ ServeNextRound(r)
        \/ ServePreview(r)
    <3>1. ServeLogged(r)
      BY <1>4 DEF IdentityAsks, IdentityAnswers, IdentityPaths
    <3> QED
      BY <3>1, Zenon DEF ServeLogged
  <2> QED
    BY <1>2, <1>3, <1>4, <2>1, GraphServed
<1>5. CASE path[t] # "checkpointed_round_graph"
  <2>1. ~ OfGraph(t)
    <3>1. path[t] \in {"original_adapter", "checkpointed_round_graph"}
                         \cup IdentityPaths
      BY DEF ServeLogged, IdentityAsks, IdentityAnswers
    <3> QED
      BY <1>5, <3>1 DEF OfGraph, IdentityPaths
  <2>2. \/ ServeInitial(r) \/ ServeRefusal(r) \/ ServeNextRound(r)
        \/ ServePreview(r) /\ ~ BoundElsewhere(r.thread, r.token)
        \/ /\ Deliver(r, Text(TRUE, "mismatch", None))
           /\ UNCHANGED serverVars
    <3>1. CASE ServeLogged(r)
      <4>1. ~ BoundElsewhere(t, r.token)
        BY <1>5, <3>1 DEF ServeLogged, BoundElsewhere
      <4> QED
        BY <3>1, <4>1, Zenon DEF ServeLogged
    <3>2. CASE IdentityAsks(r)
      BY <3>2, Zenon DEF IdentityAsks
    <3>3. CASE IdentityAnswers(r)
      BY <3>3, Zenon DEF IdentityAnswers
    <3> QED
      BY <3>1, <3>2, <3>3
  <2> QED
    BY <1>2, <1>3, <2>1, <2>2, OneServed
<1> QED
  BY <1>4, <1>5

\* A lost call, of whatever drives the thread.
LEMMA CallLost ==
    ASSUME ExerciseInv, NEW r \in requests, LoseCall(r)
    PROVE  ExerciseInv'
<1> DEFINE t == r.thread
<1>1. /\ t \in Threads /\ ExerciseShape /\ ExerciseThread(t)
      /\ DOMAIN rows = Threads /\ \A u \in Threads : IsRow(rows[u])
      /\ path \in [Threads -> Paths] /\ DOMAIN aborts = Threads
      /\ DOMAIN run = Threads
  BY TokenFacts DEF ExerciseInv, Books, ExerciseShape, Shape
<1>2. /\ Lose(r) /\ SPECS' = SPECS /\ path' = path /\ sequence' = sequence
      /\ completed' = completed
  BY DEF LoseCall, serverVars
<1>3. /\ RowsHeld(t)
      /\ rows'[t].outcome = IF Awaited(r) /\ Open(t) THEN "failed"
                            ELSE rows[t].outcome
  <2>1. CASE Awaited(r)
    BY <1>1, <2>1, NotesKept DEF LoseCall
  <2>2. CASE ~ Awaited(r)
    BY <1>1, <2>2 DEF LoseCall, RowsHeld
  <2> QED
    BY <2>1, <2>2
<1>4. ExerciseShape'
  BY <1>1, <1>2, ExerciseShapes, ChannelShape DEF ExerciseShape
<1>5. About(t)
  BY <1>1, <1>2, <1>3, ClientAbout
<1>6. Noted(t)' = Noted(t)
  BY <1>2 DEF Noted
<1>7. ASSUME OfGraph(t)
      PROVE  ExerciseInv'
  <2>1. GraphThread(t) /\ Runs(t)
    BY <1>1, <1>7 DEF ExerciseThread, GraphThread
  <2>2. Runs(t)'
    BY <1>1, <1>2, <2>1, ChannelRuns DEF ExerciseShape
  <2>3. Rests(t) \/ Dies(t)
    BY <1>1, <1>2, LoseMoves DEF ExerciseShape
  <2>4. GraphThread(t)'
    BY <1>1, <1>2, <1>6, <2>1, <2>2, <2>3, GraphMoves
  <2>5. path[t] \notin AdapterPaths /\ path[t] # "direct_session"
    BY <1>7 DEF OfGraph, AdapterPaths
  <2> QED
    BY <1>1, <1>4, <1>5, <2>4, <2>5, ExerciseStep
<1>8. /\ ckpt' = ckpt /\ shown' = shown /\ inbox' = inbox
      /\ requests' = requests \ {r}
      /\ Awaited(r) => run'[t] = "stopped" /\ run[t] = "calling"
      /\ ~ Awaited(r) => run'[t] = run[t]
  BY <1>1, <1>2 DEF Lose, Awaited
<1>9. ASSUME OneCall(t)
      PROVE  OneCall(t)' /\ inbox'[t] = NoFrame
             /\ (Open(t)' => Open(t) /\ run'[t] = run[t])
             /\ \A s \in requests' : s.thread # t
  <2>1. Awaited(r) => Open(t)
    BY <1>8, <1>9 DEF OneCall
  <2>2. Open(t)' <=> Open(t) /\ ~ Awaited(r)
    BY <1>3 DEF Open
  <2>3. inbox[t] = NoFrame
    BY <1>9 DEF OneCall
  <2>4. \A s \in requests' : s.thread # t
    BY <1>8, <1>9 DEF OneCall
  <2>5. OneCall(t)'
    BY <1>8, <1>9, <2>1, <2>2, <2>3, <2>4 DEF OneCall
  <2> QED
    BY <1>8, <2>2, <2>3, <2>4, <2>5
<1>10. NoFrame.kind = "none"
  BY DEF NoFrame
<1>11. /\ \A state : FormOf(state)' = FormOf(state)
       /\ Second(t)' = Second(t) /\ HasAsked(t)' = HasAsked(t)
       /\ path'[t] = path[t] /\ SPECS'[t] = SPECS[t]
       /\ sequence'[t] = sequence[t] /\ ckpt'[t] = ckpt[t]
       /\ shown'[t] = shown[t]
  BY <1>2, <1>8 DEF FormOf, FormKey, Second, HasAsked
<1>12. ASSUME path[t] \in AdapterPaths
       PROVE  ExerciseInv'
  <2>1. AdapterThread(t)
    BY <1>1, <1>12 DEF ExerciseThread
  <2>2. OneCall(t)' /\ inbox'[t] = NoFrame
        /\ (Open(t)' => Open(t) /\ run'[t] = run[t])
        /\ \A s \in requests' : s.thread # t
    BY <1>9, <2>1 DEF AdapterThread
  <2>3. AdapterThread(t)'
    BY <1>6, <1>10, <1>11, <2>1, <2>2 DEF AdapterThread, First
  <2>4. ~ OfGraph(t) /\ path[t] # "direct_session"
    BY <1>12 DEF OfGraph, AdapterPaths
  <2> QED
    BY <1>1, <1>4, <1>5, <2>3, <2>4, ExerciseStep
<1>13. ASSUME path[t] = "direct_session"
       PROVE  ExerciseInv'
  <2>1. DirectThread(t)
    BY <1>1, <1>13 DEF ExerciseThread
  <2>2. OneCall(t)' /\ inbox'[t] = NoFrame
        /\ (Open(t)' => Open(t) /\ run'[t] = run[t])
        /\ \A s \in requests' : s.thread # t
    BY <1>9, <2>1 DEF DirectThread
  <2>3. DirectThread(t)'
    BY <1>6, <1>10, <1>11, <2>1, <2>2 DEF DirectThread
  <2>4. ~ OfGraph(t) /\ path[t] \notin AdapterPaths
    BY <1>13 DEF OfGraph, AdapterPaths
  <2> QED
    BY <1>1, <1>4, <1>5, <2>3, <2>4, ExerciseStep
<1> QED
  BY <1>1, <1>7, <1>12, <1>13 DEF OfGraph, Paths, IdentityPaths, AdapterPaths

\* What a thread does past the round graph keeps the shape, and is about it.
Past(t) ==
    /\ \E c \in States(ExerciseFrames, ExerciseMaps, ExerciseResults \cup {None}) :
           ckpt' = [ckpt EXCEPT ![t] = c]
    /\ \E mode \in {"stopped", "running", "calling"} :
           run' = [run EXCEPT ![t] = mode]
    /\ \E f \in ExerciseFrames : shown' = [shown EXCEPT ![t] = f.form]
    /\ inbox' = [inbox EXCEPT ![t] = NoFrame]
    /\ consent' = consent /\ aborts' = aborts
    /\ \/ requests' = requests
       \/ \E f \in ExerciseFrames, answers \in ExerciseMaps :
              requests' = requests \cup
                  {[thread |-> t, attempt |-> aborts[t], token |-> f.token,
                    answers |-> answers]}

LEMMA PastAbout ==
    ASSUME ExerciseInv, NEW t \in Threads, Past(t), RowsHeld(t),
           UNCHANGED <<serverVars, path>>
    PROVE  ExerciseShape' /\ About(t)
<1>1. /\ ExerciseShape /\ sequence \in [Threads -> Nat]
      /\ completed \in Seq([case : Threads, subject : AllSubjects])
      /\ NoFrame \in ExerciseFrames
  BY ExerciseShapes DEF ExerciseInv, Books, Shapes
<1>2. /\ SPECS' = SPECS /\ path' = path /\ sequence' = sequence
      /\ completed' = completed
  BY DEF serverVars
<1> USE DEF ExerciseShape, Shape
<1>3. PICK c \in States(ExerciseFrames, ExerciseMaps, ExerciseResults \cup {None}) :
          ckpt' = [ckpt EXCEPT ![t] = c]
  BY DEF Past
<1>4. PICK mode \in {"stopped", "running", "calling"} :
          run' = [run EXCEPT ![t] = mode]
  BY DEF Past
<1>5. PICK f \in ExerciseFrames : shown' = [shown EXCEPT ![t] = f.form]
  BY DEF Past
<1>6. /\ inbox' = [inbox EXCEPT ![t] = NoFrame] /\ consent' = consent
      /\ aborts' = aborts
  BY DEF Past
<1>7. /\ ckpt' \in [Threads -> States(ExerciseFrames, ExerciseMaps,
                                   ExerciseResults \cup {None})]
      /\ run' \in [Threads -> {"stopped", "running", "calling"}]
      /\ shown' \in [Threads -> {g.form : g \in ExerciseFrames}]
      /\ inbox' \in [Threads -> ExerciseFrames]
  BY <1>1, <1>3, <1>4, <1>5, <1>6
<1>8. /\ requests' \subseteq [thread : Threads, attempt : Nat,
                              token : {g.token : g \in ExerciseFrames},
                              answers : ExerciseMaps]
      /\ \A u \in Threads \ {t} : \A r : r.thread = u =>
             (r \in requests' <=> r \in requests)
  <2>1. CASE requests' = requests
    BY <1>1, <2>1
  <2>2. CASE requests' # requests
    <3>1. PICK g \in ExerciseFrames, answers \in ExerciseMaps :
              requests' = requests \cup
                  {[thread |-> t, attempt |-> aborts[t], token |-> g.token,
                    answers |-> answers]}
      BY <2>2, Zenon DEF Past
    <3>2. aborts[t] \in Nat
      BY <1>1
    <3> QED
      BY <1>1, <3>1, <3>2
  <2> QED
    BY <2>1, <2>2
<1>9. ExerciseShape'
  BY <1>1, <1>6, <1>7, <1>8
<1>10. \A u \in Threads \ {t} : Untouched(u)
  BY <1>1, <1>3, <1>4, <1>5, <1>6, <1>8 DEF Untouched
<1>11. \A u \in Threads : Noted(u)' = Noted(u)
  BY <1>2 DEF Noted
<1> QED
  BY <1>1, <1>2, <1>9, <1>10, <1>11, Zenon DEF About

\* The forms of the adapter's two calls have the same key unless it is fresh.
LEMMA AdapterForms ==
    ASSUME NEW t \in Threads
    PROVE  /\ First(t) \in AllStates /\ Second(t) \in AllStates
           /\ FormOf(First(t)) # NoForm
           /\ FormOf(First(t)).keys = {FormKey(First(t))}
           /\ FormKey(First(t)) \in Nat \X Nat
           /\ FormOf(First(t)).keys = FormOf(Second(t)).keys => ~ SPECS[t].fresh
<1>1. First(t) \in AllStates /\ Second(t) \in AllStates
  BY DEF First, Second, AllStates
<1>2. /\ FormOf(First(t)).keys = {FormKey(First(t))}
      /\ FormOf(Second(t)).keys = {FormKey(Second(t))}
      /\ FormOf(First(t)) # NoForm /\ FormOf(First(t)) \in ExerciseForms
  BY <1>1, FormFacts
<1>3. FormKey(First(t)) \in Nat \X Nat
  BY <1>2 DEF ExerciseForms
<1>4. /\ First(t).case = t /\ First(t).serial = 1 /\ First(t).round = 1
      /\ Second(t).case = t /\ Second(t).serial = 2 /\ Second(t).round = 1
  BY DEF First, Second
<1>5. SPECS[t].fresh => FormKey(First(t)) # FormKey(Second(t))
  BY <1>4 DEF FormKey
<1> QED
  BY <1>1, <1>2, <1>3, <1>5

\* The end of a call, for the adapter and for the direct session.
LEMMA EndsOne ==
    ASSUME ExerciseInv, NEW t \in Threads, NEW outcome, outcome # "open",
           CallEnds(t, outcome), OneCall(t), Open(t),
           UNCHANGED <<serverVars, path>>
    PROVE  /\ Past(t) /\ RowsHeld(t) /\ OneCall(t)' /\ ~ Open(t)'
           /\ ckpt'[t].answers = ckpt[t].answers /\ shown' = shown
           /\ run'[t] = "stopped" /\ inbox'[t] = NoFrame
           /\ requests' = requests
<1>1. /\ ExerciseShape /\ DOMAIN rows = Threads
      /\ \A u \in Threads : IsRow(rows[u])
  BY DEF ExerciseInv, Books
<1>2. PICK status \in {"tool_error", "completed"} :
          ckpt' = [ckpt EXCEPT ![t].next = "end", ![t].result = inbox[t].result,
                               ![t].status = status]
  BY Zenon DEF CallEnds
<1>3. /\ run[t] = "calling" /\ inbox[t].kind = "terminal"
      /\ run' = [run EXCEPT ![t] = "stopped"]
      /\ inbox' = [inbox EXCEPT ![t] = NoFrame]
      /\ Note(t, Over(t, outcome))
      /\ shown' = shown /\ consent' = consent /\ aborts' = aborts
      /\ requests' = requests
  BY Zenon DEF CallEnds
<1>4. /\ ckpt[t] \in States(ExerciseFrames, ExerciseMaps, ExerciseResults \cup {None})
      /\ inbox[t].result \in ExerciseResults \cup {None}
      /\ DOMAIN ckpt = Threads /\ DOMAIN run = Threads
      /\ DOMAIN inbox = Threads
  BY <1>1, ExerciseShapes DEF ExerciseShape, Shape, Shapes
<1> DEFINE c == [ckpt[t] EXCEPT !.next = "end", !.result = inbox[t].result,
                               !.status = status]
<1>5. ckpt' = [ckpt EXCEPT ![t] = c]
  BY <1>2, <1>4, Zenon
<1>6. /\ c \in States(ExerciseFrames, ExerciseMaps, ExerciseResults \cup {None})
      /\ c.next = "end" /\ c.frame = ckpt[t].frame /\ c.status = status
      /\ c.answers = ckpt[t].answers
  BY <1>2, <1>4 DEF States
<1> HIDE DEF c
<1>7. /\ ckpt'[t] = c /\ run'[t] = "stopped" /\ inbox'[t] = NoFrame
  BY <1>3, <1>4, <1>5
<1>8. \E f \in ExerciseFrames : shown' = [shown EXCEPT ![t] = f.form]
  <2>1. shown \in [Threads -> {g.form : g \in ExerciseFrames}]
    BY <1>1 DEF ExerciseShape, Shape
  <2>2. PICK f \in ExerciseFrames : shown[t] = f.form
    BY <2>1
  <2>3. shown' = [shown EXCEPT ![t] = f.form]
    BY <1>3, <2>1, <2>2
  <2> QED
    BY <2>3
<1>9. Past(t)
  BY <1>3, <1>5, <1>6, <1>8 DEF Past
<1>10. RowsHeld(t) /\ rows'[t].outcome = outcome
  BY <1>1, <1>3, NotesKept
<1>11. ~ Open(t)'
  BY <1>10 DEF Open
<1>12. \A s \in requests : s.thread # t
  <2>1. inbox[t] # NoFrame
    BY <1>3 DEF NoFrame
  <2> QED
    BY <2>1 DEF OneCall
<1>13. OneCall(t)'
  BY <1>2, <1>3, <1>6, <1>7, <1>11, <1>12 DEF OneCall
<1> QED
  BY <1>3, <1>6, <1>7, <1>9, <1>10, <1>11, <1>13

\* The adapter's steps that the round graph has, too.
LEMMA AdapterClient ==
    ASSUME ExerciseInv, NEW t \in Threads, UNCHANGED <<serverVars, path>>,
           AdapterInvokes(t) \/ AdapterCalls(t) \/ AdapterRaises(t)
    PROVE  ExerciseInv'
<1>1. /\ path[t] \in AdapterPaths /\ Open(t) /\ Client(t)
  BY Zenon DEF AdapterInvokes, AdapterCalls, AdapterRaises, Adapted, Open, Client
<1>2. /\ ExerciseShape /\ AdapterThread(t) /\ DOMAIN rows = Threads
      /\ \A u \in Threads : IsRow(rows[u])
  BY <1>1 DEF ExerciseInv, ExerciseThread, Books
<1>3. /\ SPECS' = SPECS /\ path' = path /\ sequence' = sequence
      /\ completed' = completed
  BY DEF serverVars
<1>4. RowsHeld(t) /\ (AdapterRaises(t) \/ rows' = rows)
  BY <1>2, NotesKept, Zenon DEF AdapterInvokes, AdapterCalls, AdapterRaises, RowsHeld
<1>5. ExerciseShape'
  BY <1>1, <1>2, ExerciseShapes, ClientShape DEF ExerciseShape
<1>6. About(t)
  BY <1>1, <1>3, <1>4, ClientAbout
<1>7. /\ \A state : FormOf(state)' = FormOf(state)
      /\ Second(t)' = Second(t) /\ SPECS'[t] = SPECS[t] /\ path'[t] = path[t]
      /\ sequence'[t] = sequence[t] /\ Noted(t)' = Noted(t)
  BY <1>3 DEF FormOf, FormKey, Second, Noted
<1>8. OneCall(t) /\ NoFrame.kind = "none"
  BY <1>2 DEF AdapterThread, NoFrame
<1>9. /\ DOMAIN run = Threads /\ DOMAIN inbox = Threads
      /\ DOMAIN ckpt = Threads
  BY <1>2 DEF ExerciseShape, Shape
<1>10. SUFFICES AdapterThread(t)'
  <2>1. ~ OfGraph(t) /\ path[t] # "direct_session"
    BY <1>1 DEF OfGraph, AdapterPaths
  <2> QED
    BY <1>5, <1>6, <2>1, ExerciseStep
<1>11. CASE AdapterInvokes(t)
  <2>1. /\ run[t] = "stopped" /\ run'[t] = "running" /\ shown[t] = NoForm
        /\ ckpt' = ckpt /\ shown' = shown /\ requests' = requests
        /\ inbox' = inbox /\ rows' = rows
    BY <1>9, <1>11 DEF AdapterInvokes, Invoke
  <2>2. \A s \in requests : s.thread # t
    BY <1>1, <1>8, <2>1 DEF OneCall
  <2>3. OneCall(t)'
    BY <1>1, <1>8, <2>1, <2>2 DEF OneCall, Open
  <2>4. HasAsked(t)' = HasAsked(t) /\ Open(t)'
    BY <1>1, <2>1 DEF HasAsked, Open
  <2> QED
    BY <1>1, <1>2, <1>7, <2>1, <2>2, <2>3, <2>4 DEF AdapterThread, First
<1>12. CASE AdapterCalls(t)
  <2>1. /\ run[t] = "running" /\ run'[t] = "calling"
        /\ ckpt' = ckpt /\ shown' = shown /\ inbox' = inbox /\ rows' = rows
        /\ requests' = requests \cup {[thread |-> t, attempt |-> aborts[t],
                                      token |-> NoToken,
                                      answers |-> NoAnswers]}
    BY <1>9, <1>12 DEF AdapterCalls, BeginCall, CallTool
  <2>2. (\A s \in requests : s.thread # t) /\ inbox[t] = NoFrame
    BY <1>1, <1>8, <2>1 DEF OneCall
  <2>3. \A s \in requests' : s.thread = t =>
            /\ s = [thread |-> t, attempt |-> aborts[t], token |-> NoToken,
                    answers |-> NoAnswers]
            /\ s.token = NoToken
    BY <2>1, <2>2
  <2>4. OneCall(t)'
    BY <1>1, <1>8, <2>1, <2>2, <2>3 DEF OneCall, Open
  <2>5. HasAsked(t)' = HasAsked(t) /\ Open(t)' /\ sequence[t] = HasAsked(t)
    BY <1>1, <1>2, <2>1 DEF HasAsked, Open, AdapterThread
  <2> QED
    BY <1>1, <1>2, <1>7, <1>8, <2>1, <2>2, <2>3, <2>4, <2>5
       DEF AdapterThread, First
<1>13. CASE AdapterRaises(t)
  <2>1. /\ run'[t] = "stopped" /\ inbox'[t] = NoFrame
        /\ ckpt' = ckpt /\ shown' = shown /\ requests' = requests
    BY <1>9, <1>13 DEF AdapterRaises, Abort
  <2>2. ~ Open(t)'
    <3>1. rows'[t].outcome = "failed"
      BY <1>1, <1>2, <1>13, NotesKept DEF AdapterRaises
    <3> QED
      BY <3>1 DEF Open
  <2>3. OneCall(t)'
    BY <1>8, <2>1, <2>2 DEF OneCall
  <2>4. HasAsked(t)' = HasAsked(t)
    BY <2>1 DEF HasAsked
  <2> QED
    BY <1>2, <1>7, <1>8, <2>1, <2>2, <2>3, <2>4 DEF AdapterThread, First
<1> QED
  BY <1>11, <1>12, <1>13

\* The adapter's own steps.
LEMMA AdapterOwn ==
    ASSUME ExerciseInv, NEW t \in Threads, UNCHANGED <<serverVars, path>>,
           \/ AdapterShows(t) \/ AdapterResumes(t) \/ AdapterAnswers(t)
           \/ AdapterReturns(t)
    PROVE  ExerciseInv'
<1>1. path[t] \in AdapterPaths /\ Open(t)
  BY Zenon DEF AdapterShows, AdapterResumes, AdapterAnswers, AdapterReturns,
               Adapted, Open
<1>2. /\ ExerciseShape /\ AdapterThread(t) /\ DOMAIN rows = Threads
      /\ \A u \in Threads : IsRow(rows[u])
  BY <1>1 DEF ExerciseInv, ExerciseThread, Books
<1>3. /\ SPECS' = SPECS /\ path' = path /\ sequence' = sequence
      /\ completed' = completed
  BY DEF serverVars
<1>4. /\ \A state : FormOf(state)' = FormOf(state)
      /\ Second(t)' = Second(t) /\ SPECS'[t] = SPECS[t] /\ path'[t] = path[t]
      /\ sequence'[t] = sequence[t] /\ Noted(t)' = Noted(t)
  BY <1>3 DEF FormOf, FormKey, Second, Noted
<1>5. OneCall(t) /\ NoFrame.kind = "none"
  BY <1>2 DEF AdapterThread, NoFrame
<1>6. /\ ckpt \in [Threads -> States(ExerciseFrames, ExerciseMaps,
                                  ExerciseResults \cup {None})]
      /\ run \in [Threads -> {"stopped", "running", "calling"}]
      /\ shown \in [Threads -> {f.form : f \in ExerciseFrames}]
      /\ inbox \in [Threads -> ExerciseFrames]
  BY <1>2 DEF ExerciseShape, Shape
<1>7. SUFFICES Past(t) /\ RowsHeld(t) /\ AdapterThread(t)'
  <2>1. ~ OfGraph(t) /\ path[t] # "direct_session"
    BY <1>1 DEF OfGraph, AdapterPaths
  <2> QED
    BY <2>1, PastAbout, ExerciseStep
<1>8. \E c \in States(ExerciseFrames, ExerciseMaps, ExerciseResults \cup {None}) :
          ckpt = [ckpt EXCEPT ![t] = c]
  <2>1. ckpt = [ckpt EXCEPT ![t] = ckpt[t]] /\ ckpt[t] \in
            States(ExerciseFrames, ExerciseMaps, ExerciseResults \cup {None})
    BY <1>6
  <2> QED
    BY <2>1
<1>9. \E f \in ExerciseFrames : shown = [shown EXCEPT ![t] = f.form]
  <2>1. PICK f \in ExerciseFrames : shown[t] = f.form
    BY <1>6
  <2>2. shown = [shown EXCEPT ![t] = f.form]
    BY <1>6, <2>1
  <2> QED
    BY <2>2
<1>10. \E mode \in {"stopped", "running", "calling"} :
           run = [run EXCEPT ![t] = mode]
  <2>1. run[t] \in {"stopped", "running", "calling"}
        /\ run = [run EXCEPT ![t] = run[t]]
    BY <1>6
  <2> QED
    BY <2>1
<1>11. CASE AdapterShows(t)
  <2>1. /\ run[t] = "calling" /\ inbox[t].kind = "input"
        /\ ckpt[t].answers = NoAnswers
        /\ shown' = [shown EXCEPT ![t] = inbox[t].form]
        /\ run' = [run EXCEPT ![t] = "stopped"]
        /\ inbox' = [inbox EXCEPT ![t] = NoFrame]
        /\ Note(t, [rows[t] EXCEPT !.shown = <<inbox[t].form>>])
        /\ ckpt' = ckpt /\ consent' = consent /\ aborts' = aborts
        /\ requests' = requests
    BY <1>11, Zenon DEF AdapterShows
  <2>2. Past(t)
    <3>1. inbox[t] \in ExerciseFrames
      BY <1>6
    <3> QED
      BY <1>8, <2>1, <3>1 DEF Past
  <2>3. RowsHeld(t) /\ Open(t)'
    <3>1. RowsHeld(t) /\ rows'[t].outcome = rows[t].outcome
      BY <1>2, <2>1, NotesKept
    <3> QED
      BY <1>1, <3>1 DEF Open
  <2>4. /\ inbox[t] # NoFrame /\ shown[t] = NoForm
        /\ \A s \in requests : s.thread # t
    BY <1>1, <1>2, <1>5, <2>1 DEF AdapterThread, OneCall
  <2>5. /\ inbox[t] = InputFrame(First(t), FormOf(First(t)))
        /\ sequence[t] = 1 /\ Noted(t) = {}
    BY <1>2, <2>1, <2>4 DEF AdapterThread
  <2>6. inbox[t].form = FormOf(First(t)) /\ FormOf(First(t)) # NoForm
    BY <2>5, AdapterForms DEF InputFrame
  <2>7. /\ shown'[t] = FormOf(First(t)) /\ run'[t] = "stopped"
        /\ inbox'[t] = NoFrame /\ HasAsked(t)' = 1
    BY <1>6, <2>1, <2>6 DEF HasAsked
  <2>8. OneCall(t)'
    BY <1>5, <2>1, <2>3, <2>4, <2>7 DEF OneCall
  <2>9. AdapterThread(t)'
    BY <1>2, <1>4, <1>5, <2>1, <2>3, <2>4, <2>5, <2>6, <2>7, <2>8
       DEF AdapterThread, First
  <2> QED
    BY <2>2, <2>3, <2>9
<1>12. CASE AdapterResumes(t)
  <2>1. /\ run[t] = "stopped" /\ shown[t] # NoForm
        /\ run' = [run EXCEPT ![t] = "running"]
        /\ Note(t, [rows[t] EXCEPT !.answers = <<ckpt'[t].answers>>])
        /\ shown' = shown /\ consent' = consent /\ aborts' = aborts
        /\ requests' = requests /\ inbox' = inbox
    BY <1>12, Zenon DEF AdapterResumes
  <2>a. PICK k \in shown[t].keys : \E answers \in Submitted(t, k) :
            ckpt' = [ckpt EXCEPT ![t].answers = answers]
    BY <1>12, Zenon DEF AdapterResumes
  <2>2. PICK answers \in Submitted(t, k) :
            ckpt' = [ckpt EXCEPT ![t].answers = answers]
    BY <2>a
  <2>3. /\ inbox[t] = NoFrame /\ \A s \in requests : s.thread # t
        /\ sequence[t] = HasAsked(t) /\ shown[t] = FormOf(First(t))
    BY <1>1, <1>2, <1>5, <2>1 DEF AdapterThread, OneCall
  <2>4. shown[t].keys = {k} /\ k \in Nat \X Nat
    BY <2>3, AdapterForms
  <2>5. /\ answers \in ExerciseMaps /\ DOMAIN answers = {k}
        /\ answers # NoAnswers
    <3>1. \/ answers = Sole(k, "accept", "yes")
          \/ answers = Sole(k, "decline", "none")
      BY <2>2 DEF Submitted
    <3>2. answers \in ExerciseMaps
      BY <2>4, <3>1 DEF ExerciseMaps, Actions, Contents, YesContents
    <3>3. DOMAIN answers = {k}
      BY <3>1 DEF Sole
    <3>4. DOMAIN NoAnswers = {}
      BY DEF NoAnswers
    <3> QED
      BY <3>2, <3>3, <3>4
  <2> DEFINE c == [ckpt[t] EXCEPT !.answers = answers]
  <2>6. /\ ckpt' = [ckpt EXCEPT ![t] = c]
        /\ c \in States(ExerciseFrames, ExerciseMaps, ExerciseResults \cup {None})
        /\ c.next = ckpt[t].next /\ c.frame = ckpt[t].frame
        /\ c.status = ckpt[t].status /\ c.answers = answers
    BY <1>6, <2>2, <2>5 DEF States
  <2> HIDE DEF c
  <2>7. ckpt'[t] = c /\ run'[t] = "running"
    BY <1>6, <2>1, <2>6
  <2>8. Past(t)
    <3>1. inbox' = [inbox EXCEPT ![t] = NoFrame]
      BY <1>6, <2>1, <2>3
    <3>2. \E f \in ExerciseFrames : shown' = [shown EXCEPT ![t] = f.form]
      BY <1>9, <2>1
    <3> QED
      BY <2>1, <2>6, <3>1, <3>2 DEF Past
  <2>9. RowsHeld(t) /\ Open(t)'
    <3>1. RowsHeld(t) /\ rows'[t].outcome = rows[t].outcome
      BY <1>2, <2>1, NotesKept
    <3> QED
      BY <1>1, <3>1 DEF Open
  <2>10. OneCall(t)'
    BY <1>1, <1>5, <2>1, <2>3, <2>6, <2>7, <2>9 DEF OneCall
  <2>11. HasAsked(t)' = HasAsked(t)
    BY <2>1 DEF HasAsked
  <2>12. AdapterThread(t)'
    BY <1>2, <1>4, <1>5, <2>1, <2>3, <2>4, <2>5, <2>6, <2>7, <2>10, <2>11
       DEF AdapterThread, First
  <2> QED
    BY <2>8, <2>9, <2>12
<1>13. CASE AdapterAnswers(t)
  <2>1. /\ run[t] = "calling" /\ inbox[t].kind = "input"
        /\ ckpt[t].answers # NoAnswers
        /\ inbox' = [inbox EXCEPT ![t] = NoFrame]
        /\ shown' = shown /\ consent' = consent /\ aborts' = aborts
        /\ ckpt' = ckpt
    BY <1>13, Zenon DEF AdapterAnswers
  <2>2. /\ inbox[t] # NoFrame /\ shown[t] # NoForm
        /\ \A s \in requests : s.thread # t
    BY <1>1, <1>2, <1>5, <2>1 DEF AdapterThread, OneCall
  <2>3. /\ inbox[t] = InputFrame(Second(t), FormOf(Second(t)))
        /\ shown[t] = FormOf(First(t)) /\ DOMAIN ckpt[t].answers = shown[t].keys
    BY <1>2, <2>1, <2>2 DEF AdapterThread
  <2>4. inbox[t].token = Second(t) /\ inbox[t].form = FormOf(Second(t))
    BY <2>3 DEF InputFrame
  <2>5. inbox'[t] = NoFrame /\ ckpt[t].answers \in ExerciseMaps
        /\ inbox[t] \in ExerciseFrames
    BY <1>6, <2>1 DEF States
  <2>6. HasAsked(t)' = HasAsked(t)
    BY <2>1 DEF HasAsked
  <2>7. CASE DOMAIN ckpt[t].answers = inbox[t].form.keys
    <3>1. /\ requests' = requests \cup
                   {[thread |-> t, attempt |-> aborts[t],
                     token |-> inbox[t].token, answers |-> ckpt[t].answers]}
          /\ run' = run /\ rows' = rows
      BY <1>13, <2>7, Zenon DEF AdapterAnswers
    <3>2. Past(t)
      <4>1. \E mode \in {"stopped", "running", "calling"} :
                run' = [run EXCEPT ![t] = mode]
        BY <1>10, <3>1
      <4>2. \E f \in ExerciseFrames : shown' = [shown EXCEPT ![t] = f.form]
        BY <1>9, <2>1
      <4>3. \E c \in States(ExerciseFrames, ExerciseMaps,
                         ExerciseResults \cup {None}) :
                ckpt' = [ckpt EXCEPT ![t] = c]
        BY <1>8, <2>1
      <4>4. \E f \in ExerciseFrames, answers \in ExerciseMaps :
              requests' = requests \cup
                  {[thread |-> t, attempt |-> aborts[t], token |-> f.token,
                    answers |-> answers]}
        BY <2>5, <3>1
      <4> QED
        BY <2>1, <4>1, <4>2, <4>3, <4>4 DEF Past
    <3>3. RowsHeld(t) /\ Open(t)'
      BY <1>1, <1>2, <3>1 DEF RowsHeld, Open
    <3>4. ~ SPECS[t].fresh
      BY <2>3, <2>4, <2>7, AdapterForms
    <3>5. Second(t) # NoToken
      BY AdapterForms, StatesAreNoToken
    <3>6. \A s \in requests' : s.thread = t =>
              /\ s = [thread |-> t, attempt |-> aborts[t],
                      token |-> inbox[t].token, answers |-> ckpt[t].answers]
              /\ s.token = Second(t)
      BY <2>2, <2>4, <3>1
    <3>7. OneCall(t)'
      BY <1>1, <1>5, <2>1, <2>5, <3>1, <3>3, <3>6 DEF OneCall
    <3>8. AdapterThread(t)'
      BY <1>2, <1>4, <1>5, <2>1, <2>2, <2>5, <2>6, <3>1, <3>3, <3>4, <3>5,
         <3>6, <3>7 DEF AdapterThread, First
    <3> QED
      BY <3>2, <3>3, <3>8
  <2>8. CASE DOMAIN ckpt[t].answers # inbox[t].form.keys
    <3>1. /\ requests' = requests /\ run' = [run EXCEPT ![t] = "stopped"]
          /\ Note(t, Over(t, "raised"))
      BY <1>13, <2>8, Zenon DEF AdapterAnswers
    <3>2. Past(t)
      <4>1. \E f \in ExerciseFrames : shown' = [shown EXCEPT ![t] = f.form]
        BY <1>9, <2>1
      <4>2. \E c \in States(ExerciseFrames, ExerciseMaps,
                         ExerciseResults \cup {None}) :
                ckpt' = [ckpt EXCEPT ![t] = c]
        BY <1>8, <2>1
      <4> QED
        BY <2>1, <3>1, <4>1, <4>2 DEF Past
    <3>3. RowsHeld(t) /\ ~ Open(t)'
      <4>1. RowsHeld(t) /\ rows'[t].outcome = "raised"
        BY <1>1, <1>2, <3>1, NotesKept
      <4> QED
        BY <4>1 DEF Open
    <3>4. run'[t] = "stopped"
      BY <1>6, <3>1
    <3>5. OneCall(t)'
      BY <1>5, <2>1, <2>2, <2>5, <3>1, <3>3, <3>4 DEF OneCall
    <3>6. AdapterThread(t)'
      BY <1>2, <1>4, <1>5, <2>1, <2>2, <2>5, <2>6, <3>1, <3>3, <3>4, <3>5
         DEF AdapterThread, First
    <3> QED
      BY <3>2, <3>3, <3>6
  <2> QED
    BY <2>7, <2>8
<1>14. CASE AdapterReturns(t)
  <2>1. /\ Past(t) /\ RowsHeld(t) /\ OneCall(t)' /\ ~ Open(t)'
        /\ ckpt'[t].answers = ckpt[t].answers /\ shown' = shown
        /\ run'[t] = "stopped" /\ inbox'[t] = NoFrame
        /\ requests' = requests
    BY <1>1, <1>5, <1>14, EndsOne DEF AdapterReturns
  <2>2. HasAsked(t)' = HasAsked(t)
    BY <2>1 DEF HasAsked
  <2>3. AdapterThread(t)'
    BY <1>2, <1>4, <1>5, <2>1, <2>2 DEF AdapterThread, First
  <2> QED
    BY <2>1, <2>3
<1> QED
  BY <1>11, <1>12, <1>13, <1>14

\* The steps of the direct session.
LEMMA DirectClient ==
    ASSUME ExerciseInv, NEW t \in Threads, UNCHANGED <<serverVars, path>>,
           DirectCalls(t) \/ DirectRaises(t)
    PROVE  ExerciseInv'
<1>1. /\ path[t] = "direct_session" /\ Open(t) /\ Client(t)
  BY Zenon DEF DirectCalls, DirectRaises, Direct, Open, Client
<1>2. /\ ExerciseShape /\ DirectThread(t) /\ DOMAIN rows = Threads
      /\ \A u \in Threads : IsRow(rows[u])
  BY <1>1 DEF ExerciseInv, ExerciseThread, Books
<1>3. /\ SPECS' = SPECS /\ path' = path /\ sequence' = sequence
      /\ completed' = completed
  BY DEF serverVars
<1>4. RowsHeld(t) /\ (DirectRaises(t) \/ rows' = rows)
  BY <1>2, NotesKept, Zenon DEF DirectCalls, DirectRaises, RowsHeld
<1>5. ExerciseShape'
  BY <1>1, <1>2, ExerciseShapes, ClientShape DEF ExerciseShape
<1>6. About(t)
  BY <1>1, <1>3, <1>4, ClientAbout
<1>7. /\ \A state : FormOf(state)' = FormOf(state)
      /\ Noted(t)' = Noted(t)
  BY <1>3 DEF FormOf, FormKey, Noted
<1>8. OneCall(t) /\ NoFrame.kind = "none"
  BY <1>2 DEF DirectThread, NoFrame
<1>9. /\ DOMAIN run = Threads /\ DOMAIN inbox = Threads
      /\ DOMAIN ckpt = Threads
  BY <1>2 DEF ExerciseShape, Shape
<1>10. SUFFICES DirectThread(t)'
  <2>1. ~ OfGraph(t) /\ path[t] \notin AdapterPaths
    BY <1>1 DEF OfGraph, AdapterPaths
  <2> QED
    BY <1>5, <1>6, <2>1, ExerciseStep
<1>11. CASE DirectCalls(t) /\ Invoke(t)
  <2>1. /\ run[t] = "stopped" /\ run'[t] = "running"
        /\ ckpt' = ckpt /\ shown' = shown /\ requests' = requests
        /\ inbox' = inbox /\ rows' = rows
    BY <1>9, <1>11 DEF DirectCalls, Invoke
  <2>2. \A s \in requests : s.thread # t
    BY <1>1, <1>8, <2>1 DEF OneCall
  <2>3. OneCall(t)'
    BY <1>1, <1>8, <2>1, <2>2 DEF OneCall, Open
  <2>4. Open(t)'
    BY <1>1, <2>1 DEF Open
  <2> QED
    BY <1>1, <1>2, <1>7, <2>1, <2>2, <2>3, <2>4 DEF DirectThread
<1>12. CASE DirectCalls(t) /\ BeginCall(t)
  <2>1. /\ run[t] = "running" /\ run'[t] = "calling"
        /\ ckpt' = ckpt /\ shown' = shown /\ inbox' = inbox /\ rows' = rows
        /\ requests' = requests \cup {[thread |-> t, attempt |-> aborts[t],
                                      token |-> NoToken,
                                      answers |-> NoAnswers]}
    BY <1>9, <1>12 DEF DirectCalls, BeginCall, CallTool
  <2>2. /\ \A s \in requests : s.thread # t
        /\ inbox[t] = NoFrame /\ shown[t] = NoForm
    BY <1>1, <1>2, <1>8, <2>1 DEF OneCall, DirectThread
  <2>3. \A s \in requests' : s.thread = t =>
            /\ s = [thread |-> t, attempt |-> aborts[t], token |-> NoToken,
                    answers |-> NoAnswers]
            /\ s.token = NoToken
    BY <2>1, <2>2
  <2>4. OneCall(t)'
    BY <1>1, <1>8, <2>1, <2>2, <2>3 DEF OneCall, Open
  <2> QED
    BY <1>2, <1>7, <1>8, <2>1, <2>2, <2>3, <2>4 DEF DirectThread
<1>13. CASE DirectRaises(t)
  <2>1. /\ run'[t] = "stopped" /\ inbox'[t] = NoFrame
        /\ ckpt' = ckpt /\ shown' = shown /\ requests' = requests
    BY <1>9, <1>13 DEF DirectRaises, Abort
  <2>2. ~ Open(t)'
    <3>1. rows'[t].outcome = "failed"
      BY <1>1, <1>2, <1>13, NotesKept DEF DirectRaises
    <3> QED
      BY <3>1 DEF Open
  <2>3. OneCall(t)'
    BY <1>8, <2>1, <2>2 DEF OneCall
  <2> QED
    BY <1>2, <1>7, <1>8, <2>1, <2>2, <2>3 DEF DirectThread
<1> QED
  BY <1>11, <1>12, <1>13, Zenon DEF DirectCalls

LEMMA DirectOwn ==
    ASSUME ExerciseInv, NEW t \in Threads, UNCHANGED <<serverVars, path>>,
           DirectAnswers(t) \/ DirectReturns(t)
    PROVE  ExerciseInv'
<1>1. path[t] = "direct_session" /\ Open(t)
  BY Zenon DEF DirectAnswers, DirectReturns, Direct, Open
<1>2. /\ ExerciseShape /\ DirectThread(t) /\ DOMAIN rows = Threads
      /\ \A u \in Threads : IsRow(rows[u])
  BY <1>1 DEF ExerciseInv, ExerciseThread, Books
<1>3. /\ SPECS' = SPECS /\ path' = path /\ sequence' = sequence
      /\ completed' = completed
  BY DEF serverVars
<1>4. /\ \A state : FormOf(state)' = FormOf(state)
      /\ Noted(t)' = Noted(t)
  BY <1>3 DEF FormOf, FormKey, Noted
<1>5. OneCall(t) /\ NoFrame.kind = "none"
  BY <1>2 DEF DirectThread, NoFrame
<1>6. /\ ckpt \in [Threads -> States(ExerciseFrames, ExerciseMaps,
                                  ExerciseResults \cup {None})]
      /\ run \in [Threads -> {"stopped", "running", "calling"}]
      /\ shown \in [Threads -> {f.form : f \in ExerciseFrames}]
      /\ inbox \in [Threads -> ExerciseFrames]
  BY <1>2 DEF ExerciseShape, Shape
<1>7. SUFFICES Past(t) /\ RowsHeld(t) /\ DirectThread(t)'
  <2>1. ~ OfGraph(t) /\ path[t] \notin AdapterPaths
    BY <1>1 DEF OfGraph, AdapterPaths
  <2> QED
    BY <2>1, PastAbout, ExerciseStep
<1>8. CASE DirectAnswers(t)
  <2>1. /\ run[t] = "calling" /\ inbox[t].kind = "input"
        /\ shown' = [shown EXCEPT ![t] = inbox[t].form]
        /\ inbox' = [inbox EXCEPT ![t] = NoFrame]
        /\ ckpt' = ckpt /\ run' = run /\ consent' = consent
        /\ aborts' = aborts
    BY <1>8, Zenon DEF DirectAnswers
  <2>2. PICK k \in inbox[t].form.keys :
            /\ requests' = requests \cup
                  {[thread |-> t, attempt |-> aborts[t],
                    token |-> inbox[t].token,
                    answers |-> Sole(k, "accept", "yes")]}
            /\ Note(t, [rows[t] EXCEPT !.shown = <<inbox[t].form>>,
                            !.answers = <<Sole(k, "accept", "yes")>>])
    BY <1>8, Zenon DEF DirectAnswers
  <2>3. /\ inbox[t] \in ExerciseFrames /\ inbox[t].token \in AllStates
        /\ inbox[t].form \in ExerciseForms /\ inbox[t].form # NoForm
        /\ inbox[t].token # NoToken
    BY <1>6, <2>1, ExerciseKinds
  <2>4. Sole(k, "accept", "yes") \in ExerciseMaps
    <3>1. k \in Nat \X Nat
      BY <2>3 DEF ExerciseForms
    <3> QED
      BY <3>1 DEF ExerciseMaps, Actions, Contents, YesContents
  <2>5. Past(t)
    <3>1. ckpt = [ckpt EXCEPT ![t] = ckpt[t]] /\ ckpt[t] \in
              States(ExerciseFrames, ExerciseMaps, ExerciseResults \cup {None})
      BY <1>6
    <3>2. run = [run EXCEPT ![t] = run[t]]
          /\ run[t] \in {"stopped", "running", "calling"}
      BY <1>6
    <3> HIDE DEF Sole
    <3>3. /\ \E c \in States(ExerciseFrames, ExerciseMaps,
                          ExerciseResults \cup {None}) :
                 ckpt' = [ckpt EXCEPT ![t] = c]
          /\ \E mode \in {"stopped", "running", "calling"} :
                 run' = [run EXCEPT ![t] = mode]
          /\ \E f \in ExerciseFrames : shown' = [shown EXCEPT ![t] = f.form]
      BY <2>1, <2>3, <3>1, <3>2
    <3>4. \E f \in ExerciseFrames, answers \in ExerciseMaps :
              requests' = requests \cup
                  {[thread |-> t, attempt |-> aborts[t], token |-> f.token,
                    answers |-> answers]}
      BY <2>2, <2>3, <2>4
    <3> QED
      BY <2>1, <3>3, <3>4 DEF Past
  <2>6. RowsHeld(t) /\ Open(t)'
    <3>1. RowsHeld(t) /\ rows'[t].outcome = rows[t].outcome
      BY <1>2, <2>2, NotesKept
    <3> QED
      BY <1>1, <3>1 DEF Open
  <2>7. /\ inbox[t] # NoFrame /\ shown[t] = NoForm
        /\ \A s \in requests : s.thread # t
        /\ inbox[t].token.case = t
        /\ inbox[t].form = FormOf(inbox[t].token) /\ Noted(t) = {}
    BY <1>1, <1>2, <1>5, <2>1 DEF DirectThread, OneCall
  <2>8. /\ shown'[t] = inbox[t].form /\ inbox'[t] = NoFrame
        /\ inbox[t].form.subject = inbox[t].token.subject
    BY <1>6, <2>1, <2>7 DEF FormOf
  <2>9. \A s \in requests' : s.thread = t =>
            /\ s = [thread |-> t, attempt |-> aborts[t],
                    token |-> inbox[t].token,
                    answers |-> Sole(k, "accept", "yes")]
            /\ s.token = inbox[t].token
    BY <2>2, <2>7
  <2>10. OneCall(t)'
    BY <1>1, <1>5, <2>1, <2>6, <2>8, <2>9 DEF OneCall
  <2>11. DirectThread(t)'
    BY <1>4, <1>5, <2>1, <2>3, <2>6, <2>7, <2>8, <2>9, <2>10
       DEF DirectThread
  <2> QED
    BY <2>5, <2>6, <2>11
<1>9. CASE DirectReturns(t)
  <2>1. PICK outcome \in {"raised", "returned"} : CallEnds(t, outcome)
    BY <1>9, Zenon DEF DirectReturns
  <2>2. /\ Past(t) /\ RowsHeld(t) /\ OneCall(t)' /\ ~ Open(t)'
        /\ shown' = shown /\ inbox'[t] = NoFrame /\ requests' = requests
    BY <1>1, <1>5, <2>1, EndsOne
  <2>3. DirectThread(t)'
    BY <1>2, <1>4, <1>5, <2>2 DEF DirectThread
  <2> QED
    BY <2>2, <2>3
<1> QED
  BY <1>8, <1>9

\* What the system starts with.
LEMMA ExerciseStarts == ExerciseInit => ExerciseInv
<1> SUFFICES ASSUME ExerciseInit
             PROVE  ExerciseInv
  OBVIOUS
<1>1. /\ ckpt = [t \in Threads |-> NewThread]
      /\ run = [t \in Threads |-> "stopped"]
      /\ shown = [t \in Threads |-> NoForm]
      /\ consent = [t \in Threads |-> NoConsent]
      /\ aborts = [t \in Threads |-> 0] /\ requests = {}
      /\ inbox = [t \in Threads |-> NoFrame]
      /\ SPECS \in [Threads -> Specs] /\ sequence = [t \in Threads |-> 0]
      /\ completed = <<>> /\ path \in [Threads -> Paths]
      /\ rows = [t \in Threads |-> NewRow]
  BY DEF ExerciseInit, Init, ClientInit
<1>2. NewThread \in States(ExerciseFrames, ExerciseMaps,
                           ExerciseResults \cup {None})
  BY ExerciseShapes DEF Shapes, States, NewThread
<1>3. NoForm \in {f.form : f \in ExerciseFrames} /\ NoFrame \in ExerciseFrames
  <2>1. NoFrame \in ExerciseFrames /\ NoFrame.form = NoForm
    BY ExerciseShapes DEF Shapes, NoFrame
  <2> QED
    BY <2>1
<1>4. NoConsent \in [form : {f.form : f \in ExerciseFrames},
                     frame : ExerciseFrames, answers : ExerciseMaps]
  BY <1>3, ExerciseShapes DEF Shapes, NoConsent
<1>5. ExerciseShape
  BY <1>1, <1>2, <1>3, <1>4 DEF ExerciseShape, Shape
<1>6. Books
  <2>1. IsRow(NewRow)
    BY DEF IsRow, NewRow
  <2>2. sequence \in [Threads -> Nat] /\ DOMAIN rows = Threads
    BY <1>1
  <2>3. completed \in Seq([case : Threads, subject : AllSubjects])
    BY <1>1
  <2> QED
    BY <1>1, <2>1, <2>2, <2>3 DEF Books
<1>7. ASSUME NEW t \in Threads
      PROVE  ExerciseThread(t)
  <2>1. /\ ckpt[t] = NewThread /\ shown[t] = NoForm /\ consent[t] = NoConsent
        /\ inbox[t] = NoFrame /\ run[t] = "stopped" /\ sequence[t] = 0
        /\ requests = {} /\ Open(t)
    BY <1>1 DEF Open, NewRow
  <2>2. /\ NewThread.next = "begin" /\ NewThread.frame = NoFrame
        /\ NewThread.status = "new" /\ NewThread.answers = NoAnswers
        /\ NoFrame.kind = "none"
    BY DEF NewThread, NoFrame
  <2>3. Noted(t) = {}
    BY <1>1 DEF Noted
  <2>4. OfCase(t)
    <3>1. path[t] \in Paths
      BY <1>1
    <3>2. /\ path[t] \in AdapterPaths => SPECS[t].rounds = 1
          /\ path[t] \in {"bound_adapter", "direct_session"} =>
                 SPECS[t] = Spec1(FALSE, TRUE, FALSE, 1)
      BY Zenon DEF ExerciseInit
    <3>3. /\ Spec1(FALSE, TRUE, FALSE, 1).rounds = 1
          /\ Spec1(FALSE, TRUE, FALSE, 1).drift
      BY DEF Spec1
    <3>4. ~ OfGraph(t) => path[t] \in AdapterPaths \cup {"direct_session"}
      BY <3>1 DEF OfGraph, Paths, IdentityPaths, AdapterPaths
    <3> QED
      BY <3>2, <3>3, <3>4, Zenon DEF OfCase
  <2>5. GraphThread(t)
    <3>1. Runs(t)
      BY <2>1, <2>2 DEF Runs, Waits, Calls1
    <3>2. GraphAsks(t) /\ GraphSends(t)
      BY <2>1, <2>2, <2>3 DEF GraphAsks, GraphSends
    <3> QED
      BY <3>1, <3>2 DEF GraphThread
  <2>6. OneCall(t)
    BY <2>1, <2>2 DEF OneCall
  <2>7. AdapterThread(t) /\ DirectThread(t)
    BY <2>1, <2>2, <2>3, <2>6 DEF AdapterThread, DirectThread, HasAsked
  <2> QED
    BY <2>4, <2>5, <2>7 DEF ExerciseThread
<1> QED
  BY <1>5, <1>6, <1>7 DEF ExerciseInv

\* Every step keeps the invariant.
LEMMA ExerciseMoves ==
    ExerciseInv /\ [ExerciseNext]_exerciseVars => ExerciseInv'
<1> SUFFICES ASSUME ExerciseInv, [ExerciseNext]_exerciseVars
             PROVE  ExerciseInv'
  OBVIOUS
<1>1. CASE \E t \in Threads : ExerciseClient(t) /\ UNCHANGED <<serverVars, path>>
  BY <1>1, GraphClient
<1>2. CASE \E t \in Threads : Adapter(t) /\ UNCHANGED <<serverVars, path>>
  <2>1. PICK t \in Threads : Adapter(t) /\ UNCHANGED <<serverVars, path>>
    BY <1>2
  <2>2. CASE AdapterInvokes(t) \/ AdapterCalls(t) \/ AdapterRaises(t)
    BY <2>1, <2>2, AdapterClient
  <2>3. CASE \/ AdapterShows(t) \/ AdapterResumes(t) \/ AdapterAnswers(t)
             \/ AdapterReturns(t)
    BY <2>1, <2>3, AdapterOwn
  <2> QED
    BY <2>1, <2>2, <2>3, Zenon DEF Adapter
<1>3. CASE \E t \in Threads : DirectSession(t) /\ UNCHANGED <<serverVars, path>>
  <2>1. PICK t \in Threads : DirectSession(t) /\ UNCHANGED <<serverVars, path>>
    BY <1>3
  <2>2. CASE DirectCalls(t) \/ DirectRaises(t)
    BY <2>1, <2>2, DirectClient
  <2>3. CASE DirectAnswers(t) \/ DirectReturns(t)
    BY <2>1, <2>3, DirectOwn
  <2> QED
    BY <2>1, <2>2, <2>3, Zenon DEF DirectSession
<1>4. CASE \E r \in requests :
               ServeLogged(r) \/ IdentityAsks(r) \/ IdentityAnswers(r)
  BY <1>4, LoggedServed
<1>5. CASE \E r \in requests : PhaseOneCall(r) \/ PhaseTwoCall(r)
  BY <1>5, RestartServed
<1>6. CASE \E r \in requests : LoseCall(r)
  BY <1>6, CallLost
<1>7. CASE ExerciseDone \/ UNCHANGED exerciseVars
  <2>1. /\ ckpt' = ckpt /\ run' = run /\ shown' = shown /\ consent' = consent
        /\ aborts' = aborts /\ requests' = requests /\ inbox' = inbox
        /\ SPECS' = SPECS /\ sequence' = sequence /\ completed' = completed
        /\ path' = path /\ rows' = rows
    BY <1>7, Zenon DEF ExerciseDone, exerciseVars
  <2>2. ExerciseShape' /\ Books'
    BY <2>1 DEF ExerciseInv, ExerciseShape, Shape, Books
  <2>3. ASSUME NEW t \in Threads
        PROVE  ExerciseThread(t)'
    BY <2>1, ExerciseElsewhere DEF ExerciseInv, Untouched, Noted
  <2> QED
    BY <2>2, <2>3 DEF ExerciseInv
<1> QED
  BY <1>1, <1>2, <1>3, <1>4, <1>5, <1>6, <1>7, Zenon DEF ExerciseNext

LEMMA ExerciseAlways == ExerciseSpec => []ExerciseInv
BY ExerciseStarts, ExerciseMoves, PTL DEF ExerciseSpec

\* An answer is stored for the form its reviewer was shown, whatever the
\* server asks next and whichever resume is sent again.
THEOREM FormsAreOwn == ExerciseSpec => []AnswersShownForm
<1>1. ExerciseInv => AnswersShownForm
  <2> SUFFICES ASSUME ExerciseInv, NEW t \in Threads, ckpt[t].next = "continue"
               PROVE  consent[t].form = ckpt[t].frame.form
    BY DEF AnswersShownForm
  <2>1. ExerciseThread(t) /\ path[t] \in Paths
    BY DEF ExerciseInv, Books
  <2>2. ~ OneCall(t)
    BY DEF OneCall
  <2>3. GraphThread(t)
    BY <2>1, <2>2 DEF ExerciseThread, AdapterThread, DirectThread, OfGraph,
                      Paths, IdentityPaths, AdapterPaths
  <2> QED
    BY <2>3 DEF GraphThread, GraphAsks
<1> QED
  BY <1>1, ExerciseAlways, PTL

\* What is in the list of the recorded previews.
LEMMA CompletedRows ==
    ASSUME completed \in Seq([case : Threads, subject : AllSubjects]),
           NEW i \in DOMAIN completed
    PROVE  completed[i] \in [case : Threads, subject : AllSubjects]
<1> DEFINE Rows == [case : Threads, subject : AllSubjects]
<1>1. completed \in Seq(Rows)
  OBVIOUS
<1> HIDE DEF Rows
<1>2. DOMAIN completed = 1 .. Len(completed)
  BY <1>1
<1>3. completed[i] \in Rows
  BY <1>1, <1>2
<1> QED
  BY <1>3 DEF Rows

\* The limit on the rounds of an operation is never outrun, and an operation
\* that asks more forms records nothing.
THEOREM LimitHolds == ExerciseSpec => []LimitStopsOperation
<1>1. ExerciseInv => LimitStopsOperation
  <2> SUFFICES ASSUME ExerciseInv
               PROVE  LimitStopsOperation
    OBVIOUS
  <2>1. ASSUME NEW t \in Threads
        PROVE  /\ ExerciseThread(t)
               /\ GraphThread(t) \/ (OneCall(t) /\ ~ OfGraph(t))
    <3>1. ExerciseThread(t) /\ path[t] \in Paths
      BY DEF ExerciseInv, Books
    <3>2. \/ OfGraph(t)
          \/ ~ OfGraph(t) /\ path[t] \in AdapterPaths \cup {"direct_session"}
      BY <3>1 DEF OfGraph, Paths, IdentityPaths, AdapterPaths
    <3>3. CASE OfGraph(t)
      BY <3>1, <3>3, Zenon DEF ExerciseThread
    <3>4. CASE ~ OfGraph(t) /\ path[t] \in AdapterPaths
      BY <3>1, <3>4, Zenon DEF ExerciseThread, AdapterThread
    <3>5. CASE ~ OfGraph(t) /\ path[t] = "direct_session"
      BY <3>1, <3>5, Zenon DEF ExerciseThread, DirectThread
    <3> QED
      BY <3>2, <3>3, <3>4, <3>5
  <2>2. ASSUME NEW t \in Threads
        PROVE  /\ ckpt[t].frame.kind = "input" =>
                      ckpt[t].roundIndex = ckpt[t].frame.token.round
               /\ ckpt[t].status = "answered" => ckpt[t].roundIndex <= MaxRounds
    <3>1. CASE GraphThread(t)
      <4>1. ckpt[t].next \in {"begin", "review", "continue", "finish", "end"}
        BY DEF ExerciseInv, ExerciseShape, Shape, States
      <4> QED
        BY <3>1, <4>1 DEF GraphThread, GraphAsks, NoFrame
    <3>2. CASE OneCall(t)
      BY <3>2 DEF OneCall, NoFrame
    <3> QED
      BY <2>1, <3>1, <3>2
  <2>3. ASSUME NEW i \in DOMAIN completed
        PROVE  SPECS[completed[i].case].rounds <= MaxRounds
    <3> DEFINE t == completed[i].case
    <3>1. t \in Threads
      <4>1. completed[i] \in [case : Threads, subject : AllSubjects]
        BY CompletedRows DEF ExerciseInv, Books
      <4> QED
        BY <4>1
    <3>2. Noted(t) # {}
      BY DEF Noted
    <3>3. CASE GraphThread(t)
      BY <3>2, <3>3 DEF GraphThread, GraphSends
    <3>4. CASE ~ OfGraph(t)
      BY <2>1, <3>1, <3>4, PreviewAssumption DEF ExerciseThread, OfCase
    <3> QED
      BY <2>1, <3>1, <3>3, <3>4
  <2> QED
    BY <2>2, <2>3 DEF LimitStopsOperation
<1> QED
  BY <1>1, ExerciseAlways, PTL

\* What is recorded has the subject its reviewer was shown, in the round graph,
\* with a bound answer and in a plain session; the adapter's is that of the
\* repeated call.
THEOREM SubjectsExplained == ExerciseSpec => []SubjectsAreExplained
<1>1. ExerciseInv => SubjectsAreExplained
  <2> SUFFICES ASSUME ExerciseInv, NEW i \in DOMAIN completed,
                      NEW t, t = completed[i].case
               PROVE  /\ path[t] \in {"original_adapter", "identity_adapter"} =>
                             /\ ~ SPECS[t].fresh
                             /\ (completed[i].subject # shown[t].subject)
                                    <=> SPECS[t].drift
                      /\ path[t] \in {"bound_adapter", "direct_session"} =>
                             completed[i].subject = shown[t].subject
                      /\ OfGraph(t) =>
                             /\ consent[t].form.subject = completed[i].subject
                             /\ consent[t].frame.token.round = SPECS[t].rounds
                      /\ path[t] \in Paths
    BY DEF SubjectsAreExplained, OfGraph, Paths, IdentityPaths
  <2>1. /\ t \in Threads /\ path[t] \in Paths /\ SPECS[t] \in Specs
        /\ ExerciseThread(t)
    <3>1. completed[i] \in [case : Threads, subject : AllSubjects]
      BY CompletedRows DEF ExerciseInv, Books
    <3>2. t \in Threads
      BY <3>1
    <3> QED
      BY <3>2 DEF ExerciseInv, Books
  <2>2. completed[i].subject \in Noted(t)
    BY DEF Noted
  <2>3. CASE path[t] \in AdapterPaths
    <3>1. /\ AdapterThread(t) /\ path[t] # "bound_adapter"
          /\ ~ OfGraph(t) /\ path[t] # "direct_session"
      BY <2>1, <2>2, <2>3 DEF ExerciseThread, AdapterThread, OfGraph,
                              AdapterPaths
    <3>2. /\ ~ SPECS[t].fresh /\ completed[i].subject = Second(t).subject
          /\ shown[t] = FormOf(First(t))
      BY <2>2, <3>1 DEF AdapterThread
    <3>3. shown[t].subject = "draft-A"
      BY <3>2 DEF FormOf, First
    <3>4. SPECS[t].drift \in BOOLEAN
      BY <2>1, PreviewAssumption
    <3>5. /\ SPECS[t].drift => Second(t).subject = "draft-B"
          /\ ~ SPECS[t].drift => Second(t).subject = "draft-A"
      BY DEF Second
    <3> QED
      BY <2>1, <3>1, <3>2, <3>3, <3>4, <3>5
  <2>4. CASE path[t] = "direct_session"
    BY <2>1, <2>2, <2>4 DEF ExerciseThread, DirectThread, OfGraph
  <2>5. CASE OfGraph(t)
    <3>1. GraphSends(t) /\ path[t] \notin AdapterPaths \cup {"direct_session"}
      BY <2>1, <2>5 DEF ExerciseThread, GraphThread, OfGraph, AdapterPaths
    <3>2. /\ path[t] # "process_restart" /\ consent[t] # NoConsent
          /\ completed[i].subject = consent[t].frame.token.subject
          /\ consent[t].frame.token.round = SPECS[t].rounds
      BY <2>2, <3>1 DEF GraphSends
    <3>3. consent[t].form = FormOf(consent[t].frame.token)
      BY <3>1, <3>2 DEF GraphSends, Question, FormAt
    <3> QED
      BY <2>1, <3>1, <3>2, <3>3 DEF FormOf, AdapterPaths
  <2> QED
    BY <2>1, <2>3, <2>4, <2>5 DEF OfGraph, Paths, IdentityPaths, AdapterPaths
<1> QED
  BY <1>1, ExerciseAlways, PTL
\* Which steps move the checkpointed frame of a thread of the round graph.
LEMMA FramesMove ==
    ASSUME ExerciseInv, ExerciseNext, NEW t \in Threads,
           ckpt'[t].frame # ckpt[t].frame
    PROVE  GraphThread(t) /\ Receives(t)
<1>1. /\ ExerciseShape /\ DOMAIN ckpt = Threads
      /\ \A u \in Threads : ExerciseThread(u)
  BY DEF ExerciseInv, ExerciseShape, Shape
<1>2. ckpt' # ckpt
  OBVIOUS
<1>3. ASSUME NEW u \in Threads, Client(u)
      PROVE  u = t
  BY <1>1, <1>3, Others DEF ExerciseShape, Untouched
<1>4. ASSUME Client(t), GraphThread(t)
      PROVE  Receives(t)
  <2>1. \/ Rests(t) \/ Calls(t) \/ Receives(t) \/ Shows(t) \/ Consents(t)
        \/ Finishes(t) \/ Dies(t)
    BY <1>1, <1>4, ClientMoves DEF ExerciseShape, GraphThread
  <2>2. ckpt[t] \in States(ExerciseFrames, ExerciseMaps,
                          ExerciseResults \cup {None})
    BY <1>1 DEF ExerciseShape, Shape
  <2>3. CASE Consents(t)
    <3>1. PICK answers \in Resumes :
              ckpt'[t] = [ckpt[t] EXCEPT !.answers = answers,
                              !.status = "answered", !.next = "continue"]
      BY <2>3 DEF Consents
    <3> QED
      BY <2>2, <3>1 DEF States
  <2>4. CASE Finishes(t)
    <3> DEFINE status == IF ckpt[t].frame.result.isError THEN "tool_error"
                         ELSE "completed"
    <3>1. ckpt'[t] = [ckpt[t] EXCEPT !.result = ckpt[t].frame.result,
                                     !.status = status, !.next = "end"]
      BY <2>4, Zenon DEF Finishes
    <3> HIDE DEF status
    <3> QED
      BY <2>2, <3>1 DEF States
  <2>5. ~ (Rests(t) \/ Calls(t) \/ Shows(t) \/ Dies(t))
    BY DEF Rests, Calls, Shows, Dies
  <2> QED
    BY <2>1, <2>3, <2>4, <2>5
<1>5. CASE \E u \in Threads : ExerciseClient(u)
  <2>1. PICK u \in Threads : ExerciseClient(u)
    BY <1>5
  <2>2. OfGraph(u) /\ Client(u)
    BY <1>2, <2>1, GraphRows DEF clientVars
  <2> QED
    BY <1>1, <1>3, <1>4, <2>2 DEF ExerciseThread
<1>6. ASSUME NEW u \in Threads, OneCall(u), OneCall(u)',
             \/ Client(u)
             \/ \E c : ckpt' = [ckpt EXCEPT ![u] = c]
      PROVE  FALSE
  <2>1. u = t
    BY <1>1, <1>3, <1>6
  <2> QED
    BY <1>6, <2>1 DEF OneCall
<1>7. ASSUME NEW u \in Threads, path[u] \in AdapterPaths \cup {"direct_session"},
             path' = path
      PROVE  OneCall(u) /\ OneCall(u)'
  <2>1. ExerciseThread(u) /\ ExerciseThread(u)'
    BY <1>1, ExerciseMoves DEF ExerciseInv
  <2>2. path'[u] = path[u]
    BY <1>7
  <2> QED
    BY <1>7, <2>1, <2>2, Zenon DEF ExerciseThread, AdapterThread, DirectThread
<1>8. CASE \E u \in Threads : Adapter(u) /\ UNCHANGED <<serverVars, path>>
  <2>1. PICK u \in Threads : Adapter(u) /\ path' = path
    BY <1>8
  <2>2. path[u] \in AdapterPaths
    BY <2>1, Zenon DEF Adapter, AdapterInvokes, AdapterCalls, AdapterShows,
       AdapterResumes, AdapterAnswers, AdapterReturns, AdapterRaises, Adapted
  <2>3. CASE AdapterInvokes(u) \/ AdapterCalls(u) \/ AdapterRaises(u)
    BY <1>6, <1>7, <2>1, <2>2, <2>3, Zenon
       DEF AdapterInvokes, AdapterCalls, AdapterRaises, Client
  <2>4. CASE AdapterShows(u) \/ AdapterAnswers(u)
    BY <1>2, <2>4, Zenon DEF AdapterShows, AdapterAnswers
  <2>5. CASE AdapterResumes(u) \/ AdapterReturns(u)
    <3>1. \E c : ckpt' = [ckpt EXCEPT ![u] = c]
      BY <2>5 DEF AdapterResumes, AdapterReturns, CallEnds
    <3> QED
      BY <1>6, <1>7, <2>1, <2>2, <3>1
  <2> QED
    BY <2>1, <2>3, <2>4, <2>5, Zenon DEF Adapter
<1>9. CASE \E u \in Threads : DirectSession(u) /\ UNCHANGED <<serverVars, path>>
  <2>1. PICK u \in Threads : DirectSession(u) /\ path' = path
    BY <1>9
  <2>2. path[u] = "direct_session"
    BY <2>1, Zenon DEF DirectSession, DirectCalls, DirectAnswers,
       DirectReturns, DirectRaises, Direct
  <2>3. CASE DirectCalls(u) \/ DirectRaises(u)
    BY <1>6, <1>7, <2>1, <2>2, <2>3 DEF DirectCalls, DirectRaises, Client
  <2>4. CASE DirectAnswers(u)
    BY <1>2, <2>4, Zenon DEF DirectAnswers
  <2>5. CASE DirectReturns(u)
    <3>1. \E c : ckpt' = [ckpt EXCEPT ![u] = c]
      BY <2>5 DEF DirectReturns, CallEnds
    <3> QED
      BY <1>6, <1>7, <2>1, <2>2, <3>1
  <2> QED
    BY <2>1, <2>3, <2>4, <2>5, Zenon DEF DirectSession
<1>10. ASSUME NEW r, NEW f, Deliver(r, f)
       PROVE  FALSE
  BY <1>2, <1>10 DEF Deliver
<1>11. CASE \E r \in requests :
               ServeLogged(r) \/ IdentityAsks(r) \/ IdentityAnswers(r)
  BY <1>10, <1>11, Zenon DEF ServeLogged, IdentityAsks, IdentityAnswers,
     ServeInitial, ServeRefusal, ServeNextRound, ServePreview, Ask
<1>12. CASE \E r \in requests : PhaseOneCall(r) \/ PhaseTwoCall(r)
  BY <1>10, <1>12, Zenon DEF PhaseOneCall, PhaseTwoCall
<1>13. CASE (\E r \in requests : LoseCall(r)) \/ ExerciseDone
  BY <1>2, <1>13, Zenon DEF LoseCall, Lose, ExerciseDone, exerciseVars
<1> QED
  BY <1>5, <1>8, <1>9, <1>11, <1>12, <1>13, Zenon DEF ExerciseNext

\* A checkpointed form is followed by the next form of the same operation and
\* subject, or by its end: no round is skipped, repeated, or swapped for one of
\* another initial call.
THEOREM RoundsStayInOrder == ExerciseSpec => RoundsInOrder
<1>1. ExerciseInv /\ [ExerciseNext]_exerciseVars =>
          [\A t \in Threads :
               /\ ckpt[t].frame.kind = "input"
               /\ ckpt'[t].frame.kind = "input"
               /\ ckpt'[t].frame # ckpt[t].frame
               => ckpt'[t].frame.token =
                      [ckpt[t].frame.token EXCEPT !.round = @ + 1]]_vars
  <2> SUFFICES ASSUME ExerciseInv, [ExerciseNext]_exerciseVars,
                      vars' # vars, NEW t \in Threads,
                      ckpt[t].frame.kind = "input",
                      ckpt'[t].frame.kind = "input",
                      ckpt'[t].frame # ckpt[t].frame
               PROVE  ckpt'[t].frame.token =
                          [ckpt[t].frame.token EXCEPT !.round = @ + 1]
    OBVIOUS
  <2>1. ExerciseNext
    BY DEF exerciseVars
  <2>2. GraphThread(t) /\ Receives(t)
    BY <2>1, FramesMove
  <2>3. /\ ckpt[t].next \in {"begin", "continue"}
        /\ ckpt'[t].frame = inbox[t]
    BY <2>2 DEF Receives
  <2>4. /\ ckpt[t].next = "continue" /\ Question(t, ckpt[t].frame)
        /\ inbox[t].token = AtRound(ckpt[t].frame.token,
                                    ckpt[t].frame.token.round + 1)
    BY <2>2, <2>3 DEF GraphThread, GraphAsks, NoFrame
  <2> QED
    BY <2>3, <2>4 DEF AtRound
<1> QED
  BY <1>1, ExerciseAlways, PTL DEF ExerciseSpec, RoundsInOrder
-----------------------------------------------------------------------------
(* Part 4: the evidence of StdioRestart, of one operation.                 *)

Pending(tok) == [token |-> tok, status |-> "pending"]
Error(text) == [isError |-> TRUE, text |-> text, subject |-> None]

\* The server's record of a question that it asks next to the rows front.
IsQuestion(e, front, tok) ==
    /\ e.state = NoToken /\ e.answers = NoAnswers
    /\ e.result = InputFrame(tok, Form(Len(front) + 1))
    /\ e.rounds = Append(front, Pending(tok)) /\ e.effects = {}

\* Its record of the first answer to that question, whose record is q.
IsReply(e, q, front, tok) ==
    LET id == Len(front) + 1
        action == e.answers[KEY].action
        closed == Append(front, [token |-> tok, status |-> action])
    IN  /\ e.state = tok
        /\ IF e.store # q.store
           THEN /\ e.result = TerminalFrame(Error("UNKNOWN_ROUND"))
                /\ e.rounds = <<>> /\ e.effects = {}
           ELSE IF ~ Closes(e.answers)
           THEN /\ e.result = TerminalFrame(Error("INVALID"))
                /\ e.rounds = q.rounds /\ e.effects = {}
           ELSE IF action = "accept"
           THEN /\ e.result = TerminalFrame([isError |-> FALSE,
                                 text |-> "previewed", subject |-> id])
                /\ e.rounds = closed
                /\ e.effects = {[token |-> tok, subject |-> id]}
           ELSE /\ e.result = TerminalFrame([isError |-> FALSE,
                                 text |-> "skipped", subject |-> None])
                /\ e.rounds = closed /\ e.effects = {}

\* The tables are those of the last record, or of a store that is empty yet.
TablesAfter(e) ==
    /\ e.store \in Nat /\ e.store <= stores
    /\ IF stores = e.store THEN rounds = e.rounds /\ effects = e.effects
                           ELSE rounds = <<>> /\ effects = {}

FirstToken(t) == served[t][1].result.token
RowsBefore(t) == IF served[t][2].store = served[t][1].store
                 THEN served[t][1].rounds ELSE <<>>

IsLog(s) == \E S : s \in Seq(S)

\* The log: a question, then its answer, or a question in its place and
\* what was sent after that one.
LogOf(t) ==
    LET s == served[t]
        n == Len(s)
    IN  /\ IsLog(s) /\ n <= MaxCalls
        /\ n = 0 => rounds = <<>> /\ effects = {}
        /\ n \in 1 .. 3 => TablesAfter(s[n])
        /\ n >= 1 => /\ IsQuestion(s[1], <<>>, FirstToken(t))
                     /\ FirstToken(t) \in used /\ FirstToken(t) \in Tokens
                     /\ s[1].store \in Nat
        /\ n >= 2 /\ replayed[t] = NoToken =>
               /\ n = 2 /\ IsReply(s[2], s[1], <<>>, FirstToken(t))
               /\ s[2].answers = consent[t].answers
        /\ n >= 2 /\ replayed[t] # NoToken =>
               /\ IsQuestion(s[2], RowsBefore(t), replayed[t])
               /\ replayed[t] # FirstToken(t)
        /\ n \in 2 .. 3 => s[2].store \in Nat /\ s[1].store <= s[2].store
        /\ n = 3 => /\ s[2].store <= s[3].store
                    /\ \/ s[3].state = FirstToken(t)
                       \/ IsReply(s[3], s[2], RowsBefore(t), replayed[t])

\* What the log says of the thread, and the thread of the log.
Progress(t) ==
    LET s == served[t]
        n == Len(s)
        c == ckpt[t]
        replied(frame) ==
            /\ replayed[t] = NoToken => n = 2 /\ frame = s[2].result
            /\ replayed[t] # NoToken =>
                   n >= 3 /\ (n = 3 => s[3].state = FirstToken(t))
    IN  /\ n = 0 <=> c.next = "begin" /\ inbox[t] = NoFrame
        /\ c.next = "begin" => n <= 1 /\ replayed[t] = NoToken
                               /\ c.answers = NoAnswers
        /\ c.next = "begin" /\ n = 1 => inbox[t] = s[1].result
        /\ c.next \in {"review", "continue"} => c.frame = s[1].result
        /\ c.next = "review" \/ (c.next = "continue" /\ inbox[t] = NoFrame) =>
               (replayed[t] = NoToken <=> n = 1)
        /\ c.next = "review" =>
               /\ n = 3 => s[3].state = replayed[t]
               /\ n >= 2 => shown[t] = Form(1)
        /\ c.next = "continue" /\ inbox[t] # NoFrame => replied(inbox[t])
        /\ c.next \in {"continue", "finish", "end"} =>
               consent[t].frame = s[1].result /\ shown[t] = Form(1)
        /\ c.next \in {"finish", "end"} => replied(c.frame)
        /\ c.next = "end" =>
               /\ c.result = c.frame.result
               /\ c.status = IF c.result.isError THEN "tool_error"
                             ELSE "completed"

\* The client's records are the server's, without the reply that is on its way.
WireOf(t) ==
    LET w == wire[t]
        s == served[t]
        n == Len(s)
    IN  /\ IsLog(w)
        /\ inbox[t] = NoFrame => Len(w) = n
        /\ inbox[t] # NoFrame => n >= 1 /\ Len(w) \in {n - 1, n}
                                 /\ (Len(w) = n => n = MaxCalls)
        /\ n <= 3 => \A i \in DOMAIN w :
                        w[i] = Row(s[i].state, s[i].answers, s[i].result)
        /\ n <= 3 /\ inbox[t] # NoFrame =>
               /\ s[n].state = ckpt[t].frame.token
               /\ s[n].answers = ckpt[t].answers
               /\ s[n].result = inbox[t]

EvidenceOf(t) ==
    /\ t \in DOMAIN wire /\ t \in DOMAIN served
    /\ aborts[t] = 0 => LogOf(t) /\ Progress(t) /\ WireOf(t)
    /\ aborts[t] # 0 => wire[t] = <<>> /\ served[t] = <<>>
-----------------------------------------------------------------------------
LEMMA LogGrows ==
    ASSUME NEW s, IsLog(s), NEW e
    PROVE  LET a == Append(s, e)
           IN  /\ IsLog(a) /\ Len(s) \in Nat /\ Len(a) = Len(s) + 1
               /\ DOMAIN s = 1 .. Len(s) /\ DOMAIN a = 1 .. Len(s) + 1
               /\ \A i \in 1 .. Len(s) : a[i] = s[i]
               /\ a[Len(s) + 1] = e
<1>1. PICK S : s \in Seq(S)
  BY DEF IsLog
<1>2. s \in Seq(S \cup {e}) /\ e \in S \cup {e}
  BY <1>1
<1>3. Append(s, e) \in Seq(S \cup {e})
  BY <1>2
<1> QED
  BY <1>1, <1>2, <1>3 DEF IsLog

LEMMA LogLength ==
    ASSUME NEW s, IsLog(s)
    PROVE  Len(s) \in Nat /\ DOMAIN s = 1 .. Len(s)
BY DEF IsLog

\* A log after a row: a client that was cut short leaves none.
LEMMA KeptIs ==
    ASSUME NEW log, NEW t \in DOMAIN log, NEW row, aborts'[t] \in Nat
    PROVE  /\ t \in DOMAIN Kept(log, t, row)
           /\ aborts'[t] # 0 => Kept(log, t, row)[t] = <<>>
           /\ aborts'[t] = 0 =>
                  Kept(log, t, row)[t] =
                      IF Len(log[t]) = MaxCalls THEN log[t]
                      ELSE Append(log[t], row)
BY DEF Kept

LEMMA CutIs ==
    ASSUME NEW log, NEW t \in Threads, aborts'[t] \in Nat
    PROVE  /\ t \in DOMAIN Cut(log)
           /\ aborts'[t] # 0 => Cut(log)[t] = <<>>
           /\ aborts'[t] = 0 => Cut(log)[t] = log[t]
BY DEF Cut

\* What is done to a table with one round of the token, and with none.
LEMMA AnswerLast ==
    ASSUME Store, NEW front, NEW tok, NEW answers, IsLog(front),
           rounds = Append(front, Pending(tok)), effects = {},
           AnswerRound(tok, answers)
    PROVE  LET id == Len(front) + 1
               action == answers[KEY].action
               closed == Append(front, [token |-> tok, status |-> action])
           IN  /\ ~ Closes(answers) =>
                      /\ Outcome(tok, answers) = Error("INVALID")
                      /\ rounds' = rounds /\ effects' = {}
               /\ Closes(answers) /\ action = "accept" =>
                      /\ Outcome(tok, answers) = [isError |-> FALSE,
                             text |-> "previewed", subject |-> id]
                      /\ rounds' = closed
                      /\ effects' = {[token |-> tok, subject |-> id]}
               /\ Closes(answers) /\ action # "accept" =>
                      /\ Outcome(tok, answers) = [isError |-> FALSE,
                             text |-> "skipped", subject |-> None]
                      /\ rounds' = closed /\ effects' = {}
<1> DEFINE id == Len(front) + 1
           action == answers[KEY].action
           new == [token |-> tok, status |-> action]
           closed == Append(front, new)
           closing == {i \in RoundIds(tok) : rounds[i].status = "pending"}
<1>1. /\ Len(front) \in Nat /\ DOMAIN rounds = 1 .. id
      /\ \A i \in 1 .. Len(front) : rounds[i] = front[i]
      /\ rounds[id] = Pending(tok)
  BY LogGrows
<1>2. /\ Len(closed) = id /\ DOMAIN closed = 1 .. id /\ IsLog(closed)
      /\ \A i \in 1 .. Len(front) : closed[i] = front[i]
      /\ closed[id] = new
  BY LogGrows
<1>3. rounds[id].token = tok /\ rounds[id].status = "pending"
  BY <1>1 DEF Pending
<1>4. \A i, j \in DOMAIN rounds : rounds[i].token = rounds[j].token => i = j
  BY DEF Store
<1>5. RoundIds(tok) = {id}
  BY <1>1, <1>3, <1>4 DEF RoundIds
<1>6. (CHOOSE i \in RoundIds(tok) : TRUE) = id /\ closing = {id}
  BY <1>3, <1>5
<1>7. CASE ~ Closes(answers)
  <2>1. rounds' = rounds /\ effects' = {}
    BY <1>7 DEF AnswerRound
  <2>2. Outcome(tok, answers) = Error("INVALID")
    BY <1>3, <1>5, <1>6, <1>7 DEF Outcome, Error
  <2> QED
    BY <1>7, <2>1, <2>2
<1>8. CASE Closes(answers)
  <2>1. /\ rounds' = [i \in DOMAIN rounds |->
                    IF i \in closing
                    THEN [rounds[i] EXCEPT !.status = action] ELSE rounds[i]]
        /\ effects' = effects \cup
               {[token |-> tok, subject |-> i] :
                i \in {j \in closing : action = "accept"}}
    BY <1>8, Zenon DEF AnswerRound
  <2>2. [Pending(tok) EXCEPT !.status = action] = new
    BY DEF Pending
  <2>3. \A i \in 1 .. id : rounds'[i] = closed[i]
    BY <1>1, <1>2, <1>6, <2>1, <2>2
  <2>4. rounds' = closed
    <3>1. closed = [i \in 1 .. id |-> closed[i]]
      BY <1>2 DEF IsLog
    <3>2. rounds' = [i \in 1 .. id |-> rounds'[i]]
      BY <1>1, <2>1
    <3> QED
      BY <2>3, <3>1, <3>2
  <2>5. /\ action = "accept" => effects' = {[token |-> tok, subject |-> id]}
        /\ action # "accept" => effects' = {}
    BY <1>6, <2>1
  <2>6. /\ action = "accept" =>
               Outcome(tok, answers) = [isError |-> FALSE,
                             text |-> "previewed", subject |-> id]
        /\ action # "accept" =>
               Outcome(tok, answers) = [isError |-> FALSE,
                             text |-> "skipped", subject |-> None]
    BY <1>3, <1>5, <1>6, <1>8 DEF Outcome
  <2> QED
    BY <1>8, <2>4, <2>5, <2>6
<1> QED
  BY <1>7, <1>8

LEMMA AnswerNone ==
    ASSUME rounds = <<>>, effects = {}, NEW tok, NEW answers,
           AnswerRound(tok, answers)
    PROVE  /\ Outcome(tok, answers) = Error("UNKNOWN_ROUND")
           /\ rounds' = <<>> /\ effects' = {}
<1>1. RoundIds(tok) = {} /\ DOMAIN rounds = {}
  BY DEF RoundIds
<1>2. Outcome(tok, answers) = Error("UNKNOWN_ROUND")
  BY <1>1 DEF Outcome, Error
<1>3. rounds' = <<>> /\ effects' = {}
  BY <1>1 DEF AnswerRound
<1> QED
  BY <1>2, <1>3

\* The record of an answer to the question whose record is q, while the tables
\* are those of q or of an empty store.
LEMMA ReplyRecorded ==
    ASSUME Store, NEW q, TablesAfter(q), NEW front, NEW tok, NEW answers, NEW e,
           IsLog(front), q.rounds = Append(front, Pending(tok)), q.effects = {},
           AnswerRound(tok, answers),
           e = [state |-> tok, answers |-> answers,
                result |-> TerminalFrame(Outcome(tok, answers)),
                rounds |-> rounds', effects |-> effects', store |-> stores']
    PROVE  IsReply(e, q, front, tok) /\ q.store <= e.store
<1>1. stores' = stores /\ stores \in Nat
  BY StdioAnswer DEF Store
<1>2. /\ e.state = tok /\ e.answers = answers
      /\ e.result = TerminalFrame(Outcome(tok, answers))
      /\ e.rounds = rounds' /\ e.effects = effects' /\ e.store = stores
  BY <1>1
<1>3. q.store \in Nat /\ q.store <= stores
  BY DEF TablesAfter
<1>4. CASE stores = q.store
  <2>1. rounds = q.rounds /\ effects = q.effects
    BY <1>4 DEF TablesAfter
  <2>2. LET id == Len(front) + 1
            action == answers[KEY].action
            closed == Append(front, [token |-> tok, status |-> action])
        IN  /\ ~ Closes(answers) =>
                   /\ Outcome(tok, answers) = Error("INVALID")
                   /\ rounds' = rounds /\ effects' = {}
            /\ Closes(answers) /\ action = "accept" =>
                   /\ Outcome(tok, answers) = [isError |-> FALSE,
                          text |-> "previewed", subject |-> id]
                   /\ rounds' = closed
                   /\ effects' = {[token |-> tok, subject |-> id]}
            /\ Closes(answers) /\ action # "accept" =>
                   /\ Outcome(tok, answers) = [isError |-> FALSE,
                          text |-> "skipped", subject |-> None]
                   /\ rounds' = closed /\ effects' = {}
    BY <2>1, AnswerLast
  <2>3. e.store = q.store /\ q.rounds = rounds
    BY <1>2, <1>4, <2>1
  <2> HIDE DEF Error
  <2>4. CASE ~ Closes(answers)
    <3>1. /\ e.result = TerminalFrame(Error("INVALID"))
          /\ e.rounds = q.rounds /\ e.effects = {}
      BY <1>2, <2>2, <2>3, <2>4
    <3>2. e.state = tok /\ ~ Closes(e.answers) /\ ~ (e.store # q.store)
      BY <1>2, <2>3, <2>4
    <3>3. IsReply(e, q, front, tok) <=>
              /\ e.result = TerminalFrame(Error("INVALID"))
              /\ e.rounds = q.rounds /\ e.effects = {}
      BY <3>2, Zenon DEF IsReply
    <3> QED
      BY <1>3, <2>3, <3>1, <3>3
  <2>5. CASE Closes(answers)
    <3> DEFINE id == Len(front) + 1
               action == answers[KEY].action
               closed == Append(front, [token |-> tok, status |-> action])
               previewed == [isError |-> FALSE, text |-> "previewed",
                             subject |-> id]
               skipped == [isError |-> FALSE, text |-> "skipped",
                           subject |-> None]
    <3>1. /\ action = "accept" =>
                 /\ e.result = TerminalFrame(previewed)
                 /\ e.rounds = closed
                 /\ e.effects = {[token |-> tok, subject |-> id]}
          /\ action # "accept" =>
                 /\ e.result = TerminalFrame(skipped)
                 /\ e.rounds = closed /\ e.effects = {}
      BY <1>2, <2>2, <2>5
    <3>2. IsReply(e, q, front, tok) <=>
              IF action = "accept"
              THEN /\ e.result = TerminalFrame(previewed)
                   /\ e.rounds = closed
                   /\ e.effects = {[token |-> tok, subject |-> id]}
              ELSE /\ e.result = TerminalFrame(skipped)
                   /\ e.rounds = closed /\ e.effects = {}
      BY <1>2, <2>3, <2>5, Zenon DEF IsReply
    <3> HIDE DEF closed, previewed, skipped, id, action
    <3> QED
      BY <1>2, <1>3, <2>3, <3>1, <3>2
  <2> QED
    BY <1>3, <2>3, <2>4, <2>5
<1>5. CASE stores # q.store
  <2>1. /\ Outcome(tok, answers) = Error("UNKNOWN_ROUND")
        /\ rounds' = <<>> /\ effects' = {}
    BY <1>5, AnswerNone DEF TablesAfter
  <2> QED
    BY <1>2, <1>3, <1>5, <2>1 DEF IsReply
<1> QED
  BY <1>3, <1>4, <1>5

\* The record of a question next to the rows that are there.
LEMMA QuestionRecorded ==
    ASSUME Store, effects = {}, NEW tok \in Tokens, Issue(tok), NEW e,
           e = [state |-> NoToken, answers |-> NoAnswers, result |-> Asked,
                rounds |-> rounds', effects |-> effects', store |-> stores']
    PROVE  IsQuestion(e, rounds, tok) /\ e.store = stores
<1>1. IsLog(rounds) /\ rounds' = Append(rounds, Pending(tok))
      /\ effects' = {} /\ stores' = stores
  BY DEF Store, Issue, IsLog, Pending
<1>2. /\ Len(rounds) \in Nat /\ Len(rounds') = Len(rounds) + 1
      /\ rounds'[Len(rounds) + 1] = Pending(tok)
  BY <1>1, LogGrows
<1>3. Asked = InputFrame(tok, Form(Len(rounds) + 1))
  BY <1>2 DEF Asked, Pending
<1> HIDE DEF Asked
<1>4. /\ e.state = NoToken /\ e.answers = NoAnswers
      /\ e.result = Asked /\ e.rounds = rounds' /\ e.effects = effects'
      /\ e.store = stores'
  OBVIOUS
<1> QED
  BY <1>1, <1>3, <1>4 DEF IsQuestion
-----------------------------------------------------------------------------
\* A step that leaves the log and the tables leaves what the log says of them.
LEMMA LogStays ==
    ASSUME NEW t, LogOf(t), served'[t] = served[t], rounds' = rounds,
           effects' = effects, stores' = stores, used \subseteq used',
           replayed'[t] = replayed[t],
           \/ consent'[t] = consent[t]
           \/ replayed[t] = NoToken => Len(served[t]) # 2
    PROVE  LogOf(t)'
<1>1. /\ FirstToken(t)' = FirstToken(t) /\ RowsBefore(t)' = RowsBefore(t)
  BY DEF FirstToken, RowsBefore
<1>2. ASSUME NEW e, TablesAfter(e)
      PROVE  TablesAfter(e)'
  BY <1>2 DEF TablesAfter
<1> DEFINE s == served[t]
           n == Len(s)
<1>3. /\ IsLog(s) /\ n <= MaxCalls
      /\ n = 0 => rounds = <<>> /\ effects = {}
      /\ n \in 1 .. 3 => TablesAfter(s[n])
  BY DEF LogOf
<1>4. n >= 1 => /\ IsQuestion(s[1], <<>>, FirstToken(t))
                /\ FirstToken(t) \in used /\ FirstToken(t) \in Tokens
                /\ s[1].store \in Nat
  BY DEF LogOf
<1>5. n >= 2 /\ replayed[t] = NoToken =>
          /\ n = 2 /\ IsReply(s[2], s[1], <<>>, FirstToken(t))
          /\ s[2].answers = consent'[t].answers
  BY DEF LogOf
<1>6. /\ n >= 2 /\ replayed[t] # NoToken =>
             /\ IsQuestion(s[2], RowsBefore(t), replayed[t])
             /\ replayed[t] # FirstToken(t)
      /\ n \in 2 .. 3 => s[2].store \in Nat /\ s[1].store <= s[2].store
      /\ n = 3 => /\ s[2].store <= s[3].store
                  /\ \/ s[3].state = FirstToken(t)
                     \/ IsReply(s[3], s[2], RowsBefore(t), replayed[t])
  BY DEF LogOf
<1>7. /\ IsQuestion(s[1], <<>>, FirstToken(t))' <=>
             IsQuestion(s[1], <<>>, FirstToken(t))
      /\ IsReply(s[2], s[1], <<>>, FirstToken(t))' <=>
             IsReply(s[2], s[1], <<>>, FirstToken(t))
      /\ IsQuestion(s[2], RowsBefore(t), replayed[t])' <=>
             IsQuestion(s[2], RowsBefore(t), replayed[t])
      /\ IsReply(s[3], s[2], RowsBefore(t), replayed[t])' <=>
             IsReply(s[3], s[2], RowsBefore(t), replayed[t])
  BY <1>1 DEF IsQuestion, IsReply, Closes
<1> HIDE DEF n
<1>8. n' = n
  BY DEF n
<1>9. n \in 1 .. 3 => TablesAfter(s[n])'
  BY <1>2, <1>3, <1>8
<1> QED
  BY <1>1, <1>3, <1>4, <1>5, <1>6, <1>7, <1>8, <1>9 DEF LogOf, n

LEMMA EvidenceKept ==
    ASSUME NEW t, EvidenceOf(t), t \in DOMAIN wire', t \in DOMAIN served',
           served'[t] = served[t], wire'[t] = wire[t],
           aborts'[t] = aborts[t], ckpt'[t] = ckpt[t], inbox'[t] = inbox[t],
           shown'[t] = shown[t], consent'[t] = consent[t],
           rounds' = rounds, effects' = effects, stores' = stores,
           used' = used, replayed'[t] = replayed[t]
    PROVE  EvidenceOf(t)'
<1>1. LogOf(t) => LogOf(t)'
  BY LogStays
<1>2. Progress(t) => Progress(t)'
  BY DEF Progress, FirstToken
<1>3. WireOf(t) => WireOf(t)'
  BY DEF WireOf
<1> QED
  BY <1>1, <1>2, <1>3 DEF EvidenceOf

\* A client's step that leaves no record.
LEMMA EvidenceUnrecorded ==
    ASSUME NEW t \in Threads, StdioShape, StdioInv, StdioShape', EvidenceOf(t),
           Unrecorded(t)
    PROVE  EvidenceOf(t)'
<1> DEFINE s == served[t]
           n == Len(s)
           c == ckpt[t]
<1>1. /\ wire' = Cut(wire) /\ served' = Cut(served) /\ UNCHANGED storeVars
      /\ Client(t)
  BY DEF Unrecorded, Client
<1>2. aborts[t] \in Nat /\ aborts'[t] \in Nat
  BY DEF StdioShape, Shape
<1>3. /\ t \in DOMAIN wire' /\ t \in DOMAIN served'
      /\ aborts'[t] # 0 => wire'[t] = <<>> /\ served'[t] = <<>>
      /\ aborts'[t] = 0 => wire'[t] = wire[t] /\ served'[t] = served[t]
  BY <1>1, <1>2, CutIs
<1>4. CASE aborts'[t] # 0
  BY <1>3, <1>4 DEF EvidenceOf
<1>5. /\ rounds' = rounds /\ effects' = effects /\ used' = used
      /\ stores' = stores /\ replayed' = replayed
  BY <1>1 DEF storeVars
<1>6. StdioThread(t) /\ Runs(t)
  BY DEF StdioInv, StdioThread
<1>7. \/ Rests(t) \/ Calls(t) \/ Receives(t) \/ Shows(t) \/ Consents(t)
      \/ Finishes(t) \/ Dies(t)
  BY <1>1, <1>6, ClientMoves DEF StdioShape
<1>8. ~ Receives(t)
  <2>1. \/ inbox' = inbox
        \/ aborts' = [aborts EXCEPT ![t] = aborts[t] + 1]
    BY DEF Unrecorded, Invoke, BeginCall, ContinueCall, CallTool, Review,
           RoundLimit, Resume, Finish, Abort
  <2>2. DOMAIN aborts = Threads
    BY DEF StdioShape, Shape
  <2>3. Receives(t) => /\ inbox[t] # NoFrame /\ inbox'[t] = NoFrame
                       /\ aborts'[t] = aborts[t]
    BY Zenon DEF Receives
  <2> HIDE DEF Receives
  <2> QED
    BY <1>2, <2>1, <2>2, <2>3
<1>9. c \in States(StdioFrames, AnswerMaps, StdioResults \cup {None})
  BY DEF StdioShape, Shape
<1>10. Asks(t) /\ Waits(t)
  BY <1>6 DEF StdioThread, Runs
<1>11. SUFFICES ASSUME aborts'[t] = 0, aborts[t] = 0
                PROVE  LogOf(t)' /\ Progress(t)' /\ WireOf(t)'
  <2>1. aborts'[t] = aborts[t] \/ aborts'[t] = aborts[t] + 1
    BY <1>7, <1>8, Zenon DEF Rests, Calls, Shows, Consents, Finishes, Dies
  <2> QED
    BY <1>2, <1>3, <1>4, <2>1 DEF EvidenceOf
<1>12. /\ wire'[t] = wire[t] /\ served'[t] = served[t]
       /\ LogOf(t) /\ Progress(t) /\ WireOf(t)
  BY <1>3, <1>11 DEF EvidenceOf
<1>13. CASE Rests(t) \/ Calls(t)
  <2>1. EvidenceOf(t)'
    BY <1>3, <1>5, <1>12, <1>13, EvidenceKept DEF Rests, Calls
  <2> QED
    BY <1>11, <2>1 DEF EvidenceOf
<1>14. CASE Shows(t)
  <2>1. /\ c.next = "review" /\ shown'[t] = c.frame.form /\ ckpt'[t] = c
        /\ consent'[t] = consent[t] /\ inbox'[t] = inbox[t]
    BY <1>14 DEF Shows
  <2>2. LogOf(t)'
    BY <1>5, <1>12, <2>1, LogStays
  <2>3. WireOf(t)'
    BY <1>12, <2>1 DEF WireOf
  <2>4. c.frame = s[1].result /\ n # 0
    BY <1>12, <2>1 DEF Progress
  <2>5. c.frame.form = Form(1)
    <3>1. IsQuestion(s[1], <<>>, FirstToken(t))
      <4>1. n \in Nat
        BY <1>12, LogLength DEF LogOf
      <4> QED
        BY <1>12, <2>4, <4>1 DEF LogOf
    <3> QED
      BY <2>4, <3>1 DEF IsQuestion, InputFrame
  <2>6. Progress(t)'
    BY <1>5, <1>12, <2>1, <2>5 DEF Progress, FirstToken
  <2> QED
    BY <2>2, <2>3, <2>6
<1>15. CASE Consents(t)
  <2>1. PICK answers \in Resumes :
           /\ ckpt'[t] = [c EXCEPT !.answers = answers,
                              !.status = "answered", !.next = "continue"]
           /\ consent'[t] = [form |-> shown[t], frame |-> ckpt[t].frame,
                             answers |-> answers]
    BY <1>15, Zenon DEF Consents
  <2>2. /\ shown'[t] = shown[t] /\ inbox'[t] = inbox[t] /\ inbox[t] = NoFrame
        /\ c.next = "review" /\ shown[t] # NoForm
    BY <1>15 DEF Consents
  <2>3. /\ ckpt'[t].frame = c.frame /\ ckpt'[t].answers = answers
        /\ ckpt'[t].next = "continue" /\ consent'[t].frame = c.frame
    BY <1>9, <2>1 DEF States
  <2>4. shown[t] = c.frame.form
    BY <1>10, <2>2 DEF Asks
  <2>5. c.frame = s[1].result /\ n # 0 /\ (replayed[t] = NoToken <=> n = 1)
    BY <1>12, <2>2 DEF Progress
  <2>6. n \in Nat /\ (replayed[t] = NoToken => n # 2)
    BY <1>12, <2>5, LogLength DEF LogOf
  <2>7. LogOf(t)'
    BY <1>5, <1>12, <2>6, LogStays
  <2>8. IsQuestion(s[1], <<>>, FirstToken(t))
    BY <1>12, <2>5, <2>6 DEF LogOf
  <2>9. c.frame.form = Form(1)
    BY <2>5, <2>8 DEF IsQuestion, InputFrame
  <2>10. WireOf(t)'
    BY <1>12, <2>2 DEF WireOf
  <2>11. Progress(t)'
    BY <1>5, <1>12, <2>2, <2>3, <2>4, <2>5, <2>9 DEF Progress
  <2> QED
    BY <2>7, <2>10, <2>11
<1>16. CASE Finishes(t)
  <2>1. /\ ckpt'[t] = [c EXCEPT !.result = c.frame.result,
           !.status = IF c.frame.result.isError THEN "tool_error"
                      ELSE "completed",
           !.next = "end"]
        /\ c.next = "finish" /\ shown'[t] = shown[t]
        /\ consent'[t] = consent[t] /\ inbox'[t] = inbox[t]
        /\ inbox[t] = NoFrame
    BY <1>16 DEF Finishes
  <2>2. /\ ckpt'[t].frame = c.frame /\ ckpt'[t].result = c.frame.result
        /\ ckpt'[t].next = "end"
        /\ ckpt'[t].status = IF c.frame.result.isError THEN "tool_error"
                             ELSE "completed"
    BY <1>9, <2>1 DEF States
  <2>3. LogOf(t)'
    BY <1>5, <1>12, <2>1, LogStays
  <2>4. WireOf(t)'
    BY <1>12, <2>1 DEF WireOf
  <2>5. Progress(t)'
    BY <1>5, <1>12, <2>1, <2>2 DEF Progress, FirstToken
  <2> QED
    BY <2>3, <2>4, <2>5
<1>17. ~ Dies(t)
  BY <1>2, <1>11 DEF Dies
<1> QED
  BY <1>7, <1>8, <1>13, <1>14, <1>15, <1>16, <1>17

\* A reply that is recorded and checkpointed.
LEMMA EvidenceRecorded ==
    ASSUME NEW t \in Threads, StdioShape, StdioInv, EvidenceOf(t), Recorded(t)
    PROVE  EvidenceOf(t)'
<1> DEFINE s == served[t]
           w == wire[t]
           n == Len(s)
           c == ckpt[t]
           row == Row(c.frame.token, c.answers, inbox[t])
<1>1. /\ wire' = Kept(wire, t, row) /\ served' = served /\ UNCHANGED storeVars
      /\ Client(t) /\ inbox[t] # NoFrame /\ aborts' = aborts
      /\ inbox' = [inbox EXCEPT ![t] = NoFrame]
  BY DEF Recorded, Client, BeginReturns, ContinueReturns, Received
<1>2. aborts[t] \in Nat /\ aborts'[t] = aborts[t] /\ inbox'[t] = NoFrame
  BY <1>1 DEF StdioShape, Shape
<1>3. t \in DOMAIN wire /\ t \in DOMAIN served
  BY DEF EvidenceOf
<1>4. /\ t \in DOMAIN wire'
      /\ aborts[t] # 0 => wire'[t] = <<>>
      /\ aborts[t] = 0 =>
             wire'[t] = IF Len(w) = MaxCalls THEN w ELSE Append(w, row)
  BY <1>1, <1>2, <1>3, KeptIs
<1>5. SUFFICES ASSUME aborts[t] = 0
               PROVE  LogOf(t)' /\ Progress(t)' /\ WireOf(t)'
  BY <1>1, <1>2, <1>3, <1>4 DEF EvidenceOf
<1>6. LogOf(t) /\ Progress(t) /\ WireOf(t)
  BY <1>5 DEF EvidenceOf
<1>7. StdioThread(t) /\ Runs(t)
  BY DEF StdioInv, StdioThread
<1>8. Receives(t)
  <2>1. \/ Rests(t) \/ Calls(t) \/ Receives(t) \/ Shows(t) \/ Consents(t)
        \/ Finishes(t) \/ Dies(t)
    BY <1>1, <1>7, ClientMoves DEF StdioShape
  <2>2. /\ Rests(t) \/ Shows(t) => inbox'[t] = inbox[t]
        /\ Calls(t) \/ Consents(t) \/ Finishes(t) => inbox[t] = NoFrame
        /\ Dies(t) => aborts'[t] = aborts[t] + 1
    BY Zenon DEF Rests, Shows, Calls, Consents, Finishes, Dies
  <2>3. inbox'[t] # inbox[t] /\ aborts'[t] # aborts[t] + 1
    BY <1>1, <1>2
  <2> QED
    BY <1>1, <2>1, <2>2, <2>3
<1>9. PICK m : ckpt'[t] = [c EXCEPT
                     !.frame = inbox[t], !.answers = NoAnswers,
                     !.roundIndex = m, !.status = "received",
                     !.next = IF inbox[t].kind = "input" THEN "review"
                              ELSE "finish"]
  BY <1>8, Zenon DEF Receives
<1>10. /\ shown'[t] = shown[t] /\ consent'[t] = consent[t]
       /\ c.next \in {"begin", "continue"}
  BY <1>8, Zenon DEF Receives
<1>11. /\ c \in States(StdioFrames, AnswerMaps, StdioResults \cup {None})
       /\ inbox[t] \in StdioFrames
  BY DEF StdioShape, Shape
<1>12. /\ ckpt'[t].frame = inbox[t]
       /\ inbox[t].kind = "input" => ckpt'[t].next = "review"
       /\ inbox[t].kind # "input" => ckpt'[t].next = "finish"
  BY <1>9, <1>11 DEF States
<1>13. /\ rounds' = rounds /\ effects' = effects /\ used' = used
       /\ stores' = stores /\ replayed' = replayed /\ served' = served
  BY <1>1 DEF storeVars
<1>14. LogOf(t)'
  BY <1>6, <1>10, <1>13, LogStays
<1>15. IsLog(s) /\ n \in Nat /\ IsLog(w) /\ Len(w) \in Nat
       /\ DOMAIN w = 1 .. Len(w)
  BY <1>6, LogLength DEF LogOf, WireOf
<1>16. /\ n >= 1 /\ Len(w) \in {n - 1, n} /\ (Len(w) = n => n = MaxCalls)
       /\ n <= MaxCalls
  BY <1>1, <1>6 DEF WireOf, LogOf
<1>17. WireOf(t)'
  <2>1. CASE Len(w) = MaxCalls
    <3>1. wire'[t] = w
      BY <1>4, <1>5, <2>1, Zenon
    <3>2. Len(w) = n /\ ~ (n <= 3)
      <4> HIDE DEF n, w
      <4> QED
        BY <1>15, <1>16, <2>1 DEF MaxCalls
    <3> QED
      BY <1>2, <1>13, <1>15, <3>1, <3>2 DEF WireOf
  <2>2. CASE Len(w) # MaxCalls
    <3>1. Len(w) = n - 1 /\ wire'[t] = Append(w, row)
      BY <1>4, <1>5, <1>16, <2>2
    <3>2. /\ IsLog(wire'[t]) /\ Len(wire'[t]) = n /\ DOMAIN wire'[t] = 1 .. n
          /\ \A i \in 1 .. Len(w) : wire'[t][i] = w[i]
          /\ wire'[t][n] = row
      BY <1>15, <3>1, LogGrows
    <3>3. n <= 3 => row = Row(s[n].state, s[n].answers, s[n].result)
      BY <1>1, <1>6 DEF WireOf
    <3>4. n <= 3 => \A i \in DOMAIN w :
                        w[i] = Row(s[i].state, s[i].answers, s[i].result)
      BY <1>6 DEF WireOf
    <3> HIDE DEF row
    <3>5. n <= 3 => \A i \in 1 .. n :
              wire'[t][i] = Row(s[i].state, s[i].answers, s[i].result)
      BY <1>15, <3>1, <3>2, <3>3, <3>4
    <3> QED
      BY <1>2, <1>13, <3>2, <3>5 DEF WireOf
  <2> QED
    BY <2>1, <2>2
<1>18. CASE c.next = "begin"
  <2>1. n = 1 /\ replayed[t] = NoToken /\ inbox[t] = s[1].result
    <3>1. n <= 1 /\ replayed[t] = NoToken
      BY <1>6, <1>18 DEF Progress
    <3>2. n = 1
      <4> HIDE DEF n
      <4> QED
        BY <1>15, <1>16, <3>1
    <3> QED
      BY <1>6, <1>18, <3>1, <3>2 DEF Progress
  <2>2. IsQuestion(s[1], <<>>, FirstToken(t))
    BY <1>6, <2>1 DEF LogOf
  <2>3. inbox[t].kind = "input"
    BY <2>1, <2>2 DEF IsQuestion, InputFrame
  <2>4. Progress(t)'
    BY <1>12, <1>13, <2>1, <2>3 DEF Progress
  <2> QED
    BY <1>14, <1>17, <2>4
<1>19. CASE c.next = "continue"
  <2>1. inbox[t].kind # "input"
    BY <1>7, <1>19 DEF StdioThread, Asks
  <2>2. ckpt'[t].next = "finish"
    BY <1>12, <2>1
  <2>3. Progress(t)'
    BY <1>1, <1>6, <1>10, <1>12, <1>13, <1>16, <1>19, <2>2 DEF Progress, FirstToken
  <2> QED
    BY <1>14, <1>17, <2>3
<1> QED
  BY <1>10, <1>18, <1>19

\* A lost call either cuts the client short or was awaited by nobody.
LEMMA EvidenceLost ==
    ASSUME NEW t \in Threads, \A u \in Threads : u = t, StdioShape, StdioShape',
           EvidenceOf(t), NEW r \in requests, Lose(r), UNCHANGED storeVars,
           wire' = Cut(wire), served' = Cut(served)
    PROVE  EvidenceOf(t)'
<1>1. aborts[t] \in Nat /\ aborts'[t] \in Nat /\ r.thread = t
  BY DEF StdioShape, Shape
<1>2. /\ t \in DOMAIN wire' /\ t \in DOMAIN served'
      /\ aborts'[t] # 0 => wire'[t] = <<>> /\ served'[t] = <<>>
      /\ aborts'[t] = 0 => wire'[t] = wire[t] /\ served'[t] = served[t]
  BY <1>1, CutIs
<1>3. CASE Dies(t)
  <2>1. aborts'[t] # 0
    BY <1>1, <1>3 DEF Dies
  <2> QED
    BY <1>2, <2>1 DEF EvidenceOf
<1>4. CASE Rests(t)
  <2>1. aborts'[t] = aborts[t]
    BY <1>4 DEF Rests
  <2>2. CASE aborts[t] = 0
    BY <1>2, <1>4, <2>1, <2>2, EvidenceKept DEF Rests, storeVars
  <2>3. CASE aborts[t] # 0
    BY <1>2, <2>1, <2>3 DEF EvidenceOf
  <2> QED
    BY <2>2, <2>3
<1> QED
  BY <1>1, <1>3, <1>4, LoseMoves DEF StdioShape

\* An empty store has none of the tables of the log.
LEMMA EvidenceEmptied ==
    ASSUME NEW t \in Threads, StdioInv, EvidenceOf(t), StartEmpty,
           wire' = wire, served' = served
    PROVE  EvidenceOf(t)'
<1>1. /\ rounds' = <<>> /\ effects' = {} /\ stores' = stores + 1
      /\ used' = used /\ replayed' = replayed
      /\ ckpt' = ckpt /\ shown' = shown /\ consent' = consent
      /\ aborts' = aborts /\ inbox' = inbox
  BY DEF StartEmpty, clientVars
<1>2. stores \in Nat
  BY DEF StdioInv, Store
<1>3. Progress(t) => Progress(t)'
  BY <1>1 DEF Progress, FirstToken
<1>4. WireOf(t) => WireOf(t)'
  BY <1>1 DEF WireOf
<1>5. ASSUME LogOf(t)
      PROVE  LogOf(t)'
  <2> DEFINE s == served[t]
             n == Len(s)
  <2>1. ASSUME NEW e, TablesAfter(e)
        PROVE  TablesAfter(e)'
    <3>1. e.store \in Nat /\ e.store <= stores
      BY <2>1 DEF TablesAfter
    <3>2. stores' # e.store /\ e.store <= stores'
      BY <1>1, <1>2, <3>1
    <3> QED
      BY <1>1, <3>1, <3>2 DEF TablesAfter
  <2>2. n \in 1 .. 3 => TablesAfter(s[n])'
    BY <1>5, <2>1 DEF LogOf
  <2>3. /\ FirstToken(t)' = FirstToken(t) /\ RowsBefore(t)' = RowsBefore(t)
    BY <1>1 DEF FirstToken, RowsBefore
  <2>4. /\ IsQuestion(s[1], <<>>, FirstToken(t))' <=>
               IsQuestion(s[1], <<>>, FirstToken(t))
        /\ IsReply(s[2], s[1], <<>>, FirstToken(t))' <=>
               IsReply(s[2], s[1], <<>>, FirstToken(t))
        /\ IsQuestion(s[2], RowsBefore(t), replayed[t])' <=>
               IsQuestion(s[2], RowsBefore(t), replayed[t])
        /\ IsReply(s[3], s[2], RowsBefore(t), replayed[t])' <=>
               IsReply(s[3], s[2], RowsBefore(t), replayed[t])
    BY <1>1, <2>3 DEF IsQuestion, IsReply, Closes
  <2> QED
    BY <1>1, <1>5, <2>2, <2>3, <2>4 DEF LogOf
<1> QED
  BY <1>1, <1>3, <1>4, <1>5 DEF EvidenceOf

\* The server's part of a call that a client awaits: only a call that is
\* awaited is of a thread that was never cut short.
LEMMA CallOfFirst ==
    ASSUME NEW t \in Threads, \A u \in Threads : u = t, StdioShape, StdioInv,
           NEW r \in requests, aborts[t] = 0
    PROVE  /\ r.thread = t /\ Awaited(r) /\ inbox[t] = NoFrame
           /\ ckpt[t].next \in {"begin", "continue"}
           /\ ckpt[t].next = "begin" =>
                  /\ r.token = NoToken /\ r.answers = NoAnswers
                  /\ ckpt[t].frame.token = NoToken
           /\ ckpt[t].next = "continue" =>
                  /\ r.token = ckpt[t].frame.token /\ r.token \in Tokens
                  /\ r.answers = ckpt[t].answers
                  /\ consent[t].answers = ckpt[t].answers
<1>1. /\ r.thread = t /\ r.attempt \in Nat /\ aborts[t] \in Nat
      /\ ckpt[t] \in States(StdioFrames, AnswerMaps, StdioResults \cup {None})
  BY DEF StdioShape, Shape
<1>2. Runs(t) /\ Asks(t)
  BY DEF StdioInv, StdioThread
<1>3. r.attempt = aborts[t] /\ run[t] = "calling" /\ inbox[t] = NoFrame
  <2>1. r.attempt <= aborts[t]
    BY <1>1, <1>2 DEF Runs, Calls1
  <2>2. r.attempt = aborts[t]
    BY <1>1, <2>1
  <2> QED
    BY <1>1, <1>2, <2>2 DEF Runs, Calls1
<1>4. Awaited(r)
  BY <1>1, <1>3 DEF Awaited
<1>5. /\ ckpt[t].next \in {"begin", "continue"}
      /\ ckpt[t].next = "begin" => r.token = NoToken /\ r.answers = NoAnswers
      /\ ckpt[t].next = "continue" =>
             /\ r.token = ckpt[t].frame.token /\ r.answers = ckpt[t].answers
  BY <1>1, <1>2, <1>4, CurrentCall
<1>6. ckpt[t].next = "begin" => ckpt[t].frame.token = NoToken
  BY <1>2 DEF Asks, NoFrame
<1>7. ckpt[t].next = "continue" =>
          ckpt[t].frame.token \in Tokens /\ consent[t].answers = ckpt[t].answers
  <2>1. ckpt[t].frame \in StdioFrames
    BY <1>1 DEF States
  <2> QED
    BY <1>2, <2>1, StdioKinds DEF Asks
<1> QED
  BY <1>1, <1>3, <1>4, <1>5, <1>6, <1>7

LEMMA EvidenceAsked ==
    ASSUME NEW t \in Threads, \A u \in Threads : u = t, StdioShape, StdioInv,
           EvidenceOf(t), NEW r \in requests, EmitInitial(r)
    PROVE  EvidenceOf(t)'
<1> DEFINE s == served[t]
           c == ckpt[t]
<1>0. PICK e : e = [state |-> NoToken, answers |-> r.answers, result |-> Asked,
                    rounds |-> rounds', effects |-> effects',
                    store |-> stores']
  OBVIOUS
<1>1. PICK tok \in Tokens :
          /\ Issue(tok) /\ Deliver(r, InputFrame(tok, Form(Len(rounds) + 1)))
  BY DEF EmitInitial, ServeIssue
<1>2. /\ ckpt' = ckpt /\ shown' = shown /\ consent' = consent
      /\ aborts' = aborts /\ wire' = wire /\ replayed' = replayed
      /\ r.token = NoToken
  BY <1>1 DEF EmitInitial, ServeIssue, Deliver
<1>3. r.thread = t /\ aborts[t] \in Nat /\ t \in DOMAIN wire /\ t \in DOMAIN served
  BY DEF StdioShape, Shape, EvidenceOf
<1>4. /\ t \in DOMAIN served'
      /\ aborts[t] # 0 => served'[t] = <<>>
      /\ aborts[t] = 0 =>
             served'[t] = IF Len(s) = MaxCalls THEN s ELSE Append(s, e)
  <2>1. served' = Kept(served, t, e)
    BY <1>0, <1>3 DEF EmitInitial, Emitted
  <2> QED
    BY <1>2, <1>3, <2>1, KeptIs
<1>5. SUFFICES ASSUME aborts[t] = 0
               PROVE  LogOf(t)' /\ Progress(t)' /\ WireOf(t)'
  BY <1>2, <1>3, <1>4 DEF EvidenceOf
<1>6. LogOf(t) /\ Progress(t) /\ WireOf(t)
  BY <1>5 DEF EvidenceOf
<1>7. /\ Awaited(r) /\ inbox[t] = NoFrame /\ c.next = "begin"
      /\ r.answers = NoAnswers /\ c.frame.token = NoToken
  <2>1. /\ Awaited(r) /\ inbox[t] = NoFrame /\ c.next \in {"begin", "continue"}
        /\ c.next = "begin" => r.answers = NoAnswers /\ c.frame.token = NoToken
        /\ c.next = "continue" => r.token \in Tokens
    BY <1>5, CallOfFirst
  <2> QED
    BY <1>2, <2>1, StdioAssumption
<1>8. /\ Len(s) = 0 /\ IsLog(s) /\ rounds = <<>> /\ effects = {}
      /\ replayed[t] = NoToken /\ c.answers = NoAnswers
  BY <1>6, <1>7 DEF Progress, LogOf
<1>9. /\ IsLog(served'[t]) /\ Len(served'[t]) = 1 /\ served'[t][1] = e
  <2>1. served'[t] = Append(s, e)
    BY <1>4, <1>5, <1>8 DEF MaxCalls
  <2> QED
    BY <1>8, <2>1, LogGrows
<1>10. IsQuestion(e, <<>>, tok) /\ e.store = stores
  <2>1. Store
    BY DEF StdioInv
  <2>2. e = [state |-> NoToken, answers |-> NoAnswers, result |-> Asked,
             rounds |-> rounds', effects |-> effects', store |-> stores']
    BY <1>0, <1>7
  <2> QED
    BY <1>1, <1>8, <2>1, <2>2, QuestionRecorded
<1>11. /\ stores' = stores /\ stores \in Nat /\ tok \in used'
       /\ e.rounds = rounds' /\ e.effects = effects'
       /\ e.state = NoToken /\ e.answers = NoAnswers
  BY <1>0, <1>1, <1>7 DEF Issue, StdioInv, Store
<1>12. e.result = InputFrame(tok, Form(Len(rounds) + 1)) /\ e.result.token = tok
  BY <1>8, <1>10 DEF IsQuestion, InputFrame
<1>13. inbox'[t] = e.result /\ e.result # NoFrame
  <2>1. DOMAIN inbox = Threads
    BY DEF StdioShape, Shape
  <2>2. inbox'[t] = InputFrame(tok, Form(Len(rounds) + 1))
    BY <1>1, <1>3, <1>7, <2>1 DEF Deliver
  <2> QED
    BY <1>12, <2>2 DEF InputFrame, NoFrame
<1>14. FirstToken(t)' = tok
  BY <1>9, <1>12 DEF FirstToken
<1>15. TablesAfter(e)'
  BY <1>10, <1>11 DEF TablesAfter
<1>16. IsQuestion(e, <<>>, tok)'
  BY <1>10, <1>1 DEF IsQuestion
<1>17. LogOf(t)'
  BY <1>2, <1>8, <1>9, <1>10, <1>11, <1>14, <1>15, <1>16 DEF LogOf, MaxCalls
<1>18. Progress(t)'
  BY <1>2, <1>7, <1>8, <1>9, <1>13 DEF Progress
<1>19. WireOf(t)'
  <2>1. Len(wire[t]) = 0 /\ IsLog(wire[t]) /\ DOMAIN wire[t] = {}
    BY <1>6, <1>7, <1>8, LogLength DEF WireOf
  <2> QED
    BY <1>2, <1>7, <1>8, <1>9, <1>11, <1>13, <2>1 DEF WireOf
<1> QED
  BY <1>17, <1>18, <1>19

LEMMA EmptyLog == IsLog(<<>>)
<1>1. <<>> \in Seq({})
  OBVIOUS
<1> QED
  BY <1>1 DEF IsLog

LEMMA RowsBeforeLog ==
    ASSUME NEW t, IsQuestion(served[t][1], <<>>, FirstToken(t))
    PROVE  IsLog(RowsBefore(t))
<1>1. served[t][1].rounds = Append(<<>>, Pending(FirstToken(t)))
  BY DEF IsQuestion
<1>2. IsLog(Append(<<>>, Pending(FirstToken(t))))
  BY EmptyLog, LogGrows
<1> QED
  BY <1>1, <1>2, EmptyLog DEF RowsBefore

\* The log after a row, of which it keeps only so many.
LogThen(s, e) == IF Len(s) = MaxCalls THEN s ELSE Append(s, e)

LEMMA LogAfter ==
    ASSUME NEW s, IsLog(s), Len(s) <= MaxCalls, NEW e, NEW a, a = LogThen(s, e)
    PROVE  /\ IsLog(a) /\ Len(s) \in Nat /\ Len(a) \in Nat
           /\ DOMAIN s = 1 .. Len(s) /\ DOMAIN a = 1 .. Len(a)
           /\ Len(s) = 4 => Len(a) = 4 /\ a = s
           /\ Len(s) # 4 => Len(s) <= 3 /\ Len(a) = Len(s) + 1
                            /\ a[Len(a)] = e
           /\ \A i \in 1 .. Len(s) : a[i] = s[i]
<1>1. Len(s) \in Nat /\ DOMAIN s = 1 .. Len(s)
  BY LogLength
<1>2. CASE Len(s) = 4
  BY <1>1, <1>2 DEF MaxCalls, LogThen
<1>3. CASE Len(s) # 4
  <2>1. a = Append(s, e)
    BY <1>3 DEF MaxCalls, LogThen
  <2>2. /\ IsLog(a) /\ Len(a) = Len(s) + 1 /\ DOMAIN a = 1 .. Len(s) + 1
        /\ \A i \in 1 .. Len(s) : a[i] = s[i]
        /\ a[Len(s) + 1] = e
    BY <2>1, LogGrows
  <2> DEFINE n == Len(s)
             k == Len(a)
  <2>3. n \in Nat /\ n <= MaxCalls /\ n # 4 /\ k = n + 1 /\ a[n + 1] = e
    BY <1>1, <1>3, <2>2
  <2> HIDE DEF n, k
  <2>4. n # 4 /\ n <= 3 /\ k = n + 1 /\ a[k] = e /\ k \in Nat
    <3>1. n <= 3 /\ n + 1 \in Nat
      BY <2>3 DEF MaxCalls
    <3> QED
      BY <2>3, <3>1, Zenon
  <2>5. DOMAIN a = 1 .. k
    BY <2>2, <2>3 DEF n
  <2> QED
    BY <1>1, <2>2, <2>4, <2>5 DEF n, k
<1> QED
  BY <1>2, <1>3

\* The log after a further row: once a question was put in the place of the
\* first one, only the third row says more.
LEMMA LogExtended ==
    ASSUME NEW t, LogOf(t), replayed[t] # NoToken, replayed'[t] = replayed[t],
           used \subseteq used', NEW e, Len(served[t]) >= 2,
           served'[t] = IF Len(served[t]) = MaxCalls THEN served[t]
                        ELSE Append(served[t], e),
           Len(served[t]) = 2 =>
               /\ TablesAfter(e)' /\ served[t][2].store <= e.store
               /\ \/ e.state = FirstToken(t)
                  \/ IsReply(e, served[t][2], RowsBefore(t), replayed[t])
    PROVE  LogOf(t)'
<1> DEFINE s == served[t]
           n == Len(s)
           a == served'[t]
           k == Len(a)
<1>1. IsLog(s) /\ n <= MaxCalls
  BY DEF LogOf
<1>2. /\ IsLog(a) /\ n \in Nat /\ k \in Nat
      /\ n = 4 => k = 4 /\ a = s
      /\ n # 4 => n <= 3 /\ k = n + 1 /\ a[k] = e
      /\ \A i \in 1 .. n : a[i] = s[i]
  <2>1. PICK b : b = a
    OBVIOUS
  <2>2. PICK q : q = s
    OBVIOUS
  <2>3. b = LogThen(q, e)
    BY <2>1, <2>2 DEF LogThen
  <2>4. IsLog(q) /\ Len(q) <= MaxCalls
    BY <1>1, <2>2
  <2>5. /\ IsLog(b) /\ Len(q) \in Nat /\ Len(b) \in Nat
        /\ Len(q) = 4 => Len(b) = 4 /\ b = q
        /\ Len(q) # 4 => Len(q) <= 3 /\ Len(b) = Len(q) + 1 /\ b[Len(b)] = e
        /\ \A i \in 1 .. Len(q) : b[i] = q[i]
    BY <2>3, <2>4, LogAfter
  <2> QED
    BY <2>1, <2>2, <2>5
<1>3. n \in 2 .. 4 /\ k \in 3 .. 4 /\ (k = 3 => n = 2)
  <2>1. /\ n \in Nat /\ k \in Nat /\ n >= 2 /\ n <= MaxCalls
        /\ n = 4 => k = 4
        /\ n # 4 => n <= 3 /\ k = n + 1
    BY <1>1, <1>2
  <2> HIDE DEF n, k
  <2> QED
    BY <2>1 DEF MaxCalls
<1>4. a[1] = s[1] /\ a[2] = s[2] /\ (k = 3 => a[3] = e)
  <2>1. 1 \in 1 .. n /\ 2 \in 1 .. n
    BY <1>3
  <2> QED
    BY <1>2, <1>3, <2>1
<1>5. FirstToken(t)' = FirstToken(t) /\ RowsBefore(t)' = RowsBefore(t)
  BY <1>4 DEF FirstToken, RowsBefore
<1>6. /\ IsQuestion(s[1], <<>>, FirstToken(t))
      /\ FirstToken(t) \in used /\ FirstToken(t) \in Tokens
      /\ s[1].store \in Nat
      /\ IsQuestion(s[2], RowsBefore(t), replayed[t])
      /\ replayed[t] # FirstToken(t)
      /\ n \in 2 .. 3 => s[2].store \in Nat /\ s[1].store <= s[2].store
  BY <1>3 DEF LogOf
<1>7. /\ IsQuestion(s[1], <<>>, FirstToken(t))'
      /\ IsQuestion(s[2], RowsBefore(t), replayed[t])'
      /\ k = 3 /\ IsReply(e, s[2], RowsBefore(t), replayed[t]) =>
             IsReply(s[3], s[2], RowsBefore(t), replayed[t])'
  BY <1>4, <1>5, <1>6 DEF IsQuestion, IsReply, Closes
<1>8. k = 3 => /\ TablesAfter(s[3])' /\ a[2].store <= a[3].store
               /\ \/ a[3].state = FirstToken(t)
                  \/ IsReply(s[3], s[2], RowsBefore(t), replayed[t])'
  BY <1>3, <1>4, <1>7
<1>9. Len(served[t])' = k
  OBVIOUS
<1>10. k = 3 => a[2].store \in Nat /\ a[1].store <= a[2].store
  BY <1>3, <1>4, <1>6
<1> HIDE DEF k, n
<1>11. k \in 1 .. 3 => TablesAfter(s[Len(s)])'
  BY <1>3, <1>8, <1>9
<1> QED
  BY <1>2, <1>3, <1>4, <1>5, <1>6, <1>7, <1>8, <1>9, <1>10, <1>11
     DEF LogOf, MaxCalls

\* A call that the server answers is the awaited continuation.
LEMMA EvidenceAnswered ==
    ASSUME NEW t \in Threads, \A u \in Threads : u = t, StdioShape, StdioInv,
           EvidenceOf(t), NEW r \in requests, EmitContinuation(r)
    PROVE  EvidenceOf(t)'
<1> DEFINE s == served[t]
           n == Len(s)
           w == wire[t]
           c == ckpt[t]
<1>1. PICK e : e = [state |-> r.token, answers |-> r.answers,
                    result |-> TerminalFrame(Outcome(r.token, r.answers)),
                    rounds |-> rounds', effects |-> effects',
                    store |-> stores']
  OBVIOUS
<1>2. /\ AnswerRound(r.token, r.answers) /\ r.token # NoToken
      /\ Deliver(r, e.result) /\ replayed' = replayed /\ wire' = wire
  BY <1>1 DEF EmitContinuation, ServeContinuation
<1>3. /\ ckpt' = ckpt /\ shown' = shown /\ consent' = consent
      /\ aborts' = aborts
  BY <1>2 DEF Deliver
<1>4. /\ r.thread = t /\ aborts[t] \in Nat
      /\ t \in DOMAIN wire /\ t \in DOMAIN served
  BY DEF StdioShape, Shape, EvidenceOf
<1>5. /\ t \in DOMAIN served'
      /\ aborts[t] # 0 => served'[t] = <<>>
      /\ aborts[t] = 0 => served'[t] = LogThen(s, e)
  <2>1. served' = Kept(served, t, e)
    BY <1>1, <1>4 DEF EmitContinuation, Emitted, Answered
  <2> QED
    BY <1>3, <1>4, <2>1, KeptIs DEF LogThen
<1>6. SUFFICES ASSUME aborts[t] = 0
               PROVE  LogOf(t)' /\ Progress(t)' /\ WireOf(t)'
  BY <1>2, <1>3, <1>4, <1>5 DEF EvidenceOf
<1>7. LogOf(t) /\ Progress(t) /\ WireOf(t) /\ Store
  BY <1>6 DEF EvidenceOf, StdioInv
<1>8. /\ Awaited(r) /\ inbox[t] = NoFrame /\ c.next = "continue"
      /\ r.token = c.frame.token /\ r.answers = c.answers
      /\ consent[t].answers = c.answers
  <2>1. /\ Awaited(r) /\ inbox[t] = NoFrame /\ c.next \in {"begin", "continue"}
        /\ c.next = "begin" => r.token = NoToken
        /\ c.next = "continue" =>
               /\ r.token = c.frame.token /\ r.answers = c.answers
               /\ consent[t].answers = c.answers
    BY <1>6, CallOfFirst
  <2> QED
    BY <1>2, <2>1
<1>9. /\ n # 0 /\ (replayed[t] = NoToken <=> n = 1)
      /\ c.frame = s[1].result /\ consent[t].frame = s[1].result
      /\ shown[t] = Form(1)
  BY <1>7, <1>8 DEF Progress
<1>10. /\ IsLog(s) /\ n <= MaxCalls /\ n \in Nat /\ IsLog(w) /\ Len(w) = n
  BY <1>7, <1>8, LogLength DEF LogOf, WireOf
<1>11. PICK a : a = served'[t]
  OBVIOUS
<1>12. /\ IsLog(a) /\ Len(a) \in Nat /\ DOMAIN s = 1 .. n
       /\ n = 4 => Len(a) = 4 /\ a = s
       /\ n # 4 => n <= 3 /\ Len(a) = n + 1 /\ a[Len(a)] = e
       /\ \A i \in 1 .. n : a[i] = s[i]
  <2>1. a = LogThen(s, e)
    BY <1>5, <1>6, <1>11
  <2> QED
    BY <1>10, <2>1, LogAfter
<1>13. FirstToken(t) = r.token /\ 1 \in 1 .. n /\ a[1] = s[1]
  BY <1>8, <1>9, <1>10, <1>12 DEF FirstToken
<1>14. /\ e.state = r.token /\ e.answers = r.answers
       /\ e.result = TerminalFrame(Outcome(r.token, r.answers))
       /\ e.rounds = rounds' /\ e.effects = effects' /\ e.store = stores'
       /\ used' = used /\ stores' = stores /\ stores \in Nat
  BY <1>1, <1>2, <1>7, StdioAnswer DEF Store
<1>15. inbox'[t] = e.result /\ e.result # NoFrame
  <2>1. DOMAIN inbox = Threads
    BY DEF StdioShape, Shape
  <2>2. inbox'[t] = e.result
    BY <1>2, <1>4, <1>8, <2>1 DEF Deliver
  <2> QED
    BY <1>14, <2>2 DEF TerminalFrame, NoFrame
<1>16. TablesAfter(e)'
  BY <1>14 DEF TablesAfter
<1>17. CASE n = 1
  <2>1. Len(a) = 2 /\ a[2] = e /\ replayed[t] = NoToken
    <3> HIDE DEF n
    <3>1. Len(a) = n + 1 /\ a[Len(a)] = e
      BY <1>12, <1>17
    <3>2. Len(a) = 2
      BY <1>17, <3>1
    <3> QED
      BY <1>9, <1>17, <3>1, <3>2
  <2>2. /\ IsQuestion(s[1], <<>>, FirstToken(t)) /\ TablesAfter(s[1])
        /\ FirstToken(t) \in used /\ FirstToken(t) \in Tokens
        /\ s[1].store \in Nat
    BY <1>7, <1>17 DEF LogOf
  <2>3. IsReply(e, s[1], <<>>, r.token) /\ s[1].store <= e.store
    <3>1. /\ s[1].rounds = Append(<<>>, Pending(r.token))
          /\ s[1].effects = {}
      BY <1>13, <2>2 DEF IsQuestion
    <3> QED
      BY <1>1, <1>2, <1>7, <2>2, <3>1, EmptyLog, ReplyRecorded
  <2>4. FirstToken(t)' = r.token
    BY <1>11, <1>13 DEF FirstToken
  <2>5. /\ IsQuestion(s[1], <<>>, FirstToken(t))'
        /\ IsReply(s[2], s[1], <<>>, FirstToken(t))'
    BY <1>11, <1>13, <2>1, <2>2, <2>3, <2>4 DEF IsQuestion, IsReply, Closes
  <2>6. s[1].store \in Nat /\ e.store \in Nat
    BY <1>14, <2>2
  <2>7. LogOf(t)'
    <3>1. TablesAfter(s[n])'
      BY <1>11, <1>16, <2>1
    <3>2. /\ IsLog(s') /\ n' = 2 /\ s'[1] = s[1] /\ s'[2] = e
      BY <1>11, <1>12, <1>13, <2>1
    <3>3. /\ FirstToken(t)' \in used' /\ FirstToken(t)' \in Tokens
          /\ s[1].store \in Nat /\ s[1].store <= e.store /\ e.store \in Nat
          /\ replayed'[t] = NoToken
      BY <1>2, <1>13, <1>14, <2>1, <2>2, <2>3, <2>4, <2>6
    <3>4. e.answers = consent'[t].answers
      BY <1>3, <1>8, <1>14
    <3> QED
      BY <2>5, <3>1, <3>2, <3>3, <3>4 DEF LogOf, MaxCalls
  <2>8. Progress(t)'
    BY <1>2, <1>3, <1>8, <1>9, <1>11, <1>13, <1>15, <2>1 DEF Progress
  <2>9. WireOf(t)'
    <3>1. Len(w) = 1 /\ DOMAIN w = 1 .. 1
      BY <1>10, <1>17, LogLength
    <3>2. w[1] = Row(s[1].state, s[1].answers, s[1].result)
      BY <1>7, <1>17, <3>1 DEF WireOf
    <3> QED
      BY <1>2, <1>3, <1>8, <1>10, <1>11, <1>13, <1>14, <1>15, <2>1, <3>1, <3>2
         DEF WireOf
  <2> QED
    BY <2>7, <2>8, <2>9
<1>18. CASE n # 1
  <2>1. n >= 2 /\ replayed[t] # NoToken
    <3> HIDE DEF n
    <3> QED
      BY <1>9, <1>10, <1>18
  <2>2. LogOf(t)'
    <3>1. n = 2 => s[2].store <= e.store
      <4>1. n = 2 => TablesAfter(s[2])
        BY <1>7 DEF LogOf
      <4> QED
        BY <1>14, <4>1 DEF TablesAfter
    <3>2. served'[t] = IF n = MaxCalls THEN s ELSE Append(s, e)
      BY <1>5, <1>6 DEF LogThen
    <3> QED
      BY <1>2, <1>7, <1>13, <1>14, <1>16, <2>1, <3>1, <3>2, LogExtended
  <2>3. Len(a) >= 3 /\ Len(a) \in {n, n + 1} /\ (Len(a) = n => n = 4)
        /\ (Len(a) = 3 => a[3] = e) /\ (Len(a) <= 3 => n = 2)
    <3> HIDE DEF n
    <3> QED
      BY <1>10, <1>12, <2>1
  <2>4. Progress(t)'
    BY <1>2, <1>3, <1>8, <1>9, <1>11, <1>13, <1>14, <1>15, <2>1, <2>3
       DEF Progress, FirstToken
  <2>5. WireOf(t)'
    <3>1. Len(a) <= 3 =>
              /\ Len(a) = 3 /\ DOMAIN w = 1 .. 2
              /\ \A i \in 1 .. 2 :
                     w[i] = Row(a[i].state, a[i].answers, a[i].result)
      <4>1. SUFFICES ASSUME Len(a) <= 3
                     PROVE  /\ Len(a) = 3 /\ DOMAIN w = 1 .. 2
                            /\ \A i \in 1 .. 2 :
                                 w[i] = Row(a[i].state, a[i].answers,
                                            a[i].result)
        OBVIOUS
      <4>2. n = 2 /\ DOMAIN w = 1 .. 2 /\ Len(a) = 3
        <5>1. n = 2
          BY <2>3, <4>1
        <5> QED
          BY <1>10, <1>12, <5>1, LogLength
      <4>3. \A i \in 1 .. 2 :
                w[i] = Row(s[i].state, s[i].answers, s[i].result)
        BY <1>7, <4>2 DEF WireOf
      <4> QED
        BY <1>12, <4>2, <4>3
    <3>2. /\ Len(a) >= 1 /\ Len(w) \in {Len(a) - 1, Len(a)}
          /\ Len(w) = Len(a) => Len(a) = MaxCalls
      BY <1>10, <1>12, <2>3 DEF MaxCalls
    <3> QED
      BY <1>2, <1>3, <1>8, <1>10, <1>11, <1>14, <1>15, <2>3, <3>1, <3>2
         DEF WireOf
  <2> QED
    BY <2>2, <2>4, <2>5
<1> QED
  BY <1>17, <1>18

\* A row that both sides write: the calls past the graph have no reply on its
\* way.
LEMMA WireExtended ==
    ASSUME NEW t, WireOf(t), IsLog(served[t]), Len(served[t]) <= MaxCalls,
           inbox[t] = NoFrame, inbox'[t] = NoFrame, NEW e,
           served'[t] = LogThen(served[t], e),
           wire'[t] = LogThen(wire[t], Row(e.state, e.answers, e.result))
    PROVE  WireOf(t)'
<1> DEFINE s == served[t]
           w == wire[t]
           n == Len(s)
<1>0. PICK row : row = Row(e.state, e.answers, e.result)
  OBVIOUS
<1>1. PICK a : a = served'[t]
  OBVIOUS
<1>2. PICK b : b = wire'[t]
  OBVIOUS
<1>3. /\ IsLog(s) /\ n \in Nat /\ n <= MaxCalls /\ IsLog(w) /\ Len(w) = n
      /\ n <= 3 => \A i \in DOMAIN w :
                       w[i] = Row(s[i].state, s[i].answers, s[i].result)
  BY LogLength DEF WireOf
<1>4. /\ IsLog(a) /\ Len(a) \in Nat
      /\ n = 4 => Len(a) = 4
      /\ n # 4 => n <= 3 /\ Len(a) = n + 1 /\ a[Len(a)] = e
      /\ \A i \in 1 .. n : a[i] = s[i]
  BY <1>1, <1>3, LogAfter
<1>5. /\ IsLog(b) /\ Len(b) \in Nat /\ DOMAIN w = 1 .. n /\ DOMAIN b = 1 .. Len(b)
      /\ n = 4 => Len(b) = 4
      /\ n # 4 => Len(b) = n + 1 /\ b[Len(b)] = row
      /\ \A i \in 1 .. n : b[i] = w[i]
  <2>1. Len(w) <= MaxCalls /\ b = LogThen(w, row)
    BY <1>0, <1>2, <1>3
  <2>2. /\ IsLog(b) /\ Len(b) \in Nat
        /\ DOMAIN w = 1 .. Len(w) /\ DOMAIN b = 1 .. Len(b)
        /\ Len(w) = 4 => Len(b) = 4
        /\ Len(w) # 4 => Len(b) = Len(w) + 1 /\ b[Len(b)] = row
        /\ \A i \in 1 .. Len(w) : b[i] = w[i]
    BY <1>3, <2>1, LogAfter
  <2> QED
    BY <1>3, <2>2
<1>6. Len(b) = Len(a)
  <2> HIDE DEF n
  <2> QED
    BY <1>4, <1>5
<1>7. ASSUME Len(a) <= 3, NEW i \in 1 .. Len(a)
      PROVE  b[i] = Row(a[i].state, a[i].answers, a[i].result)
  <2>1. /\ n <= 3 /\ Len(a) = n + 1 /\ a[Len(a)] = e /\ b[Len(a)] = row
    <3>1. n # 4
      <4> DEFINE k == Len(a)
      <4>1. k <= 3 /\ (n = 4 => k = 4)
        BY <1>4, <1>7
      <4> HIDE DEF k, n
      <4> QED
        BY <4>1
    <3>2. b[Len(b)] = row
      BY <1>5, <3>1
    <3> QED
      BY <1>4, <1>6, <3>1, <3>2
  <2>2. i = Len(a) \/ i \in 1 .. n
    <3> HIDE DEF n
    <3> QED
      BY <1>3, <1>7, <2>1
  <2>3. CASE i = Len(a)
    BY <1>0, <2>1, <2>3
  <2>4. CASE i \in 1 .. n
    BY <1>3, <1>4, <1>5, <2>1, <2>4
  <2> QED
    BY <2>2, <2>3, <2>4
<1> QED
  BY <1>1, <1>2, <1>4, <1>5, <1>6, <1>7 DEF WireOf

\* What both of the wrong application's calls start from, and leave.
LEMMA PastTheGraph ==
    ASSUME NEW t \in Threads, StdioShape, StdioInv, EvidenceOf(t),
           UNCHANGED clientVars, ckpt[t].next = "review", NEW e,
           served' = Kept(served, t, e),
           wire' = Kept(wire, t, Row(e.state, e.answers, e.result))
    PROVE  /\ t \in DOMAIN wire' /\ t \in DOMAIN served'
           /\ ckpt' = ckpt /\ shown' = shown /\ consent' = consent
           /\ aborts' = aborts /\ inbox' = inbox /\ inbox[t] = NoFrame
           /\ aborts[t] # 0 => EvidenceOf(t)'
           /\ aborts[t] = 0 =>
                  /\ LogOf(t) /\ Progress(t) /\ WireOf(t)'
                  /\ served'[t] = LogThen(served[t], e)
                  /\ ckpt[t].frame = served[t][1].result
                  /\ Len(served[t]) # 0 /\ Len(served[t]) <= MaxCalls
                  /\ IsLog(served[t]) /\ Len(served[t]) \in Nat
<1> DEFINE row == Row(e.state, e.answers, e.result)
<1>1. /\ ckpt' = ckpt /\ shown' = shown /\ consent' = consent
      /\ aborts' = aborts /\ inbox' = inbox
  BY DEF clientVars
<1>2. aborts[t] \in Nat /\ t \in DOMAIN wire /\ t \in DOMAIN served
  BY DEF StdioShape, Shape, EvidenceOf
<1>3. inbox[t] = NoFrame
  BY DEF StdioInv, StdioThread, Runs, Waits
<1>4. /\ t \in DOMAIN served'
      /\ aborts[t] # 0 => served'[t] = <<>>
      /\ aborts[t] = 0 => served'[t] = LogThen(served[t], e)
  BY <1>1, <1>2, KeptIs DEF LogThen
<1>5. /\ t \in DOMAIN wire'
      /\ aborts[t] # 0 => wire'[t] = <<>>
      /\ aborts[t] = 0 => wire'[t] = LogThen(wire[t], row)
  <2>1. wire' = Kept(wire, t, row)
    OBVIOUS
  <2> HIDE DEF row
  <2> QED
    BY <1>1, <1>2, <2>1, KeptIs DEF LogThen
<1>6. aborts[t] # 0 => EvidenceOf(t)'
  BY <1>1, <1>4, <1>5 DEF EvidenceOf
<1>7. ASSUME aborts[t] = 0
      PROVE  /\ LogOf(t) /\ Progress(t) /\ WireOf(t)'
             /\ served'[t] = LogThen(served[t], e)
             /\ ckpt[t].frame = served[t][1].result
             /\ Len(served[t]) # 0 /\ Len(served[t]) <= MaxCalls
             /\ IsLog(served[t]) /\ Len(served[t]) \in Nat
  <2>1. LogOf(t) /\ Progress(t) /\ WireOf(t)
    BY <1>7 DEF EvidenceOf
  <2>2. ckpt[t].frame = served[t][1].result /\ Len(served[t]) # 0
    BY <2>1 DEF Progress
  <2>3. /\ Len(served[t]) <= MaxCalls /\ IsLog(served[t])
        /\ Len(served[t]) \in Nat
    BY <2>1, LogLength DEF LogOf
  <2>4. WireOf(t)'
    BY <1>1, <1>3, <1>4, <1>5, <1>7, <2>1, <2>3, WireExtended
  <2> QED
    BY <1>4, <1>7, <2>1, <2>2, <2>3, <2>4
<1> QED
  BY <1>1, <1>3, <1>4, <1>5, <1>6, <1>7

LEMMA EvidenceReplayed ==
    ASSUME NEW t \in Threads, StdioShape, StdioInv, EvidenceOf(t),
           RecordReplayInitial(t)
    PROVE  EvidenceOf(t)'
<1> DEFINE s == served[t]
           n == Len(s)
           c == ckpt[t]
<1>1. PICK e : e = [state |-> NoToken, answers |-> NoAnswers, result |-> Asked,
                    rounds |-> rounds', effects |-> effects',
                    store |-> stores']
  OBVIOUS
<1>2. PICK tok \in Tokens :
          Issue(tok) /\ replayed' = [replayed EXCEPT ![t] = tok]
  BY DEF RecordReplayInitial, ReplayInitial
<1>3. /\ UNCHANGED clientVars /\ c.next = "review" /\ shown[t] # NoForm
      /\ replayed[t] = NoToken
      /\ served' = Kept(served, t, e)
      /\ wire' = Kept(wire, t, Row(e.state, e.answers, e.result))
  <2>1. e.state = NoToken /\ e.answers = NoAnswers /\ e.result = Asked
    BY <1>1
  <2> QED
    BY <1>1, <2>1 DEF RecordReplayInitial, ReplayInitial, Emitted
<1>4. /\ t \in DOMAIN wire' /\ t \in DOMAIN served'
      /\ ckpt' = ckpt /\ shown' = shown /\ consent' = consent
      /\ aborts' = aborts /\ inbox' = inbox /\ inbox[t] = NoFrame
      /\ aborts[t] # 0 => EvidenceOf(t)'
  BY <1>3, PastTheGraph
<1>5. SUFFICES ASSUME aborts[t] = 0
               PROVE  EvidenceOf(t)'
  BY <1>4
<1>6. /\ LogOf(t) /\ Progress(t) /\ WireOf(t)'
      /\ served'[t] = LogThen(s, e) /\ c.frame = s[1].result
      /\ n # 0 /\ n <= MaxCalls /\ IsLog(s) /\ n \in Nat
  BY <1>3, <1>5, PastTheGraph
<1>7. n = 1
  BY <1>3, <1>6 DEF Progress
<1>8. PICK a : a = served'[t]
  OBVIOUS
<1>9. IsLog(a) /\ Len(a) = 2 /\ a[1] = s[1] /\ a[2] = e
  <2>1. /\ IsLog(a) /\ (n # 4 => Len(a) = n + 1 /\ a[Len(a)] = e)
        /\ \A i \in 1 .. n : a[i] = s[i]
    BY <1>6, <1>8, LogAfter
  <2>2. Len(a) = n + 1 /\ a[Len(a)] = e /\ 1 \in 1 .. n
    BY <1>7, <2>1
  <2>3. Len(a) = 2
    <3> HIDE DEF n
    <3> QED
      BY <1>7, <2>2
  <2> QED
    BY <2>1, <2>2, <2>3
<1>10. /\ IsQuestion(s[1], <<>>, FirstToken(t)) /\ TablesAfter(s[1])
       /\ FirstToken(t) \in used /\ FirstToken(t) \in Tokens
       /\ s[1].store \in Nat
  BY <1>6, <1>7 DEF LogOf
<1>11. Store
  BY DEF StdioInv
<1>12. effects = {}
  BY <1>10 DEF TablesAfter, IsQuestion
<1>13. IsQuestion(e, rounds, tok) /\ e.store = stores
  BY <1>1, <1>2, <1>11, <1>12, QuestionRecorded
<1>14. /\ e.rounds = rounds' /\ e.effects = effects' /\ stores' = stores
       /\ stores \in Nat /\ used' = used \cup {tok} /\ tok \notin used
  BY <1>1, <1>2, <1>11 DEF Issue, Store
<1>15. FirstToken(t)' = FirstToken(t) /\ RowsBefore(t)' = rounds
  <2>1. RowsBefore(t)' = IF e.store = s[1].store THEN s[1].rounds ELSE <<>>
    BY <1>8, <1>9 DEF RowsBefore
  <2> QED
    BY <1>8, <1>9, <1>10, <1>13, <2>1 DEF FirstToken, TablesAfter
<1>16. replayed'[t] = tok /\ tok # NoToken /\ tok # FirstToken(t)
  BY <1>2, <1>10, <1>11, <1>14, StdioAssumption DEF Store
<1>17. LogOf(t)'
  <2>1. TablesAfter(s[n])'
    BY <1>8, <1>9, <1>13, <1>14 DEF TablesAfter
  <2>2. IsQuestion(s[1], <<>>, FirstToken(t))'
    BY <1>8, <1>9, <1>10, <1>15 DEF IsQuestion
  <2>3. IsQuestion(s[2], RowsBefore(t), replayed[t])'
    <3>1. /\ e.state = NoToken /\ e.answers = NoAnswers
          /\ e.result = InputFrame(tok, Form(Len(rounds) + 1))
          /\ e.rounds = Append(rounds, Pending(tok)) /\ e.effects = {}
      BY <1>13 DEF IsQuestion
    <3>2. served'[t][2] = e
      BY <1>8, <1>9
    <3> QED
      BY <1>15, <1>16, <3>1, <3>2, Zenon DEF IsQuestion
  <2>4. IsLog(s') /\ n' = 2 /\ s'[1] = s[1] /\ s'[2] = e
    BY <1>8, <1>9
  <2>5. s[1].store \in Nat /\ e.store \in Nat /\ s[1].store <= e.store
    BY <1>10, <1>13, <1>14 DEF TablesAfter
  <2> QED
    BY <1>10, <1>14, <1>15, <1>16, <2>1, <2>2, <2>3, <2>4, <2>5
       DEF LogOf, MaxCalls
<1>18. Progress(t)'
  <2>1. shown[t] = Form(1)
    <3>1. shown[t] = c.frame.form
      BY <1>3 DEF StdioInv, StdioThread, Asks
    <3> QED
      BY <1>6, <1>10, <3>1 DEF IsQuestion, InputFrame
  <2>2. n' = 2 /\ s'[1] = s[1]
    BY <1>8, <1>9
  <2> QED
    BY <1>3, <1>4, <1>6, <1>16, <2>1, <2>2 DEF Progress
<1> QED
  BY <1>4, <1>5, <1>6, <1>17, <1>18 DEF EvidenceOf

LEMMA EvidenceReanswered ==
    ASSUME NEW t \in Threads, StdioShape, StdioInv, EvidenceOf(t),
           NEW answers, RecordReplayAnswer(t, answers)
    PROVE  EvidenceOf(t)'
<1> DEFINE s == served[t]
           n == Len(s)
           c == ckpt[t]
           tok == replayed[t]
<1>1. PICK e : e = [state |-> tok, answers |-> answers,
                    result |-> TerminalFrame(Outcome(tok, answers)),
                    rounds |-> rounds', effects |-> effects',
                    store |-> stores']
  OBVIOUS
<1>2. /\ UNCHANGED clientVars /\ c.next = "review" /\ tok # NoToken
      /\ replayed' = replayed /\ AnswerRound(tok, answers)
      /\ served' = Kept(served, t, e)
      /\ wire' = Kept(wire, t, Row(e.state, e.answers, e.result))
  <2>1. /\ e.state = tok /\ e.answers = answers
        /\ e.result = TerminalFrame(Outcome(tok, answers))
    BY <1>1
  <2> QED
    BY <1>1, <2>1 DEF RecordReplayAnswer, ReplayAnswer, Emitted, Answered
<1>3. /\ t \in DOMAIN wire' /\ t \in DOMAIN served'
      /\ ckpt' = ckpt /\ shown' = shown /\ consent' = consent
      /\ aborts' = aborts /\ inbox' = inbox /\ inbox[t] = NoFrame
      /\ aborts[t] # 0 => EvidenceOf(t)'
  BY <1>2, PastTheGraph
<1>4. SUFFICES ASSUME aborts[t] = 0
               PROVE  EvidenceOf(t)'
  BY <1>3
<1>5. /\ LogOf(t) /\ Progress(t) /\ WireOf(t)'
      /\ served'[t] = LogThen(s, e) /\ c.frame = s[1].result
      /\ n # 0 /\ n <= MaxCalls /\ IsLog(s) /\ n \in Nat
  BY <1>2, <1>4, PastTheGraph
<1>6. n >= 2 /\ shown[t] = Form(1)
  <2>1. n # 1
    BY <1>2, <1>5 DEF Progress
  <2>2. n >= 2
    <3> HIDE DEF n
    <3> QED
      BY <1>5, <2>1
  <2> QED
    BY <1>2, <1>5, <2>2 DEF Progress
<1>7. Store
  BY DEF StdioInv
<1>8. /\ e.state = tok /\ e.rounds = rounds' /\ e.effects = effects'
      /\ e.store = stores' /\ used' = used /\ stores' = stores
      /\ stores \in Nat
  BY <1>1, <1>2, <1>7, StdioAnswer DEF Store
<1>9. TablesAfter(e)'
  BY <1>8 DEF TablesAfter
<1>10. n = 2 => IsReply(e, s[2], RowsBefore(t), tok) /\ s[2].store <= e.store
  <2>1. SUFFICES ASSUME n = 2
                 PROVE  /\ IsReply(e, s[2], RowsBefore(t), tok)
                        /\ s[2].store <= e.store
    OBVIOUS
  <2>2. /\ IsQuestion(s[1], <<>>, FirstToken(t)) /\ TablesAfter(s[2])
        /\ IsQuestion(s[2], RowsBefore(t), tok)
    BY <1>2, <1>5, <2>1 DEF LogOf
  <2>3. IsLog(RowsBefore(t))
    BY <2>2, RowsBeforeLog
  <2>4. s[2].rounds = Append(RowsBefore(t), Pending(tok)) /\ s[2].effects = {}
    BY <2>2 DEF IsQuestion
  <2> QED
    BY <1>1, <1>2, <1>7, <2>2, <2>3, <2>4, ReplyRecorded
<1>11. LogOf(t)'
  <2>1. served'[t] = IF n = MaxCalls THEN s ELSE Append(s, e)
    BY <1>5 DEF LogThen
  <2> QED
    BY <1>2, <1>5, <1>6, <1>8, <1>9, <1>10, <2>1, LogExtended
<1>12. PICK a : a = served'[t]
  OBVIOUS
<1>13. /\ a[1] = s[1] /\ Len(a) >= 3 /\ Len(a) \in Nat
       /\ Len(a) = 3 => a[3] = e
  <2>1. /\ Len(a) \in Nat /\ (n = 4 => Len(a) = 4)
        /\ n # 4 => n <= 3 /\ Len(a) = n + 1 /\ a[Len(a)] = e
        /\ \A i \in 1 .. n : a[i] = s[i]
    BY <1>5, <1>12, LogAfter
  <2>2. 1 \in 1 .. n /\ Len(a) >= 3 /\ (Len(a) = 3 => n # 4)
    <3> HIDE DEF n
    <3> QED
      BY <1>5, <1>6, <2>1
  <2> QED
    BY <2>1, <2>2
<1>14. Progress(t)'
  <2>1. /\ s'[1] = s[1] /\ n' # 0 /\ n' # 1 /\ (n' = 3 => s'[3].state = tok)
    <3>1. Len(a) # 0 /\ Len(a) # 1
      <4> DEFINE k == Len(a)
      <4>1. k \in Nat /\ k >= 3
        BY <1>13
      <4> HIDE DEF k
      <4>2. k # 0 /\ k # 1
        BY <4>1
      <4> QED
        BY <4>2 DEF k
    <3>2. Len(a) = 3 => a[3].state = tok
      BY <1>8, <1>13
    <3> QED
      BY <1>12, <1>13, <3>1, <3>2
  <2>2. /\ c' = c /\ replayed'[t] = tok /\ shown'[t] = Form(1)
        /\ inbox'[t] = NoFrame
    BY <1>2, <1>3, <1>6
  <2> HIDE DEF tok
  <2> QED
    BY <1>2, <1>5, <2>1, <2>2 DEF Progress
<1> QED
  BY <1>3, <1>4, <1>5, <1>11, <1>14 DEF EvidenceOf
-----------------------------------------------------------------------------
LEMMA EvidenceStarts ==
    ASSUME EvidenceInit, NEW t \in Threads
    PROVE  EvidenceOf(t)
<1>1. /\ wire[t] = <<>> /\ served[t] = <<>> /\ t \in DOMAIN wire
      /\ t \in DOMAIN served
  BY DEF EvidenceInit
<1>2. /\ ckpt[t] = NewThread /\ inbox[t] = NoFrame /\ aborts[t] = 0
      /\ rounds = <<>> /\ effects = {} /\ replayed[t] = NoToken
  BY DEF EvidenceInit, RestartInit, ClientInit
<1>3. /\ ckpt[t].next = "begin" /\ ckpt[t].answers = NoAnswers
  BY <1>2 DEF NewThread
<1>4. Len(served[t]) = 0 /\ Len(wire[t]) = 0
  BY <1>1
<1>5. LogOf(t)
  BY <1>1, <1>2, <1>4, EmptyLog DEF LogOf, MaxCalls
<1>6. Progress(t)
  BY <1>2, <1>3, <1>4 DEF Progress
<1>7. WireOf(t)
  BY <1>1, <1>2, <1>4, EmptyLog DEF WireOf
<1> QED
  BY <1>1, <1>2, <1>5, <1>6, <1>7 DEF EvidenceOf

\* The recorded system takes the steps of StdioRestart.
LEMMA EvidenceIsRestart ==
    [EvidenceNext]_evidenceVars => [RestartNext]_restartVars
<1> SUFFICES ASSUME [EvidenceNext]_evidenceVars
             PROVE  [RestartNext]_restartVars
  OBVIOUS
<1>1. CASE UNCHANGED evidenceVars
  BY <1>1 DEF evidenceVars, restartVars
<1>2. CASE \E t \in Threads : Recorded(t)
  BY <1>2 DEF Recorded, RestartNext, Client
<1>3. CASE \E t \in Threads : Unrecorded(t)
  BY <1>3 DEF Unrecorded, RestartNext, Client
<1>4. CASE \E r \in requests : EmitInitial(r) \/ EmitContinuation(r)
  BY <1>4 DEF EmitInitial, EmitContinuation, RestartNext
<1>5. CASE \E r \in requests : Lose(r) /\ UNCHANGED storeVars
  BY <1>5 DEF RestartNext
<1>6. CASE StartEmpty \/ RestartDone
  BY <1>6 DEF RestartNext
<1>7. CASE \E t \in Threads : RecordReplayInitial(t)
  BY <1>7 DEF RecordReplayInitial, RestartNext
<1>8. CASE \E t \in Threads : \E answers \in Resumes :
               RecordReplayAnswer(t, answers)
  BY <1>8 DEF RecordReplayAnswer, RestartNext
<1> QED
  BY <1>1, <1>2, <1>3, <1>4, <1>5, <1>6, <1>7, <1>8 DEF EvidenceNext

LEMMA EvidenceStep ==
    ASSUME NEW t \in Threads, \A u \in Threads : u = t, StdioShape, StdioInv,
           StdioShape', EvidenceOf(t), [EvidenceNext]_evidenceVars
    PROVE  EvidenceOf(t)'
<1>1. CASE \E u \in Threads : Recorded(u)
  BY <1>1, EvidenceRecorded
<1>2. CASE \E u \in Threads : Unrecorded(u)
  BY <1>2, EvidenceUnrecorded
<1>3. CASE \E r \in requests : EmitInitial(r)
  BY <1>3, EvidenceAsked
<1>4. CASE \E r \in requests : EmitContinuation(r)
  BY <1>4, EvidenceAnswered
<1>5. CASE \E r \in requests :
               /\ Lose(r) /\ UNCHANGED storeVars
               /\ wire' = Cut(wire) /\ served' = Cut(served)
  BY <1>5, EvidenceLost
<1>6. CASE StartEmpty /\ UNCHANGED <<wire, served>>
  BY <1>6, EvidenceEmptied
<1>7. CASE \E u \in Threads : RecordReplayInitial(u)
  BY <1>7, EvidenceReplayed
<1>8. CASE \E u \in Threads : \E answers \in Resumes :
               RecordReplayAnswer(u, answers)
  BY <1>8, EvidenceReanswered
<1>9. CASE UNCHANGED evidenceVars
           \/ (RestartDone /\ UNCHANGED <<wire, served>>)
  <2>1. UNCHANGED evidenceVars
    BY <1>9 DEF RestartDone, restartVars, evidenceVars
  <2>2. t \in DOMAIN wire /\ t \in DOMAIN served
    BY DEF EvidenceOf
  <2> QED
    BY <2>1, <2>2, EvidenceKept DEF evidenceVars
<1> QED
  BY <1>1, <1>2, <1>3, <1>4, <1>5, <1>6, <1>7, <1>8, <1>9 DEF EvidenceNext

LEMMA EvidenceAlways ==
    ASSUME \A s, u \in Threads : s = u
    PROVE  EvidenceSpec =>
               []((\A t \in Threads : EvidenceOf(t)) /\ StdioShape /\ StdioInv)
<1> DEFINE Inv == (\A t \in Threads : EvidenceOf(t)) /\ StdioShape /\ StdioInv
<1>1. EvidenceInit => Inv
  BY EvidenceStarts, StdioInit DEF EvidenceInit
<1>2. Inv /\ [EvidenceNext]_evidenceVars => Inv'
  <2> SUFFICES ASSUME Inv, [EvidenceNext]_evidenceVars
               PROVE  Inv'
    OBVIOUS
  <2>1. StdioShape' /\ StdioInv'
    BY EvidenceIsRestart, StdioNext
  <2>2. \A t \in Threads : EvidenceOf(t)'
    BY <2>1, EvidenceStep
  <2> QED
    BY <2>1, <2>2
<1> QED
  BY <1>1, <1>2, PTL DEF EvidenceSpec
-----------------------------------------------------------------------------
LEMMA TwoStores ==
    ASSUME NEW a, NEW b
    PROVE  /\ Cardinality({a, b}) = 2 <=> a # b
           /\ Cardinality({a, b}) = 1 <=> a = b
<1>1. {a, b} = {a} \cup {b}
  OBVIOUS
<1>2. IsFiniteSet({a}) /\ Cardinality({a}) = 1
  BY FS_Singleton
<1>3. Cardinality({a} \cup {b}) = IF b \in {a} THEN 1 ELSE 1 + 1
  BY <1>2, FS_AddElement
<1> QED
  BY <1>1, <1>3

LEMMA ThreeStores ==
    ASSUME NEW a, NEW b, NEW c
    PROVE  Cardinality({a, b, c}) = 1 <=> a = b /\ b = c
<1>1. {a, b, c} = ({a} \cup {b}) \cup {c}
  OBVIOUS
<1>2. IsFiniteSet({a}) /\ Cardinality({a}) = 1
  BY FS_Singleton
<1>3. IsFiniteSet({a} \cup {b})
  BY <1>2, FS_AddElement
<1>4. IsFiniteSet({a, b, c})
  BY <1>1, <1>3, FS_AddElement
<1>5. Cardinality({a, b, c}) = 1 <=> \E x : {a, b, c} = {x}
  BY <1>4, FS_Singleton
<1>6. (\E x : {a, b, c} = {x}) <=> a = b /\ b = c
  <2>1. ASSUME NEW x, {a, b, c} = {x}
        PROVE  a = b /\ b = c
    BY <2>1
  <2>2. ASSUME a = b, b = c
        PROVE  {a, b, c} = {a}
    BY <2>2
  <2> QED
    BY <2>1, <2>2
<1> QED
  BY <1>5, <1>6

\* The records of an operation that ended in the graph.
LEMMA GraphRecords ==
    ASSUME NEW t \in Threads, StdioInv, EvidenceOf(t), aborts[t] = 0,
           GraphEnded(t)
    PROVE  LET s == served[t]
               w == wire[t]
           IN  /\ inbox[t] = NoFrame /\ ~ ReplayEnded(t) /\ Returned(t)
               /\ replayed[t] = NoToken =>
                      /\ Len(s) = 2 /\ Len(w) = 2
                      /\ DOMAIN s = 1 .. 2 /\ DOMAIN w = 1 .. 2
                      /\ w[1] = Row(s[1].state, s[1].answers, s[1].result)
                      /\ w[2] = Row(s[2].state, s[2].answers, s[2].result)
                      /\ IsQuestion(s[1], <<>>, FirstToken(t))
                      /\ IsReply(s[2], s[1], <<>>, FirstToken(t))
                      /\ Supplied(t) = s[2].answers
                      /\ Result(t) = s[2].result.result
                      /\ Status(t) = IF Result(t).isError THEN "tool_error"
                                     ELSE "completed"
                      /\ Reopened(t) = s[1].result /\ shown[t] = Form(1)
               /\ replayed[t] # NoToken =>
                      /\ Len(w) \in {3, 4} /\ 1 \in 1 .. Len(w)
                      /\ Len(w) = 3 =>
                             /\ w[1].result.token = FirstToken(t)
                             /\ w[3].state = FirstToken(t)
<1> DEFINE s == served[t]
           w == wire[t]
           n == Len(s)
<1>1. LogOf(t) /\ Progress(t) /\ WireOf(t)
  BY DEF EvidenceOf
<1>2. /\ inbox[t] = NoFrame /\ ~ ReplayEnded(t) /\ Returned(t)
      /\ ckpt[t].next = "end"
  BY DEF StdioInv, StdioThread, Runs, Waits, GraphEnded, ReplayEnded, Returned
<1>3. /\ IsLog(s) /\ n \in Nat /\ n <= MaxCalls /\ IsLog(w) /\ Len(w) = n
      /\ DOMAIN s = 1 .. n /\ DOMAIN w = 1 .. n
  BY <1>1, <1>2, LogLength DEF LogOf, WireOf
<1>4. n <= 3 => \A i \in 1 .. n :
                    w[i] = Row(s[i].state, s[i].answers, s[i].result)
  BY <1>1, <1>3 DEF WireOf
<1>5. /\ replayed[t] = NoToken => n = 2 /\ ckpt[t].frame = s[2].result
      /\ replayed[t] # NoToken =>
             n >= 3 /\ (n = 3 => s[3].state = FirstToken(t))
      /\ consent[t].frame = s[1].result /\ shown[t] = Form(1)
      /\ ckpt[t].result = ckpt[t].frame.result
      /\ ckpt[t].status = IF ckpt[t].result.isError THEN "tool_error"
                          ELSE "completed"
  BY <1>1, <1>2 DEF Progress
<1>6. CASE replayed[t] = NoToken
  <2>1. n = 2
    BY <1>5, <1>6
  <2>2. /\ IsQuestion(s[1], <<>>, FirstToken(t))
        /\ IsReply(s[2], s[1], <<>>, FirstToken(t))
        /\ s[2].answers = consent[t].answers
    BY <1>1, <1>6, <2>1 DEF LogOf
  <2>3. /\ Supplied(t) = s[2].answers /\ Result(t) = s[2].result.result
        /\ Status(t) = IF Result(t).isError THEN "tool_error" ELSE "completed"
        /\ Reopened(t) = s[1].result
    BY <1>5, <1>6, <2>2 DEF Supplied, Result, Status, Reopened
  <2>4. /\ w[1] = Row(s[1].state, s[1].answers, s[1].result)
        /\ w[2] = Row(s[2].state, s[2].answers, s[2].result)
    BY <1>4, <2>1
  <2>5. Len(w) = 2 /\ DOMAIN s = 1 .. 2 /\ DOMAIN w = 1 .. 2
    BY <1>3, <2>1
  <2> QED
    BY <1>2, <1>5, <1>6, <2>1, <2>2, <2>3, <2>4, <2>5
<1>7. CASE replayed[t] # NoToken
  <2>1. n \in {3, 4} /\ 1 \in 1 .. n /\ (n = 3 => 3 \in 1 .. n)
    <3>1. n >= 3
      BY <1>5, <1>7
    <3> HIDE DEF n
    <3> QED
      BY <1>3, <3>1 DEF MaxCalls
  <2>2. n = 3 => /\ w[1].result.token = FirstToken(t)
                 /\ w[3].state = FirstToken(t)
    BY <1>4, <1>5, <1>7, <2>1 DEF Row, FirstToken
  <2>3. Len(w) \in {3, 4} /\ 1 \in 1 .. Len(w) /\ (Len(w) = 3 => n = 3)
    BY <1>3, <2>1
  <2> QED
    BY <1>2, <1>7, <2>2, <2>3
<1> QED
  BY <1>6, <1>7

\* The records of a client that ended past the graph.
LEMMA ReplayRecords ==
    ASSUME NEW t \in Threads, StdioInv, EvidenceOf(t), aborts[t] = 0,
           ReplayEnded(t)
    PROVE  LET s == served[t]
               w == wire[t]
           IN  /\ ~ GraphEnded(t) /\ Returned(t)
               /\ Len(s) = 3 /\ Len(w) = 3
               /\ DOMAIN s = 1 .. 3 /\ DOMAIN w = 1 .. 3
               /\ w[1] = Row(s[1].state, s[1].answers, s[1].result)
               /\ w[2] = Row(s[2].state, s[2].answers, s[2].result)
               /\ w[3] = Row(s[3].state, s[3].answers, s[3].result)
               /\ IsQuestion(s[1], <<>>, FirstToken(t))
               /\ IsQuestion(s[2], RowsBefore(t), replayed[t])
               /\ replayed[t] # FirstToken(t)
               /\ IsReply(s[3], s[2], RowsBefore(t), replayed[t])
               /\ Supplied(t) = s[3].answers
               /\ Result(t) = s[3].result.result
               /\ Status(t) = "naive_control_returned"
               /\ Reopened(t) = s[1].result /\ shown[t] = Form(1)
<1> DEFINE s == served[t]
           w == wire[t]
           n == Len(s)
<1>1. LogOf(t) /\ Progress(t) /\ WireOf(t)
  BY DEF EvidenceOf
<1>2. /\ inbox[t] = NoFrame /\ ~ GraphEnded(t) /\ Returned(t)
      /\ ckpt[t].next = "review" /\ Len(w) = 3
  BY DEF StdioInv, StdioThread, Runs, Waits, GraphEnded, ReplayEnded, Returned
<1>3. IsLog(s) /\ n = 3 /\ IsLog(w)
  BY <1>1, <1>2 DEF LogOf, WireOf
<1>4. DOMAIN s = 1 .. 3 /\ DOMAIN w = 1 .. 3
  BY <1>2, <1>3, LogLength
<1>5. \A i \in 1 .. 3 : w[i] = Row(s[i].state, s[i].answers, s[i].result)
  BY <1>1, <1>3, <1>4 DEF WireOf
<1>6. /\ replayed[t] # NoToken /\ ckpt[t].frame = s[1].result
      /\ s[3].state = replayed[t] /\ shown[t] = Form(1)
  BY <1>1, <1>2, <1>3 DEF Progress
<1>7. /\ IsQuestion(s[1], <<>>, FirstToken(t))
      /\ IsQuestion(s[2], RowsBefore(t), replayed[t])
      /\ replayed[t] # FirstToken(t)
      /\ \/ s[3].state = FirstToken(t)
         \/ IsReply(s[3], s[2], RowsBefore(t), replayed[t])
  BY <1>1, <1>3, <1>6 DEF LogOf
<1>8. IsReply(s[3], s[2], RowsBefore(t), replayed[t])
  BY <1>6, <1>7
<1>9. /\ w[1] = Row(s[1].state, s[1].answers, s[1].result)
      /\ w[2] = Row(s[2].state, s[2].answers, s[2].result)
      /\ w[3] = Row(s[3].state, s[3].answers, s[3].result)
  BY <1>5
<1>10. /\ Supplied(t) = s[3].answers /\ Result(t) = s[3].result.result
       /\ Status(t) = "naive_control_returned" /\ Reopened(t) = s[1].result
  BY <1>2, <1>6, <1>9 DEF Supplied, Result, Status, Reopened, Last, Row
<1> QED
  BY <1>2, <1>3, <1>4, <1>6, <1>7, <1>8, <1>9, <1>10

\* What a reply says, by what became of the question.
LEMMA ReplyIs ==
    ASSUME NEW e, NEW q, NEW front, NEW tok, IsReply(e, q, front, tok)
    PROVE  LET id == Len(front) + 1
               res == e.result.result
               done(status) == Append(front, [token |-> tok, status |-> status])
           IN  /\ e.state = tok /\ e.result = TerminalFrame(res)
               /\ \/ /\ e.store # q.store
                     /\ res = ToolText("UNKNOWN_ROUND", TRUE, None)
                     /\ e.rounds = <<>> /\ e.effects = {}
                  \/ /\ e.store = q.store /\ ~ Closes(e.answers)
                     /\ res = ToolText("INVALID", TRUE, None)
                  \/ /\ e.store = q.store /\ e.answers[KEY].action = "accept"
                     /\ res = ToolText("previewed", FALSE, id)
                     /\ e.rounds = done("accept")
                     /\ e.effects = {[token |-> tok, subject |-> id]}
                  \/ /\ e.store = q.store /\ e.answers[KEY].action # "accept"
                     /\ res = ToolText("skipped", FALSE, None)
                     /\ e.rounds = done(e.answers[KEY].action)
                     /\ e.effects = {}
<1> DEFINE id == Len(front) + 1
           res == e.result.result
<1>1. \A r : TerminalFrame(r).result = r
  BY DEF TerminalFrame
<1>2. \A text, n : /\ Error(text) = ToolText(text, TRUE, None)
                   /\ [isError |-> FALSE, text |-> text, subject |-> n]
                          = ToolText(text, FALSE, n)
  BY DEF Error, ToolText
<1>3. e.state = tok
  BY DEF IsReply
<1>4. CASE e.store # q.store
  <2>1. e.result = TerminalFrame(Error("UNKNOWN_ROUND"))
        /\ e.rounds = <<>> /\ e.effects = {}
    BY <1>4 DEF IsReply
  <2> QED
    BY <1>1, <1>2, <1>3, <1>4, <2>1
<1>5. CASE e.store = q.store /\ ~ Closes(e.answers)
  <2>1. e.result = TerminalFrame(Error("INVALID"))
    BY <1>5 DEF IsReply
  <2> QED
    BY <1>1, <1>2, <1>3, <1>5, <2>1
<1>6. CASE /\ e.store = q.store /\ Closes(e.answers)
           /\ e.answers[KEY].action = "accept"
  <2>1. /\ e.result = TerminalFrame([isError |-> FALSE,
                             text |-> "previewed", subject |-> id])
        /\ e.rounds = Append(front, [token |-> tok, status |-> "accept"])
        /\ e.effects = {[token |-> tok, subject |-> id]}
    BY <1>6 DEF IsReply
  <2>2. res = ToolText("previewed", FALSE, id) /\ e.result = TerminalFrame(res)
    BY <1>1, <1>2, <2>1
  <2> QED
    BY <1>3, <1>6, <2>1, <2>2
<1>7. CASE /\ e.store = q.store /\ Closes(e.answers)
           /\ e.answers[KEY].action # "accept"
  <2>1. /\ e.result = TerminalFrame([isError |-> FALSE,
                             text |-> "skipped", subject |-> None])
        /\ e.rounds = Append(front, [token |-> tok,
                                     status |-> e.answers[KEY].action])
        /\ e.effects = {}
    BY <1>7 DEF IsReply
  <2>2. res = ToolText("skipped", FALSE, None) /\ e.result = TerminalFrame(res)
    BY <1>1, <1>2, <2>1
  <2> QED
    BY <1>3, <1>7, <2>1, <2>2
<1> QED
  BY <1>4, <1>5, <1>6, <1>7

\* The answer that each case is about closes its round.
LEMMA DecisionIs ==
    ASSUME NEW case
    PROVE  /\ Closes(Decision(case))
           /\ Decision(case)[KEY].action =
                  IF case = "declined" THEN "decline" ELSE "accept"
BY DEF Decision, Sole, Closes

LEMMA ExpectedIs ==
    ASSUME NEW case \in EvidenceCases, NEW n
    PROVE  /\ ToolText("INVALID", TRUE, None) # Expected(case)
           /\ ToolText("UNKNOWN_ROUND", TRUE, None) = Expected(case)
                  <=> case = "lost_server_state"
           /\ ToolText("skipped", FALSE, None) = Expected(case)
                  <=> case = "declined"
           /\ ToolText("previewed", FALSE, n) = Expected(case)
                  <=> \/ case = "preserved" /\ n = 1
                      \/ case = "replayed_initial" /\ n = 2
<1>1. /\ ToolText("INVALID", TRUE, None).text = "INVALID"
      /\ ToolText("UNKNOWN_ROUND", TRUE, None).text = "UNKNOWN_ROUND"
      /\ ToolText("skipped", FALSE, None).text = "skipped"
      /\ \A m : /\ ToolText("previewed", FALSE, m).text = "previewed"
                /\ ToolText("previewed", FALSE, m).subject = m
  BY DEF ToolText
<1> HIDE DEF ToolText
<1>2. CASE case = "preserved"
  <2>1. Expected(case) = ToolText("previewed", FALSE, 1)
    BY <1>2 DEF Expected
  <2>2. ToolText("previewed", FALSE, n) = ToolText("previewed", FALSE, 1)
            <=> n = 1
    <3>1. ToolText("previewed", FALSE, n).subject = n
          /\ ToolText("previewed", FALSE, 1).subject = 1
      BY <1>1
    <3> QED
      BY <3>1
  <2>3. ToolText("INVALID", TRUE, None) # ToolText("previewed", FALSE, 1)
        /\ ToolText("UNKNOWN_ROUND", TRUE, None)
               # ToolText("previewed", FALSE, 1)
        /\ ToolText("skipped", FALSE, None) # ToolText("previewed", FALSE, 1)
    BY <1>1
  <2> QED
    BY <1>2, <2>1, <2>2, <2>3
<1>3. CASE case = "lost_server_state"
  <2>1. Expected(case) = ToolText("UNKNOWN_ROUND", TRUE, None)
    BY <1>3 DEF Expected
  <2> QED
    BY <1>1, <1>3, <2>1
<1>4. CASE case = "replayed_initial"
  <2>1. Expected(case) = ToolText("previewed", FALSE, 2)
    BY <1>4 DEF Expected
  <2>2. ToolText("previewed", FALSE, n) = ToolText("previewed", FALSE, 2)
            <=> n = 2
    <3>1. ToolText("previewed", FALSE, n).subject = n
          /\ ToolText("previewed", FALSE, 2).subject = 2
      BY <1>1
    <3> QED
      BY <3>1
  <2>3. ToolText("INVALID", TRUE, None) # ToolText("previewed", FALSE, 2)
        /\ ToolText("UNKNOWN_ROUND", TRUE, None)
               # ToolText("previewed", FALSE, 2)
        /\ ToolText("skipped", FALSE, None) # ToolText("previewed", FALSE, 2)
    BY <1>1
  <2> QED
    BY <1>4, <2>1, <2>2, <2>3
<1>5. CASE case = "declined"
  <2>1. Expected(case) = ToolText("skipped", FALSE, None)
    BY <1>5 DEF Expected
  <2> QED
    BY <1>1, <1>5, <2>1
<1> QED
  BY <1>2, <1>3, <1>4, <1>5 DEF EvidenceCases

\* An operation that ended in the graph: what both checks ask comes down to the
\* answer, the result and the tables, and these are the store's.
LEMMA GraphVerdict ==
    ASSUME NEW t \in Threads, StdioInv, EvidenceOf(t), aborts[t] = 0,
           GraphEnded(t), replayed[t] = NoToken, NEW case \in EvidenceCases
    PROVE  /\ CheckCase(t, case) <=> Did(t, case)
           /\ VerifyCase(t, case) <=> Did(t, case)
<1> DEFINE s == served[t]
           w == wire[t]
           k == FirstToken(t)
           ans == s[2].answers
           res == s[2].result.result
           new == w[2].result.token
<1>1. /\ ~ ReplayEnded(t) /\ Returned(t) /\ Len(s) = 2 /\ Len(w) = 2
      /\ DOMAIN s = 1 .. 2 /\ DOMAIN w = 1 .. 2
      /\ w[1] = Row(s[1].state, s[1].answers, s[1].result)
      /\ w[2] = Row(s[2].state, s[2].answers, s[2].result)
      /\ IsQuestion(s[1], <<>>, k) /\ IsReply(s[2], s[1], <<>>, k)
      /\ Supplied(t) = ans /\ Result(t) = res
      /\ Status(t) = IF res.isError THEN "tool_error" ELSE "completed"
      /\ Reopened(t) = s[1].result /\ shown[t] = Form(1)
  BY GraphRecords
<1>2. /\ s[1].state = NoToken /\ s[1].answers = NoAnswers
      /\ s[1].result = InputFrame(k, Form(1))
      /\ s[1].rounds = <<Pending(k)>> /\ s[1].effects = {}
  BY <1>1 DEF IsQuestion
<1>3. /\ s[2].state = k /\ s[2].result = TerminalFrame(res)
      /\ \/ /\ s[2].store # s[1].store
            /\ res = ToolText("UNKNOWN_ROUND", TRUE, None)
            /\ s[2].rounds = <<>> /\ s[2].effects = {}
         \/ /\ s[2].store = s[1].store /\ ~ Closes(ans)
            /\ res = ToolText("INVALID", TRUE, None)
         \/ /\ s[2].store = s[1].store /\ ans[KEY].action = "accept"
            /\ res = ToolText("previewed", FALSE, 1)
            /\ s[2].rounds = <<[token |-> k, status |-> "accept"]>>
            /\ s[2].effects = {[token |-> k, subject |-> 1]}
         \/ /\ s[2].store = s[1].store /\ ans[KEY].action # "accept"
            /\ res = ToolText("skipped", FALSE, None)
            /\ s[2].rounds = <<[token |-> k, status |-> ans[KEY].action]>>
            /\ s[2].effects = {}
  <2>1. IsReply(s[2], s[1], <<>>, k)
    BY <1>1
  <2>2. Len(<<>>) + 1 = 1 /\ \A x : Append(<<>>, x) = <<x>>
    OBVIOUS
  <2> DEFINE id == Len(<<>>) + 1
             done(status) == Append(<<>>, [token |-> k, status |-> status])
  <2> HIDE DEF s, k
  <2>3. /\ s[2].state = k /\ s[2].result = TerminalFrame(res)
        /\ \/ /\ s[2].store # s[1].store
              /\ res = ToolText("UNKNOWN_ROUND", TRUE, None)
              /\ s[2].rounds = <<>> /\ s[2].effects = {}
           \/ /\ s[2].store = s[1].store /\ ~ Closes(ans)
              /\ res = ToolText("INVALID", TRUE, None)
           \/ /\ s[2].store = s[1].store /\ ans[KEY].action = "accept"
              /\ res = ToolText("previewed", FALSE, id)
              /\ s[2].rounds = done("accept")
              /\ s[2].effects = {[token |-> k, subject |-> id]}
           \/ /\ s[2].store = s[1].store /\ ans[KEY].action # "accept"
              /\ res = ToolText("skipped", FALSE, None)
              /\ s[2].rounds = done(ans[KEY].action) /\ s[2].effects = {}
    BY <2>1, ReplyIs
  <2>4. id = 1 /\ \A status : done(status) =
                               <<[token |-> k, status |-> status]>>
    BY <2>2
  <2> HIDE DEF id, done
  <2> QED
    BY <2>3, <2>4
<1>4. /\ w[1].result.token = k /\ w[1].state = NoToken
      /\ w[1].result = Reopened(t)
      /\ w[1] = Row(NoToken, NoAnswers, InputFrame(k, Form(1)))
      /\ w[2].state = k /\ w[2].answers = ans /\ w[2].result = s[2].result
      /\ Last(w) = w[2] /\ Last(s) = s[2]
  BY <1>1, <1>2, <1>3 DEF Row, InputFrame, Last
<1>5. SameCalls(t)
  <2>1. \A i \in 1 .. 2 : w[i] = Row(s[i].state, s[i].answers, s[i].result)
    BY <1>1
  <2> QED
    BY <1>1, <2>1 DEF SameCalls
<1>6. Did(t, case) <=> /\ case # "replayed_initial" /\ ans = Decision(case)
                       /\ case = "lost_server_state"
                              <=> s[1].store # s[2].store
  <2>1. {s[i].store : i \in DOMAIN s} = {s[1].store, s[2].store}
    BY <1>1
  <2>2. /\ Cardinality({s[1].store, s[2].store}) = 2
               <=> s[1].store # s[2].store
        /\ Cardinality({s[1].store, s[2].store}) = 1
               <=> s[1].store = s[2].store
    BY TwoStores
  <2> QED
    BY <1>1, <2>1, <2>2 DEF Did
<1>7. CheckCase(t, case) <=>
          /\ case # "replayed_initial" /\ ans = Decision(case)
          /\ res = Expected(case)
          /\ Cardinality(s[2].effects) = IF case = "preserved" THEN 1 ELSE 0
          /\ s[2].effects \subseteq {[token |-> k, subject |-> 1]}
  <2> HIDE DEF s, w, k, ans, res
  <2> QED
    BY <1>1, <1>4, <1>5 DEF CheckCase, s, w
<1>8. VerifyCase(t, case) <=>
          /\ case # "replayed_initial" /\ ans = Decision(case)
          /\ res = Expected(case)
          /\ [rounds |-> s[2].rounds, effects |-> s[2].effects] =
                 ExpectedStore(case, k, new)
  <2>1. s[1].rounds = <<[token |-> k, status |-> "pending"]>>
    BY <1>2 DEF Pending
  <2> HIDE DEF s, w, k, ans, res, new
  <2> QED
    BY <1>1, <1>2, <1>3, <1>4, <1>5, <2>1 DEF VerifyCase, s, w, new
<1>9. /\ Closes(Decision(case))
      /\ Decision(case)[KEY].action = IF case = "declined" THEN "decline"
                                      ELSE "accept"
  BY DecisionIs
<1>10. Cardinality({[token |-> k, subject |-> 1]}) = 1 /\ Cardinality({}) = 0
  BY FS_Singleton, FS_EmptySet
<1>11. /\ case = "preserved" => ExpectedStore(case, k, new) =
              [rounds |-> <<[token |-> k, status |-> "accept"]>>,
               effects |-> {[token |-> k, subject |-> 1]}]
       /\ case = "lost_server_state" =>
              ExpectedStore(case, k, new) = [rounds |-> <<>>, effects |-> {}]
       /\ case = "declined" => ExpectedStore(case, k, new) =
              [rounds |-> <<[token |-> k, status |-> "decline"]>>,
               effects |-> {}]
  BY DEF ExpectedStore
<1>12. /\ ToolText("INVALID", TRUE, None) # Expected(case)
       /\ ToolText("UNKNOWN_ROUND", TRUE, None) = Expected(case)
              <=> case = "lost_server_state"
       /\ ToolText("skipped", FALSE, None) = Expected(case)
              <=> case = "declined"
       /\ ToolText("previewed", FALSE, 1) = Expected(case)
              <=> case = "preserved"
  <2>1. /\ ToolText("INVALID", TRUE, None) # Expected(case)
        /\ ToolText("UNKNOWN_ROUND", TRUE, None) = Expected(case)
               <=> case = "lost_server_state"
        /\ ToolText("skipped", FALSE, None) = Expected(case)
               <=> case = "declined"
        /\ ToolText("previewed", FALSE, 1) = Expected(case)
               <=> \/ case = "preserved" /\ 1 = 1
                   \/ case = "replayed_initial" /\ 1 = 2
    BY ExpectedIs, Zenon
  <2>2. 1 # 2
    OBVIOUS
  <2> QED
    BY <2>1, <2>2, Zenon
<1> DEFINE chk == CheckCase(t, case)
           ver == VerifyCase(t, case)
           did == Did(t, case)
<1> HIDE DEF s, w, k, ans, res, new, chk, ver, did
<1> SUFFICES (chk <=> did) /\ (ver <=> did)
  BY DEF chk, ver, did
<1>13. did <=> /\ case # "replayed_initial" /\ ans = Decision(case)
               /\ case = "lost_server_state" <=> s[1].store # s[2].store
  BY <1>6 DEF did
<1>18. chk <=>
          /\ case # "replayed_initial" /\ ans = Decision(case)
          /\ res = Expected(case)
          /\ Cardinality(s[2].effects) = IF case = "preserved" THEN 1 ELSE 0
          /\ s[2].effects \subseteq {[token |-> k, subject |-> 1]}
  BY <1>7 DEF chk
<1>19. ver <=>
          /\ case # "replayed_initial" /\ ans = Decision(case)
          /\ res = Expected(case)
          /\ [rounds |-> s[2].rounds, effects |-> s[2].effects] =
                 ExpectedStore(case, k, new)
  BY <1>8 DEF ver
<1>14. CASE s[2].store # s[1].store /\ res = ToolText("UNKNOWN_ROUND", TRUE, None)
            /\ s[2].rounds = <<>> /\ s[2].effects = {}
  BY <1>10, <1>11, <1>12, <1>13, <1>18, <1>19, <1>14
<1>15. CASE ~ Closes(ans) /\ res = ToolText("INVALID", TRUE, None)
  BY <1>9, <1>12, <1>13, <1>18, <1>19, <1>15
<1>16. CASE /\ s[2].store = s[1].store /\ ans[KEY].action = "accept"
            /\ res = ToolText("previewed", FALSE, 1)
            /\ s[2].rounds = <<[token |-> k, status |-> "accept"]>>
            /\ s[2].effects = {[token |-> k, subject |-> 1]}
  BY <1>9, <1>10, <1>11, <1>12, <1>13, <1>18, <1>19, <1>16 DEF EvidenceCases
<1>17. CASE /\ s[2].store = s[1].store /\ ans[KEY].action # "accept"
            /\ res = ToolText("skipped", FALSE, None)
            /\ s[2].rounds = <<[token |-> k, status |-> ans[KEY].action]>>
            /\ s[2].effects = {}
  BY <1>9, <1>10, <1>11, <1>12, <1>13, <1>18, <1>19, <1>17 DEF EvidenceCases
<1> QED
  BY <1>3, <1>14, <1>15, <1>16, <1>17

LEMMA AppendPair ==
    ASSUME NEW x, NEW y
    PROVE  Append(<<x>>, y) = <<x, y>>
<1> DEFINE a == Append(<<x>>, y)
           b == <<x, y>>
<1>1. <<x>> \in Seq({x, y}) /\ y \in {x, y} /\ b \in Seq({x, y})
  OBVIOUS
<1>2. a \in Seq({x, y}) /\ Len(a) = 2 /\ a[1] = x /\ a[2] = y
  BY <1>1
<1>3. Len(b) = 2 /\ b[1] = x /\ b[2] = y
  OBVIOUS
<1>4. \A i \in 1 .. 2 : a[i] = b[i]
  BY <1>2, <1>3
<1>5. a = [i \in 1 .. 2 |-> a[i]] /\ b = [i \in 1 .. 2 |-> b[i]]
  BY <1>1, <1>2, <1>3
<1> QED
  BY <1>4, <1>5

\* A client that ended past the graph: the replacement is the second draft of
\* the store exactly when the store is the first question's.
LEMMA ReplayVerdict ==
    ASSUME NEW t \in Threads, StdioInv, EvidenceOf(t), aborts[t] = 0,
           ReplayEnded(t), NEW case \in EvidenceCases
    PROVE  /\ CheckCase(t, case) <=> Did(t, case)
           /\ VerifyCase(t, case) <=> Did(t, case)
<1> DEFINE s == served[t]
           w == wire[t]
           k == FirstToken(t)
           new == replayed[t]
           front == RowsBefore(t)
           id == Len(front) + 1
           ans == s[3].answers
           res == s[3].result.result
           second == [token |-> new, subject |-> 2]
           tables == <<Pending(k), [token |-> new, status |-> "accept"]>>
<1>1. /\ ~ GraphEnded(t) /\ Returned(t) /\ Len(s) = 3 /\ Len(w) = 3
      /\ DOMAIN s = 1 .. 3 /\ DOMAIN w = 1 .. 3
      /\ w[1] = Row(s[1].state, s[1].answers, s[1].result)
      /\ w[2] = Row(s[2].state, s[2].answers, s[2].result)
      /\ w[3] = Row(s[3].state, s[3].answers, s[3].result)
      /\ IsQuestion(s[1], <<>>, k) /\ IsQuestion(s[2], front, new)
      /\ new # k /\ IsReply(s[3], s[2], front, new)
      /\ Supplied(t) = ans /\ Result(t) = res
      /\ Status(t) = "naive_control_returned"
      /\ Reopened(t) = s[1].result /\ shown[t] = Form(1)
  BY ReplayRecords
<1>2. /\ s[1].state = NoToken /\ s[1].answers = NoAnswers
      /\ s[1].result = InputFrame(k, Form(1))
      /\ s[1].rounds = <<Pending(k)>> /\ s[1].effects = {}
  BY <1>1 DEF IsQuestion
<1>3. /\ s[2].state = NoToken /\ s[2].answers = NoAnswers
      /\ s[2].result = InputFrame(new, Form(id))
  BY <1>1 DEF IsQuestion
<1>4. /\ s[1].store = s[2].store => front = <<Pending(k)>> /\ id = 2
      /\ s[1].store # s[2].store => front = <<>> /\ id = 1
  <2>1. front = IF s[2].store = s[1].store THEN s[1].rounds ELSE <<>>
    BY DEF RowsBefore
  <2>2. Len(<<>>) + 1 = 1 /\ Len(<<Pending(k)>>) + 1 = 2
    OBVIOUS
  <2> QED
    BY <1>2, <2>1, <2>2
<1>5. /\ w[1].result.token = k /\ w[1].state = NoToken
      /\ w[1].result = Reopened(t)
      /\ w[1] = Row(NoToken, NoAnswers, InputFrame(k, Form(1)))
      /\ w[2].state = NoToken /\ w[2].result.token = new
      /\ w[2].result.form = Form(id)
      /\ w[2] = Row(NoToken, NoAnswers, InputFrame(new, Form(id)))
      /\ w[3].answers = ans /\ w[3].result = s[3].result
      /\ Last(w) = w[3] /\ Last(s) = s[3]
  BY <1>1, <1>2, <1>3 DEF Row, InputFrame, Last
<1>6. SameCalls(t)
  <2>1. \A i \in 1 .. 3 : w[i] = Row(s[i].state, s[i].answers, s[i].result)
    BY <1>1
  <2> QED
    BY <1>1, <2>1 DEF SameCalls
<1>7. Did(t, case) <=>
          /\ case = "replayed_initial" /\ ans = Decision(case)
          /\ s[1].store = s[2].store /\ s[2].store = s[3].store
  <2>1. {s[i].store : i \in DOMAIN s} = {s[1].store, s[2].store, s[3].store}
    BY <1>1
  <2>2. Cardinality({s[1].store, s[2].store, s[3].store}) = 1
            <=> s[1].store = s[2].store /\ s[2].store = s[3].store
    <3>1. PICK a, b, c : a = s[1].store /\ b = s[2].store /\ c = s[3].store
      OBVIOUS
    <3>2. Cardinality({a, b, c}) = 1 <=> a = b /\ b = c
      BY ThreeStores
    <3> HIDE DEF s
    <3> QED
      BY <3>1, <3>2
  <2> QED
    BY <1>1, <2>1, <2>2 DEF Did
<1>8. /\ s[3].state = new /\ s[3].result = TerminalFrame(res)
      /\ \/ /\ s[3].store # s[2].store
            /\ res = ToolText("UNKNOWN_ROUND", TRUE, None)
            /\ s[3].rounds = <<>> /\ s[3].effects = {}
         \/ /\ s[3].store = s[2].store /\ ~ Closes(ans)
            /\ res = ToolText("INVALID", TRUE, None)
         \/ /\ s[3].store = s[2].store /\ ans[KEY].action = "accept"
            /\ res = ToolText("previewed", FALSE, id)
            /\ s[3].rounds =
                   Append(front, [token |-> new, status |-> "accept"])
            /\ s[3].effects = {[token |-> new, subject |-> id]}
         \/ /\ s[3].store = s[2].store /\ ans[KEY].action # "accept"
            /\ res = ToolText("skipped", FALSE, None)
            /\ s[3].rounds =
                   Append(front, [token |-> new, status |-> ans[KEY].action])
            /\ s[3].effects = {}
  <2>1. IsReply(s[3], s[2], front, new)
    BY <1>1
  <2> HIDE DEF s, front, new
  <2> QED
    BY <2>1, ReplyIs
<1>9. w[3].state = new
  BY <1>1, <1>8 DEF Row
<1>10. CheckCase(t, case) <=>
           /\ case = "replayed_initial" /\ ans = Decision(case)
           /\ res = Expected(case) /\ id = 2
           /\ Cardinality(s[3].effects) = 1
           /\ \A e \in s[3].effects : e.subject = 2
  <2>1. /\ shown[t].subject = 1 /\ w[2].result.form.subject = id
    BY <1>1, <1>5 DEF Form
  <2> HIDE DEF s, w, k, ans, res, new, id
  <2> QED
    BY <1>1, <1>5, <1>6, <1>9, <2>1 DEF CheckCase, s, w
<1>11. w[2] = Row(NoToken, NoAnswers, InputFrame(new, Form(2))) <=> id = 2
  <2>1. ASSUME w[2] = Row(NoToken, NoAnswers, InputFrame(new, Form(2)))
        PROVE  id = 2
    BY <1>5, <2>1 DEF Row, InputFrame, Form
  <2> QED
    BY <1>5, <2>1
<1>12. case = "replayed_initial" =>
           ExpectedStore(case, k, new) = [rounds |-> tables, effects |-> {second}]
  BY DEF ExpectedStore, Pending
<1>13. VerifyCase(t, case) <=>
           /\ case = "replayed_initial" /\ ans = Decision(case)
           /\ res = Expected(case) /\ id = 2
           /\ [rounds |-> s[3].rounds, effects |-> s[3].effects] =
                  ExpectedStore(case, k, new)
  <2>1. s[1].rounds = <<[token |-> k, status |-> "pending"]>>
    BY <1>2 DEF Pending
  <2> HIDE DEF s, w, k, ans, res, new, id
  <2> QED
    BY <1>1, <1>2, <1>5, <1>6, <1>8, <1>9, <1>11, <2>1 DEF VerifyCase, s, w
<1>14. /\ Closes(Decision(case))
       /\ case = "replayed_initial" => Decision(case)[KEY].action = "accept"
  BY DecisionIs
<1>15. Cardinality({second}) = 1
  BY FS_Singleton
<1>16. /\ ToolText("INVALID", TRUE, None) # Expected(case)
       /\ case = "replayed_initial" =>
              /\ ToolText("UNKNOWN_ROUND", TRUE, None) # Expected(case)
              /\ ToolText("skipped", FALSE, None) # Expected(case)
              /\ ToolText("previewed", FALSE, 2) = Expected(case)
  <2>1. /\ ToolText("INVALID", TRUE, None) # Expected(case)
        /\ ToolText("UNKNOWN_ROUND", TRUE, None) = Expected(case)
               <=> case = "lost_server_state"
        /\ ToolText("skipped", FALSE, None) = Expected(case)
               <=> case = "declined"
        /\ ToolText("previewed", FALSE, 2) = Expected(case)
               <=> \/ case = "preserved" /\ 2 = 1
                   \/ case = "replayed_initial" /\ 2 = 2
    BY ExpectedIs, Zenon
  <2> QED
    BY <2>1, Zenon
<1>17. Append(<<Pending(k)>>, [token |-> new, status |-> "accept"]) = tables
  BY AppendPair, Zenon
<1>18. second.subject = 2
  OBVIOUS
<1> DEFINE chk == CheckCase(t, case)
           ver == VerifyCase(t, case)
           did == Did(t, case)
<1> HIDE DEF s, w, k, ans, res, new, id, front, second, tables, chk, ver, did
<1> SUFFICES (chk <=> did) /\ (ver <=> did)
  BY DEF chk, ver, did
<1>19. did <=> /\ case = "replayed_initial" /\ ans = Decision(case)
               /\ s[1].store = s[2].store /\ s[2].store = s[3].store
  BY <1>7 DEF did
<1>20. chk <=> /\ case = "replayed_initial" /\ ans = Decision(case)
               /\ res = Expected(case) /\ id = 2
               /\ Cardinality(s[3].effects) = 1
               /\ \A e \in s[3].effects : e.subject = 2
  BY <1>10 DEF chk
<1>21. ver <=> /\ case = "replayed_initial" /\ ans = Decision(case)
               /\ res = Expected(case) /\ id = 2
               /\ [rounds |-> s[3].rounds, effects |-> s[3].effects] =
                      ExpectedStore(case, k, new)
  BY <1>13 DEF ver
<1>22. CASE s[3].store # s[2].store /\ res = ToolText("UNKNOWN_ROUND", TRUE, None)
  BY <1>16, <1>19, <1>20, <1>21, <1>22
<1>23. CASE ~ Closes(ans) /\ res = ToolText("INVALID", TRUE, None)
  BY <1>14, <1>16, <1>19, <1>20, <1>21, <1>23
<1>24. CASE /\ s[3].store = s[2].store /\ ans[KEY].action = "accept"
            /\ res = ToolText("previewed", FALSE, id)
            /\ s[3].rounds =
                   Append(front, [token |-> new, status |-> "accept"])
            /\ s[3].effects = {[token |-> new, subject |-> id]}
  <2>1. CASE s[1].store = s[2].store
    <3>1. front = <<Pending(k)>> /\ id = 2
      BY <1>4, <2>1
    <3>2. s[3].effects = {second} /\ s[3].rounds = tables
      BY <1>17, <1>24, <3>1 DEF second
    <3>3. res = ToolText("previewed", FALSE, 2)
      BY <1>24, <3>1
    <3> QED
      BY <1>12, <1>15, <1>16, <1>18, <1>19, <1>20, <1>21, <1>24, <2>1, <3>1,
         <3>2, <3>3
  <2>2. CASE s[1].store # s[2].store
    <3>1. id # 2
      BY <1>4, <2>2
    <3> QED
      BY <1>19, <1>20, <1>21, <2>2, <3>1
  <2> QED
    BY <2>1, <2>2
<1>25. CASE ans[KEY].action # "accept" /\ res = ToolText("skipped", FALSE, None)
  BY <1>14, <1>16, <1>19, <1>20, <1>21, <1>25
<1> QED
  BY <1>8, <1>22, <1>23, <1>24, <1>25

\* Nobody's verdict: a question was replaced, and then the first one answered;
\* or there is no record.
LEMMA NoVerdict ==
    ASSUME NEW t \in Threads, StdioInv, EvidenceOf(t), NEW case,
           \/ ~ Returned(t)
           \/ aborts[t] = 0 /\ GraphEnded(t) /\ replayed[t] # NoToken
    PROVE  ~ CheckCase(t, case) /\ ~ VerifyCase(t, case) /\ ~ Did(t, case)
<1>1. CASE ~ Returned(t)
  BY <1>1 DEF CheckCase, VerifyCase, Did
<1>2. CASE aborts[t] = 0 /\ GraphEnded(t) /\ replayed[t] # NoToken
  <2> DEFINE w == wire[t]
  <2>1. /\ ~ ReplayEnded(t) /\ Len(w) \in {3, 4}
        /\ Len(w) = 3 => /\ w[1].result.token = FirstToken(t)
                         /\ w[3].state = FirstToken(t)
    BY <1>2, GraphRecords
  <2>2. Len(w) # 2
    BY <2>1
  <2>3. Len(w) = 3 => w[3].state = w[1].result.token
    BY <2>1
  <2>4. ~ Did(t, case)
    BY <1>2, <2>1 DEF Did
  <2>5. ~ CheckCase(t, case)
    BY <2>2, <2>3, Zenon DEF CheckCase
  <2>6. ~ VerifyCase(t, case)
    BY <2>2, <2>3, Zenon DEF VerifyCase
  <2> QED
    BY <2>4, <2>5, <2>6
<1> QED
  BY <1>1, <1>2

\* Both checks accept the records of a case exactly when the case is what was
\* done, for one operation with any number of stores, crashes and replays.
THEOREM VerdictsHold ==
    ASSUME \A s, u \in Threads : s = u
    PROVE  EvidenceSpec => []VerdictsAreTrue
<1>1. (\A t \in Threads : EvidenceOf(t)) /\ StdioShape /\ StdioInv
          => VerdictsAreTrue
  <2> SUFFICES ASSUME \A t \in Threads : EvidenceOf(t), StdioShape, StdioInv,
                      NEW t \in Threads, NEW case \in EvidenceCases
               PROVE  /\ CheckCase(t, case) <=> Did(t, case)
                      /\ VerifyCase(t, case) <=> Did(t, case)
    BY DEF VerdictsAreTrue
  <2>1. CASE ~ Returned(t)
    BY <2>1, NoVerdict
  <2>2. CASE Returned(t) /\ GraphEnded(t)
    <3>1. aborts[t] = 0
      BY <2>2 DEF Returned
    <3>2. CASE replayed[t] = NoToken
      BY <2>2, <3>1, <3>2, GraphVerdict
    <3>3. CASE replayed[t] # NoToken
      BY <2>2, <3>1, <3>3, NoVerdict
    <3> QED
      BY <3>2, <3>3
  <2>3. CASE Returned(t) /\ ReplayEnded(t)
    BY <2>3, ReplayVerdict DEF Returned
  <2> QED
    BY <2>1, <2>2, <2>3 DEF Returned
<1> QED
  BY <1>1, EvidenceAlways, PTL
=============================================================================
