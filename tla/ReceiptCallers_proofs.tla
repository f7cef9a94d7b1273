----------------------- MODULE ReceiptCallers_proofs -----------------------
(***************************************************************************)
(* The safety properties of the receipts, of what is reported of them, and *)
(* of the programs that believe them (ReceiptChecks), for any number of    *)
(* invocations of one receipt path, whatever fails.                        *)
(*                                                                         *)
(* The invariant has three parts: who may write the file (Owns), what the  *)
(* record in memory says of the child (Account), and how file and report   *)
(* follow from the record (FileInv, ReportInv).                            *)
(***************************************************************************)
EXTENDS ReceiptChecks, TLAPS

Statuses == {"not_started", "running", "completed", "failed",
             "supervisor_error", "deadline_reached", "interrupted",
             "finished_after_stop_request", "exit_unconfirmed"}
Reasons == {None, "parent_signal", "stop_file_before_start", "stop_file",
            "deadline_before_exit_confirmation"}
Records == [status : Statuses, task_started : BOOLEAN, stop_reason : Reasons,
            code : Codes \cup {"none"}, alive : BOOLEAN, asked : BOOLEAN,
            bySignal : BOOLEAN, finished : BOOLEAN]
Files == [by : Runs \cup {None}, kind : {"absent", "partial", "record"},
          rec : Records]
Reports == [exit : {None} \cup Nat, task_started : {"unknown", "true", "false"},
            receipt : {"finalized", "unconfirmed", "not_created", "nothing"}]
Places == Steps \cup Returned \cup {"idle", "check", "raised", "dead",
                                    "reported"}
Children == Codes \cup {"none", "alive"}

TypeOK ==
    /\ posix \in BOOLEAN /\ stop \in BOOLEAN
    /\ pc \in [Runs -> Places]
    /\ rec \in [Runs -> Records]
    /\ child \in [Runs -> Children]
    /\ disk \in Files
    /\ flags \in [Runs -> BOOLEAN] /\ handlers \in [Runs -> BOOLEAN]
    /\ late \in [Runs -> BOOLEAN] /\ elapsed \in [Runs -> BOOLEAN]
    /\ caller \in [Runs -> {"cli", "action"}]
    /\ told \in [Runs -> Reports]

BeforeStart == {"idle", "check", "open", "refused", "save0", "prestop",
                "spawn"}
Started == {"save1", "clock", "poll", "stopcheck", "ask", "grace", "settle",
            "reap"}
AtEnd == {"last", "returned", "unsaved", "raised", "dead", "reported"}
Owning == (Steps \ {"open"}) \cup {"returned", "unsaved"}

\* A run that writes, or has started its child, is the owner of the file.
Owns(r) ==
    pc[r] \in Owning \/ child[r] # "none" =>
        disk.by = r /\ disk.kind # "absent"

\* What the record says of the child at a step.
Account(step, record, c) ==
    /\ step \in BeforeStart => c = "none"
    /\ step \in Started => c # "none"
    /\ record.task_started <=> c # "none"
    /\ record.code # "none" => c = record.code
    /\ record.status = "completed" => record.code = "zero"
    /\ record.status = "interrupted" =>
           record.code = "signal" /\ record.asked
    /\ record.status \in {"deadline_reached", "finished_after_stop_request"}
           => c # "none"
    /\ step = "note" /\ c = "alive" /\ posix =>
           record.status = "exit_unconfirmed"
    /\ step \in {"last", "returned", "unsaved"} => record.finished
    /\ record.finished =>
           /\ step \in AtEnd
           /\ record.task_started /\ record.code = "none" =>
                  record.status = "exit_unconfirmed"

\* The file says what its owner's record said.
FileInv ==
    /\ disk.kind # "absent" => disk.by \in Runs
    /\ disk.kind = "record" =>
           /\ disk.rec.task_started => child[disk.by] # "none"
           /\ disk.rec.finished => disk.rec = rec[disk.by]

\* The exit codes that are a verdict, and the statuses that each stands for.
Verdicts == {0, 124, 130}
Means(exit) ==
    CASE exit = 0 -> {"completed"}
      [] exit = 124 -> {"deadline_reached"}
      [] OTHER -> {"interrupted", "finished_after_stop_request"}

ReportInv(r) ==
    /\ At(r, "returned") => disk = Written(r)
    /\ told[r] # Silence => At(r, "reported")
    /\ told[r].task_started = "false" => child[r] = "none"
    /\ told[r].task_started = "true" => child[r] # "none"
    /\ told[r].exit \in Verdicts =>
           /\ rec[r].finished /\ disk = Written(r)
           /\ rec[r].status \in Means(told[r].exit)

IInv ==
    /\ TypeOK /\ FileInv
    /\ \A r \in Runs : /\ Owns(r) /\ ReportInv(r)
                       /\ Account(pc[r], rec[r], child[r])
-----------------------------------------------------------------------------
\* The initial states satisfy the invariant.
LEMMA InitIInv == Init => IInv
<1> SUFFICES ASSUME Init PROVE IInv
  OBVIOUS
<1> USE DEF Init, SupInit, NoFile, NewRecord, Silence
<1>1. TypeOK
  BY DEF TypeOK, Files, Records, Statuses, Reasons, Codes, Reports, Places,
         Children
<1>2. FileInv
  BY DEF FileInv
<1>3. ASSUME NEW r \in Runs
      PROVE  Owns(r) /\ ReportInv(r) /\ Account(pc[r], rec[r], child[r])
  <2>1. Owns(r) /\ Account(pc[r], rec[r], child[r])
    BY DEF Owns, Owning, Returned, Steps, Account, BeforeStart, Started, AtEnd
  <2>2. ReportInv(r)
    BY CallersAssumption DEF ReportInv, At, Verdicts
  <2> QED
    BY <2>1, <2>2
<1> QED
  BY <1>1, <1>2, <1>3 DEF IInv

\* A step of run r leaves the others alone, and the file unless it is r's.
Others(r) ==
    /\ UNCHANGED posix
    /\ \A s \in Runs \ {r} : /\ pc'[s] = pc[s] /\ rec'[s] = rec[s]
                             /\ child'[s] = child[s] /\ told'[s] = told[s]
    /\ \/ UNCHANGED disk
       \/ /\ disk.kind = "absent" \/ disk.by = r
          /\ disk'.kind # "absent" /\ disk'.by = r

LEMMA OneMoves ==
    ASSUME IInv, NEW r \in Runs, Others(r), TypeOK', FileInv',
           Owns(r)', ReportInv(r)', Account(pc[r], rec[r], child[r])'
    PROVE  IInv'
<1>1. ASSUME NEW s \in Runs \ {r}
      PROVE  /\ Owns(s)' /\ ReportInv(s)'
             /\ Account(pc[s], rec[s], child[s])'
  <2>1. /\ pc'[s] = pc[s] /\ rec'[s] = rec[s] /\ child'[s] = child[s]
        /\ told'[s] = told[s] /\ posix' = posix
    BY DEF Others
  <2>2. Owns(s) /\ ReportInv(s) /\ Account(pc[s], rec[s], child[s])
    BY DEF IInv
  <2>3. disk.by = s /\ disk.kind # "absent" => disk' = disk
    BY DEF Others
  <2>4. Account(pc[s], rec[s], child[s])'
    BY <2>1, <2>2 DEF Account
  <2>5. Owns(s)'
    BY <2>1, <2>2, <2>3 DEF Owns
  <2>6. ReportInv(s)'
    <3>1. disk = Written(s) => disk' = Written(s)'
      BY <2>1, <2>3 DEF Written
    <3> QED
      BY <2>1, <2>2, <3>1 DEF ReportInv, At
  <2> QED
    BY <2>4, <2>5, <2>6
<1> QED
  BY <1>1 DEF IInv

\* What the invariant says of a run whose caller has not reported.
LEMMA Unreported ==
    ASSUME IInv, NEW r \in Runs, pc[r] # "reported"
    PROVE  /\ told[r].task_started = "unknown"
           /\ told[r].exit \notin Verdicts
BY CallersAssumption DEF IInv, ReportInv, At, Silence, Verdicts

\* A step of the supervisor that does not touch the file.
Quietly(r) ==
    /\ UNCHANGED <<posix, disk, told>>
    /\ \A s \in Runs \ {r} :
           pc'[s] = pc[s] /\ rec'[s] = rec[s] /\ child'[s] = child[s]
    /\ pc[r] \in Owning /\ pc'[r] \notin {"returned", "reported"}
    /\ child[r] # "none" => child'[r] # "none"
    /\ rec[r].finished => rec'[r] = rec[r]

LEMMA QuietStep ==
    ASSUME IInv, NEW r \in Runs, Quietly(r), TypeOK',
           Account(pc[r], rec[r], child[r])'
    PROVE  IInv'
<1>1. Owns(r) /\ ReportInv(r) /\ FileInv /\ TypeOK
  BY DEF IInv
<1>2. pc[r] # "reported"
  BY DEF Quietly, Owning, Steps
<1>3. Others(r)
  BY DEF Others, Quietly
<1>4. Owns(r)'
  BY <1>1 DEF Owns, Quietly
<1>5. ReportInv(r)'
  BY <1>1, <1>2, Unreported DEF ReportInv, Quietly, At
<1>6. FileInv'
  <2>1. disk' = disk
    BY DEF Quietly
  <2>2. disk.by = r \/ (disk.by \in Runs => child'[disk.by] = child[disk.by]
                                             /\ rec'[disk.by] = rec[disk.by])
    BY DEF Quietly
  <2> QED
    BY <1>1, <2>1, <2>2 DEF FileInv, Quietly
<1> QED
  BY <1>3, <1>4, <1>5, <1>6, OneMoves

\* A step that writes the record, or leaves the file in between.
Writes(r) ==
    /\ UNCHANGED <<posix, child, told>>
    /\ disk' \in MaybeWritten(r)
    /\ \A s \in Runs \ {r} : pc'[s] = pc[s] /\ rec'[s] = rec[s]
    /\ pc[r] \in Owning /\ pc'[r] # "reported"
    /\ pc'[r] = "returned" => disk' = Written(r) /\ rec'[r] = rec[r]
    /\ rec[r].finished => rec'[r] = rec[r]

LEMMA WritingStep ==
    ASSUME IInv, NEW r \in Runs, Writes(r), TypeOK',
           Account(pc[r], rec[r], child[r])'
    PROVE  IInv'
<1>1. /\ Owns(r) /\ ReportInv(r) /\ FileInv /\ TypeOK
      /\ Account(pc[r], rec[r], child[r])
  BY DEF IInv
<1>2. pc[r] # "reported"
  BY DEF Writes, Owning, Steps
<1>3. disk.by = r /\ disk.kind # "absent"
  BY <1>1 DEF Owns, Writes
<1>4. disk \in Files
  BY <1>1 DEF TypeOK
<1>5. /\ disk'.by = r /\ disk'.kind # "absent"
      /\ disk'.kind = "record" => disk' = disk \/ disk' = Written(r)
  BY <1>3, <1>4 DEF Writes, MaybeWritten, Written, Files
<1>6. Others(r)
  BY <1>3, <1>5 DEF Others, Writes
<1>7. Owns(r)'
  BY <1>5 DEF Owns
<1>8. ReportInv(r)'
  <2>1. pc'[r] = "returned" => rec'[r] = rec[r]
    BY DEF Writes
  <2>2. At(r, "returned")' => disk' = Written(r)'
    BY <2>1 DEF At, Written, Writes
  <2> QED
    BY <1>1, <1>2, <2>2, Unreported DEF ReportInv, Writes, At
<1>9. FileInv'
  BY <1>1, <1>3, <1>5 DEF FileInv, Writes, Written, Account
<1> QED
  BY <1>6, <1>7, <1>8, <1>9, OneMoves
-----------------------------------------------------------------------------
\* The types of the steps.
LEMMA SuperviseTyped ==
    ASSUME TypeOK, NEW r \in Runs, Supervise(r), UNCHANGED <<caller, told>>
    PROVE  TypeOK'
<1> USE DEF TypeOK, At, Goto, World
<1>1. /\ rec[r] \in Records /\ disk \in Files
      /\ Polled(r) \in Codes \cup {"none"}
      /\ Written(r) \in Files /\ MaybeWritten(r) \subseteq Files
  BY DEF Files, Polled, Children, Written, MaybeWritten
<1>2. NewRecord \in Records
  BY DEF NewRecord, Records, Statuses, Reasons
<1>3. ASSUME UNCHANGED <<World, disk, handlers>>,
             \E step \in Places : Goto(r, step),
             UNCHANGED rec \/ \E new \in Records : Record(r, new)
      PROVE  TypeOK'
  BY <1>3 DEF Record
<1>4. CASE Open(r)
  BY <1>2, <1>4 DEF Open, Places, Steps, Returned, Files
<1>5. CASE Save0(r) \/ Save1(r)
  BY <1>1, <1>5 DEF Save0, Save1, Places, Steps
<1>6. CASE Prestop(r) \/ StopCheck(r)
  <2>1. \A why \in Reasons : [rec[r] EXCEPT !.stop_reason = why] \in Records
    BY <1>1 DEF Records
  <2> QED
    BY <1>3, <1>6, <2>1 DEF Prestop, StopCheck, Places, Steps, Reasons
<1>7. CASE Spawn(r)
  <2>1. [rec[r] EXCEPT !.task_started = TRUE, !.status = "running"]
            \in Records
    BY <1>1 DEF Records, Statuses
  <2> QED
    BY <1>1, <1>7, <2>1 DEF Spawn, Record, Places, Steps, Children
<1>7a. CASE ReadClock(r)
  BY <1>7a DEF ReadClock, Places, Steps
<1>8. CASE Poll(r)
  <2>1. /\ [rec[r] EXCEPT !.stop_reason = "deadline_before_exit_confirmation"]
               \in Records
        /\ \A st \in Statuses, c \in Codes \cup {"none"} :
               [rec[r] EXCEPT !.status = st, !.code = c] \in Records
    BY <1>1 DEF Records, Reasons
  <2>2. CASE elapsed[r]
    BY <1>3, <1>8, <2>1, <2>2 DEF Poll, Overdue, Places, Steps
  <2>3. CASE ~ elapsed[r] /\ ~ Alive(r)
    <3>1. child[r] \in Codes \cup {"none"}
      BY <2>3 DEF Alive, Children
    <3>2. (IF child[r] = "zero" THEN "completed" ELSE "failed") \in Statuses
      BY DEF Statuses
    <3>3. Record(r, [rec[r] EXCEPT
              !.status = IF child[r] = "zero" THEN "completed" ELSE "failed",
              !.code = child[r]])
      BY <1>8, <2>3 DEF Poll, Timely
    <3> QED
      BY <1>3, <1>8, <2>1, <2>3, <3>1, <3>2, <3>3
         DEF Poll, Timely, Places, Steps
  <2>4. CASE ~ elapsed[r] /\ Alive(r)
    BY <1>3, <1>8, <2>4 DEF Poll, Overdue, Places, Steps
  <2> QED
    BY <2>2, <2>3, <2>4
<1>9. CASE Ask(r) \/ Grace(r)
  <2>1. \A sent \in BOOLEAN :
            [rec[r] EXCEPT !.alive = TRUE, !.asked = rec[r].asked \/ sent]
                \in Records
    BY <1>1 DEF Records
  <2> QED
    BY <1>3, <1>9, <2>1 DEF Ask, Grace, Request, Places, Steps
<1>10. CASE Settle(r)
  <2>1. /\ ExitSeen(rec[r], Polled(r)) \in BOOLEAN
        /\ \A b \in BOOLEAN : Verdict(rec[r], Polled(r), b) \in Statuses
    BY <1>1 DEF ExitSeen, Verdict, Records, Statuses
  <2> QED
    BY <1>1, <1>3, <1>10, <2>1 DEF Settle, Places, Steps, Records
<1>11. CASE Cleanup(r)
  <2>1. \A sent, on \in BOOLEAN :
            [rec[r] EXCEPT !.alive = rec[r].alive \/ on,
                           !.asked = rec[r].asked \/ sent] \in Records
    BY <1>1 DEF Records
  <2> QED
    BY <1>3, <1>11, <2>1 DEF Cleanup, Places, Steps
<1>12. CASE Reap(r)
  <2>1. /\ \A st \in Statuses : [rec[r] EXCEPT !.status = st] \in Records
        /\ rec[r].status \in Statuses
        /\ \A b \in BOOLEAN :
               [rec[r] EXCEPT !.code = Polled(r), !.bySignal = b] \in Records
        /\ ExitSeen(rec[r], Polled(r)) \in BOOLEAN
    BY <1>1 DEF Records, ExitSeen
  <2> QED
    BY <1>3, <1>12, <2>1 DEF Reap, Places, Steps, Statuses
<1>13. CASE Note(r)
  BY <1>1, <1>3, <1>13 DEF Note, Places, Steps, Records, Statuses
<1>14. CASE Last(r) \/ LastFails(r)
  BY <1>1, <1>14 DEF Last, LastFails, Places, Returned
<1>15. CASE SaveRaises(r) \/ StepRaises(r)
  <2>1. [rec[r] EXCEPT !.status = "supervisor_error"] \in Records
    BY <1>1 DEF Records, Statuses
  <2> QED
    BY <1>1, <1>15, <2>1 DEF SaveRaises, StepRaises, Raises, Record, Places,
                             Steps
<1> QED
  BY <1>4, <1>5, <1>6, <1>7, <1>7a, <1>8, <1>9, <1>10, <1>11, <1>12, <1>13,
     <1>14, <1>15 DEF Supervise

LEMMA WorldTyped ==
    ASSUME TypeOK, NEW r \in Runs, SupWorld(r), UNCHANGED <<caller, told>>
    PROVE  TypeOK'
<1> USE DEF TypeOK, At, Goto, World
<1>1. /\ disk \in Files /\ MaybeWritten(r) \subseteq Files
  BY DEF Files, Written, MaybeWritten
<1>2. CASE ChildExits(r)
  BY <1>2 DEF ChildExits, Children, Codes
<1>3. CASE StopFileAppears \/ DeadlinePasses(r) \/ SignalNoted(r)
  BY <1>3 DEF StopFileAppears, DeadlinePasses, SignalNoted
<1>4. CASE EarlyInterrupt(r)
  BY <1>1, <1>4 DEF EarlyInterrupt, Places, Steps
<1>5. CASE SupervisorDies(r)
  BY <1>1, <1>5 DEF SupervisorDies, Places
<1> QED
  BY <1>2, <1>3, <1>4, <1>5 DEF SupWorld

LEMMA CallerTyped ==
    ASSUME TypeOK, NEW r \in Runs,
           Start(r) \/ Rejected(r) \/ Check(r) \/ CliReports(r)
               \/ ActionReports(r)
    PROVE  TypeOK'
<1>1. ASSUME NEW exit \in Nat, NEW started \in {"unknown", "true", "false"},
             NEW receipt \in {"finalized", "unconfirmed", "not_created",
                              "nothing"},
             Report(r, exit, started, receipt)
      PROVE  TypeOK'
  BY <1>1 DEF TypeOK, Report, Goto, World, Places, Reports
<1>2. ASSUME NEW step \in {"open", "check"}, Enter(r, step) PROVE TypeOK'
  BY <1>2 DEF TypeOK, Enter, Goto, World, Places, Steps
<1>3. /\ ExitCode(rec[r]) \in Nat
      /\ Told(rec[r]) \in {"unknown", "true", "false"}
  BY DEF ExitCode, Told
<1> QED
  BY <1>1, <1>2, <1>3 DEF Start, Rejected, CliRejects, StepRejects, Check,
     CliReports, ActionReports, ReportStep
-----------------------------------------------------------------------------
\* The record follows the child through each step of the supervisor.
LEMMA SuperviseQuietly ==
    ASSUME IInv, NEW r \in Runs, UNCHANGED <<caller, told>>, TypeOK',
           \/ Prestop(r) \/ ReadClock(r) \/ Poll(r) \/ StopCheck(r)
           \/ Ask(r) \/ Grace(r) \/ Settle(r) \/ Cleanup(r) \/ Reap(r)
           \/ Note(r) \/ StepRaises(r)
    PROVE  IInv'
<1> DEFINE Shape == /\ UNCHANGED <<posix, child, disk>>
                    /\ \A s \in Runs \ {r} : pc'[s] = pc[s] /\ rec'[s] = rec[s]
                    /\ pc'[r] \notin {"returned", "reported"}
           Now == Account(pc[r], rec[r], child[r])
           Next1 == Account(pc'[r], rec'[r], child[r])
<1>1. /\ rec[r] \in Records /\ child[r] \in Children /\ Now
      /\ pc \in [Runs -> Places] /\ rec \in [Runs -> Records]
      /\ posix \in BOOLEAN
  BY DEF IInv, TypeOK
<1>2. Shape /\ Next1
  <2> USE <1>1 DEF At, Goto, Record, World, Account
  <2>a. ASSUME \/ UNCHANGED rec
               \/ \E on, sent \in BOOLEAN :
                      rec' = [rec EXCEPT ![r] = [rec[r] EXCEPT
                          !.alive = on, !.asked = rec[r].asked \/ sent]]
        PROVE  /\ \A s \in Runs \ {r} : rec'[s] = rec[s]
               /\ rec'[r].status = rec[r].status
               /\ rec'[r].code = rec[r].code
               /\ rec'[r].task_started = rec[r].task_started
               /\ rec'[r].finished = rec[r].finished
               /\ rec[r].asked => rec'[r].asked
    <3>1. CASE UNCHANGED rec
      BY <3>1
    <3>2. ASSUME NEW on \in BOOLEAN, NEW sent \in BOOLEAN,
                 rec' = [rec EXCEPT ![r] = [rec[r] EXCEPT
                     !.alive = on, !.asked = rec[r].asked \/ sent]]
          PROVE  /\ \A s \in Runs \ {r} : rec'[s] = rec[s]
                 /\ rec'[r].status = rec[r].status
                 /\ rec'[r].code = rec[r].code
                 /\ rec'[r].task_started = rec[r].task_started
                 /\ rec'[r].finished = rec[r].finished
                 /\ rec[r].asked => rec'[r].asked
      <4>1. rec'[r] = [rec[r] EXCEPT !.alive = on,
                                     !.asked = rec[r].asked \/ sent]
        BY <3>2
      <4> QED
        BY <3>2, <4>1 DEF Records
    <3> QED
      BY <2>a, <3>1, <3>2
  <2>b. rec[r].asked \in BOOLEAN /\ rec[r].alive \in BOOLEAN
    BY DEF Records
  <2>1. CASE Prestop(r)
    BY <2>1 DEF Prestop, BeforeStart, Started, AtEnd, Records
  <2>1a. CASE ReadClock(r)
    BY <2>1a DEF ReadClock, BeforeStart, Started, AtEnd
  <2>2. CASE Poll(r)
    <3>1. CASE elapsed[r]
      BY <2>2, <3>1 DEF Poll, Overdue, BeforeStart, Started, AtEnd, Records
    <3>2. CASE ~ elapsed[r] /\ ~ Alive(r)
      <4>1. child[r] \in Codes /\ ~ rec[r].finished
        BY <2>2, <3>2 DEF Poll, Alive, Children, Started, AtEnd
      <4>2. /\ rec' = [rec EXCEPT ![r] = [rec[r] EXCEPT
                   !.status = IF child[r] = "zero" THEN "completed"
                              ELSE "failed",
                   !.code = child[r]]]
            /\ pc' = [pc EXCEPT ![r] = "cleanup"]
            /\ UNCHANGED <<posix, child, disk>>
        BY <2>2, <3>2 DEF Poll, Timely
      <4>3. /\ rec'[r].code = child[r] /\ ~ rec'[r].finished
            /\ rec'[r].task_started = rec[r].task_started
            /\ rec'[r].status = IF child[r] = "zero" THEN "completed"
                                ELSE "failed"
        BY <4>1, <4>2 DEF Records
      <4>4. Next1
        BY <2>2, <4>1, <4>2, <4>3 DEF Poll, BeforeStart, Started, Codes
      <4> QED
        BY <4>2, <4>4
    <3>3. CASE ~ elapsed[r] /\ Alive(r)
      BY <2>2, <3>3 DEF Poll, BeforeStart, Started, AtEnd
    <3> QED
      BY <3>1, <3>2, <3>3
  <2>3. CASE StopCheck(r)
    BY <2>3 DEF StopCheck, BeforeStart, Started, AtEnd, Records
  <2>4. CASE Ask(r)
    <3>1. /\ \/ UNCHANGED rec
             \/ \E on, sent \in BOOLEAN :
                    rec' = [rec EXCEPT ![r] = [rec[r] EXCEPT
                        !.alive = on, !.asked = rec[r].asked \/ sent]]
          /\ \E step \in {"grace", "settle"} : pc' = [pc EXCEPT ![r] = step]
          /\ pc[r] = "ask" /\ UNCHANGED <<posix, child, disk>>
      BY <2>4 DEF Ask, Request
    <3> QED
      BY <3>1, <2>a DEF BeforeStart, Started, AtEnd
  <2>5. CASE Grace(r)
    <3>1. /\ \/ UNCHANGED rec
             \/ \E on, sent \in BOOLEAN :
                    rec' = [rec EXCEPT ![r] = [rec[r] EXCEPT
                        !.alive = on, !.asked = rec[r].asked \/ sent]]
          /\ pc' = [pc EXCEPT ![r] = "settle"]
          /\ pc[r] = "grace" /\ UNCHANGED <<posix, child, disk>>
      BY <2>5 DEF Grace, Request
    <3> QED
      BY <3>1, <2>a DEF BeforeStart, Started, AtEnd
  <2>6. CASE Settle(r)
    BY <2>6 DEF Settle, Polled, ExitSeen, Verdict, BeforeStart, Started,
                AtEnd, Records, Children, Codes
  <2>7. CASE Cleanup(r)
    <3>1. /\ \/ UNCHANGED rec
             \/ \E on, sent \in BOOLEAN :
                    rec' = [rec EXCEPT ![r] = [rec[r] EXCEPT
                        !.alive = on, !.asked = rec[r].asked \/ sent]]
          /\ pc' = [pc EXCEPT ![r] = IF child[r] = "alive" THEN "reap"
                                     ELSE "note"]
          /\ pc[r] = "cleanup" /\ UNCHANGED <<posix, child, disk>>
      BY <2>7, <2>b DEF Cleanup, Alive
    <3> QED
      BY <3>1, <2>a DEF BeforeStart, Started, AtEnd
  <2>8. CASE Reap(r)
    <3>1. ~ rec[r].finished
      BY <2>8 DEF Reap, AtEnd
    <3>2. CASE posix
      BY <2>8, <3>1, <3>2 DEF Reap, Alive, BeforeStart, Started, AtEnd, Records
    <3>3. CASE ~ posix
      <4>1. /\ rec' = [rec EXCEPT ![r] = [rec[r] EXCEPT !.code = Polled(r),
                               !.bySignal = ExitSeen(rec[r], Polled(r))]]
            /\ pc' = [pc EXCEPT ![r] = "note"] /\ pc[r] = "reap"
            /\ UNCHANGED <<posix, child, disk>>
        BY <2>8, <3>3 DEF Reap
      <4>2. /\ rec'[r].code = Polled(r) /\ rec'[r].status = rec[r].status
            /\ rec'[r].task_started = rec[r].task_started
            /\ rec'[r].finished = rec[r].finished
            /\ rec'[r].asked = rec[r].asked
        BY <4>1 DEF Records
      <4>3. Polled(r) # "none" => child[r] = Polled(r)
        BY DEF Polled
      <4>4. rec[r].code # "none" => Polled(r) = rec[r].code
        BY DEF Polled, Records, Codes
      <4> QED
        BY <3>1, <3>3, <4>1, <4>2, <4>3, <4>4 DEF BeforeStart, Started, AtEnd
    <3> QED
      BY <3>2, <3>3
  <2>9. CASE Note(r)
    BY <2>9 DEF Note, Polled, Alive, BeforeStart, Started, AtEnd, Records,
                Codes, Children
  <2>10. CASE StepRaises(r)
    BY <2>10 DEF StepRaises, Raises, BeforeStart, Started, AtEnd, Records
  <2> QED
    BY <2>1, <2>1a, <2>2, <2>3, <2>4, <2>5, <2>6, <2>7, <2>8, <2>9, <2>10
<1>3. pc[r] \in Steps \ {"open", "save0", "save1", "last"}
  BY DEF Prestop, ReadClock, Poll, StopCheck, Ask, Grace, Settle, Cleanup,
         Reap, Note, StepRaises, Steps, At
<1>4. ~ rec[r].finished
  BY <1>1, <1>3 DEF Account, AtEnd, Steps
<1>5. Quietly(r)
  BY <1>1, <1>2, <1>3, <1>4 DEF Quietly, Owning
<1>6. Account(pc[r], rec[r], child[r])'
  BY <1>2 DEF Account
<1> QED
  BY <1>5, <1>6, QuietStep

\* The steps that write the file, or leave it in the middle of it.
LEMMA SuperviseWrites ==
    ASSUME IInv, NEW r \in Runs, UNCHANGED told, TypeOK',
           \/ Save0(r) \/ Save1(r) \/ SaveRaises(r) \/ Last(r) \/ LastFails(r)
           \/ EarlyInterrupt(r)
    PROVE  IInv'
<1>1. /\ rec[r] \in Records /\ Account(pc[r], rec[r], child[r])
      /\ pc \in [Runs -> Places] /\ rec \in [Runs -> Records]
  BY DEF IInv, TypeOK
<1>2. Writes(r) /\ Account(pc'[r], rec'[r], child[r])
  <2> USE <1>1 DEF At, Goto, Record, World, Account, Writes, Owning, Steps
  <2>1. CASE Save0(r) \/ Save1(r)
    BY <2>1 DEF Save0, Save1, MaybeWritten, BeforeStart, Started, AtEnd
  <2>2. CASE SaveRaises(r)
    BY <2>2 DEF SaveRaises, Raises, BeforeStart, Started, AtEnd, Records
  <2>3. CASE Last(r)
    BY <2>3 DEF Last, MaybeWritten, BeforeStart, Started, AtEnd
  <2>4. CASE LastFails(r)
    BY <2>4 DEF LastFails, BeforeStart, Started, AtEnd
  <2>5. CASE EarlyInterrupt(r)
    BY <2>5 DEF EarlyInterrupt, BeforeStart, Started, AtEnd
  <2> QED
    BY <2>1, <2>2, <2>3, <2>4, <2>5
<1>3. Account(pc[r], rec[r], child[r])'
  BY <1>2 DEF Account, Writes
<1> QED
  BY <1>2, <1>3, WritingStep

\* The child is started by the owner of the file, and by nobody else.
LEMMA SpawnStep ==
    ASSUME IInv, NEW r \in Runs, UNCHANGED told, TypeOK', Spawn(r)
    PROVE  IInv'
<1>1. /\ rec[r] \in Records /\ Account(pc[r], rec[r], child[r])
      /\ pc \in [Runs -> Places] /\ rec \in [Runs -> Records]
      /\ child \in [Runs -> Children]
  BY DEF IInv, TypeOK
<1>2. Quietly(r)
  BY <1>1 DEF Spawn, Quietly, Owning, Steps, At, Goto, Record, Account, AtEnd
<1>3. Account(pc[r], rec[r], child[r])'
  BY <1>1 DEF Spawn, At, Goto, Record, Account, BeforeStart, Started, AtEnd,
              Records
<1> QED
  BY <1>2, <1>3, QuietStep

\* Only a path that is free is opened.
LEMMA OpenStep ==
    ASSUME IInv, NEW r \in Runs, UNCHANGED told, TypeOK', Open(r)
    PROVE  IInv'
<1>1. /\ Account(pc[r], rec[r], child[r]) /\ Owns(r) /\ ReportInv(r)
      /\ pc \in [Runs -> Places] /\ FileInv
  BY DEF IInv, TypeOK
<1>2. child[r] = "none" /\ pc[r] = "open"
  BY <1>1 DEF Open, At, Account, BeforeStart
<1>3. Others(r)
  BY <1>1 DEF Open, Others, Goto, World
<1>4. Account(pc[r], rec[r], child[r])'
  BY <1>1, <1>2 DEF Open, Account, Goto, World, BeforeStart, Started, AtEnd
<1>5. Owns(r)'
  BY <1>1, <1>2 DEF Open, Owns, Owning, Steps, Goto, World
<1>6. ReportInv(r)'
  BY <1>1, <1>2, Unreported DEF Open, ReportInv, At, Goto, World
<1>7. FileInv'
  BY <1>1, <1>2 DEF Open, FileInv, World, NewRecord
<1> QED
  BY <1>3, <1>4, <1>5, <1>6, <1>7, OneMoves

\* A child that exits has been alive, and does so once.
LEMMA ChildStep ==
    ASSUME IInv, NEW r \in Runs, UNCHANGED told, TypeOK', ChildExits(r)
    PROVE  IInv'
<1>1. /\ Account(pc[r], rec[r], child[r]) /\ Owns(r) /\ ReportInv(r)
      /\ child \in [Runs -> Children] /\ FileInv /\ rec[r] \in Records
  BY DEF IInv, TypeOK
<1>2. /\ child[r] = "alive" /\ child'[r] \in Codes
      /\ \A s \in Runs \ {r} : child'[s] = child[s]
      /\ UNCHANGED <<posix, pc, rec, disk>>
  BY <1>1 DEF ChildExits, Alive, Codes
<1>3. Others(r)
  BY <1>2 DEF Others
<1>4. Account(pc[r], rec[r], child[r])'
  BY <1>1, <1>2 DEF Account, Codes, Records
<1>5. Owns(r)'
  BY <1>1, <1>2 DEF Owns
<1>6. ReportInv(r)'
  BY <1>1, <1>2 DEF ReportInv, At, Written, Codes
<1>7. FileInv'
  BY <1>1, <1>2 DEF FileInv, Codes
<1> QED
  BY <1>3, <1>4, <1>5, <1>6, <1>7, OneMoves

\* A supervisor that dies leaves the file to whoever reads it.
LEMMA DeathStep ==
    ASSUME IInv, NEW r \in Runs, UNCHANGED told, TypeOK', SupervisorDies(r)
    PROVE  IInv'
<1>1. /\ Account(pc[r], rec[r], child[r]) /\ Owns(r) /\ ReportInv(r)
      /\ pc \in [Runs -> Places] /\ FileInv /\ disk \in Files
  BY DEF IInv, TypeOK
<1>2. /\ pc[r] # "reported" /\ pc'[r] = "dead"
      /\ \A s \in Runs \ {r} : pc'[s] = pc[s]
      /\ UNCHANGED <<posix, child, rec>>
  BY <1>1 DEF SupervisorDies, Goto, World, Steps, Returned
<1>3. \/ UNCHANGED disk
      \/ /\ disk.by = r /\ disk'.by = r /\ disk'.kind # "absent"
         /\ disk'.kind = "record" => disk' = disk \/ disk' = Written(r)
  BY <1>1 DEF SupervisorDies, MaybeWritten, Written, Owns, Owning, Steps, Files
<1>4. Others(r)
  BY <1>2, <1>3 DEF Others
<1>5. Account(pc[r], rec[r], child[r])'
  BY <1>1, <1>2 DEF Account, BeforeStart, Started, AtEnd
<1>6. Owns(r)'
  BY <1>1, <1>2, <1>3 DEF Owns, Owning, Steps
<1>7. ReportInv(r)'
  BY <1>1, <1>2, Unreported DEF ReportInv, At
<1>8. FileInv'
  BY <1>1, <1>2, <1>3 DEF FileInv, Written, Account
<1> QED
  BY <1>4, <1>5, <1>6, <1>7, <1>8, OneMoves

\* Stop file, clock and noted signals change nothing the invariant is about.
LEMMA SignsStep ==
    ASSUME IInv, TypeOK', UNCHANGED <<posix, pc, rec, child, disk, told>>
    PROVE  IInv'
BY DEF IInv, FileInv, Owns, ReportInv, Account, Written, At
-----------------------------------------------------------------------------
\* A report that is true of the run, of its record and of the file.
LEMMA ReportedStep ==
    ASSUME IInv, NEW r \in Runs, TypeOK', NEW exit \in Nat, NEW started,
           NEW receipt, Report(r, exit, started, receipt),
           pc[r] \in {"idle", "check", "refused", "returned", "unsaved"},
           started = "false" => child[r] = "none",
           started = "true" => child[r] # "none",
           exit \in Verdicts => /\ rec[r].finished /\ disk = Written(r)
                                /\ rec[r].status \in Means(exit)
    PROVE  IInv'
<1>1. /\ Account(pc[r], rec[r], child[r]) /\ Owns(r) /\ FileInv
      /\ pc \in [Runs -> Places] /\ told \in [Runs -> Reports]
  BY DEF IInv, TypeOK
<1>2. /\ pc'[r] = "reported"
      /\ told'[r] = [exit |-> exit, task_started |-> started,
                     receipt |-> receipt]
      /\ \A s \in Runs \ {r} : pc'[s] = pc[s] /\ told'[s] = told[s]
      /\ UNCHANGED <<posix, child, rec, disk>>
  BY <1>1 DEF Report, Goto, World
<1>3. Others(r)
  BY <1>2 DEF Others
<1>4. Account(pc[r], rec[r], child[r])'
  BY <1>1, <1>2 DEF Account, BeforeStart, Started, AtEnd
<1>5. Owns(r)' /\ FileInv'
  BY <1>1, <1>2 DEF Owns, Owning, Steps, FileInv
<1>6. ReportInv(r)'
  BY <1>2 DEF ReportInv, At, Written
<1> QED
  BY <1>3, <1>4, <1>5, <1>6, OneMoves

\* A run that goes on to look for the receipt, or to open it.
LEMMA EnterStep ==
    ASSUME IInv, NEW r \in Runs, TypeOK', NEW step \in {"open", "check"},
           Enter(r, step), pc[r] \in {"idle", "check"}
    PROVE  IInv'
<1>1. /\ Account(pc[r], rec[r], child[r]) /\ Owns(r) /\ FileInv
      /\ ReportInv(r) /\ pc \in [Runs -> Places]
  BY DEF IInv, TypeOK
<1>2. /\ pc'[r] = step
      /\ \A s \in Runs \ {r} : pc'[s] = pc[s]
      /\ UNCHANGED <<posix, child, rec, disk, told>>
  BY <1>1 DEF Enter, Goto, World
<1>3. Others(r)
  BY <1>2 DEF Others
<1>4. Account(pc[r], rec[r], child[r])'
  BY <1>1, <1>2 DEF Account, BeforeStart, Started, AtEnd
<1>5. Owns(r)' /\ FileInv'
  BY <1>1, <1>2 DEF Owns, Owning, Steps, FileInv
<1>6. ReportInv(r)'
  BY <1>1, <1>2, Unreported DEF ReportInv, At
<1> QED
  BY <1>3, <1>4, <1>5, <1>6, OneMoves

\* What callers say is true: of a finished record, of one that could not be
\* saved, and of a run that has not come to a record.
LEMMA CallerStep ==
    ASSUME IInv, NEW r \in Runs, TypeOK',
           Start(r) \/ Rejected(r) \/ Check(r) \/ CliReports(r)
               \/ ActionReports(r)
    PROVE  IInv'
<1>1. /\ Account(pc[r], rec[r], child[r]) /\ ReportInv(r)
      /\ rec[r] \in Records /\ child[r] \in Children
  BY DEF IInv, TypeOK
<1>2. CASE Start(r)
  BY <1>2, EnterStep DEF Start, At
<1>3. CASE Rejected(r) \/ Check(r)
  <2>1. pc[r] \in {"idle", "check"} /\ child[r] = "none"
    BY <1>1, <1>3 DEF Rejected, Check, At, Account, BeforeStart
  <2>2. CASE Enter(r, "open")
    BY <2>1, <2>2, EnterStep
  <2>3. CASE ~ Enter(r, "open")
    <3>1. \E exit \in {1, 2}, started \in {"unknown", "false"},
             receipt \in {"nothing", "not_created"} :
                 Report(r, exit, started, receipt)
      BY <1>3, <2>3 DEF Rejected, Check, CliRejects, StepRejects, ReportStep
    <3>2. 1 \notin Verdicts /\ 2 \notin Verdicts
      BY DEF Verdicts
    <3> QED
      BY <2>1, <3>1, <3>2, ReportedStep
  <2> QED
    BY <2>2, <2>3
<1>4. CASE CliReports(r) \/ ActionReports(r)
  <2>1. /\ pc[r] \in {"returned", "unsaved"} => rec[r].finished
        /\ pc[r] = "returned" => disk = Written(r)
    BY <1>1 DEF Account, ReportInv, At
  <2>2. /\ Told(rec[r]) = "false" => child[r] = "none"
        /\ Told(rec[r]) = "true" => child[r] # "none"
    BY <1>1 DEF Told, Account
  <2>3. /\ ExitCode(rec[r]) \in Nat
        /\ ExitCode(rec[r]) \in Verdicts =>
               rec[r].status \in Means(ExitCode(rec[r]))
    BY DEF ExitCode, Verdicts, Means
  <2>4. 1 \notin Verdicts /\ 2 \notin Verdicts
    BY DEF Verdicts
  <2>5. CASE At(r, "refused")
    <3>1. child[r] = "none"
      BY <1>1, <2>5 DEF At, Account, BeforeStart
    <3>2. \E exit \in {1, 2}, receipt \in {"nothing", "unconfirmed"} :
              Report(r, exit, "unknown", receipt)
      BY <1>4, <2>5 DEF CliReports, ActionReports, ReportStep, At
    <3> QED
      BY <2>4, <2>5, <3>1, <3>2, ReportedStep DEF At
  <2>6. CASE At(r, "unsaved")
    <3>1. \E exit \in {1, 2}, receipt \in {"nothing", "unconfirmed"} :
              Report(r, exit, Told(rec[r]), receipt)
      BY <1>4, <2>6 DEF CliReports, ActionReports, ReportStep, At
    <3> QED
      BY <2>2, <2>4, <2>6, <3>1, ReportedStep DEF At
  <2>7. CASE At(r, "returned")
    <3>1. \E exit \in Nat, receipt \in {"nothing", "finalized"} :
              /\ Report(r, exit, Told(rec[r]), receipt)
              /\ exit \in Verdicts => rec[r].status \in Means(exit)
      <4>1. rec[r].status = "completed" => rec[r].status \in Means(0)
        BY DEF Means
      <4> QED
        BY <1>4, <2>3, <2>4, <2>7, <4>1
           DEF CliReports, ActionReports, ReportStep, At
    <3> QED
      BY <2>1, <2>2, <2>7, <3>1, ReportedStep DEF At
  <2> QED
    BY <1>4, <2>5, <2>6, <2>7 DEF CliReports, ActionReports
<1> QED
  BY <1>2, <1>3, <1>4
-----------------------------------------------------------------------------
\* Every step keeps the invariant.
LEMMA NextIInv == IInv /\ [Next]_vars => IInv'
<1> SUFFICES ASSUME IInv, [Next]_vars PROVE IInv'
  OBVIOUS
<1>1. TypeOK
  BY DEF IInv
<1>2. ASSUME NEW r \in Runs, Supervise(r), UNCHANGED <<caller, told>>
      PROVE  IInv'
  <2>1. TypeOK'
    BY <1>1, <1>2, SuperviseTyped
  <2> QED
    BY <1>2, <2>1, SuperviseQuietly, SuperviseWrites, SpawnStep, OpenStep
       DEF Supervise
<1>3. ASSUME NEW r \in Runs, SupWorld(r), UNCHANGED <<caller, told>>
      PROVE  IInv'
  <2>1. TypeOK'
    BY <1>1, <1>3, WorldTyped
  <2>2. CASE StopFileAppears \/ DeadlinePasses(r) \/ SignalNoted(r)
    BY <1>3, <2>1, <2>2, SignsStep
       DEF StopFileAppears, DeadlinePasses, SignalNoted
  <2> QED
    BY <1>3, <2>1, <2>2, ChildStep, SuperviseWrites, DeathStep DEF SupWorld
<1>4. ASSUME NEW r \in Runs,
             Start(r) \/ Rejected(r) \/ Check(r) \/ CliReports(r)
                 \/ ActionReports(r)
      PROVE  IInv'
  BY <1>1, <1>4, CallerTyped, CallerStep
<1>5. CASE UNCHANGED vars
  BY <1>1, <1>5, SignsStep DEF vars, supVars, TypeOK
<1> QED
  BY <1>2, <1>3, <1>4, <1>5 DEF Next, Step

\* Every report, record and file keeps its type, for any number of runs.
THEOREM ReceiptTypeCorrect == Spec => []TypeOK
<1>1. IInv => TypeOK
  BY DEF IInv
<1> QED
  BY <1>1, InitIInv, NextIInv, PTL DEF Spec

\* Of all the runs that are given one receipt path at most one ever starts its
\* child (open('x'), and the action's own look before it), whatever dies.
THEOREM OneLaunchEach == Spec => []OneLaunch
<1>1. IInv => OneLaunch
  BY DEF IInv, Owns, OneLaunch
<1> QED
  BY <1>1, InitIInv, NextIInv, PTL DEF Spec

\* No caller denies a start that happened or claims one that did not, although
\* the receipt, its final save, and the outputs may all have failed.
THEOREM ExecutionNeverDenied == Spec => []NeverDeniesExecution
<1>1. IInv => NeverDeniesExecution
  BY DEF IInv, ReportInv, NeverDeniesExecution
<1> QED
  BY <1>1, InitIInv, NextIInv, PTL DEF Spec
-----------------------------------------------------------------------------
(***************************************************************************)
(* What a receipt and an exit code say of the deadline and of a stop, and  *)
(* what the programs that believe a receipt rest on.  To say that a run    *)
(* they accept is the case they take it for needs more than the invariant: *)
(* where a status and a stop reason come from (Course), which records a    *)
(* file can hold (Kinds), and that a report is the record (Delivery).      *)
(***************************************************************************)
Running == [NewRecord EXCEPT !.task_started = TRUE, !.status = "running"]
Deadline == "deadline_before_exit_confirmation"
Stops == {"parent_signal", "stop_file_before_start", "stop_file"}
Watching == {"save1", "clock", "poll", "stopcheck"}
Ending == {"ask", "grace", "settle"}
Doubtful == {"supervisor_error", "exit_unconfirmed"}

\* How a record comes to its status and its reason: file is whether there is
\* a stop file, flag whether a signal was noted, over what the last reading of
\* the clock said.
Course(step, record, file, flag, over) ==
    /\ step \in BeforeStart => record = NewRecord
    /\ step \in Watching => record = Running
    /\ over => \/ step \in {"poll", "dead"} /\ record = Running
               \/ record.stop_reason = Deadline
    /\ record.stop_reason = "stop_file" => file
    /\ record.stop_reason \in Stops => file \/ flag
    /\ record.stop_reason = Deadline =>
           /\ over
           /\ \/ record.status = "running" /\ step \in Ending \cup {"dead"}
              \/ record.status \in {"deadline_reached", "exit_unconfirmed"}
    /\ record.status = "not_started" => ~ record.task_started
    /\ record.status = "running" =>
           /\ record.task_started /\ ~ record.finished
           /\ \/ step \in Watching \cup {"dead"}
              \/ step \in Ending /\ record.stop_reason # None
    /\ record.status = "failed" => record.code \notin {"none", "zero"}
    /\ record.status = "deadline_reached" => record.stop_reason = Deadline
    /\ record.status \in {"interrupted", "finished_after_stop_request"} =>
           record.stop_reason \in Stops

\* A file is its owner's, which has begun, and a checkpoint says one of two
\* things.
Kinds ==
    /\ disk.kind # "absent" => pc[disk.by] # "idle"
    /\ disk.kind = "record" /\ ~ disk.rec.finished =>
           disk.rec \in {NewRecord, Running}

\* A clock that read late stays late; a report of a finalized receipt is the
\* record's, and so is the file.
Delivery(r) ==
    /\ elapsed[r] => late[r]
    /\ ~ posix => child[r] # "signal"
    /\ told[r].receipt = "finalized" =>
           /\ disk = Written(r) /\ rec[r].finished
           /\ told[r].task_started = Told(rec[r])
           /\ told[r].exit = IF caller[r] = "cli" THEN ExitCode(rec[r])
                             ELSE IF rec[r].status = "completed" THEN 0 ELSE 1

Trail ==
    /\ Kinds
    /\ \A r \in Runs : /\ Delivery(r)
                       /\ Course(pc[r], rec[r], stop, flags[r], elapsed[r])

LEMMA NoReason == None \notin Stops /\ None # "stop_file" /\ None # Deadline
BY ReasonsAssumption DEF Stops, Deadline

LEMMA InitTrail == Init => Trail
<1> SUFFICES ASSUME Init PROVE Trail
  OBVIOUS
<1>1. Kinds
  BY DEF Init, SupInit, NoFile, Kinds
<1>2. ASSUME NEW r \in Runs
      PROVE  Delivery(r) /\ Course(pc[r], rec[r], stop, flags[r], elapsed[r])
  <2>1. /\ pc[r] = "idle" /\ rec[r] = NewRecord /\ ~ elapsed[r]
        /\ child[r] = "none" /\ told[r].receipt = "nothing"
    BY DEF Init, SupInit, Silence
  <2>2. Course(pc[r], rec[r], stop, flags[r], elapsed[r])
    BY <2>1, NoReason DEF Course, BeforeStart, Watching, NewRecord
  <2> QED
    BY <2>1, <2>2 DEF Delivery
<1> QED
  BY <1>1, <1>2 DEF Trail

\* A step of run r disturbs the trail of no other run; a stop file only comes.
LEMMA TrailMoves ==
    ASSUME IInv, Trail, NEW r \in Runs, Others(r), UNCHANGED caller,
           stop => stop',
           \A s \in Runs \ {r} : /\ flags'[s] = flags[s] /\ late'[s] = late[s]
                                  /\ elapsed'[s] = elapsed[s],
           Kinds', Delivery(r)',
           Course(pc'[r], rec'[r], stop', flags'[r], elapsed'[r])
    PROVE  Trail'
<1>1. ASSUME NEW s \in Runs \ {r}
      PROVE  /\ Delivery(s)'
             /\ Course(pc'[s], rec'[s], stop', flags'[s], elapsed'[s])
  <2>1. /\ pc'[s] = pc[s] /\ rec'[s] = rec[s] /\ child'[s] = child[s]
        /\ told'[s] = told[s] /\ posix' = posix /\ caller' = caller
        /\ flags'[s] = flags[s] /\ late'[s] = late[s]
        /\ elapsed'[s] = elapsed[s]
    BY DEF Others
  <2>2. Delivery(s) /\ Course(pc[s], rec[s], stop, flags[s], elapsed[s])
    BY DEF Trail
  <2>3. Course(pc'[s], rec'[s], stop', flags'[s], elapsed'[s])
    BY <2>1, <2>2 DEF Course
  <2>4. disk = Written(s) => disk' = Written(s)'
    BY <2>1 DEF Others, Written
  <2>5. Delivery(s)'
    BY <2>1, <2>2, <2>4 DEF Delivery, ExitCode, Told
  <2> QED
    BY <2>3, <2>5
<1> QED
  BY <1>1 DEF Trail

\* Without a report there is nothing delivered.
LEMMA NothingDelivered ==
    ASSUME IInv, Trail, NEW r \in Runs, pc[r] # "reported",
           UNCHANGED <<posix, told, child, late, elapsed>>
    PROVE  Delivery(r)'
<1>1. told'[r].receipt # "finalized"
  BY DEF IInv, ReportInv, At, Silence
<1> QED
  BY <1>1 DEF Trail, Delivery

\* A step that leaves the file alone.
LEMMA KindsSame ==
    ASSUME IInv, Trail, NEW r \in Runs, UNCHANGED disk, pc'[r] # "idle",
           \A s \in Runs \ {r} : pc'[s] = pc[s]
    PROVE  Kinds'
BY DEF IInv, FileInv, Trail, Kinds
-----------------------------------------------------------------------------
\* The requests sent leave what the trail is about.
LEMMA RequestKeeps ==
    ASSUME NEW r \in Runs, rec \in [Runs -> Records],
           \/ UNCHANGED rec
           \/ \E on, sent \in BOOLEAN :
                  rec' = [rec EXCEPT ![r] = [rec[r] EXCEPT
                      !.alive = on, !.asked = rec[r].asked \/ sent]]
    PROVE  /\ \A s \in Runs \ {r} : rec'[s] = rec[s]
           /\ rec'[r].status = rec[r].status
           /\ rec'[r].code = rec[r].code
           /\ rec'[r].task_started = rec[r].task_started
           /\ rec'[r].stop_reason = rec[r].stop_reason
           /\ rec'[r].finished = rec[r].finished
<1>1. CASE UNCHANGED rec
  BY <1>1
<1>2. ASSUME NEW on \in BOOLEAN, NEW sent \in BOOLEAN,
             rec' = [rec EXCEPT ![r] = [rec[r] EXCEPT
                 !.alive = on, !.asked = rec[r].asked \/ sent]]
      PROVE  /\ \A s \in Runs \ {r} : rec'[s] = rec[s]
             /\ rec'[r].status = rec[r].status
             /\ rec'[r].code = rec[r].code
             /\ rec'[r].task_started = rec[r].task_started
             /\ rec'[r].stop_reason = rec[r].stop_reason
             /\ rec'[r].finished = rec[r].finished
  <2>1. rec'[r] = [rec[r] EXCEPT !.alive = on, !.asked = rec[r].asked \/ sent]
    BY <1>2
  <2>2. rec[r] \in Records
    OBVIOUS
  <2> QED
    BY <1>2, <2>1, <2>2 DEF Records
<1> QED
  BY <1>1, <1>2

\* The status and the reason of each step of the supervisor that writes no
\* file.
LEMMA QuietCourse ==
    ASSUME IInv, Trail, NEW r \in Runs,
           \/ Prestop(r) \/ Spawn(r) \/ ReadClock(r) \/ Poll(r)
           \/ StopCheck(r) \/ Ask(r) \/ Grace(r) \/ Settle(r)
           \/ Cleanup(r) \/ Reap(r) \/ Note(r) \/ StepRaises(r)
    PROVE  /\ Course(pc'[r], rec'[r], stop', flags'[r], elapsed'[r])
           /\ pc'[r] \notin {"idle", "reported"}
           /\ UNCHANGED <<posix, disk, stop, flags, late>>
           /\ \A s \in Runs \ {r} : /\ pc'[s] = pc[s] /\ rec'[s] = rec[s]
                                    /\ child'[s] = child[s]
                                    /\ elapsed'[s] = elapsed[s]
           /\ elapsed'[r] \in {elapsed[r], late[r]}
           /\ child' = child \/ child'[r] = "alive"
<1> USE DEF At, Goto, Record, World
<1>1. /\ rec[r] \in Records /\ child[r] \in Children
      /\ child \in [Runs -> Children]
      /\ pc \in [Runs -> Places] /\ rec \in [Runs -> Records]
      /\ posix \in BOOLEAN /\ flags[r] \in BOOLEAN /\ elapsed[r] \in BOOLEAN
      /\ elapsed \in [Runs -> BOOLEAN]
      /\ Account(pc[r], rec[r], child[r])
      /\ Course(pc[r], rec[r], stop, flags[r], elapsed[r])
  BY DEF IInv, TypeOK, Trail
<1>2. /\ NewRecord.stop_reason = None /\ NewRecord.status = "not_started"
      /\ ~ NewRecord.task_started /\ NewRecord.code = "none"
      /\ Running.stop_reason = None /\ Running.status = "running"
      /\ Running.task_started /\ Running.code = "none"
      /\ ~ NewRecord.finished /\ ~ Running.finished
      /\ NewRecord \in Records /\ Running \in Records
  BY DEF NewRecord, Running, Records, Statuses, Reasons
<1>3. ASSUME NEW new \in Records, NEW step \in Places,
             Record(r, new) \/ (rec' = rec /\ new = rec[r]), Goto(r, step)
      PROVE  /\ rec'[r] = new /\ pc'[r] = step
             /\ \A s \in Runs \ {r} : pc'[s] = pc[s] /\ rec'[s] = rec[s]
  BY <1>1, <1>3
<1> HIDE DEF Goto, Record
<1>4. CASE Prestop(r)
  <2>1. rec[r] = NewRecord /\ ~ elapsed[r]
    BY <1>1, <1>2, <1>4, NoReason DEF Prestop, Course, BeforeStart
  <2>2. CASE StopSeen(r)
    <3> DEFINE why == IF flags[r] THEN "parent_signal"
                      ELSE "stop_file_before_start"
               new == [rec[r] EXCEPT !.stop_reason = why]
    <3>1. /\ new \in Records /\ new.stop_reason = why
          /\ new.status = "not_started" /\ ~ new.task_started
      BY <1>2, <2>1 DEF Records, Reasons
    <3>2. Record(r, new) /\ Goto(r, "note") /\ UNCHANGED <<World, disk>>
      BY <1>4, <2>2 DEF Prestop
    <3>3. rec'[r] = new /\ pc'[r] = "note"
      BY <1>3, <3>1, <3>2 DEF Places, Steps
    <3>4. flags[r] \/ stop
      BY <2>2 DEF StopSeen
    <3>5. Course(pc'[r], rec'[r], stop', flags'[r], elapsed'[r])
      BY <2>1, <3>1, <3>2, <3>3, <3>4
         DEF Course, BeforeStart, Watching, Stops, Deadline
    <3> QED
      BY <1>3, <3>1, <3>2, <3>3, <3>5 DEF Places, Steps
  <2>3. CASE ~ StopSeen(r)
    <3>1. UNCHANGED rec /\ Goto(r, "spawn") /\ UNCHANGED <<World, disk>>
      BY <1>4, <2>3 DEF Prestop
    <3>2. rec'[r] = rec[r] /\ pc'[r] = "spawn"
      BY <1>1, <1>3, <3>1 DEF Places, Steps
    <3> QED
      BY <1>1, <1>2, <1>3, <2>1, <3>1, <3>2, NoReason
         DEF Places, Steps, Course, BeforeStart, Watching, Ending
  <2> QED
    BY <2>2, <2>3
<1>5. CASE Spawn(r)
  <2>1. rec[r] = NewRecord /\ ~ elapsed[r]
    BY <1>1, <1>2, <1>5, NoReason DEF Spawn, Course, BeforeStart
  <2>2. /\ Record(r, Running) /\ Goto(r, "save1")
        /\ child' = [child EXCEPT ![r] = "alive"]
        /\ UNCHANGED <<posix, disk, stop, flags, late, elapsed>>
    BY <1>5, <2>1 DEF Spawn, Running
  <2>3. rec'[r] = Running /\ pc'[r] = "save1"
    BY <1>2, <1>3, <2>2 DEF Places, Steps
  <2>4. Course(pc'[r], rec'[r], stop', flags'[r], elapsed'[r])
    BY <1>2, <2>1, <2>2, <2>3, NoReason DEF Course, BeforeStart, Watching
  <2> QED
    BY <1>1, <1>2, <1>3, <2>2, <2>3, <2>4 DEF Places, Steps
<1>5a. CASE ReadClock(r)
  <2>1. /\ rec[r] = Running /\ Goto(r, "poll")
        /\ elapsed' = [elapsed EXCEPT ![r] = late[r]]
        /\ UNCHANGED <<posix, child, stop, flags, late, rec, disk>>
    BY <1>1, <1>5a DEF ReadClock, Course, Watching
  <2>2. rec'[r] = rec[r] /\ pc'[r] = "poll"
    BY <1>1, <1>3, <2>1 DEF Places, Steps
  <2>3. Course(pc'[r], rec'[r], stop', flags'[r], elapsed'[r])
    BY <1>2, <2>1, <2>2, NoReason DEF Course, BeforeStart, Watching
  <2> QED
    BY <1>1, <1>3, <2>1, <2>2, <2>3 DEF Places, Steps
<1>6. CASE Poll(r)
  <2>0. rec[r] = Running /\ UNCHANGED <<World, disk>>
    BY <1>1, <1>6 DEF Poll, Course, Watching
  <2>1. CASE elapsed[r]
    <3> DEFINE new == [rec[r] EXCEPT !.stop_reason = Deadline]
    <3>1. /\ new \in Records /\ new.stop_reason = Deadline
          /\ new.status = "running" /\ new.task_started /\ ~ new.finished
      BY <1>2, <2>0 DEF Records, Reasons, Deadline
    <3>2. Record(r, new) /\ Goto(r, "ask")
      BY <1>6, <2>1 DEF Poll, Overdue, Deadline
    <3>3. rec'[r] = new /\ pc'[r] = "ask"
      BY <1>3, <3>1, <3>2 DEF Places, Steps
    <3>4. Course(pc'[r], rec'[r], stop', flags'[r], elapsed'[r])
      BY <2>0, <2>1, <3>1, <3>3, NoReason
         DEF Course, BeforeStart, Watching, Stops, Deadline, Ending
    <3> QED
      BY <1>3, <2>0, <3>1, <3>2, <3>3, <3>4 DEF Places, Steps
  <2>2. CASE ~ elapsed[r] /\ ~ Alive(r)
    <3> DEFINE new == [rec[r] EXCEPT
                     !.status = IF child[r] = "zero" THEN "completed"
                                ELSE "failed",
                     !.code = child[r]]
    <3>1. child[r] \in Codes
      BY <1>1, <1>6, <2>2 DEF Poll, Alive, Children, Account, Started
    <3>2. /\ new \in Records /\ new.stop_reason = None
          /\ new.status = IF child[r] = "zero" THEN "completed" ELSE "failed"
          /\ new.code = child[r]
      BY <1>2, <2>0, <3>1 DEF Records, Statuses
    <3>3. Record(r, new) /\ Goto(r, "cleanup")
      BY <1>6, <2>2 DEF Poll, Timely
    <3>4. rec'[r] = new /\ pc'[r] = "cleanup"
      BY <1>3, <3>2, <3>3 DEF Places, Steps
    <3>5. Course(pc'[r], rec'[r], stop', flags'[r], elapsed'[r])
      BY <2>0, <2>2, <3>1, <3>2, <3>4, NoReason
         DEF Course, BeforeStart, Watching, Codes
    <3> QED
      BY <1>3, <2>0, <3>2, <3>3, <3>4, <3>5 DEF Places, Steps
  <2>3. CASE ~ elapsed[r] /\ Alive(r)
    <3>1. UNCHANGED rec /\ Goto(r, "stopcheck")
      BY <1>6, <2>3 DEF Poll
    <3>2. rec'[r] = rec[r] /\ pc'[r] = "stopcheck"
      BY <1>1, <1>3, <3>1 DEF Places, Steps
    <3> QED
      BY <1>1, <1>2, <1>3, <2>0, <2>3, <3>1, <3>2, NoReason
         DEF Places, Steps, Course, BeforeStart, Watching
  <2> QED
    BY <2>1, <2>2, <2>3
<1>7. CASE StopCheck(r)
  <2>0. rec[r] = Running /\ ~ elapsed[r] /\ UNCHANGED <<World, disk>>
    BY <1>1, <1>2, <1>7, NoReason DEF StopCheck, Course, Watching
  <2>1. CASE StopSeen(r)
    <3> DEFINE why == IF flags[r] THEN "parent_signal" ELSE "stop_file"
               new == [rec[r] EXCEPT !.stop_reason = why]
    <3>1. /\ new \in Records /\ new.stop_reason = why
          /\ new.status = "running" /\ new.task_started /\ ~ new.finished
      BY <1>2, <2>0 DEF Records, Reasons
    <3>2. Record(r, new) /\ Goto(r, "ask")
      BY <1>7, <2>1 DEF StopCheck
    <3>3. rec'[r] = new /\ pc'[r] = "ask"
      BY <1>3, <3>1, <3>2 DEF Places, Steps
    <3>4. flags[r] \/ stop
      BY <2>1 DEF StopSeen
    <3>5. Course(pc'[r], rec'[r], stop', flags'[r], elapsed'[r])
      BY <2>0, <3>1, <3>3, <3>4, NoReason
         DEF Course, BeforeStart, Watching, Stops, Deadline, Ending
    <3> QED
      BY <1>3, <2>0, <3>1, <3>2, <3>3, <3>5 DEF Places, Steps
  <2>2. CASE ~ StopSeen(r)
    <3>1. UNCHANGED rec /\ Goto(r, "clock")
      BY <1>7, <2>2 DEF StopCheck
    <3>2. rec'[r] = rec[r] /\ pc'[r] = "clock"
      BY <1>1, <1>3, <3>1 DEF Places, Steps
    <3> QED
      BY <1>1, <1>2, <1>3, <2>0, <3>1, <3>2, NoReason
         DEF Places, Steps, Course, BeforeStart, Watching
  <2> QED
    BY <2>1, <2>2
<1>8. CASE Ask(r) \/ Grace(r) \/ Cleanup(r)
  <2>1. /\ \/ UNCHANGED rec
           \/ \E on, sent \in BOOLEAN :
                  rec' = [rec EXCEPT ![r] = [rec[r] EXCEPT
                      !.alive = on, !.asked = rec[r].asked \/ sent]]
        /\ UNCHANGED <<World, disk>>
    <3>1. rec[r].asked \in BOOLEAN /\ rec[r].alive \in BOOLEAN
      BY <1>1 DEF Records
    <3> QED
      BY <1>1, <1>8, <3>1 DEF Ask, Grace, Cleanup, Request, Record
  <2>2. /\ \/ pc[r] \in {"ask", "grace"} /\ pc'[r] \in {"grace", "settle"}
           \/ pc[r] = "cleanup" /\ pc'[r] \in {"reap", "note"}
        /\ \A s \in Runs \ {r} : pc'[s] = pc[s]
    BY <1>1, <1>8 DEF Ask, Grace, Cleanup, Goto
  <2>3. Course(pc'[r], rec'[r], stop', flags'[r], elapsed'[r])
    BY <1>1, <2>1, <2>2, RequestKeeps
       DEF Course, BeforeStart, Watching, Ending
  <2> QED
    BY <1>1, <2>1, <2>2, <2>3, RequestKeeps
<1>9. CASE Settle(r)
  <2> DEFINE code == Polled(r)
             bySignal == ExitSeen(rec[r], code)
             verdict == Verdict(rec[r], code, bySignal)
             new == [rec[r] EXCEPT !.code = code, !.bySignal = bySignal,
                                   !.status = verdict]
  <2>1. /\ code \in Codes \cup {"none"} /\ bySignal \in BOOLEAN
        /\ rec[r].code # "none" => code = rec[r].code
    BY <1>1 DEF Polled, ExitSeen, Records, Account, Codes
  <2>2. verdict \in Statuses
    BY <1>1, <2>1 DEF Verdict, Records, Statuses
  <2>3. /\ new \in Records /\ new.code = code /\ new.status = verdict
        /\ new.stop_reason = rec[r].stop_reason
        /\ new.task_started = rec[r].task_started
        /\ new.finished = rec[r].finished
    BY <1>1, <2>1, <2>2 DEF Records
  <2>4. /\ Record(r, new) /\ Goto(r, "cleanup") /\ UNCHANGED <<World, disk>>
        /\ pc[r] = "settle"
    BY <1>9 DEF Settle
  <2>5. rec'[r] = new /\ pc'[r] = "cleanup"
    BY <1>3, <2>3, <2>4 DEF Places, Steps
  <2>6. /\ rec[r].task_started
        /\ rec[r].stop_reason \in Stops \cup {None, Deadline}
    BY <1>1, <2>4 DEF Account, Started, Records, Reasons, Stops, Deadline
  <2>7. /\ rec[r].stop_reason = None => verdict = rec[r].status
        /\ rec[r].stop_reason = Deadline =>
               verdict \in {"deadline_reached", "exit_unconfirmed"}
        /\ rec[r].stop_reason \in Stops =>
               verdict \in {"interrupted", "finished_after_stop_request",
                            "exit_unconfirmed"}
    BY <2>6, NoReason DEF Verdict, Stops, Deadline
  <2> HIDE DEF verdict, code, new, bySignal
  <2>8. Course(pc'[r], rec'[r], stop', flags'[r], elapsed'[r])
    BY <1>1, <2>1, <2>3, <2>4, <2>5, <2>6, <2>7, NoReason
       DEF Course, BeforeStart, Watching, Ending, Doubtful, Stops, Deadline
  <2> QED
    BY <1>3, <2>3, <2>4, <2>5, <2>8 DEF Places, Steps
<1>10. CASE Reap(r) \/ Note(r)
  <2> DEFINE Keeps(new) ==
                 /\ new.status \in {rec[r].status, "exit_unconfirmed"}
                 /\ new.code \in {rec[r].code, Polled(r)}
                 /\ new.stop_reason = rec[r].stop_reason
                 /\ new.task_started = rec[r].task_started
  <2>1. PICK new \in Records, step \in {"note", "last"} :
            /\ Keeps(new) /\ Record(r, new) /\ Goto(r, step)
            /\ UNCHANGED <<World, disk>> /\ pc[r] \in {"reap", "note"}
    <3>1. Polled(r) \in Codes \cup {"none"} /\ "exit_unconfirmed" \in Statuses
      BY DEF Polled, Statuses
    <3>2. CASE Reap(r) /\ posix
      <4> DEFINE after == [rec[r] EXCEPT !.status =
                              IF Alive(r) THEN "exit_unconfirmed" ELSE @]
      <4>1. after \in Records /\ Keeps(after)
        BY <1>1, <3>1 DEF Records
      <4>2. /\ Record(r, after) /\ Goto(r, "note") /\ pc[r] = "reap"
            /\ UNCHANGED <<World, disk>>
        BY <3>2 DEF Reap
      <4> QED
        BY <4>1, <4>2
    <3>3. CASE Reap(r) /\ ~ posix
      <4> DEFINE after == [rec[r] EXCEPT !.code = Polled(r),
                               !.bySignal = ExitSeen(rec[r], Polled(r))]
      <4>1. ExitSeen(rec[r], Polled(r)) \in BOOLEAN
        BY <1>1 DEF ExitSeen, Records
      <4>2. after \in Records /\ Keeps(after)
        BY <1>1, <3>1, <4>1 DEF Records
      <4>3. /\ Record(r, after) /\ Goto(r, "note") /\ pc[r] = "reap"
            /\ UNCHANGED <<World, disk>>
        BY <3>3 DEF Reap
      <4> QED
        BY <4>2, <4>3
    <3>4. CASE Note(r)
      <4> DEFINE after == [rec[r] EXCEPT
                   !.code = Polled(r), !.finished = TRUE,
                   !.status = IF ~ posix /\ Alive(r) THEN "exit_unconfirmed"
                              ELSE @]
      <4>1. after \in Records /\ Keeps(after)
        BY <1>1, <3>1 DEF Records
      <4>2. /\ Record(r, after) /\ Goto(r, "last") /\ pc[r] = "note"
            /\ UNCHANGED <<World, disk>>
        BY <3>4 DEF Note
      <4> QED
        BY <4>1, <4>2
    <3> QED
      BY <1>1, <1>10, <3>2, <3>3, <3>4
  <2>2. rec'[r] = new /\ pc'[r] = step
    BY <1>3, <2>1 DEF Places, Steps
  <2>3. rec[r].code # "none" => Polled(r) = rec[r].code
    BY <1>1 DEF Polled, Records, Account, Codes
  <2>4. Course(pc'[r], rec'[r], stop', flags'[r], elapsed'[r])
    BY <1>1, <2>1, <2>2, <2>3
       DEF Course, BeforeStart, Watching, Ending, Doubtful
  <2> QED
    BY <1>3, <2>1, <2>2, <2>4 DEF Places, Steps
<1>11. CASE StepRaises(r)
  <2> DEFINE new == [rec[r] EXCEPT !.status = "supervisor_error"]
  <2>1. (rec[r] = NewRecord \/ rec[r] = Running) /\ ~ elapsed[r]
    BY <1>1, <1>2, <1>11, NoReason
       DEF StepRaises, Course, BeforeStart, Watching
  <2>2. /\ new \in Records /\ new.status = "supervisor_error"
        /\ new.stop_reason = None
    BY <1>2, <2>1 DEF Records, Statuses
  <2>3. PICK step \in {"note", "ask"} :
            Record(r, new) /\ Goto(r, step) /\ UNCHANGED <<World, disk>>
    BY <1>11 DEF StepRaises, Raises
  <2>4. rec'[r] = new /\ pc'[r] = step
    BY <1>3, <2>2, <2>3 DEF Places, Steps
  <2>5. Course(pc'[r], rec'[r], stop', flags'[r], elapsed'[r])
    BY <2>1, <2>2, <2>3, <2>4, NoReason
       DEF Course, BeforeStart, Watching, Doubtful
  <2> QED
    BY <1>3, <2>2, <2>3, <2>4, <2>5 DEF Places, Steps
<1> QED
  BY <1>4, <1>5, <1>5a, <1>6, <1>7, <1>8, <1>9, <1>10, <1>11
-----------------------------------------------------------------------------
\* The steps that write the file, or leave it in the middle of it: what is
\* written before the end is one of the two checkpoints.
LEMMA WritingCourse ==
    ASSUME IInv, Trail, NEW r \in Runs, UNCHANGED told,
           \/ Save0(r) \/ Save1(r) \/ SaveRaises(r) \/ Last(r) \/ LastFails(r)
           \/ EarlyInterrupt(r) \/ SupervisorDies(r)
    PROVE  /\ Course(pc'[r], rec'[r], stop', flags'[r], elapsed'[r]) /\ Kinds'
           /\ Others(r)
           /\ pc[r] # "reported"
           /\ UNCHANGED <<posix, child, stop, flags, late, elapsed>>
<1> USE DEF At, Goto, Record, World
<1>1. /\ rec[r] \in Records /\ disk \in Files
      /\ pc \in [Runs -> Places] /\ rec \in [Runs -> Records]
      /\ Account(pc[r], rec[r], child[r]) /\ Owns(r) /\ Kinds
      /\ disk.kind # "absent" => disk.by \in Runs
      /\ Course(pc[r], rec[r], stop, flags[r], elapsed[r])
  BY DEF IInv, TypeOK, Trail, FileInv
<1>2. /\ NewRecord.stop_reason = None /\ Running.stop_reason = None
      /\ NewRecord.status = "not_started" /\ Running.status = "running"
      /\ NewRecord.code = "none" /\ Running.code = "none"
      /\ NewRecord \in Records /\ Running \in Records
      /\ ~ NewRecord.finished /\ ~ Running.finished
  BY DEF NewRecord, Running, Records, Statuses, Reasons
<1>3. pc[r] \in {"save0", "save1"} =>
          rec[r] \in {NewRecord, Running} /\ ~ elapsed[r]
  BY <1>1, <1>2, NoReason DEF Course, BeforeStart, Watching
<1>4. pc[r] \in {"save0", "save1"} \/ rec[r].finished \/ disk' = disk
  BY <1>1 DEF Save0, Save1, SaveRaises, Last, LastFails, EarlyInterrupt,
              SupervisorDies, Account
<1>5. /\ disk' \in MaybeWritten(r)
      /\ pc[r] \in (Steps \ {"open"}) \cup Returned
      /\ pc[r] = "refused" => disk' = disk
      /\ pc'[r] # "idle" /\ \A s \in Runs \ {r} : pc'[s] = pc[s]
      /\ UNCHANGED <<posix, child, stop, flags, late, elapsed>>
      /\ \A s \in Runs \ {r} : rec'[s] = rec[s]
  BY <1>1 DEF Save0, Save1, SaveRaises, Raises, Last, LastFails, EarlyInterrupt,
              SupervisorDies, MaybeWritten, Steps, Returned
<1>6. pc[r] # "refused" => disk.by = r /\ disk.kind # "absent"
  BY <1>1, <1>5 DEF Owns, Owning, Steps, Returned
<1>7. /\ disk' # disk => disk'.by = r /\ disk'.kind # "absent"
      /\ disk'.kind = "record" => disk' = disk \/ disk' = Written(r)
  BY <1>1, <1>5, <1>6 DEF MaybeWritten, Written, Files
<1>8. Others(r)
  BY <1>5, <1>6, <1>7 DEF Others
<1>9. Kinds'
  <2>1. CASE disk' = disk
    BY <1>1, <1>5, <2>1 DEF Kinds
  <2>2. CASE disk' # disk
    <3>1. disk'.kind = "record" => disk'.rec = rec[r]
      BY <1>7, <2>2 DEF Written
    <3> QED
      BY <1>3, <1>4, <1>5, <1>7, <2>2, <3>1 DEF Kinds
  <2> QED
    BY <2>1, <2>2
<1>10. Course(pc'[r], rec'[r], stop', flags'[r], elapsed'[r])
  <2>1. CASE Save0(r) \/ EarlyInterrupt(r)
    <3>1. /\ rec[r] = NewRecord /\ ~ elapsed[r] /\ rec' = rec
          /\ pc'[r] \in {"prestop", "note"}
      BY <1>1, <1>3, <2>1 DEF Save0, EarlyInterrupt, Course, BeforeStart
    <3> QED
      BY <1>1, <1>2, <1>5, <3>1, NoReason DEF Course, BeforeStart, Watching
  <2>2. CASE Save1(r)
    <3>1. /\ rec[r] = Running /\ ~ elapsed[r] /\ rec' = rec
          /\ pc'[r] = "clock"
      BY <1>1, <1>3, <2>2 DEF Save1, Course, Watching
    <3> QED
      BY <1>1, <1>2, <1>5, <3>1, NoReason DEF Course, BeforeStart, Watching
  <2>3. CASE SaveRaises(r)
    <3>1. /\ pc'[r] \in {"note", "ask"} /\ ~ elapsed'[r]
          /\ rec'[r] = [rec[r] EXCEPT !.status = "supervisor_error"]
      BY <1>1, <1>3, <1>5, <2>3 DEF SaveRaises, Raises
    <3>2. rec'[r].status = "supervisor_error" /\ rec'[r].stop_reason = None
      BY <1>2, <1>3, <2>3, <3>1 DEF SaveRaises, Records
    <3> QED
      BY <3>1, <3>2, NoReason DEF Course, BeforeStart, Watching, Doubtful
  <2>4. CASE Last(r) \/ LastFails(r) \/ SupervisorDies(r)
    <3>1. rec' = rec
      BY <2>4 DEF Last, LastFails, SupervisorDies
    <3>2. \/ pc'[r] = "dead"
          \/ pc[r] = "last" /\ pc'[r] \in {"returned", "raised", "unsaved"}
      BY <1>1, <2>4 DEF Last, LastFails, SupervisorDies
    <3> QED
      BY <1>1, <1>5, <3>1, <3>2 DEF Course, BeforeStart, Watching, Ending
  <2> QED
    BY <2>1, <2>2, <2>3, <2>4
<1> QED
  BY <1>5, <1>8, <1>9, <1>10 DEF Steps, Returned

\* A path that is opened has nothing of a record in it.
LEMMA OpenCourse ==
    ASSUME IInv, Trail, NEW r \in Runs, UNCHANGED <<caller, told>>, Open(r)
    PROVE  Trail'
<1>1. /\ pc[r] = "open" /\ pc \in [Runs -> Places] /\ Kinds
      /\ Course(pc[r], rec[r], stop, flags[r], elapsed[r])
      /\ disk.kind # "absent" => disk.by \in Runs
  BY DEF IInv, TypeOK, Trail, FileInv, Open, At
<1>2. /\ UNCHANGED <<posix, child, stop, flags, late, elapsed, rec>>
      /\ pc'[r] \in {"save0", "refused"}
      /\ \A s \in Runs \ {r} : pc'[s] = pc[s]
      /\ \/ UNCHANGED disk
         \/ disk.kind = "absent" /\ disk'.kind = "partial" /\ disk'.by = r
  BY <1>1 DEF Open, World, Goto
<1>3. Others(r)
  BY <1>2 DEF Others
<1>4. Kinds'
  BY <1>1, <1>2 DEF Kinds
<1>5. Course(pc'[r], rec'[r], stop', flags'[r], elapsed'[r])
  BY <1>1, <1>2 DEF Course, BeforeStart, Watching, NewRecord
<1>6. Delivery(r)'
  BY <1>1, <1>2, NothingDelivered
<1> QED
  BY <1>2, <1>3, <1>4, <1>5, <1>6, TrailMoves

\* The world: exits, the stop file, the clock, signals.
LEMMA WorldCourse ==
    ASSUME IInv, Trail, NEW r \in Runs, UNCHANGED <<caller, told>>,
           ChildExits(r) \/ StopFileAppears \/ DeadlinePasses(r)
               \/ SignalNoted(r)
    PROVE  Trail'
<1>1. /\ pc[r] \in Places /\ Kinds /\ child \in [Runs -> Children]
      /\ flags \in [Runs -> BOOLEAN] /\ late \in [Runs -> BOOLEAN]
      /\ Delivery(r)
      /\ Course(pc[r], rec[r], stop, flags[r], elapsed[r])
  BY DEF IInv, TypeOK, Trail
<1>2. /\ UNCHANGED <<posix, pc, rec, disk, elapsed>> /\ (stop => stop')
      /\ \A s \in Runs \ {r} : /\ child'[s] = child[s] /\ flags'[s] = flags[s]
                               /\ late'[s] = late[s]
      /\ flags[r] => flags'[r]
      /\ late[r] => late'[r]
      /\ child'[r] = child[r] \/ child'[r] # "signal" \/ posix
  BY <1>1 DEF ChildExits, StopFileAppears, DeadlinePasses, SignalNoted
<1>3. Others(r) /\ Kinds'
  BY <1>1, <1>2 DEF Others, Kinds
<1>4. Course(pc'[r], rec'[r], stop', flags'[r], elapsed'[r])
  BY <1>1, <1>2 DEF Course, Watching, BeforeStart
<1>5. Delivery(r)'
  BY <1>1, <1>2 DEF Delivery, Written, ExitCode, Told
<1> QED
  BY <1>2, <1>3, <1>4, <1>5, TrailMoves

\* A report of a finalized receipt is given at the return of the supervisor.
LEMMA CallerCourse ==
    ASSUME IInv, Trail, NEW r \in Runs,
           Start(r) \/ Rejected(r) \/ Check(r) \/ CliReports(r)
               \/ ActionReports(r)
    PROVE  Trail'
<1>1. /\ pc \in [Runs -> Places] /\ told \in [Runs -> Reports] /\ Kinds
      /\ Account(pc[r], rec[r], child[r]) /\ ReportInv(r) /\ Delivery(r)
      /\ Course(pc[r], rec[r], stop, flags[r], elapsed[r])
      /\ disk.kind # "absent" => disk.by \in Runs
  BY DEF IInv, TypeOK, Trail, FileInv
<1> DEFINE Answer ==
           /\ UNCHANGED <<posix, child, stop, flags, late, elapsed, rec, disk,
                          caller>>
           /\ \A s \in Runs \ {r} : pc'[s] = pc[s] /\ told'[s] = told[s]
           /\ \/ /\ pc[r] \in {"idle", "check"} /\ pc'[r] \in {"open", "check"}
                 /\ told' = told
              \/ /\ pc[r] \in {"idle", "check", "refused", "returned",
                            "unsaved"}
                 /\ pc'[r] = "reported"
           /\ \/ told'[r] = told[r]
              \/ told'[r].receipt # "finalized"
              \/ /\ pc[r] = "returned"
                 /\ told'[r].receipt = "finalized"
                 /\ told'[r].task_started = Told(rec[r])
                 /\ told'[r].exit = IF caller[r] = "cli" THEN ExitCode(rec[r])
                                    ELSE IF rec[r].status = "completed" THEN 0
                                    ELSE 1
<1>2. Answer
  <2>1. ASSUME NEW step \in {"open", "check"}, Enter(r, step),
               pc[r] \in {"idle", "check"}
        PROVE  Answer
    BY <1>1, <2>1 DEF Enter, Goto, World
  <2>2. ASSUME NEW exit, NEW started, NEW receipt,
               Report(r, exit, started, receipt),
               pc[r] \in {"idle", "check", "refused", "returned", "unsaved"},
               \/ receipt # "finalized"
               \/ /\ pc[r] = "returned" /\ started = Told(rec[r])
                  /\ exit = IF caller[r] = "cli" THEN ExitCode(rec[r])
                            ELSE IF rec[r].status = "completed" THEN 0 ELSE 1
        PROVE  Answer
    <3>1. /\ UNCHANGED <<posix, child, stop, flags, late, elapsed, rec, disk,
                         caller>>
          /\ \A s \in Runs \ {r} : pc'[s] = pc[s] /\ told'[s] = told[s]
          /\ pc'[r] = "reported"
          /\ told'[r] = [exit |-> exit, task_started |-> started,
                         receipt |-> receipt]
      BY <1>1, <2>2 DEF Report, Goto, World
    <3> QED
      BY <2>2, <3>1
  <2> HIDE DEF Answer
  <2>3. CASE Start(r)
    BY <2>1, <2>3 DEF Start, At
  <2>4. CASE Rejected(r) \/ Check(r)
    <3>1. pc[r] \in {"idle", "check"}
      BY <2>4 DEF Rejected, Check, At
    <3>2. \/ Enter(r, "open")
          \/ Report(r, 2, "unknown", "nothing")
          \/ Report(r, 1, "false", "not_created")
          \/ Report(r, 1, "false", "nothing")
      BY <2>4 DEF Rejected, Check, CliRejects, StepRejects, ReportStep
    <3> QED
      BY <2>1, <2>2, <3>1, <3>2
  <2>5. CASE CliReports(r)
    <3>1. \/ /\ pc[r] = "returned" /\ caller[r] = "cli"
             /\ Report(r, ExitCode(rec[r]), Told(rec[r]), "finalized")
          \/ /\ pc[r] = "unsaved"
             /\ Report(r, 2, Told(rec[r]), "unconfirmed")
          \/ pc[r] = "refused" /\ Report(r, 2, "unknown", "nothing")
      BY <2>5 DEF CliReports, At
    <3> QED
      BY <2>2, <3>1
  <2>6. CASE ActionReports(r)
    <3>1. \/ /\ pc[r] = "returned" /\ caller[r] = "action"
             /\ Report(r, IF rec[r].status = "completed" THEN 0 ELSE 1,
                       Told(rec[r]), "finalized")
          \/ /\ pc[r] \in {"returned", "unsaved"}
             /\ Report(r, 1, Told(rec[r]), "nothing")
          \/ /\ pc[r] = "unsaved"
             /\ Report(r, 1, Told(rec[r]), "unconfirmed")
          \/ pc[r] = "refused" /\ Report(r, 1, "unknown", "unconfirmed")
          \/ pc[r] = "refused" /\ Report(r, 1, "unknown", "nothing")
      BY <2>6 DEF ActionReports, ReportStep, At
    <3> QED
      BY <2>2, <3>1
  <2> QED
    BY <2>3, <2>4, <2>5, <2>6
<1>3. Others(r)
  BY <1>2 DEF Others
<1>4. Kinds'
  BY <1>1, <1>2 DEF Kinds
<1>5. Course(pc'[r], rec'[r], stop', flags'[r], elapsed'[r])
  BY <1>1, <1>2 DEF Course, Watching, BeforeStart, Ending
<1>6. Delivery(r)'
  <2>1. pc[r] = "returned" => disk = Written(r) /\ rec[r].finished
    BY <1>1 DEF Account, ReportInv, At
  <2> QED
    BY <1>1, <1>2, <2>1 DEF Delivery, Written, ExitCode, Told
<1> QED
  BY <1>2, <1>3, <1>4, <1>5, <1>6, TrailMoves

LEMMA NextTrail == IInv /\ Trail /\ [Next]_vars => Trail'
<1> SUFFICES ASSUME IInv, Trail, [Next]_vars PROVE Trail'
  OBVIOUS
<1>1. ASSUME NEW r \in Runs, Supervise(r), UNCHANGED <<caller, told>>
      PROVE  Trail'
  <2>1. CASE Open(r)
    BY <1>1, <2>1, OpenCourse
  <2>2. CASE Save0(r) \/ Save1(r) \/ SaveRaises(r) \/ Last(r) \/ LastFails(r)
    BY <1>1, <2>2, WritingCourse, NothingDelivered, TrailMoves
  <2>3. CASE ~ Open(r) /\ ~ (Save0(r) \/ Save1(r) \/ SaveRaises(r) \/ Last(r)
                             \/ LastFails(r))
    <3>1. /\ Course(pc'[r], rec'[r], stop', flags'[r], elapsed'[r])
          /\ pc'[r] \notin {"idle", "reported"}
          /\ UNCHANGED <<posix, disk, stop, flags, late>>
          /\ \A s \in Runs \ {r} : /\ pc'[s] = pc[s] /\ rec'[s] = rec[s]
                                   /\ child'[s] = child[s]
                                   /\ elapsed'[s] = elapsed[s]
          /\ elapsed'[r] \in {elapsed[r], late[r]}
          /\ child' = child \/ child'[r] = "alive"
      BY <1>1, <2>3, QuietCourse DEF Supervise
    <3>2. Others(r) /\ Kinds'
      BY <1>1, <3>1, KindsSame DEF Others
    <3>3. told[r].receipt # "finalized"
      <4>1. pc[r] # "reported"
        BY <1>1 DEF Supervise, Open, Save0, Prestop, Spawn, Save1, ReadClock,
           Poll, StopCheck, Ask, Grace, Settle, Cleanup, Reap, Note, Last,
           LastFails, SaveRaises, StepRaises, At
      <4> QED
        BY <4>1 DEF IInv, ReportInv, At, Silence
    <3>4. Delivery(r)'
      BY <1>1, <3>1, <3>3 DEF Delivery, Trail
    <3> QED
      BY <1>1, <3>1, <3>2, <3>4, TrailMoves
  <2> QED
    BY <2>1, <2>2, <2>3
<1>2. ASSUME NEW r \in Runs, SupWorld(r), UNCHANGED <<caller, told>>
      PROVE  Trail'
  BY <1>2, WorldCourse, WritingCourse, NothingDelivered, TrailMoves
     DEF SupWorld
<1>3. ASSUME NEW r \in Runs,
             Start(r) \/ Rejected(r) \/ Check(r) \/ CliReports(r)
                 \/ ActionReports(r)
      PROVE  Trail'
  BY <1>3, CallerCourse
<1>4. CASE UNCHANGED vars
  BY <1>4 DEF vars, supVars, Trail, Kinds, Delivery, Course, Written, ExitCode,
              Told
<1> QED
  BY <1>1, <1>2, <1>3, <1>4 DEF Next, Step
-----------------------------------------------------------------------------
\* What a readable receipt says is so: of a checkpoint that it is never ahead
\* of the child, of a finished one that it is right about the start both ways,
\* about the exit, and about the deadline - its reason exactly if the loop has
\* read the clock after it.
THEOREM ReceiptTrue == Spec => []ReceiptIsTrue
<1>1. IInv /\ Trail => ReceiptIsTrue
  <2> SUFFICES ASSUME IInv, Trail, disk.kind = "record" PROVE ReceiptIsTrue
    BY DEF ReceiptIsTrue
  <2>1. /\ disk.by \in Runs /\ FileInv /\ rec[disk.by] \in Records
        /\ Account(pc[disk.by], rec[disk.by], child[disk.by])
        /\ Course(pc[disk.by], rec[disk.by], stop, flags[disk.by],
                  elapsed[disk.by])
        /\ Delivery(disk.by)
    BY DEF IInv, FileInv, TypeOK, Trail
  <2>2. ASSUME disk.rec.finished
        PROVE  /\ elapsed[disk.by] <=> disk.rec.stop_reason = Deadline
               /\ elapsed[disk.by] =>
                      /\ late[disk.by]
                      /\ disk.rec.status \in {"deadline_reached",
                                             "exit_unconfirmed"}
    <3>1. disk.rec = rec[disk.by] /\ ~ Running.finished
      BY <2>1, <2>2 DEF FileInv, Running, NewRecord
    <3> QED
      BY <2>1, <2>2, <3>1 DEF Course, Delivery
  <2> QED
    BY <2>1, <2>2 DEF ReceiptIsTrue, FileInv, Account, Records, Deadline
<1> QED
  BY <1>1, InitIInv, NextIInv, InitTrail, NextTrail, PTL DEF Spec

\* The exit codes 0, 124 and 130 are those of a finished receipt of that run
\* with the status that they stand for: 0 of a child that exited 0, first seen
\* in a round whose clock reading was before the deadline, 124 of a deadline
\* that has passed, 130 of a stop seen before it, both of a child that is gone.
THEOREM ExitCodeTrue == Spec => []ExitCodeIsTrue
<1>1. IInv /\ Trail => ExitCodeIsTrue
  <2> SUFFICES ASSUME IInv, Trail, NEW r \in Runs, told[r].exit \in Verdicts
               PROVE  /\ disk = Written(r) /\ disk.rec.finished
                      /\ told[r].exit = 0 =>
                             /\ disk.rec.status = "completed"
                             /\ child[r] = "zero" /\ ~ elapsed[r]
                      /\ told[r].exit = 124 =>
                             /\ disk.rec.status = "deadline_reached"
                             /\ child[r] \in Codes /\ elapsed[r] /\ late[r]
                      /\ told[r].exit = 130 =>
                             /\ disk.rec.status \in
                                    {"interrupted",
                                     "finished_after_stop_request"}
                             /\ child[r] \in Codes /\ StopSeen(r)
                             /\ ~ elapsed[r]
    BY DEF ExitCodeIsTrue, Verdicts
  <2>1. /\ ReportInv(r) /\ Account(pc[r], rec[r], child[r])
        /\ Course(pc[r], rec[r], stop, flags[r], elapsed[r])
        /\ Delivery(r) /\ rec[r] \in Records
    BY DEF IInv, TypeOK, Trail
  <2>2. /\ disk = Written(r) /\ disk.rec = rec[r] /\ rec[r].finished
        /\ rec[r].status \in Means(told[r].exit)
    BY <2>1 DEF ReportInv, Written
  <2>3. CASE told[r].exit = 0
    <3>1. rec[r].status = "completed"
      BY <2>2, <2>3 DEF Means
    <3>2. child[r] = "zero"
      BY <2>1, <3>1 DEF Account
    <3>3. ~ elapsed[r]
      BY <2>1, <3>1 DEF Course, Running, NewRecord
    <3> QED
      BY <2>2, <2>3, <3>1, <3>2, <3>3
  <2>4. CASE told[r].exit = 124
    <3>1. rec[r].status = "deadline_reached"
      BY <2>2, <2>4 DEF Means
    <3>2. child[r] \in Codes
      BY <2>1, <2>2, <3>1 DEF Account, Records
    <3>3. elapsed[r] /\ late[r]
      BY <2>1, <3>1 DEF Course, Delivery
    <3> QED
      BY <2>2, <2>4, <3>1, <3>2, <3>3
  <2>5. CASE told[r].exit = 130
    <3>1. rec[r].status \in {"interrupted", "finished_after_stop_request"}
      BY <2>2, <2>5 DEF Means
    <3>2. child[r] \in Codes
      BY <2>1, <2>2, <3>1 DEF Account, Records
    <3>3. StopSeen(r) /\ ~ elapsed[r]
      BY <2>1, <3>1
         DEF Course, StopSeen, Running, NewRecord, Stops, Deadline
    <3> QED
      BY <2>2, <2>5, <3>1, <3>2, <3>3
  <2> QED
    BY <2>3, <2>4, <2>5 DEF Verdicts
<1> QED
  BY <1>1, InitIInv, NextIInv, InitTrail, NextTrail, PTL DEF Spec
-----------------------------------------------------------------------------
\* On a path of its own, the receipt is the run's record at its end, or one of
\* the checkpoints.
LEMMA OwnReceipt ==
    ASSUME IInv, Trail, NEW r \in Runs, OwnPath(r)
    PROVE  Readable => \/ Receipt = rec[r] /\ Receipt.finished
                       \/ /\ ~ Receipt.finished /\ Receipt.code = "none"
                          /\ Receipt.status \in {"not_started", "running"}
<1> SUFFICES ASSUME Readable
             PROVE  \/ Receipt = rec[r] /\ Receipt.finished
                    \/ /\ ~ Receipt.finished /\ Receipt.code = "none"
                       /\ Receipt.status \in {"not_started", "running"}
  OBVIOUS
<1>1. disk.by \in Runs /\ disk.kind = "record"
  BY DEF Readable, IInv, FileInv
<1>2. disk.by = r
  BY <1>1 DEF Trail, Kinds, OwnPath
<1>3. CASE disk.rec.finished
  BY <1>1, <1>2, <1>3 DEF IInv, FileInv, Receipt
<1>4. CASE ~ disk.rec.finished
  <2>1. disk.rec \in {NewRecord, Running}
    BY <1>1, <1>4 DEF Trail, Kinds
  <2>2. /\ NewRecord.code = "none" /\ NewRecord.status = "not_started"
        /\ Running.code = "none" /\ Running.status = "running"
    BY DEF NewRecord, Running
  <2> QED
    BY <1>4, <2>1, <2>2 DEF Receipt
<1> QED
  BY <1>3, <1>4

\* What an accepted case shows is so.
LEMMA ShownIsSo ==
    ASSUME IInv, Trail, NEW r \in Runs, OwnPath(r), NEW m \in LeftBy(r)
    PROVE  Shows(r, m)
<1>1. /\ rec[r] \in Records /\ child[r] \in Children
      /\ Account(pc[r], rec[r], child[r]) /\ Owns(r) /\ ReportInv(r)
      /\ Course(pc[r], rec[r], stop, flags[r], elapsed[r]) /\ Delivery(r)
  BY DEF IInv, TypeOK, Trail
<1>2. m.done => m.began
  BY DEF LeftBy
<1>3. /\ rec[r].code # "none" => child[r] = rec[r].code
      /\ rec[r].status = "completed" => child[r] = "zero"
      /\ rec[r].task_started <=> child[r] # "none"
      /\ rec[r].status = "deadline_reached" => elapsed[r] /\ late[r]
      /\ rec[r].status \in {"completed", "failed"} => ~ elapsed[r]
      /\ rec[r].status \in {"interrupted", "finished_after_stop_request"} =>
             StopSeen(r)
      /\ rec[r].stop_reason = "stop_file" => stop
      /\ rec[r].status = "interrupted" => child[r] = "signal"
  BY <1>1 DEF Account, Course, StopSeen, Records, Codes, Delivery, Running,
              NewRecord
<1>4. child[r] = "zero" => m.done
  BY DEF LeftBy
<1>5. told[r].exit = 0 => child[r] = "zero" /\ ~ elapsed[r]
  BY <1>1, <1>3 DEF ReportInv, Verdicts, Means
<1>6. ASSUME \/ Installed(r, m, "normal") \/ PortableJob(r, m) \/ Public(r, m)
             \/ InstalledJob(r, m) \/ Ordinary(r, m)
             \/ StepCase(r, m, "normal") \/ Demo(r, m, FALSE)
      PROVE  child[r] = "zero" /\ ~ elapsed[r]
  <2>1. CASE \/ Installed(r, m, "normal") \/ PortableJob(r, m) \/ Public(r, m)
             \/ InstalledJob(r, m) \/ Ordinary(r, m)
    BY <1>5, <2>1 DEF Installed, PortableJob, Public, InstalledJob, Ordinary,
                      Exited
  <2>2. CASE StepCase(r, m, "normal") \/ Demo(r, m, FALSE)
    BY <1>3, <2>2 DEF StepCase, StepRow, StepStatus, Demo
  <2> QED
    BY <1>6, <2>1, <2>2
<1>7. ASSUME \/ Installed(r, m, "nonzero") \/ StepCase(r, m, "nonzero")
             \/ FirstWheel(r, m, "failed")
      PROVE  child[r] = "nonzero" /\ ~ elapsed[r]
  <2>1. CASE Installed(r, m, "nonzero") \/ FirstWheel(r, m, "failed")
    BY <1>3, <2>1, OwnReceipt DEF Installed, FirstWheel
  <2>2. CASE StepCase(r, m, "nonzero")
    BY <1>3, <2>2 DEF StepCase, StepRow, StepCode, StepStatus
  <2> QED
    BY <1>7, <2>1, <2>2
<1>8. ASSUME \/ Installed(r, m, "prestop") \/ StepCase(r, m, "prestop")
             \/ StepCase(r, m, "collision")
             \/ FirstWheel(r, m, "stopped") /\ Receipt.finished
             \/ Refused(r, m) \/ Missing(r)
      PROVE  child[r] = "none"
  <2>1. CASE \/ Installed(r, m, "prestop") \/ Missing(r)
             \/ FirstWheel(r, m, "stopped") /\ Receipt.finished
    BY <1>3, <2>1, OwnReceipt DEF Installed, FirstWheel, Missing
  <2>2. CASE StepCase(r, m, "prestop") \/ StepCase(r, m, "collision")
    BY <1>1, <2>2 DEF StepCase, StepRow, ReportInv
  <2>3. CASE Refused(r, m)
    BY <1>1, <2>3 DEF Refused, Owns
  <2> QED
    BY <1>8, <2>1, <2>2, <2>3
<1>9. ASSUME Installed(r, m, "deadline") \/ StepCase(r, m, "deadline")
      PROVE  elapsed[r] /\ late[r] /\ child[r] \in Codes
  <2>1. CASE Installed(r, m, "deadline")
    <3>1. /\ Readable /\ Receipt.finished /\ Receipt.code # "none"
          /\ Receipt.status = "deadline_reached"
      BY <2>1 DEF Installed, Observed
    <3>2. rec[r].code # "none" /\ rec[r].status = "deadline_reached"
      BY <3>1, OwnReceipt
    <3> QED
      BY <1>1, <1>3, <3>2 DEF Records
  <2>2. CASE StepCase(r, m, "deadline")
    <3>1. rec[r].status = "deadline_reached" /\ rec[r].code \in Codes
      BY <2>2 DEF StepCase, StepRow, StepStatus, StepCode
    <3> QED
      BY <1>3, <3>1 DEF Codes
  <2> QED
    BY <1>9, <2>1, <2>2
<1>10. ASSUME NEW asked, asked = IF posix THEN "signal" ELSE "nonzero",
              ~ m.done, rec[r].code # "none",
              rec[r].status = IF posix THEN "interrupted"
                              ELSE "finished_after_stop_request"
       PROVE  StopSeen(r) /\ child[r] = asked
  <2>1. StopSeen(r) /\ child[r] \in Codes /\ child[r] # "zero"
    BY <1>1, <1>3, <1>4, <1>10 DEF Records
  <2> QED
    BY <1>1, <1>3, <1>10, <2>1 DEF Codes, Delivery
<1>11. ASSUME NEW asked, asked = IF posix THEN "signal" ELSE "nonzero",
              InstalledStop(r, m)
       PROVE  stop /\ child[r] = asked
  <2>1. Receipt = rec[r]
    BY <1>11, OwnReceipt DEF InstalledStop, Observed
  <2> QED
    BY <1>3, <1>10, <1>11, <2>1 DEF InstalledStop, Observed
<1>12. ASSUME NEW asked, asked = IF posix THEN "signal" ELSE "nonzero",
              PublicStop(r, m) \/ Demo(r, m, TRUE)
       PROVE  StopSeen(r) /\ child[r] = asked
  <2>1. CASE PublicStop(r, m)
    <3>1. Receipt = rec[r]
      BY <2>1, OwnReceipt DEF PublicStop, Observed
    <3> QED
      BY <1>10, <1>12, <2>1, <3>1 DEF PublicStop, Observed
  <2>2. CASE Demo(r, m, TRUE)
    BY <1>3, <1>12, <2>2 DEF Demo
  <2> QED
    BY <1>12, <2>1, <2>2
<1>13. ASSUME NEW code \in Codes, Upgraded(r, m, code)
       PROVE  child[r] = code
  BY <1>3, <1>13 DEF Upgraded, Codes
<1> QED
  BY <1>6, <1>7, <1>8, <1>9, <1>11, <1>12, <1>13 DEF Shows

\* A run that is what a case is about, and was not disturbed, is accepted.
LEMMA QuietIsPassed ==
    ASSUME IInv, Trail, NEW r \in Runs
    PROVE  Passes(r)
<1> SUFFICES ASSUME Quiet(r) PROVE Passes(r)
  BY DEF Passes
<1>1. /\ rec[r] \in Records /\ child[r] \in Children
      /\ Account(pc[r], rec[r], child[r]) /\ ReportInv(r)
      /\ Course(pc[r], rec[r], stop, flags[r], elapsed[r]) /\ Delivery(r)
      /\ caller[r] \in {"cli", "action"}
  BY DEF IInv, TypeOK, Trail
<1>2. /\ told[r].receipt = "finalized" /\ ~ flags[r]
      /\ rec[r].status \notin Doubtful /\ rec[r].finished
      /\ disk = Written(r) /\ told[r].task_started = Told(rec[r])
      /\ told[r].exit = IF caller[r] = "cli" THEN ExitCode(rec[r])
                        ELSE IF rec[r].status = "completed" THEN 0 ELSE 1
      /\ pc[r] = "reported"
  <2>1. told[r].receipt = "finalized"
    BY DEF Quiet
  <2> QED
    BY <1>1, <2>1 DEF Quiet, Doubtful, Delivery, ReportInv, At, Silence
<1>3. Readable /\ Receipt = rec[r]
  BY <1>2 DEF Written, Readable, Receipt
<1>4. /\ rec[r].code = IF child[r] \in Codes THEN child[r] ELSE "none"
      /\ rec[r].task_started <=> child[r] # "none"
      /\ child[r] # "none" => rec[r].code # "none"
  BY <1>1, <1>2 DEF Account, Records, Codes, Doubtful
<1>5. ~ stop => rec[r].status \in {"not_started", "completed", "failed",
                                   "deadline_reached"}
  BY <1>1, <1>2 DEF Course, Records, Statuses, Watching, Ending, Doubtful
<1>6. ASSUME child[r] = "zero", ~ stop, ~ elapsed[r]
      PROVE  rec[r].status = "completed"
  BY <1>1, <1>4, <1>5, <1>6 DEF Course, Codes
<1>7. ASSUME child[r] = "nonzero", ~ stop, ~ elapsed[r]
      PROVE  rec[r].status = "failed"
  BY <1>1, <1>4, <1>5, <1>7 DEF Course, Account, Codes
<1>8. ASSUME child[r] = "none"
      PROVE  rec[r].status = "not_started"
  BY <1>1, <1>2, <1>4, <1>8
     DEF Course, Account, Codes, Records, Statuses, Doubtful
<1>9. ASSUME elapsed[r]
      PROVE  rec[r].status = "deadline_reached" /\ rec[r].code \in Codes
  <2>1. rec[r].stop_reason = Deadline
    BY <1>1, <1>2, <1>9 DEF Course
  <2>2. rec[r].status = "deadline_reached"
    BY <1>1, <1>2, <2>1 DEF Course, Ending, Doubtful
  <2> QED
    BY <1>1, <1>4, <2>2 DEF Account, Records
<1> DEFINE end == [began |-> TRUE, done |-> TRUE]
           mark == [began |-> TRUE, done |-> FALSE]
           none == [began |-> FALSE, done |-> FALSE]
<1> HIDE DEF Receipt, Readable
<1>10. ASSUME child[r] = "zero", ~ stop, ~ elapsed[r]
       PROVE  IF caller[r] = "cli"
              THEN /\ Installed(r, end, "normal") /\ Public(r, end)
                   /\ Ordinary(r, end)
                   /\ posix => InstalledJob(r, end)
              ELSE StepCase(r, end, "normal")
  <2>1. CASE caller[r] = "cli"
    BY <1>2, <1>3, <1>4, <1>6, <1>10, <2>1
       DEF Installed, Public, Ordinary, InstalledJob, PortableJob, Exited,
           ExitCode, Observed, Codes
  <2>2. CASE caller[r] = "action"
    BY <1>2, <1>3, <1>4, <1>6, <1>10, <2>2
       DEF StepCase, StepRow, StepStatus, StepCode, Delivered, Told, Codes
  <2> QED
    BY <1>1, <2>1, <2>2
<1>11. ASSUME child[r] = "nonzero", ~ stop, ~ elapsed[r]
       PROVE  IF caller[r] = "cli" THEN Installed(r, mark, "nonzero")
              ELSE StepCase(r, mark, "nonzero")
  <2>1. CASE caller[r] = "cli"
    BY <1>2, <1>3, <1>4, <1>7, <1>11, <2>1
       DEF Installed, Exited, ExitCode, Codes
  <2>2. CASE caller[r] = "action"
    BY <1>2, <1>3, <1>4, <1>7, <1>11, <2>2
       DEF StepCase, StepRow, StepStatus, StepCode, Delivered, Told, Codes
  <2> QED
    BY <1>1, <2>1, <2>2
<1>12. ASSUME child[r] = "none"
       PROVE  IF caller[r] = "cli" THEN Installed(r, none, "prestop")
              ELSE StepCase(r, none, "prestop")
  <2>1. CASE caller[r] = "cli"
    BY <1>2, <1>3, <1>4, <1>8, <1>12, <2>1
       DEF Installed, Exited, ExitCode, Codes
  <2>2. CASE caller[r] = "action"
    BY <1>2, <1>3, <1>4, <1>8, <1>12, <2>2
       DEF StepCase, StepRow, StepStatus, StepCode, Delivered, Told, Codes
  <2> QED
    BY <1>1, <2>1, <2>2
<1>13. ASSUME elapsed[r]
       PROVE  IF caller[r] = "cli" THEN Installed(r, mark, "deadline")
              ELSE StepCase(r, mark, "deadline")
  <2>0. child[r] # "none"
    BY <1>1, <1>9, <1>13 DEF Account
  <2>1. CASE caller[r] = "cli"
    BY <1>2, <1>3, <1>9, <1>13, <2>1
       DEF Installed, Exited, ExitCode, Observed, Codes
  <2>2. CASE caller[r] = "action"
    BY <1>2, <1>3, <1>4, <1>9, <1>13, <2>0, <2>2
       DEF StepCase, StepRow, StepStatus, StepCode, Delivered, Told
  <2> QED
    BY <1>1, <2>1, <2>2
<1> QED
  BY <1>10, <1>11, <1>12, <1>13 DEF Passes

\* A wheel is called verified for what it did: verify_portable_install,
\* verify_install, consume, consumer, ci_check and the demo take no run for a
\* case it is not, and reject none that is the case and was not disturbed; a
\* second run on a receipt that exists begins nothing and changes no byte.
THEOREM ChecksTrue == Spec => []ChecksAreTrue
<1>1. IInv /\ Trail => ChecksAreTrue
  <2> SUFFICES ASSUME IInv, Trail, NEW r \in Runs
               PROVE  /\ OwnPath(r) => /\ \A m \in LeftBy(r) : Shows(r, m)
                                       /\ Passes(r)
                      /\ \A s \in Runs \ {r}, m \in LeftBy(r) :
                             Kept(r, s, m) => child[r] = "none"
                      /\ \A s \in Runs \ {r} :
                             /\ told[s].receipt = "finalized"
                             /\ Exited(r, 2) /\ pc[r] = "reported"
                             /\ child[r] = "none"
                             => Kept(r, s, [began |-> FALSE, done |-> FALSE])
    BY DEF ChecksAreTrue
  <2>1. ASSUME OwnPath(r)
        PROVE  /\ \A m \in LeftBy(r) : Shows(r, m)
               /\ Passes(r)
    BY <2>1, ShownIsSo, QuietIsPassed
  <2>2. ASSUME NEW s \in Runs \ {r}, NEW m \in LeftBy(r), Kept(r, s, m)
        PROVE  child[r] = "none"
    BY <2>2 DEF Kept, Written, IInv, Owns
  <2>3. ASSUME NEW s \in Runs \ {r}, told[s].receipt = "finalized",
               Exited(r, 2)
        PROVE  Kept(r, s, [began |-> FALSE, done |-> FALSE])
    <3>1. disk = Written(s)
      BY <2>3 DEF Trail, Delivery
    <3>2. told[s] # Silence
      BY <2>3 DEF Silence
    <3> QED
      BY <2>3, <3>1, <3>2 DEF Kept
  <2> QED
    BY <2>1, <2>2, <2>3
<1> QED
  BY <1>1, InitIInv, NextIInv, InitTrail, NextTrail, PTL DEF Spec
=============================================================================
