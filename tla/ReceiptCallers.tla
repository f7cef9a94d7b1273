--------------------------- MODULE ReceiptCallers ---------------------------
(***************************************************************************)
(* Who calls the process-receipt supervisor and what they say of it: the   *)
(* command lines (main of process_receipt.py and process_receipt_cli.py)   *)
(* and the workflow step (actions/process-receipt/run_action.py).  All     *)
(* invocations share one receipt path.                                     *)
(***************************************************************************)
EXTENDS ProcessReceipt

\* None is also the exit code that there is not.
ASSUME CallersAssumption == None \notin Nat

VARIABLES
    caller,     \* run -> "cli" or "action"
    told        \* run -> what its caller reported

vars == <<supVars, caller, told>>

\* A report: the exit code, what it says of the start of the child, and of the
\* receipt.  The rest of what it prints is the record of the run; with
\* "nothing" there is no record in it, or it has not been delivered.
Silence == [exit |-> None, task_started |-> "unknown", receipt |-> "nothing"]

Init ==
    /\ SupInit("idle")
    /\ caller \in [Runs -> {"cli", "action"}]
    /\ told = [r \in Runs |-> Silence]

-----------------------------------------------------------------------------
Report(r, exit, started, receipt) ==
    /\ told' = [told EXCEPT ![r] = [exit |-> exit, task_started |-> started,
                                    receipt |-> receipt]]
    /\ Goto(r, "reported")
    /\ UNCHANGED <<World, rec, disk, handlers, caller>>

Enter(r, step) ==
    /\ Goto(r, step)
    /\ UNCHANGED <<World, rec, disk, handlers, caller, told>>

\* The step has two output channels, and each can fail on its own.
ReportStep(r, exit, started, receipt) ==
    \/ Report(r, exit, started, receipt)
    \/ Report(r, 1, started, "nothing")

\* Arguments that the parser, the backend or parse_inputs rejects, a wheel
\* that is not the pinned one: nothing is opened.
CliRejects(r) == caller[r] = "cli" /\ Report(r, 2, "unknown", "nothing")
StepRejects(r) ==
    caller[r] = "action" /\ ReportStep(r, 1, "false", "not_created")

Rejected(r) == At(r, "idle") /\ (CliRejects(r) \/ StepRejects(r))

Start(r) ==
    /\ At(r, "idle")
    /\ Enter(r, IF caller[r] = "cli" THEN "open" ELSE "check")

\* execute looks for the receipt itself, before the supervisor opens it.
Check(r) ==
    /\ At(r, "check")
    /\ IF disk.kind = "absent" THEN Enter(r, "open")
       ELSE ReportStep(r, 1, "false", "not_created")

\* Variant: the answer is read back from the receipt.
ToldByReceipt(record) ==
    IF disk.rec.task_started THEN "true" ELSE "false"

Told(record) == IF record.task_started THEN "true" ELSE "false"

ExitCode(record) ==
    CASE record.status = "completed" -> 0
      [] record.status = "deadline_reached" -> 124
      [] record.status = "interrupted" -> 130
      [] record.status = "finished_after_stop_request" /\ ~ posix
         /\ record.bySignal -> 130
      [] OTHER -> 2

\* The command line: a failed final save is exit 2 whatever the child did.
CliReports(r) ==
    /\ caller[r] = "cli"
    /\ \/ /\ At(r, "returned")
          /\ Report(r, ExitCode(rec[r]), Told(rec[r]), "finalized")
       \/ At(r, "unsaved") /\ Report(r, 2, Told(rec[r]), "unconfirmed")
       \/ At(r, "refused") /\ Report(r, 2, "unknown", "nothing")

\* The step: a receipt that appeared after the check is an adapter error,
\* which says nothing of the child.
ActionReports(r) ==
    /\ caller[r] = "action"
    /\ \/ /\ At(r, "returned")
          /\ ReportStep(r, IF rec[r].status = "completed" THEN 0 ELSE 1,
                        Told(rec[r]), "finalized")
       \/ At(r, "unsaved") /\ ReportStep(r, 1, Told(rec[r]), "unconfirmed")
       \/ At(r, "refused") /\ ReportStep(r, 1, "unknown", "unconfirmed")

Step(r) ==
    \/ Supervise(r) /\ UNCHANGED <<caller, told>>
    \/ Check(r) \/ CliReports(r) \/ ActionReports(r)

Next ==
    \E r \in Runs :
        \/ Step(r) \/ Rejected(r) \/ Start(r)
        \/ SupWorld(r) /\ UNCHANGED <<caller, told>>

Spec == Init /\ [][Next]_vars

\* A supervisor that lives goes on.  Nothing is promised of the child, of the
\* deadline, of signals, or of a run that was never started.
FairSpec == Spec /\ \A r \in Runs : WF_vars(Step(r))
-----------------------------------------------------------------------------
\* One receipt path is one execution: of all invocations given the path, at
\* most one ever starts its child, whatever dies, fails or races.
OneLaunch ==
    \A r, s \in Runs : child[r] # "none" /\ child[s] # "none" => r = s

\* What a readable receipt says is so.  A checkpoint never claims a start that
\* did not happen.  A finished receipt is right about the start both ways and
\* about the exit, tells success and signal apart, and says exit_unconfirmed
\* when the child may still be running.  It gives the deadline as the reason
\* exactly if the loop has read the clock after it: then the deadline has
\* passed, and an exit that was seen only now is not certified.
ReceiptIsTrue ==
    LET r == disk.by IN
    disk.kind = "record" =>
        /\ disk.rec.task_started => child[r] # "none"
        /\ disk.rec.finished =>
               /\ disk.rec.task_started = (child[r] # "none")
               /\ disk.rec.code # "none" => child[r] = disk.rec.code
               /\ disk.rec.task_started /\ disk.rec.code = "none" =>
                      disk.rec.status = "exit_unconfirmed"
               /\ disk.rec.status = "completed" => disk.rec.code = "zero"
               /\ disk.rec.status = "interrupted" =>
                      disk.rec.code = "signal" /\ disk.rec.asked
               /\ elapsed[r] <=> disk.rec.stop_reason =
                                 "deadline_before_exit_confirmation"
               /\ elapsed[r] => /\ late[r]
                                /\ disk.rec.status \in {"deadline_reached",
                                                       "exit_unconfirmed"}

\* No caller says that a child was not started when it was, although the
\* receipt, its final save, or the outputs may all have failed; and none says
\* that it was when it was not.
NeverDeniesExecution ==
    \A r \in Runs :
        /\ told[r].task_started = "false" => child[r] = "none"
        /\ told[r].task_started = "true" => child[r] # "none"

\* An exit code that is a verdict rests on the finished receipt of that very
\* run, which says the same, and on the child: 0 is an exit 0, first seen in a
\* round of the loop whose clock reading was before the deadline; 124 is a
\* deadline that has passed, and 130 a stop that was seen before it, each with
\* a child that is gone.
ExitCodeIsTrue ==
    \A r \in Runs : told[r].exit \in {0, 124, 130} =>
        /\ disk = Written(r) /\ disk.rec.finished
        /\ told[r].exit = 0 =>
               /\ disk.rec.status = "completed"
               /\ child[r] = "zero" /\ ~ elapsed[r]
        /\ told[r].exit = 124 =>
               /\ disk.rec.status = "deadline_reached"
               /\ child[r] \in Codes /\ elapsed[r] /\ late[r]
        /\ told[r].exit = 130 =>
               /\ disk.rec.status \in {"interrupted",
                                      "finished_after_stop_request"}
               /\ child[r] \in Codes /\ StopSeen(r) /\ ~ elapsed[r]

\* A stop ends the run, and so does the deadline: once the stop file exists, a
\* signal was noted or the deadline has passed, the supervisor comes to its end
\* although the child never exits - also when the stop falls between the check
\* before the start and the first poll, the deadline between two looks at the
\* clock, or the receipt can no longer be written.
StopEndsRun ==
    \A r \in Runs :
        pc[r] \in Steps /\ (StopSeen(r) \/ late[r]) ~>
            pc[r] \in {"raised", "dead", "reported"}
=============================================================================
