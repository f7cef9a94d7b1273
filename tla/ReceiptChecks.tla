---------------------------- MODULE ReceiptChecks ----------------------------
(***************************************************************************)
(* Who believes the receipts: the programs that install a released wheel   *)
(* or use the published step, make it supervise inert workers, and call    *)
(* the release verified if exit code, report, receipt and the files that   *)
(* the worker left agree with what the case is to show.                    *)
(*                                                                         *)
(*   installed  tools/process-receipt/verify_portable_install.py and       *)
(*              verify_install.py                                          *)
(*   public     releases/process-receipt-v0.2.0a1/consume.py               *)
(*   upgraded   releases/process-receipt-v0.2.0a2/consumer.py              *)
(*   step       actions/process-receipt/ci_check.py                        *)
(*   demo       tools/process-receipt/demo.py                              *)
(*                                                                         *)
(* A check knows nothing of the run but these.  A worker makes a mark when *)
(* it begins (READY, the marker, the file that must not exist) and one     *)
(* when it has done its work (the output, DONE); only then does it exit 0. *)
(***************************************************************************)
EXTENDS ReceiptCallers

Marks == [began : BOOLEAN, done : BOOLEAN]

\* The marks that the worker of r can have left.
LeftBy(r) ==
    {m \in Marks : /\ m.done => m.began
                   /\ m.began => child[r] # "none"
                   /\ child[r] = "zero" => m.done}

Exited(r, code) == caller[r] = "cli" /\ told[r].exit = code
Readable == disk.kind = "record"
Receipt == disk.rec
Observed == Receipt.code # "none"
-----------------------------------------------------------------------------
\* verify_portable_install: a case that ends with a finished receipt.
Installed(r, m, case) ==
    /\ Readable /\ Receipt.finished
    /\ CASE case = "normal" ->
              /\ Exited(r, 0) /\ Receipt.status = "completed"
              /\ Receipt.code = "zero" /\ m.done
         [] case = "nonzero" ->
              /\ Exited(r, 2) /\ Receipt.status = "failed"
              /\ Receipt.code = "nonzero"
         [] case = "prestop" ->
              /\ Exited(r, 2) /\ Receipt.status = "not_started"
              /\ ~ Receipt.task_started /\ ~ m.began
         [] case = "deadline" ->
              /\ Exited(r, 124) /\ Receipt.status = "deadline_reached"
              /\ Observed
         [] OTHER -> FALSE

\* The same program: the stop file is made once the worker is seen to run.
InstalledStop(r, m) ==
    /\ m.began /\ ~ m.done /\ Exited(r, 130)
    /\ Readable /\ Receipt.task_started /\ Receipt.alive /\ Observed
    /\ Receipt.stop_reason = "stop_file"
    /\ Receipt.status = IF posix THEN "interrupted"
                        ELSE "finished_after_stop_request"
    /\ posix \/ Receipt.asked
    /\ Receipt.bySignal

\* A receipt that is there already: the same bytes, and nothing began.
\* s is the run that made it, as all these programs do it.
Kept(r, s, m) ==
    /\ told[s] # Silence /\ told[s].receipt = "finalized"
    /\ Exited(r, 2) /\ disk = Written(s) /\ ~ m.began

\* An invalid limit, paths that are the same, a batch file: no receipt.
Refused(r, m) == Exited(r, 2) /\ disk.kind = "absent" /\ ~ m.began

\* An executable that is not there.
Missing(r) ==
    /\ Exited(r, 2) /\ Readable
    /\ ~ Receipt.task_started /\ Receipt.status = "supervisor_error"

\* And its job: a data set's baseline and score, equal to the kept ones.
PortableJob(r, m) ==
    /\ posix /\ Exited(r, 0) /\ m.done
    /\ Readable /\ Receipt.status = "completed" /\ Observed

\* verify_install, of the first wheel: the job has to be finished as well.
InstalledJob(r, m) ==
    /\ PortableJob(r, m) /\ Receipt.finished /\ Receipt.code = "zero"

\* And its stop before the start, and its failing child.  It does not ask
\* whether the receipt is finished: a checkpoint says not started as well.
FirstWheel(r, m, case) ==
    /\ posix /\ Exited(r, 2) /\ Readable
    /\ CASE case = "stopped" -> /\ ~ Receipt.task_started /\ ~ m.began
                                /\ Receipt.status = "not_started"
         [] case = "failed" -> /\ Receipt.status = "failed"
                               /\ Receipt.code = "nonzero"

\* consume: the first release with both platforms asks a little less.
Public(r, m) ==
    /\ Exited(r, 0) /\ m.done
    /\ Readable /\ Receipt.status = "completed" /\ Receipt.code = "zero"

PublicStop(r, m) ==
    /\ m.began /\ ~ m.done /\ Exited(r, 130)
    /\ Readable /\ Observed
    /\ Receipt.status = IF posix THEN "interrupted"
                        ELSE "finished_after_stop_request"

\* consumer: its driver lets the third fsync fail, which is the last save's.
LastSaveFailed(r) == Exited(r, 2) /\ told[r].receipt = "unconfirmed"

\* fault_case: what the failed command prints is all; no receipt is read.
Upgraded(r, m, code) ==
    /\ m.began /\ LastSaveFailed(r)
    /\ rec[r].status = IF code = "zero" THEN "completed" ELSE "failed"
    /\ rec[r].task_started /\ rec[r].code = code
    /\ rec[r].stop_reason = None

\* And the ordinary command after the upgrade.
Ordinary(r, m) ==
    Exited(r, 0) /\ m.done /\ Readable /\ Receipt.status = "completed"

\* demo calls run_with_receipt itself, and has its record.
Demo(r, m, stopped) ==
    /\ posix /\ At(r, "returned") /\ m.began /\ m.done = ~ stopped
    /\ rec[r].status = IF stopped THEN "interrupted" ELSE "completed"
    /\ stopped => rec[r].bySignal
-----------------------------------------------------------------------------
\* Outputs of the published step.  action-status follows from the receipt
\* state and the status; execution is unknown or that of a rejected run where
\* there is no record.
Delivered(r) == caller[r] = "action" /\ told[r].receipt # "nothing"

StepStatus(r) ==
    IF told[r].receipt # "not_created" THEN rec[r].status
    ELSE "not_started"
StepCode(r) ==
    IF told[r].receipt # "not_created" THEN rec[r].code ELSE "none"

\* ci_check, verify: a row of its table.  A finalized receipt has to say what
\* the outputs say.
StepRow(r, status, started, code, receipt) ==
    /\ Delivered(r)
    /\ told[r].exit = IF status = "completed" THEN 0 ELSE 1
    /\ StepStatus(r) = status /\ told[r].task_started = started
    /\ StepCode(r) \in code /\ told[r].receipt = receipt
    /\ receipt = "finalized" =>
           /\ Readable /\ Receipt.status = rec[r].status
           /\ Receipt.task_started = rec[r].task_started
           /\ Receipt.code = rec[r].code
           /\ Receipt.stop_reason = rec[r].stop_reason

StepCase(r, m, case) ==
    CASE case = "normal" ->
           StepRow(r, "completed", "true", {"zero"}, "finalized") /\ m.done
      [] case = "nonzero" ->
           /\ StepRow(r, "failed", "true", {"nonzero"}, "finalized")
           /\ m.began
      [] case = "prestop" ->
           /\ StepRow(r, "not_started", "false", {"none"}, "finalized")
           /\ ~ m.began
      [] case = "collision" ->
           /\ StepRow(r, "not_started", "false", {"none"}, "not_created")
           /\ ~ m.began
      [] case = "deadline" ->
           StepRow(r, "deadline_reached", "true", Codes, "finalized")
-----------------------------------------------------------------------------
\* The receipt path of every case but Kept is a new one.
OwnPath(r) == \A s \in Runs \ {r} : pc[s] = "idle"

\* What an accepted case is published as evidence of.
Shows(r, m) ==
    LET asked == IF posix THEN "signal" ELSE "nonzero"
    IN  /\ \/ Installed(r, m, "normal") \/ PortableJob(r, m) \/ Public(r, m)
           \/ InstalledJob(r, m) \/ Ordinary(r, m)
           \/ StepCase(r, m, "normal") \/ Demo(r, m, FALSE)
           => child[r] = "zero" /\ ~ elapsed[r]
        /\ \/ Installed(r, m, "nonzero") \/ StepCase(r, m, "nonzero")
           \/ FirstWheel(r, m, "failed")
           => child[r] = "nonzero" /\ ~ elapsed[r]
        /\ \/ Installed(r, m, "prestop") \/ StepCase(r, m, "prestop")
           \/ StepCase(r, m, "collision")
           \/ FirstWheel(r, m, "stopped") /\ Receipt.finished
           \/ Refused(r, m) \/ Missing(r)
           => child[r] = "none"
        /\ Installed(r, m, "deadline") \/ StepCase(r, m, "deadline") =>
               elapsed[r] /\ late[r] /\ child[r] \in Codes
        /\ InstalledStop(r, m) => stop /\ child[r] = asked
        /\ PublicStop(r, m) \/ Demo(r, m, TRUE) =>
               StopSeen(r) /\ child[r] = asked
        /\ \A code \in Codes : Upgraded(r, m, code) => child[r] = code

\* Nobody signalled the supervisor, and its report gives a verdict.
Quiet(r) ==
    /\ told[r].receipt = "finalized" /\ ~ flags[r]
    /\ rec[r].status \notin {"supervisor_error", "exit_unconfirmed"}

\* What is not rejected: the runs that are what the cases are about.
Passes(r) ==
    LET end == [began |-> TRUE, done |-> TRUE]
        mark == [began |-> TRUE, done |-> FALSE]
        none == [began |-> FALSE, done |-> FALSE]
        cli == caller[r] = "cli"
    IN  Quiet(r) =>
        /\ child[r] = "zero" /\ ~ stop /\ ~ elapsed[r] =>
               IF cli THEN /\ Installed(r, end, "normal") /\ Public(r, end)
                           /\ Ordinary(r, end)
                           /\ posix => InstalledJob(r, end)
               ELSE StepCase(r, end, "normal")
        /\ child[r] = "nonzero" /\ ~ stop /\ ~ elapsed[r] =>
               IF cli THEN Installed(r, mark, "nonzero")
               ELSE StepCase(r, mark, "nonzero")
        /\ child[r] = "none" =>
               IF cli THEN Installed(r, none, "prestop")
               ELSE StepCase(r, none, "prestop")
        /\ elapsed[r] =>
               IF cli THEN Installed(r, mark, "deadline")
               ELSE StepCase(r, mark, "deadline")

\* A wheel is called verified for what it did: whatever marks the worker has
\* left, and whichever signal, stop, deadline or failed write came in between,
\* no program takes a run for a case it is not - the child exited 0 or, by
\* itself, with an error, seen in a round of the loop that began in time, never
\* began, ran into the deadline, was ended by the request - and none rejects a
\* run that is the case and was not disturbed.  A second run on a receipt that
\* exists begins nothing and changes no byte.
ChecksAreTrue ==
    \A r \in Runs :
        /\ OwnPath(r) => /\ \A m \in LeftBy(r) : Shows(r, m)
                         /\ Passes(r)
        /\ \A s \in Runs \ {r}, m \in LeftBy(r) :
               Kept(r, s, m) => child[r] = "none"
        /\ \A s \in Runs \ {r} :
               /\ told[s].receipt = "finalized"
               /\ Exited(r, 2) /\ pc[r] = "reported" /\ child[r] = "none"
               => Kept(r, s, [began |-> FALSE, done |-> FALSE])
=============================================================================
