--------------------------- MODULE ProcessReceipt ---------------------------
(***************************************************************************)
(* tools/process-receipt: run_with_receipt (process_receipt.py) and        *)
(* run_windows_with_receipt (process_receipt_windows.py), each one a       *)
(* supervisor that reserves a receipt, starts one child, waits for its     *)
(* exit, a stop or the deadline, and accounts for what it saw.  Several    *)
(* invocations may be given the same receipt path.                         *)
(*                                                                         *)
(* The receipt is a checkpoint until it is finished: the supervisor can be *)
(* killed and every write of the file can fail, between any two steps.     *)
(* The child belongs to the world: it exits whenever it likes.             *)
(***************************************************************************)
EXTENDS Naturals, FiniteSets

CONSTANTS
    Runs,       \* the invocations
    None        \* no owner of the receipt path, no stop reason

ASSUME RunsAssumption == None \notin Runs

\* A run that nothing has stopped has no reason, which is not a reason.
ASSUME ReasonsAssumption ==
    None \notin {"parent_signal", "stop_file_before_start", "stop_file",
                 "deadline_before_exit_confirmation"}

VARIABLES
    posix,      \* which of the two backends: os.name
    pc,         \* run -> its next step
    rec,        \* run -> the record it keeps in memory
    child,      \* run -> its child: none yet, alive, or the exit code
    disk,       \* the file at the receipt path
    stop,       \* does the stop file exist?
    flags,      \* run -> has its handler seen a signal?
    handlers,   \* run -> are its signal handlers installed?
    late,       \* run -> has the deadline passed?
    elapsed     \* run -> had it, when the loop last read the clock?

supVars ==
    <<posix, pc, rec, child, disk, stop, flags, handlers, late, elapsed>>

Codes == {"zero", "nonzero", "signal"}
Steps == {"open", "save0", "prestop", "spawn", "save1", "clock", "poll",
          "stopcheck", "ask", "grace", "settle", "cleanup", "reap", "note",
          "last"}
Returned == {"refused", "returned", "unsaved"}

\* direct_child_exit_observed is kept equal to child_exit_code is not None by
\* every assignment, so code stands for both; asked is signals_requested or
\* termination_request_returned, bySignal the exit seen after such a request.
NewRecord ==
    [status |-> "not_started", task_started |-> FALSE, stop_reason |-> None,
     code |-> "none", alive |-> FALSE, asked |-> FALSE, bySignal |-> FALSE,
     finished |-> FALSE]

NoFile == [by |-> None, kind |-> "absent", rec |-> NewRecord]

SupInit(first) ==
    /\ posix \in BOOLEAN
    /\ pc = [r \in Runs |-> first]
    /\ rec = [r \in Runs |-> NewRecord]
    /\ child = [r \in Runs |-> "none"]
    /\ disk = NoFile
    /\ stop = FALSE
    /\ flags = [r \in Runs |-> FALSE]
    /\ handlers = [r \in Runs |-> FALSE]
    /\ late = [r \in Runs |-> FALSE]
    /\ elapsed = [r \in Runs |-> FALSE]
-----------------------------------------------------------------------------
At(r, step) == pc[r] = step
Goto(r, step) == pc' = [pc EXCEPT ![r] = step]
Alive(r) == child[r] = "alive"
\* What Popen.poll reports; once it has reported an exit, it repeats it.
Polled(r) == IF child[r] \in Codes THEN child[r] ELSE "none"
StopSeen(r) == flags[r] \/ stop
Record(r, record) == rec' = [rec EXCEPT ![r] = record]
\* What most steps of a supervisor leave alone.
World == <<posix, child, stop, flags, late, elapsed>>

\* save: seek, dump, truncate, flush, fsync.  A failure, or a death on the
\* way, may leave the old text, a mixture, or the new text.
Written(r) == [by |-> r, kind |-> "record", rec |-> rec[r]]
MaybeWritten(r) == {disk, [disk EXCEPT !.kind = "partial"], Written(r)}

\* Variant: open('w') takes over a receipt that exists.
OpenShared(r) ==
    /\ At(r, "open")
    /\ disk' = [by |-> r, kind |-> "partial", rec |-> NewRecord]
    /\ Goto(r, "save0")
    /\ UNCHANGED <<World, rec, handlers>>

\* receipt_path.open('x'): reserve a new receipt before anything is started.
Open(r) ==
    /\ At(r, "open")
    /\ IF disk.kind = "absent"
       THEN /\ disk' = [by |-> r, kind |-> "partial", rec |-> NewRecord]
            /\ Goto(r, "save0")
       ELSE Goto(r, "refused") /\ UNCHANGED disk
    /\ UNCHANGED <<World, rec, handlers>>

\* Except Exception: the child, if there is one, is asked to end.
Raises(r) ==
    /\ Record(r, [rec[r] EXCEPT !.status = "supervisor_error"])
    /\ Goto(r, IF child[r] = "none" THEN "note" ELSE "ask")

\* The first save, and the handlers right after it.
Save0(r) ==
    /\ At(r, "save0")
    /\ disk' = Written(r)
    /\ handlers' = [handlers EXCEPT ![r] = TRUE]
    /\ Goto(r, "prestop")
    /\ UNCHANGED <<World, rec>>

\* Launch without a second look, or not at all.
Prestop(r) ==
    /\ At(r, "prestop")
    /\ IF StopSeen(r)
       THEN /\ Record(r, [rec[r] EXCEPT !.stop_reason =
                    IF flags[r] THEN "parent_signal"
                    ELSE "stop_file_before_start"])
            /\ Goto(r, "note")
       ELSE Goto(r, "spawn") /\ UNCHANGED rec
    /\ UNCHANGED <<World, disk, handlers>>

Spawn(r) ==
    /\ At(r, "spawn")
    /\ child' = [child EXCEPT ![r] = "alive"]
    /\ Record(r, [rec[r] EXCEPT !.task_started = TRUE, !.status = "running"])
    /\ Goto(r, "save1")
    /\ UNCHANGED <<posix, stop, flags, late, elapsed, disk, handlers>>

Save1(r) ==
    /\ At(r, "save1")
    /\ disk' = Written(r)
    /\ Goto(r, "clock")
    /\ UNCHANGED <<World, rec, handlers>>

\* A checkpoint that cannot be written.
SaveRaises(r) ==
    /\ pc[r] \in {"save0", "save1"}
    /\ disk' \in MaybeWritten(r)
    /\ Raises(r)
    /\ UNCHANGED <<World, handlers>>

\* lstat of the stop file, which no signal has spared, or Popen fails.
StepRaises(r) ==
    /\ \/ pc[r] \in {"prestop", "stopcheck"} /\ ~ flags[r]
       \/ At(r, "spawn")
    /\ Raises(r)
    /\ UNCHANGED <<World, disk, handlers>>

\* The top of the loop.  The clock is read first: what follows goes by this
\* reading, however long it takes.
ReadClock(r) ==
    /\ At(r, "clock")
    /\ elapsed' = [elapsed EXCEPT ![r] = late[r]]
    /\ Goto(r, "poll")
    /\ UNCHANGED <<posix, child, stop, flags, late, rec, disk, handlers>>

Overdue(r) ==
    /\ Record(r, [rec[r] EXCEPT
           !.stop_reason = "deadline_before_exit_confirmation"])
    /\ Goto(r, "ask")

Timely(r) ==
    /\ Record(r, [rec[r] EXCEPT
           !.status = IF child[r] = "zero" THEN "completed" ELSE "failed",
           !.code = child[r]])
    /\ Goto(r, "cleanup")

\* Variant: an exit is certified before the clock's reading is looked at.
PollExitFirst(r) ==
    /\ At(r, "poll")
    /\ CASE ~ Alive(r) -> Timely(r)
         [] Alive(r) /\ elapsed[r] -> Overdue(r)
         [] OTHER -> Goto(r, "stopcheck") /\ UNCHANGED rec
    /\ UNCHANGED <<World, disk, handlers>>

\* The child is polled, and an exit counts as timely only if the clock had
\* been read before the deadline.
Poll(r) ==
    /\ At(r, "poll")
    /\ CASE elapsed[r] -> Overdue(r)
         [] ~ elapsed[r] /\ ~ Alive(r) -> Timely(r)
         [] OTHER -> Goto(r, "stopcheck") /\ UNCHANGED rec
    /\ UNCHANGED <<World, disk, handlers>>

\* Variant: only the stop file is looked at once the child runs.
StopCheckFile(r) ==
    /\ At(r, "stopcheck")
    /\ IF stop
       THEN /\ Record(r, [rec[r] EXCEPT !.stop_reason = "stop_file"])
            /\ Goto(r, "ask")
       ELSE Goto(r, "clock") /\ UNCHANGED rec
    /\ UNCHANGED <<World, disk, handlers>>

StopCheck(r) ==
    /\ At(r, "stopcheck")
    /\ IF StopSeen(r)
       THEN /\ Record(r, [rec[r] EXCEPT !.stop_reason =
                    IF flags[r] THEN "parent_signal" ELSE "stop_file"])
            /\ Goto(r, "ask")
       ELSE Goto(r, "clock") /\ UNCHANGED rec
    /\ UNCHANGED <<World, disk, handlers>>

\* The signal, or TerminateProcess, is sent; sending it may fail.
Request(r) ==
    \E sent \in BOOLEAN :
        Record(r, [rec[r] EXCEPT !.alive = TRUE,
                                 !.asked = rec[r].asked \/ sent])

\* terminate and request_termination, as far as the first wait.
Ask(r) ==
    /\ At(r, "ask")
    /\ IF Alive(r) THEN Request(r) /\ Goto(r, "grace")
       ELSE Goto(r, "settle") /\ UNCHANGED rec
    /\ UNCHANGED <<World, disk, handlers>>

\* The grace period ends with the child or without it; POSIX then kills.
Grace(r) ==
    /\ At(r, "grace")
    /\ IF Alive(r) /\ posix THEN Request(r) ELSE UNCHANGED rec
    /\ Goto(r, "settle")
    /\ UNCHANGED <<World, disk, handlers>>

\* Variant: any exit after the request is taken for its effect.
ExitSeenAnyhow(record, code) ==
    record.alive /\ record.asked /\ code # "none"

ExitSeen(record, code) ==
    /\ record.alive /\ record.asked
    /\ IF posix THEN code = "signal" ELSE code # "none"

\* The status of a stop or a deadline; an exception keeps supervisor_error.
Verdict(record, code, bySignal) ==
    CASE record.stop_reason = None -> record.status
      [] record.stop_reason = "deadline_before_exit_confirmation" ->
           IF posix \/ code # "none" THEN "deadline_reached"
           ELSE "exit_unconfirmed"
      [] OTHER ->
           IF posix /\ bySignal THEN "interrupted"
           ELSE IF code # "none" THEN "finished_after_stop_request"
           ELSE "exit_unconfirmed"

\* The end of terminate, and the status its caller gives the run.
Settle(r) ==
    LET code == Polled(r)
        bySignal == ExitSeen(rec[r], code)
    IN  /\ At(r, "settle")
        /\ Record(r, [rec[r] EXCEPT !.code = code, !.bySignal = bySignal,
                          !.status = Verdict(rec[r], code, bySignal)])
        /\ Goto(r, "cleanup")
        /\ UNCHANGED <<World, disk, handlers>>

\* finally: POSIX kills what is left of the group, Windows asks once more.
Cleanup(r) ==
    /\ At(r, "cleanup")
    /\ IF posix \/ Alive(r)
       THEN \E sent \in BOOLEAN :
                Record(r, [rec[r] EXCEPT
                    !.alive = rec[r].alive \/ ~ posix,
                    !.asked = rec[r].asked \/ sent])
       ELSE UNCHANGED rec
    /\ Goto(r, IF Alive(r) THEN "reap" ELSE "note")
    /\ UNCHANGED <<World, disk, handlers>>

\* Variant: the last wait runs out and the status stays as it is.
ReapQuietly(r) ==
    /\ At(r, "reap")
    /\ Goto(r, "note")
    /\ UNCHANGED <<World, rec, disk, handlers>>

Reap(r) ==
    /\ At(r, "reap")
    /\ IF posix
       THEN Record(r, [rec[r] EXCEPT !.status =
                IF Alive(r) THEN "exit_unconfirmed" ELSE @])
       ELSE Record(r, [rec[r] EXCEPT !.code = Polled(r),
                           !.bySignal = ExitSeen(rec[r], Polled(r))])
    /\ Goto(r, "note")
    /\ UNCHANGED <<World, disk, handlers>>

\* The last look at the child, and finished_at.
Note(r) ==
    /\ At(r, "note")
    /\ Record(r, [rec[r] EXCEPT
           !.code = Polled(r), !.finished = TRUE,
           !.status = IF ~ posix /\ Alive(r) THEN "exit_unconfirmed" ELSE @])
    /\ Goto(r, "last")
    /\ UNCHANGED <<World, disk, handlers>>

\* _finish_receipt: save, close, restore the handlers.  A signal that came
\* before the handlers were there is raised again once all this succeeded.
Last(r) ==
    /\ At(r, "last")
    /\ disk' = Written(r)
    /\ Goto(r, IF handlers[r] \/ rec[r].status # "not_started"
               THEN "returned" ELSE "raised")
    /\ handlers' = [handlers EXCEPT ![r] = FALSE]
    /\ UNCHANGED <<World, rec>>

\* The write or the close fails: ReceiptPersistenceError.
LastFails(r) ==
    /\ At(r, "last")
    /\ disk' \in MaybeWritten(r)
    /\ handlers' = [handlers EXCEPT ![r] = FALSE]
    /\ Goto(r, "unsaved")
    /\ UNCHANGED <<World, rec>>

Supervise(r) ==
    \/ Open(r) \/ Save0(r) \/ Prestop(r) \/ Spawn(r) \/ Save1(r)
    \/ ReadClock(r) \/ Poll(r) \/ StopCheck(r)
    \/ Ask(r) \/ Grace(r) \/ Settle(r) \/ Cleanup(r) \/ Reap(r) \/ Note(r)
    \/ Last(r) \/ LastFails(r)
    \/ SaveRaises(r) \/ StepRaises(r)
-----------------------------------------------------------------------------
ChildExits(r) ==
    /\ Alive(r)
    /\ \E code \in IF posix THEN Codes ELSE Codes \ {"signal"} :
           child' = [child EXCEPT ![r] = code]
    /\ UNCHANGED <<posix, pc, rec, disk, stop, flags, handlers, late,
                   elapsed>>

StopFileAppears ==
    /\ ~ stop /\ stop' = TRUE
    /\ UNCHANGED <<posix, pc, rec, child, disk, flags, handlers, late,
                   elapsed>>

\* The time runs from the start of the child, and matters until the loop ends.
DeadlinePasses(r) ==
    /\ pc[r] \in {"save1", "clock", "poll", "stopcheck"} /\ ~ late[r]
    /\ late' = [late EXCEPT ![r] = TRUE]
    /\ UNCHANGED <<posix, pc, rec, child, disk, stop, flags, handlers,
                   elapsed>>

\* A first SIGINT or SIGTERM with the handlers installed is only noted.
SignalNoted(r) ==
    /\ handlers[r] /\ ~ flags[r]
    /\ flags' = [flags EXCEPT ![r] = TRUE]
    /\ UNCHANGED <<posix, pc, rec, child, disk, stop, handlers, late,
                   elapsed>>

\* SIGINT before the handlers is a KeyboardInterrupt, which is no Exception:
\* only the finally clause runs.
EarlyInterrupt(r) ==
    /\ At(r, "save0")
    /\ disk' \in MaybeWritten(r)
    /\ Goto(r, "note")
    /\ UNCHANGED <<World, rec, handlers>>

\* SIGKILL, the default SIGTERM, a power failure: the child is left to itself.
SupervisorDies(r) ==
    /\ pc[r] \in (Steps \ {"open"}) \cup Returned
    /\ disk' \in IF pc[r] \in {"save0", "save1", "last"}
                 THEN MaybeWritten(r) ELSE {disk}
    /\ handlers' = [handlers EXCEPT ![r] = FALSE]
    /\ Goto(r, "dead")
    /\ UNCHANGED <<World, rec>>

SupWorld(r) ==
    \/ ChildExits(r) \/ StopFileAppears \/ DeadlinePasses(r)
    \/ SignalNoted(r) \/ EarlyInterrupt(r) \/ SupervisorDies(r)
=============================================================================
