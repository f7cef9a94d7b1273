# Models and proofs for second-paddle-notes

The repository keeps small programs about one question: what may be said about
an operation when processes die, replies get lost and calls are repeated? Some
of them act (a client of multi-round tool calls, a process supervisor, release
publishers), some record what happened, and some judge the records. This
directory models the programs in TLA+, checks the models with TLC and proves
the main safety properties with TLAPS.

## The system's parts

| Part | State | Operations | What is hard |
|---|---|---|---|
| **Round graph**, `contributions/preserved-mcp-rounds/round_graph.py` | one checkpoint per thread: frame, answers, round index, status, result, pending node | nodes `begin`, `review`, `continue_original_round`, `finish`; invoke and resume | a node's call is made before its reply is in the checkpoint; the process may die anywhere in between |
| **Receipt store**, `contributions/mcp-commit-gap/receipt_store.py` | tables `config`, `rounds`, `effects` of one SQLite file | constructor, `issue`, `complete`, `snapshot` | several processes on one file; a repeated or changed call on a closed round; three policies; a snapshot in two reads |
| **Commit-gap probe**, `contributions/mcp-commit-gap/probe.py` | the two above, calls between them, the logs of both sides | prepare, crash, recover, `check` | the client dies after the server's commit and before its own checkpoint; a check must tell that history from others |
| **Preview probe and process restart probe**, `contributions/preserved-mcp-rounds/probe.py`, `process_restart_probe.py` | per operation: initial calls seen, issued request states, recorded previews; the row of each case | initial call, next round, preview, refusals; the library's adapter; two processes; assertions | a repeated initial call is worded differently; several rounds; a limit; a verdict over cases that may fail for other reasons |
| **Stdio restart probe and capsule**, `contributions/stdio-round-restart/`, `contributions/stdio-evidence-capsule/verify.py` | tables `rounds`, `effects`; the retained records | `issue`, `answer`, a server on an empty store, a wrong application; two checks of the records | the client's checkpoint outlives the server's store |
| **Process receipt supervisor**, `tools/process-receipt/` | a receipt file, a record in memory, a child, a stop file, signals | start, poll, stop, time out, terminate, finish; two backends | signals, exits, deadlines, stops and failed writes in any order; a supervisor that dies |
| **Its callers**, the command lines and `actions/process-receipt/` | what they were told and what they report | run, exit code, outputs | a receipt that is missing, somebody else's or unfinished; outputs that fail on their own |
| **Programs that verify a wheel or the step**, `verify_*install.py`, `consume.py`, `consumer.py`, `ci_check.py`, `demo.py` | none of their own | cases, each with a worker and a verdict | a run that looks like another from outside |
| **Response loss and reconcile**, `contributions/github-response-loss/`, `skills/github-write-reconcile/` | a provider's branch, requests on their way, an operation, a reader | send, exit, look, retry once, list commits; read in three calls | a late first request racing the retry; reads that are not one snapshot |
| **Releases**, six publishers under `releases/` and `packages/`, the jobs that download | remote releases with assets, an older release's body, pinned inputs | prepare, list, create, upload, publish, notices, public readback; rerun whole or from a job | check-then-act over a remote service; resuming after a partial upload; overlapping runs |
| **Capacity proxy**, `checks/mcp-533-session-lifetime/lab/capacity-proxy.mjs` | sessions, slots under way, open streams, counters | every callback of requests, responses and sockets; teardown | a counter at its limit while callbacks come in many orders |
| **Rule-use evaluation**, `experiments/rule-use-eval/` | a bundle of three files, raw and parsed answers, a report | build, mock or run, parse, score, dry run; data set, baselines and strict scorer | files that are stale or half written; a design that must give answers blind to the links no effect |
| **Approval trace check**, `tools/approval-trace-check/` | the auditor's book; the page: box, report, reads under way | `audit`; edit, load, check, clear, open a file | an auditor that forgets; late file reads |
| **Evidence server, result text, launcher, handoff bridge, other reproductions, archives, notes** | none that a step changes, or files written once | read-only queries, conversions, batch scripts | - |

How they meet. The round graph calls a tool; the server opens a round, returns
a form and an opaque token; the graph checkpoints them and stops for a
reviewer. The resume stores the reviewer's answer in the checkpoint, and only
then the graph sends it with the token. The server commits an effect and
replies; the reply becomes the next checkpoint. A fresh client process
continues from the last checkpoint, whatever the old one was doing. The probes
script such histories, log both sides and check the logs. The supervisor is
shipped by three of the publishers as a wheel, called by the command lines and
the workflow step, and tried out by the programs that verify them. The model
runs and the smoke evaluation share their data set.

What makes each part correct:

- *round graph*: an answer belongs to the form that was shown, rounds come in
  order, the limit holds, a durable answer is brought to its end;
- *receipt store*: label, binding and receipt are one commit, also for a reader;
  a bound round never changes; at most one label per round; one mode per file;
- *commit gap*: the accepted operation has exactly one effect and reports it,
  over crashes, lost replies and repeats; the check accepts its experiment and
  nothing else;
- *preview probe*: what is recorded is what was shown;
- *stdio restart*: a label always has its consent, also when the server forgot
  its rounds; every end can be explained; both checks of the records accept
  exactly the four cases;
- *supervisor and callers*: one receipt path is one execution; no receipt, exit
  code or output says more, or denies more, than happened; a stop ends the run, and
  so does the deadline;
- *programs that verify*: they accept exactly the runs that are what their
  cases are about;
- *response loss*: one marker per operation; a recovered operation and a
  reader's verdict are facts of the branch;
- *releases*: nothing incomplete becomes public (by tag, only beside the whole release
  it was taken for), a lost answer makes no second release, the owner's text stays
  but for edits behind a run's last look, success means a whole release;
- *capacity proxy*: the cap holds for the ledger and for the server, and the
  counts the lab's verdicts rest on are true;
- *rule-use evaluation*: what is reported is what was answered, by the
  registered design, and an effect is the links' doing;
- *approval trace check*: exactly what the policy forbids is flagged, and a
  report on display is about the text in the box.

## Modules

| Module | Models | Composes |
|---|---|---|
| `Forms` | answers and `validate_answers` | - |
| `RoundGraph` | the client graph, its process, its checkpoint and the calls in flight | `Forms` |
| `ReceiptRounds` | tables `rounds` and `effects`, `issue` and `complete` | `Forms` |
| `ReceiptStore` | processes that open, use, read and leave a store file | `ReceiptRounds` |
| `ConfirmedEffect` | the abstract promise: decide once, take effect once, report truly | - |
| `CommitGap` | client and server of the commit-gap probe, in any of the three modes | `RoundGraph`, `ReceiptRounds`, `ConfirmedEffect` |
| `GapEvidence` | the probe's three processes, their logs and its check | `CommitGap` |
| `PreviewRounds` | client and server of the preview probe | `RoundGraph` |
| `RoundExercises` | its cases, the process restart probe and the elicitation identity reproduction: the library's adapter, a session without it, the session doubles, the rows and what is asserted of them | `PreviewRounds` |
| `StdioRestart` | client, server and wrong application of the restart probe | `RoundGraph` |
| `StdioEvidence` | their records, and the two programs that check them | `StdioRestart` |
| `ProcessReceipt` | the supervisor, both backends | - |
| `ReceiptCallers` | command lines and workflow step around it | `ProcessReceipt` |
| `ReceiptChecks` | what the six verifying programs accept of a run | `ReceiptCallers` |
| `ResponseLoss` | senders, orchestrators, the provider and `reconcile` | - |
| `Releases` | the six publishers, the repair of the evidence capsule, the jobs after them, GitHub's releases | - |
| `CapacityProxy` | the proxy, its clients and the server behind it | - |
| `SmokeEval` | data set, baselines and strict scorer, as operators | - |
| `ModelEval` | the scripts of the model runs and their files | `SmokeEval` |
| `ApprovalTrace` | `audit`, one event per step, and what the policy means of a trace | - |
| `TracePage` | the page around it | `ApprovalTrace` |
| `MC*` | constants and symmetry, for TLC | one module each |
| `CommitGap_proofs` | proofs about the store, the commit-gap system and its experiment | `GapEvidence`, `ReceiptStore` |
| `RoundSystems_proofs` | proofs about the other two systems around the round graph | `StdioEvidence`, `RoundExercises` |
| `RoundExercises_proofs` | the proof of what the experiments conclude | `RoundSystems_proofs` |
| `GitHub_proofs` | proofs about the two modules with GitHub on the other side | `ResponseLoss`, `Releases` |
| the other `*_proofs` | proofs about `ReceiptCallers` and its checks, `CapacityProxy`, `TracePage`, `ModelEval` | the module they are named after |

Definitions that a comment introduces as a *variant* are plausible slips of the
code (a dropped guard, a missing update). No specification uses them. Each of
them, put in the place of the definition it varies, breaks the property it is
meant for, which shows that the property depends on that line of the code.

### From the code to the state and the actions

**Round graph.** `RoundGraph` has one record `ckpt[t]` per thread: what
LangGraph's saver holds under `durability='sync'`, including the node that runs
next (`next`). `run[t]` is the volatile part - no invocation, a node running, a
call awaited - and a crash or an exception (`Abort`) loses it with any reply in
`inbox[t]`. A node with an `await` is two actions: up to the call (`BeginCall`,
`ContinueCall`) and from the reply to the checkpoint (`BeginReturns`,
`ContinueReturns`). `review` is two as well: it runs up to `interrupt()`
(`Review`) and runs again from its first line when it is resumed (`Resume`), or
ends at the limit (`RoundLimit`). `requests` are calls sent and not yet handled.
A request of a dead client stays there: it may be handled late, or never
(`Lose`). `Deliver` hands the reply to the process that still awaits it, or to
nobody. `consent[t]` is history only: the form the reviewer had been shown when
the last answer was stored.

**Stores.** `ReceiptRounds` gives `issue` and `complete` as operators over the
mode. `Unknown`, `Mismatch`, `Settled`, `Raises` and `Commits` are the early
returns of `complete`, in the order `Reply` uses them; `Complete` is what it
writes. `complete` runs under `BEGIN IMMEDIATE`, and is one step. The
constructor of the store is not: its `SELECT` (`ReadConfig`) and its `INSERT`
(`InsertConfig`) are two steps, and another process may act in between if
`ConcurrentOpen`. Nor is `snapshot`, which reads the effects and then the
rounds while others commit. `PreviewRounds` and `StdioRestart` have one action
per path through their servers' handlers.

**Records and their checks.** `GapEvidence` and `StdioEvidence` add what the
processes log: every step is a step of `CommitGap` or `StdioRestart` that
appends to `wire` (the client's log), `served` (the server's, with the tables
after the call) or `crash` (what the parent found after the exit). A history
that leaves the script has no verdict, so its logs end there; they keep one
call more than any script has. `check`, `check_case` and `verify_case` are
operators of the logs. `ExperimentIsTrue` and `VerdictsAreTrue` state both
directions: what a check accepts is the history it names, and the scripted
history is accepted. In the first the second direction is for a thread alone
in its store, as the probe's labels are numbered from one. `RoundExercises` does
so for `probe.py`, `process_restart_probe.py` and
`langchain-elicitation-identity/reproduce.py`: `path[t]` is what drives a case
(the round graph, the library's adapter with one of three kinds of answers, a
session without either, or two processes one after the other), and `rows[t]` is
its row, which ends with the first exception or the result. The adapter is
outside the repository; it repeats its calls when its node is resumed.
The sessions of the restart probe are `PhaseOneCall` and `PhaseTwoCall`.
`ExercisesAreTrue` states both directions for the cases that show what is kept
(`Conclusive`). Of a declined, cancelled or failing case the probe asserts only
that nothing was recorded, which a lost call also brings about, so for these
the property is that the planned history is accepted. A row that is `failed` (a
lost call) and one that `raised` (a limit, or an answer refused) look alike in
the code; the model tells them apart to name the history.

**Supervisor and callers.** `ProcessReceipt` has the steps of
`run_with_receipt` and `run_windows_with_receipt`; `posix` says which of the
two runs. `disk` is the file at the one receipt path, `rec[r]` the record in
memory; a save that fails or a death while saving leaves the old text, a
mixture or the new one (`MaybeWritten`). The child, the deadline, the stop file
and the signals belong to the world. In `ReceiptCallers`, `told[r]` is what a
caller reported: the exit code, whether the task was started, and what it says
of the receipt. The workflow step has two output channels, and each can fail
(`ReportStep`).

A round of the loop reads the clock (`ReadClock`), polls the child (`Poll`) and
looks for a stop (`StopCheck`). `late[r]` is whether the deadline has passed,
`elapsed[r]` what the last reading said of it: the deadline may pass, and the
child exit, between the reading and the poll. `Poll` judges the reading before
the exit, so an exit first seen in a round whose reading was overdue is never
timely; the variant `PollExitFirst` asks the other way round. `ReceiptIsTrue`,
`ExitCodeIsTrue` and `ChecksAreTrue` speak of the reading where they say that an
exit was in time, and of `late` where they say that the deadline has passed.
`completed` is "observed before the deadline" (tools/process-receipt/README.md:40,
and the comment at `process_receipt.py:174`) with the precision of that reading: a
supervisor that is suspended between its two lines may certify an exit which it
saw later.

The model shows one oddity that is not an error by any text of the repository:
on POSIX, when the last wait runs out, the status becomes `exit_unconfirmed`
(`process_receipt.py:204-208`), and the poll after it may still observe the
exit, so that `exit_unconfirmed` can stand next to an observed exit code.
`ReceiptIsTrue` therefore asks for `exit_unconfirmed` when the exit is unknown,
and not the converse.

**Programs that verify.** In `ReceiptChecks` a worker leaves two marks, when it
begins and when its work is done. Each case of a program is an operator of a
run, its receipt and the marks. `Shows` says what an accepted case stands for,
`Passes` that an undisturbed run of the case is accepted. Every case but the
one on an existing receipt has a path of its own. `verify_install.py` does not
ask whether the receipt of its stopped case is finished, so a checkpoint of a
supervisor that died early passes it; `Shows` states that case for a finished
receipt.

**Response loss.** A commit of `branch` has a path, the marker's bytes (which
depend on the head its writer read) and a message. `requests` are creates on
their way. The sender and the orchestrator of an operation are one program
counter; the sender exits without reading its response, the orchestrator looks
up to twice, retries once, and compares head, bytes and commit list in separate
calls. Another writer may use the same path. The reader of `reconcile.py`
pins a commit and reads tree and blob of it.

**Releases.** Each behaviour is about one publisher (`script`). `release` is
what GitHub has of the tag, drafts included; `seen[r]` what run `r` read last.
The inputs that a script compares with pinned values are `sound` or not. A job
that failed may be run again alone, with what the run's earlier jobs left. Any
call may fail before or after it took effect. We assume that a call takes
effect before its caller gives up, or never. `evidence-0.1.0a1` judges a
release by its id and publishes by its tag, and its concurrency group does not
rule out that the tag has two. What gets out may then be the one that its run did
not judge; `PublishesWhole` has that only beside a whole one, and
`SuccessMeansWhole` lets no run succeed while no whole one is public. `slips`
counts the owner's edits that fall
between a run's comparison of the older body and its write, a window that
`publish.py` names itself ("not an atomic cross-client edit lock"): no more lines
than that may be missing at any time (`OwnerTextKept`).
The repair of the evidence capsule (`retain_from_artifacts.py --publish`) writes
one retained file on its branch instead of a release: `older` is that file.

**Capacity proxy.** An action is one callback, or a step of client, server or
connection. `pc[q]` is the handler's progress, `link[q]` the connection to the
server, `answer[q]` the server's answer. Ids of sessions are unique, so a
session bears the name of the initialize request that made it. Once the proxy
has destroyed an outgoing request, Node reports no response of it. A client
that leaves while its initialize is under way gives its slot back at once,
while the server may still start the session: lab/README.md says that a slot is
held until the server's response or the transport's failure settles it.
`UpstreamWithinCap` states the cap but for these sessions (`Abandoned`).

**Rule-use evaluation.** The scripts share nothing but files. A file of the
bundle is the name of the build it was written from, its contents a function of
that, and hashes are compared as the contents they stand for. A trial's id is a
hash of seed, case and repeat; it is modelled as that triple. Links are
sequences, since the first matching one counts. The dry run is a build that
goes on in one process. A script is one step: that a file which was hashed
is read again (`score_model_eval.py:321` and `:339`, `parse_responses.py:187` and
`:194`, `make_mock_responses.py:101` and `:103`) is not split, so the properties
hold as long as no build with the same seed writes a file between its check and
its reading. Of the bootstrap interval only the question that the
criterion asks is kept: can its lower end be above zero? `SmokeEval` has the
data set, the baselines and the strict scorer as operators, and `PathsAgree`
compares the two scorers on the same answers.

**Approval trace.** `ApprovalTrace` audits one event per step; `Lawful` says
what the policy means of the trace itself, without the auditor's book. In
`TracePage` a text is what `JSON.parse` makes of it and what is wrong with it;
there is one state per request, and a file being read has the ticket
(`inputEpoch`) of its choice. `wanted` is history: what the box may hold after
the last input. `run()` is atomic for the page, so `busy` excludes every other
handler while the audit steps on.

## Runs

| Run | Bounds | Shows |
|---|---|---|
| `receipt_store` | 2 processes, 2 tokens, 2 arguments, 2 names, 5 answers, 3 effects, 1 snapshot at a time | `ReceiptNeverMissing`, `EffectIffBound` (for a snapshot's reader, too), `FrozenOnceBound` when constructors do not overlap |
| `receipt_store_concurrent` | the same | **violation** of `OneMode` when two constructors overlap |
| `commit_gap` | three modes, 2 threads, 1 abort each, 4 tokens, 5 answers | `ConsentBeforeEffect`, `AtMostOneEffect`, `OriginalResultRecovered`, `GuardKeepsOneEffect`, `ExperimentIsTrue` |
| `commit_gap_promise` | receipt mode, 2 threads, 1 abort each, 2 answers, fairness | `KeepsPromise`: refines `ConfirmedEffect`, liveness included |
| `preview_rounds` | 1 thread on any of 6 paths, 2 aborts, up to 3 forms and a limit of 2, drift, fresh keys, blind resume | `AnswersShownForm`, `SubjectsAreExplained`, `ExercisesAreTrue`, `LimitStopsOperation`, `RoundsInOrder` |
| `stdio_restart` | 1 thread, 3 aborts, 5 tokens, 2 stores | `LabelsShownSubject`, `EndsAreExplained`, `VerdictsAreTrue` |
| `process_receipt` | 2 runs on one path, both backends, both callers, fairness | `OneLaunch`, `ReceiptIsTrue`, `NeverDeniesExecution`, `ExitCodeIsTrue`, `ChecksAreTrue`, `StopEndsRun` |
| `response_loss` | 2 operations, another writer | `OneMarker`, `RecoveredIsTrue`, `VerdictOfSnapshot` |
| `releases` | 7 scripts, 2 runs with 2 attempts each, 2 assets, 2 edits, at most 1 changed input | `PublishesWhole`, `OneRelease`, `OwnerTextKept`, `SuccessMeansWhole` |
| `model_eval` | 24 studies of 2 templates and up to 2 repeats, 2 builds, 1 file of answers | `ScoresFirstAnswers`, `HiddenReportsHaveDesign`, `EffectIsOfLinks`, `PathsAgree` |
| `capacity_proxy` | 3 requests, a cap of 1 | `PeaksWithinCap`, `UpstreamWithinCap`, `CountsAreTrue` |
| `trace_page` | every trace of up to 4 events over 2 requests, scopes and texts; 7 inputs | `FlagsAreExact`, `ReportIsOfBox`, `LastInputStays` |

The type invariants of the modules with proofs are proved, and not run again.
The longest runs are `process_receipt`, whose 1.3 million states and their
liveness take between two and three minutes, and `releases` with 12 million;
`trace_page` has 8 million.

Why the bounds are enough for the cases that matter:

- *One abort* leaves a call of the dead client in flight next to the call of the
  client that recovers, in either order; `stdio_restart` and `preview_rounds`
  allow three and two. An abort is needed for each repeated call, so
  `MaxAborts + 1` also bounds the calls of one node and the tokens used.
- *Tokens*: one for each initial call that can be sent (threads times
  `MaxAborts + 1`), and one more in `stdio_restart` for the wrong application;
  no client waits for want of a token, so deadlock is checked in these runs
  (`Done` is the stuttering of a system whose operations have all ended).
- *Cases*: `preview_rounds` runs every entry of the probe's `SPECS`, through the
  adapter where the probe does, every entry of `CASE_SPEC` of the identity
  reproduction, and up to three forms against a limit of two.
- *Two threads* share the tables in `commit_gap*`. The probes of `stdio_restart`
  and `preview_rounds` give every case a store or a thread of its own, whose
  repeated initial calls still open several rounds.
- `MaxEffects` is at least the number of labels that can be reached in
  `commit_gap*`, and in `receipt_store` it lets the naive control repeat.
- *Answers* are one representative of each case the checks in the code tell
  apart: accepted, accepted with another note, accepted without a yes, declined,
  and under another key. `MaxRounds = 8` in the one-form systems is the code's
  default.
- *Two edits*: one that falls between a run's comparison and its write, and one
  that does not, before or after it.
- *Two runs* of the supervisor race for the path, and the second meets every
  state the first can leave it in.
- *Two operations* and another writer move the branch between any two reads.
- *Releases*: two runs can overlap, a second attempt resumes on every state
  that the first leaves, and two assets make a half-uploaded release.
- *Three requests* against a cap of one: one session that is open or being
  closed, one that is being opened, and one that must be refused - or a stream.
- *Model runs*: each of the studies but one misses one point of the registered
  design (a pair reworded, regraded, not shuffled, missing, twice, ...), and two
  builds are needed to leave a file of one beside a file of the other. The
  code's 24 templates and 5 repeats are 2 and 2 (`MinTemplates`, `MinRepeats`).
- *Four events* are a proposal, a decision, an execution and one more of any
  kind, in any scope; longer traces are covered by the proof. `MaxEpoch = 7`
  leaves an input before and after every file read.

`CHECK_DEADLOCK FALSE` is said of the systems that really stop:
`process_receipt`, `response_loss`, `releases` and `model_eval` end when their
programs have ended and their bounds are used up.

Symmetry reduction is used in runs of safety properties only, over values that
are interchangeable: threads, tokens, processes, operations, requests, runs,
and the names in a trace.

### Fairness

`ClientFairness` and `ServerFairness` (`commit_gap_promise`) say that an
application goes on invoking a pending node that is not the review, and that a
node which runs, or has its reply, gets to its end; the server handles a call
whose client still awaits it. Nobody is obliged to review, and nothing is
assumed of calls of dead clients. The code justifies it by construction - nodes
have no loops, the calls have a read timeout, the recover phase invokes the
pending node - for as long as crashes stop: `MaxAborts` bounds them. A lost
request counts as an abort of the client that awaits it, as it ends its
invocation.

`ReceiptCallers!FairSpec` says that a living supervisor and its caller go on
(`WF_vars(Step(r))`): every wait in the code has a timeout. Nothing is assumed of
the child, the deadline or signals: `StopEndsRun` says of a stop, a signal or a
deadline that does come that it ends the run, also of a child that never exits.

## What is proved

All proofs are for arbitrary sets of threads, processes, runs, operations,
requests, tokens and answers and arbitrary bounds, under the assumptions named
in the modules, which TLC evaluates in the runs.
One of them deserves a word: no request state
is the value that stands for its absence (`NoToken`). It is what tells an
initial call from a continuation, in the model as in the code (`None`).

`CommitGap_proofs`, first for the store alone (`ReceiptStore`), when constructors
do not overlap:

- `FileTypeCorrect`;
- `StoreSafe`: one mode, at most one label, a receipt names its own label;
- `ReceiptAlwaysThere`: a receipt-mode call never misses a receipt;
- `EffectExactlyIfBound`: label iff bound, also in a snapshot;
- `BoundRoundsFrozen`: bound rounds and labels never change.

The invariant adds to these that all open handles agree with the config table,
that only one process is between `SELECT` and `INSERT`, that the tables obey
the mode in the config table, or every mode while there is none
(`StoreInv(mode)` says what obeying a mode means, with one lemma for `Issue` and
one for `Complete`, which the second part uses too), and that the labels a
snapshot under way has read are still a prefix of the table.

Then for the whole system, in whichever mode the store is opened:

- `CommitGapTypeCorrect`, `OneLabelPerRound`, `ConsentFirst`, `CompletionIsTrue`,
  `ResultRecovered`, `GuardHolds` and `AnswersOwnForm`;
- `ReceiptImplementsPromise`: in receipt mode every initial state is one of
  `ConfirmedEffect`, and every step is one of its steps or a stutter. Its
  liveness stays with the run `commit_gap_promise`;
- `ExperimentTrue`, for `EvidenceSpec` of `GapEvidence`.

None of them is inductive: nothing in them says what a request in flight,
possibly of a client long dead, may carry. The invariant `IInv` is the type
invariant, the store's `StoreInv(storeMode)`, and for each thread four facts.
The thread's consent is to its own token and the form shown, and is fixed once
it is given (`ConsentOf`). What it has received and reported is what the tables
hold for that consent (`ReportOf`). A reply in its inbox is one the tables will
still confirm (`ReplyOf`). And every request in flight that carries a token
carries the consent's token and answers (`RequestOf`), so that a late call can
only repeat what was accepted. A label or binding belongs to some thread's
consent, and no two threads hold one token. These parts are operators of plain
values; a step that leaves a thread's values alone keeps its parts by equality,
which keeps the proof to the thread that moves plus the fact that the tables
only grow (`Grows`). A second part (`Answering`) says what a thread
is told if not a label: an error names none, an accepted form is refused only
as closed and only after a call of its own was cut short, and the round of a
continuation that was never cut short is open until its reply is there. The
guard's theorem and the refinement rest on both. The refinement is for a store
that is only ever opened with receipts (`ReceiptOnly`), which the run
`commit_gap_promise` is as well.

For the experiment, every step of `EvidenceSpec` is one of `CommitGap`
(`EvidenceSteps`), so `IInv` stays. A second invariant, `EInv`, adds what the
logs hold. A client that keeps to the script has recorded all that the server
has, and awaits every call of its that is on the way (`Following`). Its log says
where it is (`LogOf`): the form, then the call that committed, with the tables as
it left them (`Committed`), then, after the exit, the repeated call, whose answer
is what the mode makes of it (`Repeated`). What was read of the tables earlier
is a prefix of the labels, and has no row of a round that was not issued yet
(`Past`); what other threads do meanwhile only lengthens it (`LogGrows`). Both
directions of `ExperimentIsTrue` follow: the answer to the repeated call tells
the three modes apart (`AcceptedIsDone`), and alone on its store a thread's label
is number one and nothing but its own round differs between two readings
(`AloneFacts`, `DoneIsAccepted`).

`RoundSystems_proofs`, for the systems around the same graph whose servers do not
keep receipts. Its first part says what `RoundGraph` guarantees of one thread,
whatever server it talks to: of a thread's calls in flight at most one is of its
current attempt, and that one carries what the pending node calls with (`Runs`);
and which of seven kinds of moves a step is (`ClientMoves`). On this rest:

- `StdioRestart`, over any number of empty stores: `LabelsAreConsented` and
  `EndsExplained`. A token belongs to one thread, or to the wrong application, in
  whatever way the thread has it: in its checkpoint, its inbox or a call
  (`Owns`); no token is issued twice, although drafts are numbered anew with
  each store (`Store`, `used`). An answered operation knows of every way in which its
  round may be closed by now (`Ends`). These theorems are about `RestartSpec`; the
  run checks `EvidenceSpec`, whose steps are those with the records added.
- `VerdictsHold`, for `EvidenceSpec`, about one operation, as in the probe, with any
  number of stores, crashes, lost calls, resumes and replays. Both directions
  need to know what the three logs can look like, and a log is of any length,
  since a client that recovers may repeat its call against each new store. The
  invariant (`EvidenceOf`) says how the client's log goes with its checkpoint
  (`LogOf`), how far the operation has come on the store there is now (`Progress`:
  not asked, asked, answered, or asked by a dead store), and that the server's
  log is of the calls the client's wire has seen (`WireOf`). Then come the three ways
  in which a client ends: by the graph (`GraphVerdict`), by the wrong
  application's replay (`ReplayVerdict`), and not at all (`NoVerdict`). In each the
  log is short enough to be compared entry by entry with what the checks expect.
- `RoundExercises`, on every path and for any specs, forms and crashes:
  `FormsAreOwn`, `LimitHolds`, `SubjectsExplained` and, of every step,
  `RoundsStayInOrder`. Of a thread of the graph the invariant (`GraphThread`)
  says that whatever it has been asked, shown, or is sending belongs to the one
  initial call its checkpoint kept: the same state at another round
  (`AtRound`). A late call therefore repeats an earlier round of the same
  operation. Of the adapter it says how many initial calls the server has counted at
  each point of the node (`AdapterThread`), hence that the preview is the second
  call's. The server has no guard against an answer to a past round, and may record
  a preview twice; all of a thread's previews are of one subject (`Noted`).

`RoundExercises_proofs`, on top of it:

- `ExercisesHold`: `ExercisesAreTrue` of all seventeen cases, with any number of
  threads side by side, forms and crashes.

Neither direction of it follows from the safety invariant, which says what a thread
may be asked and not what its row has kept of it. `VerdictInv` adds that, in two
halves. While the row of a case is open no call of it has been lost, and so one of a
few shapes holds of it (`Work`): for the round graph how many calls, log entries,
forms and answers there are at each of its nodes, each of them the one its number
says, with every answer but the last the one that goes on (`RowIs`, `GraphWork`);
for the adapter and the session alone the one form and the one answer
(`AdapterWork`, `DirectWork`). Once the row is over, what it says is fixed (`Ended`),
although a client of the round graph may recover and go on: the experiment is not
its client any more. A preview is recorded of a thread at most once before that
(`Previewed`), which is what makes `completed` a list of one subject. Every step is of
one thread; what it leaves to the others is enough for theirs (`Idles`, `DrivesIdle`).

`ReceiptCallers_proofs`, for any number of runs on one path and both backends:

- `ReceiptTypeCorrect`, `OneLaunchEach`, `ReceiptTrue`, `ExecutionNeverDenied`,
  `ExitCodeTrue`, and `ChecksTrue` for the two checks of `ReceiptChecks`.

The invariant has three parts: a run that writes, or has a child, owns the file
(`Owns`); the record in memory gives a true account of the child at every step
(`Account`); file and report follow from the record, and a finished file is the
record (`FileInv`, `ReportInv`). For the checks a second one, `Trail`, says what
the record keeps of the way a run came to its end: which stop reason goes with
which of deadline, signal, failed start and answer that was not in time
(`Course`), that a file is its writer's and an unfinished one says no more than
that the run is to start or is running (`Kinds`), and that a caller who has a
final receipt tells what it says (`Delivery`). `ReceiptTrue` and `ExitCodeTrue`
need `Trail`, too, for what they say of the deadline: `Course` ties its reason and
its status to the clock reading, and an exit that passes for timely to a reading
before it. The proof needs the four stop
reasons to differ from the value for none (`ReasonsAssumption`).

`CapacityProxy_proofs`, for any number of requests and any cap:

- `ProxyTypeCorrect`, `CapHolds`, `ServerWithinCap`, `CountsTrue`.

None of the properties is inductive. The invariant says how a request's
connection, its exchange with the client, the server's answer and the proxy's
sets go together (`Connected`, `Holding`, `Ledger`), and which failures have been
counted (`Counted`).

`TracePage_proofs`, for traces of any length over any requests, scopes and
payloads, and any number of files being read:

- `AuditIsExact`, `ReportsAreTrue`, `LateReadsAreDropped`.

The auditor forgets: it keeps one state per request and one request per scope.
The invariant says what it still knows of each registering proposal
(`Standing`): whether it holds its scope, and, as long as it does, whether its
request waits for an approval, has one, or is used up. From this follows, for
each kind of event, that it is flagged if and only if it is unlawful
(`FlagsOfEvent`), and the standing is kept by every event (`StateStep`,
`ProposeStep`). For the page: it audits the text in the box or nothing, and a
read that still has the page's ticket is what the last input asked for
(`PageInv`).

`ModelEval_proofs`, for any studies with finitely many cases, any runners and any
order, number and interruption of the scripts:

- `FilesAreAccounted`, `FirstAnswersScored`, `HiddenDesignHolds`, `EffectsAreOfLinks`,
  `PathsAgreeOnPublicData`.

The invariant, `EvalInv`, says that each file on disk is of an accepted build, that
parsed rows keep the raw answer to each trial (`Retained`), and that a report is
the judgement of those answers by the mapping of the build that it names
(`Reported`); the three hash comparisons carry it from file to file. From it
and from what `Accepts` asks of a build follow the properties, without looking at
the steps again. Where answers ignore the links, the two conditions of a
template have the same content and so the same rows (`MatchedPair`), each term of the
sum of its effect is zero, and so is the sum (`IgnoringHasNoEffect`). Where they
follow the links, `Shuffles` leads the event's one link elsewhere
(`FollowingDiffers`); an event with a second link, to an action that is not allowed,
may be shuffled without any effect, which is why `EffectIsOfLinks` asks for one
option. The attempt to prove it without showed the case, which the run has now,
too (`Unlisted`).

`PathsAgree` relates two programs that share no code, and its proof has three
parts. First, on the data: what each link list and each case of a template is, and what
either baseline makes of it (`LinksHave`, `PublicCaseHas`, `FollowingIs`); it asks of
`TEMPLATES` only what `SmokeAssumption` says. Second, within a repeat: each primary
case is one trial and one row, with the same judgement (`StrictRowAgrees`), so that
cells, effects and counts are the same (`CellsAre`, `EffectAgrees`, `CountsAgree`).
Third, over the repeats: that the library's sum over a function is the sum of its
values is shown by a least counterexample among the finite subsets of its
domain (`SumIs`), which needs no induction theorem; so a count over all repeats
is the sum of the counts (`CountedByRepeat`, `SumsAgree`). The property speaks of the
mock's answers to the requests of the report's own study: no file binds raw
answers to the requests they are of, and in the study `Relinked` of the run the mock's
answers to one build are scored, without complaint, as another's.

`GitHub_proofs`, first for `ResponseLoss` and any number of operations:

- `LossTypeCorrect`, `OneMarkerEach`, `RecoveryIsTrue`, `VerdictHolds`.

The invariant says what may still arrive: every request under way is for a
marker that its operation has fixed, of a head that was there before
(`RequestsInv`), and a path is taken once (`BranchInv`), so that neither the late
request nor the retry can change what was read (`OperationInv`, `ReaderInv`).

Then for `Releases`, each of the seven scripts and any number of runs, assets,
attempts and edits:

- `PublishersTypeCorrect`, `OneReleaseOnly`, `OwnersTextIsKept`,
  `SuccessIsWhole` and, of every step, `PublishedWhole`.

Between a run's look at the release and its publishing any number of steps of
other runs may fall, and nothing locks the release. The argument is that a
release only grows (`Grows`): an asset that is there is never replaced or
deleted, whoever acts, because uploads are for names that are missing and
GitHub refuses one that is taken. So what a run has seen stays true (`Sees`), a
release that it judged complete is complete when it publishes it (`Judged`), and
once a complete release is public nothing takes it back (`Good`). A run that
starts again behind its preparation had passed it (`Prepared`). The
receipt's publishers also rely on their concurrency group (`OneAtATime`). For
the older release the invariant counts the owner's lines in the body and in the
body a run is about to write back, and the edits that it has not seen (`Text`);
the lemmas `Appended` and
`Prepended` say what a paragraph at either end does to that count.

## What is only model-checked

Liveness: `KeepsPromise`, the refinement of `ConfirmedEffect` with its fairness,
and `StopEndsRun` (the prover has no support for `ENABLED` and fairness). Every
invariant and action property that a passing run checks is also a theorem.

## A disagreement with the code's tests

`receipt_store_concurrent`: the constructor's mode check is not atomic with its
insert. Python's `sqlite3` opens a transaction before the `INSERT` and not
before the `SELECT`, so two processes that open a new file in different modes
can both succeed; the test `test_store_mode_cannot_change` expects the second
to be refused. From then on every later constructor raises, and the processes
that are open work under two policies. The probe opens its processes one after
the other and is not affected. The theorems of the store therefore assume
`~ConcurrentOpen`.

## What is not modelled, and why

- SQLite's own atomicity, its busy timeout and its files are taken as they are
  documented: a transaction happens or it does not. `RECEIPT_MISSING` raises and
  rolls back; it is unreachable (`ReceiptNeverMissing`) and has no action.
- LangGraph's saver, the MCP transport, GitHub, Node's HTTP and the model runner
  are outside the repository and are modelled from how the code uses them.
- Two resumes of one thread at once: `round_graph.py` leaves serializing them to
  its caller.
- `review` refuses requests that are not forms, and `begin` malformed input; no
  server or caller of the repository sends any. An answer over the size limit,
  or one that is not JSON, is one of the answers that change nothing.
- Records: process ids, times, versions and source hashes, and how the stdio
  capsule is packed.
- Supervisor: the descendants of the child, and fields that nothing decides on
  (times, `parent_signal_received`).
- Verifying programs: building environments, comparing installed modules with
  sources, the heartbeat after an exit, the signal by which the demo's deaf
  worker ended, and the old wheel that the upgrade starts from, which is not in
  this tree.
- What the properties except because the code does not prevent it: an owner's edit
  between comparison and write (`OwnerTextKept` counts them), a session that the
  server starts for a client that has left (`UpstreamWithinCap` counts them), and
  a second release of the tag that `evidence-0.1.0a1` publishes beside a whole
  one (`PublishesWhole`).
- Releases: the contents of the wheels, and the skill publisher's comparison of
  all other releases before and after. One older release stands for the two that
  get notices.
- Capacity proxy: the event journal, the bookkeeping of methods per session and
  of repeated deletes, and the driver `run-capacity-evidence.mjs`, which drives
  one fixed scenario against other projects' servers.
- Rule-use evaluation: the numbers of the bootstrap interval, probability
  formats and scores, and the scripts' writes of their own outputs, which only
  their `--check` reads. No file binds raw answers to the requests they were
  given to, nor predictions to the cases they are of; `EffectIsOfLinks` is stated
  for studies whose own requests were answered. A build with the same seed that
  falls between a script's check of a hash and its reading of that file would be
  scored under the manifest of the build before it; a script is one step here.
- Approval trace: the command line, which runs the same audit once, and the
  wording of reports and pages.
- Evidence server, result text, launcher and handoff bridge are queries and
  conversions without state. The remaining reproductions and archives drive
  other projects' code, or record its output.

## Plan

What is left are the parts above that are not modelled. A change of the code shows
first in the runs; the operator it changes is named in `PROJECT.json` under `map`,
and the theorems about it are those of the module's `_proofs`.
