---------------------------- MODULE ResponseLoss ----------------------------
(***************************************************************************)
(* contributions/github-response-loss/probe.py: each operation has a       *)
(* sender process hand a create request to the provider and exit without   *)
(* reading the response, then recovers the outcome from the provider's     *)
(* state, with one retry.  Several operations share the fixture branch.    *)
(* skills/github-write-reconcile/scripts/reconcile.py reads the same       *)
(* branch at any time, for any operation.                                  *)
(*                                                                         *)
(* The provider (GitHub's Contents API, external) handles a request once   *)
(* or never, at any time after it was sent - also after its sender, or     *)
(* the whole operation, is gone.                                           *)
(***************************************************************************)
EXTENDS Naturals, Sequences, FiniteSets

CONSTANTS
    Ops,            \* operation ids: one path and commit message each
    Foreign,        \* does another writer use the paths of operations?
    Nothing

Verdicts == {"content_match", "content_conflict", "absent_at_snapshot",
             "unknown"}

ASSUME LossAssumption ==
    /\ IsFiniteSet(Ops) /\ Foreign \in BOOLEAN
    /\ Nothing \notin Ops /\ Nothing \notin Nat /\ Nothing \notin Verdicts

VARIABLES
    branch,     \* the commits of the fixture branch, oldest first
    requests,   \* create requests sent and not yet handled
    stage,      \* op -> the step of its orchestrator
    initial,    \* op -> the head its orchestrator read before the request
    base,       \* op -> the head its sender read
    head,       \* op -> the head read by recover
    pinned,     \* op -> the snapshot commit of its reconcile reader
    verdict     \* op -> the reader's status

lossVars == <<branch, requests, stage, initial, base, head, pinned, verdict>>
provider == <<branch, requests>>
reader == <<pinned, verdict>>

\* The marker's bytes depend on the head its writer read; its path and commit
\* message on the operation alone.
Marker(n) == [parent |-> n]
Alien == [parent |-> Nothing]
Markers == [parent : Nat \cup {Nothing}]
Commits == [path : Ops, marker : Markers, message : Ops \cup {Nothing}]
Requests == [op : Ops, marker : Markers, retry : BOOLEAN]
Steps == {"start", "spawned", "sending", "exited", "look", "retried",
          "lookAgain", "check", "commits", "recovered", "failed"}

LossTypeOK ==
    /\ branch \in Seq(Commits)
    /\ requests \subseteq Requests
    /\ stage \in [Ops -> Steps]
    /\ initial \in [Ops -> Nat] /\ base \in [Ops -> Nat]
    /\ head \in [Ops -> Nat]
    /\ pinned \in [Ops -> Nat \cup {Nothing}]
    /\ verdict \in [Ops -> Verdicts \cup {Nothing}]

LossInit ==
    /\ branch = <<>> /\ requests = {}
    /\ stage = [o \in Ops |-> "start"]
    /\ initial = [o \in Ops |-> 0] /\ base = [o \in Ops |-> 0]
    /\ head = [o \in Ops |-> 0]
    /\ pinned = [o \in Ops |-> Nothing] /\ verdict = [o \in Ops |-> Nothing]
-----------------------------------------------------------------------------
OpAt(o, step) == stage[o] = step
OpGoto(o, step) == stage' = [stage EXCEPT ![o] = step]
\* The commits that touched the operation's path in the first n.
Touching(o, n) == {i \in 1 .. n : branch[i].path = o}
Absent(o, n) == Touching(o, n) = {}
\* The file at the path in snapshot n holds this marker.
Holds(o, n, marker) == \E i \in Touching(o, n) : branch[i].marker = marker

Commit(o, marker, message) ==
    branch' = Append(branch, [path |-> o, marker |-> marker,
                              message |-> message])

\* The provider handles a request: it creates the file on a free path (201),
\* or refuses (409, 422).  A server error says nothing of the commit.  Only a
\* retry has somebody who reads the status: anything but these three ends it.
Answered(q, code) ==
    stage' = IF q.retry /\ OpAt(q.op, "retried")
             THEN [stage EXCEPT ![q.op] =
                       IF code = "error" THEN "failed" ELSE "lookAgain"]
             ELSE stage

Handle(q) ==
    /\ requests' = requests \ {q}
    /\ \E code \in {"created", "refused", "error"} :
           /\ \/ /\ Absent(q.op, Len(branch)) /\ code # "refused"
                 /\ Commit(q.op, q.marker, q.op)
              \/ code # "created" /\ UNCHANGED branch
           /\ Answered(q, code)
    /\ UNCHANGED <<initial, base, head, reader>>

\* A request is lost on its way.
Drop(q) ==
    /\ requests' = requests \ {q}
    /\ UNCHANGED <<branch, stage, initial, base, head, reader>>

\* Somebody else creates a file at the path.
Collide(o) ==
    /\ Foreign /\ Absent(o, Len(branch))
    /\ Commit(o, Alien, Nothing)
    /\ UNCHANGED <<requests, stage, initial, base, head, reader>>
-----------------------------------------------------------------------------
\* orchestrate: the head that goes into the expected marker.
ReadInitial(o) ==
    /\ OpAt(o, "start")
    /\ initial' = [initial EXCEPT ![o] = Len(branch)]
    /\ OpGoto(o, "spawned")
    /\ UNCHANGED <<provider, base, head, reader>>

\* The sender process reads the head again and builds the marker from it.
SenderReads(o) ==
    /\ OpAt(o, "spawned")
    /\ base' = [base EXCEPT ![o] = Len(branch)]
    /\ OpGoto(o, "sending")
    /\ UNCHANGED <<provider, initial, head, reader>>

Put(o, marker, retry) ==
    requests' = requests \cup {[op |-> o, marker |-> marker, retry |-> retry]}

\* The body is handed over, the record written, and the process exits; or it
\* ends in another way, or is killed after 30 s, right after the send.
SenderSends(o) ==
    /\ OpAt(o, "sending")
    /\ Put(o, Marker(base[o]), FALSE)
    /\ OpGoto(o, "exited") \/ OpGoto(o, "failed")
    /\ UNCHANGED <<branch, initial, base, head, reader>>

\* The sender's record must be of the marker that will be looked for.
CompareMarkers(o) ==
    /\ OpAt(o, "exited")
    /\ OpGoto(o, IF base[o] = initial[o] THEN "look" ELSE "failed")
    /\ UNCHANGED <<provider, initial, base, head, reader>>

\* A lookup sees the file and compares blob and bytes; one that answers 404
\* is repeated.
Look(o) ==
    /\ stage[o] \in {"look", "lookAgain"}
    /\ ~ Absent(o, Len(branch))
    /\ OpGoto(o, IF Holds(o, Len(branch), Marker(initial[o])) THEN "check"
                 ELSE "failed")
    /\ UNCHANGED <<provider, initial, base, head, reader>>

\* Variant: the retry names a new operation, so it takes another path.
RetryElsewhere(o) ==
    /\ OpAt(o, "look")
    /\ \E p \in Ops : requests' = requests \cup
           {[op |-> p, marker |-> Marker(initial[o]), retry |-> TRUE]}
    /\ OpGoto(o, "retried")
    /\ UNCHANGED <<branch, initial, base, head, reader>>

\* Twelve seconds of 404: the same request once more.
Retry(o) ==
    /\ OpAt(o, "look")
    /\ Put(o, Marker(initial[o]), TRUE)
    /\ OpGoto(o, "retried")
    /\ UNCHANGED <<branch, initial, base, head, reader>>

ReadHead(o) ==
    /\ OpAt(o, "check")
    /\ head' = [head EXCEPT ![o] = Len(branch)]
    /\ OpGoto(o, "commits")
    /\ UNCHANGED <<provider, initial, base, reader>>

Matching(o) == {i \in Touching(o, Len(branch)) : branch[i].message = o}

\* Variant: one commit with the message is enough.
ReadCommitsLoosely(o) ==
    /\ OpAt(o, "commits")
    /\ OpGoto(o, IF Cardinality(Matching(o)) = 1 THEN "recovered"
                 ELSE "failed")
    /\ UNCHANGED <<provider, initial, base, head, reader>>

\* One commit with the message, it is the head that was read, and the head
\* has moved since the beginning.
ReadCommits(o) ==
    /\ OpAt(o, "commits")
    /\ OpGoto(o, IF /\ Cardinality(Matching(o)) = 1
                    /\ head[o] \in Matching(o)
                    /\ head[o] # initial[o]
                 THEN "recovered" ELSE "failed")
    /\ UNCHANGED <<provider, initial, base, head, reader>>

\* A lookup or a connection fails, the sender ends before it sends, or twenty
\* more lookups answer 404.  What was sent may still be handled.
OpFails(o) ==
    /\ stage[o] \notin {"exited", "recovered", "failed"}
    /\ OpGoto(o, "failed")
    /\ UNCHANGED <<provider, initial, base, head, reader>>

Orchestrator(o) ==
    \/ ReadInitial(o) \/ SenderReads(o) \/ SenderSends(o)
    \/ CompareMarkers(o) \/ Look(o) \/ Retry(o)
    \/ ReadHead(o) \/ ReadCommits(o) \/ OpFails(o)
-----------------------------------------------------------------------------
\* reconcile, for the operation's path and the bytes its sender built: the
\* branch is resolved once.
Pin(o) ==
    /\ pinned[o] = Nothing /\ stage[o] \notin {"start", "spawned"}
    /\ pinned' = [pinned EXCEPT ![o] = Len(branch)]
    /\ UNCHANGED <<provider, stage, initial, base, head, verdict>>

StatusAt(o, n) ==
    IF Absent(o, n) THEN "absent_at_snapshot"
    ELSE IF Holds(o, n, Marker(base[o])) THEN "content_match"
    ELSE "content_conflict"

Conclude(o, status) ==
    /\ pinned[o] # Nothing /\ verdict[o] = Nothing
    /\ verdict' = [verdict EXCEPT ![o] = status]
    /\ UNCHANGED <<provider, stage, initial, base, head, pinned>>

\* Variant: the file is read from the branch, which has moved on.
ReadBranch(o) == Conclude(o, StatusAt(o, Len(branch)))

\* Commit, tree and blob are immutable: all later reads are of the snapshot.
ReadSnapshot(o) == Conclude(o, StatusAt(o, pinned[o]))

\* Whatever a read refuses or cannot get.
ReadFails(o) == Conclude(o, "unknown")

LossNext ==
    \/ \E o \in Ops : Orchestrator(o) \/ Collide(o)
    \/ \E o \in Ops : Pin(o) \/ ReadSnapshot(o) \/ ReadFails(o)
    \/ \E q \in requests : Handle(q) \/ Drop(q)

LossSpec == LossInit /\ [][LossNext]_lossVars
-----------------------------------------------------------------------------
\* A lost response, its late handling and its retry make one file and one
\* commit per operation, also for an operation that failed meanwhile: whatever
\* lies at its path was built by one of its processes or by the other writer.
OneMarker ==
    \A o \in Ops :
        /\ Cardinality(Touching(o, Len(branch))) <= 1
        /\ \A i \in Touching(o, Len(branch)) :
               branch[i].marker \in
                   {Marker(initial[o]), Marker(base[o]), Alien}

\* A recovered operation names the one commit of its request: the provider
\* holds exactly the bytes expected before the send, in a commit made after the
\* head those bytes name, which was the head of the branch when it was read.
RecoveredIsTrue ==
    \A o \in Ops : OpAt(o, "recovered") =>
        /\ Matching(o) = {head[o]}
        /\ branch[head[o]].marker = Marker(initial[o])
        /\ head[o] > initial[o]

\* A reader's verdict is about the commit it pinned, whatever the branch did
\* while it read: a match is a fact for good, an absence is one of the past.
VerdictOfSnapshot ==
    \A o \in Ops :
        /\ verdict[o] = "content_match" =>
               Holds(o, pinned[o], Marker(base[o]))
        /\ verdict[o] = "absent_at_snapshot" => Absent(o, pinned[o])
=============================================================================
