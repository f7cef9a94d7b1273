--------------------------- MODULE GitHub_proofs ---------------------------
(***************************************************************************)
(* The safety properties of the two modules with GitHub on the other side, *)
(* for any number of operations, runs, assets, attempts and edits.         *)
(*                                                                         *)
(* The first part is about ResponseLoss.  The invariant is about the       *)
(* branch, on which a path is taken once, and about what may still arrive: *)
(* requests of senders and retries, however late, are for a marker their   *)
(* operation has fixed by then.                                            *)
(*                                                                         *)
(* The second part is about the publishers of Releases.  What a publisher  *)
(* saw of a release stays true of it (Sees), because nobody replaces or    *)
(* deletes an asset that is there (Grows); so a release that a run judged  *)
(* complete is still complete when the run makes it public (Judged), and a *)
(* public complete release stays one (Good).                               *)
(***************************************************************************)
EXTENDS ResponseLoss, Releases, SequenceTheorems, FiniteSetTheorems, TLAPS

(* Part 1: ResponseLoss.                                                   *)

\* Has the operation fixed the heads its markers may name?
Fixed(o) == stage[o] \notin {"start", "spawned", "sending"}

OwnMarkers(o) == {Marker(initial[o]), Marker(base[o])}

\* A marker names a head that was there before commit n.
Before(marker, n) ==
    marker.parent \in Nat /\ marker.parent < n

BranchInv ==
    /\ \A i, j \in DOMAIN branch : branch[i].path = branch[j].path => i = j
    /\ \A i \in DOMAIN branch :
           \/ branch[i].message = Nothing /\ branch[i].marker = Alien
           \/ /\ branch[i].message = branch[i].path
              /\ branch[i].marker \in OwnMarkers(branch[i].path)
              /\ Before(branch[i].marker, i)
              /\ Fixed(branch[i].path)

RequestsInv ==
    \A q \in requests :
        /\ q.marker \in OwnMarkers(q.op)
        /\ Before(q.marker, Len(branch) + 1)
        /\ Fixed(q.op)

OperationInv(o) ==
    /\ initial[o] <= Len(branch) /\ base[o] <= Len(branch)
    /\ stage[o] \in {"look", "retried", "lookAgain", "check", "commits",
                  "recovered"} => base[o] = initial[o]
    /\ OpAt(o, "recovered") => Matching(o) = {head[o]}

ReaderInv(o) ==
    /\ pinned[o] = Nothing => verdict[o] = Nothing
    /\ pinned[o] # Nothing => /\ pinned[o] <= Len(branch)
                              /\ stage[o] \notin {"start", "spawned"}
    /\ verdict[o] = "content_match" => Holds(o, pinned[o], Marker(base[o]))
    /\ verdict[o] = "absent_at_snapshot" => Absent(o, pinned[o])

LossInv ==
    /\ LossTypeOK /\ BranchInv /\ RequestsInv
    /\ \A o \in Ops : OperationInv(o) /\ ReaderInv(o)

\* The initial states satisfy the invariant.
LEMMA LossStarts == LossInit => LossInv
<1> SUFFICES ASSUME LossInit PROVE LossInv
  OBVIOUS
<1> USE DEF LossInit
<1>1. branch \in Seq(Commits) /\ Len(branch) = 0 /\ DOMAIN branch = {}
  OBVIOUS
<1>2. LossTypeOK
  BY <1>1 DEF LossTypeOK, Steps
<1>3. BranchInv /\ RequestsInv
  BY <1>1 DEF BranchInv, RequestsInv
<1>4. ASSUME NEW o \in Ops PROVE OperationInv(o) /\ ReaderInv(o)
  BY <1>1, LossAssumption DEF OperationInv, ReaderInv, OpAt, Verdicts
<1> QED
  BY <1>2, <1>3, <1>4 DEF LossInv

LEMMA BranchType ==
    ASSUME LossTypeOK
    PROVE  /\ Len(branch) \in Nat /\ DOMAIN branch = 1 .. Len(branch)
           /\ \A i \in DOMAIN branch : branch[i] \in Commits
BY DEF LossTypeOK

\* What an appended commit leaves as it was.
LEMMA BranchAppended ==
    ASSUME LossTypeOK, NEW o \in Ops, NEW marker \in Markers,
           NEW message \in Ops \cup {Nothing}, Commit(o, marker, message)
    PROVE  /\ branch' \in Seq(Commits)
           /\ Len(branch') = Len(branch) + 1
           /\ \A i \in 1 .. Len(branch) : branch'[i] = branch[i]
           /\ branch'[Len(branch) + 1] =
                  [path |-> o, marker |-> marker, message |-> message]
BY DEF LossTypeOK, Commit, Commits

\* Snapshots that are in the past of the branch stay as they are.
LEMMA PastIsFixed ==
    ASSUME LossTypeOK, NEW n \in Nat, n <= Len(branch),
           \A i \in 1 .. Len(branch) : branch'[i] = branch[i]
    PROVE  \A o \in Ops : /\ Touching(o, n)' = Touching(o, n)
                          /\ Absent(o, n)' = Absent(o, n)
                          /\ \A marker \in Markers :
                                 Holds(o, n, marker)' = Holds(o, n, marker)
BY BranchType DEF Touching, Absent, Holds

\* A commit on a free path keeps the invariant, if it is the other writer's or
\* a request's.
LEMMA CommitStep ==
    ASSUME LossInv, NEW o \in Ops, NEW marker \in Markers,
           NEW message \in Ops \cup {Nothing}, Commit(o, marker, message),
           Absent(o, Len(branch)),
           \/ message = Nothing /\ marker = Alien
           \/ /\ message = o /\ marker \in OwnMarkers(o)
              /\ Before(marker, Len(branch) + 1) /\ Fixed(o),
           requests' \subseteq requests, UNCHANGED <<initial, base, head, reader>>,
           \A p \in Ops :
               \/ stage'[p] = stage[p]
               \/ /\ stage[p] = "retried" /\ stage'[p] \in {"failed", "lookAgain"},
           stage' \in [Ops -> Steps]
    PROVE  LossInv'
<1> USE DEF LossInv
<1>1. /\ branch' \in Seq(Commits) /\ Len(branch) \in Nat
      /\ Len(branch') = Len(branch) + 1
      /\ \A i \in 1 .. Len(branch) : branch'[i] = branch[i]
      /\ branch'[Len(branch) + 1] =
             [path |-> o, marker |-> marker, message |-> message]
      /\ DOMAIN branch = 1 .. Len(branch)
      /\ DOMAIN branch' = 1 .. Len(branch) + 1
  BY BranchAppended, BranchType
<1>2. \A i \in 1 .. Len(branch) : branch[i].path # o
  BY DEF Absent, Touching
<1>3. LossTypeOK'
  BY <1>1 DEF LossTypeOK, reader
<1>4. \A p \in Ops : /\ OwnMarkers(p)' = OwnMarkers(p)
                     /\ Fixed(p) => Fixed(p)'
  BY DEF OwnMarkers, Fixed
<1>5. BranchInv'
  <2>1. \A i \in DOMAIN branch' :
            \/ i \in DOMAIN branch /\ branch'[i] = branch[i]
            \/ /\ i = Len(branch) + 1
               /\ branch'[i] =
                      [path |-> o, marker |-> marker, message |-> message]
    BY <1>1
  <2>2. ASSUME NEW i \in DOMAIN branch', NEW j \in DOMAIN branch',
               branch'[i].path = branch'[j].path
        PROVE  i = j
    BY <1>2, <1>1, <2>1, <2>2 DEF BranchInv
  <2>3. ASSUME NEW i \in DOMAIN branch'
        PROVE  \/ branch'[i].message = Nothing /\ branch'[i].marker = Alien
               \/ /\ branch'[i].message = branch'[i].path
                  /\ branch'[i].marker \in OwnMarkers(branch'[i].path)
                  /\ Before(branch'[i].marker, i)
                  /\ Fixed(branch'[i].path)
    BY <2>1 DEF BranchInv
  <2>4. \A i \in DOMAIN branch' : branch'[i].path \in Ops
    BY <1>1, <2>1, BranchType DEF Commits
  <2> QED
    BY <1>4, <2>2, <2>3, <2>4 DEF BranchInv, Before
<1>6. RequestsInv'
  BY <1>1, <1>4 DEF RequestsInv, Before, LossTypeOK, Requests
<1>7. ASSUME NEW p \in Ops PROVE OperationInv(p)'
  <2>1. stage'[p] = "recovered" => stage[p] = "recovered"
    OBVIOUS
  <2>2. stage[p] = "recovered" => Matching(p)' = Matching(p)
    <3>1. SUFFICES ASSUME stage[p] = "recovered" PROVE Matching(p)' = Matching(p)
      OBVIOUS
    <3>2. Matching(p) # {}
      BY <3>1 DEF OperationInv, OpAt
    <3>3. p # o
      BY <1>2, <3>2 DEF Matching, Touching
    <3> QED
      BY <1>1, <3>3 DEF Matching, Touching
  <2> QED
    BY <1>1, <2>1, <2>2 DEF OperationInv, OpAt, LossTypeOK
<1>8. ASSUME NEW p \in Ops PROVE ReaderInv(p)'
  <2>1. CASE pinned[p] = Nothing
    BY <2>1, LossAssumption DEF ReaderInv, reader, Verdicts
  <2>2. CASE pinned[p] # Nothing
    <3>1. pinned[p] \in Nat /\ pinned[p] <= Len(branch)
      BY <2>2 DEF ReaderInv, LossTypeOK
    <3>2. Marker(base[p]) \in Markers
      BY DEF LossTypeOK, Marker, Markers
    <3>3. /\ Absent(p, pinned[p])' = Absent(p, pinned[p])
          /\ Holds(p, pinned[p], Marker(base[p]))' =
                 Holds(p, pinned[p], Marker(base[p]))
      BY <1>1, <3>1, <3>2, PastIsFixed DEF reader, Absent, Holds, Touching
    <3> QED
      BY <1>1, <2>2, <3>1, <3>3 DEF ReaderInv, reader
  <2> QED
    BY <2>1, <2>2
<1> QED
  BY <1>3, <1>5, <1>6, <1>7, <1>8

\* A step of the provider that makes no commit: a request is gone, a retry may
\* have been answered.
LEMMA NoCommitStep ==
    ASSUME LossInv, requests' \subseteq requests,
           UNCHANGED <<branch, initial, base, head, reader>>,
           stage' \in [Ops -> Steps],
           \A p \in Ops :
               \/ stage'[p] = stage[p]
               \/ stage[p] = "retried" /\ stage'[p] \in {"failed", "lookAgain"}
    PROVE  LossInv'
<1> USE DEF LossInv
<1>1. LossTypeOK'
  BY DEF LossTypeOK, reader
<1>2. \A p \in Ops : /\ OwnMarkers(p)' = OwnMarkers(p)
                     /\ Fixed(p) => Fixed(p)'
  BY DEF OwnMarkers, Fixed
<1>3. \A i \in DOMAIN branch : branch[i].path \in Ops
  BY BranchType DEF Commits
<1>4. BranchInv'
  BY <1>2, <1>3 DEF BranchInv, Before
<1>5. RequestsInv'
  BY <1>2 DEF RequestsInv, Before, LossTypeOK, Requests
<1>6. ASSUME NEW p \in Ops PROVE OperationInv(p)'
  BY DEF OperationInv, OpAt, Matching, Touching
<1>7. ASSUME NEW p \in Ops PROVE ReaderInv(p)'
  BY DEF ReaderInv, reader, Holds, Absent, Touching
<1> QED
  BY <1>1, <1>4, <1>5, <1>6, <1>7

\* A step of an orchestrator whose markers are fixed with it.
LEMMA OrchestratorStep ==
    ASSUME LossInv, NEW o \in Ops,
           NEW s \in Steps \ {"start", "spawned", "sending"}, OpGoto(o, s),
           UNCHANGED <<branch, initial, base, reader>>,
           head' \in [Ops -> Nat],
           \A p \in Ops : p # o => head'[p] = head[p],
           requests' \subseteq Requests,
           \A q \in requests' :
               \/ q \in requests
               \/ /\ q.op = o /\ q.marker \in OwnMarkers(o)
                  /\ Before(q.marker, Len(branch) + 1),
           s \in {"look", "retried", "lookAgain", "check", "commits",
                 "recovered"} => base[o] = initial[o],
           s = "recovered" => Matching(o) = {head'[o]}
    PROVE  LossInv'
<1> USE DEF LossInv
<1>1. stage \in [Ops -> Steps] /\ stage' = [stage EXCEPT ![o] = s]
  BY DEF LossTypeOK, OpGoto
<1>2. LossTypeOK'
  BY <1>1 DEF LossTypeOK, reader
<1>3. \A p \in Ops : /\ OwnMarkers(p)' = OwnMarkers(p)
                     /\ Fixed(p) => Fixed(p)'
  BY <1>1 DEF OwnMarkers, Fixed
<1>4. Fixed(o)'
  BY <1>1 DEF Fixed
<1>5. \A i \in DOMAIN branch : branch[i].path \in Ops
  BY BranchType DEF Commits
<1>6. BranchInv'
  BY <1>3, <1>5 DEF BranchInv, Before
<1>7. RequestsInv'
  BY <1>3, <1>4 DEF RequestsInv, Before, LossTypeOK, Requests
<1>8. ASSUME NEW p \in Ops PROVE OperationInv(p)'
  <2>1. Matching(p)' = Matching(p)
    BY DEF Matching, Touching
  <2> QED
    BY <1>1, <2>1 DEF OperationInv, OpAt
<1>9. ASSUME NEW p \in Ops PROVE ReaderInv(p)'
  BY <1>1 DEF ReaderInv, reader, Holds, Absent, Touching
<1> QED
  BY <1>2, <1>6, <1>7, <1>8, <1>9

\* An operation that reads a head has no marker anywhere yet.
LEMMA HeadStep ==
    ASSUME LossInv, NEW o \in Ops, ReadInitial(o) \/ SenderReads(o)
    PROVE  LossInv'
<1> USE DEF LossInv
<1> DEFINE n == Len(branch)
<1>1. n \in Nat /\ DOMAIN branch = 1 .. n
      /\ \A i \in DOMAIN branch : branch[i] \in Commits
  BY BranchType
<1>2. /\ UNCHANGED <<branch, requests, head, pinned, verdict>>
      /\ ~ Fixed(o)
      /\ initial' \in [Ops -> Nat] /\ base' \in [Ops -> Nat]
      /\ stage' \in [Ops -> Steps] /\ stage'[o] \in {"spawned", "sending"}
      /\ initial'[o] <= n /\ base'[o] <= n
      /\ \A p \in Ops : p # o => /\ initial'[p] = initial[p]
                                 /\ base'[p] = base[p] /\ stage'[p] = stage[p]
  <2>1. /\ stage \in [Ops -> Steps] /\ initial \in [Ops -> Nat]
        /\ base \in [Ops -> Nat] /\ initial[o] <= n /\ base[o] <= n
    BY DEF LossTypeOK, OperationInv
  <2>2. CASE ReadInitial(o)
    BY <1>1, <2>1, <2>2 DEF ReadInitial, OpAt, OpGoto, Steps, Fixed, provider,
                            reader
  <2>3. CASE SenderReads(o)
    BY <1>1, <2>1, <2>3 DEF SenderReads, OpAt, OpGoto, Steps, Fixed, provider,
                            reader
  <2> QED
    BY <2>2, <2>3
<1>3. LossTypeOK'
  BY <1>2 DEF LossTypeOK
<1>4. \A p \in Ops : Fixed(p) => /\ OwnMarkers(p)' = OwnMarkers(p)
                                 /\ Fixed(p)'
  BY <1>2 DEF OwnMarkers, Fixed
<1>5. BranchInv'
  BY <1>1, <1>2, <1>4 DEF BranchInv, Before, Commits
<1>6. RequestsInv'
  BY <1>2, <1>4 DEF RequestsInv, Before, LossTypeOK, Requests
<1>7. ASSUME NEW p \in Ops PROVE OperationInv(p)'
  BY <1>2 DEF OperationInv, OpAt, Matching, Touching
<1>8. ASSUME NEW p \in Ops PROVE ReaderInv(p)'
  <2>1. CASE p # o
    BY <1>2, <2>1 DEF ReaderInv, Holds, Absent, Touching
  <2>2. CASE p = o /\ stage[o] = "start"
    BY <1>2, <2>2, LossAssumption DEF ReaderInv, Verdicts
  <2>3. CASE p = o /\ stage[o] # "start"
    <3>1. stage[o] = "spawned"
      BY <2>3 DEF ReadInitial, SenderReads, OpAt
    <3>2. pinned[o] = Nothing /\ verdict[o] = Nothing
      BY <3>1 DEF ReaderInv
    <3> QED
      BY <1>2, <2>3, <3>2, LossAssumption DEF ReaderInv, Verdicts
  <2> QED
    BY <2>1, <2>2, <2>3
<1> QED
  BY <1>3, <1>5, <1>6, <1>7, <1>8

\* A step of the reader.
LEMMA ReaderStep ==
    ASSUME LossInv, NEW o \in Ops, Pin(o) \/ ReadSnapshot(o) \/ ReadFails(o)
    PROVE  LossInv'
<1> USE DEF LossInv
<1>1. /\ UNCHANGED <<branch, requests, stage, initial, base, head>>
      /\ Len(branch) \in Nat
  BY BranchType DEF Pin, ReadSnapshot, ReadFails, Conclude, provider
<1>2. LossTypeOK'
  BY <1>1 DEF LossTypeOK, Pin, ReadSnapshot, ReadFails, Conclude, StatusAt,
              Verdicts
<1>3. BranchInv' /\ RequestsInv' /\ \A p \in Ops : OperationInv(p)'
  BY <1>1 DEF BranchInv, RequestsInv, OperationInv, OwnMarkers, Before, Fixed,
              OpAt, Matching, Touching
<1>4. ASSUME NEW p \in Ops PROVE ReaderInv(p)'
  <2>1. /\ Absent(p, pinned[p])' = Absent(p, pinned'[p])
        /\ Holds(p, pinned[p], Marker(base[p]))' =
               Holds(p, pinned'[p], Marker(base[p]))
    BY <1>1 DEF Absent, Holds, Touching
  <2>2. CASE p # o
    <3>1. pinned'[p] = pinned[p] /\ verdict'[p] = verdict[p]
      BY <2>2 DEF Pin, ReadSnapshot, ReadFails, Conclude, LossTypeOK
    <3> QED
      BY <1>1, <2>1, <3>1 DEF ReaderInv
  <2>3. CASE p = o /\ Pin(o)
    <3>1. pinned'[o] = Len(branch) /\ verdict'[o] = Nothing
      BY <2>3 DEF Pin, ReaderInv, LossTypeOK
    <3>2. pinned'[o] # Nothing
      BY <1>1, <3>1, LossAssumption
    <3> QED
      BY <1>1, <2>3, <3>1, <3>2, LossAssumption DEF ReaderInv, Verdicts, Pin
  <2>4. CASE p = o /\ ReadSnapshot(o)
    <3>1. pinned'[o] = pinned[o] /\ pinned[o] # Nothing
          /\ verdict'[o] = StatusAt(o, pinned[o])
      BY <2>4 DEF ReadSnapshot, Conclude, LossTypeOK
    <3> QED
      BY <1>1, <2>1, <2>4, <3>1 DEF ReaderInv, StatusAt
  <2>5. CASE p = o /\ ReadFails(o)
    <3>1. pinned'[o] = pinned[o] /\ pinned[o] # Nothing
          /\ verdict'[o] = "unknown"
      BY <2>5 DEF ReadFails, Conclude, LossTypeOK
    <3> QED
      BY <1>1, <2>5, <3>1 DEF ReaderInv
  <2> QED
    BY <2>2, <2>3, <2>4, <2>5
<1> QED
  BY <1>2, <1>3, <1>4

\* The step of an orchestrator.
LEMMA OrchestratorMoves ==
    ASSUME LossInv, NEW o \in Ops, Orchestrator(o)
    PROVE  LossInv'
<1> DEFINE Quiet ==
        /\ UNCHANGED <<branch, initial, base, reader>>
        /\ head' \in [Ops -> Nat]
        /\ \A p \in Ops : p # o => head'[p] = head[p]
<1>1. /\ Len(branch) \in Nat /\ requests \subseteq Requests
      /\ head \in [Ops -> Nat] /\ Marker(base[o]) \in Markers
      /\ Marker(initial[o]) \in Markers
      /\ Before(Marker(base[o]), Len(branch) + 1)
      /\ Before(Marker(initial[o]), Len(branch) + 1)
      /\ stage[o] \in {"look", "retried", "lookAgain", "check", "commits",
                    "recovered"} => base[o] = initial[o]
  BY BranchType DEF LossInv, LossTypeOK, OperationInv, Marker, Markers, Before
<1>2. CASE ReadInitial(o) \/ SenderReads(o)
  BY <1>2, HeadStep
<1>3. CASE SenderSends(o)
  <2>1. PICK s \in {"exited", "failed"} : OpGoto(o, s)
    BY <1>3 DEF SenderSends
  <2>2. /\ Quiet /\ requests' \subseteq Requests
        /\ \A q \in requests' : q \in requests \/
               (q.op = o /\ q.marker \in OwnMarkers(o)
                /\ Before(q.marker, Len(branch) + 1))
    <3> DEFINE r == [op |-> o, marker |-> Marker(base[o]), retry |-> FALSE]
    <3>1. r \in Requests
      BY <1>1 DEF Requests
    <3>2. requests' = requests \cup {r}
      BY <1>3 DEF SenderSends, Put
    <3>3. r.op = o /\ r.marker = Marker(base[o])
      OBVIOUS
    <3>4. Quiet
      BY <1>1, <1>3 DEF SenderSends
    <3> HIDE DEF r
    <3> QED
      BY <1>1, <3>1, <3>2, <3>3, <3>4 DEF OwnMarkers
  <2> QED
    BY <2>1, <2>2, OrchestratorStep DEF Steps
<1>4. CASE Retry(o)
  <2>1. OpGoto(o, "retried") /\ base[o] = initial[o]
    BY <1>1, <1>4 DEF Retry, OpAt
  <2>2. /\ Quiet /\ requests' \subseteq Requests
        /\ \A q \in requests' : q \in requests \/
               (q.op = o /\ q.marker \in OwnMarkers(o)
                /\ Before(q.marker, Len(branch) + 1))
    <3> DEFINE r == [op |-> o, marker |-> Marker(initial[o]), retry |-> TRUE]
    <3>1. r \in Requests
      BY <1>1 DEF Requests
    <3>2. requests' = requests \cup {r}
      BY <1>4 DEF Retry, Put
    <3>3. r.op = o /\ r.marker = Marker(initial[o])
      OBVIOUS
    <3>4. Quiet
      BY <1>1, <1>4 DEF Retry
    <3> HIDE DEF r
    <3> QED
      BY <1>1, <3>1, <3>2, <3>3, <3>4 DEF OwnMarkers
  <2> QED
    BY <2>1, <2>2, OrchestratorStep DEF Steps
<1>5. CASE CompareMarkers(o)
  <2>1. PICK s \in {"look", "failed"} :
            OpGoto(o, s) /\ (s = "look" => base[o] = initial[o])
    BY <1>5 DEF CompareMarkers
  <2>2. Quiet /\ UNCHANGED requests
    BY <1>1, <1>5 DEF CompareMarkers, provider
  <2> QED
    BY <1>1, <2>1, <2>2, OrchestratorStep DEF Steps
<1>6. CASE Look(o)
  <2>1. PICK s \in {"check", "failed"} : OpGoto(o, s)
    BY <1>6 DEF Look
  <2>2. Quiet /\ UNCHANGED requests /\ base[o] = initial[o]
    BY <1>1, <1>6 DEF Look, provider
  <2> QED
    BY <1>1, <2>1, <2>2, OrchestratorStep DEF Steps
<1>7. CASE ReadHead(o)
  <2>1. OpGoto(o, "commits") /\ base[o] = initial[o]
    BY <1>1, <1>7 DEF ReadHead, OpAt
  <2>2. Quiet /\ UNCHANGED requests
    BY <1>1, <1>7 DEF ReadHead, provider
  <2> QED
    BY <1>1, <2>1, <2>2, OrchestratorStep DEF Steps
<1>8. CASE ReadCommits(o)
  <2>1. PICK s \in {"recovered", "failed"} :
            /\ OpGoto(o, s)
            /\ s = "recovered" => /\ Cardinality(Matching(o)) = 1
                                  /\ head[o] \in Matching(o)
    BY <1>8 DEF ReadCommits
  <2>2. Quiet /\ UNCHANGED <<requests, head>> /\ base[o] = initial[o]
    BY <1>1, <1>8 DEF ReadCommits, provider, OpAt
  <2>3. s = "recovered" => Matching(o) = {head[o]}
    <3>1. head[o] \in Matching(o) => \A i \in Matching(o) : i = head[o]
      BY BranchType DEF LossInv, BranchInv, Matching, Touching
    <3> QED
      BY <2>1, <3>1
  <2> QED
    BY <1>1, <2>1, <2>2, <2>3, OrchestratorStep DEF Steps
<1>9. CASE OpFails(o)
  <2>1. OpGoto(o, "failed")
    BY <1>9 DEF OpFails
  <2>2. Quiet /\ UNCHANGED requests
    BY <1>1, <1>9 DEF OpFails, provider
  <2> QED
    BY <1>1, <2>1, <2>2, OrchestratorStep DEF Steps
<1> QED
  BY <1>2, <1>3, <1>4, <1>5, <1>6, <1>7, <1>8, <1>9 DEF Orchestrator

\* The provider's answer moves nobody but a retry that waits for it.
LEMMA AnsweredMoves ==
    ASSUME LossInv, NEW q \in requests, NEW code, Answered(q, code)
    PROVE  /\ stage' \in [Ops -> Steps]
           /\ \A p \in Ops :
                  \/ stage'[p] = stage[p]
                  \/ stage[p] = "retried" /\ stage'[p] \in {"failed", "lookAgain"}
<1>1. stage \in [Ops -> Steps] /\ q.op \in Ops
  BY DEF LossInv, LossTypeOK, Requests
<1>2. CASE stage' = stage
  BY <1>1, <1>2
<1>3. CASE stage' # stage
  <2>1. /\ stage[q.op] = "retried"
        /\ \/ stage' = [stage EXCEPT ![q.op] = "failed"]
           \/ stage' = [stage EXCEPT ![q.op] = "lookAgain"]
    BY <1>3 DEF Answered, OpAt
  <2> QED
    BY <1>1, <2>1 DEF Steps
<1> QED
  BY <1>2, <1>3

\* The step of the provider, or of the other writer.
LEMMA ProviderMoves ==
    ASSUME LossInv,
           \/ \E o \in Ops : Collide(o)
           \/ \E q \in requests : Handle(q) \/ Drop(q)
    PROVE  LossInv'
<1>1. ASSUME NEW o \in Ops, Collide(o) PROVE LossInv'
  <2>1. Alien \in Markers /\ stage \in [Ops -> Steps]
    BY DEF Alien, Markers, LossInv, LossTypeOK
  <2> QED
    BY <1>1, <2>1, CommitStep DEF Collide
<1>2. ASSUME NEW q \in requests, Drop(q) PROVE LossInv'
  <2>1. stage \in [Ops -> Steps]
    BY DEF LossInv, LossTypeOK
  <2> QED
    BY <1>2, <2>1, NoCommitStep DEF Drop
<1>3. ASSUME NEW q \in requests, Handle(q) PROVE LossInv'
  <2>1. /\ requests' \subseteq requests
        /\ UNCHANGED <<initial, base, head, reader>>
    BY <1>3 DEF Handle
  <2>2. PICK code :
            /\ Answered(q, code)
            /\ \/ UNCHANGED branch
               \/ /\ Absent(q.op, Len(branch))
                  /\ Commit(q.op, q.marker, q.op)
    BY <1>3 DEF Handle
  <2>3. /\ stage' \in [Ops -> Steps]
        /\ \A p \in Ops :
               \/ stage'[p] = stage[p]
               \/ stage[p] = "retried" /\ stage'[p] \in {"failed", "lookAgain"}
    BY <2>2, AnsweredMoves
  <2>4. /\ q.op \in Ops /\ q.marker \in Markers
        /\ q.marker \in OwnMarkers(q.op)
        /\ Before(q.marker, Len(branch) + 1) /\ Fixed(q.op)
    BY DEF LossInv, LossTypeOK, Requests, RequestsInv
  <2>5. CASE UNCHANGED branch
    BY <2>1, <2>3, <2>5, NoCommitStep
  <2>6. CASE Absent(q.op, Len(branch)) /\ Commit(q.op, q.marker, q.op)
    BY <2>1, <2>3, <2>4, <2>6, CommitStep
  <2> QED
    BY <2>2, <2>5, <2>6
<1> QED
  BY <1>1, <1>2, <1>3

\* The invariant is inductive.
LEMMA LossMoves == LossInv /\ [LossNext]_lossVars => LossInv'
<1> SUFFICES ASSUME LossInv, [LossNext]_lossVars PROVE LossInv'
  OBVIOUS
<1>1. CASE UNCHANGED lossVars
  <2>1. UNCHANGED <<branch, initial, base, head, reader>> /\ stage' = stage
        /\ requests' = requests
    BY <1>1 DEF lossVars, reader
  <2> QED
    BY <2>1, NoCommitStep DEF LossInv, LossTypeOK
<1>2. ASSUME NEW o \in Ops, Orchestrator(o) PROVE LossInv'
  BY <1>2, OrchestratorMoves
<1>3. ASSUME NEW o \in Ops, Pin(o) \/ ReadSnapshot(o) \/ ReadFails(o)
      PROVE  LossInv'
  BY <1>3, ReaderStep
<1> QED
  BY <1>1, <1>2, <1>3, ProviderMoves DEF LossNext

LEMMA LossAlways == LossSpec => []LossInv
BY LossStarts, LossMoves, PTL DEF LossSpec

\* The variables have their types in every reachable state.
THEOREM LossTypeCorrect == LossSpec => []LossTypeOK
<1>1. LossInv => LossTypeOK
  BY DEF LossInv
<1> QED
  BY <1>1, LossAlways, PTL

\* Whatever is lost, late or sent twice, an operation makes one file and one
\* commit, with the bytes one of its processes built.
THEOREM OneMarkerEach == LossSpec => []OneMarker
<1>1. LossInv => OneMarker
  <2> SUFFICES ASSUME LossInv, NEW o \in Ops
               PROVE  /\ Cardinality(Touching(o, Len(branch))) <= 1
                      /\ \A i \in Touching(o, Len(branch)) :
                             branch[i].marker \in
                                 {Marker(initial[o]), Marker(base[o]), Alien}
    BY DEF OneMarker
  <2> DEFINE T == Touching(o, Len(branch))
  <2>1. \A i, j \in T : i = j
    BY BranchType DEF LossInv, BranchInv, Touching
  <2>2. CASE T = {}
    BY <2>2, FS_EmptySet
  <2>3. ASSUME NEW i \in T
        PROVE  /\ Cardinality(T) = 1
               /\ branch[i].marker \in
                      {Marker(initial[o]), Marker(base[o]), Alien}
    <3>1. T = {i}
      BY <2>1, <2>3
    <3>2. branch[i].marker \in OwnMarkers(o) \cup {Alien}
      BY BranchType DEF LossInv, BranchInv, Touching
    <3> QED
      BY <3>1, <3>2, FS_Singleton DEF OwnMarkers
  <2> QED
    BY <2>2, <2>3
<1> QED
  BY <1>1, LossAlways, PTL

\* An operation that reports a recovery names its own and only commit, made
\* after the head its bytes name.
THEOREM RecoveryIsTrue == LossSpec => []RecoveredIsTrue
<1>1. LossInv => RecoveredIsTrue
  <2> SUFFICES ASSUME LossInv, NEW o \in Ops, OpAt(o, "recovered")
               PROVE  /\ Matching(o) = {head[o]}
                      /\ branch[head[o]].marker = Marker(initial[o])
                      /\ head[o] > initial[o]
    BY DEF RecoveredIsTrue
  <2>1. Matching(o) = {head[o]} /\ base[o] = initial[o]
    BY DEF LossInv, OperationInv, OpAt
  <2>2. /\ head[o] \in DOMAIN branch /\ branch[head[o]].path = o
        /\ branch[head[o]].message = o
    BY <2>1, BranchType DEF LossInv, Matching, Touching
  <2>3. /\ branch[head[o]].marker = Marker(initial[o])
        /\ Before(Marker(initial[o]), head[o])
    BY <2>1, <2>2, LossAssumption DEF LossInv, BranchInv, OwnMarkers
  <2> QED
    BY <2>1, <2>3 DEF Before, Marker, LossInv, LossTypeOK
<1> QED
  BY <1>1, LossAlways, PTL

\* A verdict of the reader is about the snapshot it pinned.
THEOREM VerdictHolds == LossSpec => []VerdictOfSnapshot
<1>1. LossInv => VerdictOfSnapshot
  BY DEF LossInv, ReaderInv, VerdictOfSnapshot
<1> QED
  BY <1>1, LossAlways, PTL
-----------------------------------------------------------------------------
(* Part 2: Releases.                                                       *)

\* The paragraphs of the older release's body, or of the file.
Paragraphs == {"notes", "line", "notice", "warning", "bad", "retained"}
Jobs == {"prepare", "publish", "consumer", "notices"}
\* The steps before the preparation, and those behind it.
Opening == {"begin", "prepare"}
Writing == {"list", "create", "judge", "upload", "relist", "verify"}
Closing == {"gate", "publish", "final"}
\* The older release is about to be overwritten.
Patching == {"patchNotice", "patchWarning"}
Reading == {"consume", "notices", "compare", "readBack", "warn"}
Places == Ended \cup Opening \cup Writing \cup Closing \cup Patching
              \cup Reading \cup {"repair"}

TypeOK ==
    /\ script \in Scripts
    /\ sound \in SUBSET Inputs
    /\ main \in Runs \cup {None}
    /\ release \in [DOMAIN release -> Release]
    /\ DOMAIN release \subseteq Ids
    /\ older \in Seq(Paragraphs)
    /\ pc \in [Runs -> Places]
    /\ attempts \in [Runs -> Nat]
    /\ job \in [Runs -> Jobs]
    /\ seen \in [Runs -> {None} \cup [id : Ids, is : Release]]
    /\ before \in [Runs -> {None} \cup Seq(Paragraphs)]
    /\ edits \in Nat
    /\ slips \in Nat

\* What the script's preparation demands of its inputs.
Demanded == IF Receipt THEN {"build", "archive", "checkout"}
            ELSE IF script \in {"skill", "capsule"}
                 THEN {"archive", "checkout", "repeat"}
                 ELSE {"archive"}

\* A run that is behind its preparation, or starts again behind it, found
\* every input it demands.
Prepared(p, j) ==
    p \notin Ended \cup Opening \/ j # "prepare" => Demanded \subseteq sound

\* A release that a run has read is still there with the assets it had.
Sees(s) ==
    s # None =>
        /\ s.id \in DOMAIN release
        /\ s.is.foreign = release[s.id].foreign
        /\ \A n \in Names : s.is.assets[n] # "none" =>
               release[s.id].assets[n] = s.is.assets[n]

\* A run that is about to publish, or has published, judged that release.
Judged(p, s) ==
    p \in Closing =>
        s.id \in DOMAIN release /\ Complete(release[s.id])

PublicComplete == \E i \in ListedPublic : Complete(release[i])

\* Nobody consumes, or touches the older release, before a complete release
\* is public.
Good(p, j) ==
    IF script = "capsule"
    THEN p = "done" => Retained
    ELSE p \in Reading \cup Patching \cup {"done"}
             \/ j \in {"consumer", "notices"} => PublicComplete

\* The receipt's runs come one at a time, so its release is created once.
OneAtATime ==
    Receipt =>
        /\ \A q, r \in Runs : pc[q] \notin Ended /\ pc[r] \notin Ended => q = r
        /\ \A r \in Runs : At(r, "create") => DOMAIN release = {}
        /\ \A i, j \in DOMAIN release : i = j

LinesOf(body) == {i \in 1 .. Len(body) : body[i] = "line"}
Repaired(body) == \E i \in 1 .. Len(body) : body[i] = "retained"

\* A body that has all the owner's lines, and is no retained file.
Faithful(body) ==
    /\ Cardinality(LinesOf(body)) <= edits
    /\ edits <= Cardinality(LinesOf(body)) + slips
    /\ script # "capsule" => ~ Repaired(body)

\* The older body, and the one a run is about to write back, are faithful.
Text ==
    /\ Faithful(older)
    /\ \A r \in Runs : pc[r] \in Patching =>
           before[r] \in Seq(Paragraphs) /\ Faithful(before[r])

OfRun(r) ==
    /\ Prepared(pc[r], job[r])
    /\ Sees(seen[r])
    /\ Judged(pc[r], seen[r])
    /\ Good(pc[r], job[r])

IInv == TypeOK /\ (\A r \in Runs : OfRun(r)) /\ OneAtATime /\ Text
-----------------------------------------------------------------------------
\* What a paragraph added at either end does to the lines of a body.
LEMMA LinesFinite ==
    ASSUME NEW body \in Seq(Paragraphs)
    PROVE  /\ IsFiniteSet(LinesOf(body))
           /\ Cardinality(LinesOf(body)) \in Nat
<1>1. Len(body) \in Nat
  OBVIOUS
<1>2. IsFiniteSet(1 .. Len(body))
  BY <1>1, FS_Interval
<1>3. LinesOf(body) \in SUBSET (1 .. Len(body))
  BY DEF LinesOf
<1> QED
  BY <1>2, <1>3, FS_Subset, FS_CardinalityType

LEMMA Appended ==
    ASSUME NEW body \in Seq(Paragraphs), NEW p \in Paragraphs
    PROVE  /\ Append(body, p) \in Seq(Paragraphs)
           /\ Cardinality(LinesOf(Append(body, p))) =
                  Cardinality(LinesOf(body)) + IF p = "line" THEN 1 ELSE 0
           /\ p # "retained" => (Repaired(Append(body, p)) <=> Repaired(body))
<1> DEFINE n == Len(body)
           longer == Append(body, p)
<1>1. /\ longer \in Seq(Paragraphs) /\ n \in Nat /\ Len(longer) = n + 1
      /\ \A i \in 1 .. n : longer[i] = body[i]
      /\ longer[n + 1] = p
  OBVIOUS
<1> HIDE DEF longer
<1>2. IsFiniteSet(LinesOf(body)) /\ Cardinality(LinesOf(body)) \in Nat
  BY LinesFinite
<1>3. Cardinality(LinesOf(longer)) =
          Cardinality(LinesOf(body)) + IF p = "line" THEN 1 ELSE 0
  <2>1. CASE p = "line"
    <3>1. LinesOf(longer) = LinesOf(body) \cup {n + 1}
      BY <1>1, <2>1 DEF LinesOf
    <3>2. n + 1 \notin LinesOf(body)
      BY <1>1 DEF LinesOf
    <3> QED
      BY <1>2, <2>1, <3>1, <3>2, FS_AddElement
  <2>2. CASE p # "line"
    <3>1. LinesOf(longer) = LinesOf(body)
      BY <1>1, <2>2 DEF LinesOf
    <3> QED
      BY <1>2, <2>2, <3>1
  <2> QED
    BY <2>1, <2>2
<1>4. p # "retained" => (Repaired(longer) <=> Repaired(body))
  BY <1>1 DEF Repaired
<1> QED
  BY <1>1, <1>3, <1>4 DEF longer

LEMMA Prepended ==
    ASSUME NEW body \in Seq(Paragraphs), NEW p \in Paragraphs
    PROVE  /\ <<p>> \o body \in Seq(Paragraphs)
           /\ Cardinality(LinesOf(<<p>> \o body)) =
                  Cardinality(LinesOf(body)) + IF p = "line" THEN 1 ELSE 0
           /\ p # "retained" => (Repaired(<<p>> \o body) <=> Repaired(body))
<1> DEFINE n == Len(body)
           longer == <<p>> \o body
           moved == {i + 1 : i \in LinesOf(body)}
           f == [i \in LinesOf(body) |-> i + 1]
<1>1. /\ longer \in Seq(Paragraphs) /\ n \in Nat /\ Len(longer) = n + 1
      /\ longer[1] = p
      /\ \A i \in 1 .. n : longer[i + 1] = body[i]
  OBVIOUS
<1> HIDE DEF longer
<1>2. /\ IsFiniteSet(moved)
      /\ Cardinality(moved) = Cardinality(LinesOf(body))
  <2>1. LinesOf(body) \subseteq Nat
    BY <1>1 DEF LinesOf
  <2>2. f \in Bijection(LinesOf(body), moved)
    BY <2>1 DEF Bijection, Injection, Surjection, IsInjective
  <2>3. ExistsBijection(LinesOf(body), moved)
    BY <2>2 DEF ExistsBijection
  <2> HIDE DEF moved, f
  <2> QED
    BY <2>3, LinesFinite, FS_Bijection
<1>3. \A i \in 1 .. n + 1 : i = 1 \/ i - 1 \in 1 .. n
  BY <1>1
<1>4. moved = {i \in 2 .. n + 1 : longer[i] = "line"}
  <2>1. ASSUME NEW i \in LinesOf(body)
        PROVE  i + 1 \in 2 .. n + 1 /\ longer[i + 1] = "line"
    BY <1>1, <2>1 DEF LinesOf
  <2>2. ASSUME NEW i \in 2 .. n + 1, longer[i] = "line"
        PROVE  i - 1 \in LinesOf(body) /\ i = (i - 1) + 1
    <3>1. i - 1 \in 1 .. n /\ i = (i - 1) + 1
      BY <1>1, <2>2
    <3>2. longer[(i - 1) + 1] = body[i - 1]
      BY <1>1, <3>1
    <3> QED
      BY <2>2, <3>1, <3>2 DEF LinesOf
  <2> QED
    BY <2>1, <2>2
<1>5. IsFiniteSet(LinesOf(body)) /\ Cardinality(LinesOf(body)) \in Nat
  BY LinesFinite
<1>6. Cardinality(LinesOf(longer)) =
          Cardinality(LinesOf(body)) + IF p = "line" THEN 1 ELSE 0
  <2>1. CASE p = "line"
    <3> HIDE DEF moved
    <3>1. LinesOf(longer) = moved \cup {1}
      <4>1. 1 .. n + 1 = {1} \cup (2 .. n + 1)
        BY <1>1
      <4> QED
        BY <1>1, <1>4, <2>1, <4>1 DEF LinesOf
    <3>2. 1 \notin moved
      BY <1>1, <1>4
    <3> QED
      BY <1>2, <1>5, <2>1, <3>1, <3>2, FS_AddElement
  <2>2. CASE p # "line"
    <3>1. LinesOf(longer) = moved
      BY <1>1, <1>3, <1>4, <2>2 DEF LinesOf
    <3> HIDE DEF moved
    <3> QED
      BY <1>2, <1>5, <2>2, <3>1
  <2> QED
    BY <2>1, <2>2
<1>7. p # "retained" => (Repaired(longer) <=> Repaired(body))
  <2>1. ASSUME NEW i \in 1 .. n
        PROVE  i + 1 \in 1 .. n + 1 /\ longer[i + 1] = body[i]
    BY <1>1
  <2>2. ASSUME NEW i \in 1 .. n + 1, i # 1
        PROVE  i - 1 \in 1 .. n /\ longer[i] = body[i - 1]
    <3>1. i - 1 \in 1 .. n /\ (i - 1) + 1 = i
      BY <1>1, <2>2
    <3> QED
      BY <1>1, <3>1
  <2> QED
    BY <1>1, <2>1, <2>2 DEF Repaired
<1> QED
  BY <1>1, <1>6, <1>7 DEF longer
-----------------------------------------------------------------------------
\* A step of run r.
Step(r) ==
    \/ Start(r) \/ Fails(r)
    \/ script = "first" /\ First(r)
    \/ script = "alpha" /\ Alpha(r)
    \/ script = "corrective" /\ Corrective(r)
    \/ script = "skill" /\ Skill(r)
    \/ script = "evidence1" /\ Evidence1(r)
    \/ script = "evidence2" /\ Evidence2(r)
    \/ script = "capsule" /\ Capsule(r)

\* The steps that change the release; all others leave it alone.
Releasing(r) ==
    \/ script \in {"alpha", "corrective", "skill"} /\ Create(r, "judge")
    \/ script \in {"evidence1", "evidence2"} /\ Create(r, "upload")
    \/ script \in {"alpha", "corrective", "skill"} /\ Upload(r)
    \/ script \in {"evidence1", "evidence2"} /\ UploadByTag(r)
    \/ script # "evidence1" /\ Known(r) /\ Publish(r, seen[r].id)
    \/ script = "evidence1" /\ \E i \in DOMAIN release : Publish(r, i)

LEMMA Cases ==
    ASSUME NEW r \in Runs, Step(r)
    PROVE  Releasing(r) \/ UNCHANGED release
<1>1. CASE Start(r) \/ Fails(r)
  BY <1>1 DEF Start, Fails, remote
<1>2. CASE script = "first" /\ First(r)
  BY <1>2 DEF First, WriteGate, Prepare, FirstFinds, Finds, Reads,
     FirstVerifies, Consume, remote, Releasing
<1>3. ASSUME script \in {"alpha", "corrective"}, ReceiptPublishes(r)
      PROVE  Releasing(r) \/ UNCHANGED release
  BY <1>3 DEF ReceiptPublishes, WriteGate, FindsNone, Finds, ReceiptJudges,
     ReceiptUploaded, Reads, ReceiptFinal, remote, Releasing
<1>4. CASE script = "alpha" /\ Alpha(r)
  BY <1>3, <1>4 DEF Alpha, Prepare, AlphaConsumes, Consume, remote
<1>5. CASE script = "corrective" /\ Corrective(r)
  BY <1>3, <1>5 DEF Corrective, Prepare, CorrectiveConsumes, Consume, Notices,
     Compare, PatchNotice, ReadBack, remote
<1>6. CASE script = "skill" /\ Skill(r)
  BY <1>6 DEF Skill, Context, Prepare, FindsNone, SkillFinds, Finds, Reads,
     SkillUploaded, SkillReads, Consume, remote, Releasing
<1>7. CASE script = "evidence1" /\ Evidence1(r)
  BY <1>7 DEF Evidence1, Context, Prepare, FindsNone, EvidenceFinds, Finds,
     Relist, EvidenceJudges, Reads, Evidence1Final, Evidence1Consumes, Consume,
     remote, Releasing
<1>8. CASE script = "evidence2" /\ Evidence2(r)
  BY <1>8 DEF Evidence2, Context, Prepare, FindsNone, EvidenceFinds, Finds,
     Relist, EvidenceJudges, Reads, Evidence2Reads, Consume, Warn,
     PatchWarning, remote, Releasing
<1>9. CASE script = "capsule" /\ Capsule(r)
  BY <1>9 DEF Capsule, Context, Prepare, CapsuleReads, CapsuleRepairs,
     CapsuleReadsBack, remote
<1> QED
  BY <1>1, <1>2, <1>4, <1>5, <1>6, <1>7, <1>8, <1>9 DEF Step

\* Nothing that is in a release goes away or is replaced, nor is a public one
\* taken back.
Grows ==
    /\ DOMAIN release \subseteq DOMAIN release'
    /\ \A i \in DOMAIN release :
           /\ release'[i].foreign = release[i].foreign
           /\ \A n \in Names : release[i].assets[n] # "none" =>
                  release'[i].assets[n] = release[i].assets[n]
           /\ ~ release[i].draft => ~ release'[i].draft

ReleaseTyped ==
    /\ release \in [DOMAIN release -> Release]
    /\ DOMAIN release \subseteq Ids

LEMMA NewTyped ==
    ASSUME NEW r \in Runs PROVE NewRelease(r) \in Release
BY DEF NewRelease, Release, Asset

LEMMA StepGrows ==
    ASSUME ReleaseTyped, NEW r \in Runs, Step(r)
    PROVE  Grows /\ ReleaseTyped'
<1> USE DEF ReleaseTyped
<1>1. CASE UNCHANGED release
  BY <1>1 DEF Grows
<1>2. ASSUME NEW next, Create(r, next)
      PROVE  Grows /\ ReleaseTyped'
  <2>1. PICK i \in Ids \ (DOMAIN release \cup {Pinned}) :
            release' = [j \in DOMAIN release \cup {i} |->
                            IF j = i THEN NewRelease(r) ELSE release[j]]
    BY <1>2 DEF Create
  <2>2. /\ DOMAIN release' = DOMAIN release \cup {i}
        /\ release'[i] = NewRelease(r)
        /\ \A j \in DOMAIN release : release'[j] = release[j]
    BY <2>1
  <2> QED
    BY <2>1, <2>2, NewTyped DEF Grows
<1>3. CASE Upload(r)
  <2>1. PICK n \in Names, state \in {"partial", Uploads} :
            /\ seen[r].id \in DOMAIN release
            /\ release[seen[r].id].assets[n] = "none"
            /\ release' = [release EXCEPT ![seen[r].id].assets[n] = state]
    BY <1>3 DEF Upload, Known, Now
  <2>2. state \in Asset
    BY <2>1 DEF Uploads, Asset
  <2> QED
    BY <2>1, <2>2 DEF Grows, Release
<1>4. CASE UploadByTag(r)
  <2>1. PICK i \in DOMAIN release,
             assets \in [Names -> {"none", "partial", Uploads}] :
            /\ \A n \in Names : release[i].assets[n] = "none"
            /\ release' = [release EXCEPT ![i].assets = assets]
    BY <1>4 DEF UploadByTag
  <2>2. assets \in [Names -> Asset]
    BY <2>1 DEF Uploads, Asset
  <2> QED
    BY <2>1, <2>2 DEF Grows, Release
<1>5. ASSUME NEW i \in DOMAIN release, Publish(r, i)
      PROVE  Grows /\ ReleaseTyped'
  BY <1>5 DEF Publish, Grows, Release
<1> QED
  BY <1>1, <1>2, <1>3, <1>4, <1>5, Cases DEF Releasing, Known

\* A complete release stays complete, and public if it is.
LEMMA CompleteStays ==
    ASSUME Grows, NEW i \in DOMAIN release, Complete(release[i])
    PROVE  i \in DOMAIN release' /\ Complete(release'[i])
BY DEF Grows, Complete

LEMMA PublicStays ==
    ASSUME Grows, PublicComplete
    PROVE  PublicComplete'
BY CompleteStays DEF PublicComplete, ListedPublic, Grows
-----------------------------------------------------------------------------
\* What a step of run r leaves alone, and the types of what it does not.
Alone(r) ==
    /\ UNCHANGED <<script, sound, main, edits, slips>>
    /\ \A q \in Runs \ {r} :
           /\ pc'[q] = pc[q] /\ job'[q] = job[q]
           /\ seen'[q] = seen[q] /\ before'[q] = before[q]

Seen == {None} \cup [id : Ids, is : Release]
RunsTyped ==
    /\ pc \in [Runs -> Places]
    /\ attempts \in [Runs -> Nat]
    /\ job \in [Runs -> Jobs]
    /\ seen \in [Runs -> Seen]
    /\ before \in [Runs -> {None} \cup Seq(Paragraphs)]
    /\ older \in Seq(Paragraphs)

LEMMA NextJobs ==
    ASSUME NEW r \in Runs, NEW next, NextJob(r, next)
    PROVE  job' = [job EXCEPT ![r] =
                       IF next = "list" THEN "publish"
                       ELSE IF next = "consume" THEN "consumer"
                       ELSE IF next = "notices" THEN "notices"
                       ELSE job[r]]
BY DEF NextJob

LEMMA Starts ==
    ASSUME RunsTyped, NEW r \in Runs, Start(r)
    PROVE  /\ Alone(r) /\ RunsTyped'
           /\ UNCHANGED <<release, older, seen, before>>
           /\ pc[r] \in Ended
           /\ \/ pc'[r] = "begin" /\ job'[r] = "prepare"
              \/ pc'[r] = "list" /\ job'[r] = "publish" /\ job[r] = "publish"
              \/ pc'[r] = "consume" /\ job'[r] = "consumer"
                     /\ job[r] = "consumer"
              \/ pc'[r] = "notices" /\ job'[r] = "notices"
                     /\ job[r] = "notices"
<1> USE DEF RunsTyped
<1>1. PICK j \in Jobs :
          /\ j = "prepare" \/ j = job[r]
          /\ job' = [job EXCEPT ![r] = j]
          /\ pc' = [pc EXCEPT ![r] = FirstStep[j]]
  BY DEF Start, Jobs, Goto
<1>2. /\ FirstStep["prepare"] = "begin" /\ FirstStep["publish"] = "list"
      /\ FirstStep["consumer"] = "consume"
      /\ FirstStep["notices"] = "notices"
  BY DEF FirstStep
<1>3. \/ j = "prepare" /\ FirstStep[j] = "begin"
      \/ j = "publish" /\ FirstStep[j] = "list"
      \/ j = "consumer" /\ FirstStep[j] = "consume"
      \/ j = "notices" /\ FirstStep[j] = "notices"
  BY <1>2 DEF Jobs
<1>4. /\ pc'[r] = FirstStep[j] /\ job'[r] = j
      /\ \A q \in Runs \ {r} : pc'[q] = pc[q] /\ job'[q] = job[q]
  BY <1>1
<1>5. /\ UNCHANGED <<script, sound, main, edits, slips, release, older,
                    seen, before>>
      /\ attempts' = [attempts EXCEPT ![r] = @ + 1]
      /\ pc[r] \in Ended
  BY DEF Start, remote, local, owner
<1>6. attempts' \in [Runs -> Nat]
  BY <1>5
<1>7. job' \in [Runs -> Jobs]
  BY <1>1
<1>8. pc' \in [Runs -> Places]
  <2>1. FirstStep[j] \in Places
    BY <1>3 DEF Places, Opening, Writing, Reading
  <2> QED
    BY <1>1, <2>1
<1> QED
  BY <1>1, <1>3, <1>4, <1>5, <1>6, <1>7, <1>8 DEF Alone

LEMMA StepTyped ==
    ASSUME RunsTyped, ReleaseTyped, NEW r \in Runs, Step(r),
           pc[r] \in Patching => before[r] \in Seq(Paragraphs)
    PROVE  Alone(r) /\ RunsTyped'
<1> USE DEF RunsTyped
<1> DEFINE Goal == Alone(r) /\ RunsTyped'
<1>1. ASSUME Start(r) PROVE Goal
  BY <1>1, Starts
\* A step to one of these places, which changes what it may.
<1>2. ASSUME NEW p \in Places, Goto(r, p),
             job' = job \/ \E next : NextJob(r, next),
             seen' = seen \/ \E s \in [id : Ids, is : Release] :
                 seen' = [seen EXCEPT ![r] = s],
             before' = before \/ before' = [before EXCEPT ![r] = older],
             older' \in Seq(Paragraphs),
             UNCHANGED <<script, sound, main, attempts, edits, slips>>
      PROVE  Goal
  <2>1. /\ pc' \in [Runs -> Places]
        /\ \A q \in Runs \ {r} : pc'[q] = pc[q]
    BY <1>2 DEF Goto
  <2>2. /\ job' \in [Runs -> Jobs]
        /\ \A q \in Runs \ {r} : job'[q] = job[q]
    <3>1. ASSUME NEW next, NextJob(r, next)
          PROVE  /\ job' \in [Runs -> Jobs]
                 /\ \A q \in Runs \ {r} : job'[q] = job[q]
      <4>1. /\ "publish" \in Jobs /\ "consumer" \in Jobs
            /\ "notices" \in Jobs /\ job[r] \in Jobs
        BY DEF Jobs
      <4> QED
        BY <3>1, <4>1, NextJobs
    <3> QED
      BY <1>2, <3>1
  <2>3. /\ seen' \in [Runs -> Seen]
        /\ \A q \in Runs \ {r} : seen'[q] = seen[q]
    BY <1>2 DEF Seen
  <2>4. /\ before' \in [Runs -> {None} \cup Seq(Paragraphs)]
        /\ \A q \in Runs \ {r} : before'[q] = before[q]
    BY <1>2
  <2> QED
    BY <1>2, <2>1, <2>2, <2>3, <2>4 DEF Alone
<1> HIDE DEF Goal
<1>3. \A p \in {"begin", "prepare", "list", "create", "judge", "upload",
                "relist", "verify", "gate", "publish", "final", "consume",
                "notices", "compare", "patchNotice", "readBack", "warn",
                "patchWarning", "repair", "done", "failed", "idle"} :
          p \in Places
  BY DEF Places, Opening, Writing, Closing, Reading, Patching, Ended
<1>4. ASSUME NEW i \in DOMAIN release
      PROVE  i \in Ids /\ release[i] \in Release
  BY DEF ReleaseTyped
<1> USE DEF fixed, remote, local, owner
<1>5. ASSUME NEW next \in Places, WriteGate(r, "begin", next)
                 \/ WriteGate(r, "gate", next) \/ Context(r)
      PROVE  Goal
  BY <1>2, <1>3, <1>5 DEF WriteGate, Context
<1>6. ASSUME NEW inputs, Prepare(r, inputs)
      PROVE  Goal
  BY <1>2, <1>3, <1>6 DEF Prepare
<1>7. ASSUME NEW i \in DOMAIN release, NEW p \in Places, Finds(r, i, p)
      PROVE  Goal
  BY <1>2, <1>3, <1>4, <1>7 DEF Finds, Remember
<1>8. ASSUME NEW here, NEW p \in Places, NEW fits, Reads(r, here, p, fits)
      PROVE  Goal
  BY <1>2, <1>3, <1>4, <1>8 DEF Reads, Remember, Known
<1>9. ASSUME NEW p \in Places, NEW ids, Consume(r, p, ids)
      PROVE  Goal
  BY <1>2, <1>3, <1>4, <1>9 DEF Consume
<1>10. ASSUME Fails(r) \/ FindsNone(r)
       PROVE  Goal
  BY <1>2, <1>3, <1>10 DEF Fails, FindsNone
<1>11. ASSUME NEW p \in Places, Create(r, p)
       PROVE  Goal
  BY <1>2, <1>3, <1>11, NewTyped DEF Create, Answer
<1>12. ASSUME Upload(r)
       PROVE  Goal
  <2>1. PICK n \in Names, state \in {"partial", Uploads} :
            /\ seen' = [seen EXCEPT ![r].is.assets[n] = state]
            /\ Answer(r, "upload") \/ Goto(r, "failed")
    BY <1>12 DEF Upload
  <2>2. seen[r] \in [id : Ids, is : Release] /\ state \in Asset
    BY <1>12, <2>1 DEF Upload, Known, Seen, Uploads, Asset
  <2>3. seen' = [seen EXCEPT ![r] = [seen[r] EXCEPT !.is.assets[n] = state]]
    BY <2>1
  <2>4. [seen[r] EXCEPT !.is.assets[n] = state] \in [id : Ids, is : Release]
    BY <2>2 DEF Release
  <2>5. "upload" \in Places /\ "failed" \in Places
    BY <1>3
  <2> QED
    BY <1>2, <1>12, <2>1, <2>3, <2>4, <2>5 DEF Upload, Answer
<1>13. ASSUME NEW i, Publish(r, i)
       PROVE  Goal
  BY <1>2, <1>3, <1>13 DEF Publish, Answer
<1>14. ASSUME UploadByTag(r)
       PROVE  Goal
  BY <1>2, <1>3, <1>14 DEF UploadByTag, Answer
<1>15. ASSUME script = "first" /\ First(r)
       PROVE  Goal
  BY <1>3, <1>5, <1>6, <1>7, <1>8, <1>9, <1>13, <1>15 DEF First, FirstFinds,
     Listed, FirstVerifies
<1>16. ASSUME ReceiptJudges(r) \/ ReceiptUploaded(r) \/ SkillUploaded(r)
       PROVE  Goal
  BY <1>2, <1>3, <1>16 DEF ReceiptJudges, ReceiptUploaded, SkillUploaded
<1>17. ASSUME ReceiptFinal(r)
       PROVE  Goal
  BY <1>2, <1>3, <1>4, <1>17 DEF ReceiptFinal, Remember, Public, Known
<1>18. ASSUME ReceiptPublishes(r)
       PROVE  Goal
  BY <1>3, <1>5, <1>7, <1>8, <1>10, <1>11, <1>12, <1>13, <1>16, <1>17, <1>18
     DEF ReceiptPublishes, Listed
<1>19. ASSUME script = "alpha" /\ Alpha(r)
       PROVE  Goal
  BY <1>3, <1>6, <1>9, <1>18, <1>19 DEF Alpha, AlphaConsumes
<1>20. ASSUME Notices(r) \/ Compare(r) \/ ReadBack(r)
       PROVE  Goal
  BY <1>2, <1>3, <1>20 DEF Notices, Compare, ReadBack
<1>21. ASSUME script = "skill" /\ Skill(r)
       PROVE  Goal
  BY <1>3, <1>5, <1>6, <1>7, <1>8, <1>9, <1>10, <1>11, <1>12, <1>13, <1>16,
     <1>21 DEF Skill, SkillFinds, Listed, SkillReads
<1>22. ASSUME Relist(r) \/ Evidence1Final(r) \/ Warn(r)
       PROVE  Goal
  BY <1>2, <1>3, <1>4, <1>22 DEF Relist, Remember, Listed, Evidence1Final, Warn
<1>23. ASSUME EvidenceFinds(r) \/ EvidenceJudges(r)
       PROVE  Goal
  BY <1>3, <1>7, <1>8, <1>23 DEF EvidenceFinds, EvidenceJudges, Listed
<1>24. ASSUME script = "evidence1" /\ Evidence1(r)
       PROVE  Goal
  BY <1>3, <1>5, <1>6, <1>9, <1>10, <1>11, <1>13, <1>14, <1>22, <1>23, <1>24
     DEF Evidence1, Evidence1Consumes
<1>25. ASSUME Capsule(r)
       PROVE  Goal
  <2>1. CASE CapsuleReads(r) \/ CapsuleReadsBack(r)
    BY <1>2, <1>3, <2>1 DEF CapsuleReads, CapsuleReadsBack, Goal
  <2>2. CASE CapsuleRepairs(r)
    <3>1. <<"retained">> \in Seq(Paragraphs)
      BY DEF Paragraphs
    <3> QED
      BY <1>2, <1>3, <2>2, <3>1 DEF CapsuleRepairs, Answer
  <2> QED
    BY <1>3, <1>5, <1>6, <1>25, <2>1, <2>2 DEF Capsule
<1>26. ASSUME PatchNotice(r) \/ PatchWarning(r)
       PROVE  Goal
  <2>1. before[r] \in Seq(Paragraphs)
    BY <1>26 DEF PatchNotice, PatchWarning, At, Patching
  <2>2. "notice" \in Paragraphs /\ "warning" \in Paragraphs
    BY DEF Paragraphs
  <2>3. older' \in Seq(Paragraphs)
    BY <1>26, <2>1, <2>2, Appended, Prepended
       DEF PatchNotice, PatchWarning, Notified
  <2> QED
    BY <1>2, <1>3, <1>26, <2>3 DEF PatchNotice, PatchWarning, Answer
<1>27. ASSUME script = "corrective" /\ Corrective(r)
       PROVE  Goal
  BY <1>3, <1>6, <1>9, <1>18, <1>20, <1>26, <1>27
     DEF Corrective, CorrectiveConsumes
<1>28. ASSUME script = "evidence2" /\ Evidence2(r)
       PROVE  Goal
  BY <1>3, <1>5, <1>6, <1>8, <1>9, <1>10, <1>11, <1>13, <1>14, <1>22, <1>23,
     <1>26, <1>28 DEF Evidence2, Evidence2Reads
<1> QED
  <2>1. Goal
    BY <1>1, <1>10, <1>15, <1>19, <1>21, <1>24, <1>25, <1>27, <1>28 DEF Step
  <2> QED
    BY <2>1 DEF Goal
-----------------------------------------------------------------------------
\* A run gets behind its preparation only by it.
LEMMA StepPrepared ==
    ASSUME RunsTyped, NEW r \in Runs, Step(r), Alone(r),
           Prepared(pc[r], job[r])
    PROVE  Prepared(pc[r], job[r])'
<1> SUFFICES ASSUME ~ (Demanded \subseteq sound)
             PROVE  pc'[r] \in Ended \cup Opening /\ job'[r] = "prepare"
  BY DEF Prepared, Alone, Demanded, Receipt
<1> DEFINE Goal == pc'[r] \in Ended \cup Opening /\ job'[r] = "prepare"
<1>1. pc[r] \in Ended \cup Opening /\ job[r] = "prepare"
  BY DEF Prepared
<1>2. ASSUME Start(r) \/ Fails(r) PROVE Goal
  BY <1>1, <1>2, Starts DEF Fails, Goto, fixed, RunsTyped, Ended, Opening
<1>3. ASSUME NEW here, WriteGate(r, here, "prepare") \/ Context(r)
      PROVE  Goal
  BY <1>1, <1>3 DEF WriteGate, Context, Goto, fixed, RunsTyped, Opening
<1>4. ASSUME Prepare(r, Demanded) PROVE FALSE
  BY <1>4 DEF Prepare
<1> USE DEF At, Ended, Opening, Receipt, Demanded
<1>5. ASSUME script = "first", First(r) PROVE Goal
  BY <1>1, <1>3, <1>4, <1>5 DEF First, WriteGate, FirstPrepares, FirstFinds,
     Finds, Publish, Reads, FirstVerifies
<1>6. ASSUME script \in {"alpha", "corrective"}, ReceiptPublishes(r)
      PROVE  Goal
  BY <1>1, <1>3, <1>6 DEF ReceiptPublishes, WriteGate, FindsNone, Finds,
     Create, ReceiptJudges, Upload, ReceiptUploaded, Reads, Publish,
     ReceiptFinal
<1>7. ASSUME script = "alpha", Alpha(r) PROVE Goal
  BY <1>1, <1>4, <1>6, <1>7 DEF Alpha, AlphaPrepares, AlphaConsumes
<1>8. ASSUME script = "corrective", Corrective(r) PROVE Goal
  BY <1>1, <1>4, <1>6, <1>8 DEF Corrective, CorrectivePrepares,
     CorrectiveConsumes, Notices, Compare, PatchNotice, ReadBack
<1>9. ASSUME script = "skill", Skill(r) PROVE Goal
  BY <1>1, <1>3, <1>4, <1>9 DEF Skill, SkillPrepares, FindsNone, SkillFinds,
     Finds, Create, Reads, Upload, SkillUploaded, Publish, SkillReads
<1>10. ASSUME script = "evidence1", Evidence1(r) PROVE Goal
  BY <1>1, <1>3, <1>4, <1>10 DEF Evidence1, Evidence1Prepares, FindsNone,
     EvidenceFinds, Finds, Create, UploadByTag, Relist, EvidenceJudges, Reads,
     Publish, Evidence1Final, Evidence1Consumes
<1>11. ASSUME script = "evidence2", Evidence2(r) PROVE Goal
  BY <1>1, <1>3, <1>4, <1>11 DEF Evidence2, Evidence2Prepares, FindsNone,
     EvidenceFinds, Finds, Create, UploadByTag, Relist, EvidenceJudges, Reads,
     Publish, Evidence2Reads, Warn, PatchWarning
<1>12. ASSUME script = "capsule", Capsule(r) PROVE Goal
  <2>1. CapsulePrepares = Demanded
    BY <1>12 DEF CapsulePrepares, CapsuleBuild, PayloadDemands, PacketDemands,
       SourcesDemand, MembersDemand, ArchivesDemand
  <2> QED
    BY <1>1, <1>3, <1>4, <1>12, <2>1 DEF Capsule, CapsuleReads, CapsuleRepairs,
       CapsuleReadsBack
<1> QED
  BY <1>2, <1>5, <1>7, <1>8, <1>9, <1>10, <1>11, <1>12 DEF Step
-----------------------------------------------------------------------------
\* What a run has seen, and what it has judged, stays true of the release.
LEMMA SeesStays ==
    ASSUME Grows, NEW s, Sees(s)
    PROVE  (s # None =>
                /\ s.id \in DOMAIN release'
                /\ s.is.foreign = release'[s.id].foreign
                /\ \A n \in Names : s.is.assets[n] # "none" =>
                       release'[s.id].assets[n] = s.is.assets[n])
BY DEF Grows, Sees

LEMMA JudgedStays ==
    ASSUME Grows, NEW p, NEW s, Judged(p, s)
    PROVE  p \in Closing =>
               s.id \in DOMAIN release' /\ Complete(release'[s.id])
BY CompleteStays DEF Judged

\* What a run saw complete is complete.
LEMMA SeenComplete ==
    ASSUME NEW s, s # None, Sees(s), Complete(s.is)
    PROVE  s.id \in DOMAIN release /\ Complete(release[s.id])
BY DEF Sees, Complete

LEMMA StepSees ==
    ASSUME RunsTyped, ReleaseTyped, NEW r \in Runs, Step(r), Alone(r), Grows,
           Sees(seen[r])
    PROVE  Sees(seen[r])'
<1> DEFINE Goal == Sees(seen[r])'
<1>1. ASSUME UNCHANGED seen PROVE Goal
  BY <1>1, SeesStays DEF Sees
<1>2. ASSUME NEW i \in DOMAIN release, Remember(r, i), UNCHANGED release
      PROVE  Goal
  <2>1. seen'[r] = [id |-> i, is |-> release[i]]
    BY <1>2 DEF Remember, RunsTyped
  <2> QED
    BY <1>2, <2>1 DEF Sees
<1>3. ASSUME NEW next, Create(r, next) PROVE Goal
  <2>1. PICK i \in Ids :
            /\ release' = [j \in DOMAIN release \cup {i} |->
                               IF j = i THEN NewRelease(r) ELSE release[j]]
            /\ seen' = [seen EXCEPT ![r] = [id |-> i, is |-> NewRelease(r)]]
    BY <1>3 DEF Create
  <2>2. /\ seen'[r].id = i /\ seen'[r].is = NewRelease(r)
        /\ i \in DOMAIN release' /\ release'[i] = NewRelease(r)
    BY <2>1 DEF RunsTyped
  <2> QED
    BY <2>2 DEF Sees
<1>4. ASSUME Upload(r) PROVE Goal
  <2>1. PICK n \in Names, state \in {"partial", Uploads} :
            /\ release' = [release EXCEPT ![seen[r].id].assets[n] = state]
            /\ seen' = [seen EXCEPT ![r].is.assets[n] = state]
    BY <1>4 DEF Upload
  <2>2. /\ seen[r] \in [id : Ids, is : Release] /\ seen[r] # None
        /\ seen[r].id \in DOMAIN release
        /\ release[seen[r].id] \in Release
    BY <1>4 DEF Upload, Known, RunsTyped, Seen, ReleaseTyped
  <2>3. seen'[r] = [seen[r] EXCEPT !.is.assets[n] = state]
    BY <2>1 DEF RunsTyped
  <2>4. /\ seen'[r].id = seen[r].id
        /\ seen'[r].is.foreign = seen[r].is.foreign
        /\ seen'[r].is.assets = [seen[r].is.assets EXCEPT ![n] = state]
    BY <2>2, <2>3 DEF Release
  <2>5. /\ seen[r].id \in DOMAIN release'
        /\ release'[seen[r].id].foreign = release[seen[r].id].foreign
        /\ release'[seen[r].id].assets =
               [release[seen[r].id].assets EXCEPT ![n] = state]
    BY <2>1, <2>2 DEF Release
  <2>6. /\ seen[r].is.assets \in [Names -> Asset]
        /\ release[seen[r].id].assets \in [Names -> Asset]
    BY <2>2 DEF Release
  <2> QED
    BY <2>2, <2>4, <2>5, <2>6 DEF Sees
<1> HIDE DEF Goal
<1> USE DEF remote, local
<1>5. ASSUME Start(r) \/ Fails(r) PROVE Goal
  BY <1>1, <1>5 DEF Start, Fails
<1>6. ASSUME NEW here, NEW next, NEW fits, Reads(r, here, next, fits)
      PROVE  Goal
  BY <1>2, <1>6 DEF Reads, Known
<1>7. ASSUME NEW i \in DOMAIN release, NEW next, Finds(r, i, next)
      PROVE  Goal
  BY <1>2, <1>7 DEF Finds
<1>8. ASSUME First(r) PROVE Goal
  BY <1>1, <1>6, <1>7, <1>8 DEF First, WriteGate, Prepare, FirstFinds, Listed,
     Publish, FirstVerifies, Consume
<1>9. ASSUME ReceiptPublishes(r) PROVE Goal
  BY <1>1, <1>2, <1>3, <1>4, <1>6, <1>7, <1>9 DEF ReceiptPublishes, WriteGate,
     FindsNone, Listed, ReceiptJudges, ReceiptUploaded, Publish, ReceiptFinal,
     Public, Known
<1>10. ASSUME Alpha(r) PROVE Goal
  BY <1>1, <1>9, <1>10 DEF Alpha, Prepare, AlphaConsumes, Consume
<1>11. ASSUME Corrective(r) PROVE Goal
  BY <1>1, <1>9, <1>11 DEF Corrective, Prepare, CorrectiveConsumes, Consume,
     Notices, Compare, PatchNotice, ReadBack
<1>12. ASSUME Skill(r) PROVE Goal
  BY <1>1, <1>3, <1>4, <1>6, <1>7, <1>12 DEF Skill, Context, Prepare,
     FindsNone, SkillFinds, Listed, SkillUploaded, Publish, SkillReads, Consume
<1>13. ASSUME Relist(r) \/ EvidenceFinds(r) \/ EvidenceJudges(r) PROVE Goal
  BY <1>2, <1>6, <1>7, <1>13 DEF Relist, Listed, EvidenceFinds, EvidenceJudges
<1>14. ASSUME Evidence1(r) PROVE Goal
  BY <1>1, <1>3, <1>13, <1>14 DEF Evidence1, Context, Prepare, FindsNone,
     UploadByTag, Publish, Evidence1Final, Evidence1Consumes, Consume
<1>15. ASSUME Evidence2(r) PROVE Goal
  BY <1>1, <1>3, <1>6, <1>13, <1>15 DEF Evidence2, Context, Prepare, FindsNone,
     UploadByTag, Publish, Evidence2Reads, Consume, Warn, PatchWarning
<1>16. ASSUME Capsule(r) PROVE Goal
  BY <1>1, <1>16 DEF Capsule, Context, Prepare, CapsuleReads, CapsuleRepairs,
     CapsuleReadsBack
<1> QED
  <2>1. Goal
    BY <1>5, <1>8, <1>10, <1>11, <1>12, <1>14, <1>15, <1>16 DEF Step
  <2> QED
    BY <2>1 DEF Goal

LEMMA StepJudged ==
    ASSUME RunsTyped, ReleaseTyped, NEW r \in Runs, Step(r), Grows,
           Sees(seen[r]), Judged(pc[r], seen[r])
    PROVE  Judged(pc[r], seen[r])'
<1> DEFINE Goal == Judged(pc[r], seen[r])'
<1>1. ASSUME pc'[r] \notin Closing PROVE Goal
  BY <1>1 DEF Judged
<1>2. ASSUME pc[r] \in Closing, UNCHANGED seen PROVE Goal
  BY <1>2, JudgedStays DEF Judged
<1>3. ASSUME UNCHANGED <<release, seen>>, Known(r), Complete(seen[r].is)
      PROVE  Goal
  BY <1>3, SeenComplete DEF Judged, Known
<1>4. ASSUME UNCHANGED release, NEW i \in DOMAIN release, Remember(r, i),
             Complete(release[i])
      PROVE  Goal
  <2>1. seen'[r] = [id |-> i, is |-> release[i]]
    BY <1>4 DEF Remember, RunsTyped
  <2> QED
    BY <1>4, <2>1 DEF Judged
<1> HIDE DEF Goal
<1> USE DEF remote, local, RunsTyped
<1>5. ASSUME Start(r) \/ Fails(r) PROVE Goal
  BY <1>1, <1>5, Starts DEF Fails, Goto, Closing
\* A step to a place where nothing was judged.
<1>6. ASSUME NEW p \in {"begin", "prepare", "list", "create", "judge", "upload",
                        "relist", "verify", "consume", "notices", "compare",
                        "patchNotice", "readBack", "warn", "patchWarning",
                        "repair", "done", "failed"},
             Goto(r, p)
      PROVE  Goal
  <2>1. pc'[r] = p /\ p \notin Closing
    BY <1>6 DEF Goto, Closing
  <2> QED
    BY <1>1, <2>1
<1>7. ASSUME WriteGate(r, "begin", "prepare") \/ WriteGate(r, "gate", "publish")
      PROVE  Goal
  BY <1>2, <1>6, <1>7 DEF WriteGate, At, Closing
<1>8. ASSUME NEW i, Publish(r, i) PROVE Goal
  BY <1>2, <1>8 DEF Publish, At, Closing, local
<1>9. ASSUME FirstFinds(r) PROVE Goal
  BY <1>4, <1>6, <1>9 DEF FirstFinds, Finds, Listed
<1>10. ASSUME NEW inputs, Context(r) \/ Prepare(r, inputs) \/ FindsNone(r)
       PROVE  Goal
  BY <1>6, <1>10 DEF Context, Prepare, FindsNone
<1>11. ASSUME NEW i, Finds(r, i, "judge") PROVE Goal
  BY <1>6, <1>11 DEF Finds
<1>12. ASSUME Create(r, "judge") \/ Create(r, "upload") PROVE Goal
  BY <1>6, <1>12 DEF Create, Answer
<1>13. ASSUME Upload(r) \/ UploadByTag(r) PROVE Goal
  BY <1>6, <1>13 DEF Upload, UploadByTag, Answer
<1>14. ASSUME NEW here, NEW p \in {"upload", "consume"}, NEW fits,
              Reads(r, here, p, fits)
       PROVE  Goal
  BY <1>6, <1>14 DEF Reads
<1>15. ASSUME NEW here, NEW p, NEW fits,
              Reads(r, here, p, fits), fits => Complete(Now(r))
       PROVE  Goal
  BY <1>4, <1>15 DEF Reads, Known, Now
<1>16. ASSUME NEW p \in {"done", "notices", "warn"}, NEW ids, Consume(r, p, ids)
       PROVE  Goal
  BY <1>6, <1>16 DEF Consume
<1>17. ASSUME First(r) PROVE Goal
  BY <1>7, <1>8, <1>9, <1>10, <1>14, <1>16, <1>17 DEF First, FirstVerifies
<1>18. ASSUME ReceiptPublishes(r) PROVE Goal
  <2>1. CASE ReceiptJudges(r)
    BY <1>3, <1>6, <2>1 DEF ReceiptJudges
  <2>2. CASE ReceiptUploaded(r) \/ ReceiptFinal(r)
    BY <1>6, <2>2 DEF ReceiptUploaded, ReceiptFinal
  <2>3. CASE Reads(r, "verify", "gate", Known(r) /\ Complete(Now(r)))
    BY <1>15, <2>3
  <2> QED
    BY <1>7, <1>8, <1>10, <1>11, <1>12, <1>13, <1>18, <2>1, <2>2, <2>3
       DEF ReceiptPublishes
<1>19. ASSUME Alpha(r) PROVE Goal
  BY <1>10, <1>16, <1>18, <1>19 DEF Alpha, AlphaConsumes
<1>20. ASSUME Corrective(r) PROVE Goal
  BY <1>6, <1>10, <1>16, <1>18, <1>20 DEF Corrective, CorrectiveConsumes,
     Notices, Compare, PatchNotice, ReadBack, Answer
<1>21. ASSUME Skill(r) PROVE Goal
  BY <1>3, <1>8, <1>10, <1>11, <1>12, <1>13, <1>14, <1>16, <1>21 DEF Skill,
     SkillFinds, SkillUploaded, SkillReads
<1>22. ASSUME Relist(r) \/ Evidence1Final(r) \/ Warn(r) \/ PatchWarning(r)
       PROVE  Goal
  BY <1>6, <1>22 DEF Relist, Evidence1Final, Warn, PatchWarning, Answer
<1>23. ASSUME EvidenceFinds(r) \/ EvidenceJudges(r) PROVE Goal
  BY <1>11, <1>15, <1>23 DEF EvidenceFinds, EvidenceJudges
<1>24. ASSUME Evidence1(r) PROVE Goal
  BY <1>8, <1>10, <1>12, <1>13, <1>16, <1>22, <1>23, <1>24 DEF Evidence1,
     Evidence1Consumes
<1>25. ASSUME Evidence2(r) PROVE Goal
  BY <1>8, <1>10, <1>12, <1>13, <1>14, <1>16, <1>22, <1>23, <1>25 DEF Evidence2,
     Evidence2Reads
<1>26. ASSUME Capsule(r) PROVE Goal
  BY <1>6, <1>10, <1>26 DEF Capsule, CapsuleReads, CapsuleRepairs,
     CapsuleReadsBack, Answer
<1> QED
  <2>1. Goal
    BY <1>5, <1>17, <1>19, <1>20, <1>21, <1>24, <1>25, <1>26 DEF Step
  <2> QED
    BY <2>1 DEF Goal
-----------------------------------------------------------------------------
\* The capsule's file is overwritten by the correct one alone.
LEMMA RetainedStays ==
    ASSUME RunsTyped, NEW r \in Runs, Step(r), script = "capsule"
    PROVE  /\ Retained => Retained'
           /\ pc'[r] = "done" => Retained'
<1> USE DEF RunsTyped, remote
<1>1. ASSUME Start(r) \/ Fails(r)
      PROVE  UNCHANGED older /\ pc'[r] # "done"
  BY <1>1, Starts DEF Fails, Goto
<1>2. ASSUME Context(r) \/ Prepare(r, CapsulePrepares) \/ CapsuleReads(r)
      PROVE  UNCHANGED older /\ pc'[r] # "done"
  BY <1>2 DEF Context, Prepare, CapsuleReads, Goto
<1>3. <<"retained">>[1] = "retained" /\ Len(<<"retained">>) = 1
  OBVIOUS
<1>4. ASSUME older' = <<"retained">> PROVE Retained'
  BY <1>3, <1>4 DEF Retained
<1>5. CASE CapsuleRepairs(r) \/ CapsuleReadsBack(r)
  BY <1>4, <1>5 DEF CapsuleRepairs, CapsuleReadsBack
<1>6. CASE UNCHANGED older /\ pc'[r] # "done"
  BY <1>6 DEF Retained
<1> QED
  BY <1>1, <1>2, <1>5, <1>6 DEF Step, Capsule

LEMMA StepGood ==
    ASSUME RunsTyped, NEW r \in Runs, Step(r), Alone(r), Grows,
           Judged(pc[r], seen[r]), Good(pc[r], job[r])
    PROVE  Good(pc[r], job[r])'
<1>1. CASE script = "capsule"
  BY <1>1, RetainedStays DEF Good, Alone
<1> DEFINE Goal == Good(pc[r], job[r])'
           Late == Reading \cup Patching \cup {"done"}
<1> SUFFICES ASSUME script # "capsule" PROVE Goal
  BY <1>1
<1>2. script' # "capsule"
  BY DEF Alone
<1>3. ASSUME PublicComplete PROVE Goal
  BY <1>2, <1>3, PublicStays DEF Good
<1>4. ASSUME pc'[r] \notin Late, job' = job PROVE Goal
  BY <1>2, <1>3, <1>4 DEF Good
<1>5. ASSUME pc[r] \in Late PROVE Goal
  BY <1>3, <1>5 DEF Good
<1>6. ASSUME pc'[r] \notin Late, job'[r] = "publish" PROVE Goal
  BY <1>2, <1>6 DEF Good
<1> USE DEF RunsTyped, fixed
<1>7. ASSUME Start(r) PROVE Goal
  <2>1. CASE job[r] \in {"consumer", "notices"}
    BY <1>3, <2>1 DEF Good
  <2>2. CASE job[r] \notin {"consumer", "notices"}
    <3>1. pc'[r] \notin Late /\ job'[r] \notin {"consumer", "notices"}
      BY <1>7, <2>2, Starts DEF Reading, Patching
    <3> QED
      BY <1>2, <3>1 DEF Good
  <2> QED
    BY <2>1, <2>2
<1> HIDE DEF Goal
\* A step to a place where the release need not be public yet.
<1>8. ASSUME NEW p \in {"prepare", "list", "create", "judge", "upload",
                        "relist", "verify", "gate", "publish", "final",
                        "failed"},
             Goto(r, p), job' = job \/ job'[r] = "publish"
      PROVE  Goal
  <2>1. pc'[r] = p /\ p \notin Late
    BY <1>8 DEF Goto, Reading, Patching
  <2> QED
    BY <1>4, <1>6, <1>8, <2>1
<1>9. ASSUME NEW i, Publish(r, i) PROVE Goal
  BY <1>8, <1>9 DEF Publish, Answer
<1>10. ASSUME NEW inputs, Prepare(r, inputs) PROVE Goal
  <2>1. NextJob(r, "list") => job'[r] = "publish"
    BY NextJobs
  <2> QED
    BY <1>8, <1>10, <2>1 DEF Prepare
<1>11. ASSUME NEW here, NEW p \in {"prepare", "publish"},
              WriteGate(r, here, p) \/ Context(r) \/ Fails(r) \/ FindsNone(r)
       PROVE  Goal
  BY <1>8, <1>11 DEF WriteGate, Context, Fails, FindsNone
<1>12. ASSUME Create(r, "judge") \/ Create(r, "upload") \/ Upload(r)
              \/ UploadByTag(r)
       PROVE  Goal
  BY <1>8, <1>12 DEF Create, Upload, UploadByTag, Answer
<1>13. ASSUME NEW i, NEW p \in {"judge", "gate"}, Finds(r, i, p) PROVE Goal
  BY <1>8, <1>13 DEF Finds
<1>14. ASSUME NEW here, NEW p \in {"upload", "gate", "publish", "final"},
              NEW fits, Reads(r, here, p, fits)
       PROVE  Goal
  BY <1>8, <1>14 DEF Reads
\* The release of the run is public and complete.
<1>15. ASSUME Public(r), Complete(Now(r)) PROVE Goal
  BY <1>3, <1>15 DEF Public, Known, Now, PublicComplete, ListedPublic
<1>16. ASSUME Reads(r, "final", "consume", Public(r) /\ Complete(Now(r)))
       PROVE  Goal
  BY <1>15, <1>16 DEF Reads
<1>17. ASSUME At(r, "consume") \/ At(r, "notices") \/ At(r, "compare")
              \/ At(r, "patchNotice") \/ At(r, "readBack") \/ At(r, "warn")
              \/ At(r, "patchWarning")
       PROVE  Goal
  BY <1>5, <1>17 DEF At, Reading, Patching
<1>18. ASSUME First(r) PROVE Goal
  <2>1. ASSUME FirstFinds(r) PROVE Goal
    <3>1. PICK i \in DOMAIN release :
              /\ Complete(release[i])
              /\ Finds(r, i, IF release[i].draft THEN "gate" ELSE "consume")
      BY <2>1 DEF FirstFinds, Listed
    <3>2. CASE release[i].draft
      BY <1>13, <3>1, <3>2
    <3>3. CASE ~ release[i].draft
      BY <1>3, <3>1, <3>3 DEF PublicComplete, ListedPublic
    <3> QED
      BY <3>2, <3>3
  <2> QED
    BY <1>9, <1>10, <1>11, <1>16, <1>17, <1>18, <2>1 DEF First, FirstVerifies
<1>19. ASSUME ReceiptPublishes(r) PROVE Goal
  <2>1. ASSUME ReceiptJudges(r) \/ ReceiptUploaded(r) PROVE Goal
    BY <1>8, <2>1 DEF ReceiptJudges, ReceiptUploaded
  <2>2. ASSUME ReceiptFinal(r) PROVE Goal
    BY <1>15, <2>2 DEF ReceiptFinal
  <2> QED
    BY <1>9, <1>11, <1>12, <1>13, <1>14, <1>19, <2>1, <2>2 DEF ReceiptPublishes
<1>20. ASSUME Alpha(r) PROVE Goal
  BY <1>10, <1>17, <1>19, <1>20 DEF Alpha, AlphaConsumes
<1>21. ASSUME Corrective(r) PROVE Goal
  BY <1>10, <1>17, <1>19, <1>21 DEF Corrective, CorrectiveConsumes, Notices,
     Compare, PatchNotice, ReadBack
<1>22. ASSUME Skill(r) PROVE Goal
  <2>1. ASSUME SkillUploaded(r) PROVE Goal
    BY <1>8, <2>1 DEF SkillUploaded
  <2>2. ASSUME SkillReads(r) PROVE Goal
    BY <1>3, <2>2 DEF SkillReads, Consume, PublicComplete
  <2> QED
    BY <1>9, <1>10, <1>11, <1>12, <1>13, <1>14, <1>22, <2>1, <2>2
       DEF Skill, SkillFinds
<1>23. ASSUME Relist(r) \/ EvidenceFinds(r) \/ EvidenceJudges(r) PROVE Goal
  BY <1>8, <1>13, <1>14, <1>23 DEF Relist, EvidenceFinds, EvidenceJudges
<1>24. ASSUME Evidence1(r) PROVE Goal
  <2>1. ASSUME Evidence1Final(r) PROVE Goal
    BY <1>15, <2>1 DEF Evidence1Final, Judged, At, Closing, Now
  <2> QED
    BY <1>9, <1>10, <1>11, <1>12, <1>17, <1>23, <1>24, <2>1 DEF Evidence1,
       Evidence1Consumes
<1>25. ASSUME Evidence2(r) PROVE Goal
  BY <1>9, <1>10, <1>11, <1>12, <1>16, <1>17, <1>23, <1>25 DEF Evidence2,
     Evidence2Reads, Warn, PatchWarning
<1> QED
  BY <1>7, <1>11, <1>18, <1>20, <1>21, <1>22, <1>24, <1>25 DEF Step
-----------------------------------------------------------------------------
\* Only Start moves a run that has ended.
LEMMA Active ==
    ASSUME RunsTyped, NEW r \in Runs, Step(r)
    PROVE  Start(r) \/ pc[r] \notin Ended
<1> USE DEF At, Ended
<1>1. CASE Fails(r)
  BY <1>1 DEF Fails
<1>2. CASE First(r)
  BY <1>2 DEF First, WriteGate, Prepare, FirstFinds, Finds, Publish, Reads,
     FirstVerifies
<1>3. CASE ReceiptPublishes(r)
  BY <1>3 DEF ReceiptPublishes, WriteGate, FindsNone, Finds, Create,
     ReceiptJudges, Upload, ReceiptUploaded, Reads, Publish, ReceiptFinal
<1>4. CASE Alpha(r)
  BY <1>3, <1>4 DEF Alpha, Prepare, AlphaConsumes
<1>5. CASE Corrective(r)
  BY <1>3, <1>5 DEF Corrective, Prepare, CorrectiveConsumes, Notices, Compare,
     PatchNotice, ReadBack
<1>6. CASE Skill(r)
  BY <1>6 DEF Skill, Context, Prepare, FindsNone, SkillFinds, Finds, Create,
     Reads, Upload, SkillUploaded, Publish, SkillReads
<1>7. CASE Evidence1(r)
  BY <1>7 DEF Evidence1, Context, Prepare, FindsNone, EvidenceFinds, Finds,
     Create, UploadByTag, Relist, EvidenceJudges, Reads, Publish,
     Evidence1Final, Evidence1Consumes
<1>8. CASE Evidence2(r)
  BY <1>8 DEF Evidence2, Context, Prepare, FindsNone, EvidenceFinds, Finds,
     Create, UploadByTag, Relist, EvidenceJudges, Reads, Publish,
     Evidence2Reads, Warn, PatchWarning
<1>9. CASE Capsule(r)
  BY <1>9 DEF Capsule, Context, Prepare, CapsuleReads, CapsuleRepairs,
     CapsuleReadsBack
<1> QED
  BY <1>1, <1>2, <1>4, <1>5, <1>6, <1>7, <1>8, <1>9 DEF Step

\* For the receipt's publishers: the draft is created only when the list had
\* none, and a run goes to create it only from there.
LEMMA ReceiptCreates ==
    ASSUME RunsTyped, ReleaseTyped, NEW r \in Runs, Step(r), Receipt
    PROVE  /\ \/ DOMAIN release' = DOMAIN release
              \/ /\ At(r, "create")
                 /\ \E i : DOMAIN release' = DOMAIN release \cup {i}
           /\ pc'[r] = "create" => Listed = {} /\ UNCHANGED release
<1> DEFINE Goal ==
        /\ \/ DOMAIN release' = DOMAIN release
           \/ /\ At(r, "create")
              /\ \E i : DOMAIN release' = DOMAIN release \cup {i}
        /\ pc'[r] = "create" => Listed = {} /\ UNCHANGED release
<1> USE DEF RunsTyped, remote, Receipt
<1>1. ASSUME Start(r) PROVE Goal
  BY <1>1, Starts
<1>2. ASSUME FindsNone(r) PROVE Goal
  BY <1>2 DEF FindsNone
<1>3. ASSUME Create(r, "judge") PROVE Goal
  BY <1>3 DEF Create, Answer, Goto
\* A step to any other place that leaves the list of releases alone.
<1>4. ASSUME NEW p, p # "create", Goto(r, p), DOMAIN release' = DOMAIN release
      PROVE  Goal
  BY <1>4 DEF Goto
<1> HIDE DEF Goal
<1>5. ASSUME Upload(r) PROVE Goal
  <2>1. DOMAIN release' = DOMAIN release
    BY <1>5 DEF Upload
  <2> QED
    BY <1>4, <1>5, <2>1 DEF Upload, Answer
<1>6. ASSUME Publish(r, seen[r].id) PROVE Goal
  BY <1>4, <1>6 DEF Publish, Answer
<1>7. ASSUME NEW inputs, Fails(r) \/ Prepare(r, inputs) PROVE Goal
  BY <1>4, <1>7 DEF Fails, Prepare
<1>8. ASSUME WriteGate(r, "begin", "prepare") \/ WriteGate(r, "gate", "publish")
      PROVE  Goal
  BY <1>4, <1>8 DEF WriteGate
<1>9. ASSUME NEW i, NEW p \in {"judge", "gate", "consume"}, Finds(r, i, p)
      PROVE  Goal
  BY <1>4, <1>9 DEF Finds
<1>10. ASSUME NEW here, NEW p \in {"gate", "consume"}, NEW fits,
              Reads(r, here, p, fits)
       PROVE  Goal
  BY <1>4, <1>10 DEF Reads
<1>11. ASSUME NEW p \in {"done", "notices"}, NEW ids, Consume(r, p, ids)
       PROVE  Goal
  BY <1>4, <1>11 DEF Consume
<1>12. ASSUME First(r) PROVE Goal
  BY <1>6, <1>7, <1>8, <1>9, <1>10, <1>11, <1>12 DEF First, FirstFinds,
     FirstVerifies
<1>13. ASSUME ReceiptJudges(r) \/ ReceiptUploaded(r) \/ ReceiptFinal(r)
       PROVE  Goal
  BY <1>4, <1>13 DEF ReceiptJudges, ReceiptUploaded, ReceiptFinal
<1>14. ASSUME ReceiptPublishes(r) PROVE Goal
  BY <1>2, <1>3, <1>5, <1>6, <1>8, <1>9, <1>10, <1>13, <1>14
     DEF ReceiptPublishes
<1>15. ASSUME Alpha(r) PROVE Goal
  BY <1>7, <1>11, <1>14, <1>15 DEF Alpha, AlphaConsumes
<1>16. ASSUME Corrective(r) PROVE Goal
  BY <1>4, <1>7, <1>11, <1>14, <1>16 DEF Corrective, CorrectiveConsumes,
     Notices, Compare, PatchNotice, ReadBack, Answer
<1> QED
  BY <1>1, <1>7, <1>12, <1>15, <1>16 DEF Step, Goal

LEMMA StepOne ==
    ASSUME RunsTyped, ReleaseTyped, NEW r \in Runs, Step(r), Alone(r),
           OneAtATime
    PROVE  OneAtATime'
<1> SUFFICES ASSUME Receipt PROVE OneAtATime'
  BY DEF OneAtATime, Receipt, Alone
<1>1. ASSUME NEW q \in Runs, NEW s \in Runs,
             pc'[q] \notin Ended, pc'[s] \notin Ended
      PROVE  q = s
  <2>1. ASSUME NEW t \in Runs, t # r PROVE pc[t] \in Ended
    <3>1. CASE Start(r)
      BY <2>1, <3>1 DEF Start
    <3>2. CASE pc[r] \notin Ended
      BY <2>1, <3>2 DEF OneAtATime
    <3> QED
      BY <3>1, <3>2, Active
  <2> QED
    BY <1>1, <2>1 DEF Alone
<1>2. ASSUME NEW q \in Runs, At(q, "create")' PROVE DOMAIN release' = {}
  <2>1. CASE q = r
    BY <1>2, <2>1, ReceiptCreates DEF At, Listed
  <2>2. CASE q # r
    <3>1. At(q, "create")
      BY <1>2, <2>2 DEF At, Alone
    <3>2. ~ At(r, "create")
      BY <2>2, <3>1 DEF OneAtATime, At, Ended
    <3> QED
      BY <3>1, <3>2, ReceiptCreates DEF OneAtATime
  <2> QED
    BY <2>1, <2>2
<1>3. ASSUME NEW i \in DOMAIN release', NEW j \in DOMAIN release'
      PROVE  i = j
  <2>1. CASE DOMAIN release' = DOMAIN release
    BY <1>3, <2>1 DEF OneAtATime
  <2>2. CASE /\ At(r, "create")
             /\ \E k : DOMAIN release' = DOMAIN release \cup {k}
    BY <1>3, <2>2 DEF OneAtATime
  <2> QED
    BY <2>1, <2>2, ReceiptCreates
<1> QED
  BY <1>1, <1>2, <1>3 DEF OneAtATime
-----------------------------------------------------------------------------
\* A step leaves the older body alone, and whoever gets to overwrite it has
\* just read it; or it is one of the three writes.
LEMMA Writes ==
    ASSUME RunsTyped, NEW r \in Runs, Step(r)
    PROVE  \/ older' = older /\ (pc'[r] \in Patching => before'[r] = older)
           \/ pc'[r] \notin Patching /\ script # "capsule"
                  /\ (PatchNotice(r) \/ PatchWarning(r))
           \/ pc'[r] \notin Patching /\ script = "capsule"
                  /\ CapsuleRepairs(r)
<1> DEFINE Quiet ==
        older' = older /\ (pc'[r] \in Patching => before'[r] = older)
<1> USE DEF RunsTyped, remote, local
<1>1. ASSUME Start(r) PROVE Quiet
  BY <1>1, Starts DEF Patching
\* A step to another place.
<1>2. ASSUME NEW p, p \notin Patching, Goto(r, p) PROVE pc'[r] \notin Patching
  BY <1>2 DEF Goto
<1>3. ASSUME UNCHANGED older, pc'[r] \notin Patching PROVE Quiet
  BY <1>3
<1>4. ASSUME Compare(r) \/ Warn(r) PROVE Quiet
  BY <1>4 DEF Compare, Warn, Goto
<1> HIDE DEF Quiet
<1> USE DEF Patching
<1>5. ASSUME NEW i, Publish(r, i) PROVE Quiet
  BY <1>2, <1>3, <1>5 DEF Publish, Answer
<1>6. ASSUME NEW inputs, NEW here, NEW p \in {"prepare", "publish"},
             \/ Prepare(r, inputs) \/ WriteGate(r, here, p)
             \/ Context(r) \/ Fails(r) \/ FindsNone(r)
      PROVE  Quiet
  BY <1>2, <1>3, <1>6 DEF Prepare, WriteGate, Context, Fails, FindsNone
<1>7. ASSUME Create(r, "judge") \/ Create(r, "upload") \/ Upload(r)
             \/ UploadByTag(r)
      PROVE  Quiet
  BY <1>2, <1>3, <1>7 DEF Create, Upload, UploadByTag, Answer
<1>8. ASSUME NEW i, NEW p \in {"judge", "gate", "consume"}, Finds(r, i, p)
      PROVE  Quiet
  BY <1>2, <1>3, <1>8 DEF Finds
<1>9. ASSUME NEW here, NEW fits,
             NEW p \in {"upload", "gate", "publish", "final", "consume"},
             Reads(r, here, p, fits)
      PROVE  Quiet
  BY <1>2, <1>3, <1>9 DEF Reads
<1>10. ASSUME NEW p \in {"done", "notices", "warn"}, NEW ids, Consume(r, p, ids)
       PROVE  Quiet
  BY <1>2, <1>3, <1>10 DEF Consume
<1>11. ASSUME First(r) PROVE Quiet
  BY <1>5, <1>6, <1>8, <1>9, <1>10, <1>11 DEF First, FirstFinds, FirstVerifies
<1>12. ASSUME ReceiptJudges(r) \/ ReceiptUploaded(r) \/ ReceiptFinal(r)
       PROVE  Quiet
  BY <1>2, <1>3, <1>12 DEF ReceiptJudges, ReceiptUploaded, ReceiptFinal
<1>13. ASSUME ReceiptPublishes(r) PROVE Quiet
  BY <1>5, <1>6, <1>7, <1>8, <1>9, <1>12, <1>13 DEF ReceiptPublishes
<1>14. ASSUME Alpha(r) PROVE Quiet
  BY <1>6, <1>10, <1>13, <1>14 DEF Alpha, AlphaConsumes
<1>15. ASSUME Corrective(r)
       PROVE  \/ Quiet
              \/ pc'[r] \notin Patching /\ PatchNotice(r)
  <2>1. ASSUME Notices(r) \/ ReadBack(r) PROVE Quiet
    BY <1>2, <1>3, <2>1 DEF Notices, ReadBack
  <2>2. ASSUME PatchNotice(r) PROVE pc'[r] \notin Patching
    BY <1>2, <2>2 DEF PatchNotice, Answer
  <2>3. ASSUME ~ PatchNotice(r) PROVE Quiet
    BY <1>4, <1>6, <1>10, <1>13, <1>15, <2>1, <2>3
       DEF Corrective, CorrectiveConsumes
  <2> QED
    BY <2>2, <2>3
<1>16. ASSUME Skill(r) PROVE Quiet
  <2>1. ASSUME SkillUploaded(r) PROVE Quiet
    BY <1>2, <1>3, <2>1 DEF SkillUploaded
  <2> QED
    BY <1>5, <1>6, <1>7, <1>8, <1>9, <1>10, <1>16, <2>1 DEF Skill, SkillFinds,
       SkillReads
<1>17. ASSUME Relist(r) \/ EvidenceFinds(r) \/ EvidenceJudges(r) PROVE Quiet
  BY <1>2, <1>3, <1>8, <1>9, <1>17 DEF Relist, EvidenceFinds, EvidenceJudges
<1>18. ASSUME Evidence1(r) PROVE Quiet
  <2>1. ASSUME Evidence1Final(r) PROVE Quiet
    BY <1>2, <1>3, <2>1 DEF Evidence1Final
  <2> QED
    BY <1>5, <1>6, <1>7, <1>10, <1>17, <1>18, <2>1 DEF Evidence1,
       Evidence1Consumes
<1>19. ASSUME Evidence2(r)
       PROVE  \/ Quiet
              \/ pc'[r] \notin Patching /\ PatchWarning(r)
  <2>1. ASSUME PatchWarning(r) PROVE pc'[r] \notin Patching
    BY <1>2, <2>1 DEF PatchWarning, Answer
  <2>2. ASSUME ~ PatchWarning(r) PROVE Quiet
    BY <1>4, <1>5, <1>6, <1>7, <1>9, <1>10, <1>17, <1>19, <2>2
       DEF Evidence2, Evidence2Reads
  <2> QED
    BY <2>1, <2>2
<1>20. ASSUME Capsule(r)
       PROVE  \/ Quiet
              \/ pc'[r] \notin Patching /\ CapsuleRepairs(r)
  <2>1. ASSUME CapsuleReads(r) \/ CapsuleReadsBack(r) PROVE Quiet
    BY <1>2, <1>3, <2>1 DEF CapsuleReads, CapsuleReadsBack
  <2>2. ASSUME CapsuleRepairs(r) PROVE pc'[r] \notin Patching
    BY <1>2, <2>2 DEF CapsuleRepairs, Answer
  <2>3. ASSUME ~ CapsuleRepairs(r) PROVE Quiet
    BY <1>6, <1>20, <2>1, <2>3 DEF Capsule
  <2> QED
    BY <2>2, <2>3
<1> QED
  BY <1>1, <1>6, <1>11, <1>14, <1>15, <1>16, <1>18, <1>19, <1>20
     DEF Step, Quiet

LEMMA StepText ==
    ASSUME RunsTyped, NEW r \in Runs, Step(r), Alone(r), Text
    PROVE  Text'
<1>1. ASSUME NEW body, NEW longer, Faithful(body),
             Cardinality(LinesOf(longer)) = Cardinality(LinesOf(body)),
             Repaired(longer) => Repaired(body)
      PROVE  Faithful(longer)
  BY <1>1 DEF Faithful
<1>2. ASSUME NEW body
      PROVE  Faithful(body) <=>
                 /\ Cardinality(LinesOf(body)) <= edits'
                 /\ edits' <= Cardinality(LinesOf(body)) + slips'
                 /\ script' # "capsule" => ~ Repaired(body)
  BY DEF Faithful, Alone
<1>3. ASSUME Faithful(older')
      PROVE  Faithful(older)'
  BY <1>2, <1>3 DEF Faithful, LinesOf, Repaired
<1>4. ASSUME NEW q \in Runs, before'[q] \in Seq(Paragraphs),
             Faithful(before'[q])
      PROVE  Faithful(before[q])'
  BY <1>2, <1>4 DEF Faithful, LinesOf, Repaired
<1>5. ASSUME NEW q \in Runs, q # r, pc'[q] \in Patching
      PROVE  before'[q] \in Seq(Paragraphs) /\ Faithful(before'[q])
  BY <1>5 DEF Text, Alone
<1>6. older \in Seq(Paragraphs)
  BY DEF RunsTyped
<1>7. CASE older' = older /\ (pc'[r] \in Patching => before'[r] = older)
  BY <1>3, <1>4, <1>5, <1>6, <1>7 DEF Text
<1>8. CASE pc'[r] \notin Patching /\ script # "capsule"
               /\ (PatchNotice(r) \/ PatchWarning(r))
  <2>1. before[r] \in Seq(Paragraphs) /\ Faithful(before[r])
    BY <1>8 DEF PatchNotice, PatchWarning, At, Patching, Text
  <2>2. "notice" \in Paragraphs /\ "warning" \in Paragraphs
    BY DEF Paragraphs
  <2>3. CASE older' = Notified(before[r])
    <3>2. CASE older' = Append(before[r], "notice")
      <4>1. /\ Cardinality(LinesOf(older')) = Cardinality(LinesOf(before[r])) + 0
            /\ Repaired(older') <=> Repaired(before[r])
        BY <2>1, <2>2, <3>2, Appended
      <4>2. Cardinality(LinesOf(before[r])) \in Nat
        BY <2>1, LinesFinite
      <4>3. Faithful(older')
        BY <1>1, <2>1, <4>1, <4>2
      <4> QED
        BY <1>3, <1>4, <1>5, <1>8, <4>3 DEF Text
    <3>3. CASE older' = before[r]
      BY <1>3, <1>4, <1>5, <1>8, <2>1, <3>3 DEF Text
    <3> QED
      BY <2>3, <3>2, <3>3 DEF Notified
  <2>4. CASE older' = <<"warning">> \o before[r]
    <3>1. /\ Cardinality(LinesOf(older')) = Cardinality(LinesOf(before[r])) + 0
          /\ Repaired(older') <=> Repaired(before[r])
      BY <2>1, <2>2, <2>4, Prepended
    <3>2. Cardinality(LinesOf(before[r])) \in Nat
      BY <2>1, LinesFinite
    <3>3. Faithful(older')
      BY <1>1, <2>1, <3>1, <3>2
    <3> QED
      BY <1>3, <1>4, <1>5, <1>8, <3>3 DEF Text
  <2> QED
    BY <1>8, <2>3, <2>4 DEF PatchNotice, PatchWarning
<1>9. CASE pc'[r] \notin Patching /\ script = "capsule" /\ CapsuleRepairs(r)
  <2>1. older = <<"bad">> /\ older' = <<"retained">>
    BY <1>9 DEF CapsuleRepairs
  <2>2. LinesOf(older) = {} /\ LinesOf(older') = {}
    BY <2>1 DEF LinesOf
  <2>3. Faithful(older')
    BY <1>9, <2>2 DEF Faithful, Text
  <2> QED
    BY <1>3, <1>4, <1>5, <1>9, <2>3 DEF Text
<1> QED
  BY <1>7, <1>8, <1>9, Writes
-----------------------------------------------------------------------------
\* Initially no run has started, and no line was written.
LEMMA InitInv == Init => IInv
<1> SUFFICES ASSUME Init PROVE IInv
  OBVIOUS
<1>1. Pinned \in Ids
  <2>1. Cardinality(Runs) \in Nat /\ MaxAttempts \in Nat
    BY FS_CardinalityType, ReleasesAssumption
  <2>2. \A a, b \in Nat : a * b \in Nat
    OBVIOUS
  <2>3. MaxAttempts * Cardinality(Runs) \in Nat
    BY <2>1, <2>2
  <2> QED
    BY <2>3 DEF Ids, Pinned
<1>2. ReleaseTyped
  BY <1>1 DEF Init, ReleaseTyped
<1>3. \A i, j \in DOMAIN release : i = j
  BY DEF Init
<1>4. /\ older \in Seq(Paragraphs)
      /\ LinesOf(older) = {}
      /\ script # "capsule" => ~ Repaired(older)
  <2>1. older \in {<<"bad">>, <<"retained">>, <<"notes">>}
        /\ (script # "capsule" => older = <<"notes">>)
    BY DEF Init
  <2> QED
    BY <2>1 DEF Paragraphs, LinesOf, Repaired
<1>5. \A r \in Runs : pc[r] = "idle" /\ job[r] = "prepare" /\ seen[r] = None
                      /\ before[r] = None
  BY DEF Init
<1>6. TypeOK
  BY <1>2, <1>4 DEF Init, TypeOK, ReleaseTyped, Places, Ended, Jobs, Seen
<1>7. \A r \in Runs : OfRun(r)
  BY <1>5 DEF OfRun, Prepared, Sees, Judged, Good, Ended, Closing, Reading,
     Patching
<1>8. OneAtATime
  BY <1>3, <1>5 DEF OneAtATime, Ended, At
<1>9. Text
  BY <1>4, <1>5, FS_EmptySet DEF Init, Text, Faithful, Patching
<1> QED
  BY <1>6, <1>7, <1>8, <1>9 DEF IInv

LEMMA TypeParts == TypeOK <=>
    /\ RunsTyped /\ ReleaseTyped
    /\ script \in Scripts /\ sound \in SUBSET Inputs
    /\ main \in Runs \cup {None} /\ edits \in Nat /\ slips \in Nat
BY DEF TypeOK, RunsTyped, ReleaseTyped, Seen

\* A push to main touches nothing of it.
LEMMA PushInv ==
    ASSUME IInv, Push
    PROVE  IInv'
<1>1. UNCHANGED <<script, sound, attempts, job, release, older, pc, seen,
                  before, edits, slips>>
  BY DEF Push, fixed, local, owner
<1>2. main' \in Runs \cup {None}
  BY DEF Push
<1>3. TypeOK'
  BY <1>1, <1>2 DEF IInv, TypeOK
<1>4. ASSUME NEW r \in Runs PROVE OfRun(r)'
  BY <1>1 DEF IInv, OfRun, Prepared, Sees, Judged, Good, Demanded, Receipt,
     PublicComplete, ListedPublic, Retained
<1>5. OneAtATime'
  BY <1>1 DEF IInv, OneAtATime, Receipt, At
<1>6. Text'
  BY <1>1 DEF IInv, Text, Faithful
<1> QED
  BY <1>3, <1>4, <1>5, <1>6 DEF IInv

\* An edit adds one line; if a run is about to overwrite the body, it may slip.
LEMMA EditInv ==
    ASSUME IInv, Edit
    PROVE  IInv'
<1>1. /\ UNCHANGED <<script, sound, attempts, job, main, release, pc, seen,
                     before>>
      /\ edits' = edits + 1
      /\ slips' = IF \E r \in Runs : pc[r] \in Patching
                  THEN slips + 1 ELSE slips
      /\ older' \in {Append(older, "line"), <<"line">> \o older}
  BY DEF Edit, fixed, local, Patching
<1>2. older \in Seq(Paragraphs) /\ "line" \in Paragraphs /\ edits \in Nat
      /\ slips \in Nat
  BY DEF IInv, TypeOK, Paragraphs
<1>3. /\ older' \in Seq(Paragraphs)
      /\ Cardinality(LinesOf(older')) = Cardinality(LinesOf(older)) + 1
      /\ Repaired(older') <=> Repaired(older)
  <2>1. CASE older' = Append(older, "line")
    BY <1>2, <2>1, Appended
  <2>2. CASE older' = <<"line">> \o older
    BY <1>2, <2>2, Prepended
  <2> QED
    BY <1>1, <2>1, <2>2
<1>4. TypeOK'
  <2>1. edits' \in Nat /\ slips' \in Nat
    BY <1>1, <1>2
  <2> QED
    BY <1>1, <1>3, <2>1 DEF IInv, TypeOK
<1>5. ASSUME NEW r \in Runs PROVE OfRun(r)'
  <2>1. Retained <=> Retained'
    BY <1>3 DEF Retained, Repaired
  <2> QED
    BY <1>1, <2>1 DEF IInv, OfRun, Prepared, Sees, Judged, Good, Demanded,
       Receipt, PublicComplete, ListedPublic
<1>6. OneAtATime'
  BY <1>1 DEF IInv, OneAtATime, Receipt, At
<1>7. Text'
  <2>1. Faithful(older)'
    <3>1. Cardinality(LinesOf(older)) \in Nat /\ Faithful(older)
      BY <1>2, LinesFinite DEF IInv, Text
    <3>2. slips' \in {slips, slips + 1}
      BY <1>1
    <3> QED
      BY <1>1, <1>2, <1>3, <3>1, <3>2 DEF Faithful, LinesOf, Repaired
  <2>2. ASSUME NEW r \in Runs, pc'[r] \in Patching
        PROVE  before'[r] \in Seq(Paragraphs) /\ Faithful(before[r])'
    <3>1. before'[r] = before[r] /\ pc[r] \in Patching /\ slips' = slips + 1
      BY <1>1, <2>2
    <3>2. before[r] \in Seq(Paragraphs) /\ Faithful(before[r])
      BY <3>1 DEF IInv, Text
    <3>3. Cardinality(LinesOf(before[r])) \in Nat
      BY <3>2, LinesFinite
    <3> QED
      BY <1>1, <1>2, <3>1, <3>2, <3>3 DEF Faithful, LinesOf, Repaired
  <2> QED
    BY <2>1, <2>2 DEF Text
<1> QED
  BY <1>4, <1>5, <1>6, <1>7 DEF IInv

\* A step of a run, for itself and for the others.
LEMMA RunInv ==
    ASSUME IInv, NEW r \in Runs, Step(r)
    PROVE  IInv' /\ Alone(r) /\ Grows
<1>1. RunsTyped /\ ReleaseTyped /\ OneAtATime /\ Text
  BY TypeParts DEF IInv
<1>2. OfRun(r)
  BY DEF IInv
<1>3. Alone(r) /\ RunsTyped'
  BY <1>1, StepTyped DEF Text
<1>4. Grows /\ ReleaseTyped'
  BY <1>1, StepGrows
<1>5. TypeOK'
  <2>1. /\ script' \in Scripts /\ sound' \in SUBSET Inputs
        /\ main' \in Runs \cup {None} /\ edits' \in Nat /\ slips' \in Nat
    BY <1>3, TypeParts DEF IInv, Alone
  <2> QED
    BY <1>3, <1>4, <2>1 DEF TypeOK, RunsTyped, ReleaseTyped, Seen
<1>6. OfRun(r)'
  BY <1>1, <1>2, <1>3, <1>4, StepPrepared, StepSees, StepJudged, StepGood
     DEF OfRun
<1>7. ASSUME NEW q \in Runs, q # r PROVE OfRun(q)'
  <2>1. /\ pc'[q] = pc[q] /\ job'[q] = job[q] /\ seen'[q] = seen[q]
        /\ script' = script /\ sound' = sound
    BY <1>3, <1>7 DEF Alone
  <2>2. /\ Prepared(pc[q], job[q]) /\ Sees(seen[q]) /\ Judged(pc[q], seen[q])
        /\ Good(pc[q], job[q])
    BY DEF IInv, OfRun
  <2>3. Prepared(pc[q], job[q])'
    BY <2>1, <2>2 DEF Prepared, Demanded, Receipt
  <2>4. Sees(seen[q])'
    BY <1>4, <2>1, <2>2, SeesStays DEF Sees
  <2>5. Judged(pc[q], seen[q])'
    BY <1>4, <2>1, <2>2, JudgedStays DEF Judged
  <2>6. Good(pc[q], job[q])'
    <3>1. CASE script = "capsule"
      BY <1>1, <2>1, <2>2, <3>1, RetainedStays DEF Good
    <3>2. CASE script # "capsule"
      BY <1>4, <2>1, <2>2, <3>2, PublicStays DEF Good
    <3> QED
      BY <3>1, <3>2
  <2> QED
    BY <2>3, <2>4, <2>5, <2>6 DEF OfRun
<1>8. OneAtATime' /\ Text'
  BY <1>1, <1>3, StepOne, StepText
<1> QED
  BY <1>3, <1>4, <1>5, <1>6, <1>7, <1>8 DEF IInv

LEMMA StepInv ==
    ASSUME IInv, [Next]_vars
    PROVE  IInv'
<1>1. CASE UNCHANGED vars
  BY <1>1 DEF vars, IInv, TypeOK, OfRun, Prepared, Sees, Judged, Good, Demanded,
     Receipt, PublicComplete, ListedPublic, Retained, OneAtATime, At, Text,
     Faithful
<1>2. Next => Push \/ Edit \/ \E r \in Runs : Step(r)
  BY DEF Next, Step
<1> QED
  BY <1>1, <1>2, PushInv, EditInv, RunInv
-----------------------------------------------------------------------------
\* Only Publish makes a release public: the one it names.
LEMMA OnlyPublish ==
    ASSUME ReleaseTyped, NEW r \in Runs, Step(r),
           NEW i \in DOMAIN release, release[i].draft, ~ release'[i].draft
    PROVE  /\ Publish(r, i)
           /\ script # "capsule"
           /\ script = "evidence1" \/ i = seen[r].id
<1> USE DEF ReleaseTyped
<1>1. ASSUME NEW next, Create(r, next) PROVE FALSE
  BY <1>1 DEF Create
<1>2. ASSUME Upload(r) PROVE FALSE
  BY <1>2 DEF Upload, Known, Release
<1>3. ASSUME UploadByTag(r) PROVE FALSE
  BY <1>3 DEF UploadByTag, Release
<1>4. ASSUME NEW j, Publish(r, j) PROVE i = j
  BY <1>4 DEF Publish
<1>5. Releasing(r)
  BY Cases
<1>6. ASSUME script = "capsule" PROVE UNCHANGED release
  BY <1>6 DEF Step, Start, Fails, Capsule, Context, Prepare, CapsuleReads,
     CapsuleRepairs, CapsuleReadsBack, remote
<1> QED
  BY <1>1, <1>2, <1>3, <1>4, <1>5, <1>6 DEF Releasing

LEMMA WholeIsComplete ==
    ASSUME NEW rel \in Release
    PROVE  Whole(rel) <=> Complete(rel)
BY DEF Whole, Complete, Release

\* What a step may do to a draft, and to the retained file.
Publishing ==
    /\ \A i \in DOMAIN release :
           release[i].draft /\ ~release'[i].draft =>
               /\ PinnedInputs \subseteq sound
               /\ \/ Whole(release'[i])
                  \/ /\ script = "evidence1"
                     /\ \E j \in DOMAIN release \ {i} : Whole(release[j])
    /\ ~Retained /\ Retained' =>
           {"archive", "checkout", "repeat"} \subseteq sound

LEMMA StepPublishing ==
    ASSUME IInv, [Next]_vars
    PROVE  Publishing
<1>1. ASSUME NEW r \in Runs, Step(r) PROVE Publishing
  <2>1. RunsTyped /\ ReleaseTyped /\ Text /\ OfRun(r) /\ Alone(r) /\ Grows
    BY <1>1, TypeParts, RunInv DEF IInv
  <2>2. ReleaseTyped'
    BY <1>1, <2>1, StepGrows
  <2>3. ASSUME NEW i \in DOMAIN release, release[i].draft, ~ release'[i].draft
        PROVE  /\ PinnedInputs \subseteq sound
               /\ \/ Whole(release'[i])
                  \/ /\ script = "evidence1"
                     /\ \E j \in DOMAIN release \ {i} : Whole(release[j])
    <3>1. /\ pc[r] = "publish" /\ Known(r) /\ script # "capsule"
          /\ script = "evidence1" \/ i = seen[r].id
      BY <1>1, <2>1, <2>3, OnlyPublish DEF Publish, At
    <3>2. PinnedInputs \subseteq sound
      BY <2>1, <3>1 DEF OfRun, Prepared, Ended, Opening, PinnedInputs, Origins,
         Demanded
    <3>3. seen[r].id \in DOMAIN release /\ Whole(release[seen[r].id])
      <4>1. seen[r].id \in DOMAIN release
        BY <3>1 DEF Known
      <4>2. Complete(release[seen[r].id])
        BY <2>1, <3>1 DEF OfRun, Judged, Closing
      <4>3. release[seen[r].id] \in Release
        BY <2>1, <4>1 DEF ReleaseTyped
      <4> QED
        BY <4>1, <4>2, <4>3, WholeIsComplete
    <3>4. CASE i = seen[r].id
      <4>1. Complete(release[i])
        BY <2>1, <3>1, <3>4 DEF OfRun, Judged, Closing
      <4>2. Complete(release'[i])
        BY <2>1, <4>1, CompleteStays
      <4>3. i \in DOMAIN release' /\ release'[i] \in Release
        BY <2>1, <2>2 DEF Grows, ReleaseTyped
      <4> QED
        BY <3>2, <4>2, <4>3, WholeIsComplete
    <3>5. CASE i # seen[r].id
      BY <3>1, <3>2, <3>3, <3>5
    <3> QED
      BY <3>4, <3>5
  <2>4. ASSUME ~ Retained, Retained'
        PROVE  {"archive", "checkout", "repeat"} \subseteq sound
    <3>1. ~ Repaired(older) /\ Repaired(older')
      BY <2>4 DEF Retained, Repaired
    <3>2. CASE script = "capsule"
      <4>1. CapsuleRepairs(r)
        BY <1>1, <3>1, <3>2, <2>1, Writes
      <4>2. pc[r] = "repair"
        BY <4>1 DEF CapsuleRepairs, At
      <4> QED
        BY <2>1, <3>2, <4>2 DEF OfRun, Prepared, Ended, Opening, Demanded,
           Receipt
    <3>3. CASE script # "capsule"
      BY <1>1, <2>1, <3>1, <3>3, StepText DEF Text, Faithful, Alone, Repaired
    <3> QED
      BY <3>2, <3>3
  <2> QED
    BY <2>3, <2>4 DEF Publishing
<1>2. CASE Push
  BY <1>2 DEF Push, Publishing, Retained, owner, local
<1>3. CASE Edit
  <2>1. UNCHANGED release
    BY <1>3 DEF Edit
  <2>2. Retained' => Retained
    <3>1. older \in Seq(Paragraphs) /\ "line" \in Paragraphs
      BY DEF IInv, TypeOK, Paragraphs
    <3>2. Repaired(older') <=> Repaired(older)
      <4>1. CASE older' = Append(older, "line")
        BY <3>1, <4>1, Appended
      <4>2. CASE older' = <<"line">> \o older
        BY <3>1, <4>2, Prepended
      <4> QED
        BY <1>3, <4>1, <4>2 DEF Edit
    <3> QED
      BY <3>2 DEF Retained, Repaired
  <2> QED
    BY <2>1, <2>2 DEF Publishing
<1>4. CASE UNCHANGED vars
  BY <1>4 DEF vars, Publishing, Retained
<1>5. Next => Push \/ Edit \/ \E r \in Runs : Step(r)
  BY DEF Next, Step
<1> QED
  BY <1>1, <1>2, <1>3, <1>4, <1>5

\* The invariant says what the properties say.
LEMMA InvImplies ==
    ASSUME IInv
    PROVE  TypeOK /\ OneRelease /\ OwnerTextKept /\ SuccessMeansWhole
<1>1. OneRelease
  BY DEF IInv, OneAtATime, OneRelease
<1>2. OwnerTextKept
  BY DEF IInv, Text, Faithful, LinesOf, OwnerTextKept, OwnerLines
<1>3. ASSUME NEW r \in Runs, pc[r] = "done"
      PROVE  IF script = "capsule" THEN Retained
             ELSE \E i \in ListedPublic : Whole(release[i])
  <2>1. Good(pc[r], job[r])
    BY DEF IInv, OfRun
  <2>2. ASSUME PublicComplete PROVE \E i \in ListedPublic : Whole(release[i])
    BY <2>2, WholeIsComplete DEF IInv, TypeOK, PublicComplete, ListedPublic
  <2> QED
    BY <1>3, <2>1, <2>2 DEF Good
<1> QED
  BY <1>1, <1>2, <1>3 DEF IInv, SuccessMeansWhole

LEMMA SpecInv == Spec => []IInv
<1>1. IInv /\ [Next]_vars => IInv'
  BY StepInv
<1> QED
  BY InitInv, <1>1, PTL DEF Spec

\* Every variable of the publishers keeps its type, for any number of runs,
\* assets, attempts and edits.
THEOREM PublishersTypeCorrect == Spec => []TypeOK
<1>1. IInv => TypeOK
  BY InvImplies
<1> QED
  BY <1>1, SpecInv, PTL

\* Runs of the receipt's workflows, one at a time, never make a second release
\* of their tag, whatever calls fail after they took effect (publish finds the
\* draft by its tag in the list).
THEOREM OneReleaseOnly == Spec => []OneRelease
<1>1. IInv => OneRelease
  BY InvImplies
<1> QED
  BY <1>1, SpecInv, PTL

\* Neither the notices nor the warning take a line of its owner from the
\* older release, or writes one twice, except as many as were written behind
\* a run's last look.
THEOREM OwnersTextIsKept == Spec => []OwnerTextKept
<1>1. IInv => OwnerTextKept
  BY InvImplies
<1> QED
  BY <1>1, SpecInv, PTL

\* A run that succeeds leaves a public release with every asset whole, through
\* any repeated and failed jobs; the capsule's leaves the correct file.
THEOREM SuccessIsWhole == Spec => []SuccessMeansWhole
<1>1. IInv => SuccessMeansWhole
  BY InvImplies
<1> QED
  BY <1>1, SpecInv, PTL

\* No step makes a release public before its run found every pinned input,
\* nor one that is not whole, unless evidence1 took it for the whole one of
\* the same tag; nor does one write the capsule's file from other inputs.
THEOREM PublishedWhole == Spec => PublishesWhole
<1>1. IInv /\ [Next]_vars => IInv' /\ Publishing
  BY StepInv, StepPublishing
<1>2. Spec => [][Publishing]_vars
  BY InitInv, <1>1, PTL DEF Spec
<1> QED
  BY <1>2 DEF PublishesWhole, Publishing
=============================================================================
