------------------------------ MODULE Releases ------------------------------
(***************************************************************************)
(* The publishers of this repository's releases, each for one fixed tag:   *)
(*   first       releases/process-receipt-v0.1.0/publish.py                *)
(*   alpha       releases/process-receipt-v0.2.0a1/publish.py              *)
(*   corrective  releases/process-receipt-v0.2.0a2/publish.py, and then    *)
(*               its --notices on an older release                         *)
(*   skill       packages/reconcile-skill/publish.py                       *)
(*   evidence1   releases/evidence-0.1.0a1/promote.py                      *)
(*   evidence2   releases/evidence-0.1.0a2/publish.py, and its warning on  *)
(*               an older release                                          *)
(* of the script that repairs one retained file on its branch              *)
(*   capsule     contributions/stdio-evidence-capsule/                     *)
(*               retain_from_artifacts.py --publish                        *)
(* and of the jobs that download what they published:                      *)
(*   process-receipt-v0.1.0/publish.py --verify-public,                    *)
(*   process-receipt-v0.2.0a1/consume.py, v0.2.0a2/consumer.py and         *)
(*   promote.py public-readback; the other two download it themselves.     *)
(* A behaviour is about one publisher (script).  Each run of its workflow  *)
(* has the commit that was pushed, and may be run again after it ended,    *)
(* from the start or from the job that failed.                             *)
(* Any call may fail, before or after it took effect; a call takes effect  *)
(* before its caller gives up, or never.  A check that does not hold ends  *)
(* the run the same way: both are Fails.                                   *)
(***************************************************************************)
EXTENDS Naturals, Sequences, FiniteSets

CONSTANTS
    Runs,           \* the workflow's runs; a run stands for its commit too
    Names,          \* the names of the release's assets
    Wheel,          \* the one that is installed (skill: its runtime ZIP)
    MaxAttempts,    \* bound: how often a run is started
    MaxEdits,       \* bound: edits of the older release by its owner
    None

ASSUME ReleasesAssumption ==
    /\ IsFiniteSet(Runs) /\ IsFiniteSet(Names) /\ Wheel \in Names
    /\ MaxAttempts \in Nat /\ MaxEdits \in Nat
    /\ None \notin Runs

VARIABLES
    script,     \* the publisher at work
    sound,      \* which inputs of the assets are still the fixed ones
    main,       \* the run whose commit is the head of main
    release,    \* GitHub's releases of the tag, by id
    older,      \* the body of an older release, as its paragraphs
                \* (capsule: the file on the branch)
    pc,         \* run -> its next step
    attempts,   \* run -> how often it was started
    job,        \* run -> the job of its workflow that it came to
    seen,       \* run -> the release as it last read it, with its id
    before,     \* run -> the older body as it last read it
    edits,      \* the owner's edits of the older body so far
    slips       \* how many fell between a run's last look and its write

vars == <<script, sound, main, release, older, pc, attempts, job, seen, before,
          edits, slips>>

Scripts == {"first", "alpha", "corrective", "skill", "evidence1", "evidence2",
            "capsule"}
\* They publish for a push only, and only while its commit is main's head;
\* their workflow's concurrency group has one such run at a time.
Receipt == script \in {"first", "alpha", "corrective"}

\* build: the pinned run succeeded and has its artifact, by the API's word;
\* archive: the downloaded bytes are the pinned ones, and with them the
\*     wheel in them, its modules and the evidence of its tests;
\* checkout: the sources beside the script are the pinned ones;
\* repeat: assembling the assets twice gives the same bytes.
Inputs == {"build", "archive", "checkout", "repeat"}
\* What the assets are made of.
Origins == IF script = "skill" THEN {"archive", "checkout", "repeat"}
                               ELSE {"archive"}

Pinned == 1     \* the id of a draft the author inspected
Ids == 1 .. 1 + MaxAttempts * Cardinality(Runs)
Asset == {"none", "partial", "wrong", "whole"}
\* body: is it the script's NOTES.md?  target: the commit (skill: of a run's
\* head; else any run stands for the fixed one), None when it is not a
\* script's.  foreign: is there an asset with another name?
Release == [draft : BOOLEAN, body : BOOLEAN, foreign : BOOLEAN,
            target : Runs \cup {None}, assets : [Names -> Asset]]
Ended == {"idle", "done", "failed"}

\* Every expected asset is there, fully uploaded with its bytes, and no other.
Complete(rel) == ~rel.foreign /\ \A n \in Names : rel.assets[n] = "whole"
\* What is there so far is sound.
Sound(rel) ==
    ~rel.foreign /\ \A n \in Names : rel.assets[n] \in {"none", "whole"}

\* A release or draft is there, whatever its shape, or none is; at most one
\* of the inputs is not what it was.
Init ==
    /\ script \in Scripts
    /\ sound \in {Inputs} \cup {Inputs \ {i} : i \in Inputs}
    /\ main = None
    /\ \/ release = [i \in {} |-> None]
       \/ \E rel \in Release : release = [i \in {Pinned} |-> rel]
    /\ IF script = "capsule"
       THEN DOMAIN release = {} /\ older \in {<<"bad">>, <<"retained">>}
       ELSE older = <<"notes">>
    /\ pc = [r \in Runs |-> "idle"]
    /\ attempts = [r \in Runs |-> 0] /\ job = [r \in Runs |-> "prepare"]
    /\ seen = [r \in Runs |-> None] /\ before = [r \in Runs |-> None]
    /\ edits = 0 /\ slips = 0
-----------------------------------------------------------------------------
At(r, step) == pc[r] = step
Goto(r, step) == pc' = [pc EXCEPT ![r] = step]
\* A write whose answer may be lost: the run then fails, the write stays.
Answer(r, step) == Goto(r, step) \/ Goto(r, "failed")
Remember(r, i) == seen' = [seen EXCEPT ![r] = [id |-> i, is |-> release[i]]]
Known(r) == seen[r] # None /\ seen[r].id \in DOMAIN release
Now(r) == release[seen[r].id]

remote == <<main, release, older>>
owner == <<edits, slips>>
local == <<seen, before>>
fixed == <<script, sound, attempts, job>>

\* A job's first step; promote.py prepares the assets in a job of its own.
FirstStep == [prepare |-> "begin", publish |-> "list", consumer |-> "consume",
              notices |-> "notices"]
\* The job is done: its run goes on with the next one, or with its last one.
NextJob(r, next) ==
    job' = [job EXCEPT ![r] = CASE next = "list" -> "publish"
                                [] next = "consume" -> "consumer"
                                [] next = "notices" -> "notices"
                                [] OTHER -> @]

\* The workflow starts a run, or starts it again after it ended: all of it,
\* or, after a failure, the job that failed.
Start(r) ==
    /\ pc[r] \in Ended /\ attempts[r] < MaxAttempts
    /\ Receipt => \A q \in Runs : pc[q] \in Ended
    /\ attempts' = [attempts EXCEPT ![r] = @ + 1]
    /\ \E j \in {"prepare"} \cup IF pc[r] = "failed" THEN {job[r]} ELSE {} :
           job' = [job EXCEPT ![r] = j] /\ Goto(r, FirstStep[j])
    /\ UNCHANGED <<script, sound, remote, local, owner>>

\* The run is one of a push, a dispatch or a pull request of this repository.
Context(r) ==
    /\ At(r, "begin")
    /\ Goto(r, "prepare")
    /\ UNCHANGED <<fixed, remote, local, owner>>

\* main_write_gate: the run is one of a push, and its commit main's head.
WriteGate(r, here, next) ==
    /\ At(r, here) /\ main = r
    /\ Goto(r, next)
    /\ UNCHANGED <<fixed, remote, local, owner>>

\* The preparation finds everything it demands to be as pinned.
Prepare(r, demanded) ==
    /\ At(r, "prepare") /\ demanded \subseteq sound
    /\ Goto(r, "list")
    /\ IF script = "evidence1" THEN NextJob(r, "list") ELSE UNCHANGED job
    /\ UNCHANGED <<script, sound, attempts, remote, local, owner>>

\* The pinned run's artifact, the wheel in it, and the wheel's modules beside
\* those of the checkout; what is uploaded is copied from it.
FirstPrepares == {"build", "archive", "checkout"}
\* The same, with the summary of the wheel's tests on Windows.
AlphaPrepares == {"build", "archive", "checkout"}
CorrectivePreparesAnywhere == {"build", "archive"}
\* The same, with the counts of the fault regressions.
CorrectivePrepares == {"build", "archive", "checkout"}
\* The original archives, the files of the checkout that are packed, and the
\* assembly: done twice, and its runtime ZIP tried out.
SkillPrepares == {"archive", "checkout", "repeat"}
\* The two platforms' original archives, and the one wheel in both.
Evidence1Prepares == {"archive"}
\* Those of three runs.
Evidence2Prepares == {"archive"}

Uploads == IF Origins \subseteq sound THEN "whole" ELSE "wrong"

ListedPublic == {i \in DOMAIN release : ~release[i].draft}
\* GET releases, not the tag's endpoint: drafts are in it.
Listed == DOMAIN release

\* The list has no release of the tag.
FindsNone(r) ==
    /\ At(r, "list") /\ Listed = {}
    /\ before' = [before EXCEPT ![r] = older]
    /\ Goto(r, "create")
    /\ UNCHANGED <<fixed, remote, seen, owner>>

\* It has one; the older release is remembered from the same list.
Finds(r, i, next) ==
    /\ At(r, "list") /\ Listed = {i}
    /\ before' = [before EXCEPT ![r] = older]
    /\ Remember(r, i)
    /\ Goto(r, next)
    /\ UNCHANGED <<fixed, remote, owner>>

NewRelease(r) ==
    [draft |-> TRUE, body |-> TRUE, foreign |-> FALSE, target |-> r,
     assets |-> [n \in Names |-> "none"]]

\* A draft under an id of its own, whatever else has the tag.
Create(r, next) ==
    /\ At(r, "create")
    /\ \E i \in Ids \ (DOMAIN release \cup {Pinned}) :
           /\ \A j \in Ids \ (DOMAIN release \cup {Pinned}) : i <= j
           /\ release' = [j \in DOMAIN release \cup {i} |->
                              IF j = i THEN NewRelease(r) ELSE release[j]]
           /\ seen' = [seen EXCEPT ![r] = [id |-> i, is |-> NewRelease(r)]]
    /\ Answer(r, next)
    /\ UNCHANGED <<fixed, main, older, before, owner>>

\* One asset the run saw missing.  GitHub refuses a name that is taken; a
\* call that fails leaves nothing, a part or the whole.
Upload(r) ==
    /\ At(r, "upload") /\ Known(r) /\ seen[r].is.draft
    /\ \E n \in Names : \E state \in {"partial", Uploads} :
           /\ seen[r].is.assets[n] = "none" /\ Now(r).assets[n] = "none"
           /\ release' = [release EXCEPT ![seen[r].id].assets[n] = state]
           /\ IF state # "partial" THEN Answer(r, "upload")
                                   ELSE Goto(r, "failed")
           /\ seen' = [seen EXCEPT ![r].is.assets[n] = state]
    /\ UNCHANGED <<fixed, main, older, before, owner>>

\* The read of the release by its id satisfies the script.
Reads(r, here, next, fits) ==
    /\ At(r, here) /\ Known(r) /\ fits
    /\ Remember(r, seen[r].id)
    /\ Goto(r, next)
    /\ UNCHANGED <<fixed, remote, before, owner>>

\* PATCH draft=false.  GitHub has at most one public release of a tag.
Publish(r, i) ==
    /\ At(r, "publish") /\ Known(r)
    /\ \A j \in DOMAIN release : j = i \/ release[j].draft
    /\ release' = [release EXCEPT ![i].draft = FALSE]
    /\ Answer(r, "final")
    /\ UNCHANGED <<fixed, main, older, local, owner>>

Public(r) == Known(r) /\ ~Now(r).draft

\* Somebody without a token reads the release of the tag and downloads it.
Consume(r, next, fitting) ==
    /\ fitting # {}
    /\ Goto(r, next)
    /\ NextJob(r, next)
    /\ UNCHANGED <<script, sound, attempts, remote, local, owner>>

\* The wheel is the pinned one and installs; the other files name it and
\* agree with one another.
Usable(rel) ==
    /\ ~rel.foreign /\ rel.assets[Wheel] = "whole"
    /\ \A n \in Names : rel.assets[n] \in {"whole", "wrong"}
UsablePublic == {i \in ListedPublic : Usable(release[i])}
TargetedPublic == {i \in UsablePublic : release[i].target # None}
-----------------------------------------------------------------------------
\* --verify-public, the next step of the same job.
FirstVerifies(r) ==
    At(r, "consume") /\ Consume(r, "done", UsablePublic)

\* first: the inspected draft, and nothing else, is finished as it is.
FirstFindsAsItIs(r) ==
    \E i \in Listed \cap {Pinned} :
        /\ release[i].body /\ release[i].target # None
        /\ release[i].draft => Complete(release[i])
        /\ Finds(r, i, IF release[i].draft THEN "gate" ELSE "consume")

FirstFinds(r) ==
    \E i \in Listed \cap {Pinned} :
        /\ release[i].body /\ release[i].target # None
        /\ Complete(release[i])
        /\ Finds(r, i, IF release[i].draft THEN "gate" ELSE "consume")

First(r) ==
    \/ WriteGate(r, "begin", "prepare") \/ Prepare(r, FirstPrepares)
    \/ FirstFinds(r)
    \/ WriteGate(r, "gate", "publish")
    \/ Known(r) /\ Publish(r, seen[r].id)
    \/ Reads(r, "final", "consume", Public(r) /\ Complete(Now(r)))
    \/ FirstVerifies(r)

\* alpha and corrective judge the listed or new release as it was returned.
ReceiptJudges(r) ==
    /\ At(r, "judge") /\ Known(r)
    /\ seen[r].is.body /\ seen[r].is.target # None
    /\ IF seen[r].is.draft THEN Sound(seen[r].is) ELSE Complete(seen[r].is)
    /\ Goto(r, IF seen[r].is.draft THEN "upload" ELSE "final")
    /\ UNCHANGED <<fixed, remote, local, owner>>

\* Nothing is missing: what is about to be published is read back.
ReceiptUploaded(r) ==
    /\ At(r, "upload") /\ Known(r)
    /\ \A n \in Names : seen[r].is.assets[n] # "none"
    /\ Goto(r, "verify")
    /\ UNCHANGED <<fixed, remote, local, owner>>

\* The older release must be as it was when the list was read.
ReceiptFinal(r) ==
    /\ At(r, "final")
    /\ Public(r) /\ Complete(Now(r)) /\ older = before[r]
    /\ Remember(r, seen[r].id)
    /\ Goto(r, "consume") /\ NextJob(r, "consume")
    /\ UNCHANGED <<script, sound, attempts, remote, before, owner>>

\* consume.py: a job of its own, which reads the release by its tag.
AlphaConsumes(r) ==
    At(r, "consume") /\ Consume(r, "done", TargetedPublic)

\* alpha and corrective up to the release that was read back.
ReceiptPublishes(r) ==
    \/ WriteGate(r, "begin", "prepare")
    \/ FindsNone(r) \/ \E i \in Listed : Finds(r, i, "judge")
    \/ Create(r, "judge") \/ ReceiptJudges(r)
    \/ Upload(r) \/ ReceiptUploaded(r)
    \/ Reads(r, "verify", "gate", Known(r) /\ Complete(Now(r)))
    \/ WriteGate(r, "gate", "publish")
    \/ Known(r) /\ Publish(r, seen[r].id)
    \/ ReceiptFinal(r)

Alpha(r) ==
    \/ Prepare(r, AlphaPrepares) \/ ReceiptPublishes(r) \/ AlphaConsumes(r)
-----------------------------------------------------------------------------
\* consumer.py: it also upgrades an installed alpha; the notices need it.
CorrectiveConsumes(r) ==
    At(r, "consume") /\ Consume(r, "notices", TargetedPublic)

HasNotice(body) == \E i \in 1 .. Len(body) : body[i] = "notice"
\* The notice that is there must be the last paragraph, and the only one.
NoticeFits(body) ==
    \A i \in 1 .. Len(body) : body[i] = "notice" => i = Len(body)
Notified(body) == IF HasNotice(body) THEN body ELSE Append(body, "notice")

\* --notices, after the consumer's job: gate, new release, older release.
Notices(r) ==
    /\ At(r, "notices") /\ main = r
    /\ \E i \in DOMAIN release : ~release[i].draft
    /\ NoticeFits(older)
    /\ before' = [before EXCEPT ![r] = older]
    /\ Goto(r, IF HasNotice(older) THEN "readBack" ELSE "compare")
    /\ UNCHANGED <<fixed, remote, seen, owner>>

CompareNothing(r) ==
    /\ At(r, "compare")
    /\ Goto(r, "patchNotice")
    /\ UNCHANGED <<fixed, remote, local, owner>>

Compare(r) ==
    /\ At(r, "compare") /\ older = before[r]
    /\ Goto(r, "patchNotice")
    /\ UNCHANGED <<fixed, remote, local, owner>>

PatchNotice(r) ==
    /\ At(r, "patchNotice")
    /\ older' = Notified(before[r])
    /\ Answer(r, "readBack")
    /\ UNCHANGED <<fixed, main, release, local, owner>>

ReadBack(r) ==
    /\ At(r, "readBack") /\ older = Notified(before[r])
    /\ Goto(r, "done")
    /\ UNCHANGED <<fixed, remote, local, owner>>

Corrective(r) ==
    \/ Prepare(r, CorrectivePrepares) \/ ReceiptPublishes(r)
    \/ CorrectiveConsumes(r)
    \/ Notices(r) \/ Compare(r) \/ PatchNotice(r) \/ ReadBack(r)
-----------------------------------------------------------------------------
\* A release that is there must be the one this head would make.
SkillFinds(r) ==
    \E i \in Listed : /\ release[i].body /\ release[i].target = r
                      /\ Finds(r, i, "judge")

\* The loop has judged every asset, found and uploaded ones alike.
SkillUploaded(r) ==
    /\ At(r, "upload") /\ Known(r) /\ Complete(seen[r].is)
    /\ Goto(r, IF seen[r].is.draft THEN "publish" ELSE "final")
    /\ UNCHANGED <<fixed, remote, local, owner>>

\* The tag's public release is the run's, and every asset is downloaded.
SkillReads(r) ==
    /\ At(r, "final") /\ Known(r)
    /\ Consume(r, "done", {i \in ListedPublic : /\ i = seen[r].id
                                               /\ Complete(release[i])})

Skill(r) ==
    \/ Context(r) \/ Prepare(r, SkillPrepares)
    \/ FindsNone(r) \/ SkillFinds(r) \/ Create(r, "judge")
    \/ Reads(r, "judge", "upload", Known(r) /\ ~Now(r).foreign)
    \/ Upload(r) \/ SkillUploaded(r)
    \/ Known(r) /\ Publish(r, seen[r].id)
    \/ SkillReads(r)
-----------------------------------------------------------------------------
\* A draft that is there must be the inspected one.
EvidenceFinds(r) ==
    \E i \in Listed : /\ release[i].draft => i = Pinned
                      /\ Finds(r, i, "judge")

\* All assets at once, to whichever release gh takes for the tag; gh refuses
\* when one of the names is taken.
UploadByTag(r) ==
    /\ At(r, "upload")
    /\ \E i \in DOMAIN release,
          assets \in [Names -> {"none", "partial", Uploads}] :
           /\ \A n \in Names : release[i].assets[n] = "none"
           /\ release' = [release EXCEPT ![i].assets = assets]
           /\ IF \A n \in Names : assets[n] = Uploads
              THEN Answer(r, "relist") ELSE Goto(r, "failed")
    /\ UNCHANGED <<fixed, main, older, local, owner>>

\* The new draft must be the only release with the tag.
Relist(r) ==
    /\ At(r, "relist")
    /\ \E i \in Listed : Listed = {i} /\ Remember(r, i)
    /\ Goto(r, "judge")
    /\ UNCHANGED <<fixed, remote, before, owner>>

EvidenceJudges(r) ==
    /\ Known(r)
    /\ Reads(r, "judge", IF Now(r).draft THEN "publish" ELSE "final",
             Complete(Now(r)) /\ Now(r).target # None)

\* public-readback, a job of its own, validates what it downloaded.
Evidence1Consumes(r) ==
    At(r, "consume") /\ Consume(r, "done", TargetedPublic)

\* The release the run finished is public; nothing else of it is looked at.
Evidence1Final(r) ==
    /\ At(r, "final") /\ Public(r)
    /\ Goto(r, "consume") /\ NextJob(r, "consume")
    /\ UNCHANGED <<script, sound, attempts, remote, local, owner>>

\* promote.py finishes with `gh release edit TAG`.
Evidence1(r) ==
    \/ Context(r) \/ Prepare(r, Evidence1Prepares)
    \/ FindsNone(r) \/ EvidenceFinds(r) \/ Create(r, "upload")
    \/ UploadByTag(r) \/ Relist(r) \/ EvidenceJudges(r)
    \/ \E i \in DOMAIN release : Publish(r, i)
    \/ Evidence1Final(r) \/ Evidence1Consumes(r)

\* The warning goes before the body that was read, without a second look.
Warn(r) ==
    /\ At(r, "warn")
    /\ before' = [before EXCEPT ![r] = older]
    /\ Goto(r, IF older # <<>> /\ older[1] = "warning" THEN "done"
               ELSE "patchWarning")
    /\ UNCHANGED <<fixed, remote, seen, owner>>

PatchWarning(r) ==
    /\ At(r, "patchWarning")
    /\ older' = <<"warning">> \o before[r]
    /\ Answer(r, "done")
    /\ UNCHANGED <<fixed, main, release, local, owner>>

\* Every asset of the release as it was last read is downloaded.
Evidence2Reads(r) ==
    /\ At(r, "consume") /\ Known(r)
    /\ Consume(r, "warn", {i \in ListedPublic : /\ i = seen[r].id
                                               /\ Complete(release[i])})

Evidence2(r) ==
    \/ Context(r) \/ Prepare(r, Evidence2Prepares)
    \/ FindsNone(r) \/ EvidenceFinds(r) \/ Create(r, "upload")
    \/ UploadByTag(r) \/ Relist(r) \/ EvidenceJudges(r)
    \/ Known(r) /\ Publish(r, seen[r].id)
    \/ Reads(r, "final", "consume", Public(r) /\ Complete(Now(r)))
    \/ Evidence2Reads(r)
    \/ Warn(r) \/ PatchWarning(r)
-----------------------------------------------------------------------------
\* The two original archives, the sources beside the script, and a file that
\* is assembled and compressed to the pinned bytes.
CapsuleBuild == {"archive", "checkout", "repeat"}
\* The same packet, unpacked again: its pinned payload, the sources it names,
\* the members it has and the archives they come from.
PayloadDemands == {"archive", "repeat"}
SourcesDemand == {"checkout"}
MembersDemand == {"archive"}
PacketDemands == SourcesDemand \cup MembersDemand
ArchivesDemand == {"archive"}
CapsulePrepares ==
    CapsuleBuild \cup PayloadDemands \cup PacketDemands \cup ArchivesDemand

\* The file must be the correct one or the one that is known to be bad.
CapsuleReads(r) ==
    /\ At(r, "list")
    /\ \/ older = <<"retained">> /\ Goto(r, "readBack")
       \/ older = <<"bad">> /\ Goto(r, "repair")
    /\ UNCHANGED <<fixed, remote, local, owner>>

\* The update names the bad content that it replaces: GitHub refuses it when
\* the file has another one by then.
CapsuleRepairs(r) ==
    /\ At(r, "repair") /\ older = <<"bad">>
    /\ older' = <<"retained">>
    /\ Answer(r, "readBack")
    /\ UNCHANGED <<fixed, main, release, local, owner>>

CapsuleReadsBack(r) ==
    /\ At(r, "readBack") /\ older = <<"retained">>
    /\ Goto(r, "done")
    /\ UNCHANGED <<fixed, remote, local, owner>>

Capsule(r) ==
    \/ Context(r) \/ Prepare(r, CapsulePrepares)
    \/ CapsuleReads(r) \/ CapsuleRepairs(r) \/ CapsuleReadsBack(r)
-----------------------------------------------------------------------------
\* A call fails without an effect, a check does not hold, or the run is killed.
Fails(r) ==
    /\ pc[r] \notin Ended
    /\ Goto(r, "failed")
    /\ UNCHANGED <<fixed, remote, local, owner>>

\* A push to main, at which only the receipt's publishers look: the commit
\* of a new run, or one that starts none.
Push ==
    /\ Receipt
    /\ main' \in {None} \cup {r \in Runs : attempts[r] = 0}
    /\ UNCHANGED <<fixed, release, older, pc, local, owner>>

\* The owner writes a paragraph into the older release, at either end; the
\* other publishers do not read its text.  Or somebody changes the file.
Edit ==
    /\ script \in {"alpha", "corrective", "evidence2", "capsule"}
    /\ edits < MaxEdits /\ edits' = edits + 1
    /\ older' \in {Append(older, "line"), <<"line">> \o older}
    /\ slips' = IF \E r \in Runs : pc[r] \in {"patchNotice", "patchWarning"}
                THEN slips + 1 ELSE slips
    /\ UNCHANGED <<fixed, main, release, pc, local>>

Next ==
    \/ Push \/ Edit
    \/ \E r \in Runs :
        \/ Start(r) \/ Fails(r)
        \/ script = "first" /\ First(r)
        \/ script = "alpha" /\ Alpha(r)
        \/ script = "corrective" /\ Corrective(r)
        \/ script = "skill" /\ Skill(r)
        \/ script = "evidence1" /\ Evidence1(r)
        \/ script = "evidence2" /\ Evidence2(r)
        \/ script = "capsule" /\ Capsule(r)

Spec == Init /\ [][Next]_vars
-----------------------------------------------------------------------------
Whole(rel) ==
    /\ ~rel.foreign
    /\ rel.assets = [n \in Names |-> "whole"]

(* A release becomes public with all its assets, whole, and no others, and *)
(* only after its run found every input it pins: no interrupted upload,    *)
(* half of a draft or draft of somebody else's gets out, nor one beside    *)
(* other sources than its wheel's, however often runs failed in between.   *)
(* evidence1 publishes by tag, and its workflow lets a push's run and a    *)
(* dispatched one overlap: when both created a release, it may be the one  *)
(* that its run did not judge that gets out, but only beside a whole one.  *)
(* capsule writes its file only from the pinned records and sources.       *)
Retained == \E i \in 1 .. Len(older) : older[i] = "retained"
PinnedInputs == IF Receipt THEN {"build", "archive", "checkout"} ELSE Origins
PublishesWhole ==
    [][/\ \A i \in DOMAIN release :
              release[i].draft /\ ~release'[i].draft =>
                  /\ PinnedInputs \subseteq sound
                  /\ \/ Whole(release'[i])
                     \/ /\ script = "evidence1"
                        /\ \E j \in DOMAIN release \ {i} : Whole(release[j])
       /\ ~Retained /\ Retained' =>
              {"archive", "checkout", "repeat"} \subseteq sound]_vars

(* A workflow run that succeeds leaves the tag's public release with every *)
(* asset whole, also when it was public before the run and when the job    *)
(* that downloads it looks at less than that (consume.py and verify_public *)
(* compare the wheel, and of the other files what they say).  The capsule's *)
(* leaves the correct file, until somebody changes that.                    *)
SuccessMeansWhole ==
    \A r \in Runs : pc[r] = "done" =>
        IF script = "capsule" THEN Retained
        ELSE \E i \in ListedPublic : Whole(release[i])

(* A run whose POST took effect but failed is not repeated with a second   *)
(* release: the list finds the draft (publish, `matches`).                 *)
OneRelease ==
    Receipt => \A i, j \in DOMAIN release : i = j

OwnerLines == {i \in 1 .. Len(older) : older[i] = "line"}
(* Notices and warnings take nothing from the older release's text but what *)
(* came between a run's last look and its write ("not an atomic cross-client *)
(* edit lock"): an edit that falls there may be lost, no edit before or     *)
(* after it, however many runs write back what they read.  None is there    *)
(* twice, and no repair of the retained file undoes a change of it, whenever *)
(* that came.                                                               *)
OwnerTextKept ==
    /\ Cardinality(OwnerLines) <= edits
    /\ edits <= Cardinality(OwnerLines) + slips
=============================================================================
