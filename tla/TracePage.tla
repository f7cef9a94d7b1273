------------------------------ MODULE TracePage ------------------------------
(***************************************************************************)
(* tools/approval-trace-check/app.template.js: the page around the audit.  *)
(* The user types, loads examples, clears the box and opens files; a file  *)
(* is read in the background, and whatever happens meanwhile counts up     *)
(* inputEpoch, so that the read knows whether it is still wanted when it   *)
(* comes back.  Everything else runs to its end once it has started.       *)
(***************************************************************************)
EXTENDS ApprovalTrace

CONSTANTS
    Examples,   \* the documents the page offers
    Files,      \* the files the user may open
    MaxEvents,  \* bound on the events of a typed document
    MaxEpoch    \* bound on inputEpoch

ASSUME PageAssumption ==
    /\ Examples \subseteq Seq(Events)
    /\ \A file \in Files :
           /\ file.events \in Seq(Events)
           /\ file.fault \in {"none", "twice", "bad", "large", "unreadable"}
    /\ MaxEvents \in Nat /\ MaxEpoch \in Nat

VARIABLES
    box,        \* the text in the box
    busy,       \* is run() under way?
    report,     \* the report on display, or None
    error,      \* is an error on display?
    inputEpoch,
    reads,      \* the files being read, each with its ticket
    wanted      \* history: what the box may hold after the last input

pageVars == <<box, busy, report, error, inputEpoch, reads, wanted>>
vars == <<auditVars, pageVars>>

\* A text is what JSON.parse makes of it and what is wrong with it: a member
\* name that occurs twice in one object ("twice", which JSON.parse lets pass),
\* or something that JSON.parse or validate refuses ("bad").
Text(events, fault) == [events |-> events, fault |-> fault]
Empty == Text(<<>>, "bad")

Reports ==
    [attempts : SUBSET Nat, valid : SUBSET Nat, issues : SUBSET (Nat \X CODES)]

TypeOK ==
    /\ doc \in Seq(Events) /\ at \in 0 .. Len(doc) /\ book \in Books
    /\ box \in [events : Seq(Events), fault : {"none", "twice", "bad"}]
    /\ busy \in BOOLEAN /\ error \in BOOLEAN
    /\ report \in Reports \cup {None}
    /\ inputEpoch \in Nat
    /\ reads \subseteq [ticket : 1 .. inputEpoch, file : Files]

NextEpoch == inputEpoch < MaxEpoch /\ inputEpoch' = inputEpoch + 1
Idle == ~ busy /\ UNCHANGED auditVars

\* Variant: the value of JSON.parse is taken as it is (v0.1.0).
ParsedLoosely(text) == text.fault # "bad"

\* parseUniqueJSON and validate.
Parsed(text) == text.fault = "none"

\* run(): the old report goes first.
Run(text) ==
    /\ NextEpoch
    /\ report' = None
    /\ error' = ~ Parsed(text)
    /\ busy' = Parsed(text)
    /\ doc' = IF Parsed(text) THEN text.events ELSE <<>>
    /\ UNCHANGED <<at, book>>

\* invalidate(): what was on display was about another input.
Invalidate ==
    /\ NextEpoch
    /\ report' = None /\ error' = FALSE
    /\ UNCHANGED <<auditVars, busy>>

Init ==
    /\ box \in {Text(example, "none") : example \in Examples}
    /\ wanted = {box}
    /\ doc = box.events /\ at = 0 /\ book = NewBook /\ busy = TRUE
    /\ report = None /\ error = FALSE /\ inputEpoch = 1 /\ reads = {}

\* audit, and then render.
Audit == busy /\ AuditEvent /\ UNCHANGED pageVars

Show ==
    /\ busy /\ at = Len(doc)
    /\ report' = [attempts |-> book.attempts, valid |-> book.valid,
                  issues |-> book.issues]
    /\ busy' = FALSE
    /\ doc' = <<>> /\ at' = 0 /\ book' = NewBook
    /\ UNCHANGED <<box, error, inputEpoch, reads, wanted>>

Enter(text) == box' = text /\ wanted' = {text} /\ UNCHANGED reads

\* The box is edited: an event more, or a text with one fault or without it.
Edit ==
    /\ ~ busy /\ Invalidate
    /\ \/ /\ box.fault = "none" \/ box = Empty
          /\ Len(box.events) < MaxEvents
          /\ \E e \in Events : Enter(Text(Append(box.events, e), "none"))
       \/ \E fault \in {"none", "twice", "bad"} \ {box.fault} :
              Enter(Text(box.events, fault))

Load ==
    /\ ~ busy
    /\ \E example \in Examples :
           Run(Text(example, "none")) /\ Enter(Text(example, "none"))

Check == ~ busy /\ Run(box) /\ UNCHANGED <<box, reads, wanted>>

Clear == ~ busy /\ Invalidate /\ Enter(Empty)

\* A file is chosen: too large is known at once, the rest has to be read.
ChooseFile ==
    /\ Idle /\ NextEpoch
    /\ report' = None
    /\ \E file \in Files :
           /\ error' = (file.fault = "large")
           /\ reads' = IF file.fault = "large" THEN reads
                       ELSE reads \cup {[ticket |-> inputEpoch + 1,
                                         file |-> file]}
           /\ wanted' = {box, Text(file.events, file.fault)}
    /\ UNCHANGED <<box, busy>>

\* Variant: the read does not ask whether it is still wanted.
FileReadAnyway(read) ==
    /\ box' = Text(read.file.events, read.file.fault)
    /\ Run(box')
    /\ reads' = reads \ {read}
    /\ UNCHANGED wanted

\* The bytes arrive and are UTF-8.
FileRead(read) ==
    /\ read.ticket = inputEpoch /\ read.file.fault # "unreadable"
    /\ box' = Text(read.file.events, read.file.fault)
    /\ Run(box')
    /\ reads' = reads \ {read}
    /\ UNCHANGED wanted

\* arrayBuffer rejects, or the bytes are not UTF-8.
FileFails(read) ==
    /\ read.ticket = inputEpoch
    /\ report' = None /\ error' = TRUE
    /\ reads' = reads \ {read}
    /\ UNCHANGED <<auditVars, box, busy, inputEpoch, wanted>>

\* The read comes back after another input.
FileDropped(read) ==
    /\ read.ticket # inputEpoch
    /\ reads' = reads \ {read}
    /\ UNCHANGED <<auditVars, box, busy, report, error, inputEpoch, wanted>>

\* The other language, or the export of the report on display.
Look == ~ busy /\ UNCHANGED vars

Next ==
    \/ Audit \/ Show \/ Edit \/ Load \/ Check \/ Clear \/ ChooseFile \/ Look
    \/ \E read \in reads :
           ~ busy /\ (FileRead(read) \/ FileFails(read) \/ FileDropped(read))

Spec == Init /\ [][Next]_vars
-----------------------------------------------------------------------------
\* A report on display is about the text in the box and about nothing else,
\* and only a text whose names are unique has one.  It flags what is unlawful
\* in the whole text, calls it clean only if there is an execution and all of
\* the text is lawful, and speaks of no execution only if there is none.
ReportIsOfBox ==
    LET d == box.events IN
    report # None =>
        /\ box.fault = "none"
        /\ \A i \in DOMAIN d :
               Lawful(d, i)
                   <=> \A code \in CODES : <<i, code>> \notin report.issues
        /\ Status(report) = "no_violation_observed" <=>
               /\ \A i \in DOMAIN d : Lawful(d, i)
               /\ \E i \in DOMAIN d : d[i].type = "execute"
        /\ Status(report) = "no_execution_observed" =>
               \A i \in DOMAIN d : d[i].type # "execute"

\* The last input wins: a file that was opened earlier, however late its bytes
\* arrive, never replaces what was typed, loaded or opened after it.
LastInputStays == box \in wanted
=============================================================================
