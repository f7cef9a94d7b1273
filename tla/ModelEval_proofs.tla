-------------------------- MODULE ModelEval_proofs --------------------------
(***************************************************************************)
(* The model-run path of the rule-use evaluation, for any builds, runners, *)
(* thresholds and numbers of scripts started.                              *)
(*                                                                         *)
(* The invariant says which build each file is of, what the parsed         *)
(* responses have to do with the answers they were made of, and that a     *)
(* report is the score of the first answers by the mapping of its study.   *)
(* That report is then compared with what its build was accepted for.      *)
(***************************************************************************)
EXTENDS ModelEval, FiniteSetTheorems, TLAPS

Files == Accepted \cup {None}

\* Answers that are parsed: one to each trial, and no second one.
Complete(answers, trials) ==
    DOMAIN answers.again = {} /\ DOMAIN answers.first = trials

\* A parsed file keeps every answer, whatever else was done to its rows.
Retained(p) ==
    /\ DOMAIN p.rows = DOMAIN p.run.first
    /\ \A t \in DOMAIN p.rows :
           /\ "raw_response" \in DOMAIN p.rows[t]
           /\ p.rows[t].raw_response = p.run.first[t]

\* The row of an answer to a trial of build b.
Judged(b, t, answer) ==
    Row(Mapping[b][t], parse_raw_response(answer, Mapping[b][t].allowed))

Reported(m) ==
    /\ m.study \in Accepted
    /\ DOMAIN m.run.first = Trials(m.study)
    /\ m.rows = [t \in Trials(m.study) |->
                     Judged(m.study, t, m.run.first[t])]
    /\ m.status = IF Kind(m.study) = "public_smoke" THEN "DRY_RUN_ONLY"
                                                    ELSE "REQUIRES_AUDIT"
    /\ Paired(m.rows)
    /\ m.per_template = [p \in TemplatesOf(m.rows) |-> Effect(m.rows, p)]
    /\ m.criterion_met => TRUE \in LowerAboveZero(m.per_template)
    /\ m.action_metrics = ActionMetrics(m.rows)
    /\ m.validity_metrics = ValidityMetrics(m.rows)

FilesOfBuilds ==
    /\ requests \in Files /\ mapping \in Files /\ manifest \in Files
    /\ building # None =>
           /\ DOMAIN building = {"build", "next", "dry", "answers"}
           /\ building.build \in Accepted
AnswersComplete ==
    building # None /\ building.next = "parsed" =>
        Complete(building.answers, Trials(building.answers.of))
AnswersRetained == parsed # None => Retained(parsed)
ReportIsScore == metrics # None => Reported(metrics)

EvalInv ==
    FilesOfBuilds /\ AnswersComplete /\ AnswersRetained /\ ReportIsScore
-----------------------------------------------------------------------------
\* What a build that was accepted has.

LEMMA BuildHas ==
    ASSUME NEW b \in Accepted
    PROVE  /\ b \in Builds
           /\ Buildable(Arguments[b].source, Arguments[b].repeats)
           /\ IsFiniteSet(Arguments[b].source)
           /\ Arguments[b].repeats \in Nat
           /\ \A c, d \in Arguments[b].source : c.id = d.id => c = d
           /\ \A c \in Arguments[b].source : DOMAIN c.links = 1 .. Len(c.links)
           /\ Trials(b) = TrialsOf(Arguments[b])
           /\ DOMAIN Mapping[b] = Trials(b)
           /\ Kind(b) \in {"public_smoke", "hidden"}
           /\ Kind(b) = "hidden" =>
                  HiddenProtocol(Arguments[b].source, Arguments[b].repeats)
  <1>1. b \in DOMAIN Arguments /\ Accepts(Arguments[b])
    BY DEF Accepted, Builds
  <1>2. Arguments[b] \in Range(Arguments)
    BY <1>1 DEF Range
  <1>3. QED
    BY <1>1, <1>2, ModelEvalAssumption
       DEF Accepts, Builds, Trials, Requests, Mapping, Kind

LEMMA TrialHas ==
    ASSUME NEW b \in Accepted, NEW t \in Trials(b)
    PROVE  LET c == CaseOf(Arguments[b], t)
           IN  /\ c \in Primary(Arguments[b].source) /\ c.id = t.case
               /\ t.repeat \in 1 .. Arguments[b].repeats
               /\ t = [seed |-> Arguments[b].seed, case |-> t.case,
                       repeat |-> t.repeat]
               /\ Mapping[b][t] = [gold |-> Gold(c),
                                   allowed |-> c.content.allowed]
               /\ Requests[b][t] = Task(c)
               /\ c.scope \in Scopes
               /\ c.expected \in c.content.allowed
  <1> DEFINE a == Arguments[b]
             c == CaseOf(a, t)
  <1>1. b \in Builds /\ Trials(b) = TrialsOf(a)
    BY BuildHas
  <1>2. PICK d \in Primary(a.source), r \in 1 .. a.repeats :
            t = [seed |-> a.seed, case |-> d.id, repeat |-> r]
    BY <1>1 DEF TrialsOf
  <1>3. d \in a.source /\ d.id = t.case
    BY <1>2 DEF Primary
  <1>4. c \in a.source /\ c.id = t.case
    BY <1>3 DEF CaseOf
  <1>5. c = d
    BY <1>3, <1>4, BuildHas
  <1>6. /\ Mapping[b][t] = [gold |-> Gold(c), allowed |-> c.content.allowed]
        /\ Requests[b][t] = Task(c)
    BY <1>1 DEF Mapping, Requests
  <1>7. c.scope \in Scopes /\ c.expected \in c.content.allowed
    BY <1>2, <1>5, BuildHas DEF Buildable
  <1>8. QED
    BY <1>2, <1>5, <1>6, <1>7

\* The trials of a case of the build.
LEMMA CaseHasTrials ==
    ASSUME NEW b \in Accepted, NEW c \in Primary(Arguments[b].source),
           NEW r \in 1 .. Arguments[b].repeats
    PROVE  \E t \in Trials(b) :
               t.repeat = r /\ CaseOf(Arguments[b], t) = c
  <1> DEFINE t == [seed |-> Arguments[b].seed, case |-> c.id, repeat |-> r]
  <1>1. t \in Trials(b)
    BY BuildHas DEF TrialsOf
  <1>2. /\ CaseOf(Arguments[b], t) \in Primary(Arguments[b].source)
        /\ CaseOf(Arguments[b], t).id = c.id
    BY <1>1, TrialHas
  <1>3. CaseOf(Arguments[b], t) = c
    BY <1>2, BuildHas DEF Primary
  <1>4. QED
    BY <1>1, <1>3
-----------------------------------------------------------------------------
\* The invariant: each of its parts over each action that can disturb it.

\* parse_records keeps every answer.
LEMMA ParsedRetains ==
    ASSUME NEW b, NEW answers, Complete(answers, Trials(b))
    PROVE  Retained(parse_records(b, answers))
  BY DEF Complete, Retained, parse_records, parse_raw_response

LEMMA ReportHolds ==
    ASSUME EvalInv, WriteReport
    PROVE  Reported(metrics')
  <1> DEFINE rows == RowsOf
             effects == [p \in TemplatesOf(rows) |-> Effect(rows, p)]
             run == parsed.run
  <1>1. mapping \in Accepted /\ manifest \in Accepted
    BY DEF EvalInv, FilesOfBuilds, Files, WriteReport, MappingFrozen
  <1>2. Mapping[mapping] = Mapping[manifest]
    BY DEF WriteReport, MappingFrozen
  <1>3. Trials(mapping) = Trials(manifest)
    BY <1>1, <1>2, BuildHas
  <1>4. Retained(parsed) /\ DOMAIN parsed.rows = Trials(manifest)
    BY <1>3 DEF EvalInv, AnswersRetained, WriteReport, SameTrials
  <1>5. rows = [t \in Trials(manifest) |-> Judged(manifest, t, run.first[t])]
    <2>1. ASSUME NEW t \in Trials(manifest)
          PROVE  parsed.rows[t] =
                     parse_raw_response(run.first[t],
                                        Mapping[manifest][t].allowed)
      <3>1. parsed.rows[t].raw_response = run.first[t]
        BY <1>4 DEF Retained
      <3>2. QED
        BY <1>2, <1>4, <3>1 DEF WriteReport, Recomputed
    <2>2. QED
      BY <1>2, <1>4, <2>1 DEF RowsOf, Judged
  <1>6. PICK lower \in LowerAboveZero(effects) :
            metrics' = Report(rows, lower)
    BY DEF WriteReport
  <1>7. /\ metrics'.study = manifest /\ metrics'.run = run
        /\ metrics'.rows = rows /\ metrics'.per_template = effects
        /\ metrics'.status = IF Kind(manifest) = "public_smoke"
                             THEN "DRY_RUN_ONLY" ELSE "REQUIRES_AUDIT"
        /\ metrics'.criterion_met => lower
        /\ metrics'.action_metrics = ActionMetrics(rows)
        /\ metrics'.validity_metrics = ValidityMetrics(rows)
    BY <1>6 DEF Report
  <1>8. LowerAboveZero(effects) \subseteq BOOLEAN
    BY DEF LowerAboveZero
  <1>9. metrics'.criterion_met => TRUE \in LowerAboveZero(effects)
    BY <1>6, <1>7, <1>8
  <1>10. Paired(rows)
    BY DEF WriteReport
  <1>11. DOMAIN run.first = Trials(manifest)
    BY <1>4 DEF Retained
  <1>12. QED
    BY <1>1, <1>5, <1>7, <1>9, <1>10, <1>11 DEF Reported

LEMMA EvalInit == Init => EvalInv
  BY DEF Init, EvalInv, FilesOfBuilds, Files, AnswersComplete, AnswersRetained,
         ReportIsScore

LEMMA FilesStep ==
    ASSUME EvalInv, Next
    PROVE  FilesOfBuilds'
  <1> USE DEF EvalInv, FilesOfBuilds, Files
  <1>1. ASSUME NEW b \in Builds, Begin(b)
        PROVE  FilesOfBuilds'
    BY <1>1 DEF Begin
  <1>2. CASE BeginDryRun
    BY <1>2, ModelEvalAssumption DEF BeginDryRun, Accepted
  <1>3. CASE WriteRequests
    BY <1>3 DEF WriteRequests
  <1>4. CASE WriteMapping
    BY <1>4 DEF WriteMapping
  <1>5. CASE WriteManifest
    BY <1>5 DEF WriteManifest
  <1>6. CASE BuildDies
    BY <1>6 DEF BuildDies
  <1>7. CASE DryRaw
    BY <1>7 DEF DryRaw
  <1>8. CASE DryParsed
    BY <1>8 DEF DryParsed
  <1>9. CASE DryMetrics
    BY <1>9 DEF DryMetrics
  <1>10. CASE MockResponses
    BY <1>10 DEF MockResponses, NewRaw
  <1>11. ASSUME NEW respond \in Responders, Runner(respond)
         PROVE  FilesOfBuilds'
    BY <1>11 DEF Runner, NewRaw
  <1>12. CASE Parse \/ Tamper \/ Score
    BY <1>12 DEF Parse, Tamper, Score
  <1>13. QED
    BY <1>1, <1>2, <1>3, <1>4, <1>5, <1>6, <1>7, <1>8, <1>9, <1>10, <1>11,
       <1>12 DEF Next

LEMMA AnswersStep ==
    ASSUME EvalInv, Next
    PROVE  AnswersComplete'
  <1> USE DEF AnswersComplete
  <1>1. ASSUME NEW b \in Builds, Begin(b)
        PROVE  AnswersComplete'
    BY <1>1 DEF Begin
  <1>2. CASE BeginDryRun
    BY <1>2 DEF BeginDryRun
  <1>3. CASE WriteRequests \/ WriteMapping \/ WriteManifest
    BY <1>3 DEF WriteRequests, WriteMapping, WriteManifest, EvalInv,
                FilesOfBuilds
  <1>4. CASE BuildDies
    BY <1>4 DEF BuildDies
  <1>5. CASE DryRaw
    <2>1. building'.answers = raw' /\ raw'.of = requests
      BY <1>5 DEF DryRaw, EvalInv, FilesOfBuilds
    <2>2. raw'.first = FixtureAnswers(requests) /\ raw'.again = <<>>
      BY <1>5 DEF DryRaw
    <2>3. Complete(raw', Trials(requests))
      BY <2>2 DEF Complete, FixtureAnswers
    <2>4. QED
      BY <2>1, <2>3
  <1>6. CASE DryParsed
    BY <1>6 DEF DryParsed, EvalInv, FilesOfBuilds
  <1>7. CASE DryMetrics
    BY <1>7 DEF DryMetrics
  <1>8. CASE MockResponses
    BY <1>8 DEF MockResponses, NewRaw, EvalInv
  <1>9. ASSUME NEW respond \in Responders, Runner(respond)
        PROVE  AnswersComplete'
    BY <1>9 DEF Runner, NewRaw, EvalInv
  <1>10. CASE Parse \/ Tamper \/ Score
    BY <1>10 DEF Parse, Tamper, Score, EvalInv
  <1>11. QED
    BY <1>1, <1>2, <1>3, <1>4, <1>5, <1>6, <1>7, <1>8, <1>9, <1>10 DEF Next

LEMMA ParsedStep ==
    ASSUME EvalInv, Next
    PROVE  AnswersRetained'
  <1> USE DEF AnswersRetained
  <1>1. CASE parsed' = parsed
    BY <1>1 DEF EvalInv, Retained
  <1>2. CASE Parse
    <2>1. Complete(raw, Trials(requests))
      BY <1>2 DEF Parse, OneResponseEach, Complete
    <2>2. QED
      BY <1>2, <2>1, ParsedRetains DEF Parse
  <1>3. CASE DryParsed
    <2>1. Complete(building.answers, Trials(building.answers.of))
      BY <1>3 DEF DryParsed, EvalInv, AnswersComplete
    <2>2. parsed' = parse_records(building.answers.of, building.answers)
      BY <1>3 DEF DryParsed
    <2>3. QED
      BY <2>1, <2>2, ParsedRetains
  <1>4. CASE Tamper
    <2>1. PICK t \in DOMAIN parsed.rows :
              parsed' = [parsed EXCEPT !.rows[t] =
                  Corrected(@, Requests[parsed.run.of][t].content.allowed)]
      BY <1>4 DEF Tamper
    <2> DEFINE row == Corrected(parsed.rows[t],
                                Requests[parsed.run.of][t].content.allowed)
    <2>2. parsed # None /\ Retained(parsed)
      BY <1>4 DEF Tamper, EvalInv
    <2>3. /\ "raw_response" \in DOMAIN row
          /\ row.raw_response = parsed.rows[t].raw_response
      BY <2>2 DEF Corrected, Retained
    <2>4. /\ parsed'.run = parsed.run
          /\ parsed'.rows = [parsed.rows EXCEPT ![t] = row]
      BY <2>1
    <2>5. QED
      BY <2>2, <2>3, <2>4 DEF Retained
  <1>5. QED
    BY <1>1, <1>2, <1>3, <1>4
       DEF Next, Begin, BeginDryRun, WriteRequests, WriteMapping, WriteManifest,
           BuildDies, DryRaw, DryMetrics, MockResponses, Runner, NewRaw, Score

LEMMA ReportStep ==
    ASSUME EvalInv, Next
    PROVE  ReportIsScore'
  <1> USE DEF ReportIsScore
  <1>1. CASE metrics' = metrics
    BY <1>1 DEF EvalInv, Reported
  <1>2. CASE Score
    BY <1>2, ReportHolds DEF Score
  <1>3. CASE DryMetrics
    BY <1>3, ReportHolds DEF DryMetrics
  <1>4. QED
    BY <1>1, <1>2, <1>3
       DEF Next, Begin, BeginDryRun, WriteRequests, WriteMapping, WriteManifest,
           BuildDies, DryRaw, DryParsed, MockResponses, Runner, NewRaw, Parse,
           Tamper

THEOREM FilesAreAccounted == Spec => []EvalInv
  <1>1. ASSUME EvalInv, [Next]_vars
        PROVE  EvalInv'
    <2>1. CASE Next
      BY <1>1, <2>1, FilesStep, AnswersStep, ParsedStep, ReportStep DEF EvalInv
    <2>2. CASE UNCHANGED vars
      BY <1>1, <2>2 DEF vars, EvalInv, FilesOfBuilds, AnswersComplete, Complete,
                        AnswersRetained, Retained, ReportIsScore, Reported
    <2>3. QED
      BY <1>1, <2>1, <2>2
  <1>2. QED
    BY <1>1, EvalInit, PTL DEF Spec
-----------------------------------------------------------------------------
\* What a report is of, on top of what its build was accepted for.

\* A trial of a report, and the case of its study that it is of.
LEMMA ReportRow ==
    ASSUME NEW m, Reported(m), NEW t \in Trials(m.study)
    PROVE  LET c == CaseOf(Arguments[m.study], t)
               answer == m.run.first[t]
               row == m.rows[t]
           IN  /\ DOMAIN m.rows = Trials(m.study)
               /\ row.gold = Gold(c)
               /\ row.correct <=> answer.action \in c.content.allowed
                                  /\ answer.action = c.expected
               /\ row.refusal <=> answer.action = "REFUSAL"
               /\ row.false_action <=> /\ c.scope = "irrelevant"
                                       /\ answer.action \in c.content.allowed
                                       /\ answer.action # "NO_ACTION"
               /\ row.correct \in BOOLEAN /\ row.false_action \in BOOLEAN
  <1> DEFINE b == m.study
             c == CaseOf(Arguments[b], t)
             answer == m.run.first[t]
  <1>1. Mapping[b][t] = [gold |-> Gold(c), allowed |-> c.content.allowed]
    BY TrialHas DEF Reported
  <1>2. /\ DOMAIN m.rows = Trials(b)
        /\ m.rows[t] = Row(Mapping[b][t],
                           parse_raw_response(answer, Mapping[b][t].allowed))
    BY DEF Reported, Judged
  <1> DEFINE allowed == c.content.allowed
             row == Row([gold |-> Gold(c), allowed |-> allowed],
                        parse_raw_response(answer, allowed))
  <1>3. m.rows[t] = row
    BY <1>1, <1>2
  <1>4. row.gold = Gold(c)
    BY DEF Row
  <1>5. row.correct = (/\ answer.action \in allowed
                       /\ answer.action = Gold(c).expected)
    BY DEF Row, parse_raw_response
  <1>6. row.refusal = (answer.action = "REFUSAL")
    BY DEF Row, parse_raw_response
  <1>7. row.false_action = (/\ Gold(c).scope = "irrelevant"
                            /\ answer.action \in allowed
                            /\ answer.action # "NO_ACTION")
    BY DEF Row, parse_raw_response
  <1>8. Gold(c).expected = c.expected /\ Gold(c).scope = c.scope
    BY DEF Gold
  <1> HIDE DEF row
  <1>9. QED
    BY <1>2, <1>3, <1>4, <1>5, <1>6, <1>7, <1>8

\* Whatever happened to the files, a report has every trial of its study and
\* judges the first answer to it (score_model_eval.py, joined_rows).
THEOREM FirstAnswersScored == Spec => []ScoresFirstAnswers
  <1>1. ASSUME EvalInv
        PROVE  ScoresFirstAnswers
    <2>1. SUFFICES ASSUME metrics # None
                   PROVE  ScoresFirstAnswers
      BY DEF ScoresFirstAnswers
    <2> DEFINE b == metrics.study
               tasks == Requests[b]
    <2>2. Reported(metrics) /\ b \in Accepted
      BY <1>1, <2>1 DEF EvalInv, ReportIsScore, Reported
    <2>3. /\ DOMAIN tasks = Trials(b) /\ DOMAIN metrics.run.first = Trials(b)
          /\ DOMAIN metrics.rows = Trials(b)
      BY <2>2 DEF Reported, Trials
    <2>4. ASSUME NEW t \in DOMAIN tasks
          PROVE  LET row == metrics.rows[t]
                     action == metrics.run.first[t].action
                 IN  /\ row.correct <=> action = row.gold.expected
                     /\ row.refusal <=> action = "REFUSAL"
                     /\ row.false_action <=>
                            /\ row.gold.scope = "irrelevant"
                            /\ action \in tasks[t].content.allowed
                            /\ action # "NO_ACTION"
      <3> DEFINE c == CaseOf(Arguments[b], t)
      <3>1. t \in Trials(b)
        BY <2>3
      <3>2. c.expected \in c.content.allowed /\ tasks[t] = Task(c)
        BY <2>2, <3>1, TrialHas
      <3>3. /\ tasks[t].content = c.content
            /\ Gold(c).expected = c.expected /\ Gold(c).scope = c.scope
        BY <3>2 DEF Task, Gold
      <3>4. QED
        BY <2>2, <3>1, <3>2, <3>3, ReportRow
    <2>5. QED
      BY <2>3, <2>4 DEF ScoresFirstAnswers
  <1>2. QED
    BY <1>1, FilesAreAccounted, PTL

\* A registered study: its cases are primary, one in each cell of a template.
LEMMA HiddenStudy ==
    ASSUME NEW b \in Accepted, Kind(b) = "hidden"
    PROVE  LET source == Arguments[b].source
           IN  /\ Primary(source) = source
               /\ Arguments[b].repeats >= MinRepeats /\ Arguments[b].repeats >= 1
               /\ Cardinality({c.template : c \in source}) >= MinTemplates
               /\ \A c, d \in source :
                      /\ c.template = d.template /\ c.scope = d.scope
                      /\ c.condition = d.condition
                      => c = d
               /\ \A c, d \in source :
                      /\ c.template = d.template /\ c.scope = d.scope
                      /\ c.condition = "correct" /\ d.condition = "shuffled"
                      => c.expected = d.expected /\ MatchedPair(c, d)
  <1> DEFINE source == Arguments[b].source
             repeats == Arguments[b].repeats
             cell(p, s, k) == {c \in source : c.template = p /\ c.scope = s
                                              /\ c.condition = k}
  <1>1. HiddenProtocol(source, repeats) /\ Buildable(source, repeats)
    BY BuildHas
  <1>2. \A c \in source : c.scope \in Scopes /\ c.condition \in Conditions
    BY <1>1 DEF HiddenProtocol
  <1>3. ASSUME NEW c \in source, NEW d \in source, c.template = d.template,
               c.scope = d.scope, c.condition = d.condition
        PROVE  c = d
    <2> DEFINE S == cell(c.template, c.scope, c.condition)
    <2>1. Cardinality(S) = 1
      BY <1>1, <1>2 DEF HiddenProtocol
    <2>2. IsFiniteSet(S)
      <3>1. IsFiniteSet(source)
        BY BuildHas
      <3>2. S \in SUBSET source
        OBVIOUS
      <3>3. QED
        BY <3>1, <3>2, FS_Subset
    <2>3. PICK e : S = {e}
      BY <2>1, <2>2, FS_Singleton
    <2>4. c \in S /\ d \in S
      BY <1>3
    <2>5. QED
      BY <2>3, <2>4
  <1>4. ASSUME NEW c \in source, NEW d \in source, c.template = d.template,
               c.scope = d.scope, c.condition = "correct",
               d.condition = "shuffled"
        PROVE  c.expected = d.expected /\ MatchedPair(c, d)
    <2>1. /\ c \in cell(c.template, c.scope, "correct")
          /\ d \in cell(c.template, c.scope, "shuffled")
          /\ c.scope \in Scopes
      BY <1>2, <1>4
    <2>2. QED
      BY <1>1, <2>1 DEF HiddenProtocol
  <1>5. Primary(source) = source
    BY <1>2 DEF Primary
  <1>6. /\ repeats >= MinRepeats /\ repeats >= 1
        /\ Cardinality({c.template : c \in source}) >= MinTemplates
    BY <1>1 DEF HiddenProtocol, Buildable
  <1>7. QED
    BY <1>3, <1>4, <1>5, <1>6

\* A report that is not of a dry run is of a registered study.
LEMMA HiddenReport ==
    ASSUME NEW m, Reported(m), m.status # "DRY_RUN_ONLY"
    PROVE  m.study \in Accepted /\ Kind(m.study) = "hidden"
  BY BuildHas DEF Reported

\* No report that is not labelled a dry run escapes the registered design
\* (build_bundle.py, validate_hidden_protocol_default).
THEOREM HiddenDesignHolds == Spec => []HiddenReportsHaveDesign
  <1>1. ASSUME EvalInv
        PROVE  HiddenReportsHaveDesign
    <2>1. SUFFICES ASSUME metrics # None, metrics.status # "DRY_RUN_ONLY"
                   PROVE  HiddenReportsHaveDesign
      BY DEF HiddenReportsHaveDesign
    <2> DEFINE b == metrics.study
               rows == metrics.rows
               source == Arguments[b].source
               repeats == Arguments[b].repeats
               case(t) == CaseOf(Arguments[b], t)
    <2>2. Reported(metrics)
      BY <1>1, <2>1 DEF EvalInv, ReportIsScore
    <2>3. b \in Accepted /\ Kind(b) = "hidden"
      BY <2>1, <2>2, HiddenReport
    <2>4. Primary(source) = source
      BY <2>3, HiddenStudy
    <2>5. DOMAIN rows = Trials(b)
      BY <2>2 DEF Reported
    <2>6. ASSUME NEW t \in DOMAIN rows
          PROVE  /\ case(t) \in source /\ rows[t].gold = Gold(case(t))
                 /\ rows[t].gold.template = case(t).template
                 /\ rows[t].gold.scope = case(t).scope
                 /\ rows[t].gold.expected = case(t).expected
                 /\ t.repeat \in 1 .. repeats
      <3>1. case(t) \in source /\ t.repeat \in 1 .. repeats
        BY <2>3, <2>4, <2>5, TrialHas
      <3>2. rows[t].gold = Gold(case(t))
        BY <2>2, <2>5, ReportRow
      <3>3. QED
        BY <3>1, <3>2 DEF Gold
    <2>7. ASSUME NEW c \in source, NEW r \in 1 .. repeats
          PROVE  \E t \in DOMAIN rows : t.repeat = r /\ case(t) = c
      BY <2>3, <2>4, <2>5, CaseHasTrials
    <2>8. repeats \in Nat /\ repeats >= MinRepeats /\ repeats >= 1
      BY <2>3, BuildHas, HiddenStudy
    <2>9. TemplatesOf(rows) = {c.template : c \in source}
      <3>1. TemplatesOf(rows) \subseteq {c.template : c \in source}
        BY <2>6 DEF TemplatesOf
      <3>2. ASSUME NEW c \in source
            PROVE  c.template \in TemplatesOf(rows)
        <4>1. PICK t \in DOMAIN rows : case(t) = c
          BY <2>7, <2>8
        <4>2. rows[t].gold.template = c.template
          BY <2>6, <4>1
        <4>3. QED
          BY <4>2 DEF TemplatesOf
      <3>3. QED
        BY <3>1, <3>2
    <2>10. Cardinality(TemplatesOf(rows)) >= MinTemplates
      BY <2>3, <2>9, HiddenStudy
    <2>11. ASSUME NEW p \in TemplatesOf(rows)
           PROVE  Cardinality({t.repeat : t \in {u \in DOMAIN rows :
                      rows[u].gold.template = p}}) >= MinRepeats
      <3> DEFINE S == {t.repeat : t \in {u \in DOMAIN rows :
                          rows[u].gold.template = p}}
      <3>1. S \subseteq 1 .. repeats
        BY <2>6
      <3>2. PICK c \in source : c.template = p
        BY <2>9
      <3>3. ASSUME NEW r \in 1 .. repeats
            PROVE  r \in S
        <4>1. PICK t \in DOMAIN rows : t.repeat = r /\ case(t) = c
          BY <2>7
        <4>2. rows[t].gold.template = p
          BY <2>6, <3>2, <4>1
        <4>3. QED
          BY <4>1, <4>2
      <3>4. S = 1 .. repeats
        BY <3>1, <3>3
      <3>5. Cardinality(1 .. repeats) = repeats
        BY <2>8, FS_Interval
      <3>6. QED
        BY <2>8, <3>4, <3>5
    <2>12. Paired(rows)
      BY <2>2 DEF Reported
    <2>13. ASSUME NEW t \in DOMAIN rows, NEW u \in DOMAIN rows,
                  rows[t].gold.template = rows[u].gold.template,
                  rows[t].gold.scope = rows[u].gold.scope
           PROVE  rows[t].gold.expected = rows[u].gold.expected
      <3> DEFINE c == case(t)
                 d == case(u)
      <3>1. /\ c \in source /\ d \in source
            /\ c.template = d.template /\ c.scope = d.scope
        BY <2>6, <2>13
      <3>2. c.condition \in Conditions /\ d.condition \in Conditions
        BY <2>4, <3>1 DEF Primary
      <3> HIDE DEF c, d
      <3>3. CASE c.condition = d.condition
        <4>1. c = d
          BY <2>3, <3>1, <3>3, HiddenStudy
        <4>2. QED
          BY <2>6, <4>1 DEF c, d
      <3>4. CASE c.condition # d.condition
        <4>1. \/ c.condition = "correct" /\ d.condition = "shuffled"
              \/ d.condition = "correct" /\ c.condition = "shuffled"
          BY <3>2, <3>4 DEF Conditions
        <4>2. c.expected = d.expected
          BY <2>3, <3>1, <4>1, HiddenStudy
        <4>3. QED
          BY <2>6, <4>2 DEF c, d
      <3>5. QED
        BY <3>3, <3>4
    <2>14. QED
      BY <2>10, <2>11, <2>12, <2>13 DEF HiddenReportsHaveDesign
  <1>2. QED
    BY <1>1, FilesAreAccounted, PTL
-----------------------------------------------------------------------------
\* The effect of the links.

\* g has the sums of f over the subsets of S.
AddsUp(f, g, S) ==
    /\ DOMAIN f = S /\ g = [s \in SUBSET S |-> g[s]] /\ g[{}] = 0
    /\ \A s \in SUBSET S : \A x \in s : g[s] = f[x] + g[s \ {x}]

\* What a sum over a finite set is: a least subset on which SumFunction and g
\* differ would have a smaller one.
LEMMA SumIs ==
    ASSUME NEW S, IsFiniteSet(S), NEW f, NEW g, AddsUp(f, g, S)
    PROVE  SumFunction(f) = g[S]
  <1> USE DEF AddsUp
  <1> DEFINE next(s) == CHOOSE x \in s : TRUE
             Sums(it) == it = [s \in SUBSET S |->
                                   IF s = {} THEN 0
                                   ELSE f[next(s)] + it[s \ {next(s)}]]
             sums == CHOOSE it : Sums(it)
  <1>1. SumFunction(f) = sums[S]
    BY DEF SumFunction, SumFunctionOnSet, FoldFunctionOnSet, MapThenFoldSet
  <1>2. Sums(g)
    <2>1. ASSUME NEW s \in SUBSET S, s # {}
          PROVE  g[s] = f[next(s)] + g[s \ {next(s)}]
      <3>1. next(s) \in s
        BY <2>1
      <3>2. QED
        BY <3>1
    <2>2. QED
      BY <2>1
  <1>3. Sums(sums)
    BY <1>2
  <1> HIDE DEF sums
  <1> DEFINE bad == {s \in SUBSET S : sums[s] # g[s]}
  <1>4. ASSUME bad # {}
        PROVE  FALSE
    <2>1. bad \subseteq FiniteSubsetsOf(S)
      BY FS_Subset DEF FiniteSubsetsOf
    <2>2. PICK s \in bad : \A u \in bad : <<u, s>> \notin StrictSubsetOrdering(S)
      BY <1>4, <2>1, FS_StrictSubsetOrderingWellFounded, WFMin
    <2>3. s # {}
      BY <1>3, <2>2
    <2> DEFINE u == s \ {next(s)}
    <2>4. next(s) \in s
      BY <2>3
    <2>5. u \in SUBSET S /\ <<u, s>> \in StrictSubsetOrdering(S)
      BY <2>2, <2>4 DEF StrictSubsetOrdering
    <2>6. sums[u] = g[u]
      BY <2>2, <2>5
    <2>7. sums[s] = f[next(s)] + sums[u]
      BY <1>3, <2>2, <2>3
    <2>8. sums[s] = g[s]
      BY <2>2, <2>4, <2>6, <2>7
    <2>9. QED
      BY <2>2, <2>8
  <1>5. S \in SUBSET S
    OBVIOUS
  <1>6. QED
    BY <1>1, <1>4, <1>5

\* Zeros add up to zero, and ones to their number.
LEMMA SumOfZeros ==
    ASSUME NEW S, IsFiniteSet(S), NEW f, f = [x \in S |-> 0]
    PROVE  SumFunction(f) = 0
  <1>1. PICK g : g = [s \in SUBSET S |-> 0]
    OBVIOUS
  <1>2. AddsUp(f, g, S) /\ g[S] = 0
    BY <1>1 DEF AddsUp
  <1>3. SumFunction(f) = g[S]
    BY <1>2, SumIs
  <1>4. QED
    BY <1>2, <1>3

LEMMA SumOfOnes ==
    ASSUME NEW S, IsFiniteSet(S), NEW f, f = [x \in S |-> 1]
    PROVE  SumFunction(f) = Cardinality(S)
  <1>0. PICK g : g = [s \in SUBSET S |-> Cardinality(s)]
    OBVIOUS
  <1>1. g[{}] = 0
    BY <1>0, FS_EmptySet
  <1>2. ASSUME NEW s \in SUBSET S, NEW x \in s
        PROVE  g[s] = f[x] + g[s \ {x}]
    <2>1. IsFiniteSet(s)
      BY FS_Subset
    <2>2. Cardinality(s) \in Nat /\ Cardinality(s \ {x}) = Cardinality(s) - 1
      BY <2>1, FS_RemoveElement, FS_CardinalityType
    <2>3. QED
      BY <1>0, <2>2
  <1>3. AddsUp(f, g, S) /\ g[S] = Cardinality(S)
    BY <1>0, <1>1, <1>2 DEF AddsUp
  <1>4. SumFunction(f) = g[S]
    BY <1>3, SumIs
  <1>5. QED
    BY <1>3, <1>4

LEMMA NoEffect ==
    ASSUME NEW rows, NEW p, IsFiniteSet(RepeatsOf(rows)),
           \A r \in RepeatsOf(rows), s \in Scopes :
               LET one(k) == rows[CHOOSE t \in Cell(rows, p, r, s, k) : TRUE]
               IN  /\ one("correct").correct = one("shuffled").correct
                   /\ one("correct").false_action =
                          one("shuffled").false_action
    PROVE  Effect(rows, p) = 0
  <1> DEFINE S == RepeatsOf(rows)
             one(r, s, k) == rows[CHOOSE t \in Cell(rows, p, r, s, k) : TRUE]
             value(r) ==
                 (AsNumber(one(r, "relevant", "correct").correct)
                     - AsNumber(one(r, "relevant", "shuffled").correct))
                 - (AsNumber(one(r, "irrelevant", "correct").false_action)
                     - AsNumber(one(r, "irrelevant", "shuffled").false_action))
  <1>1. ASSUME NEW r \in S
        PROVE  value(r) = 0
    <2>1. /\ AsNumber(one(r, "relevant", "correct").correct) =
                 AsNumber(one(r, "relevant", "shuffled").correct)
          /\ AsNumber(one(r, "irrelevant", "correct").false_action) =
                 AsNumber(one(r, "irrelevant", "shuffled").false_action)
      BY DEF Scopes
    <2>2. \A b : AsNumber(b) \in Int
      BY DEF AsNumber
    <2>3. QED
      BY <2>1, <2>2
  <1>2. PICK f : f = [r \in S |-> value(r)]
    OBVIOUS
  <1>3. Effect(rows, p) = SumFunction(f)
    BY <1>2 DEF Effect
  <1> HIDE DEF value
  <1>4. f = [r \in S |-> 0]
    BY <1>1, <1>2
  <1> HIDE DEF S
  <1>5. IsFiniteSet(S)
    BY DEF S
  <1>6. SumFunction(f) = 0
    BY <1>4, <1>5, SumOfZeros
  <1>7. QED
    BY <1>3, <1>6

\* A trial of a registered study's report: its row and its request are of its
\* case.
LEMMA HiddenRow ==
    ASSUME NEW m, Reported(m), m.status # "DRY_RUN_ONLY", NEW t \in DOMAIN m.rows
    PROVE  LET c == CaseOf(Arguments[m.study], t)
           IN  /\ t \in Trials(m.study) /\ c \in Arguments[m.study].source
               /\ t.repeat \in 1 .. Arguments[m.study].repeats
               /\ t = [seed |-> Arguments[m.study].seed, case |-> c.id,
                       repeat |-> t.repeat]
               /\ m.rows[t].gold.template = c.template
               /\ m.rows[t].gold.scope = c.scope
               /\ m.rows[t].gold.condition = c.condition
               /\ Requests[m.study][t] = Task(c)
               /\ Requests[m.study][t].content = c.content
               /\ c.condition \in Conditions
  <1> DEFINE c == CaseOf(Arguments[m.study], t)
  <1>1. m.study \in Accepted /\ Kind(m.study) = "hidden"
    BY HiddenReport
  <1>2. t \in Trials(m.study)
    BY DEF Reported
  <1>3. /\ c \in Primary(Arguments[m.study].source) /\ c.id = t.case
        /\ t.repeat \in 1 .. Arguments[m.study].repeats
        /\ t = [seed |-> Arguments[m.study].seed, case |-> t.case,
                repeat |-> t.repeat]
        /\ Requests[m.study][t] = Task(c)
    BY <1>1, <1>2, TrialHas
  <1>4. m.rows[t].gold = Gold(c)
    BY <1>2, ReportRow
  <1>5. QED
    BY <1>2, <1>3, <1>4 DEF Gold, Task, Primary

\* Answers that do not depend on the links are as good in either condition.
LEMMA IgnoringHasNoEffect ==
    ASSUME NEW m, Reported(m), m.status # "DRY_RUN_ONLY",
           \A t, u \in Trials(m.study) :
               Requests[m.study][t].content = Requests[m.study][u].content
                   => m.run.first[t] = m.run.first[u],
           NEW p \in TemplatesOf(m.rows)
    PROVE  Effect(m.rows, p) = 0
  <1> DEFINE b == m.study
             rows == m.rows
             case(t) == CaseOf(Arguments[b], t)
             one(r, s, k) == CHOOSE t \in Cell(rows, p, r, s, k) : TRUE
  <1>1. b \in Accepted /\ Kind(b) = "hidden" /\ DOMAIN rows = Trials(b)
    BY HiddenReport DEF Reported
  <1>2. RepeatsOf(rows) \subseteq 1 .. Arguments[b].repeats
    BY HiddenRow DEF RepeatsOf
  <1>3. IsFiniteSet(RepeatsOf(rows))
    <2>1. IsFiniteSet(1 .. Arguments[b].repeats)
      BY <1>1, BuildHas, FS_Interval
    <2>2. QED
      BY <1>2, <2>1, FS_Subset
  <1>4. ASSUME NEW r \in RepeatsOf(rows), NEW s \in Scopes, NEW k \in Conditions
        PROVE  LET t == one(r, s, k)
               IN  /\ t \in DOMAIN rows /\ case(t) \in Arguments[b].source
                   /\ case(t).template = p /\ case(t).scope = s
                   /\ case(t).condition = k
    <2>1. PICK u \in DOMAIN rows : rows[u].gold.template = p
      BY DEF TemplatesOf
    <2>2. case(u) \in Primary(Arguments[b].source) /\ case(u).template = p
      <3>1. case(u) \in Arguments[b].source /\ case(u).template = p
        BY <2>1, HiddenRow
      <3>2. QED
        BY <1>1, <3>1, HiddenStudy
    <2>3. PICK t \in Trials(b) : t.repeat = r /\ case(t) = case(u)
      BY <1>1, <1>2, <2>2, CaseHasTrials
    <2>4. rows[t].gold.template = p
      BY <1>1, <2>2, <2>3, HiddenRow
    <2>5. Cardinality(Cell(rows, p, r, s, k)) = 1
      BY <1>1, <2>3, <2>4 DEF Reported, Paired
    <2>6. Cell(rows, p, r, s, k) # {}
      BY <2>5, FS_EmptySet
    <2>7. one(r, s, k) \in Cell(rows, p, r, s, k)
      BY <2>6
    <2>8. QED
      BY <2>7, HiddenRow DEF Cell
  <1>5. ASSUME NEW r \in RepeatsOf(rows), NEW s \in Scopes
        PROVE  LET x == rows[one(r, s, "correct")]
                   y == rows[one(r, s, "shuffled")]
               IN  x.correct = y.correct /\ x.false_action = y.false_action
    <2> DEFINE t == one(r, s, "correct")
               u == one(r, s, "shuffled")
               c == case(t)
               d == case(u)
    <2>1. /\ t \in DOMAIN rows /\ c \in Arguments[b].source
          /\ c.template = p /\ c.scope = s /\ c.condition = "correct"
          /\ u \in DOMAIN rows /\ d \in Arguments[b].source
          /\ d.template = p /\ d.scope = s /\ d.condition = "shuffled"
      BY <1>4 DEF Conditions
    <2> HIDE DEF t, u
    <2>2. c.expected = d.expected /\ c.content = d.content
      <3>1. c.expected = d.expected /\ MatchedPair(c, d)
        BY <1>1, <2>1, HiddenStudy
      <3>2. QED
        BY <3>1 DEF MatchedPair
    <2>3. m.run.first[t] = m.run.first[u]
      BY <1>1, <2>1, <2>2, HiddenRow
    <2>4. /\ rows[t].correct = rows[u].correct
          /\ rows[t].false_action = rows[u].false_action
      BY <1>1, <2>1, <2>2, <2>3, ReportRow
    <2>5. QED
      BY <2>4 DEF t, u
  <1>6. QED
    BY <1>3, <1>5, NoEffect

\* Links that are shuffled lead an event that has one of them elsewhere.
LEMMA FollowingDiffers ==
    ASSUME NEW c, NEW d, MatchedPair(c, d),
           DOMAIN c.links = 1 .. Len(c.links), DOMAIN d.links = 1 .. Len(d.links),
           OneOption(Task(c)), OneOption(Task(d))
    PROVE  FixtureAnswer(Task(c)) # FixtureAnswer(Task(d))
  <1> DEFINE e == c.content.event
             f == LinkMap(c.links)
             g == LinkMap(d.links)
  <1>1. d.content = c.content /\ DOMAIN f = DOMAIN g
        /\ \A k \in DOMAIN f : f[k] # g[k]
    BY DEF MatchedPair, Shuffles
  <1>2. /\ Task(c).links = c.links /\ Task(c).content = c.content
        /\ Task(d).links = d.links /\ Task(d).content = c.content
    BY <1>1 DEF Task
  <1>3. PICK i \in LinksOfEvent(Task(c)) :
            \A j \in DOMAIN c.links : c.links[j].trigger = e => j = i
    BY <1>2 DEF OneOption
  <1>4. PICK j \in LinksOfEvent(Task(d)) :
            \A x \in DOMAIN d.links : d.links[x].trigger = e => x = j
    BY <1>2 DEF OneOption
  <1>5. /\ i \in DOMAIN c.links /\ c.links[i].trigger = e
        /\ j \in DOMAIN d.links /\ d.links[j].trigger = e
        /\ LinksOfEvent(Task(c)) = {i} /\ LinksOfEvent(Task(d)) = {j}
    BY <1>2, <1>3, <1>4 DEF LinksOfEvent
  <1>6. i \in Int /\ j \in Int
    BY <1>5
  <1>7. Min({i}) = i /\ Min({j}) = j
    BY <1>6 DEF Min
  <1>8. /\ FixtureAnswer(Task(c)).action = c.links[i].action
        /\ FixtureAnswer(Task(d)).action = d.links[j].action
    BY <1>2, <1>5, <1>7 DEF FixtureAnswer
  <1> DEFINE k == <<c.links[i].rule, e>>
  <1>9. k \in DOMAIN f /\ k \in DOMAIN g
    <2>1. k = <<c.links[i].rule, c.links[i].trigger>>
      BY <1>5
    <2>2. k \in DOMAIN f
      BY <1>5, <2>1 DEF LinkMap
    <2>3. QED
      BY <1>1, <2>2
  <1>10. f[k] = c.links[i].action
    <2> DEFINE x == CHOOSE x \in DOMAIN c.links :
                        <<c.links[x].rule, c.links[x].trigger>> = k
    <2>1. x \in DOMAIN c.links /\ c.links[x].trigger = e
      BY <1>5
    <2>2. x = i
      BY <1>3, <2>1
    <2>3. f[k] = c.links[x].action
      BY <1>9 DEF LinkMap
    <2>4. QED
      BY <2>2, <2>3
  <1>11. g[k] = d.links[j].action
    <2> DEFINE x == CHOOSE x \in DOMAIN d.links :
                        <<d.links[x].rule, d.links[x].trigger>> = k
    <2>1. \E y \in DOMAIN d.links : <<d.links[y].rule, d.links[y].trigger>> = k
      BY <1>9 DEF LinkMap
    <2>2. x \in DOMAIN d.links /\ d.links[x].trigger = e
      BY <2>1
    <2>3. x = j
      BY <1>4, <2>2
    <2>4. g[k] = d.links[x].action
      BY <1>9 DEF LinkMap
    <2>5. QED
      BY <2>3, <2>4
  <1>12. QED
    BY <1>1, <1>8, <1>9, <1>10, <1>11

\* What a registered study measures is what its links do (build_bundle.py,
\* validate_primary_pair; score_model_eval.py, the criterion).
THEOREM EffectsAreOfLinks == Spec => []EffectIsOfLinks
  <1>1. ASSUME EvalInv
        PROVE  EffectIsOfLinks
    <2>1. SUFFICES ASSUME metrics # None, metrics.status # "DRY_RUN_ONLY"
                   PROVE  EffectIsOfLinks
      BY DEF EffectIsOfLinks
    <2> DEFINE b == metrics.study
               tasks == Requests[b]
               first == metrics.run.first
               rows == metrics.rows
               case(t) == CaseOf(Arguments[b], t)
    <2>2. Reported(metrics)
      BY <1>1, <2>1 DEF EvalInv, ReportIsScore
    <2>3. /\ b \in Accepted /\ Kind(b) = "hidden"
          /\ DOMAIN tasks = Trials(b) /\ DOMAIN rows = Trials(b)
      BY <2>1, <2>2, HiddenReport DEF Reported, Trials
    <2>4. ASSUME \A t, u \in DOMAIN tasks :
                     tasks[t].content = tasks[u].content => first[t] = first[u]
          PROVE  /\ ~metrics.criterion_met
                 /\ \A p \in DOMAIN metrics.per_template :
                        metrics.per_template[p] = 0
      <3>1. metrics.per_template = [p \in TemplatesOf(rows) |-> Effect(rows, p)]
        BY <2>2 DEF Reported
      <3>2. ASSUME NEW p \in TemplatesOf(rows)
            PROVE  Effect(rows, p) = 0
        BY <2>1, <2>2, <2>3, <2>4, IgnoringHasNoEffect
      <3>3. \A p \in DOMAIN metrics.per_template : metrics.per_template[p] = 0
        BY <3>1, <3>2
      <3>4. {p \in DOMAIN metrics.per_template :
                 metrics.per_template[p] > 0} = {}
        BY <3>3
      <3>5. LowerAboveZero(metrics.per_template) = {FALSE}
        BY <3>4 DEF LowerAboveZero
      <3>6. QED
        BY <2>2, <3>3, <3>5 DEF Reported
    <2>5. ASSUME \A t \in DOMAIN tasks : first[t] = FixtureAnswer(tasks[t]),
                 NEW t \in DOMAIN tasks, NEW u \in DOMAIN tasks,
                 t # u, Match(rows, t, u),
                 OneOption(tasks[t]), OneOption(tasks[u])
          PROVE  first[t] # first[u]
      <3> DEFINE c == case(t)
                 d == case(u)
      <3>1. /\ c \in Arguments[b].source /\ d \in Arguments[b].source
            /\ c.template = d.template /\ c.scope = d.scope
            /\ c.condition \in Conditions /\ d.condition \in Conditions
            /\ tasks[t] = Task(c) /\ tasks[u] = Task(d)
        BY <2>1, <2>2, <2>3, <2>5, HiddenRow DEF Match
      <3>2. /\ t = [seed |-> Arguments[b].seed, case |-> c.id,
                    repeat |-> t.repeat]
            /\ u = [seed |-> Arguments[b].seed, case |-> d.id,
                    repeat |-> u.repeat]
            /\ t.repeat = u.repeat
        BY <2>1, <2>2, <2>3, <2>5, HiddenRow DEF Match
      <3> HIDE DEF c, d
      <3>3. c # d
        BY <2>5, <3>2
      <3>4. c.condition # d.condition
        BY <2>3, <3>1, <3>3, HiddenStudy
      <3>5. \/ c.condition = "correct" /\ d.condition = "shuffled"
            \/ d.condition = "correct" /\ c.condition = "shuffled"
        BY <3>1, <3>4 DEF Conditions
      <3>6. MatchedPair(c, d) \/ MatchedPair(d, c)
        BY <2>3, <3>1, <3>5, HiddenStudy
      <3>7. DOMAIN c.links = 1 .. Len(c.links) /\ DOMAIN d.links = 1 .. Len(d.links)
        BY <2>3, <3>1, BuildHas
      <3>8. FixtureAnswer(Task(c)) # FixtureAnswer(Task(d))
        BY <2>5, <3>1, <3>6, <3>7, FollowingDiffers
      <3>9. QED
        BY <2>5, <3>1, <3>8
    <2>6. QED
      BY <2>4, <2>5 DEF EffectIsOfLinks
  <1>2. QED
    BY <1>1, FilesAreAccounted, PTL
-----------------------------------------------------------------------------
\* The two scorers on the public data.  First the data themselves.

\* The first rule of a template, and its actions as a sequence.
LEMMA TemplateHas ==
    ASSUME NEW p \in Templates
    PROVE  /\ DOMAIN p.rules = 1 .. Len(p.rules) /\ Len(p.rules) \in Nat
           /\ {1, 2} \subseteq DOMAIN p.rules
           /\ Head(p.rules) = p.rules[1]
           /\ Rotated([i \in DOMAIN p.rules |-> p.rules[i].action])[1] =
                  p.rules[2].action
           /\ \A i \in DOMAIN p.rules : \E j \in DOMAIN p.rules :
                  Rotated([x \in DOMAIN p.rules |-> p.rules[x].action])[i] =
                      p.rules[j].action
  <1>1. PICK n : n = Len(p.rules)
    OBVIOUS
  <1>2. p.rules \in Seq(Range(p.rules)) /\ n >= 2
    BY <1>1, SmokeAssumption
  <1>3. n \in Nat /\ DOMAIN p.rules = 1 .. n /\ Head(p.rules) = p.rules[1]
    BY <1>1, <1>2
  <1>4. PICK f : f = [i \in 1 .. n |-> p.rules[i].action]
    OBVIOUS
  <1> DEFINE A == {p.rules[i].action : i \in 1 .. n}
  <1>5. f \in Seq(A) /\ Len(f) = n
    BY <1>3, <1>4
  <1>6. /\ Tail(f) \in Seq(A) /\ Len(Tail(f)) = n - 1 /\ Head(f) = f[1]
        /\ \A i \in 1 .. n - 1 : Tail(f)[i] = f[i + 1]
    BY <1>2, <1>3, <1>5, SMT
  <1>7. /\ Rotated(f)[n] = f[1]
        /\ \A i \in 1 .. n - 1 : Rotated(f)[i] = f[i + 1]
    BY <1>2, <1>3, <1>5, <1>6 DEF Rotated
  <1>8. ASSUME NEW i \in 1 .. n
        PROVE  \E j \in 1 .. n : Rotated(f)[i] = p.rules[j].action
    <2>1. CASE i = n
      <3>1. 1 \in 1 .. n /\ Rotated(f)[i] = p.rules[1].action
        BY <1>2, <1>3, <1>4, <1>7, <2>1
      <3>2. QED
        BY <3>1
    <2>2. CASE i # n
      <3>1. i \in 1 .. n - 1 /\ i + 1 \in 1 .. n
        BY <1>3, <2>2
      <3>2. QED
        BY <1>4, <1>7, <3>1
    <2>3. QED
      BY <2>1, <2>2
  <1>9. Rotated(f)[1] = p.rules[2].action
    BY <1>2, <1>3, <1>4, <1>7
  <1>10. f = [i \in DOMAIN p.rules |-> p.rules[i].action]
    BY <1>3, <1>4
  <1>11. DOMAIN p.rules = 1 .. Len(p.rules) /\ Len(p.rules) \in Nat
    BY <1>1, <1>3
  <1>12. {1, 2} \subseteq DOMAIN p.rules
    BY <1>2, <1>3
  <1>13. QED
    BY <1>3, <1>8, <1>9, <1>10, <1>11, <1>12, Zenon

\* The links of a condition: where one is, what triggers it, where it leads.
LEMMA LinksHave ==
    ASSUME NEW p \in Templates, NEW k \in CONDITIONS
    PROVE  LET links == links_for(p, k)
           IN  /\ k \in Conditions =>
                      /\ DOMAIN links = DOMAIN p.rules
                      /\ \A i \in DOMAIN links :
                             /\ links[i].direction = "forward"
                             /\ links[i].trigger = p.rules[i].trigger
                             /\ \E j \in DOMAIN p.rules :
                                    links[i].action = p.rules[j].action
               /\ k = "correct" => links[1].action = p.rules[1].action
               /\ k = "shuffled" => links[1].action = p.rules[2].action
               /\ k = "reversed" =>
                      \A i \in DOMAIN links : links[i].direction = "backward"
               /\ k = "absent" => DOMAIN links = {}
               /\ k = "irrelevant_probe" =>
                      \A i \in DOMAIN links :
                          /\ links[i].trigger = p.irrelevant
                          /\ links[i].action = p.ack
  <1> DEFINE rules == p.rules
             actions == [i \in DOMAIN rules |-> rules[i].action]
  <1>1. PICK links : links = links_for(p, k)
    OBVIOUS
  <1>2. /\ 1 \in DOMAIN rules
        /\ Rotated(actions)[1] = rules[2].action
        /\ \A i \in DOMAIN rules : \E j \in DOMAIN rules :
               Rotated(actions)[i] = rules[j].action
    BY TemplateHas
  <1>3. CASE k = "correct"
    <2>1. links = [i \in DOMAIN rules |-> Link("forward", rules[i].rule,
                                              rules[i].trigger, actions[i])]
      BY <1>1, <1>3 DEF links_for
    <2>2. /\ DOMAIN links = DOMAIN rules
          /\ \A i \in DOMAIN links :
                 /\ links[i].direction = "forward"
                 /\ links[i].trigger = rules[i].trigger
                 /\ links[i].action = rules[i].action
      BY <2>1 DEF Link
    <2>3. QED
      BY <1>1, <1>2, <1>3, <2>2
  <1>4. CASE k = "shuffled"
    <2>1. PICK to : to = Rotated(actions)
      OBVIOUS
    <2>2. links = [i \in DOMAIN rules |-> Link("forward", rules[i].rule,
                                              rules[i].trigger, to[i])]
      BY <1>1, <1>4, <2>1 DEF links_for
    <2>3. /\ DOMAIN links = DOMAIN rules
          /\ \A i \in DOMAIN links :
                 /\ links[i].direction = "forward"
                 /\ links[i].trigger = rules[i].trigger
                 /\ links[i].action = to[i]
      BY <2>2 DEF Link
    <2>4. /\ to[1] = rules[2].action
          /\ \A i \in DOMAIN rules : \E j \in DOMAIN rules :
                 to[i] = rules[j].action
      BY <1>2, <2>1
    <2>5. QED
      BY <1>1, <1>2, <1>4, <2>3, <2>4
  <1>5. CASE k = "reversed"
    <2>1. links = [i \in DOMAIN rules |-> Link("backward", rules[i].rule,
                                              rules[i].trigger, actions[i])]
      BY <1>1, <1>5 DEF links_for
    <2>2. \A i \in DOMAIN links : links[i].direction = "backward"
      BY <2>1 DEF Link
    <2>3. QED
      BY <1>1, <1>5, <2>2 DEF Conditions
  <1>6. CASE k = "absent"
    <2>1. links = <<>>
      BY <1>1, <1>6 DEF links_for
    <2>2. QED
      BY <1>1, <1>6, <2>1 DEF Conditions
  <1>7. CASE k = "irrelevant_probe"
    <2>1. links = <<Link("forward", Head(rules).rule, p.irrelevant, p.ack)>>
      BY <1>1, <1>7 DEF links_for
    <2>2. \A i \in DOMAIN links :
              links[i].trigger = p.irrelevant /\ links[i].action = p.ack
      BY <2>1 DEF Link
    <2>3. QED
      BY <1>1, <1>7, <2>2 DEF Conditions
  <1>8. QED
    BY <1>3, <1>4, <1>5, <1>6, <1>7 DEF CONDITIONS

\* A case of the data set.
LEMMA PublicCaseHas ==
    ASSUME NEW p \in Templates, NEW s \in Scopes, NEW k \in CONDITIONS
    PROVE  LET c == case_of(p, s, k)
           IN  /\ c \in PublicCases /\ c.id = <<p.template, s, k>>
               /\ c.template = p.template /\ c.scope = s /\ c.condition = k
               /\ c.links = links_for(p, k)
               /\ c.expected = IF s = "relevant" THEN p.rules[1].action
                                                 ELSE "NO_ACTION"
               /\ c.content.event = IF s = "relevant" THEN p.rules[1].trigger
                                                      ELSE p.irrelevant
               /\ {c.expected, p.ack, "NO_ACTION"} \subseteq c.content.allowed
               /\ \A i \in DOMAIN p.rules :
                      p.rules[i].action \in c.content.allowed
  <1>1. PICK c : c = case_of(p, s, k)
    OBVIOUS
  <1>2. /\ {1, 2} \subseteq DOMAIN p.rules /\ Head(p.rules) = p.rules[1]
    BY TemplateHas
  <1>3. c \in PublicCases
    BY <1>1 DEF PublicCases, build_dataset
  <1> DEFINE event == IF s = "relevant" THEN Head(p.rules).trigger
                                        ELSE p.irrelevant
  <1>4. /\ c.id = <<p.template, s, k>> /\ c.template = p.template
        /\ c.scope = s /\ c.condition = k /\ c.links = links_for(p, k)
        /\ c.expected = IF s = "relevant" THEN Head(p.rules).action
                                          ELSE "NO_ACTION"
        /\ c.content = content_of(p, event)
    BY <1>1 DEF case_of
  <1>5. /\ c.content.event = event
        /\ c.content.allowed = {p.rules[i].action : i \in DOMAIN p.rules}
                                  \cup {p.ack, "NO_ACTION"}
    BY <1>4 DEF content_of
  <1>6. /\ {c.expected, p.ack, "NO_ACTION"} \subseteq c.content.allowed
        /\ \A i \in DOMAIN p.rules : p.rules[i].action \in c.content.allowed
    BY <1>2, <1>4, <1>5
  <1>7. QED
    BY <1>1, <1>2, <1>3, <1>4, <1>5, <1>6

LEMMA PublicCaseIs ==
    ASSUME NEW c \in PublicCases
    PROVE  \E p \in Templates, s \in Scopes, k \in CONDITIONS :
               c = case_of(p, s, k)
  BY DEF PublicCases, build_dataset

\* Their ids are their own, and they are finitely many.
LEMMA PublicCasesAre ==
    /\ IsFiniteSet(PublicCases)
    /\ \A c, d \in PublicCases : c.id = d.id => c = d
  <1>1. Arguments[DryBuild] \in Range(Arguments)
    BY ModelEvalAssumption DEF Range, Builds
  <1>2. QED
    BY <1>1, ModelEvalAssumption

\* What the link-following baseline does: the first rule's action where that is
\* linked to its trigger, its neighbour's where the links are shuffled.
LEMMA FollowingIs ==
    ASSUME NEW p \in Templates, NEW s \in Scopes, NEW k \in CONDITIONS
    PROVE  LET c == case_of(p, s, k)
               action == link_following_action(c)
           IN  /\ action \in c.content.allowed
               /\ k \in Conditions =>
                      /\ action = IF s = "irrelevant" THEN "NO_ACTION"
                                  ELSE IF k = "correct" THEN p.rules[1].action
                                  ELSE p.rules[2].action
                      /\ FixtureAnswer(Task(c)).action = action
  <1> DEFINE c == case_of(p, s, k)
             links == links_for(p, k)
             led == {j \in DOMAIN links :
                         /\ links[j].direction = "forward"
                         /\ links[j].trigger = c.content.event}
             candidates == {links[i].action : i \in led}
  <1>1. /\ c.links = links
        /\ {p.ack, "NO_ACTION"} \subseteq c.content.allowed
        /\ \A i \in DOMAIN p.rules : p.rules[i].action \in c.content.allowed
        /\ c.content.event = IF s = "relevant" THEN p.rules[1].trigger
                                               ELSE p.irrelevant
    BY PublicCaseHas
  <1>2. /\ 1 \in DOMAIN p.rules
        /\ \A i \in DOMAIN p.rules :
               /\ p.rules[i].trigger # p.irrelevant
               /\ p.rules[i].trigger = p.rules[1].trigger => i = 1
               /\ Rank[p.rules[i].action] \in Nat
        /\ Rank[p.ack] \in Nat
    BY TemplateHas, SmokeAssumption
  <1>3. link_following_action(c) =
            IF candidates = {} THEN "NO_ACTION"
            ELSE CHOOSE a \in candidates :
                     \A b \in candidates : Rank[a] <= Rank[b]
    BY <1>1 DEF link_following_action
  <1>4. s \in {"relevant", "irrelevant"}
    BY DEF Scopes
  <1> HIDE DEF c, links
  <1>5. ASSUME k \in Conditions
        PROVE  led = IF s = "relevant" THEN {1} ELSE {}
    BY <1>1, <1>2, <1>4, <1>5, LinksHave DEF links
  <1>6. ASSUME NEW i \in led
        PROVE  /\ links[i].action \in c.content.allowed
               /\ Rank[links[i].action] \in Nat
    <2>1. CASE k \in Conditions
      <3>1. PICK j \in DOMAIN p.rules : links[i].action = p.rules[j].action
        BY <2>1, LinksHave DEF links
      <3>2. QED
        BY <1>1, <1>2, <3>1
    <2>2. CASE k = "irrelevant_probe"
      <3>1. links[i].action = p.ack
        BY <2>2, LinksHave DEF links
      <3>2. QED
        BY <1>1, <1>2, <3>1
    <2>3. CASE k \in {"reversed", "absent"}
      BY <2>3, LinksHave DEF links
    <2>4. QED
      BY <2>1, <2>2, <2>3 DEF CONDITIONS, Conditions
  <1>7. candidates = {} \/ \E a : candidates = {a} /\ Rank[a] \in Nat
                                                   /\ a \in c.content.allowed
    <2>1. CASE k \in Conditions
      BY <1>5, <1>6, <2>1
    <2>2. CASE k = "irrelevant_probe"
      <3>1. \A i \in led : links[i].action = p.ack
        BY <2>2, LinksHave DEF links
      <3>2. QED
        BY <1>1, <1>2, <3>1
    <2>3. CASE k \in {"reversed", "absent"}
      BY <2>3, LinksHave DEF links
    <2>4. QED
      BY <2>1, <2>2, <2>3 DEF CONDITIONS, Conditions
  <1>8. ASSUME NEW a, candidates = {a}, Rank[a] \in Nat
        PROVE  link_following_action(c) = a
    BY <1>3, <1>8
  <1>9. link_following_action(c) \in c.content.allowed
    BY <1>1, <1>3, <1>7, <1>8
  <1>10. ASSUME k \in Conditions
         PROVE  /\ link_following_action(c) =
                       IF s = "irrelevant" THEN "NO_ACTION"
                       ELSE IF k = "correct" THEN p.rules[1].action
                       ELSE p.rules[2].action
                /\ FixtureAnswer(Task(c)).action = link_following_action(c)
    <2>1. LinksOfEvent(Task(c)) = led
      BY <1>1, <1>6 DEF LinksOfEvent, Task
    <2>2. Task(c).links = links
      BY <1>1 DEF Task
    <2>3. CASE s = "irrelevant"
      <3>1. led = {} /\ candidates = {}
        BY <1>5, <1>10, <2>3
      <3>2. QED
        BY <1>3, <2>1, <2>3, <3>1 DEF FixtureAnswer
    <2>4. CASE s = "relevant"
      <3>1. led = {1} /\ candidates = {links[1].action}
        BY <1>5, <1>10, <2>4
      <3>2. Min(led) = 1
        BY <3>1 DEF Min
      <3>3. FixtureAnswer(Task(c)).action = links[1].action
        BY <2>1, <2>2, <3>1, <3>2 DEF FixtureAnswer
      <3>4. link_following_action(c) = links[1].action
        BY <1>6, <1>8, <3>1
      <3>5. k = "correct" \/ k = "shuffled"
        BY <1>10 DEF Conditions
      <3>6. QED
        BY <2>4, <3>3, <3>4, <3>5, LinksHave DEF links
    <2>5. QED
      BY <1>4, <2>3, <2>4
  <1>11. QED
    BY <1>9, <1>10 DEF c

\* The baselines' predictions.
Baselines == {generate_predictions(PublicCases, "link-following"),
              generate_predictions(PublicCases, "link-ignoring")}

LEMMA FollowingHas ==
    ASSUME NEW c \in PublicCases
    PROVE  generate_predictions(PublicCases, "link-following")[c.id] =
               link_following_action(c)
  <1>1. (CHOOSE d \in PublicCases : d.id = c.id) = c
    BY PublicCasesAre
  <1>2. c.id \in {d.id : d \in PublicCases}
    OBVIOUS
  <1>3. QED
    BY <1>1, <1>2 DEF generate_predictions

LEMMA BaselineHas ==
    ASSUME NEW rest \in Baselines, NEW c \in PublicCases
    PROVE  /\ DOMAIN rest = {d.id : d \in PublicCases}
           /\ rest[c.id] \in c.content.allowed
  <1>1. PICK p \in Templates, s \in Scopes, k \in CONDITIONS : c = case_of(p, s, k)
    BY PublicCaseIs
  <1>2. link_following_action(c) \in c.content.allowed
    BY <1>1, FollowingIs
  <1>3. "NO_ACTION" \in c.content.allowed
    BY <1>1, PublicCaseHas
  <1>4. c.id \in {d.id : d \in PublicCases}
    OBVIOUS
  <1>5. CASE rest = generate_predictions(PublicCases, "link-following")
    <2>1. rest[c.id] = link_following_action(c)
      BY <1>5, FollowingHas
    <2>2. DOMAIN rest = {d.id : d \in PublicCases}
      BY <1>5 DEF generate_predictions
    <2>3. QED
      BY <1>2, <2>1, <2>2
  <1>6. CASE rest = generate_predictions(PublicCases, "link-ignoring")
    <2>1. rest[c.id] = "NO_ACTION"
      BY <1>4, <1>6 DEF generate_predictions, link_ignoring_action
    <2>2. DOMAIN rest = {d.id : d \in PublicCases}
      BY <1>6 DEF generate_predictions
    <2>3. QED
      BY <1>3, <2>1, <2>2
  <1>7. QED
    BY <1>5, <1>6 DEF Baselines

\* A report of the public data, all answers to which are allowed actions.
PublicReport(m) ==
    /\ Reported(m) /\ Arguments[m.study].source = PublicCases
    /\ m.validity_metrics["action_invalid"][1] = 0

Trial(b, c, r) == [seed |-> Arguments[b].seed, case |-> c.id, repeat |-> r]

\* The image of a finite set, and its size under a one-to-one function.
LEMMA ImageHas ==
    ASSUME NEW S, IsFiniteSet(S), NEW f
    PROVE  /\ IsFiniteSet({f[x] : x \in S})
           /\ (\A x, y \in S : f[x] = f[y] => x = y)
                  => Cardinality({f[x] : x \in S}) = Cardinality(S)
  <1>1. PICK g, T : g = [x \in S |-> f[x]] /\ T = {f[x] : x \in S}
    OBVIOUS
  <1>2. g \in Surjection(S, T)
    BY <1>1 DEF Surjection
  <1>3. /\ IsFiniteSet(T)
        /\ Cardinality(T) = Cardinality(S) <=> g \in Injection(S, T)
    BY <1>2, FS_Surjection
  <1>4. (\A x, y \in S : f[x] = f[y] => x = y) => g \in Injection(S, T)
    BY <1>1 DEF Injection, IsInjective
  <1>5. QED
    BY <1>1, <1>3, <1>4

LEMMA TrialsFinite ==
    ASSUME NEW b \in Accepted
    PROVE  IsFiniteSet(Trials(b))
  <1> DEFINE a == Arguments[b]
             pairs == Primary(a.source) \X (1 .. a.repeats)
  <1>1. IsFiniteSet(a.source) /\ a.repeats \in Nat /\ Trials(b) = TrialsOf(a)
    BY BuildHas
  <1>2. IsFiniteSet(Primary(a.source))
    BY <1>1, FS_Subset DEF Primary
  <1>3. IsFiniteSet(1 .. a.repeats)
    BY <1>1, FS_Interval
  <1>4. IsFiniteSet(pairs)
    BY <1>2, <1>3, FS_Product
  <1>5. PICK f : f = [x \in pairs |-> Trial(b, x[1], x[2])]
    OBVIOUS
  <1>6. ASSUME NEW c \in Primary(a.source), NEW r \in 1 .. a.repeats
        PROVE  /\ <<c, r>> \in pairs
               /\ f[<<c, r>>] = [seed |-> a.seed, case |-> c.id, repeat |-> r]
    BY <1>5 DEF Trial
  <1>7. ASSUME NEW t \in TrialsOf(a)
        PROVE  t \in {f[x] : x \in pairs}
    <2>1. PICK c \in Primary(a.source), r \in 1 .. a.repeats :
              t = [seed |-> a.seed, case |-> c.id, repeat |-> r]
      BY DEF TrialsOf
    <2>2. <<c, r>> \in pairs /\ f[<<c, r>>] = t
      BY <1>6, <2>1
    <2> HIDE DEF pairs
    <2>3. QED
      BY <2>2
  <1> HIDE DEF pairs
  <1>8. IsFiniteSet({f[x] : x \in pairs})
    BY <1>4, ImageHas
  <1>9. TrialsOf(a) \in SUBSET {f[x] : x \in pairs}
    BY <1>7
  <1>10. QED
    BY <1>1, <1>8, <1>9, FS_Subset

LEMMA PublicTrialHas ==
    ASSUME NEW m, PublicReport(m), NEW t \in DOMAIN m.rows
    PROVE  LET c == CaseOf(Arguments[m.study], t)
               row == m.rows[t]
               action == m.run.first[t].action
           IN  /\ m.study \in Accepted /\ t \in Trials(m.study)
               /\ c \in Primary(PublicCases) /\ c \in PublicCases
               /\ c.id = t.case /\ t = Trial(m.study, c, t.repeat)
               /\ t.repeat \in RepeatsOf(m.rows)
               /\ action \in c.content.allowed
               /\ row.gold = Gold(c)
               /\ row.correct <=> action = c.expected
               /\ row.false_action <=>
                      c.scope = "irrelevant" /\ action # "NO_ACTION"
               /\ row.correct \in BOOLEAN /\ row.false_action \in BOOLEAN
               /\ Requests[m.study][t] = Task(c)
  <1> DEFINE b == m.study
             c == CaseOf(Arguments[b], t)
             action == m.run.first[t].action
  <1>1. b \in Accepted /\ DOMAIN m.rows = Trials(b)
    BY DEF PublicReport, Reported
  <1>2. /\ c \in Primary(PublicCases) /\ c.id = t.case
        /\ t = Trial(b, c, t.repeat) /\ Requests[b][t] = Task(c)
        /\ Mapping[b][t] = [gold |-> Gold(c), allowed |-> c.content.allowed]
    BY <1>1, TrialHas DEF PublicReport, Trial
  <1>3. t.repeat \in RepeatsOf(m.rows)
    BY DEF RepeatsOf
  <1> DEFINE invalid == {u \in DOMAIN m.rows : m.rows[u].action_invalid}
  <1>4. Cardinality(invalid) = 0
    BY DEF PublicReport, Reported, ValidityMetrics, Rate
  <1>5. IsFiniteSet(invalid)
    BY <1>1, TrialsFinite, FS_Subset
  <1>6. ~ m.rows[t].action_invalid
    BY <1>4, <1>5, FS_EmptySet
  <1> DEFINE allowed == c.content.allowed
             row == Row([gold |-> Gold(c), allowed |-> allowed],
                        parse_raw_response(m.run.first[t], allowed))
  <1>7. m.rows[t] = row
    BY <1>1, <1>2 DEF PublicReport, Reported, Judged
  <1>8. m.rows[t].action_invalid = (action \notin c.content.allowed)
    <2>1. row.action_invalid = ~ (action \in allowed)
      BY DEF Row, parse_raw_response
    <2> HIDE DEF row
    <2>2. QED
      BY <1>7, <2>1
  <1>9. action \in c.content.allowed
    BY <1>6, <1>8
  <1>10. QED
    BY <1>1, <1>2, <1>3, <1>9, ReportRow DEF PublicReport, Primary

LEMMA PublicTrialOf ==
    ASSUME NEW m, PublicReport(m), NEW r \in RepeatsOf(m.rows),
           NEW c \in Primary(PublicCases)
    PROVE  LET t == Trial(m.study, c, r)
           IN  /\ t \in DOMAIN m.rows /\ t.repeat = r /\ t.case = c.id
               /\ CaseOf(Arguments[m.study], t) = c
  <1> DEFINE b == m.study
             t == Trial(b, c, r)
  <1>1. b \in Accepted /\ DOMAIN m.rows = Trials(b)
    BY DEF PublicReport, Reported
  <1>2. PICK u \in DOMAIN m.rows : r = u.repeat
    BY DEF RepeatsOf
  <1>3. r \in 1 .. Arguments[b].repeats
    BY <1>1, <1>2, TrialHas
  <1>4. t \in Trials(b)
    BY <1>1, <1>3, BuildHas DEF TrialsOf, Trial, PublicReport
  <1>5. t.repeat = r /\ t.case = c.id
    BY DEF Trial
  <1>6. CaseOf(Arguments[b], t) = c
    BY <1>1, <1>4, <1>5, PublicTrialHas, PublicCasesAre DEF Primary
  <1>7. QED
    BY <1>1, <1>4, <1>5, <1>6

\* What the predictions of a repeat are.
LEMMA PredictionIs ==
    ASSUME NEW m, PublicReport(m), NEW rest \in Baselines,
           NEW r \in RepeatsOf(m.rows), NEW c \in PublicCases
    PROVE  LET P == AsPredictions(m, r, rest)
           IN  /\ DOMAIN P = {d.id : d \in PublicCases}
               /\ c \in Primary(PublicCases) =>
                      P[c.id] = m.run.first[Trial(m.study, c, r)].action
               /\ P[c.id] \in c.content.allowed
  <1> DEFINE P == AsPredictions(m, r, rest)
             trials == {t \in DOMAIN m.rows : t.case = c.id /\ t.repeat = r}
             u == Trial(m.study, c, r)
  <1>1. DOMAIN rest = {d.id : d \in PublicCases} /\ c.id \in DOMAIN rest
    BY BaselineHas
  <1>2. P[c.id] = IF trials = {} THEN rest[c.id]
                  ELSE m.run.first[CHOOSE t \in trials : TRUE].action
    BY <1>1 DEF AsPredictions
  <1>3. ASSUME NEW t \in trials
        PROVE  c \in Primary(PublicCases) /\ t = u
    <2>1. CaseOf(Arguments[m.study], t) = c
      BY PublicTrialHas, PublicCasesAre
    <2>2. QED
      BY <2>1, PublicTrialHas
  <1>4. CASE c \in Primary(PublicCases)
    <2>1. u \in trials
      BY <1>4, PublicTrialOf
    <2>2. (CHOOSE t \in trials : TRUE) = u
      BY <1>3, <2>1
    <2>3. P[c.id] = m.run.first[u].action
      BY <1>2, <2>1, <2>2
    <2>4. m.run.first[u].action \in c.content.allowed
      <3>1. u \in DOMAIN m.rows /\ CaseOf(Arguments[m.study], u) = c
        BY <1>4, PublicTrialOf
      <3> HIDE DEF u
      <3>2. QED
        BY <3>1, PublicTrialHas
    <2>5. QED
      BY <1>1, <2>3, <2>4 DEF AsPredictions
  <1>5. CASE c \notin Primary(PublicCases)
    <2>1. trials = {}
      BY <1>3, <1>5
    <2>2. QED
      BY <1>1, <1>2, <1>5, <2>1, BaselineHas DEF AsPredictions
  <1>6. QED
    BY <1>4, <1>5

\* A row of the strict scorer.
StrictRow(c, P) ==
    [id           |-> c.id,
     template     |-> c.template,
     scope        |-> c.scope,
     condition    |-> c.condition,
     correct      |-> P[c.id] = c.expected,
     false_action |-> c.scope = "irrelevant" /\ P[c.id] # "NO_ACTION"]

LEMMA StrictRowsAre ==
    ASSUME NEW source, NEW P
    PROVE  /\ StrictRows(source, P) = {StrictRow(c, P) : c \in source}
           /\ \A c \in source :
                  LET row == StrictRow(c, P)
                  IN  /\ row.id = c.id /\ row.template = c.template
                      /\ row.scope = c.scope /\ row.condition = c.condition
  BY DEF StrictRows, StrictRow

\* It says of a primary case what the report says of its trial.
LEMMA StrictRowAgrees ==
    ASSUME NEW m, PublicReport(m), NEW rest \in Baselines,
           NEW r \in RepeatsOf(m.rows), NEW c \in Primary(PublicCases)
    PROVE  LET row == StrictRow(c, AsPredictions(m, r, rest))
               t == Trial(m.study, c, r)
           IN  /\ m.rows[t].correct = row.correct
               /\ m.rows[t].false_action = row.false_action
               /\ m.rows[t].gold = Gold(c)
               /\ t \in DOMAIN m.rows /\ t.repeat = r
  <1> DEFINE P == AsPredictions(m, r, rest)
             t == Trial(m.study, c, r)
             action == m.run.first[t].action
  <1>1. P[c.id] = action
    BY PredictionIs DEF Primary
  <1>2. t \in DOMAIN m.rows /\ CaseOf(Arguments[m.study], t) = c /\ t.repeat = r
    BY PublicTrialOf
  <1> HIDE DEF t, P
  <1>3. /\ m.rows[t].correct <=> action = c.expected
        /\ m.rows[t].false_action <=>
               c.scope = "irrelevant" /\ action # "NO_ACTION"
        /\ m.rows[t].correct \in BOOLEAN /\ m.rows[t].false_action \in BOOLEAN
        /\ m.rows[t].gold = Gold(c)
    BY <1>2, PublicTrialHas
  <1>4. StrictRow(c, P).correct = (P[c.id] = c.expected)
    BY DEF StrictRow
  <1>5. StrictRow(c, P).false_action =
            (c.scope = "irrelevant" /\ P[c.id] # "NO_ACTION")
    BY DEF StrictRow
  <1>6. m.rows[t].correct = StrictRow(c, P).correct
    BY <1>1, <1>3, <1>4
  <1>7. m.rows[t].false_action = StrictRow(c, P).false_action
    BY <1>1, <1>3, <1>5
  <1>8. QED
    BY <1>2, <1>3, <1>6, <1>7 DEF t, P

\* The rows and the trials with a field set, of scopes S and condition k.
CountedRows(rows, S, k, field) ==
    {row \in rows : row.scope \in S /\ row.condition = k /\ row[field]}

CountedTrials(rows, S, k, field, r) ==
    {t \in TrialsWith(rows, S, {k}) : rows[t][field] /\ t.repeat = r}

\* Within a repeat either scorer counts the same cases.
LEMMA CountsAgree ==
    ASSUME NEW m, PublicReport(m), NEW rest \in Baselines,
           NEW r \in RepeatsOf(m.rows), NEW S \in SUBSET Scopes,
           NEW k \in Conditions, NEW field \in {"correct", "false_action"}
    PROVE  Cardinality(CountedRows(StrictRows(PublicCases,
                                              AsPredictions(m, r, rest)),
                                   S, k, field)) =
           Cardinality(CountedTrials(m.rows, S, k, field, r))
  <1> DEFINE P == AsPredictions(m, r, rest)
             C == {c \in PublicCases : /\ c.scope \in S /\ c.condition = k
                                       /\ StrictRow(c, P)[field]}
             A == {row \in StrictRows(PublicCases, P) :
                       row.scope \in S /\ row.condition = k /\ row[field]}
             B == {t \in TrialsWith(m.rows, S, {k}) :
                       m.rows[t][field] /\ t.repeat = r}
  <1>1. PICK f, g : /\ f = [c \in C |-> StrictRow(c, P)]
                    /\ g = [c \in C |-> Trial(m.study, c, r)]
    OBVIOUS
  <1>2. IsFiniteSet(C)
    BY PublicCasesAre, FS_Subset
  <1>3. C \subseteq Primary(PublicCases)
    BY DEF Primary
  <1>4. A = {f[c] : c \in C}
    <2>1. A = {StrictRow(c, P) : c \in C}
      BY StrictRowsAre
    <2>2. QED
      BY <1>1, <2>1
  <1>5. ASSUME NEW c \in C
        PROVE  g[c] \in B
    <2>1. /\ g[c] \in DOMAIN m.rows /\ g[c].repeat = r
          /\ m.rows[g[c]].gold = Gold(c)
          /\ m.rows[g[c]][field] = StrictRow(c, P)[field]
      BY <1>1, <1>3, StrictRowAgrees
    <2>2. QED
      BY <2>1 DEF TrialsWith, Gold
  <1>6. ASSUME NEW t \in B
        PROVE  \E c \in C : t = g[c]
    <2> DEFINE c == CaseOf(Arguments[m.study], t)
    <2>1. t \in DOMAIN m.rows /\ t.repeat = r /\ m.rows[t][field]
          /\ m.rows[t].gold.scope \in S /\ m.rows[t].gold.condition = k
      BY DEF TrialsWith
    <2>2. /\ c \in Primary(PublicCases) /\ t = Trial(m.study, c, r)
          /\ m.rows[t].gold = Gold(c)
      BY <2>1, PublicTrialHas
    <2> HIDE DEF c
    <2>3. m.rows[t][field] = StrictRow(c, P)[field]
      BY <2>2, StrictRowAgrees
    <2>4. c.scope \in S /\ c.condition = k
      BY <2>1, <2>2 DEF Gold
    <2>5. c \in C
      BY <2>1, <2>2, <2>3, <2>4 DEF Primary
    <2>6. QED
      BY <1>1, <2>2, <2>5
  <1>7. B = {g[c] : c \in C}
    BY <1>5, <1>6
  <1>8. ASSUME NEW c \in C, NEW d \in C
        PROVE  (f[c] = f[d] => c = d) /\ (g[c] = g[d] => c = d)
    <2>1. (f[c] = f[d] => c.id = d.id) /\ (g[c] = g[d] => c.id = d.id)
      BY <1>1 DEF StrictRow, Trial
    <2>2. QED
      BY <2>1, PublicCasesAre
  <1> HIDE DEF A, B, C
  <1>9. Cardinality(A) = Cardinality(C) /\ Cardinality(B) = Cardinality(C)
    BY <1>2, <1>4, <1>7, <1>8, ImageHas
  <1>10. QED
    BY <1>9 DEF A, B, CountedRows, CountedTrials

\* Counting repeat by repeat.
LEMMA CountedByRepeat ==
    ASSUME NEW rows, IsFiniteSet(DOMAIN rows), NEW picked \in SUBSET DOMAIN rows,
           NEW n, n = [r \in RepeatsOf(rows) |->
                           Cardinality({t \in picked : t.repeat = r})]
    PROVE  SumFunction(n) = Cardinality(picked)
  <1> DEFINE S == RepeatsOf(rows)
             Of(s) == {t \in picked : t.repeat \in s}
  <1>1. PICK g : g = [s \in SUBSET S |-> Cardinality(Of(s))]
    OBVIOUS
  <1>2. IsFiniteSet(S)
    <2>1. PICK f : f = [t \in DOMAIN rows |-> t.repeat]
      OBVIOUS
    <2>2. S = {f[t] : t \in DOMAIN rows}
      BY <2>1 DEF RepeatsOf
    <2>3. QED
      BY <2>2, ImageHas
  <1>3. IsFiniteSet(picked) /\ \A s : IsFiniteSet(Of(s))
    <2>1. IsFiniteSet(picked)
      BY FS_Subset
    <2>2. QED
      BY <2>1, FS_Subset
  <1>4. g[{}] = 0
    <2>1. Of({}) = {}
      OBVIOUS
    <2>2. QED
      BY <1>1, <2>1, FS_EmptySet
  <1>5. ASSUME NEW s \in SUBSET S, NEW x \in s
        PROVE  g[s] = n[x] + g[s \ {x}]
    <2> DEFINE X == {t \in picked : t.repeat = x}
               Y == Of(s \ {x})
    <2>1. IsFiniteSet(X) /\ IsFiniteSet(Y)
      BY <1>3, FS_Subset
    <2>2. X \cup Y = Of(s) /\ X \cap Y = {}
      OBVIOUS
    <2>3. n[x] = Cardinality(X) /\ g[s] = Cardinality(Of(s))
          /\ g[s \ {x}] = Cardinality(Y)
      BY <1>1
    <2> HIDE DEF X, Y, Of
    <2>4. Cardinality(X \cup Y) = Cardinality(X) + Cardinality(Y) - 0
      BY <2>1, <2>2, FS_Union, FS_EmptySet
    <2>5. Cardinality(X) \in Nat /\ Cardinality(Y) \in Nat
      BY <2>1, FS_CardinalityType
    <2>6. Cardinality(X \cup Y) = Cardinality(X) + Cardinality(Y)
      BY <2>4, <2>5
    <2>7. g[s] = Cardinality(X \cup Y)
      BY <2>2, <2>3
    <2>8. QED
      BY <2>3, <2>6, <2>7
  <1>6. g[S] = Cardinality(picked)
    <2>1. Of(S) = picked
      BY DEF RepeatsOf
    <2>2. QED
      BY <1>1, <2>1
  <1>7. AddsUp(n, g, S)
    BY <1>1, <1>4, <1>5 DEF AddsUp
  <1> HIDE DEF S
  <1>8. SumFunction(n) = g[S]
    BY <1>2, <1>7, SumIs
  <1>9. QED
    BY <1>6, <1>8

\* The one trial and the one row of a primary cell.
LEMMA CellsAre ==
    ASSUME NEW m, PublicReport(m), NEW rest \in Baselines,
           NEW r \in RepeatsOf(m.rows), NEW p \in Templates,
           NEW s \in Scopes, NEW k \in CONDITIONS
    PROVE  LET c == case_of(p, s, k)
               P == AsPredictions(m, r, rest)
           IN  /\ k \in Conditions => /\ c \in Primary(PublicCases)
                                      /\ Cell(m.rows, p.template, r, s, k) =
                                             {Trial(m.study, c, r)}
               /\ StrictCell(OfTemplate(StrictRows(PublicCases, P), p.template),
                             s, k) = {StrictRow(c, P)}
  <1> DEFINE c == case_of(p, s, k)
             P == AsPredictions(m, r, rest)
  <1>1. /\ c \in PublicCases /\ c.template = p.template
        /\ c.scope = s /\ c.condition = k
    BY PublicCaseHas
  <1>2. ASSUME NEW d \in PublicCases, d.template = p.template, d.scope = s,
               d.condition = k
        PROVE  d = c
    <2>1. PICK q \in Templates, v \in Scopes, w \in CONDITIONS : d = case_of(q, v, w)
      BY PublicCaseIs
    <2>2. d.template = q.template /\ d.scope = v /\ d.condition = w
      BY <2>1, PublicCaseHas
    <2>3. q = p
      BY <1>2, <2>2, SmokeAssumption
    <2>4. QED
      BY <1>2, <2>1, <2>2, <2>3
  <1> HIDE DEF c
  <1>3. ASSUME k \in Conditions
        PROVE  /\ c \in Primary(PublicCases)
               /\ Cell(m.rows, p.template, r, s, k) = {Trial(m.study, c, r)}
    <2>1. c \in Primary(PublicCases)
      BY <1>1, <1>3 DEF Primary
    <2>2. /\ Trial(m.study, c, r) \in DOMAIN m.rows
          /\ Trial(m.study, c, r).repeat = r
          /\ m.rows[Trial(m.study, c, r)].gold = Gold(c)
      BY <2>1, StrictRowAgrees
    <2>3. Trial(m.study, c, r) \in Cell(m.rows, p.template, r, s, k)
      BY <1>1, <2>2 DEF Cell, Gold
    <2>4. ASSUME NEW t \in Cell(m.rows, p.template, r, s, k)
          PROVE  t = Trial(m.study, c, r)
      <3> DEFINE d == CaseOf(Arguments[m.study], t)
      <3>1. /\ t \in DOMAIN m.rows /\ t.repeat = r
            /\ m.rows[t].gold.template = p.template
            /\ m.rows[t].gold.scope = s /\ m.rows[t].gold.condition = k
        BY DEF Cell
      <3>2. /\ d \in PublicCases /\ t = Trial(m.study, d, r)
            /\ m.rows[t].gold = Gold(d)
        BY <3>1, PublicTrialHas
      <3> HIDE DEF d
      <3>3. d.template = p.template /\ d.scope = s /\ d.condition = k
        BY <3>1, <3>2 DEF Gold
      <3>4. QED
        BY <1>2, <3>2, <3>3
    <2>5. QED
      BY <2>1, <2>3, <2>4
  <1> DEFINE R == StrictRows(PublicCases, P)
             A == StrictCell(OfTemplate(R, p.template), s, k)
  <1>4. A = {row \in R : row.template = p.template /\ row.scope = s
                                                   /\ row.condition = k}
    BY DEF StrictCell, OfTemplate
  <1>5. StrictRow(c, P) \in A
    BY <1>1, <1>4, StrictRowsAre
  <1>6. ASSUME NEW row \in A
        PROVE  row = StrictRow(c, P)
    <2>1. PICK d \in PublicCases : row = StrictRow(d, P)
      BY <1>4, StrictRowsAre
    <2>2. d.template = p.template /\ d.scope = s /\ d.condition = k
      BY <1>4, <2>1, StrictRowsAre
    <2>3. QED
      BY <1>2, <2>1, <2>2
  <1>7. A = {StrictRow(c, P)}
    BY <1>5, <1>6
  <1>8. QED
    BY <1>3, <1>7 DEF c

\* What a repeat adds to the effect of a template.
Value(rows, p, r) ==
    LET one(s, k) == rows[CHOOSE t \in Cell(rows, p, r, s, k) : TRUE]
    IN  (AsNumber(one("relevant", "correct").correct)
            - AsNumber(one("relevant", "shuffled").correct))
        - (AsNumber(one("irrelevant", "correct").false_action)
            - AsNumber(one("irrelevant", "shuffled").false_action))

LEMMA EffectAgrees ==
    ASSUME NEW m, PublicReport(m), NEW rest \in Baselines,
           NEW r \in RepeatsOf(m.rows), NEW p \in Templates
    PROVE  StrictEffect(StrictRows(PublicCases, AsPredictions(m, r, rest)),
                        p.template) = Value(m.rows, p.template, r)
  <1> DEFINE P == AsPredictions(m, r, rest)
             R == StrictRows(PublicCases, P)
             q == p.template
             strict(s, k) == CHOOSE row \in StrictCell(OfTemplate(R, q), s, k) : TRUE
             one(s, k) == m.rows[CHOOSE t \in Cell(m.rows, q, r, s, k) : TRUE]
  <1>1. ASSUME NEW s \in Scopes, NEW k \in Conditions
        PROVE  /\ strict(s, k).correct = one(s, k).correct
               /\ strict(s, k).false_action = one(s, k).false_action
    <2> DEFINE c == case_of(p, s, k)
    <2>1. k \in CONDITIONS
      BY DEF Conditions, CONDITIONS
    <2>2. /\ c \in Primary(PublicCases)
          /\ Cell(m.rows, q, r, s, k) = {Trial(m.study, c, r)}
          /\ StrictCell(OfTemplate(R, q), s, k) = {StrictRow(c, P)}
      BY <2>1, CellsAre
    <2>3. /\ strict(s, k) = StrictRow(c, P)
          /\ one(s, k) = m.rows[Trial(m.study, c, r)]
      BY <2>2
    <2> HIDE DEF c, strict, one
    <2>4. QED
      BY <2>2, <2>3, StrictRowAgrees
  <1>2. /\ strict("relevant", "correct").correct =
               one("relevant", "correct").correct
        /\ strict("relevant", "shuffled").correct =
               one("relevant", "shuffled").correct
        /\ strict("irrelevant", "correct").false_action =
               one("irrelevant", "correct").false_action
        /\ strict("irrelevant", "shuffled").false_action =
               one("irrelevant", "shuffled").false_action
    BY <1>1 DEF Scopes, Conditions
  <1>3. StrictEffect(R, q) =
            (AsNumber(strict("relevant", "correct").correct)
                - AsNumber(strict("relevant", "shuffled").correct))
            - (AsNumber(strict("irrelevant", "correct").false_action)
                - AsNumber(strict("irrelevant", "shuffled").false_action))
    BY DEF StrictEffect
  <1>4. Value(m.rows, q, r) =
            (AsNumber(one("relevant", "correct").correct)
                - AsNumber(one("relevant", "shuffled").correct))
            - (AsNumber(one("irrelevant", "correct").false_action)
                - AsNumber(one("irrelevant", "shuffled").false_action))
    BY DEF Value
  <1> HIDE DEF strict, one
  <1>5. QED
    BY <1>2, <1>3, <1>4

\* The templates of a report are those of the data, and its effects are sums.
LEMMA PublicEffects ==
    ASSUME NEW m, PublicReport(m), NEW q \in DOMAIN m.per_template
    PROVE  /\ \E p \in Templates : q = p.template
           /\ m.per_template[q] =
                  SumFunction([r \in RepeatsOf(m.rows) |-> Value(m.rows, q, r)])
  <1>1. q \in TemplatesOf(m.rows) /\ m.per_template[q] = Effect(m.rows, q)
    BY DEF PublicReport, Reported
  <1>2. PICK t \in DOMAIN m.rows : q = m.rows[t].gold.template
    BY <1>1 DEF TemplatesOf
  <1>3. PICK c \in PublicCases : m.rows[t].gold = Gold(c)
    BY <1>2, PublicTrialHas
  <1>4. PICK p \in Templates, s \in Scopes, k \in CONDITIONS : c = case_of(p, s, k)
    BY PublicCaseIs
  <1>5. q = p.template
    BY <1>2, <1>3, <1>4, PublicCaseHas DEF Gold
  <1>6. Effect(m.rows, q) =
            SumFunction([r \in RepeatsOf(m.rows) |-> Value(m.rows, q, r)])
    BY DEF Effect, Value
  <1>7. QED
    BY <1>1, <1>5, <1>6

LEMMA PublicRepeats ==
    ASSUME NEW m, PublicReport(m)
    PROVE  /\ IsFiniteSet(DOMAIN m.rows) /\ IsFiniteSet(RepeatsOf(m.rows))
  <1>1. IsFiniteSet(DOMAIN m.rows)
    BY TrialsFinite DEF PublicReport, Reported
  <1>2. PICK f : f = [t \in DOMAIN m.rows |-> t.repeat]
    OBVIOUS
  <1>3. RepeatsOf(m.rows) = {f[t] : t \in DOMAIN m.rows}
    BY <1>2 DEF RepeatsOf
  <1>4. IsFiniteSet(RepeatsOf(m.rows))
    BY <1>1, <1>3, ImageHas
  <1>5. QED
    BY <1>1, <1>4

\* The strict scorer takes the predictions.
LEMMA PredictionsLoad ==
    ASSUME NEW m, PublicReport(m), NEW rest \in Baselines,
           NEW r \in RepeatsOf(m.rows)
    PROVE  LET P == AsPredictions(m, r, rest)
           IN  /\ load_inputs(PublicCases, P, {})
               /\ Scorable(StrictRows(PublicCases, P))
  <1> DEFINE P == AsPredictions(m, r, rest)
             R == StrictRows(PublicCases, P)
  <1>1. PICK t \in DOMAIN m.rows : TRUE
    BY DEF RepeatsOf
  <1>2. PICK c \in PublicCases : TRUE
    BY <1>1, PublicTrialHas
  <1>3. PICK q \in Templates : TRUE
    BY <1>2, PublicCaseIs
  <1>4. ASSUME NEW d \in PublicCases
        PROVE  {P[d.id], d.expected} \subseteq d.content.allowed
    <2>1. PICK p \in Templates, s \in Scopes, k \in CONDITIONS : d = case_of(p, s, k)
      BY PublicCaseIs
    <2>2. d.expected \in d.content.allowed
      BY <2>1, PublicCaseHas
    <2>3. P[d.id] \in d.content.allowed
      BY PredictionIs
    <2>4. QED
      BY <2>2, <2>3
  <1>5. DOMAIN P = {d.id : d \in PublicCases}
    BY <1>2, PredictionIs
  <1>6. load_inputs(PublicCases, P, {})
    BY <1>2, <1>4, <1>5 DEF load_inputs
  <1> HIDE DEF P
  <1>7. ASSUME NEW s \in Scopes, NEW k \in CONDITIONS
        PROVE  StrictCell(R, s, k) # {}
    <2>1. StrictCell(OfTemplate(R, q.template), s, k) =
              {StrictRow(case_of(q, s, k), P)}
      BY <1>3, CellsAre DEF P
    <2>2. StrictRow(case_of(q, s, k), P) \in StrictCell(R, s, k)
      BY <2>1 DEF StrictCell, OfTemplate
    <2>3. QED
      BY <2>2
  <1>8. ASSUME NEW row \in R, NEW s \in Scopes, NEW k \in {"correct", "shuffled"}
        PROVE  Cardinality(StrictCell(OfTemplate(R, row.template), s, k)) = 1
    <2>1. PICK d \in PublicCases : row = StrictRow(d, P)
      BY StrictRowsAre
    <2>2. row.template = d.template
      BY <2>1, StrictRowsAre
    <2>3. PICK p \in Templates, v \in Scopes, w \in CONDITIONS : d = case_of(p, v, w)
      BY PublicCaseIs
    <2>4. row.template = p.template
      BY <2>2, <2>3, PublicCaseHas
    <2>5. k \in CONDITIONS
      BY DEF CONDITIONS
    <2>6. StrictCell(OfTemplate(R, row.template), s, k) =
              {StrictRow(case_of(p, s, k), P)}
      BY <2>4, <2>5, CellsAre DEF P
    <2>7. QED
      BY <2>6, FS_Singleton
  <1>9. QED
    BY <1>6, <1>7, <1>8 DEF Scorable, P

\* The sums of what the strict scorer makes of the repeats.
LEMMA SumsAgree ==
    ASSUME NEW m, PublicReport(m), NEW rest \in Baselines, NEW strict,
           strict = [r \in RepeatsOf(m.rows) |->
                        score_records(PublicCases, AsPredictions(m, r, rest))]
    PROVE  SumsUp(m, strict)
  <1> DEFINE P(r) == AsPredictions(m, r, rest)
             R(r) == StrictRows(PublicCases, P(r))
             repeats == RepeatsOf(m.rows)
  <1>1. DOMAIN strict = repeats
    OBVIOUS
  <1>2. ASSUME NEW q \in DOMAIN m.per_template
        PROVE  m.per_template[q] = SumFunction([r \in DOMAIN strict |->
                                                    strict[r].per_template[q]])
    <2>1. PICK p \in Templates : q = p.template
      BY PublicEffects
    <2>2. PICK c \in PublicCases : q = c.template
      <3>1. case_of(p, "relevant", "correct") \in PublicCases
            /\ case_of(p, "relevant", "correct").template = q
        BY <2>1, PublicCaseHas DEF Scopes, CONDITIONS
      <3>2. QED
        BY <3>1
    <2>3. ASSUME NEW r \in repeats
          PROVE  strict[r].per_template[q] = Value(m.rows, q, r)
      <3>1. strict[r].per_template = [x \in {d.template : d \in PublicCases} |->
                                          StrictEffect(R(r), x)]
        BY DEF score_records
      <3>2. strict[r].per_template[q] = StrictEffect(R(r), q)
        BY <2>2, <3>1
      <3>3. QED
        BY <2>1, <3>2, EffectAgrees
    <2>4. PICK f, g : /\ f = [r \in repeats |-> Value(m.rows, q, r)]
                      /\ g = [r \in DOMAIN strict |-> strict[r].per_template[q]]
      OBVIOUS
    <2>5. f = g
      BY <1>1, <2>3, <2>4
    <2>6. m.per_template[q] = SumFunction(f)
      BY <2>4, PublicEffects
    <2>7. QED
      BY <2>4, <2>5, <2>6
  <1>3. ASSUME NEW k \in Conditions, NEW S \in SUBSET Scopes,
               NEW field \in {"correct", "false_action"}, NEW n,
               n = [r \in repeats |->
                       Cardinality({row \in R(r) : /\ row.scope \in S
                                       /\ row.condition = k /\ row[field]})]
        PROVE  SumFunction(n) =
                   Rate(m.rows, TrialsWith(m.rows, S, {k}), field)[1]
    <2>1. PICK picked : picked = {t \in TrialsWith(m.rows, S, {k}) :
                                      m.rows[t][field]}
      OBVIOUS
    <2>2. ASSUME NEW r \in repeats
          PROVE  n[r] = Cardinality({t \in picked : t.repeat = r})
      <3>1. {t \in picked : t.repeat = r} =
                {t \in TrialsWith(m.rows, S, {k}) :
                     m.rows[t][field] /\ t.repeat = r}
        BY <2>1
      <3>2. n[r] = Cardinality({row \in R(r) : /\ row.scope \in S
                                               /\ row.condition = k
                                               /\ row[field]})
        BY <1>3
      <3>3. Cardinality({row \in R(r) : /\ row.scope \in S
                                        /\ row.condition = k /\ row[field]}) =
            Cardinality({t \in TrialsWith(m.rows, S, {k}) :
                             m.rows[t][field] /\ t.repeat = r})
        <4>1. /\ PublicReport(m) /\ rest \in Baselines
              /\ r \in RepeatsOf(m.rows) /\ S \in SUBSET Scopes
              /\ k \in Conditions /\ field \in {"correct", "false_action"}
          OBVIOUS
        <4>2. Cardinality(CountedRows(R(r), S, k, field)) =
                  Cardinality(CountedTrials(m.rows, S, k, field, r))
          BY <4>1, CountsAgree
        <4>3. /\ CountedRows(R(r), S, k, field) =
                    {row \in R(r) : /\ row.scope \in S
                                    /\ row.condition = k /\ row[field]}
              /\ CountedTrials(m.rows, S, k, field, r) =
                    {t \in TrialsWith(m.rows, S, {k}) :
                         m.rows[t][field] /\ t.repeat = r}
          BY Zenon DEF CountedRows, CountedTrials
        <4>4. QED
          BY <4>2, <4>3, Zenon
      <3>4. QED
        BY <3>1, <3>2, <3>3, Zenon
    <2>3. n = [r \in repeats |-> Cardinality({t \in picked : t.repeat = r})]
      BY <1>3, <2>2
    <2>4. picked \in SUBSET DOMAIN m.rows
      BY <2>1 DEF TrialsWith
    <2>5. SumFunction(n) = Cardinality(picked)
      BY <2>3, <2>4, PublicRepeats, CountedByRepeat
    <2>6. QED
      BY <2>1, <2>5 DEF Rate
  <1>4. ASSUME NEW k \in Conditions
        PROVE  m.action_metrics.by_cell["relevant"][k][1] =
                   SumFunction([r \in DOMAIN strict |->
                                    strict[r].relevant_accuracy[k][1]])
    <2>1. PICK n : n = [r \in DOMAIN strict |->
                            strict[r].relevant_accuracy[k][1]]
      OBVIOUS
    <2>2. ASSUME NEW r \in repeats
          PROVE  n[r] = Cardinality({row \in R(r) :
                            /\ row.scope \in {"relevant"}
                            /\ row.condition = k /\ row["correct"]})
      <3>1. strict[r].relevant_accuracy =
                [x \in CONDITIONS |->
                     StrictRate(StrictCell(R(r), "relevant", x), "correct")]
        BY DEF score_records
      <3>2. /\ n[r] = strict[r].relevant_accuracy[k][1]
            /\ strict[r].relevant_accuracy[k] =
                   StrictRate(StrictCell(R(r), "relevant", k), "correct")
        BY <1>1, <2>1, <3>1 DEF Conditions, CONDITIONS
      <3>3. {row \in StrictCell(R(r), "relevant", k) : row["correct"]} =
                {row \in R(r) : /\ row.scope \in {"relevant"}
                                /\ row.condition = k /\ row["correct"]}
        BY DEF StrictCell
      <3>4. n[r] = Cardinality({row \in StrictCell(R(r), "relevant", k) :
                                    row["correct"]})
        BY <3>2 DEF StrictRate
      <3>5. QED
        BY <3>3, <3>4
    <2>3. n = [r \in repeats |-> Cardinality({row \in R(r) :
                                    /\ row.scope \in {"relevant"}
                                    /\ row.condition = k /\ row["correct"]})]
      BY <1>1, <2>1, <2>2
    <2>4. SumFunction(n) =
              Rate(m.rows, TrialsWith(m.rows, {"relevant"}, {k}), "correct")[1]
      BY <1>3, <2>3 DEF Scopes
    <2>5. m.action_metrics.by_cell["relevant"][k] =
              Rate(m.rows, TrialsWith(m.rows, {"relevant"}, {k}), "correct")
      BY DEF PublicReport, Reported, ActionMetrics, Scopes
    <2>6. QED
      BY <2>1, <2>4, <2>5
  <1>5. ASSUME NEW k \in Conditions
        PROVE  m.action_metrics.by_condition[k][1] =
                   SumFunction([r \in DOMAIN strict |->
                                    strict[r].accuracy_by_condition[k][1]])
    <2>1. PICK n : n = [r \in DOMAIN strict |->
                            strict[r].accuracy_by_condition[k][1]]
      OBVIOUS
    <2>2. ASSUME NEW r \in repeats
          PROVE  n[r] = Cardinality({row \in R(r) :
                            /\ row.scope \in Scopes
                            /\ row.condition = k /\ row["correct"]})
      <3>1. strict[r].accuracy_by_condition =
                [x \in CONDITIONS |->
                     StrictRate({row \in R(r) : row.condition = x}, "correct")]
        BY DEF score_records
      <3>2. /\ n[r] = strict[r].accuracy_by_condition[k][1]
            /\ strict[r].accuracy_by_condition[k] =
                   StrictRate({y \in R(r) : y.condition = k}, "correct")
        BY <1>1, <2>1, <3>1 DEF Conditions, CONDITIONS
      <3>3. \A row \in R(r) : row.scope \in Scopes
        <4>1. ASSUME NEW c \in PublicCases
              PROVE  c.scope \in Scopes
          BY PublicCaseIs, PublicCaseHas
        <4>2. QED
          BY <4>1, StrictRowsAre
      <3>4. {row \in {y \in R(r) : y.condition = k} : row["correct"]} =
                {row \in R(r) : /\ row.scope \in Scopes
                                /\ row.condition = k /\ row["correct"]}
        BY <3>3
      <3>5. QED
        BY <3>2, <3>4 DEF StrictRate
    <2>3. n = [r \in repeats |-> Cardinality({row \in R(r) :
                                    /\ row.scope \in Scopes
                                    /\ row.condition = k /\ row["correct"]})]
      BY <1>1, <2>1, <2>2
    <2>4. SumFunction(n) =
              Rate(m.rows, TrialsWith(m.rows, Scopes, {k}), "correct")[1]
      BY <1>3, <2>3
    <2>5. m.action_metrics.by_condition[k] =
              Rate(m.rows, TrialsWith(m.rows, Scopes, {k}), "correct")
      BY DEF PublicReport, Reported, ActionMetrics
    <2>6. QED
      BY <2>1, <2>4, <2>5
  <1>6. ASSUME NEW k \in Conditions
        PROVE  m.action_metrics.false_action[k][1] =
                   SumFunction([r \in DOMAIN strict |->
                                    strict[r].false_action_rate[k][1]])
    <2>1. PICK n : n = [r \in DOMAIN strict |->
                            strict[r].false_action_rate[k][1]]
      OBVIOUS
    <2>2. ASSUME NEW r \in repeats
          PROVE  n[r] = Cardinality({row \in R(r) :
                            /\ row.scope \in {"irrelevant"}
                            /\ row.condition = k /\ row["false_action"]})
      <3>1. strict[r].false_action_rate =
                [x \in CONDITIONS |->
                     StrictRate(StrictCell(R(r), "irrelevant", x),
                                "false_action")]
        BY DEF score_records
      <3>2. /\ n[r] = strict[r].false_action_rate[k][1]
            /\ strict[r].false_action_rate[k] =
                   StrictRate(StrictCell(R(r), "irrelevant", k), "false_action")
        BY <1>1, <2>1, <3>1 DEF Conditions, CONDITIONS
      <3>3. {row \in StrictCell(R(r), "irrelevant", k) : row["false_action"]} =
                {row \in R(r) : /\ row.scope \in {"irrelevant"}
                                /\ row.condition = k /\ row["false_action"]}
        BY DEF StrictCell
      <3>4. QED
        BY <3>2, <3>3 DEF StrictRate
    <2>3. n = [r \in repeats |-> Cardinality({row \in R(r) :
                                    /\ row.scope \in {"irrelevant"}
                                    /\ row.condition = k /\ row["false_action"]})]
      BY <1>1, <2>1, <2>2
    <2>4. SumFunction(n) =
              Rate(m.rows, TrialsWith(m.rows, {"irrelevant"}, {k}),
                   "false_action")[1]
      BY <1>3, <2>3 DEF Scopes
    <2>5. m.action_metrics.false_action[k] =
              Rate(m.rows, TrialsWith(m.rows, {"irrelevant"}, {k}),
                   "false_action")
      BY DEF PublicReport, Reported, ActionMetrics
    <2>6. QED
      BY <2>1, <2>4, <2>5
  <1>7. QED
    BY <1>2, <1>4, <1>5, <1>6, Zenon DEF SumsUp

\* The fixture's answer to a primary public task is the baseline's.
LEMMA MockAnswers ==
    ASSUME NEW m, PublicReport(m), m.run.first = FixtureAnswers(m.study),
           NEW t \in DOMAIN m.rows
    PROVE  m.run.first[t].action =
               link_following_action(CaseOf(Arguments[m.study], t))
  <1> DEFINE c == CaseOf(Arguments[m.study], t)
  <1>1. /\ t \in Trials(m.study) /\ c \in PublicCases
        /\ c \in Primary(PublicCases) /\ Requests[m.study][t] = Task(c)
    BY PublicTrialHas
  <1>2. m.run.first[t] = FixtureAnswer(Task(c))
    <2>1. FixtureAnswers(m.study)[t] = FixtureAnswer(Requests[m.study][t])
      BY <1>1 DEF FixtureAnswers
    <2>2. QED
      BY <1>1, <2>1
  <1> HIDE DEF c
  <1>3. PICK p \in Templates, s \in Scopes, k \in CONDITIONS : c = case_of(p, s, k)
    BY <1>1, PublicCaseIs
  <1>4. k \in Conditions
    BY <1>1, <1>3, PublicCaseHas DEF Primary
  <1>5. FixtureAnswer(Task(c)).action = link_following_action(c)
    BY <1>3, <1>4, FollowingIs
  <1>6. QED
    BY <1>2, <1>5 DEF c

\* The mock's answers have the full effect in each repeat of each template.
LEMMA MockHasEffect ==
    ASSUME NEW m, PublicReport(m), m.run.first = FixtureAnswers(m.study),
           NEW r \in RepeatsOf(m.rows), NEW p \in Templates
    PROVE  Value(m.rows, p.template, r) = 1
  <1> DEFINE one(s, k) == m.rows[CHOOSE t \in Cell(m.rows, p.template, r, s, k) : TRUE]
  <1>1. ASSUME NEW s \in Scopes, NEW k \in Conditions
        PROVE  LET c == case_of(p, s, k)
                   action == link_following_action(c)
               IN  /\ one(s, k).correct <=> action = c.expected
                   /\ one(s, k).false_action <=>
                          c.scope = "irrelevant" /\ action # "NO_ACTION"
                   /\ one(s, k).correct \in BOOLEAN
                   /\ one(s, k).false_action \in BOOLEAN
    <2> DEFINE c == case_of(p, s, k)
               t == Trial(m.study, c, r)
    <2>1. PICK rest \in Baselines : TRUE
      BY DEF Baselines
    <2>2. k \in CONDITIONS
      BY DEF Conditions, CONDITIONS
    <2>3. /\ c \in Primary(PublicCases)
          /\ Cell(m.rows, p.template, r, s, k) = {t}
      <3>1. rest \in Baselines /\ k \in Conditions
        BY <2>1
      <3>2. /\ case_of(p, s, k) \in Primary(PublicCases)
            /\ Cell(m.rows, p.template, r, s, k) =
                   {Trial(m.study, case_of(p, s, k), r)}
            /\ StrictCell(OfTemplate(StrictRows(PublicCases,
                                                AsPredictions(m, r, rest)),
                                     p.template), s, k) =
                   {StrictRow(case_of(p, s, k), AsPredictions(m, r, rest))}
        BY <2>2, <3>1, CellsAre
      <3>3. QED
        BY <3>2, Zenon
    <2>4. one(s, k) = m.rows[t]
      BY <2>3
    <2> HIDE DEF c, one, t
    <2>5. t \in DOMAIN m.rows /\ CaseOf(Arguments[m.study], t) = c
      BY <2>3, PublicTrialOf DEF t
    <2>6. m.run.first[t].action = link_following_action(c)
      BY <2>5, MockAnswers
    <2>7. /\ m.rows[t].correct <=> m.run.first[t].action = c.expected
          /\ m.rows[t].false_action <=>
                 c.scope = "irrelevant" /\ m.run.first[t].action # "NO_ACTION"
          /\ m.rows[t].correct \in BOOLEAN /\ m.rows[t].false_action \in BOOLEAN
      BY <2>5, PublicTrialHas
    <2>8. QED
      BY <2>4, <2>6, <2>7 DEF c
  <1> HIDE DEF one
  <1>2. p.rules[1].action # p.rules[2].action
    BY SmokeAssumption
  <1>3. ASSUME NEW k \in Conditions
        PROVE  /\ one("relevant", k).correct = (k = "correct")
               /\ one("irrelevant", k).false_action = FALSE
    <2>1. {"relevant", "irrelevant"} = Scopes /\ k \in CONDITIONS
      BY DEF Scopes, Conditions, CONDITIONS
    <2>2. /\ case_of(p, "relevant", k).expected = p.rules[1].action
          /\ link_following_action(case_of(p, "relevant", k)) =
                 IF k = "correct" THEN p.rules[1].action ELSE p.rules[2].action
      BY <2>1, PublicCaseHas, FollowingIs
    <2>3. link_following_action(case_of(p, "irrelevant", k)) = "NO_ACTION"
      BY <2>1, FollowingIs
    <2>4. /\ one("relevant", k).correct <=>
                 link_following_action(case_of(p, "relevant", k)) =
                     case_of(p, "relevant", k).expected
          /\ one("relevant", k).correct \in BOOLEAN
          /\ one("irrelevant", k).false_action \in BOOLEAN
          /\ ~one("irrelevant", k).false_action
      BY <1>1, <2>1, <2>3
    <2>5. QED
      BY <1>2, <2>2, <2>4
  <1>4. /\ one("relevant", "correct").correct = TRUE
        /\ one("relevant", "shuffled").correct = FALSE
        /\ one("irrelevant", "correct").false_action = FALSE
        /\ one("irrelevant", "shuffled").false_action = FALSE
    BY <1>3 DEF Conditions
  <1>5. Value(m.rows, p.template, r) =
            (AsNumber(one("relevant", "correct").correct)
                - AsNumber(one("relevant", "shuffled").correct))
            - (AsNumber(one("irrelevant", "correct").false_action)
                - AsNumber(one("irrelevant", "shuffled").false_action))
    BY DEF Value, one
  <1>6. QED
    BY <1>4, <1>5 DEF AsNumber

LEMMA MockIsFollowing ==
    ASSUME NEW m, PublicReport(m), m.run.first = FixtureAnswers(m.study)
    PROVE  /\ \A q \in DOMAIN m.per_template :
                  m.per_template[q] = Cardinality(RepeatsOf(m.rows))
           /\ \A t \in DOMAIN m.rows :
                  m.run.first[t].action =
                      generate_predictions(PublicCases, "link-following")[t.case]
  <1>1. ASSUME NEW q \in DOMAIN m.per_template
        PROVE  m.per_template[q] = Cardinality(RepeatsOf(m.rows))
    <2>1. PICK p \in Templates : q = p.template
      BY PublicEffects
    <2>2. PICK f : f = [r \in RepeatsOf(m.rows) |-> Value(m.rows, q, r)]
      OBVIOUS
    <2>3. f = [r \in RepeatsOf(m.rows) |-> 1]
      BY <2>1, <2>2, MockHasEffect
    <2>4. SumFunction(f) = Cardinality(RepeatsOf(m.rows))
      BY <2>3, PublicRepeats, SumOfOnes
    <2>5. m.per_template[q] = SumFunction(f)
      BY <2>2, PublicEffects
    <2>6. QED
      BY <2>4, <2>5
  <1>2. ASSUME NEW t \in DOMAIN m.rows
        PROVE  m.run.first[t].action =
                   generate_predictions(PublicCases, "link-following")[t.case]
    <2>1. PICK c : c = CaseOf(Arguments[m.study], t)
      OBVIOUS
    <2>2. c \in PublicCases /\ c.id = t.case
      BY <2>1, PublicTrialHas
    <2>3. QED
      BY <2>1, <2>2, MockAnswers, FollowingHas
  <1>3. QED
    BY <1>1, <1>2

\* A report of the public data agrees with the strict scorer of the smoke
\* evaluation, repeat by repeat, for every data set of templates and every
\* order of builds, answers and changed files; and the mock's answers have the
\* full effect (score_model_eval.py, score.py and run_baseline.py).
THEOREM PathsAgreeOnPublicData == Spec => []PathsAgree
  <1>1. ASSUME EvalInv
        PROVE  PathsAgree
    <2>1. SUFFICES ASSUME metrics # None,
                          Arguments[metrics.study].source = PublicCases,
                          metrics.validity_metrics["action_invalid"][1] = 0
                   PROVE  PathsAgree
      BY DEF PathsAgree
    <2>2. PublicReport(metrics)
      BY <1>1, <2>1 DEF EvalInv, ReportIsScore, PublicReport
    <2> DEFINE repeats == RepeatsOf(metrics.rows)
               following == generate_predictions(PublicCases, "link-following")
               ignoring == generate_predictions(PublicCases, "link-ignoring")
               predictions(rest) ==
                   [r \in repeats |-> AsPredictions(metrics, r, rest)]
    <2>3. {following, ignoring} = Baselines
      BY DEF Baselines
    <2>4. ASSUME NEW rest \in Baselines
          PROVE  /\ \A r \in repeats :
                        /\ load_inputs(PublicCases, predictions(rest)[r], {})
                        /\ Scorable(StrictRows(PublicCases, predictions(rest)[r]))
                 /\ SumsUp(metrics, [r \in repeats |->
                        score_records(PublicCases, predictions(rest)[r])])
      <3>1. ASSUME NEW r \in repeats
            PROVE  /\ load_inputs(PublicCases, predictions(rest)[r], {})
                   /\ Scorable(StrictRows(PublicCases, predictions(rest)[r]))
        <4>1. predictions(rest)[r] = AsPredictions(metrics, r, rest)
          OBVIOUS
        <4>2. /\ load_inputs(PublicCases, AsPredictions(metrics, r, rest), {})
              /\ Scorable(StrictRows(PublicCases,
                                     AsPredictions(metrics, r, rest)))
          BY <2>2, PredictionsLoad
        <4>3. QED
          BY <4>1, <4>2
      <3>2. PICK strict : strict = [r \in repeats |-> score_records(PublicCases,
                                           AsPredictions(metrics, r, rest))]
        OBVIOUS
      <3>3. SumsUp(metrics, strict)
        BY <2>2, <3>2, SumsAgree
      <3>4. strict = [r \in repeats |->
                          score_records(PublicCases, predictions(rest)[r])]
        BY <3>2
      <3>5. QED
        BY <3>1, <3>3, <3>4
    <2>5. metrics.run.first = FixtureAnswers(metrics.study) =>
              /\ \A p \in DOMAIN metrics.per_template :
                     metrics.per_template[p] = Cardinality(repeats)
              /\ \A t \in DOMAIN metrics.rows :
                     metrics.run.first[t].action = following[t.case]
      BY <2>2, MockIsFollowing
    <2>6. QED
      BY <2>3, <2>4, <2>5, Zenon DEF PathsAgree
  <1>2. QED
    BY <1>1, FilesAreAccounted, PTL
=============================================================================
