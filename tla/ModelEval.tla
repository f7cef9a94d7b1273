----------------------------- MODULE ModelEval -----------------------------
(***************************************************************************)
(* The model-run path of the rule-use evaluation,                          *)
(* experiments/rule-use-eval/model_eval: build_bundle.py writes requests,  *)
(* evaluator mapping and manifest; a runner (external), or                 *)
(* make_mock_responses.py, answers the requests; parse_responses.py and    *)
(* score_model_eval.py make a report of the answers.  The scripts share    *)
(* nothing but their files, and are started by hand, in any order and more *)
(* than once; a script that raises changes no file.  Each but the build    *)
(* and the dry run is one step, which hashes a file and reads it again: no *)
(* build with the same seed writes that file in between.                   *)
(*                                                                         *)
(* A file of the bundle is named by the build it was written from (its     *)
(* arguments), and its contents are a function of that: Requests[b],       *)
(* Mapping[b], both of them and a kind for the manifest.  Hashes are       *)
(* compared as the contents they stand for.                                *)
(***************************************************************************)
EXTENDS SmokeEval, TLC

CONSTANTS
    Arguments,      \* of build_bundle.py: a function of the build's name
    DryBuild,       \* the build of run_public_smoke_dry_run.py
    WideSeeds,      \* the seeds of at least 128 bits
    MinTemplates,   \* 24 in the code
    MinRepeats,     \* 5 in the code
    Delta,          \* the least effect that counts, in hundredths
    Responders,     \* what a runner may answer: functions of the task
    MaxBuilds,      \* bound: builds that are begun
    MaxRuns,        \* bound: files of raw responses that are made
    None

Builds == DOMAIN Arguments
Conditions == {"correct", "shuffled"}      \* the primary ones
FORBIDDEN_RUNNER_KEYS == {"condition", "scope", "expected_action"}

ASSUME ModelEvalAssumption ==
    /\ \A a \in Range(Arguments) :
           /\ a.kind \in {"public_smoke", "hidden"} /\ a.repeats \in Nat
           /\ IsFiniteSet(a.source)
           /\ \A c, d \in a.source : c.id = d.id => c = d
           /\ \A c \in a.source : DOMAIN c.links = 1 .. Len(c.links)
    /\ DryBuild \in Builds
    /\ Arguments[DryBuild].kind = "public_smoke"
    /\ Arguments[DryBuild].source = PublicCases
    /\ MinTemplates \in Nat /\ MinRepeats \in Nat /\ Delta \in Nat
    /\ MaxBuilds \in Nat /\ MaxRuns \in Nat
    /\ None \notin Builds

VARIABLES
    requests,   \* the build that the requests file was written from
    mapping,    \* the build that the evaluator mapping was written from
    manifest,   \* the build that the manifest was written from
    building,   \* the build or dry run under way: the file it writes next,
                \* whether it goes on after the bundle, and its answers
    raw,        \* raw responses: first and repeated answers to each trial
    parsed,     \* parsed responses
    metrics,    \* the report
    builds,     \* builds begun so far
    runs        \* files of raw responses made so far

vars == <<requests, mapping, manifest, building, raw, parsed, metrics, builds,
          runs>>

Task(c) == [content |-> c.content, links |-> c.links]
Gold(c) == [template |-> c.template, scope |-> c.scope,
            condition |-> c.condition, expected |-> c.expected]

(***************************************************************************)
(* build_bundle.py: what it accepts.                                       *)
(***************************************************************************)
Primary(source) == {c \in source : c.condition \in Conditions}

\* A task or a gold record that is public already; equal bundles and equal
\* whole records are cases of it.
ReusesPublic(source) ==
    \E c \in source, p \in PublicCases : Task(c) = Task(p) \/ Gold(c) = Gold(p)

SameValues(f, g) ==
    \A v \in Range(f) \cup Range(g) :
        Cardinality({x \in DOMAIN f : f[x] = v}) =
            Cardinality({x \in DOMAIN g : g[x] = v})

\* A primary task's links: forward, at least two, each rule and trigger once.
ForwardLinks(links) ==
    /\ Len(links) >= 2
    /\ \A i \in DOMAIN links : links[i].direction = "forward"
    /\ \A i, j \in DOMAIN links :
           links[i].rule = links[j].rule /\ links[i].trigger = links[j].trigger
               => i = j
LinkMap(links) ==
    [k \in {<<links[i].rule, links[i].trigger>> : i \in DOMAIN links} |->
        links[CHOOSE i \in DOMAIN links :
                  <<links[i].rule, links[i].trigger>> = k].action]

\* The shuffled links lead to the same actions, and each to another one.
Shuffles(from, to) ==
    /\ ForwardLinks(from) /\ ForwardLinks(to)
    /\ LET f == LinkMap(from)
           g == LinkMap(to)
       IN  /\ DOMAIN f = DOMAIN g
           /\ SameValues(f, g)
           /\ \A k \in DOMAIN f : f[k] # g[k]

\* Variant: what surrounds the links is not compared.
MatchedLinks(correct, shuffled) == Shuffles(correct.links, shuffled.links)

\* The two lengths that the code compares as well are then equal.
MatchedPair(correct, shuffled) ==
    /\ correct.content = shuffled.content
    /\ Shuffles(correct.links, shuffled.links)

HiddenProtocol(source, repeats) ==
    LET templates == {c.template : c \in source}
        cell(t, s, k) ==
            {c \in source : c.template = t /\ c.scope = s /\ c.condition = k}
    IN  /\ repeats >= MinRepeats
        /\ Cardinality(templates) >= MinTemplates
        /\ \A c \in source : c.scope \in Scopes /\ c.condition \in Conditions
        /\ \A t \in templates, s \in Scopes, k \in Conditions :
               Cardinality(cell(t, s, k)) = 1
        /\ \A t \in templates, s \in Scopes :
               \A c \in cell(t, s, "correct"), d \in cell(t, s, "shuffled") :
                   c.expected = d.expected /\ MatchedPair(c, d)

LeaksGold(c) == c.content.keys \cap FORBIDDEN_RUNNER_KEYS # {}

Buildable(source, repeats) ==
    /\ repeats >= 1 /\ Primary(source) # {}
    /\ \A c \in Primary(source) :
           /\ c.scope \in Scopes
           /\ ~LeaksGold(c)
           /\ c.expected \in c.content.allowed

Accepts(a) ==
    /\ a.kind = "hidden" => /\ ~ReusesPublic(a.source)
                            /\ a.seed \in WideSeeds
                            /\ HiddenProtocol(a.source, a.repeats)
    /\ Buildable(a.source, a.repeats)

Accepted == {b \in Builds : Accepts(Arguments[b])}

(***************************************************************************)
(* What it writes.  A trial's id is a hash of the seed, the case's id and  *)
(* the repeat, and of nothing else.  The order of the requests is shuffled *)
(* by the seed; nothing below depends on it.                               *)
(***************************************************************************)
TrialsOf(a) == {[seed |-> a.seed, case |-> c.id, repeat |-> r] :
                    c \in Primary(a.source), r \in 1 .. a.repeats}
CaseOf(a, t) == CHOOSE c \in a.source : c.id = t.case
Requests ==
    [b \in Builds |-> [t \in TrialsOf(Arguments[b]) |->
                          Task(CaseOf(Arguments[b], t))]]
Mapping ==
    [b \in Builds |-> [t \in TrialsOf(Arguments[b]) |->
                          LET c == CaseOf(Arguments[b], t)
                          IN  [gold |-> Gold(c), allowed |-> c.content.allowed]]]
Kind(b) == Arguments[b].kind
Trials(b) == DOMAIN Requests[b]

Init ==
    /\ requests = None /\ mapping = None /\ manifest = None
    /\ building = None
    /\ raw = None /\ parsed = None /\ metrics = None
    /\ builds = 0 /\ runs = 0

Begin(b) ==
    /\ building = None /\ builds < MaxBuilds
    /\ b \in Accepted
    /\ building' = [build |-> b, next |-> "requests", dry |-> FALSE,
                    answers |-> None]
    /\ builds' = builds + 1
    /\ UNCHANGED <<requests, mapping, manifest, raw, parsed, metrics, runs>>

\* run_public_smoke_dry_run.py builds the bundle and goes on, in one process.
BeginDryRun ==
    /\ building = None /\ builds < MaxBuilds
    /\ Accepts(Arguments[DryBuild])
    /\ building' = [build |-> DryBuild, next |-> "requests", dry |-> TRUE,
                    answers |-> None]
    /\ builds' = builds + 1
    /\ UNCHANGED <<requests, mapping, manifest, raw, parsed, metrics, runs>>

\* The three files are written one after the other, the manifest last.
WriteRequests ==
    /\ building # None /\ building.next = "requests"
    /\ requests' = building.build
    /\ building' = [building EXCEPT !.next = "mapping"]
    /\ UNCHANGED <<mapping, manifest, raw, parsed, metrics, builds, runs>>

WriteMapping ==
    /\ building # None /\ building.next = "mapping"
    /\ mapping' = building.build
    /\ building' = [building EXCEPT !.next = "manifest"]
    /\ UNCHANGED <<requests, manifest, raw, parsed, metrics, builds, runs>>

WriteManifest ==
    /\ building # None /\ building.next = "manifest"
    /\ manifest' = building.build
    /\ building' = IF building.dry THEN [building EXCEPT !.next = "raw"]
                                   ELSE None
    /\ UNCHANGED <<requests, mapping, raw, parsed, metrics, builds, runs>>

\* A write or a check fails, or the process is stopped, between two files.
BuildDies ==
    /\ building # None
    /\ building' = None
    /\ UNCHANGED <<requests, mapping, manifest, raw, parsed, metrics, builds,
                   runs>>

RequestsFrozen ==
    /\ requests # None /\ manifest # None
    /\ Requests[requests] = Requests[manifest]

\* Variant: the report is made of whatever mapping is there.
MappingFound == mapping # None /\ manifest # None

MappingFrozen ==
    /\ mapping # None /\ manifest # None
    /\ Mapping[mapping] = Mapping[manifest]

(***************************************************************************)
(* Answers.  An answer is the action it names ("malformed" when it has no  *)
(* ACTION record) and whether its other records are as the contract says.  *)
(***************************************************************************)
\* first: the trials answered, and the answer to each; again: trials that a
\* later record of the file answers once more.
NewRaw(first, again) ==
    /\ runs < MaxRuns
    /\ runs' = runs + 1
    /\ raw' = [first |-> first, again |-> again, of |-> requests]
    /\ UNCHANGED <<requests, mapping, manifest, building, parsed, metrics,
                   builds>>

\* The links to an allowed action that an event has; the first one counts.
LinksOfEvent(task) ==
    {i \in DOMAIN task.links : /\ task.links[i].direction = "forward"
                              /\ task.links[i].trigger = task.content.event
                              /\ task.links[i].action \in task.content.allowed}
FixtureAnswer(task) ==
    [action |-> IF LinksOfEvent(task) = {} THEN "NO_ACTION"
                ELSE task.links[Min(LinksOfEvent(task))].action,
     strict |-> TRUE]
FixtureAnswers(b) ==
    [t \in Trials(b) |-> FixtureAnswer(Requests[b][t])]

MockResponses ==
    /\ RequestsFrozen /\ Kind(manifest) = "public_smoke"
    /\ NewRaw(FixtureAnswers(requests), <<>>)

\* A dry run answers the requests that it finds in the file.
DryRaw ==
    /\ building # None /\ building.next = "raw"
    /\ raw' = [first |-> FixtureAnswers(requests), again |-> <<>>,
               of |-> requests]
    /\ building' = [building EXCEPT !.next = "parsed", !.answers = raw']
    /\ UNCHANGED <<requests, mapping, manifest, parsed, metrics, builds, runs>>

OtherAnswer(content, answer) ==
    [action |-> CHOOSE a \in content.allowed : a # answer.action,
     strict |-> TRUE]

\* The runner has the requests only.  It may stop short of one, or record a
\* second answer to one.
Runner(respond) ==
    /\ requests # None
    /\ LET all == [t \in Trials(requests) |-> respond[Requests[requests][t]]]
       IN  \/ NewRaw(all, <<>>)
           \/ \E t \in Trials(requests) :
                  NewRaw([u \in Trials(requests) \ {t} |-> all[u]], <<>>)
           \/ \E t \in Trials(requests) :
                  NewRaw(all, t :> OtherAnswer(Requests[requests][t].content,
                                               all[t]))

(***************************************************************************)
(* parse_responses.py.                                                     *)
(***************************************************************************)
parse_raw_response(answer, allowed) ==
    [raw_response |-> answer,
     action       |-> answer.action,
     action_valid |-> answer.action \in allowed,
     refusal      |-> answer.action = "REFUSAL",
     format_valid |-> answer.action \in allowed /\ answer.strict]

\* Variant: the last record of a trial replaces the others.
LastResponseEach == DOMAIN raw.again \subseteq DOMAIN raw.first

OneResponseEach == DOMAIN raw.again = {}

\* The last record of a trial stands, where there can be two.
parse_records(b, answers) ==
    LET answer(t) == IF t \in DOMAIN answers.again THEN answers.again[t]
                     ELSE answers.first[t]
    IN  [rows |-> [t \in Trials(b) |->
                       parse_raw_response(answer(t),
                                          Requests[b][t].content.allowed)],
         run |-> answers]

Parse ==
    /\ RequestsFrozen /\ raw # None
    /\ OneResponseEach
    /\ DOMAIN raw.first = Trials(requests)
    /\ parsed' = parse_records(requests, raw)
    /\ UNCHANGED <<requests, mapping, manifest, building, raw, metrics,
                   builds, runs>>

\* A dry run parses the requests and answers that it holds.
DryParsed ==
    /\ building # None /\ building.next = "parsed"
    /\ parsed' = parse_records(building.answers.of, building.answers)
    /\ building' = [building EXCEPT !.next = "metrics"]
    /\ UNCHANGED <<requests, mapping, manifest, raw, metrics, builds, runs>>

\* Somebody helps an answer that names no allowed action to one.
Corrected(row, allowed) ==
    [row EXCEPT !.action = CHOOSE a \in allowed : a # "NO_ACTION",
                !.action_valid = TRUE]
Tamper ==
    /\ parsed # None
    /\ \A t \in DOMAIN parsed.rows :
           parsed.rows[t].action = parsed.rows[t].raw_response.action
    /\ \E t \in DOMAIN parsed.rows :
           /\ ~parsed.rows[t].action_valid
           /\ parsed' = [parsed EXCEPT !.rows[t] =
                             Corrected(@, Requests[parsed.run.of][t].content.allowed)]
    /\ UNCHANGED <<requests, mapping, manifest, building, raw, metrics,
                   builds, runs>>

(***************************************************************************)
(* score_model_eval.py.                                                    *)
(***************************************************************************)
\* Every record has the fields it should have, once for each trial.
SameTrials == DOMAIN parsed.rows = Trials(mapping)

\* The parsed fields are those of the raw text they retain.
Recomputed ==
    \A t \in DOMAIN parsed.rows :
        parsed.rows[t] = parse_raw_response(parsed.rows[t].raw_response,
                                            Mapping[mapping][t].allowed)

Row(meta, response) ==
    LET valid == response.action_valid /\ response.action \in meta.allowed
    IN  [gold |-> meta.gold,
         correct |-> valid /\ response.action = meta.gold.expected,
         false_action |-> /\ meta.gold.scope = "irrelevant"
                          /\ valid /\ response.action # "NO_ACTION",
         strict_invalid |-> ~response.format_valid,
         action_invalid |-> ~valid,
         refusal |-> response.refusal]

RowsOf == [t \in DOMAIN parsed.rows |->
               Row(Mapping[mapping][t], parsed.rows[t])]

\* The trials of a template, a repeat and a cell.
Cell(rows, template, r, s, k) ==
    {t \in DOMAIN rows : /\ t.repeat = r /\ rows[t].gold.template = template
                         /\ rows[t].gold.scope = s
                         /\ rows[t].gold.condition = k}

TemplatesOf(rows) == {rows[t].gold.template : t \in DOMAIN rows}
RepeatsOf(rows) == {t.repeat : t \in DOMAIN rows}

Paired(rows) ==
    \A t \in DOMAIN rows, s \in Scopes, k \in Conditions :
        Cardinality(Cell(rows, rows[t].gold.template, t.repeat, s, k)) = 1

\* The effect of a template, summed over its repeats; they are as many for
\* every template, so that the report's means are these sums to scale.
Effect(rows, template) ==
    LET one(r, s, k) == rows[CHOOSE t \in Cell(rows, template, r, s, k) : TRUE]
    IN  SumFunction([r \in RepeatsOf(rows) |->
            (AsNumber(one(r, "relevant", "correct").correct)
                - AsNumber(one(r, "relevant", "shuffled").correct))
            - (AsNumber(one(r, "irrelevant", "correct").false_action)
                - AsNumber(one(r, "irrelevant", "shuffled").false_action))])

\* A rate is kept as a count and the size of its group.
Rate(rows, trials, field) ==
    <<Cardinality({t \in trials : rows[t][field]}), Cardinality(trials)>>

TrialsWith(rows, s, k) ==
    {t \in DOMAIN rows : rows[t].gold.scope \in s /\ rows[t].gold.condition \in k}

ActionMetrics(rows) ==
    [overall      |-> Rate(rows, DOMAIN rows, "correct"),
     by_condition |-> [k \in Conditions |->
                           Rate(rows, TrialsWith(rows, Scopes, {k}), "correct")],
     by_scope     |-> [s \in Scopes |->
                           Rate(rows, TrialsWith(rows, {s}, Conditions), "correct")],
     by_cell      |-> [s \in Scopes |-> [k \in Conditions |->
                           Rate(rows, TrialsWith(rows, {s}, {k}), "correct")]],
     false_action |-> [k \in Conditions |->
                           Rate(rows, TrialsWith(rows, {"irrelevant"}, {k}),
                                "false_action")]]

ValidityMetrics(rows) ==
    [name \in {"strict_invalid", "action_invalid", "refusal"} |->
         Rate(rows, DOMAIN rows, name)]

\* The lower end of the bootstrap's interval is among the means of templates
\* drawn with replacement: what it says of zero when the templates differ is
\* left open.
LowerAboveZero(effects) ==
    LET positive == {p \in DOMAIN effects : effects[p] > 0}
    IN  IF positive = {} THEN {FALSE}
        ELSE IF positive = DOMAIN effects THEN {TRUE} ELSE BOOLEAN

\* The primary effect is the mean of the templates' means over the repeats.
AtLeastDelta(effects, repeats) ==
    100 * SumFunction(effects) >= Delta * Cardinality(DOMAIN effects) * repeats

\* study and run are history: what the report was made of.
Report(rows, lower) ==
    LET effects == [p \in TemplatesOf(rows) |-> Effect(rows, p)]
        dry == Kind(manifest) = "public_smoke"
    IN  [status |-> IF dry THEN "DRY_RUN_ONLY" ELSE "REQUIRES_AUDIT",
         rows |-> rows,
         per_template |-> effects,
         criterion_met |-> /\ AtLeastDelta(effects,
                                           Cardinality(RepeatsOf(rows)))
                           /\ lower,
         claim_supported |-> IF dry THEN "no" ELSE "open",
         action_metrics |-> ActionMetrics(rows),
         validity_metrics |-> ValidityMetrics(rows),
         study |-> manifest, run |-> parsed.run]

WriteReport ==
    /\ MappingFrozen /\ parsed # None
    /\ SameTrials
    /\ Recomputed
    /\ LET rows == RowsOf
           effects == [p \in TemplatesOf(rows) |-> Effect(rows, p)]
       IN  /\ Paired(rows) /\ Cardinality(TemplatesOf(rows)) >= 2
           /\ \E lower \in LowerAboveZero(effects) :
                  metrics' = Report(rows, lower)

Score ==
    /\ WriteReport
    /\ UNCHANGED <<requests, mapping, manifest, building, raw, parsed, builds,
                   runs>>

\* A dry run scores the files that it finds, through the same checks.
DryMetrics ==
    /\ building # None /\ building.next = "metrics"
    /\ WriteReport
    /\ building' = None
    /\ UNCHANGED <<requests, mapping, manifest, raw, parsed, builds, runs>>

Next ==
    \/ \E b \in Builds : Begin(b)
    \/ BeginDryRun \/ DryRaw \/ DryParsed \/ DryMetrics
    \/ WriteRequests \/ WriteMapping \/ WriteManifest \/ BuildDies
    \/ MockResponses
    \/ \E respond \in Responders : Runner(respond)
    \/ Parse \/ Tamper \/ Score

Spec == Init /\ [][Next]_vars

(***************************************************************************)
(* Properties.                                                             *)
(***************************************************************************)
\* A report is about what was answered: it has every trial of its study, once,
\* and judges the runner's first answer to it as it stands - however often the
\* files were built, answered, parsed or touched in between.  What else the
\* runner was asked, or failed to answer, is in no file.
ScoresFirstAnswers ==
    metrics # None =>
        LET first == metrics.run.first
            tasks == Requests[metrics.study]
        IN  /\ DOMAIN metrics.rows = DOMAIN tasks /\ DOMAIN first = DOMAIN tasks
            /\ \A t \in DOMAIN tasks :
                   LET row == metrics.rows[t]
                       action == first[t].action
                   IN  /\ row.correct <=> action = row.gold.expected
                       /\ row.refusal <=> action = "REFUSAL"
                       /\ row.false_action <=>
                              /\ row.gold.scope = "irrelevant"
                              /\ action \in tasks[t].content.allowed
                              /\ action # "NO_ACTION"

\* A report that is not labelled a dry run has the registered design: enough
\* templates and repeats, each cell of each once, and the same action
\* expected of the two conditions - whatever a build that was cut short, or
\* a public build with the same seed, has left in the files.
HiddenReportsHaveDesign ==
    metrics # None /\ metrics.status # "DRY_RUN_ONLY" =>
        LET rows == metrics.rows
            gold(t) == rows[t].gold
        IN  /\ Cardinality(TemplatesOf(rows)) >= MinTemplates
            /\ \A p \in TemplatesOf(rows) :
                   Cardinality({t.repeat : t \in {u \in DOMAIN rows :
                       gold(u).template = p}}) >= MinRepeats
            /\ Paired(rows)
            /\ \A t, u \in DOMAIN rows :
                   gold(t).template = gold(u).template
                   /\ gold(t).scope = gold(u).scope
                       => gold(t).expected = gold(u).expected

\* The trials of one scope of one template in one repeat.
Match(rows, t, u) ==
    /\ t.repeat = u.repeat
    /\ rows[t].gold.template = rows[u].gold.template
    /\ rows[t].gold.scope = rows[u].gold.scope

\* The event is the trigger of one link only, and that is to an allowed action.
OneOption(task) ==
    \E i \in LinksOfEvent(task) : \A j \in DOMAIN task.links :
        task.links[j].trigger = task.content.event => j = i

\* The measured effect is the links' doing, in a hidden study whose own
\* requests were answered: answers that do not depend on the links have no
\* effect in any template and never meet the criterion, and answers that
\* follow them differ between the two conditions wherever the event has one
\* link in each, to an allowed action.  (Two links of an event, one of them to
\* an action that is not allowed, may be shuffled without any effect.)
EffectIsOfLinks ==
    (/\ metrics # None /\ metrics.status # "DRY_RUN_ONLY"
     /\ Requests[metrics.run.of] = Requests[metrics.study]) =>
        LET tasks == Requests[metrics.study]
            first == metrics.run.first
        IN  /\ (\A t, u \in DOMAIN tasks :
                    tasks[t].content = tasks[u].content => first[t] = first[u])
                  => /\ ~metrics.criterion_met
                     /\ \A p \in DOMAIN metrics.per_template :
                            metrics.per_template[p] = 0
            /\ (\A t \in DOMAIN tasks : first[t] = FixtureAnswer(tasks[t]))
                  => \A t, u \in DOMAIN tasks :
                         (/\ t # u /\ Match(metrics.rows, t, u)
                          /\ OneOption(tasks[t]) /\ OneOption(tasks[u]))
                             => first[t] # first[u]

\* The answers of repeat r as predictions for the smoke scorer, with rest for
\* the conditions that the model runs leave out.
AsPredictions(m, r, rest) ==
    [id \in DOMAIN rest |->
        LET trials == {t \in DOMAIN m.rows : t.case = id /\ t.repeat = r}
        IN  IF trials = {} THEN rest[id]
            ELSE m.run.first[CHOOSE t \in trials : TRUE].action]

\* A report is the sum of the strict scorer's reports of its repeats.
SumsUp(m, strict) ==
    LET actions == m.action_metrics
    IN  /\ \A p \in DOMAIN m.per_template :
               m.per_template[p] =
                   SumFunction([r \in DOMAIN strict |->
                                    strict[r].per_template[p]])
        /\ \A k \in Conditions :
               /\ actions.by_cell["relevant"][k][1] =
                      SumFunction([r \in DOMAIN strict |->
                                       strict[r].relevant_accuracy[k][1]])
               /\ actions.by_condition[k][1] =
                      SumFunction([r \in DOMAIN strict |->
                                       strict[r].accuracy_by_condition[k][1]])
               /\ actions.false_action[k][1] =
                      SumFunction([r \in DOMAIN strict |->
                                       strict[r].false_action_rate[k][1]])

\* The two scorers agree: a report of the public data has, template by
\* template and condition by condition, what the strict scorer of the smoke
\* evaluation makes of the same answers, repeat by repeat, whoever gave them,
\* whatever the links say, and with either baseline's predictions for the
\* conditions that the model runs leave out; and the mock's answers, which are
\* those of the link-following baseline, have the full effect everywhere.
PathsAgree ==
    (/\ metrics # None /\ Arguments[metrics.study].source = PublicCases
     /\ metrics.validity_metrics["action_invalid"][1] = 0) =>
        LET first == metrics.run.first
            repeats == RepeatsOf(metrics.rows)
            following == generate_predictions(PublicCases, "link-following")
            ignoring == generate_predictions(PublicCases, "link-ignoring")
        IN  /\ \A rest \in {following, ignoring} :
                   LET predictions == [r \in repeats |->
                                          AsPredictions(metrics, r, rest)]
                   IN  /\ \A r \in repeats :
                              /\ load_inputs(PublicCases, predictions[r], {})
                              /\ Scorable(StrictRows(PublicCases,
                                                     predictions[r]))
                       /\ SumsUp(metrics,
                                 [r \in repeats |-> score_records(PublicCases,
                                                        predictions[r])])
            /\ first = FixtureAnswers(metrics.study) =>
                   /\ \A p \in DOMAIN metrics.per_template :
                          metrics.per_template[p] = Cardinality(repeats)
                   /\ \A t \in DOMAIN metrics.rows :
                          first[t].action = following[t.case]
=============================================================================
