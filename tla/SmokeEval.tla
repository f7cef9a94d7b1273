----------------------------- MODULE SmokeEval -----------------------------
(***************************************************************************)
(* The rule-use smoke evaluation, experiments/rule-use-eval: the data set  *)
(* that build_dataset.py makes of its templates, the two baselines of      *)
(* run_baseline.py, and the strict scorer, score.py.  Each is one pass     *)
(* over lists, so that this module has operators and no state.             *)
(*                                                                         *)
(* A source is a set of cases, each joined with its gold record.  Links    *)
(* are a sequence, as in the file; content is the rest of a task: the      *)
(* event, the actions it allows, its keys, and a wording, which stands for *)
(* its texts.  An opaque id stands for what is hashed.                     *)
(***************************************************************************)
EXTENDS Integers, Sequences, FiniteSets, FiniteSetsExt, Functions

CONSTANTS
    Templates,      \* TEMPLATES of build_dataset.py
    Rank            \* the order of the actions' names

Scopes == {"relevant", "irrelevant"}
CONDITIONS == {"correct", "shuffled", "reversed", "absent",
               "irrelevant_probe"}

\* No two rules of a template share a trigger, the first two lead to different
\* actions, and the irrelevant event triggers none.
ASSUME SmokeAssumption ==
    /\ \A p \in Templates :
           /\ p.rules \in Seq(Range(p.rules)) /\ Len(p.rules) >= 2
           /\ p.rules[1].action # p.rules[2].action
           /\ \A i, j \in DOMAIN p.rules :
                  p.rules[i].trigger = p.rules[j].trigger => i = j
           /\ \A i \in DOMAIN p.rules : p.rules[i].trigger # p.irrelevant
           /\ \A i \in DOMAIN p.rules : Rank[p.rules[i].action] \in Nat
           /\ Rank[p.ack] \in Nat
    /\ \A p, q \in Templates : p.template = q.template => p = q

(***************************************************************************)
(* build_dataset.py.                                                       *)
(***************************************************************************)
Link(direction, rule, trigger, action) ==
    [direction |-> direction, rule |-> rule, trigger |-> trigger,
     action |-> action]

Rotated(s) == Append(Tail(s), Head(s))

links_for(template, condition) ==
    LET rules == template.rules
        actions == [i \in DOMAIN rules |-> rules[i].action]
        links(direction, to) ==
            [i \in DOMAIN rules |-> Link(direction, rules[i].rule,
                                         rules[i].trigger, to[i])]
        probe == Link("forward", Head(rules).rule, template.irrelevant,
                      template.ack)
    IN  [correct          |-> links("forward", actions),
         shuffled         |-> links("forward", Rotated(actions)),
         reversed         |-> links("backward", actions),
         absent           |-> <<>>,
         irrelevant_probe |-> <<probe>>][condition]

content_of(template, event) ==
    [event   |-> event,
     allowed |-> {template.rules[i].action : i \in DOMAIN template.rules}
                     \cup {template.ack, "NO_ACTION"},
     keys    |-> {"observed_event"},
     wording |-> template.template]

case_of(template, scope, condition) ==
    LET primary == Head(template.rules)
    IN  [id        |-> <<template.template, scope, condition>>,
         template  |-> template.template,
         scope     |-> scope,
         condition |-> condition,
         expected  |-> IF scope = "relevant" THEN primary.action
                                             ELSE "NO_ACTION",
         content   |-> content_of(template, IF scope = "relevant"
                                            THEN primary.trigger
                                            ELSE template.irrelevant),
         links     |-> links_for(template, condition)]

build_dataset(templates) ==
    {case_of(p, s, k) : p \in templates, s \in Scopes, k \in CONDITIONS}

\* data/cases.jsonl and data/gold.jsonl, which build_dataset.py --check and
\* the tests hold to be current.
PublicCases == build_dataset(Templates)

(***************************************************************************)
(* run_baseline.py: a baseline has the task and nothing of its gold.       *)
(***************************************************************************)
link_following_action(task) ==
    LET links == task.links
        candidates == {links[i].action : i \in
            {j \in DOMAIN links : /\ links[j].direction = "forward"
                                  /\ links[j].trigger = task.content.event}}
    IN  IF candidates = {} THEN "NO_ACTION"
        ELSE CHOOSE a \in candidates : \A b \in candidates : Rank[a] <= Rank[b]

link_ignoring_action(task) == "NO_ACTION"

generate_predictions(source, baseline) ==
    [id \in {c.id : c \in source} |->
         LET task == CHOOSE c \in source : c.id = id
         IN  IF baseline = "link-following" THEN link_following_action(task)
                                            ELSE link_ignoring_action(task)]

(***************************************************************************)
(* score.py.  Predictions are a function of the case's id; again has the   *)
(* ids that the file names once more.                                      *)
(***************************************************************************)
load_inputs(source, predictions, again) ==
    /\ source # {} /\ again = {}
    /\ DOMAIN predictions = {c.id : c \in source}
    /\ \A c \in source : {predictions[c.id], c.expected} \subseteq
                             c.content.allowed

StrictRows(source, predictions) ==
    {[id           |-> c.id,
      template     |-> c.template,
      scope        |-> c.scope,
      condition    |-> c.condition,
      correct      |-> predictions[c.id] = c.expected,
      false_action |-> /\ c.scope = "irrelevant"
                       /\ predictions[c.id] # "NO_ACTION"] : c \in source}

\* A rate is kept as a count and the size of its group.
StrictRate(rows, field) ==
    <<Cardinality({row \in rows : row[field]}), Cardinality(rows)>>

StrictCell(rows, s, k) == {row \in rows : row.scope = s /\ row.condition = k}
OfTemplate(rows, p) == {row \in rows : row.template = p}

\* No group of a rate is empty, and each primary cell of a template is one row.
Scorable(rows) ==
    /\ \A s \in Scopes, k \in CONDITIONS : StrictCell(rows, s, k) # {}
    /\ \A row \in rows, s \in Scopes, k \in {"correct", "shuffled"} :
           Cardinality(StrictCell(OfTemplate(rows, row.template), s, k)) = 1

AsNumber(truth) == IF truth THEN 1 ELSE 0

\* Variant: the false actions of the two conditions change places.
CollateralSwapped(rows, p) ==
    LET one(s, k) == CHOOSE row \in StrictCell(OfTemplate(rows, p), s, k) : TRUE
    IN  (AsNumber(one("relevant", "correct").correct)
            - AsNumber(one("relevant", "shuffled").correct))
        - (AsNumber(one("irrelevant", "shuffled").false_action)
            - AsNumber(one("irrelevant", "correct").false_action))

StrictEffect(rows, p) ==
    LET one(s, k) == CHOOSE row \in StrictCell(OfTemplate(rows, p), s, k) : TRUE
    IN  (AsNumber(one("relevant", "correct").correct)
            - AsNumber(one("relevant", "shuffled").correct))
        - (AsNumber(one("irrelevant", "correct").false_action)
            - AsNumber(one("irrelevant", "shuffled").false_action))

\* The report; the gap between two of its rates is left out.
score_records(source, predictions) ==
    LET rows == StrictRows(source, predictions)
        ofCondition(k) == {row \in rows : row.condition = k}
    IN  [per_template |-> [p \in {c.template : c \in source} |->
                               StrictEffect(rows, p)],
         overall |-> StrictRate(rows, "correct"),
         accuracy_by_condition |->
             [k \in CONDITIONS |-> StrictRate(ofCondition(k), "correct")],
         accuracy_by_scope |->
             [s \in Scopes |-> StrictRate({row \in rows : row.scope = s},
                                          "correct")],
         relevant_accuracy |->
             [k \in CONDITIONS |->
                  StrictRate(StrictCell(rows, "relevant", k), "correct")],
         false_action_rate |->
             [k \in CONDITIONS |->
                  StrictRate(StrictCell(rows, "irrelevant", k),
                             "false_action")]]
=============================================================================
