---------------------------- MODULE MCModelEval ----------------------------
(***************************************************************************)
(* Instances for TLC: the public data of two templates, and studies of two *)
(* templates and two repeats, one with the registered design and others    *)
(* that each miss one point of it.                                         *)
(***************************************************************************)
EXTENDS ModelEval

Template(p) ==
    [template |-> p,
     rules |-> <<[rule |-> "r1", trigger |-> "e1", action |-> "A"],
                 [rule |-> "r2", trigger |-> "e2", action |-> "B"]>>,
     irrelevant |-> "e0", ack |-> "ACK"]
TheTemplates == {Template("p1"), Template("p2")}
TheRank == "A" :> 1 @@ "ACK" :> 2 @@ "B" :> 3 @@ "NO_ACTION" :> 4

Case(p, s, k) == case_of(Template(p), s, k)
Of(templates) == {Case(p, s, k) : p \in templates, s \in Scopes,
                                  k \in Conditions}
Design == Of({"t1", "t2"})
Pair(c) == c.template \in {"t1", "p1"} /\ c.scope = "relevant"

\* Studies made of the design d, and of the public data p.  One case changed:
IsSlip(c) == Pair(c) /\ c.condition = "shuffled"
Slip(source, Change(_)) == {IF IsSlip(c) THEN Change(c) ELSE c : c \in source}
Reworded(d) == Slip(d, LAMBDA c : [c EXCEPT !.content.wording = "other"])
Regraded(d) == Slip(d, LAMBDA c : [c EXCEPT !.expected = "B"])
Backward(d) == Slip(d, LAMBDA c : [c EXCEPT !.links[2].direction = "backward"])
Leaky(d) == Slip(d, LAMBDA c : [c EXCEPT !.content.keys =
                                    {"observed_event", "condition"}])
Twice(d) == Slip(d, LAMBDA c : [c EXCEPT !.condition = "correct"])
Unshuffled(d) ==
    Slip(d, LAMBDA c : [c EXCEPT !.links = links_for(Template(c.template),
                                                     "correct")])
Missing(d) == {c \in d : ~IsSlip(c)}
\* A case more, which has no pair.
Extended(d, p) ==
    d \cup {c \in p : c.id = <<"p1", "relevant", "correct">>}
\* Both cases of a pair changed:
Both(d, Change(_)) == {IF Pair(c) THEN Change(c) ELSE c : c \in d}
Narrowed(d) == Both(d, LAMBDA c : [c EXCEPT !.content.allowed =
                                         {"A", "NO_ACTION"}])
\* two rules with one trigger, the shuffled links in the other order,
Ambiguous(d) ==
    Both(d, LAMBDA c :
        LET one == [c.links EXCEPT ![2].trigger = "e1"]
        IN  [c EXCEPT !.links = IF c.condition = "shuffled" THEN Rotated(one)
                                                            ELSE one])
\* and one of them to an action that is not allowed.
Unlisted(d) ==
    Both(Ambiguous(d), LAMBDA c : [c EXCEPT !.content.allowed = @ \ {"B"}])

Hidden(source) == [source |-> source, seed |-> "wide", repeats |-> 2,
                   kind |-> "hidden"]
Public(source) == [Hidden(source) EXCEPT !.kind = "public_smoke"]
Once(source) == [Public(source) EXCEPT !.repeats = 1]

Studies(d, p) ==
    [design      |-> Hidden(d),
     reworded    |-> Hidden(Reworded(d)),
     regraded    |-> Hidden(Regraded(d)),
     unshuffled  |-> Hidden(Unshuffled(d)),
     backward    |-> Hidden(Backward(d)),
     leaky       |-> Hidden(Leaky(d)),
     missing     |-> Hidden(Missing(d)),
     twice       |-> Hidden(Twice(d)),
     reused      |-> Hidden(Of({"t1", "p1"})),
     single      |-> Hidden({c \in d : c.template = "t1"}),
     narrowed    |-> Hidden(Narrowed(d)),
     ambiguous   |-> Hidden(Ambiguous(d)),
     unlisted    |-> Hidden(Unlisted(d)),
     published   |-> Hidden(p),
     once        |-> [Hidden(d) EXCEPT !.repeats = 1],
     guessable   |-> [Hidden(d) EXCEPT !.seed = "narrow"],
     smoke       |-> [Public(p) EXCEPT !.seed = "narrow"],
     relinked    |-> [Public(Unshuffled(p)) EXCEPT !.seed = "narrow"],
     rehearsal   |-> Public(d),
     rehearsal1  |-> Once(d),
     rewording   |-> Public(Reworded(d)),
     regrading   |-> Public(Regraded(d)),
     omission    |-> Public(Missing(d)),
     extension1  |-> Once(Extended(d, p))]
TheArguments == Studies(Design, PublicCases)

\* Runners: one that follows the links, one that acts on every event when the
\* first link is to A, and those that do not see them, by what they answer to
\* a template's events, to another wording, and else.
Tasks == UNION {{Task(c) : c \in a.source} : a \in Range(TheArguments)}
Plain(a) == [action |-> a, strict |-> TRUE]
Refusal == [Plain("REFUSAL") EXCEPT !.strict = FALSE]
Answers == {Plain("A"), Plain("NO_ACTION"), Refusal}
Topic(content) == IF content.wording \in {"t1", "p1"} THEN content.event
                  ELSE IF content.wording = "other" THEN "other" ELSE "else"
TheResponders ==
    {[task \in Tasks |-> FixtureAnswer(task)],
     [task \in Tasks |->
          Plain(IF task.links # <<>> /\ Head(task.links).action = "A"
                THEN "A" ELSE "NO_ACTION")]} \cup
    {[task \in Tasks |-> f[Topic(task.content)]] :
         f \in {g \in [{"e0", "e1", "other", "else"} -> Answers] :
                   /\ g["e0"] # Refusal
                   /\ g["else"] = Plain("A") /\ g["other"] = Plain("NO_ACTION")}}
=============================================================================
