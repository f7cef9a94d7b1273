------------------------------- MODULE Forms -------------------------------
(***************************************************************************)
(* The data that the form rounds exchange: what a reviewer answers, and    *)
(* the check the client graph makes before an answer becomes durable       *)
(* (contributions/preserved-mcp-rounds/round_graph.py, validate_answers).  *)
(*                                                                         *)
(* An answer map is a function from form keys to answers.  Every form of   *)
(* the repository's servers has one key, and the maps here have at most    *)
(* one: none, the key of the form, another key.  The content of an answer  *)
(* is one of a few representatives of what the checks tell apart: nothing, *)
(* a complete form with yes = true and one note or another ("yes",         *)
(* "yes_changed"), a complete form without a yes, and a value that is not  *)
(* a dictionary.                                                           *)
(***************************************************************************)

CONSTANTS
    Keys,   \* the form keys that requests and answers use
    None    \* SQL's NULL and Python's None

Actions == {"accept", "decline", "cancel", "other"}
YesContents == {"yes", "yes_changed"}
Contents == YesContents \cup {"no", "not_a_dict", "none"}

Answer == [action : Actions, content : Contents]
NoAnswers == [k \in {} |-> None]
AnswerMaps == {NoAnswers} \cup UNION {[{k} -> Answer] : k \in Keys}

Sole(key, action, content) ==
    [k \in {key} |-> [action |-> action, content |-> content]]

\* Variant: the keys of the answers are not compared with the form's.
ValidUnderAnyKey(keys, answers) ==
    \A k \in DOMAIN answers :
        /\ answers[k].action \in {"accept", "decline", "cancel"}
        /\ answers[k].action # "accept" => answers[k].content = "none"

\* validate_answers returns the answers, otherwise it raises ValueError.
ValidAnswers(keys, answers) ==
    /\ DOMAIN answers = keys
    /\ \A k \in DOMAIN answers :
           /\ answers[k].action \in {"accept", "decline", "cancel"}
           /\ answers[k].action # "accept" => answers[k].content = "none"
           /\ answers[k].content # "not_a_dict"
=============================================================================
