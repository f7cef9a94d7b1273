-------------------------- MODULE ConfirmedEffect --------------------------
(***************************************************************************)
(* What a confirmed operation promises its user, without processes, stores *)
(* or calls: the reviewer decides once; an accepted operation takes effect *)
(* exactly once; the operation reports that very effect, or that there is  *)
(* none.  It is what contributions/mcp-commit-gap claims of its receipt    *)
(* policy ("The complete original result ... was returned unchanged").     *)
(***************************************************************************)
EXTENDS Naturals

CONSTANTS
    Operations,
    EffectIds   \* what identifies an effect; 0 is none of them

VARIABLES
    decision,   \* operation -> "none", "accepted" or "rejected"
    effect,     \* operation -> the id of its effect, 0 if it has none
    outcome     \* operation -> whether it has reported, and which effect

vars == <<decision, effect, outcome>>

Init ==
    /\ decision = [o \in Operations |-> "none"]
    /\ effect = [o \in Operations |-> 0]
    /\ outcome = [o \in Operations |-> [done |-> FALSE, effect |-> 0]]

Decide(o) ==
    /\ decision[o] = "none"
    /\ \E d \in {"accepted", "rejected"} :
           decision' = [decision EXCEPT ![o] = d]
    /\ UNCHANGED <<effect, outcome>>

TakeEffect(o) ==
    /\ decision[o] = "accepted" /\ effect[o] = 0
    /\ \E id \in EffectIds \ {effect[p] : p \in Operations} :
           effect' = [effect EXCEPT ![o] = id]
    /\ UNCHANGED <<decision, outcome>>

Report(o) ==
    /\ ~ outcome[o].done
    /\ decision[o] = "rejected" \/ effect[o] # 0
    /\ outcome' = [outcome EXCEPT ![o] = [done |-> TRUE,
                                          effect |-> effect[o]]]
    /\ UNCHANGED <<decision, effect>>

Next == \E o \in Operations : Decide(o) \/ TakeEffect(o) \/ Report(o)

Fairness == \A o \in Operations : WF_vars(TakeEffect(o)) /\ WF_vars(Report(o))

Safety == Init /\ [][Next]_vars
Spec == Safety /\ Fairness
=============================================================================
