--------------------------- MODULE ReceiptRounds ---------------------------
(***************************************************************************)
(* The two tables of contributions/mcp-commit-gap/receipt_store.py and the *)
(* two transactions on them, issue and complete.  A transaction is one     *)
(* step: complete runs under BEGIN IMMEDIATE and commits or rolls back as  *)
(* a whole.  The store's mode is a parameter of the operators.             *)
(***************************************************************************)
EXTENDS Forms, Naturals, Sequences

CONSTANTS
    Tokens,     \* the tokens secrets.token_hex can return
    Arguments,  \* tool arguments; each stands for the label it carries
    Names,      \* tool names a caller may send
    KEY,        \* the one form key of the fixture
    MaxEffects  \* bound on rows of the effects table

VARIABLES
    rounds,     \* table rounds: token -> row
    effects     \* table effects: the row with id i is effects[i]

storeVars == <<rounds, effects>>

MODES == {"naive", "closed_guard", "receipt"}
Refusals == {"unknown", "mismatch", "closed", "invalid"}

Results == [isError : BOOLEAN, why : Refusals \cup {None},
            effect : Nat, label : Arguments \cup {None}]
Bindings == [name : Names, arguments : Arguments, answers : AnswerMaps]
Calls == [name : Names, arguments : Arguments, token : Tokens,
          answers : AnswerMaps]
Rows == [issued : BOOLEAN, arguments : Arguments \cup {None},
         binding : Bindings \cup {None}, result : Results \cup {None}]
Effects == [token : Tokens, label : Arguments]

Unissued == [issued |-> FALSE, arguments |-> None, binding |-> None,
             result |-> None]

StoreInit ==
    /\ rounds = [tok \in Tokens |-> Unissued]
    /\ effects = <<>>

StoreTypeOK ==
    /\ rounds \in [Tokens -> Rows]
    /\ effects \in Seq(Effects)
-----------------------------------------------------------------------------
\* terminal(text, error=True), and the success result with its effect id.
Refusal(why) == [isError |-> TRUE, why |-> why, effect |-> 0, label |-> None]

Success(id, label) ==
    [isError |-> FALSE, why |-> None, effect |-> id, label |-> label]

\* issue: a fresh token, stored with the arguments it was asked for.
Issue(arguments, tok) ==
    /\ ~ rounds[tok].issued
    /\ rounds' = [rounds EXCEPT ![tok].issued = TRUE,
                                ![tok].arguments = arguments]
    /\ UNCHANGED effects

Binding(call) == [name |-> call.name, arguments |-> call.arguments,
                  answers |-> call.answers]
Bound(tok) == rounds[tok].binding # None

Unknown(call) == ~ rounds[call.token].issued

\* Variant: a bound round is not compared with its binding.
MismatchUnlessIssued(call) ==
    \/ call.name # "preview"
    \/ call.arguments # rounds[call.token].arguments

Mismatch(call) ==
    \/ call.name # "preview"
    \/ call.arguments # rounds[call.token].arguments
    \/ Bound(call.token) /\ Binding(call) # rounds[call.token].binding
Accepts(answers) ==
    /\ DOMAIN answers = {KEY}
    /\ answers[KEY].action = "accept"
    /\ answers[KEY].content \in YesContents

\* Variants: one of the two policies forgets that the round is bound.
SettledByReceipt(mode, tok) == Bound(tok) /\ mode = "receipt"
SettledByGuard(mode, tok) == Bound(tok) /\ mode = "closed_guard"

\* A bound round is not applied again, except by the naive control.
Settled(mode, tok) == Bound(tok) /\ mode \in {"closed_guard", "receipt"}

\* The call raises RECEIPT_MISSING and its transaction rolls back.
Raises(mode, call) ==
    /\ ~ Unknown(call) /\ ~ Mismatch(call)
    /\ mode = "receipt" /\ Bound(call.token)
    /\ rounds[call.token].result = None

Commits(mode, call) ==
    /\ ~ Unknown(call) /\ ~ Mismatch(call)
    /\ ~ Settled(mode, call.token)
    /\ Accepts(call.answers)

\* Variant: a settled round is refused under the receipt policy, too.
ReplyClosed(mode, call) ==
    CASE Unknown(call) -> Refusal("unknown")
      [] ~ Unknown(call) /\ Mismatch(call) -> Refusal("mismatch")
      [] Commits(mode, call) -> Success(Len(effects) + 1, call.arguments)
      [] OTHER -> IF Settled(mode, call.token) THEN Refusal("closed")
                  ELSE Refusal("invalid")

\* What complete returns, its early returns in their order.
Reply(mode, call) ==
    CASE Unknown(call) -> Refusal("unknown")
      [] ~ Unknown(call) /\ Mismatch(call) -> Refusal("mismatch")
      [] Commits(mode, call) -> Success(Len(effects) + 1, call.arguments)
      [] OTHER ->
           IF ~ Settled(mode, call.token) THEN Refusal("invalid")
           ELSE IF mode = "closed_guard" THEN Refusal("closed")
           ELSE rounds[call.token].result

\* Variant: only the receipt policy binds the round.
CompleteUnbound(mode, call) ==
    IF Commits(mode, call)
    THEN /\ effects' = Append(effects, [token |-> call.token,
                                        label |-> call.arguments])
         /\ IF mode = "receipt"
            THEN rounds' = [rounds EXCEPT
                     ![call.token].binding = Binding(call),
                     ![call.token].result = Reply(mode, call)]
            ELSE UNCHANGED rounds
    ELSE UNCHANGED storeVars

\* What complete writes: nothing, or the effect, the binding and, in receipt
\* mode, the result, in one transaction.
Complete(mode, call) ==
    IF Commits(mode, call)
    THEN /\ effects' = Append(effects, [token |-> call.token,
                                        label |-> call.arguments])
         /\ rounds' = [rounds EXCEPT
                ![call.token].binding = Binding(call),
                ![call.token].result = IF mode = "receipt"
                                       THEN Reply(mode, call) ELSE None]
    ELSE UNCHANGED storeVars

EffectsOf(tok) == {i \in DOMAIN effects : effects[i].token = tok}
=============================================================================
