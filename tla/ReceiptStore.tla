---------------------------- MODULE ReceiptStore ----------------------------
(***************************************************************************)
(* contributions/mcp-commit-gap/receipt_store.py: processes open one store *)
(* file, each in the mode it was started with, issue rounds and complete   *)
(* them with any name, arguments, token and answers.                       *)
(*                                                                         *)
(* The constructor reads the config table and inserts its mode in two      *)
(* statements: the SELECT is not part of the INSERT's transaction, so      *)
(* another process may act between the two (ConcurrentOpen).               *)
(***************************************************************************)
EXTENDS ReceiptRounds, FiniteSets

CONSTANTS
    Handles,        \* processes that use the store file
    CallerAnswers,  \* the answer maps callers send
    ConcurrentOpen  \* may two processes be inside the constructor at once?

ASSUME StoreAssumption ==
    /\ MaxEffects \in Nat
    /\ ConcurrentOpen \in BOOLEAN
    /\ CallerAnswers \subseteq AnswerMaps
    /\ None \notin Bindings
    /\ None \notin Results

VARIABLES
    config,     \* table config: one mode per row
    handle,     \* process -> its ReceiptStore object
    snapshot    \* the effects that a snapshot under way has read, or None

fileVars == <<rounds, effects, config, handle, snapshot>>

Closed == [state |-> "closed", mode |-> None]
HandleStates == [state : {"closed", "inserting", "open"},
                 mode : MODES \cup {None}]

FileInit ==
    /\ StoreInit
    /\ config = <<>>
    /\ handle = [h \in Handles |-> Closed]
    /\ snapshot = None

FileTypeOK ==
    /\ StoreTypeOK
    /\ config \in Seq(MODES)
    /\ handle \in [Handles -> HandleStates]
    /\ snapshot \in Seq(Effects) \cup {None}
-----------------------------------------------------------------------------
Opening == {h \in Handles : handle[h].state = "inserting"}

\* Variant: a store that has a mode opens in any.
ReadConfigUnchecked(h, mode) ==
    /\ handle[h].state = "closed"
    /\ ConcurrentOpen \/ Opening = {}
    /\ handle' = [handle EXCEPT ![h] =
           [state |-> IF config = <<>> THEN "inserting" ELSE "open",
            mode |-> mode]]
    /\ UNCHANGED <<rounds, effects, config, snapshot>>

\* __init__ up to its SELECT: an empty config is about to get a row, a config
\* of exactly this mode opens, any other raises STORE_MODE_CHANGED.
ReadConfig(h, mode) ==
    /\ handle[h].state = "closed"
    /\ ConcurrentOpen \/ Opening = {}
    /\ config \in {<<>>, <<mode>>}
    /\ handle' = [handle EXCEPT ![h] =
           [state |-> IF config = <<>> THEN "inserting" ELSE "open",
            mode |-> mode]]
    /\ UNCHANGED <<rounds, effects, config, snapshot>>

\* __init__ from its INSERT on.
InsertConfig(h) ==
    /\ handle[h].state = "inserting"
    /\ config' = Append(config, handle[h].mode)
    /\ handle' = [handle EXCEPT ![h].state = "open"]
    /\ UNCHANGED <<rounds, effects, snapshot>>

\* The process ends, or is killed, anywhere.
Exit(h) ==
    /\ handle[h].state # "closed"
    /\ handle' = [handle EXCEPT ![h] = Closed]
    /\ UNCHANGED <<rounds, effects, config, snapshot>>

IssueAt(h) ==
    /\ handle[h].state = "open"
    /\ \E arguments \in Arguments, tok \in Tokens : Issue(arguments, tok)
    /\ UNCHANGED <<config, handle, snapshot>>

CompleteAt(h) ==
    /\ handle[h].state = "open"
    /\ \E name \in Names, arguments \in Arguments, tok \in Tokens,
          answers \in CallerAnswers :
         LET call == [name |-> name, arguments |-> arguments, token |-> tok,
                      answers |-> answers]
         IN  /\ ~ Raises(handle[h].mode, call)
             /\ Commits(handle[h].mode, call) => Len(effects) < MaxEffects
             /\ Complete(handle[h].mode, call)
    /\ UNCHANGED <<config, handle, snapshot>>

\* snapshot reads the tables one after the other, without a transaction; one
\* snapshot at a time is followed.
ReadEffects(h) ==
    /\ handle[h].state = "open" /\ snapshot = None
    /\ snapshot' = effects
    /\ UNCHANGED <<rounds, effects, config, handle>>

\* It returns the effects it read with the rounds as they are now.
ReadRounds ==
    /\ snapshot # None
    /\ snapshot' = None
    /\ UNCHANGED <<rounds, effects, config, handle>>

FileNext ==
    \/ \E h \in Handles :
           \/ \E mode \in MODES : ReadConfig(h, mode)
           \/ InsertConfig(h)
           \/ Exit(h)
           \/ IssueAt(h)
           \/ CompleteAt(h)
           \/ ReadEffects(h)
    \/ ReadRounds

FileSpec == FileInit /\ [][FileNext]_fileVars
-----------------------------------------------------------------------------
\* Every process that has the store open has it open in one mode
\* (test_receipts.py, test_store_mode_cannot_change).
OneMode ==
    \A g, h \in Handles :
        handle[g].state = "open" /\ handle[h].state = "open"
            => handle[g].mode = handle[h].mode

\* A committed round has its receipt whenever a process is open in receipt
\* mode, whatever processes and modes used the file before: RECEIPT_MISSING
\* is unreachable.
ReceiptNeverMissing ==
    \A h \in Handles, tok \in Tokens :
        handle[h].state = "open" /\ handle[h].mode = "receipt" /\ Bound(tok)
            => rounds[tok].result # None

\* Outside the naive control a round leaves at most one label, over every
\* restart of the processes and every repeat of the call.
OneEffectPerRound ==
    config # <<"naive">> =>
        \A tok \in Tokens : \A i, j \in EffectsOf(tok) : i = j

\* The label and the binding of a round are one commit: a round has an effect
\* exactly when it is bound.  A refused or invalid call consumes nothing.  Nor
\* does a snapshot, which reads the two tables in turn, ever show a label
\* without its binding.
EffectIffBound ==
    /\ \A tok \in Tokens : Bound(tok) <=> EffectsOf(tok) # {}
    /\ snapshot # None =>
           \A i \in DOMAIN snapshot : Bound(snapshot[i].token)

\* A receipt names the effect row of its own round and its label.
ReceiptNamesItsEffect ==
    \A tok \in Tokens :
        rounds[tok].result # None =>
            LET r == rounds[tok].result
            IN  /\ r.effect \in EffectsOf(tok)
                /\ r.label = effects[r.effect].label
                /\ r.label = rounds[tok].arguments
                /\ ~ r.isError

\* Once a round is bound, no call of any process changes its binding, its
\* receipt or the arguments it was issued for, nor takes a label back.
FrozenOnceBound ==
    [][/\ \A tok \in Tokens : Bound(tok) => rounds'[tok] = rounds[tok]
       /\ \A i \in DOMAIN effects :
              i \in DOMAIN effects' /\ effects'[i] = effects[i]]_fileVars
=============================================================================
