-------------------------- MODULE CommitGap_proofs --------------------------
(***************************************************************************)
(* First what the two transactions of ReceiptRounds preserve, for every    *)
(* set of tokens, arguments, names and keys; then ReceiptStore, for any    *)
(* processes and answers, as long as no two processes are inside the       *)
(* constructor at once.                                                    *)
(*                                                                         *)
(* Then the safety properties of CommitGap, for any number of threads,     *)
(* tokens and crashes and any answers.  The invariant says of each thread  *)
(* what its checkpoint, its process, its reply and its consent have to do  *)
(* with each other and with the store.  Its parts are operators of those   *)
(* values, so that a step that leaves a thread's values alone keeps its    *)
(* part by equality.                                                       *)
(***************************************************************************)
EXTENDS GapEvidence, ReceiptStore, SequenceTheorems, FiniteSetTheorems, TLAPS

\* A store in one mode: bound rounds, labels and receipts belong together.
BoundIsIssued == \A tok \in Tokens : Bound(tok) => rounds[tok].issued
BoundHasEffect == \A tok \in Tokens : Bound(tok) => EffectsOf(tok) # {}
EffectIsBound ==
    \A i \in DOMAIN effects :
        /\ Bound(effects[i].token)
        /\ effects[i].label = rounds[effects[i].token].arguments
OneEffect ==
    \A i, j \in DOMAIN effects :
        effects[i].token = effects[j].token => i = j
ReceiptOf(tok) ==
    /\ rounds[tok].result # None
    /\ rounds[tok].result.effect \in EffectsOf(tok)
    /\ rounds[tok].result.label = rounds[tok].arguments
    /\ ~ rounds[tok].result.isError
ReceiptsComplete ==
    \A tok \in Tokens : Bound(tok) => ReceiptOf(tok)
NoReceipts == \A tok \in Tokens : rounds[tok].result = None

StoreInv(mode) ==
    /\ StoreTypeOK
    /\ BoundIsIssued
    /\ BoundHasEffect
    /\ EffectIsBound
    /\ mode # "naive" => OneEffect
    /\ mode = "receipt" => ReceiptsComplete
    /\ \A tok \in Tokens : ~ Bound(tok) => rounds[tok].result = None
    /\ mode # "receipt" => NoReceipts

\* A row of the effects table is typed.
LEMMA EffectsTyped ==
    ASSUME StoreTypeOK
    PROVE  /\ DOMAIN effects = 1 .. Len(effects)
           /\ Len(effects) \in Nat
           /\ \A i \in DOMAIN effects : effects[i] \in Effects
<1>1. effects \in Seq(Effects)
  BY DEF StoreTypeOK
<1> QED
  BY <1>1, LenProperties, ElementOfSeq

\* An empty store satisfies the invariant in every mode.
LEMMA StoreInitInv ==
    ASSUME NEW mode \in MODES, StoreInit
    PROVE  StoreInv(mode)
<1>1. StoreTypeOK
  BY DEF StoreInit, StoreTypeOK, Rows, Unissued
<1>2. \A tok \in Tokens : ~ Bound(tok) /\ rounds[tok].result = None
  BY DEF StoreInit, Bound, Unissued
<1>3. DOMAIN effects = {}
  BY DEF StoreInit
<1> QED
  BY <1>1, <1>2, <1>3 DEF StoreInv, BoundIsIssued, BoundHasEffect,
     EffectIsBound, OneEffect, ReceiptsComplete, NoReceipts

\* issue disturbs no round that is bound and no label.
LEMMA IssuePreserves ==
    ASSUME NEW mode \in MODES, StoreInv(mode),
           NEW arguments \in Arguments, NEW tok \in Tokens,
           Issue(arguments, tok)
    PROVE  /\ StoreInv(mode)'
           /\ \A k \in Tokens : Bound(k) => rounds'[k] = rounds[k]
<1> USE DEF StoreInv
<1>1. ~ Bound(tok)
  BY DEF Issue, BoundIsIssued
<1>2. rounds' = [rounds EXCEPT ![tok] =
          [rounds[tok] EXCEPT !.issued = TRUE, !.arguments = arguments]]
  BY DEF Issue, StoreTypeOK, Rows
<1>3. /\ \A k \in Tokens : k # tok => rounds'[k] = rounds[k]
      /\ rounds'[tok].issued /\ rounds'[tok].binding = rounds[tok].binding
      /\ rounds'[tok].result = rounds[tok].result
  BY <1>2 DEF StoreTypeOK, Rows
<1>4. effects' = effects
  BY DEF Issue
<1>5. \A k \in Tokens : (Bound(k))' <=> Bound(k)
  BY <1>3 DEF Bound
<1>6. \A k \in Tokens : Bound(k) => rounds'[k] = rounds[k]
  BY <1>1, <1>3
<1>7. \A k \in Tokens : EffectsOf(k)' = EffectsOf(k)
  BY <1>4 DEF EffectsOf
<1>8. StoreTypeOK'
  BY <1>2, <1>4 DEF StoreTypeOK, Rows
<1>9. BoundIsIssued'
  BY <1>3, <1>5, <1>6 DEF BoundIsIssued
<1>10. BoundHasEffect'
  BY <1>5, <1>7 DEF BoundHasEffect
<1>11. EffectIsBound'
  <2> SUFFICES ASSUME NEW i \in DOMAIN effects
               PROVE  /\ (Bound(effects[i].token))'
                      /\ effects[i].label = rounds'[effects[i].token].arguments
    BY <1>4 DEF EffectIsBound
  <2>1. effects[i].token \in Tokens
    BY EffectsTyped DEF Effects
  <2> QED
    BY <2>1, <1>4, <1>5, <1>6 DEF EffectIsBound
<1>12. mode # "naive" => OneEffect'
  BY <1>4 DEF OneEffect
<1>13. mode = "receipt" => ReceiptsComplete'
  <2> SUFFICES ASSUME mode = "receipt", NEW k \in Tokens, Bound(k)
               PROVE  ReceiptOf(k)'
    BY <1>5 DEF ReceiptsComplete
  <2> QED
    BY <1>6, <1>7 DEF ReceiptsComplete, ReceiptOf
<1>14. \A k \in Tokens : rounds'[k].result = rounds[k].result
  BY <1>3
<1>15. mode # "receipt" => NoReceipts'
  BY <1>14 DEF NoReceipts
<1> QED
  BY <1>5, <1>6, <1>8, <1>9, <1>10, <1>11, <1>12, <1>13, <1>14, <1>15

\* complete adds at most one label, and only for a round that is not settled.
LEMMA CompletePreserves ==
    ASSUME NEW mode \in MODES, StoreInv(mode),
           NEW call \in Calls, Complete(mode, call), None \notin Bindings,
           None \notin Results
    PROVE  /\ StoreInv(mode)'
           /\ \A k \in Tokens : Bound(k) => rounds'[k] = rounds[k]
           /\ \A i \in DOMAIN effects :
                  i \in DOMAIN effects' /\ effects'[i] = effects[i]
<1> USE DEF StoreInv
<1> DEFINE tok == call.token
           n == Len(effects) + 1
<1>1. CASE ~ Commits(mode, call)
  <2>1. UNCHANGED <<rounds, effects>>
    BY <1>1 DEF Complete, storeVars
  <2> QED
    BY <2>1 DEF StoreTypeOK, BoundIsIssued, BoundHasEffect, EffectIsBound,
       OneEffect, ReceiptsComplete, ReceiptOf, NoReceipts, EffectsOf, Bound
<1>2. CASE Commits(mode, call)
  <2>1. /\ tok \in Tokens /\ rounds[tok].issued
        /\ call.arguments = rounds[tok].arguments
        /\ Bound(tok) => rounds[tok].binding = Binding(call)
        /\ Bound(tok) => mode = "naive"
        /\ call.arguments \in Arguments
    BY <1>2 DEF Commits, Unknown, Mismatch, Settled, Calls, MODES
  <2>2. Binding(call) \in Bindings
    BY DEF Calls, Binding, Bindings
  <2>3. /\ DOMAIN effects = 1 .. Len(effects) /\ Len(effects) \in Nat
        /\ \A i \in DOMAIN effects : effects[i] \in Effects
    BY EffectsTyped
  <2>4. Reply(mode, call) = Success(n, call.arguments)
    BY <1>2 DEF Reply, Commits
  <2>5. Success(n, call.arguments) \in Results
    BY <2>1, <2>3 DEF Success, Results
  <2> DEFINE row == [rounds[tok] EXCEPT
                 !.binding = Binding(call),
                 !.result = IF mode = "receipt" THEN Success(n, call.arguments)
                            ELSE None]
             label == [token |-> tok, label |-> call.arguments]
  <2>6. rounds' = [rounds EXCEPT ![tok] = row]
    BY <1>2, <2>1, <2>4 DEF Complete, StoreTypeOK, Rows
  <2>7. rounds[tok] \in Rows
    BY <2>1 DEF StoreTypeOK
  <2>8. row \in Rows
    BY <2>2, <2>5, <2>7 DEF Rows
  <2>9. /\ \A k \in Tokens : k # tok => rounds'[k] = rounds[k]
        /\ rounds'[tok] = row
    BY <2>1, <2>6 DEF StoreTypeOK
  <2>10. /\ row.issued = rounds[tok].issued
         /\ row.arguments = rounds[tok].arguments
         /\ row.binding = Binding(call)
         /\ row.result = IF mode = "receipt" THEN Success(n, call.arguments)
                         ELSE None
    BY <2>7 DEF Rows
  <2>11. label \in Effects
    BY <2>1 DEF Effects
  <2>12. /\ effects' = Append(effects, label)
         /\ effects' \in Seq(Effects)
         /\ Len(effects') = n
         /\ \A i \in 1 .. Len(effects) : effects'[i] = effects[i]
         /\ effects'[n] = label
    BY <1>2, <2>11, AppendProperties DEF Complete, StoreTypeOK
  <2>13. DOMAIN effects' = 1 .. n
    BY <2>12, LenProperties
  <2>14. \A i \in DOMAIN effects' :
             \/ i \in DOMAIN effects /\ effects'[i] = effects[i]
             \/ i = n /\ effects'[i] = label
    BY <2>3, <2>12, <2>13
  <2>15. \A i \in DOMAIN effects :
             i \in DOMAIN effects' /\ effects'[i] = effects[i]
    BY <2>3, <2>12, <2>13
  <2>16. n \in DOMAIN effects'
    BY <2>3, <2>13
  <2>17. \A k \in Tokens : (Bound(k))' <=> Bound(k) \/ k = tok
    BY <2>2, <2>9, <2>10 DEF Bound
  <2>18. \A k \in Tokens : Bound(k) => rounds'[k] = rounds[k]
    <3> SUFFICES ASSUME Bound(tok) PROVE rounds'[tok] = rounds[tok]
      BY <2>9
    <3>1. mode = "naive" /\ rounds[tok].binding = Binding(call)
      BY <2>1
    <3>2. rounds[tok].result = None
      BY <2>1, <3>1 DEF NoReceipts
    <3>3. /\ row.binding = rounds[tok].binding
          /\ row.result = rounds[tok].result
      BY <2>10, <3>1, <3>2
    <3>4. row = rounds[tok]
      BY <2>7, <2>8, <2>10, <3>3 DEF Rows
    <3> QED
      BY <2>9, <3>4
  <2>19. \A k \in Tokens : k # tok => EffectsOf(k)' = EffectsOf(k)
    <3> SUFFICES ASSUME NEW k \in Tokens, k # tok, NEW i
                 PROVE  i \in EffectsOf(k)' <=> i \in EffectsOf(k)
      OBVIOUS
    <3>1. label.token = tok
      OBVIOUS
    <3> QED
      BY <2>14, <2>15, <3>1 DEF EffectsOf
  <2>20. n \in EffectsOf(tok)'
    BY <2>12, <2>16 DEF EffectsOf
  <2>21. StoreTypeOK'
    BY <2>6, <2>8, <2>12 DEF StoreTypeOK
  <2>22. BoundIsIssued'
    BY <2>1, <2>9, <2>10, <2>17 DEF BoundIsIssued
  <2>23. BoundHasEffect'
    BY <2>17, <2>19, <2>20 DEF BoundHasEffect
  <2>24. EffectIsBound'
    <3> SUFFICES ASSUME NEW i \in DOMAIN effects'
                 PROVE  /\ rounds'[effects'[i].token].binding # None
                        /\ effects'[i].label =
                               rounds'[effects'[i].token].arguments
      BY DEF EffectIsBound, Bound
    <3>1. CASE i \in DOMAIN effects /\ effects'[i] = effects[i]
      <4>1. effects[i].token \in Tokens
        BY <2>3, <3>1 DEF Effects
      <4> QED
        BY <2>17, <2>18, <3>1, <4>1 DEF EffectIsBound, Bound
    <3>2. CASE i = n /\ effects'[i] = label
      <4>1. effects'[i].token = tok /\ effects'[i].label = call.arguments
        BY <3>2
      <4>2. rounds'[tok].binding = Binding(call) /\ Binding(call) # None
        BY <2>2, <2>9, <2>10
      <4>3. rounds'[tok].arguments = call.arguments
        BY <2>1, <2>9, <2>10
      <4> QED
        BY <4>1, <4>2, <4>3
    <3> QED
      BY <2>14, <3>1, <3>2
  <2>25. mode # "naive" => OneEffect'
    <3> SUFFICES ASSUME mode # "naive",
                        NEW i \in DOMAIN effects', NEW j \in DOMAIN effects',
                        effects'[i].token = effects'[j].token
                 PROVE  i = j
      BY DEF OneEffect
    <3>1. ~ Bound(tok)
      BY <2>1
    <3>2. \A k \in DOMAIN effects : effects[k].token # tok
      BY <3>1 DEF EffectIsBound
    <3>3. label.token = tok
      OBVIOUS
    <3>4. \/ i \in DOMAIN effects /\ effects'[i] = effects[i]
          \/ i = n /\ effects'[i] = label
      BY <2>14
    <3>5. \/ j \in DOMAIN effects /\ effects'[j] = effects[j]
          \/ j = n /\ effects'[j] = label
      BY <2>14
    <3> QED
      BY <3>2, <3>3, <3>4, <3>5 DEF OneEffect
  <2>26. mode = "receipt" => ReceiptsComplete'
    <3> SUFFICES ASSUME mode = "receipt", NEW k \in Tokens, (Bound(k))'
                 PROVE  ReceiptOf(k)'
      BY DEF ReceiptsComplete
    <3>1. CASE k # tok
      <4>1. Bound(k) /\ rounds'[k] = rounds[k]
        BY <2>9, <2>17, <3>1
      <4> QED
        BY <2>19, <3>1, <4>1 DEF ReceiptsComplete, ReceiptOf
    <3>2. CASE k = tok
      <4>1. rounds'[k].result = Success(n, call.arguments)
        BY <2>9, <2>10, <3>2
      <4>2. /\ Success(n, call.arguments).effect = n
            /\ Success(n, call.arguments).label = call.arguments
            /\ Success(n, call.arguments).isError = FALSE
        BY DEF Success
      <4>3. rounds'[k].arguments = call.arguments
        BY <2>1, <2>9, <2>10, <3>2
      <4> QED
        BY <2>5, <2>20, <3>2, <4>1, <4>2, <4>3 DEF ReceiptOf
    <3> QED
      BY <3>1, <3>2
  <2>27. \A k \in Tokens : ~ (Bound(k))' => rounds'[k].result = None
    BY <2>9, <2>17
  <2>28. mode # "receipt" => NoReceipts'
    BY <2>9, <2>10 DEF NoReceipts
  <2> QED
    BY <2>15, <2>18, <2>21, <2>22, <2>23, <2>24, <2>25, <2>26, <2>27, <2>28
<1> QED
  BY <1>1, <1>2
-----------------------------------------------------------------------------
\* The config table has at most one row; it is empty only while no process
\* has the store open, and at most one process is about to insert its mode.
ConfigInv ==
    /\ config \in {<<>>} \cup {<<mode>> : mode \in MODES}
    /\ \A h \in Handles :
           /\ handle[h].state = "open" => config = <<handle[h].mode>>
           /\ handle[h].state = "inserting" => config = <<>>
           /\ handle[h].state # "closed" => handle[h].mode \in MODES
    /\ \A g, h \in Opening : g = h
    /\ handle \in [Handles -> HandleStates]

\* The tables obey the mode in the config table; while there is none they are
\* untouched and obey every mode.
TablesInv ==
    /\ ConfigInv
    /\ \A mode \in MODES : config \in {<<>>, <<mode>>} => StoreInv(mode)

LEMMA InitTables == FileInit => TablesInv
<1> SUFFICES ASSUME FileInit PROVE TablesInv
  OBVIOUS
<1>1. ConfigInv
  BY DEF FileInit, ConfigInv, Opening, Closed, HandleStates
<1>2. \A mode \in MODES : StoreInv(mode)
  BY StoreInitInv DEF FileInit
<1> QED
  BY <1>1, <1>2 DEF TablesInv

\* Every step preserves the invariant, leaves bound rounds alone and takes no
\* label back.
LEMMA StepTables ==
    ASSUME TablesInv, [FileNext]_fileVars, ~ ConcurrentOpen
    PROVE  /\ TablesInv'
           /\ \A tok \in Tokens : Bound(tok) => rounds'[tok] = rounds[tok]
           /\ \A i \in DOMAIN effects :
                  i \in DOMAIN effects' /\ effects'[i] = effects[i]
<1> USE DEF TablesInv
<1>1. ASSUME UNCHANGED <<rounds, effects>>, ConfigInv',
             config' \in {config} \/ config = <<>>
      PROVE  /\ TablesInv'
             /\ \A tok \in Tokens : Bound(tok) => rounds'[tok] = rounds[tok]
             /\ \A i \in DOMAIN effects :
                    i \in DOMAIN effects' /\ effects'[i] = effects[i]
  <2>1. ASSUME NEW mode \in MODES, config' \in {<<>>, <<mode>>}
        PROVE  StoreInv(mode)'
    <3>1. StoreInv(mode)
      BY <1>1, <2>1
    <3> QED
      BY <1>1, <3>1 DEF StoreInv, StoreTypeOK, BoundIsIssued, BoundHasEffect,
         EffectIsBound, OneEffect, ReceiptsComplete, ReceiptOf, NoReceipts,
         EffectsOf, Bound
  <2> QED
    BY <1>1, <2>1
<1>2. CASE UNCHANGED <<rounds, effects, config, handle>>
  <2>1. ConfigInv'
    BY <1>2 DEF ConfigInv, Opening
  <2> QED
    BY <1>1, <1>2, <2>1
<1>3. ASSUME NEW h \in Handles, NEW mode \in MODES, ReadConfig(h, mode)
      PROVE  ConfigInv' /\ UNCHANGED <<rounds, effects, config>>
  <2>1. Opening = {}
    BY <1>3 DEF ReadConfig
  <2>2. handle' = [handle EXCEPT ![h] =
            [state |-> IF config = <<>> THEN "inserting" ELSE "open",
             mode |-> mode]]
    BY <1>3 DEF ReadConfig
  <2>3. /\ handle'[h].state = IF config = <<>> THEN "inserting" ELSE "open"
        /\ handle'[h].mode = mode
        /\ \A g \in Handles : g # h => handle'[g] = handle[g]
        /\ handle' \in [Handles -> HandleStates]
    BY <2>2 DEF ConfigInv, HandleStates
  <2>4. \A g \in Handles : handle[g].state # "inserting"
    BY <2>1 DEF Opening
  <2>5. Opening' \subseteq {h}
    BY <2>3, <2>4 DEF Opening
  <2>6. config' = config /\ config \in {<<>>, <<mode>>}
    BY <1>3 DEF ReadConfig
  <2> QED
    BY <1>3, <2>3, <2>5, <2>6 DEF ConfigInv, ReadConfig
<1>4. ASSUME NEW h \in Handles, InsertConfig(h)
      PROVE  ConfigInv' /\ UNCHANGED <<rounds, effects>> /\ config = <<>>
  <2>1. h \in Opening /\ config = <<>> /\ handle[h].mode \in MODES
    BY <1>4 DEF InsertConfig, Opening, ConfigInv
  <2>2. config' = <<handle[h].mode>>
    BY <1>4, <2>1 DEF InsertConfig
  <2>3. handle' = [handle EXCEPT ![h] = [handle[h] EXCEPT !.state = "open"]]
    BY <1>4 DEF InsertConfig, ConfigInv, HandleStates
  <2>4. /\ handle'[h].state = "open" /\ handle'[h].mode = handle[h].mode
        /\ \A g \in Handles : g # h => handle'[g] = handle[g]
        /\ handle' \in [Handles -> HandleStates]
    BY <2>3 DEF ConfigInv, HandleStates
  <2>5. \A g \in Handles : g # h => handle[g].state = "closed"
    BY <2>1 DEF ConfigInv, Opening, HandleStates
  <2>6. Opening' = {}
    BY <2>4, <2>5 DEF Opening
  <2> QED
    BY <1>4, <2>1, <2>2, <2>4, <2>5, <2>6 DEF ConfigInv, InsertConfig
<1>5. ASSUME NEW h \in Handles, Exit(h)
      PROVE  ConfigInv' /\ UNCHANGED <<rounds, effects, config>>
  <2>1. handle' = [handle EXCEPT ![h] = Closed]
    BY <1>5 DEF Exit
  <2>2. /\ handle'[h] = Closed
        /\ \A g \in Handles : g # h => handle'[g] = handle[g]
        /\ handle' \in [Handles -> HandleStates]
    BY <2>1 DEF ConfigInv, HandleStates, Closed
  <2>3. Opening' \subseteq Opening
    BY <2>2 DEF Opening, Closed
  <2> QED
    BY <1>5, <2>2, <2>3 DEF ConfigInv, Exit, Closed
<1>6. ASSUME NEW h \in Handles, handle[h].state = "open",
             UNCHANGED <<config, handle>>
      PROVE  \E mode \in MODES :
                 /\ config = <<mode>> /\ handle[h].mode = mode
                 /\ StoreInv(mode) /\ ConfigInv'
                 /\ \A m \in MODES : config' \in {<<>>, <<m>>} => m = mode
  <2>1. config = <<handle[h].mode>> /\ handle[h].mode \in MODES
    BY <1>6 DEF ConfigInv
  <2>2. ConfigInv'
    BY <1>6 DEF ConfigInv, Opening
  <2> QED
    BY <1>6, <2>1, <2>2
<1>7. ASSUME NEW h \in Handles, IssueAt(h)
      PROVE  /\ TablesInv'
             /\ \A tok \in Tokens : Bound(tok) => rounds'[tok] = rounds[tok]
             /\ UNCHANGED effects
  <2>1. PICK arguments \in Arguments, tok \in Tokens : Issue(arguments, tok)
    BY <1>7 DEF IssueAt
  <2>2. PICK mode \in MODES :
            /\ StoreInv(mode) /\ ConfigInv'
            /\ \A m \in MODES : config' \in {<<>>, <<m>>} => m = mode
    BY <1>6, <1>7 DEF IssueAt
  <2>3. /\ StoreInv(mode)'
        /\ \A k \in Tokens : Bound(k) => rounds'[k] = rounds[k]
    BY <2>1, <2>2, IssuePreserves
  <2> QED
    BY <2>1, <2>2, <2>3 DEF Issue
<1>8. ASSUME NEW h \in Handles, CompleteAt(h)
      PROVE  /\ TablesInv'
             /\ \A tok \in Tokens : Bound(tok) => rounds'[tok] = rounds[tok]
             /\ \A i \in DOMAIN effects :
                    i \in DOMAIN effects' /\ effects'[i] = effects[i]
  <2>1. PICK mode \in MODES :
            /\ handle[h].mode = mode
            /\ StoreInv(mode) /\ ConfigInv'
            /\ \A m \in MODES : config' \in {<<>>, <<m>>} => m = mode
    BY <1>6, <1>8 DEF CompleteAt
  <2>2. PICK name \in Names, arguments \in Arguments, tok \in Tokens,
             answers \in CallerAnswers :
             Complete(mode, [name |-> name, arguments |-> arguments,
                             token |-> tok, answers |-> answers])
    BY <1>8, <2>1 DEF CompleteAt
  <2> DEFINE call == [name |-> name, arguments |-> arguments,
                      token |-> tok, answers |-> answers]
  <2>3. call \in Calls
    BY StoreAssumption DEF Calls
  <2>4. Complete(mode, call)
    BY <2>2
  <2> HIDE DEF call
  <2>5. /\ StoreInv(mode)'
        /\ \A k \in Tokens : Bound(k) => rounds'[k] = rounds[k]
        /\ \A i \in DOMAIN effects :
               i \in DOMAIN effects' /\ effects'[i] = effects[i]
    BY <2>1, <2>3, <2>4, CompletePreserves, StoreAssumption
  <2> QED
    BY <2>1, <2>5
<1> QED
  BY <1>1, <1>2, <1>3, <1>4, <1>5, <1>7, <1>8
  DEF FileNext, ReadEffects, ReadRounds, fileVars

\* What a snapshot under way has read is still there.
SnapshotInv ==
    /\ snapshot \in Seq(Effects) \cup {None}
    /\ snapshot # None =>
           \A i \in DOMAIN snapshot :
               i \in DOMAIN effects /\ snapshot[i] = effects[i]

FileInv == TablesInv /\ SnapshotInv

LEMMA InitFileInv == FileInit => FileInv
<1> SUFFICES ASSUME FileInit PROVE SnapshotInv
  BY InitTables DEF FileInv
<1> QED
  BY DEF FileInit, SnapshotInv

LEMMA StepFileInv ==
    ASSUME FileInv, [FileNext]_fileVars, ~ ConcurrentOpen
    PROVE  /\ FileInv'
           /\ \A tok \in Tokens : Bound(tok) => rounds'[tok] = rounds[tok]
           /\ \A i \in DOMAIN effects :
                  i \in DOMAIN effects' /\ effects'[i] = effects[i]
<1>1. /\ TablesInv'
      /\ \A tok \in Tokens : Bound(tok) => rounds'[tok] = rounds[tok]
      /\ \A i \in DOMAIN effects :
             i \in DOMAIN effects' /\ effects'[i] = effects[i]
  BY StepTables DEF FileInv
<1>2. \/ snapshot' = snapshot \/ snapshot' = None
      \/ snapshot' = effects /\ UNCHANGED effects
  BY DEF FileNext, fileVars, ReadConfig, InsertConfig, Exit, IssueAt,
     CompleteAt,
     ReadEffects, ReadRounds
<1>3. effects \in Seq(Effects)
  <2>1. PICK mode \in MODES : StoreInv(mode)
    BY DEF FileInv, TablesInv, ConfigInv, MODES
  <2> QED
    BY <2>1 DEF StoreInv, StoreTypeOK
<1>4. SnapshotInv'
  BY <1>1, <1>2, <1>3 DEF FileInv, SnapshotInv
<1> QED
  BY <1>1, <1>4 DEF FileInv
-----------------------------------------------------------------------------
\* The invariant gives the properties of ReceiptStore.
LEMMA FileInvImplies ==
    ASSUME FileInv
    PROVE  /\ FileTypeOK /\ OneMode /\ ReceiptNeverMissing
           /\ OneEffectPerRound /\ EffectIffBound /\ ReceiptNamesItsEffect
<1>1. PICK mode \in MODES : config \in {<<>>, <<mode>>} /\ StoreInv(mode)
  BY DEF FileInv, TablesInv, ConfigInv, MODES
<1>2. FileTypeOK
  <2>1. CASE config = <<>>
    BY <1>1, <2>1 DEF FileInv, TablesInv, ConfigInv, SnapshotInv, FileTypeOK,
       StoreInv
  <2>2. CASE config = <<mode>>
    <3>1. <<mode>> \in Seq(MODES)
      OBVIOUS
    <3> QED
      BY <1>1, <2>2, <3>1 DEF FileInv, TablesInv, ConfigInv, SnapshotInv,
       FileTypeOK,
       StoreInv
  <2> QED
    BY <1>1, <2>1, <2>2
<1>3. OneMode
  BY DEF FileInv, TablesInv, ConfigInv, OneMode
<1>4. ReceiptNeverMissing
  BY DEF FileInv, TablesInv, ConfigInv, ReceiptNeverMissing, StoreInv,
     ReceiptsComplete,
     ReceiptOf, MODES
<1>5. OneEffectPerRound
  <2> SUFFICES ASSUME config # <<"naive">>, NEW tok \in Tokens,
                      NEW i \in EffectsOf(tok), NEW j \in EffectsOf(tok)
               PROVE  i = j
    BY DEF OneEffectPerRound
  <2>1. PICK m \in MODES \ {"naive"} : config \in {<<>>, <<m>>}
    BY DEF FileInv, TablesInv, ConfigInv, MODES
  <2>2. OneEffect
    BY <2>1 DEF FileInv, TablesInv, StoreInv
  <2> QED
    BY <2>2 DEF OneEffect, EffectsOf
<1>6. EffectIffBound
  <2>1. \A tok \in Tokens : Bound(tok) <=> EffectsOf(tok) # {}
    BY <1>1 DEF StoreInv, BoundHasEffect, EffectIsBound, EffectsOf
  <2>2. ASSUME snapshot # None, NEW i \in DOMAIN snapshot
        PROVE  Bound(snapshot[i].token)
    BY <1>1, <2>2 DEF StoreInv, EffectIsBound, FileInv, SnapshotInv
  <2> QED
    BY <2>1, <2>2 DEF EffectIffBound
<1>7. ReceiptNamesItsEffect
  <2> SUFFICES ASSUME NEW tok \in Tokens, rounds[tok].result # None
               PROVE  /\ rounds[tok].result.effect \in EffectsOf(tok)
                      /\ rounds[tok].result.label =
                             effects[rounds[tok].result.effect].label
                      /\ rounds[tok].result.label = rounds[tok].arguments
                      /\ ~ rounds[tok].result.isError
    BY DEF ReceiptNamesItsEffect
  <2>1. mode = "receipt" /\ Bound(tok)
    BY <1>1 DEF StoreInv, NoReceipts
  <2>2. ReceiptOf(tok)
    BY <1>1, <2>1 DEF StoreInv, ReceiptsComplete
  <2> QED
    BY <1>1, <2>2 DEF StoreInv, ReceiptOf, EffectIsBound, EffectsOf
<1> QED
  BY <1>2, <1>3, <1>4, <1>5, <1>6, <1>7

\* The tables are of their types in every reachable state.
THEOREM FileTypeCorrect == ~ ConcurrentOpen => (FileSpec => []FileTypeOK)
<1> SUFFICES ASSUME ~ ConcurrentOpen PROVE FileSpec => []FileTypeOK
  OBVIOUS
<1>1. FileInv /\ [FileNext]_fileVars => FileInv'
  BY StepFileInv
<1>2. FileInv => FileTypeOK
  BY FileInvImplies
<1> QED
  BY InitFileInv, <1>1, <1>2, PTL DEF FileSpec

\* The invariant holds as long as the constructor is entered by one process
\* at a time.
LEMMA SpecFileInv == ~ ConcurrentOpen => (FileSpec => []FileInv)
<1> SUFFICES ASSUME ~ ConcurrentOpen PROVE FileSpec => []FileInv
  OBVIOUS
<1>1. FileInv /\ [FileNext]_fileVars => FileInv'
  BY StepFileInv
<1> QED
  BY InitFileInv, <1>1, PTL DEF FileSpec

\* When processes open the store one after the other it has one mode, leaves
\* at most one label per round outside the naive control, and every receipt
\* names the label of its own round.
THEOREM StoreSafe ==
    ~ ConcurrentOpen =>
        (FileSpec => [](OneMode /\ OneEffectPerRound /\ ReceiptNamesItsEffect))
<1> SUFFICES ASSUME ~ ConcurrentOpen
             PROVE  FileSpec => [](OneMode /\ OneEffectPerRound
                               /\ ReceiptNamesItsEffect)
  OBVIOUS
<1>1. FileInv => OneMode /\ OneEffectPerRound /\ ReceiptNamesItsEffect
  BY FileInvImplies
<1> QED
  BY <1>1, SpecFileInv, PTL

\* RECEIPT_MISSING is unreachable: whatever processes used the file before, a
\* process open in receipt mode finds the receipt of every bound round
\* (complete's raise, the constructor's STORE_MODE_CHANGED).
THEOREM ReceiptAlwaysThere ==
    ~ ConcurrentOpen => (FileSpec => []ReceiptNeverMissing)
<1> SUFFICES ASSUME ~ ConcurrentOpen PROVE FileSpec => []ReceiptNeverMissing
  OBVIOUS
<1>1. FileInv => ReceiptNeverMissing
  BY FileInvImplies
<1> QED
  BY <1>1, SpecFileInv, PTL

\* Label and binding are one commit, also in what snapshot reads of the two
\* tables in turn.
THEOREM EffectExactlyIfBound ==
    ~ ConcurrentOpen => (FileSpec => []EffectIffBound)
<1> SUFFICES ASSUME ~ ConcurrentOpen PROVE FileSpec => []EffectIffBound
  OBVIOUS
<1>1. FileInv => EffectIffBound
  BY FileInvImplies
<1> QED
  BY <1>1, SpecFileInv, PTL

\* No call of any process changes a bound round or takes a label back.
THEOREM BoundRoundsFrozen == ~ ConcurrentOpen => (FileSpec => FrozenOnceBound)
<1> DEFINE Frozen ==
        /\ \A tok \in Tokens : Bound(tok) => rounds'[tok] = rounds[tok]
        /\ \A i \in DOMAIN effects :
               i \in DOMAIN effects' /\ effects'[i] = effects[i]
<1> SUFFICES ASSUME ~ ConcurrentOpen PROVE FileSpec => [][Frozen]_fileVars
  BY DEF FrozenOnceBound
<1>1. FileInv /\ [FileNext]_fileVars => FileInv' /\ Frozen
  BY StepFileInv
<1> HIDE DEF Frozen
<1> QED
  BY InitFileInv, <1>1, PTL DEF FileSpec
-----------------------------------------------------------------------------
\* A consent (an element of the range of consent), and what it stands for.
Consents(c) == c # NoConsent
AcceptsForm(c) == Consents(c) /\ Accepts(c.answers)
OwnBinding(c) ==
    [name |-> "preview", arguments |-> ARGS, answers |-> c.answers]

\* A terminal result that the server, with these tables, gave for consent c:
\* the settled round's result if the answer accepts the form, or an error.
Reports(m, c, rows, labels, result) ==
    /\ result \in Results
    /\ AcceptsForm(c) =>
           /\ rows[c.frame.token].binding # None
           /\ ~ result.isError =>
                  /\ result.effect \in DOMAIN labels
                  /\ labels[result.effect].token = c.frame.token
           /\ m = "receipt" => result = rows[c.frame.token].result
    /\ ~ AcceptsForm(c) => result.isError

\* A thread asks once: its consent is set by the review of its one form.
ConsentOf(ck, c, form) ==
    /\ ck.next \in {"begin", "review"} <=> ~ Consents(c)
    /\ Consents(c) => c.frame.token \in Tokens /\ c.form = Form
    /\ ck.next = "review" => ck.frame.token \in Tokens /\ ck.frame.form = Form
    /\ ck.next = "continue" => c.frame = ck.frame /\ c.answers = ck.answers
    /\ form \in {NoForm, Form}

\* What a thread with checkpoint ck has received and reported.
ReportOf(m, ck, c, rows, labels) ==
    /\ ck.next \in {"finish", "end"} =>
           Reports(m, c, rows, labels, ck.frame.result)
    /\ ck.next = "end" =>
           /\ ck.result = ck.frame.result
           /\ ck.status = IF ck.result.isError THEN "tool_error"
                          ELSE "completed"
    /\ ck.next # "end" => ck.status \notin {"tool_error", "completed"}

\* Only a thread that calls has a reply; a first call's is a form, any other's
\* is a result.
ReplyOf(m, ck, process, frame, c, rows, labels) ==
    /\ process = "calling" => ck.next \in {"begin", "continue"}
    /\ frame # NoFrame =>
           /\ process = "calling"
           /\ ck.next = "begin" =>
                  /\ frame.kind = "input"
                  /\ frame.token \in Tokens
                  /\ frame.form = Form
           /\ ck.next = "continue" =>
                  /\ frame.kind = "terminal"
                  /\ frame.token = NoToken
                  /\ Reports(m, c, rows, labels, frame.result)

\* A request carries the durable answer of its thread's round; the one of the
\* current attempt is awaited.
RequestOf(r, ck, process, frame, cut, c) ==
    /\ r.attempt <= cut
    /\ r.token # NoToken =>
           /\ Consents(c)
           /\ r.token = c.frame.token
           /\ r.answers = c.answers
    /\ r.attempt = cut =>
           /\ process = "calling"
           /\ frame = NoFrame
           /\ r.token = NoToken <=> ck.next = "begin"

\* The tokens in a thread's checkpoint, reply and consent.
Holds(ck, frame, c, tok) ==
    \/ tok = frame.token
    \/ tok = ck.frame.token
    \/ Consents(c) /\ tok = c.frame.token

Consenting == \A t \in Threads : ConsentOf(ckpt[t], consent[t], shown[t])
Reporting(m) ==
    \A t \in Threads : ReportOf(m, ckpt[t], consent[t], rounds, effects)
Receiving(m) ==
    \A t \in Threads :
        ReplyOf(m, ckpt[t], run[t], inbox[t], consent[t], rounds, effects)
Requesting ==
    \A r \in requests :
        /\ RequestOf(r, ckpt[r.thread], run[r.thread], inbox[r.thread],
                     aborts[r.thread], consent[r.thread])
        /\ \A s \in requests :
               /\ s.thread = r.thread /\ s.attempt = r.attempt
               /\ r.attempt = aborts[r.thread]
               => s = r

\* A token that a thread holds was issued, and to that thread only.
Owning ==
    \A t \in Threads, tok \in Tokens :
        Holds(ckpt[t], inbox[t], consent[t], tok) =>
            /\ rounds[tok].issued
            /\ \A u \in Threads :
                   Holds(ckpt[u], inbox[u], consent[u], tok) => u = t

\* Rounds are issued for the fixture's arguments, and bound by the thread that
\* owns them, with the accepting answer in its checkpoint.
Settling ==
    \A tok \in Tokens :
        /\ rounds[tok].issued => rounds[tok].arguments = ARGS
        /\ rounds[tok].binding # None =>
               \E t \in Threads :
                   /\ AcceptsForm(consent[t])
                   /\ consent[t].frame.token = tok
                   /\ rounds[tok].binding = OwnBinding(consent[t])

\* The parts of the invariant that relate clients to the store.
Parts(m) ==
    /\ Consenting /\ Reporting(m) /\ Receiving(m) /\ Requesting
    /\ Owning /\ Settling

IInv(m) == storeMode = m /\ TypeOK /\ StoreInv(m) /\ Parts(m)

ClientTyped == ClientTypeOK(Tokens, Arguments, Results)

\* The initial states satisfy the invariant.
LEMMA InitIInv ==
    ASSUME NEW m \in MODES, Init, storeMode = m
    PROVE  IInv(m)
<1>1. StoreInv(m)
  BY StoreInitInv, CommitGapAssumption DEF Init
<1>2. NoAnswers \in AnswerMaps
  BY DEF AnswerMaps
<1>3. ClientTypeOK(Tokens, Arguments, Results)
  BY <1>2 DEF Init, ClientInit, ClientTypeOK, Checkpoints, NewThread, NoForm,
     NoConsent, NoFrame, Frames
<1>4. TypeOK
  BY <1>1, <1>3 DEF TypeOK, StoreInv, Init
<1>5. \A tok \in Tokens : rounds[tok].binding = None /\ ~ rounds[tok].issued
  BY DEF Init, StoreInit, Unissued
<1>6. /\ \A t \in Threads : /\ ckpt[t] = NewThread /\ consent[t] = NoConsent
                            /\ shown[t] = NoForm /\ inbox[t] = NoFrame
                            /\ run[t] = "stopped"
      /\ requests = {}
  BY DEF Init, ClientInit
<1>7. Consenting /\ Reporting(m) /\ Receiving(m) /\ Requesting
  BY <1>6 DEF Consenting, Reporting, Receiving, Requesting, ConsentOf,
     ReportOf, ReplyOf, Consents, NewThread
<1>8. \A t \in Threads, tok \in Tokens :
          ~ Holds(ckpt[t], inbox[t], consent[t], tok)
  BY <1>6, CommitGapAssumption DEF Holds, Consents, NewThread, NoFrame
<1>9. Owning /\ Settling
  BY <1>5, <1>8 DEF Owning, Settling
<1> QED
  BY <1>1, <1>4, <1>7, <1>9 DEF IInv, Parts

\* The frames that the server builds are typed.
LEMMA TypedFrames ==
    /\ NoFrame \in Frames(Tokens, Arguments, Results)
    /\ NoAnswers \in AnswerMaps
    /\ \A tok \in Tokens :
           InputFrame(tok, Form) \in Frames(Tokens, Arguments, Results)
    /\ \A result \in Results :
           TerminalFrame(result) \in Frames(Tokens, Arguments, Results)
BY CommitGapAssumption DEF NoFrame, Frames, AnswerMaps, InputFrame,
   TerminalFrame, Form, NoForm

\* The client's steps keep the types.
LEMMA ClientTypes ==
    ASSUME ClientTyped, NEW t \in Threads, Client(t)
    PROVE  ClientTyped'
<1> USE DEF ClientTyped
<1> USE TypedFrames
<1>1. CASE Invoke(t)
  BY <1>1 DEF Invoke, ClientTypeOK
<1>2. ASSUME NEW tok \in Tokens \cup {NoToken}, NEW answers \in AnswerMaps,
             CallTool(t, tok, answers)
      PROVE  ClientTyped'
  BY <1>2 DEF CallTool, ClientTypeOK
<1>3. CASE BeginCall(t)
  BY <1>2, <1>3 DEF BeginCall
<1>4. CASE ContinueCall(t)
  <2>1. /\ ckpt[t].frame.token \in Tokens \cup {NoToken}
        /\ ckpt[t].answers \in AnswerMaps
    BY DEF ClientTypeOK, Checkpoints, Frames
  <2> QED
    BY <1>2, <1>4, <2>1 DEF ContinueCall
<1>5. ASSUME NEW n \in Nat, Received(t, n) PROVE ClientTyped'
  <2> DEFINE c == [ckpt[t] EXCEPT
                       !.frame = inbox[t], !.answers = NoAnswers,
                       !.roundIndex = n, !.status = "received",
                       !.next = IF inbox[t].kind = "input" THEN "review"
                                ELSE "finish"]
  <2>1. /\ ckpt[t] \in Checkpoints(Tokens, Arguments, Results)
        /\ inbox[t] \in Frames(Tokens, Arguments, Results)
    BY DEF ClientTypeOK
  <2>2. c \in Checkpoints(Tokens, Arguments, Results)
    BY <1>5, <2>1 DEF Checkpoints
  <2>3. ckpt' = [ckpt EXCEPT ![t] = c]
    BY <1>5, <2>1 DEF Received, ClientTypeOK, Checkpoints
  <2> QED
    BY <1>5, <2>2, <2>3 DEF Received, ClientTypeOK
<1>6. CASE BeginReturns(t)
  BY <1>5, <1>6 DEF BeginReturns
<1>7. CASE ContinueReturns(t)
  <2>1. ckpt[t].roundIndex \in Nat
    BY DEF ClientTypeOK, Checkpoints
  <2> QED
    BY <1>5, <1>7, <2>1 DEF ContinueReturns
<1>8. CASE Review(t)
  <2>1. ckpt[t].frame.form \in [keys : SUBSET Keys,
                                subject : Arguments \cup {None}]
    BY DEF ClientTypeOK, Checkpoints, Frames
  <2> QED
    BY <1>8, <2>1 DEF Review, ClientTypeOK
<1>9. CASE RoundLimit(t)
  BY <1>9 DEF RoundLimit, ClientTypeOK
<1>10. CASE Resume(t)
  <2>1. PICK answers \in Resumes :
           /\ ckpt' = [ckpt EXCEPT ![t].answers = answers,
                                   ![t].status = "answered",
                                   ![t].next = "continue"]
           /\ consent' = [consent EXCEPT ![t] =
                  [form |-> shown[t], frame |-> ckpt[t].frame,
                   answers |-> answers]]
    BY <1>10 DEF Resume
  <2>2. answers \in AnswerMaps
    BY CommitGapAssumption
  <2> QED
    BY <1>10, <2>1, <2>2 DEF Resume, ClientTypeOK, Checkpoints
<1>11. CASE Finish(t)
  <2> DEFINE c == [ckpt[t] EXCEPT
                       !.result = ckpt[t].frame.result,
                       !.status = IF ckpt[t].frame.result.isError
                                  THEN "tool_error" ELSE "completed",
                       !.next = "end"]
  <2>1. /\ ckpt[t] \in Checkpoints(Tokens, Arguments, Results)
        /\ ckpt[t].frame.result \in Results \cup {None}
    BY DEF ClientTypeOK, Checkpoints, Frames
  <2>2. c \in Checkpoints(Tokens, Arguments, Results)
    BY <2>1 DEF Checkpoints
  <2>3. ckpt' = [ckpt EXCEPT ![t] = c]
    BY <1>11, <2>1 DEF Finish, ClientTypeOK, Checkpoints
  <2> QED
    BY <1>11, <2>2, <2>3 DEF Finish, ClientTypeOK
<1>12. CASE Abort(t)
  BY <1>12 DEF Abort, ClientTypeOK
<1> QED
  BY <1>1, <1>3, <1>4, <1>6, <1>7, <1>8, <1>9, <1>10, <1>11, <1>12
     DEF Client

\* So do the server's answers to it.
LEMMA DeliverTypes ==
    ASSUME ClientTyped, NEW r \in requests,
           NEW frame \in Frames(Tokens, Arguments, Results),
           Deliver(r, frame)
    PROVE  ClientTyped'
BY DEF ClientTyped, ClientTypeOK, Deliver

\* And a lost request.
LEMMA LoseTypes ==
    ASSUME ClientTyped, NEW r \in requests, Lose(r)
    PROVE  ClientTyped'
<1>1. r.thread \in Threads /\ aborts[r.thread] + 1 \in Nat
  BY DEF ClientTyped, ClientTypeOK
<1> QED
  BY <1>1 DEF ClientTyped, ClientTypeOK, Lose
-----------------------------------------------------------------------------
\* A step that leaves the tables alone keeps the store's invariant.
LEMMA StoreSame ==
    ASSUME NEW m \in MODES, IInv(m), UNCHANGED storeVars
    PROVE  StoreInv(m)'
BY DEF IInv, storeVars, StoreInv, StoreTypeOK, BoundIsIssued, BoundHasEffect,
   EffectIsBound, OneEffect, ReceiptsComplete, ReceiptOf, NoReceipts,
   EffectsOf, Bound

\* What the invariant gives for one thread.
LEMMA ThreadFacts ==
    ASSUME NEW m \in MODES, IInv(m), NEW t \in Threads
    PROVE  /\ ckpt[t] \in Checkpoints(Tokens, Arguments, Results)
           /\ inbox[t] \in Frames(Tokens, Arguments, Results)
           /\ aborts[t] \in Nat
           /\ consent[t].answers \in AnswerMaps
           /\ run[t] # "calling" => inbox[t] = NoFrame
           /\ ConsentOf(ckpt[t], consent[t], shown[t])
           /\ ReportOf(m, ckpt[t], consent[t], rounds, effects)
           /\ ReplyOf(m, ckpt[t], run[t], inbox[t], consent[t], rounds,
                      effects)
<1>1. ClientTyped
  BY DEF IInv, TypeOK, ClientTyped
<1>2. ReplyOf(m, ckpt[t], run[t], inbox[t], consent[t], rounds, effects)
  BY DEF IInv, Parts, Receiving
<1>3. /\ ConsentOf(ckpt[t], consent[t], shown[t])
      /\ ReportOf(m, ckpt[t], consent[t], rounds, effects)
  BY DEF IInv, Parts, Consenting, Reporting
<1>4. run[t] # "calling" => inbox[t] = NoFrame
  BY <1>2 DEF ReplyOf
<1> QED
  BY <1>1, <1>2, <1>3, <1>4 DEF ClientTyped, ClientTypeOK

\* What the invariant gives for one request.
LEMMA RequestFacts ==
    ASSUME NEW m \in MODES, IInv(m), NEW r \in requests
    PROVE  /\ r.thread \in Threads /\ r.attempt \in Nat
           /\ r.token \in Tokens \cup {NoToken}
           /\ RequestOf(r, ckpt[r.thread], run[r.thread], inbox[r.thread],
                        aborts[r.thread], consent[r.thread])
BY DEF IInv, TypeOK, ClientTypeOK, Parts, Requesting

\* Client steps that change neither a checkpoint nor a consent nor the tables,
\* and send nothing: the process stops awaiting, or a form is shown.
LEMMA QuietStep ==
    ASSUME NEW m \in MODES, IInv(m), UNCHANGED storeVars,
           NEW t \in Threads,
           UNCHANGED <<ckpt, consent>>, requests' \subseteq requests,
           \A u \in Threads \ {t} :
               /\ run'[u] = run[u] /\ shown'[u] = shown[u]
               /\ aborts'[u] = aborts[u] /\ inbox'[u] = inbox[u],
           run'[t] # "calling", inbox'[t] = NoFrame,
           shown'[t] \in {NoForm, Form},
           \/ aborts'[t] = aborts[t] + 1
           \/ run[t] # "calling" /\ aborts'[t] = aborts[t]
    PROVE  Parts(m)'
<1>1. rounds' = rounds /\ effects' = effects
  BY DEF storeVars
<1>2. Consenting'
  BY ThreadFacts DEF Consenting, ConsentOf
<1>3. Reporting(m)'
  BY <1>1, ThreadFacts DEF Reporting
<1>4. Receiving(m)'
  <2> SUFFICES ASSUME NEW u \in Threads
               PROVE  ReplyOf(m, ckpt[u], run'[u], inbox'[u], consent[u],
                              rounds, effects)
    BY <1>1 DEF Receiving
  <2>1. CASE u # t
    BY <2>1, ThreadFacts
  <2>2. CASE u = t
    BY <2>2 DEF ReplyOf
  <2> QED
    BY <2>1, <2>2
<1>5. Requesting'
  <2>1. ASSUME NEW r \in requests, r.thread = t
        PROVE  /\ r.attempt <= aborts'[t] /\ r.attempt # aborts'[t]
    BY <2>1, RequestFacts, ThreadFacts DEF RequestOf
  <2>2. ASSUME NEW r \in requests
        PROVE  RequestOf(r, ckpt[r.thread], run'[r.thread], inbox'[r.thread],
                         aborts'[r.thread], consent[r.thread])
    <3>1. CASE r.thread # t
      BY <3>1, RequestFacts
    <3>2. CASE r.thread = t
      BY <2>1, <3>2, RequestFacts DEF RequestOf
    <3> QED
      BY <3>1, <3>2
  <2>3. \A r \in requests : r.attempt = aborts'[r.thread] =>
            r.thread # t /\ r.attempt = aborts[r.thread]
    BY <2>1, RequestFacts
  <2> QED
    BY <2>2, <2>3 DEF IInv, Parts, Requesting
<1>6. Owning'
  <2>1. \A u \in Threads : inbox'[u] \in {inbox[u], NoFrame}
    OBVIOUS
  <2>2. \A u \in Threads, tok \in Tokens :
            Holds(ckpt[u], inbox'[u], consent[u], tok)
            => Holds(ckpt[u], inbox[u], consent[u], tok)
    BY <2>1, CommitGapAssumption DEF Holds, NoFrame
  <2> QED
    BY <1>1, <2>2 DEF IInv, Parts, Owning
<1>7. Settling'
  BY <1>1 DEF IInv, Parts, Settling
<1> QED
  BY <1>2, <1>3, <1>4, <1>5, <1>6, <1>7 DEF Parts

\* A call is sent when none of the thread's current attempt is under way.
LEMMA CallToolParts ==
    ASSUME NEW m \in MODES, IInv(m), UNCHANGED storeVars,
           NEW t \in Threads,
           NEW tok \in Tokens \cup {NoToken}, NEW answers,
           CallTool(t, tok, answers), run[t] = "running",
           ckpt[t].next \in {"begin", "continue"},
           tok = NoToken <=> ckpt[t].next = "begin",
           tok # NoToken => /\ Consents(consent[t])
                            /\ tok = consent[t].frame.token
                            /\ answers = consent[t].answers
    PROVE  Parts(m)'
<1> DEFINE new == [thread |-> t, attempt |-> aborts[t], token |-> tok,
                   answers |-> answers]
<1>1. /\ requests' = requests \cup {new}
      /\ run'[t] = "calling" /\ \A u \in Threads \ {t} : run'[u] = run[u]
      /\ UNCHANGED <<ckpt, shown, consent, aborts, inbox>>
      /\ rounds' = rounds /\ effects' = effects
  BY DEF CallTool, storeVars, IInv, TypeOK, ClientTypeOK
<1>2. Consenting' /\ Reporting(m)' /\ Owning' /\ Settling'
  BY <1>1 DEF IInv, Parts, Consenting, Reporting, Owning, Settling
<1>3. inbox[t] = NoFrame /\ aborts[t] \in Nat
  BY ThreadFacts
<1>4. Receiving(m)'
  <2> SUFFICES ASSUME NEW u \in Threads
               PROVE  ReplyOf(m, ckpt[u], run'[u], inbox[u], consent[u],
                              rounds, effects)
    BY <1>1 DEF Receiving
  <2>1. CASE u # t
    BY <1>1, <2>1, ThreadFacts
  <2>2. CASE u = t
    BY <1>3, <2>2 DEF ReplyOf
  <2> QED
    BY <2>1, <2>2
<1>5. \A r \in requests : r.thread = t => r.attempt # aborts[t]
  BY RequestFacts DEF RequestOf
<1>6. Requesting'
  <2>1. RequestOf(new, ckpt[t], run'[t], inbox[t], aborts[t], consent[t])
    BY <1>1, <1>3 DEF RequestOf
  <2>2. ASSUME NEW r \in requests
        PROVE  RequestOf(r, ckpt[r.thread], run'[r.thread], inbox[r.thread],
                         aborts[r.thread], consent[r.thread])
    <3>1. CASE r.thread # t
      BY <1>1, <3>1, RequestFacts
    <3>2. CASE r.thread = t
      BY <1>5, <3>2, RequestFacts DEF RequestOf
    <3> QED
      BY <3>1, <3>2
  <2>3. ASSUME NEW r \in requests', NEW s \in requests',
               s.thread = r.thread, s.attempt = r.attempt,
               r.attempt = aborts[r.thread]
        PROVE  s = r
    BY <1>1, <1>5, <2>3 DEF IInv, Parts, Requesting
  <2> QED
    BY <1>1, <2>1, <2>2, <2>3 DEF Requesting
<1> QED
  BY <1>2, <1>4, <1>6 DEF Parts

\* A reply is checkpointed, as a form to review or as a result to finish with.
LEMMA ReceivedParts ==
    ASSUME NEW m \in MODES, IInv(m), UNCHANGED storeVars,
           NEW t \in Threads, NEW n,
           Received(t, n)
    PROVE  Parts(m)'
<1> DEFINE next == IF inbox[t].kind = "input" THEN "review" ELSE "finish"
<1>1. /\ ckpt'[t].frame = inbox[t] /\ ckpt'[t].next = next
      /\ ckpt'[t].status = "received"
      /\ \A u \in Threads \ {t} : ckpt'[u] = ckpt[u]
  BY ThreadFacts DEF Received, Checkpoints, IInv, TypeOK, ClientTypeOK
<1>2. /\ run[t] = "calling" /\ inbox[t] # NoFrame
      /\ run'[t] = "running" /\ inbox'[t] = NoFrame
      /\ \A u \in Threads \ {t} : run'[u] = run[u] /\ inbox'[u] = inbox[u]
      /\ UNCHANGED <<shown, consent, aborts, requests>>
      /\ rounds' = rounds /\ effects' = effects
  BY DEF Received, storeVars, IInv, TypeOK, ClientTypeOK
<1>3. /\ ConsentOf(ckpt'[t], consent[t], shown[t])
      /\ ReportOf(m, ckpt'[t], consent[t], rounds, effects)
  <2>1. /\ ckpt[t].next \in {"begin", "continue"}
        /\ ReplyOf(m, ckpt[t], run[t], inbox[t], consent[t], rounds, effects)
        /\ ConsentOf(ckpt[t], consent[t], shown[t])
    BY <1>2, ThreadFacts DEF ReplyOf
  <2>2. CASE ckpt[t].next = "begin"
    <3>1. next = "review" /\ inbox[t].form = Form /\ inbox[t].token \in Tokens
      BY <1>2, <2>1, <2>2 DEF ReplyOf
    <3> QED
      BY <1>1, <2>1, <2>2, <3>1 DEF ConsentOf, ReportOf
  <2>3. CASE ckpt[t].next = "continue"
    <3>1. next = "finish" /\ Reports(m, consent[t], rounds, effects,
                                     inbox[t].result)
      BY <1>2, <2>1, <2>3 DEF ReplyOf
    <3> QED
      BY <1>1, <2>1, <2>3, <3>1 DEF ConsentOf, ReportOf
  <2> QED
    BY <2>1, <2>2, <2>3
<1>4. Consenting' /\ Reporting(m)'
  BY <1>1, <1>2, <1>3, ThreadFacts DEF Consenting, Reporting
<1>5. Receiving(m)'
  <2>1. ReplyOf(m, ckpt'[t], run'[t], inbox'[t], consent[t], rounds, effects)
    BY <1>2 DEF ReplyOf
  <2> QED
    BY <1>1, <1>2, <2>1, ThreadFacts DEF Receiving
<1>6. Requesting'
  <2>1. ASSUME NEW r \in requests
        PROVE  RequestOf(r, ckpt'[r.thread], run'[r.thread],
                         inbox'[r.thread], aborts[r.thread],
                         consent[r.thread])
    <3>1. CASE r.thread # t
      BY <1>1, <1>2, <3>1, RequestFacts
    <3>2. CASE r.thread = t
      BY <1>2, <3>2, RequestFacts DEF RequestOf
    <3> QED
      BY <3>1, <3>2
  <2> QED
    BY <1>2, <2>1 DEF IInv, Parts, Requesting
<1>7. Owning'
  <2>1. \A u \in Threads, tok \in Tokens :
            Holds(ckpt'[u], inbox'[u], consent[u], tok)
            => Holds(ckpt[u], inbox[u], consent[u], tok)
    BY <1>1, <1>2, CommitGapAssumption DEF Holds, NoFrame
  <2> QED
    BY <1>2, <2>1 DEF IInv, Parts, Owning
<1>8. Settling'
  BY <1>2 DEF IInv, Parts, Settling
<1> QED
  BY <1>4, <1>5, <1>6, <1>7, <1>8 DEF Parts

\* An accepted resume makes the thread's one answer durable.
LEMMA ResumeParts ==
    ASSUME NEW m \in MODES, IInv(m), UNCHANGED storeVars,
           NEW t \in Threads, Resume(t)
    PROVE  Parts(m)'
<1>1. PICK answers \in Resumes :
          /\ ckpt' = [ckpt EXCEPT ![t].answers = answers,
                                  ![t].status = "answered",
                                  ![t].next = "continue"]
          /\ consent' = [consent EXCEPT ![t] =
                 [form |-> shown[t], frame |-> ckpt[t].frame,
                  answers |-> answers]]
  BY DEF Resume
<1>2. /\ run[t] = "stopped" /\ ckpt[t].next = "review" /\ shown[t] # NoForm
      /\ run'[t] = "running" /\ \A u \in Threads \ {t} : run'[u] = run[u]
      /\ UNCHANGED <<shown, aborts, requests, inbox>>
      /\ rounds' = rounds /\ effects' = effects
  BY DEF Resume, storeVars, IInv, TypeOK, ClientTypeOK
<1>3. /\ ckpt'[t].frame = ckpt[t].frame /\ ckpt'[t].next = "continue"
      /\ ckpt'[t].status = "answered" /\ ckpt'[t].answers = answers
      /\ \A u \in Threads \ {t} : ckpt'[u] = ckpt[u]
  BY <1>1, ThreadFacts DEF Checkpoints, IInv, TypeOK, ClientTypeOK
<1>4. /\ consent'[t] = [form |-> shown[t], frame |-> ckpt[t].frame,
                        answers |-> answers]
      /\ \A u \in Threads \ {t} : consent'[u] = consent[u]
  BY <1>1 DEF IInv, TypeOK, ClientTypeOK
<1>5. /\ ~ Consents(consent[t]) /\ ckpt[t].frame.token \in Tokens
      /\ shown[t] = Form /\ inbox[t] = NoFrame
  BY <1>2, ThreadFacts DEF ConsentOf
<1>6. /\ Consents(consent'[t])
      /\ consent'[t].frame.token = ckpt[t].frame.token
  <2>1. NoConsent.frame.token \notin Tokens
    BY CommitGapAssumption DEF NoConsent, NoFrame
  <2> QED
    BY <1>4, <1>5, <2>1 DEF Consents
<1>7. Consenting'
  <2>1. ConsentOf(ckpt'[t], consent'[t], shown[t])
    BY <1>3, <1>4, <1>5, <1>6 DEF ConsentOf
  <2> QED
    BY <1>2, <1>3, <1>4, <2>1, ThreadFacts DEF Consenting
<1>8. Reporting(m)'
  <2>1. ReportOf(m, ckpt'[t], consent'[t], rounds, effects)
    BY <1>3 DEF ReportOf
  <2> QED
    BY <1>2, <1>3, <1>4, <2>1, ThreadFacts DEF Reporting
<1>9. Receiving(m)'
  <2>1. ReplyOf(m, ckpt'[t], run'[t], inbox[t], consent'[t], rounds, effects)
    BY <1>2, <1>5 DEF ReplyOf
  <2> QED
    BY <1>2, <1>3, <1>4, <2>1, ThreadFacts DEF Receiving
<1>10. Requesting'
  <2>1. ASSUME NEW r \in requests
        PROVE  RequestOf(r, ckpt'[r.thread], run'[r.thread], inbox[r.thread],
                         aborts[r.thread], consent'[r.thread])
    <3>1. CASE r.thread # t
      BY <1>2, <1>3, <1>4, <3>1, RequestFacts
    <3>2. CASE r.thread = t
      BY <1>2, <1>5, <3>2, RequestFacts DEF RequestOf
    <3> QED
      BY <3>1, <3>2
  <2> QED
    BY <1>2, <2>1 DEF IInv, Parts, Requesting
<1>11. Owning'
  <2>1. \A u \in Threads, tok \in Tokens :
            Holds(ckpt'[u], inbox[u], consent'[u], tok)
            => Holds(ckpt[u], inbox[u], consent[u], tok)
    BY <1>3, <1>4, <1>6 DEF Holds
  <2> QED
    BY <1>2, <2>1 DEF IInv, Parts, Owning
<1>12. Settling'
  <2>1. \A u \in Threads : AcceptsForm(consent[u]) => consent'[u] = consent[u]
    BY <1>4, <1>5 DEF AcceptsForm
  <2> QED
    BY <1>2, <2>1 DEF IInv, Parts, Settling
<1> QED
  BY <1>7, <1>8, <1>9, <1>10, <1>11, <1>12 DEF Parts

\* finish reports what the thread received.
LEMMA FinishParts ==
    ASSUME NEW m \in MODES, IInv(m), UNCHANGED storeVars,
           NEW t \in Threads, Finish(t)
    PROVE  Parts(m)'
<1>1. /\ run[t] = "running" /\ ckpt[t].next = "finish"
      /\ run'[t] = "stopped" /\ \A u \in Threads \ {t} : run'[u] = run[u]
      /\ UNCHANGED <<shown, consent, aborts, requests, inbox>>
      /\ rounds' = rounds /\ effects' = effects
  BY DEF Finish, storeVars, IInv, TypeOK, ClientTypeOK
<1>2. /\ ckpt'[t].frame = ckpt[t].frame /\ ckpt'[t].next = "end"
      /\ ckpt'[t].result = ckpt[t].frame.result
      /\ ckpt'[t].status = IF ckpt[t].frame.result.isError
                           THEN "tool_error" ELSE "completed"
      /\ \A u \in Threads \ {t} : ckpt'[u] = ckpt[u]
  BY ThreadFacts DEF Finish, Checkpoints, IInv, TypeOK, ClientTypeOK
<1>3. inbox[t] = NoFrame
  BY <1>1, ThreadFacts
<1>4. Consenting'
  <2>1. ConsentOf(ckpt'[t], consent[t], shown[t])
    BY <1>1, <1>2, ThreadFacts DEF ConsentOf
  <2> QED
    BY <1>1, <1>2, <2>1, ThreadFacts DEF Consenting
<1>5. Reporting(m)'
  <2>1. ReportOf(m, ckpt'[t], consent[t], rounds, effects)
    BY <1>1, <1>2, ThreadFacts DEF ReportOf
  <2> QED
    BY <1>1, <1>2, <2>1, ThreadFacts DEF Reporting
<1>6. Receiving(m)'
  <2>1. ReplyOf(m, ckpt'[t], run'[t], inbox[t], consent[t], rounds, effects)
    BY <1>1, <1>3 DEF ReplyOf
  <2> QED
    BY <1>1, <1>2, <2>1, ThreadFacts DEF Receiving
<1>7. Requesting'
  <2>1. ASSUME NEW r \in requests
        PROVE  RequestOf(r, ckpt'[r.thread], run'[r.thread], inbox[r.thread],
                         aborts[r.thread], consent[r.thread])
    <3>1. CASE r.thread # t
      BY <1>1, <1>2, <3>1, RequestFacts
    <3>2. CASE r.thread = t
      BY <1>1, <3>2, RequestFacts DEF RequestOf
    <3> QED
      BY <3>1, <3>2
  <2> QED
    BY <1>1, <2>1 DEF IInv, Parts, Requesting
<1>8. Owning'
  <2>1. \A u \in Threads : ckpt'[u].frame = ckpt[u].frame
    BY <1>2
  <2>2. \A u \in Threads, tok \in Tokens :
            Holds(ckpt'[u], inbox[u], consent[u], tok)
            <=> Holds(ckpt[u], inbox[u], consent[u], tok)
    BY <2>1 DEF Holds
  <2> QED
    BY <1>1, <2>2 DEF IInv, Parts, Owning
<1>9. Settling'
  BY <1>1 DEF IInv, Parts, Settling
<1> QED
  BY <1>4, <1>5, <1>6, <1>7, <1>8, <1>9 DEF Parts

\* The client's steps preserve the invariant.
LEMMA ClientStepIInv ==
    ASSUME NEW m \in MODES, IInv(m),
           UNCHANGED <<storeVars, storeMode>>, NEW t \in Threads, Client(t)
    PROVE  IInv(m)'
<1>1. /\ \A u \in Threads : shown[u] \in {NoForm, Form}
      /\ run[t] # "calling" => inbox[t] = NoFrame
  BY ThreadFacts DEF ConsentOf
<1>2. /\ Threads = DOMAIN run /\ Threads = DOMAIN inbox
      /\ Threads = DOMAIN shown /\ Threads = DOMAIN aborts
  BY DEF IInv, TypeOK, ClientTypeOK
<1>3. ASSUME Invoke(t) \/ Review(t) \/ RoundLimit(t) \/ Abort(t)
      PROVE  Parts(m)'
  <2>1. Review(t) => ckpt[t].frame.form = Form
    BY ThreadFacts DEF Review, ConsentOf
  <2>2. /\ run' = [run EXCEPT ![t] = run'[t]] /\ run'[t] # "calling"
        /\ shown' = [shown EXCEPT ![t] = shown'[t]]
        /\ shown'[t] \in {NoForm, Form}
        /\ UNCHANGED <<ckpt, consent, requests>>
    BY <1>1, <1>2, <1>3, <2>1, ThreadFacts
       DEF Invoke, Review, RoundLimit, Abort, IInv, TypeOK, ClientTypeOK
  <2>3. /\ inbox' = [inbox EXCEPT ![t] = NoFrame]
        /\ aborts' = [aborts EXCEPT ![t] = aborts'[t]]
        /\ \/ aborts'[t] = aborts[t] + 1
           \/ run[t] # "calling" /\ aborts'[t] = aborts[t]
    BY <1>1, <1>2, <1>3
       DEF Invoke, Review, RoundLimit, Abort, IInv, TypeOK, ClientTypeOK
  <2> QED
    BY <1>2, <2>2, <2>3, QuietStep
<1>4. ASSUME BeginCall(t) PROVE Parts(m)'
  BY <1>4, CallToolParts DEF BeginCall
<1>5. ASSUME ContinueCall(t) PROVE Parts(m)'
  <2>1. /\ Consents(consent[t]) /\ ckpt[t].frame.token \in Tokens
        /\ consent[t].frame.token = ckpt[t].frame.token
        /\ ckpt[t].answers = consent[t].answers
    BY <1>5, ThreadFacts DEF ContinueCall, ConsentOf
  <2> QED
    BY <1>5, <2>1, CallToolParts, CommitGapAssumption DEF ContinueCall
<1>6. ASSUME BeginReturns(t) \/ ContinueReturns(t) PROVE Parts(m)'
  BY <1>6, ReceivedParts DEF BeginReturns, ContinueReturns
<1>7. Parts(m)'
  BY <1>3, <1>4, <1>5, <1>6, ResumeParts, FinishParts DEF Client
<1>8. ClientTyped'
  BY ClientTypes DEF IInv, TypeOK, ClientTyped
<1> QED
  BY <1>7, <1>8, StoreSame DEF IInv, TypeOK, ClientTyped, StoreInv
-----------------------------------------------------------------------------
\* A lost request: nobody awaits it, or the process that does gets an error.
LEMMA LoseStep ==
    ASSUME NEW m \in MODES, IInv(m),
           UNCHANGED <<storeVars, storeMode>>, NEW r \in requests, Lose(r)
    PROVE  IInv(m)'
<1> DEFINE t == r.thread
<1>1. t \in Threads /\ aborts[t] \in Nat
  BY RequestFacts, ThreadFacts
<1>2. ClientTyped'
  BY LoseTypes DEF IInv, TypeOK, ClientTyped
<1>3. ASSUME Awaited(r) PROVE Parts(m)'
  <2>1. /\ run' = [run EXCEPT ![t] = "stopped"]
        /\ aborts' = [aborts EXCEPT ![t] = @ + 1]
        /\ requests' = requests \ {r} /\ inbox[t] = NoFrame
        /\ UNCHANGED <<ckpt, shown, consent, inbox>>
    BY <1>3 DEF Lose, Awaited
  <2>2. shown[t] \in {NoForm, Form}
    BY <1>1, ThreadFacts DEF ConsentOf
  <2>3. /\ run'[t] = "stopped" /\ aborts'[t] = aborts[t] + 1
        /\ \A u \in Threads \ {t} : run'[u] = run[u] /\ aborts'[u] = aborts[u]
    BY <1>1, <2>1 DEF IInv, TypeOK, ClientTypeOK
  <2> QED
    BY <1>1, <2>1, <2>2, <2>3, QuietStep
<1>4. ASSUME ~ Awaited(r) PROVE Parts(m)'
  <2>1. /\ requests' = requests \ {r}
        /\ UNCHANGED <<ckpt, run, shown, consent, aborts, inbox>>
        /\ rounds' = rounds /\ effects' = effects
    BY <1>4 DEF Lose, storeVars
  <2>2. Requesting'
    BY <2>1 DEF IInv, Parts, Requesting
  <2> QED
    BY <2>1, <2>2 DEF IInv, Parts, Consenting, Reporting, Receiving, Owning,
       Settling
<1> QED
  BY <1>2, <1>3, <1>4, StoreSame DEF IInv, TypeOK, ClientTyped, StoreInv

\* The tables lose nothing that a thread may have been told of.
Grows ==
    /\ \A tok \in Tokens :
           rounds[tok].binding # None => rounds'[tok] = rounds[tok]
    /\ \A i \in DOMAIN effects :
           i \in DOMAIN effects' /\ effects'[i] = effects[i]

\* What a thread has been told stays true while the tables grow.
LEMMA ReportsGrow ==
    ASSUME NEW m \in MODES, IInv(m), Grows, NEW t \in Threads
    PROVE  /\ \A result : Reports(m, consent[t], rounds, effects, result)
                          => Reports(m, consent[t], rounds', effects', result)
           /\ ReportOf(m, ckpt[t], consent[t], rounds', effects')
           /\ ReplyOf(m, ckpt[t], run[t], inbox[t], consent[t], rounds',
                      effects')
<1>1. AcceptsForm(consent[t]) => consent[t].frame.token \in Tokens
  BY ThreadFacts DEF AcceptsForm, ConsentOf
<1>2. \A result : Reports(m, consent[t], rounds, effects, result)
                  => Reports(m, consent[t], rounds', effects', result)
  BY <1>1 DEF Grows, Reports
<1>3. ReportOf(m, ckpt[t], consent[t], rounds', effects')
  BY <1>2, ThreadFacts DEF ReportOf
<1>4. ReplyOf(m, ckpt[t], run[t], inbox[t], consent[t], rounds', effects')
  BY <1>2, ThreadFacts DEF ReplyOf
<1> QED
  BY <1>2, <1>3, <1>4

\* A delivered frame suits the thread that awaits it.
LEMMA DeliverParts ==
    ASSUME NEW m \in MODES, IInv(m), Grows, NEW r \in requests, NEW frame,
           Deliver(r, frame),
           Awaited(r) => ReplyOf(m, ckpt[r.thread], "calling", frame,
                                 consent[r.thread], rounds', effects')
    PROVE  Consenting' /\ Reporting(m)' /\ Receiving(m)' /\ Requesting'
<1> DEFINE t == r.thread
<1>1. /\ requests' = requests \ {r}
      /\ UNCHANGED <<ckpt, run, shown, consent, aborts>>
      /\ inbox' = IF Awaited(r) THEN [inbox EXCEPT ![t] = frame] ELSE inbox
  BY DEF Deliver
<1>2. t \in Threads /\ r.attempt = aborts[t] => Awaited(r)
  BY RequestFacts DEF RequestOf, Awaited
<1>3. \A u \in Threads : u # t \/ ~ Awaited(r) => inbox'[u] = inbox[u]
  BY <1>1
<1>4. Consenting'
  BY <1>1 DEF IInv, Parts, Consenting
<1>5. Reporting(m)'
  BY <1>1, ReportsGrow DEF Reporting
<1>6. Receiving(m)'
  <2> SUFFICES ASSUME NEW u \in Threads
               PROVE  ReplyOf(m, ckpt[u], run[u], inbox'[u], consent[u],
                              rounds', effects')
    BY <1>1 DEF Receiving
  <2>1. CASE u # t \/ ~ Awaited(r)
    BY <1>3, <2>1, ReportsGrow
  <2>2. CASE u = t /\ Awaited(r)
    <3>1. inbox'[t] = frame /\ run[t] = "calling"
      BY <1>1, <2>2 DEF Awaited, IInv, TypeOK, ClientTypeOK
    <3> QED
      BY <2>2, <3>1
  <2> QED
    BY <2>1, <2>2
<1>7. Requesting'
  <2>1. ASSUME NEW s \in requests, s # r
        PROVE  RequestOf(s, ckpt[s.thread], run[s.thread], inbox'[s.thread],
                         aborts[s.thread], consent[s.thread])
    <3>1. CASE s.thread # t \/ ~ Awaited(r)
      BY <1>3, <3>1, RequestFacts
    <3>2. CASE s.thread = t /\ Awaited(r)
      <4>1. r.attempt = aborts[t]
        BY <3>2 DEF Awaited
      <4>2. s.attempt # aborts[t]
        BY <2>1, <3>2, <4>1 DEF IInv, Parts, Requesting
      <4> QED
        BY <3>2, <4>2, RequestFacts DEF RequestOf
    <3> QED
      BY <3>1, <3>2
  <2> QED
    BY <1>1, <2>1 DEF IInv, Parts, Requesting
<1> QED
  BY <1>4, <1>5, <1>6, <1>7

\* An initial call is issued a round of its own.
LEMMA ServeInitialStep ==
    ASSUME NEW m \in MODES, IInv(m), NEW r \in requests, ServeInitial(r)
    PROVE  IInv(m)'
<1> DEFINE t == r.thread
<1>1. PICK tok \in Tokens :
          Issue(ARGS, tok) /\ Deliver(r, InputFrame(tok, Form))
  BY DEF ServeInitial
<1>2. r.token = NoToken /\ t \in Threads
  BY RequestFacts DEF ServeInitial
<1>3. ClientTyped'
  BY <1>1, DeliverTypes, TypedFrames DEF IInv, TypeOK, ClientTyped
<1>4. /\ StoreInv(m)'
      /\ \A k \in Tokens : rounds[k].binding # None => rounds'[k] = rounds[k]
  BY <1>1, IssuePreserves, CommitGapAssumption DEF IInv, Bound
<1>5. /\ ~ rounds[tok].issued /\ rounds'[tok].issued
      /\ rounds'[tok].arguments = ARGS
      /\ rounds'[tok].binding = rounds[tok].binding
      /\ \A k \in Tokens \ {tok} : rounds'[k] = rounds[k]
      /\ effects' = effects
  BY <1>1 DEF Issue, IInv, TypeOK, StoreTypeOK, Rows
<1>6. Grows
  BY <1>4, <1>5 DEF Grows
<1>7. Awaited(r) => ReplyOf(m, ckpt[t], "calling", InputFrame(tok, Form),
                            consent[t], rounds', effects')
  <2>1. Awaited(r) => ckpt[t].next = "begin"
    BY <1>2, RequestFacts DEF Awaited, RequestOf
  <2> QED
    BY <2>1 DEF ReplyOf, InputFrame
<1>8. Consenting' /\ Reporting(m)' /\ Receiving(m)' /\ Requesting'
  BY <1>1, <1>6, <1>7, DeliverParts
<1>9. UNCHANGED <<ckpt, consent>>
  BY <1>1 DEF Deliver
<1>10. Owning'
  <2>1. \A u \in Threads, k \in Tokens :
            Holds(ckpt[u], inbox'[u], consent[u], k)
            => \/ Holds(ckpt[u], inbox[u], consent[u], k)
               \/ u = t /\ k = tok
    <3>1. \/ inbox' = inbox
          \/ inbox' = [inbox EXCEPT ![t] = InputFrame(tok, Form)]
      BY <1>1 DEF Deliver
    <3>2. /\ InputFrame(tok, Form).token = tok
          /\ t \in Threads /\ DOMAIN inbox = Threads
      BY <1>2 DEF InputFrame, IInv, TypeOK, ClientTypeOK
    <3>3. ASSUME NEW u \in Threads, u # t PROVE inbox'[u] = inbox[u]
      BY <3>1, <3>2, <3>3
    <3>4. inbox'[t] = inbox[t] \/ inbox'[t].token = tok
      BY <3>1, <3>2
    <3> QED
      BY <3>3, <3>4 DEF Holds
  <2>2. \A u \in Threads : ~ Holds(ckpt[u], inbox[u], consent[u], tok)
    BY <1>5 DEF IInv, Parts, Owning
  <2> QED
    BY <1>5, <1>9, <2>1, <2>2 DEF IInv, Parts, Owning
<1>11. Settling'
  BY <1>5, <1>9 DEF IInv, Parts, Settling
<1> QED
  BY <1>3, <1>4, <1>8, <1>10, <1>11
     DEF IInv, Parts, TypeOK, ClientTyped, StoreInv, ServeInitial

\* A continuation is never a mismatch: the token in it is its thread's own, and
\* whoever bound the round before was that thread, with the same answer.
LEMMA ContinuationKnown ==
    ASSUME NEW m \in MODES, IInv(m), NEW t \in Threads, NEW call \in Calls,
           Consents(consent[t]), call.name = "preview", call.arguments = ARGS,
           call.token = consent[t].frame.token,
           call.answers = consent[t].answers
    PROVE  /\ ~ Unknown(call) /\ ~ Mismatch(call)
           /\ rounds[call.token].arguments = ARGS
           /\ Bound(call.token) => AcceptsForm(consent[t])
           /\ Binding(call) = OwnBinding(consent[t])
<1> DEFINE c == consent[t]
           tok == c.frame.token
<1>1. /\ tok \in Tokens
      /\ rounds[tok].issued
      /\ \A u \in Threads :
             AcceptsForm(consent[u]) /\ consent[u].frame.token = tok => u = t
  BY ThreadFacts DEF ConsentOf, IInv, Parts, Owning, Holds, AcceptsForm
<1>2. rounds[tok].arguments = ARGS
  BY <1>1 DEF IInv, Parts, Settling
<1>3. rounds[tok].binding # None =>
          AcceptsForm(c) /\ rounds[tok].binding = OwnBinding(c)
  BY <1>1 DEF IInv, Parts, Settling
<1>4. Binding(call) = OwnBinding(c)
  BY DEF Binding, OwnBinding
<1> QED
  BY <1>1, <1>2, <1>3, <1>4 DEF Unknown, Mismatch, Bound

\* What the server answers it.
LEMMA ContinuationReply ==
    ASSUME NEW m \in MODES, IInv(m), NEW t \in Threads, NEW call \in Calls,
           Consents(consent[t]), call.name = "preview", call.arguments = ARGS,
           call.token = consent[t].frame.token,
           call.answers = consent[t].answers, Complete(m, call),
           ~ Raises(m, call)
    PROVE  /\ Reports(m, consent[t], rounds', effects', Reply(m, call))
           /\ Commits(m, call) => /\ AcceptsForm(consent[t])
                                     /\ Binding(call) = OwnBinding(consent[t])
<1> DEFINE c == consent[t]
           tok == c.frame.token
<1>1. tok \in Tokens
  BY ThreadFacts DEF ConsentOf
<1>2. ~ Unknown(call) /\ ~ Mismatch(call)
  BY ContinuationKnown
<1>3. rounds[tok].binding # None => AcceptsForm(c)
  BY ContinuationKnown DEF Bound
<1>4. Binding(call) = OwnBinding(c)
  BY ContinuationKnown
<1>6. Accepts(call.answers) <=> AcceptsForm(c)
  BY DEF AcceptsForm
<1>7. /\ StoreTypeOK /\ Len(effects) \in Nat /\ rounds[tok] \in Rows
      /\ DOMAIN effects = 1 .. Len(effects)
  BY <1>1, EffectsTyped DEF IInv, TypeOK, StoreTypeOK
<1>8. CASE Commits(m, call)
  <2>1. AcceptsForm(c)
    BY <1>6, <1>8 DEF Commits
  <2>2. Reply(m, call) = Success(Len(effects) + 1, ARGS)
    BY <1>2, <1>8 DEF Reply
  <2>3. Reply(m, call) \in Results
    BY <1>7, <2>2, CommitGapAssumption DEF Results, Success
  <2>4. OwnBinding(c) # None
    <3>1. OwnBinding(c) \in Bindings
      BY ThreadFacts, CommitGapAssumption DEF OwnBinding, Bindings
    <3> QED
      BY <3>1, CommitGapAssumption
  <2>5. /\ rounds'[tok].binding # None
        /\ m = "receipt" => rounds'[tok].result = Reply(m, call)
    BY <1>1, <1>4, <1>7, <1>8, <2>4 DEF Complete, StoreTypeOK, Rows
  <2>6. /\ Len(effects) + 1 \in DOMAIN effects'
        /\ effects'[Len(effects) + 1].token = tok
    <3>1. effects' = Append(effects, [token |-> tok, label |-> ARGS])
      BY <1>8 DEF Complete
    <3>2. /\ effects \in Seq(Effects)
          /\ [token |-> tok, label |-> ARGS] \in Effects
      BY <1>1, <1>7, CommitGapAssumption DEF StoreTypeOK, Effects
    <3> QED
      BY <1>7, <3>1, <3>2, AppendProperties
  <2> QED
    BY <1>4, <2>1, <2>2, <2>3, <2>5, <2>6 DEF Reports, Success
<1>10. \A why \in {"invalid", "closed"} :
           Refusal(why) \in Results /\ Refusal(why).isError
  BY DEF Refusal, Results, Refusals
<1>9. CASE ~ Commits(m, call)
  <2>1. rounds' = rounds /\ effects' = effects
    BY <1>9 DEF Complete, storeVars
  <2>2. CASE ~ Settled(m, tok)
    <3>1. ~ AcceptsForm(c)
      BY <1>2, <1>6, <1>9, <2>2 DEF Commits
    <3>2. Reply(m, call) = Refusal("invalid")
      BY <1>2, <1>9, <2>2 DEF Reply
    <3> QED
      BY <1>9, <1>10, <3>1, <3>2 DEF Reports
  <2>3. CASE Settled(m, tok) /\ m = "closed_guard"
    <3>1. Reply(m, call) = Refusal("closed")
      BY <1>2, <1>9, <2>3 DEF Reply
    <3>2. AcceptsForm(c) /\ rounds[tok].binding # None
      BY <1>3, <2>3 DEF Settled, Bound
    <3> QED
      BY <1>9, <1>10, <2>1, <2>3, <3>1, <3>2 DEF Reports
  <2>4. CASE Settled(m, tok) /\ m = "receipt"
    <3>1. Reply(m, call) = rounds[tok].result
      BY <1>2, <1>9, <2>4 DEF Reply
    <3>2. AcceptsForm(c) /\ rounds[tok].binding # None
      BY <1>3, <2>4 DEF Settled, Bound
    <3>3. ReceiptOf(tok)
      BY <1>1, <2>4, <3>2 DEF IInv, StoreInv, ReceiptsComplete, Bound
    <3>4. rounds[tok].result \in Results
      BY <1>7, <3>3 DEF ReceiptOf, Rows
    <3> QED
      BY <1>9, <2>1, <2>4, <3>1, <3>2, <3>3, <3>4
         DEF Reports, ReceiptOf, EffectsOf
  <2> QED
    BY <2>2, <2>3, <2>4 DEF Settled
<1> QED
  BY <1>8, <1>9

\* A continuation settles the round of its own thread, or none.
LEMMA ServeContinuationStep ==
    ASSUME NEW m \in MODES, IInv(m), NEW r \in requests, ServeContinuation(r)
    PROVE  IInv(m)'
<1> DEFINE t == r.thread
           c == consent[t]
           call == ServerCall(r)
           frame == TerminalFrame(Reply(m, call))
<1>0. storeMode = m /\ storeMode' = m
  BY DEF IInv, ServeContinuation
<1>1. /\ r.token # NoToken /\ ~ Raises(m, call)
      /\ Complete(m, call) /\ Deliver(r, frame)
  BY <1>0 DEF ServeContinuation
<1>2. /\ t \in Threads /\ Consents(c) /\ r.token \in Tokens
      /\ r.token = c.frame.token /\ r.answers = c.answers
      /\ Awaited(r) => ckpt[t].next # "begin"
  BY <1>1, RequestFacts DEF Awaited, RequestOf
<1>3. call \in Calls
  BY <1>2, ThreadFacts, CommitGapAssumption DEF ServerCall, Calls
<1>4. /\ StoreInv(m)' /\ Grows
  BY <1>1, <1>3, CompletePreserves, CommitGapAssumption DEF IInv, Grows, Bound
<1>5. /\ Reports(m, c, rounds', effects', Reply(m, call))
      /\ Commits(m, call) => /\ AcceptsForm(c)
                                /\ Binding(call) = OwnBinding(c)
  BY <1>1, <1>2, <1>3, ContinuationReply DEF ServerCall
<1>6. ClientTyped'
  <2>1. Reply(m, call) \in Results
    BY <1>5 DEF Reports
  <2> QED
    BY <1>1, <2>1, DeliverTypes, TypedFrames DEF IInv, TypeOK, ClientTyped
<1>7. Awaited(r) => ReplyOf(m, ckpt[t], "calling", frame, c, rounds', effects')
  <2>1. Awaited(r) => ckpt[t].next = "continue"
    BY <1>2, ThreadFacts DEF Awaited, ReplyOf
  <2> QED
    BY <1>5, <2>1 DEF ReplyOf, TerminalFrame
<1>8. Consenting' /\ Reporting(m)' /\ Receiving(m)' /\ Requesting'
  BY <1>1, <1>4, <1>7, DeliverParts
<1>9. UNCHANGED <<ckpt, consent>>
  BY <1>1 DEF Deliver
<1>10. /\ \A tok \in Tokens : /\ rounds'[tok].issued = rounds[tok].issued
                              /\ rounds'[tok].arguments
                                     = rounds[tok].arguments
       /\ \A tok \in Tokens :
              \/ rounds'[tok].binding = rounds[tok].binding
              \/ /\ tok = c.frame.token /\ AcceptsForm(c)
                 /\ rounds'[tok].binding = OwnBinding(c)
  <2>1. CASE Commits(m, call)
    <3>1. call.token = c.frame.token /\ c.frame.token \in Tokens
      BY <1>2 DEF ServerCall
    <3>2. PICK result :
              rounds' = [rounds EXCEPT
                             ![c.frame.token].binding = Binding(call),
                             ![c.frame.token].result = result]
      BY <1>1, <2>1, <3>1 DEF Complete
    <3>3. rounds \in [Tokens -> Rows]
      BY DEF IInv, TypeOK, StoreTypeOK
    <3>4. \A k \in Tokens \ {c.frame.token} : rounds'[k] = rounds[k]
      BY <3>2, <3>3
    <3>5. rounds'[c.frame.token] =
              [rounds[c.frame.token] EXCEPT !.binding = Binding(call),
                                            !.result = result]
      BY <3>1, <3>2, <3>3 DEF Rows
    <3>6. /\ rounds'[c.frame.token].issued = rounds[c.frame.token].issued
          /\ rounds'[c.frame.token].arguments = rounds[c.frame.token].arguments
          /\ rounds'[c.frame.token].binding = Binding(call)
      BY <3>1, <3>3, <3>5 DEF Rows
    <3> QED
      BY <1>5, <2>1, <3>4, <3>6
  <2>2. CASE ~ Commits(m, call)
    BY <1>1, <2>2 DEF Complete, storeVars
  <2> QED
    BY <2>1, <2>2
<1>11. Owning'
  <2>1. \A u \in Threads : inbox'[u] = inbox[u] \/ inbox'[u].token = NoToken
    BY <1>1, <1>2 DEF Deliver, TerminalFrame, IInv, TypeOK, ClientTypeOK
  <2>2. \A u \in Threads, k \in Tokens :
            Holds(ckpt[u], inbox'[u], consent[u], k)
            => Holds(ckpt[u], inbox[u], consent[u], k)
    BY <2>1, CommitGapAssumption DEF Holds
  <2> QED
    BY <1>9, <1>10, <2>2 DEF IInv, Parts, Owning
<1>12. Settling'
  BY <1>2, <1>9, <1>10 DEF IInv, Parts, Settling
<1> QED
  BY <1>0, <1>4, <1>6, <1>8, <1>11, <1>12
     DEF IInv, Parts, TypeOK, ClientTyped, StoreInv

\* The changed repeat of a completed operation finds its round settled.
LEMMA ChangedRepeatStep ==
    ASSUME NEW m \in MODES, IInv(m), NEW t \in Threads,
           NEW answers \in Resumes, ChangedRepeat(t, answers)
    PROVE  UNCHANGED vars
<1> DEFINE c == consent[t]
           tok == c.frame.token
<1>1. Complete(m, ServerCall([token |-> tok, answers |-> answers]))
  BY DEF ChangedRepeat, IInv
<1> DEFINE call == ServerCall([token |-> tok, answers |-> answers])
<1>2. /\ m = "receipt" /\ ckpt[t].status = "completed"
      /\ UNCHANGED <<clientVars, storeMode>>
  BY DEF ChangedRepeat, IInv
<1>3. /\ ckpt[t].next = "end"
      /\ Reports(m, c, rounds, effects, ckpt[t].frame.result)
  BY <1>2, ThreadFacts DEF ReportOf
<1>4. ~ ckpt[t].frame.result.isError
  BY <1>2, <1>3, ThreadFacts DEF ReportOf
<1>5. rounds[tok].binding # None
  BY <1>3, <1>4 DEF Reports
<1>6. ~ Commits(m, call)
  BY <1>2, <1>5 DEF Commits, Settled, Bound, ServerCall
<1>7. UNCHANGED storeVars
  BY <1>1, <1>6 DEF Complete
<1> QED
  BY <1>2, <1>7 DEF vars, clientVars, storeVars

\* Every step preserves the invariant.
LEMMA StepIInv ==
    ASSUME NEW m \in MODES, IInv(m), [Next]_vars
    PROVE  IInv(m)'
<1>1. CASE UNCHANGED vars
  <2>1. /\ UNCHANGED <<storeVars, storeMode>>
        /\ rounds' = rounds /\ effects' = effects
        /\ UNCHANGED <<ckpt, run, shown, consent, aborts, requests, inbox>>
    BY <1>1 DEF vars, storeVars
  <2>2. ClientTyped'
    BY <2>1 DEF IInv, TypeOK, ClientTyped, ClientTypeOK
  <2>3. Parts(m)'
    BY <2>1 DEF IInv, Parts, Consenting, Reporting, Receiving, Requesting,
       Owning, Settling
  <2> QED
    BY <2>1, <2>2, <2>3, StoreSame DEF IInv, TypeOK, ClientTyped, StoreInv
<1>2. ASSUME NEW t \in Threads, Client(t), UNCHANGED <<storeVars, storeMode>>
      PROVE  IInv(m)'
  BY <1>2, ClientStepIInv
<1>3. ASSUME NEW t \in Threads, NEW answers \in Resumes,
             ChangedRepeat(t, answers)
      PROVE  IInv(m)'
  BY <1>1, <1>3, ChangedRepeatStep
<1>4. ASSUME NEW r \in requests, ServeInitial(r) PROVE IInv(m)'
  BY <1>4, ServeInitialStep
<1>5. ASSUME NEW r \in requests, ServeContinuation(r) PROVE IInv(m)'
  BY <1>5, ServeContinuationStep
<1>6. ASSUME NEW r \in requests, Lose(r), UNCHANGED <<storeVars, storeMode>>
      PROVE  IInv(m)'
  BY <1>6, LoseStep
<1>7. CASE Done
  BY <1>1, <1>7 DEF Done
<1> QED
  BY <1>1, <1>2, <1>3, <1>4, <1>5, <1>6, <1>7 DEF Next

\* An error that the server gave for consent c: it names no label, and an
\* accepted form is refused only because its round was closed by a call that
\* the thread had lost.
ErrorOf(cut, c, result) ==
    result.isError =>
        /\ result.effect = 0
        /\ AcceptsForm(c) => result.why = "closed" /\ cut > 0

\* What a thread is told if not a label; and the round of a continuation that
\* was never cut short is open until its reply is there.
AnswerOf(ck, frame, cut, c, rows) ==
    /\ ck.next = "continue" => ck.frame.form = Form
    /\ ck.next = "continue" /\ frame # NoFrame =>
           ErrorOf(cut, c, frame.result)
    /\ ck.next \in {"finish", "end"} => ErrorOf(cut, c, ck.frame.result)
    /\ ck.next = "continue" /\ frame = NoFrame /\ cut = 0 =>
           rows[c.frame.token].binding = None

Answering ==
    \A t \in Threads :
        AnswerOf(ckpt[t], inbox[t], aborts[t], consent[t], rounds)

LEMMA AnswerFacts ==
    ASSUME Answering, NEW t \in Threads
    PROVE  AnswerOf(ckpt[t], inbox[t], aborts[t], consent[t], rounds)
BY DEF Answering

\* A thread that has not answered yet has a round that nobody bound.
LEMMA OpenRound ==
    ASSUME NEW m \in MODES, IInv(m), NEW t \in Threads, NEW tok \in Tokens,
           Holds(ckpt[t], inbox[t], consent[t], tok),
           ~ AcceptsForm(consent[t])
    PROVE  rounds[tok].binding = None
<1> SUFFICES ASSUME rounds[tok].binding # None PROVE FALSE
  OBVIOUS
<1>1. PICK u \in Threads : /\ AcceptsForm(consent[u])
                           /\ consent[u].frame.token = tok
  BY DEF IInv, Parts, Settling
<1>2. u = t
  BY <1>1 DEF IInv, Parts, Owning, Holds, AcceptsForm
<1> QED
  BY <1>1, <1>2

\* The client's steps: what was said stays said, and a call is cut short at
\* least once before it is repeated.
LEMMA ClientAnswering ==
    ASSUME NEW m \in MODES, IInv(m), Answering,
           UNCHANGED <<storeVars, storeMode>>, NEW t \in Threads, Client(t)
    PROVE  Answering'
<1>0. /\ rounds' = rounds
      /\ DOMAIN ckpt = Threads /\ DOMAIN inbox = Threads
      /\ DOMAIN aborts = Threads /\ DOMAIN consent = Threads
      /\ aborts[t] \in Nat
      /\ run[t] # "calling" => inbox[t] = NoFrame
  BY ThreadFacts DEF storeVars, IInv, TypeOK, ClientTypeOK
<1>1. ASSUME AnswerOf(ckpt'[t], inbox'[t], aborts'[t], consent'[t], rounds),
             \A u \in Threads \ {t} :
                 /\ ckpt'[u] = ckpt[u] /\ inbox'[u] = inbox[u]
                 /\ aborts'[u] = aborts[u] /\ consent'[u] = consent[u]
      PROVE  Answering'
  BY <1>0, <1>1 DEF Answering
<1>2. CASE Invoke(t) \/ BeginCall(t) \/ ContinueCall(t) \/ Review(t)
           \/ RoundLimit(t)
  BY <1>0, <1>2
     DEF Answering, Invoke, BeginCall, ContinueCall, CallTool, Review,
         RoundLimit
<1>3. CASE Abort(t)
  <2>1. /\ aborts'[t] = aborts[t] + 1 /\ inbox'[t] = NoFrame
        /\ UNCHANGED <<ckpt, consent>>
        /\ \A u \in Threads \ {t} :
               inbox'[u] = inbox[u] /\ aborts'[u] = aborts[u]
    BY <1>0, <1>3 DEF Abort
  <2>2. AnswerOf(ckpt[t], inbox'[t], aborts'[t], consent[t], rounds)
    BY <1>0, <2>1, AnswerFacts DEF AnswerOf, ErrorOf
  <2> QED
    BY <1>1, <2>1, <2>2
<1>4. CASE BeginReturns(t) \/ ContinueReturns(t)
  <2>1. PICK n : Received(t, n)
    BY <1>4 DEF BeginReturns, ContinueReturns
  <2>2. /\ ckpt'[t].frame = inbox[t]
        /\ ckpt'[t].next = IF inbox[t].kind = "input" THEN "review"
                           ELSE "finish"
        /\ inbox'[t] = NoFrame /\ inbox[t] # NoFrame /\ run[t] = "calling"
        /\ UNCHANGED <<aborts, consent>>
        /\ \A u \in Threads \ {t} :
               ckpt'[u] = ckpt[u] /\ inbox'[u] = inbox[u]
    BY <1>0, <2>1, ThreadFacts DEF Received, Checkpoints
  <2>3. CASE ckpt[t].next = "begin"
    <3>1. ckpt'[t].next = "review"
      BY <2>2, <2>3, ThreadFacts DEF ReplyOf
    <3> QED
      BY <1>1, <2>2, <3>1 DEF AnswerOf
  <2>4. CASE ckpt[t].next = "continue"
    <3>1. ckpt'[t].next = "finish"
      BY <2>2, <2>4, ThreadFacts DEF ReplyOf
    <3>2. ErrorOf(aborts[t], consent[t], inbox[t].result)
      BY <2>2, <2>4, AnswerFacts DEF AnswerOf
    <3> QED
      BY <1>1, <2>2, <3>1, <3>2 DEF AnswerOf
  <2> QED
    BY <1>4, <2>3, <2>4 DEF BeginReturns, ContinueReturns
<1>5. CASE Resume(t)
  <2>1. PICK answers \in Resumes :
            /\ ckpt' = [ckpt EXCEPT ![t].answers = answers,
                                    ![t].status = "answered",
                                    ![t].next = "continue"]
            /\ consent' = [consent EXCEPT ![t] =
                   [form |-> shown[t], frame |-> ckpt[t].frame,
                    answers |-> answers]]
    BY <1>5, Zenon DEF Resume
  <2>2. /\ ckpt'[t].frame = ckpt[t].frame /\ ckpt'[t].next = "continue"
        /\ \A u \in Threads \ {t} : ckpt'[u] = ckpt[u]
    BY <1>0, <2>1, ThreadFacts DEF Checkpoints
  <2>3. /\ consent'[t].frame = ckpt[t].frame
        /\ \A u \in Threads \ {t} : consent'[u] = consent[u]
    BY <1>0, <2>1
  <2>4. /\ ckpt[t].next = "review" /\ UNCHANGED <<inbox, aborts>>
        /\ inbox'[t] = NoFrame
    BY <1>0, <1>5 DEF Resume
  <2>5. /\ ckpt[t].frame.form = Form /\ ckpt[t].frame.token \in Tokens
        /\ ~ AcceptsForm(consent[t])
    BY <2>4, ThreadFacts DEF ConsentOf, AcceptsForm
  <2>6. rounds[ckpt[t].frame.token].binding = None
    BY <2>5, OpenRound DEF Holds
  <2> QED
    BY <1>1, <2>2, <2>3, <2>4, <2>5, <2>6 DEF AnswerOf
<1>6. CASE Finish(t)
  <2>1. /\ ckpt'[t].frame = ckpt[t].frame /\ ckpt'[t].next = "end"
        /\ ckpt[t].next = "finish"
        /\ UNCHANGED <<inbox, aborts, consent>>
        /\ \A u \in Threads \ {t} : ckpt'[u] = ckpt[u]
    BY <1>0, <1>6, ThreadFacts DEF Finish, Checkpoints
  <2>2. AnswerOf(ckpt'[t], inbox[t], aborts[t], consent[t], rounds)
    BY <2>1, AnswerFacts DEF AnswerOf
  <2> QED
    BY <1>1, <2>1, <2>2
<1> QED
  BY <1>2, <1>3, <1>4, <1>5, <1>6 DEF Client

\* A lost request cuts its thread's attempt short, or nobody awaits it.
LEMMA LoseAnswering ==
    ASSUME NEW m \in MODES, IInv(m), Answering,
           UNCHANGED <<storeVars, storeMode>>, NEW r \in requests, Lose(r)
    PROVE  Answering'
<1>1. rounds' = rounds /\ UNCHANGED <<ckpt, consent, inbox>>
  BY DEF storeVars, Lose
<1>2. /\ r.thread \in Threads /\ DOMAIN aborts = Threads
      /\ aborts[r.thread] \in Nat
  BY RequestFacts, ThreadFacts DEF IInv, TypeOK, ClientTypeOK
<1>3. \/ aborts' = aborts
      \/ aborts' = [aborts EXCEPT ![r.thread] = aborts[r.thread] + 1]
  BY DEF Lose
<1>4. /\ \A t \in Threads : t # r.thread => aborts'[t] = aborts[t]
      /\ aborts'[r.thread] = aborts[r.thread] \/ aborts'[r.thread] > 0
  BY <1>2, <1>3
<1> QED
  BY <1>1, <1>2, <1>4 DEF Answering, AnswerOf, ErrorOf

\* A form is no answer to a continuation.
LEMMA InitialAnswering ==
    ASSUME NEW m \in MODES, IInv(m), Answering, NEW r \in requests,
           ServeInitial(r)
    PROVE  Answering'
<1>1. PICK tok \in Tokens :
          Issue(ARGS, tok) /\ Deliver(r, InputFrame(tok, Form))
  BY DEF ServeInitial
<1>2. \A k \in Tokens : rounds'[k].binding = rounds[k].binding
  BY <1>1 DEF Issue, IInv, TypeOK, StoreTypeOK, Rows
<1>3. Awaited(r) => ckpt[r.thread].next = "begin"
  BY RequestFacts DEF ServeInitial, Awaited, RequestOf
<1>4. /\ UNCHANGED <<ckpt, consent, aborts>>
      /\ \A t \in Threads :
             ckpt[t].next # "begin" => inbox'[t] = inbox[t]
  BY <1>1, <1>3 DEF Deliver, IInv, TypeOK, ClientTypeOK
<1>5. \A t \in Threads : ckpt[t].next = "continue" =>
          consent[t].frame.token \in Tokens
  BY ThreadFacts DEF ConsentOf
<1> QED
  BY <1>2, <1>4, <1>5, AnswerFacts DEF Answering, AnswerOf

\* A continuation is refused as closed only after an attempt was lost: the
\* round of a first attempt is open.
LEMMA ContinuationAnswering ==
    ASSUME NEW m \in MODES, IInv(m), Answering, NEW r \in requests,
           ServeContinuation(r)
    PROVE  Answering'
<1> DEFINE t == r.thread
           c == consent[t]
           call == ServerCall(r)
           frame == TerminalFrame(Reply(m, call))
<1>1. /\ r.token # NoToken /\ ~ Raises(m, call)
      /\ Complete(m, call) /\ Deliver(r, frame)
      /\ UNCHANGED <<ckpt, consent, aborts>>
  BY DEF IInv, ServeContinuation, Deliver
<1>2. /\ t \in Threads /\ Consents(c) /\ r.token \in Tokens
      /\ r.token = c.frame.token /\ r.answers = c.answers
      /\ aborts[t] \in Nat /\ ckpt[t].next # "begin"
  BY <1>1, RequestFacts, ThreadFacts DEF RequestOf, ConsentOf
<1>3. aborts[t] = 0 \/ Awaited(r) =>
          ckpt[t].next = "continue" /\ inbox[t] = NoFrame /\ Awaited(r)
  BY <1>1, <1>2, RequestFacts, ThreadFacts DEF RequestOf, Awaited, ReplyOf
<1>4. call \in Calls
  BY <1>2, ThreadFacts, CommitGapAssumption DEF ServerCall, Calls
<1>5. ErrorOf(aborts[t], c, Reply(m, call))
  <2>1. c.frame.token \in Tokens /\ IInv(m)
    BY <1>2
  <2>2. ~ Unknown(call) /\ ~ Mismatch(call)
    BY <1>1, <1>2, <1>4, ContinuationKnown DEF ServerCall
  <2>3. CASE Commits(m, call)
    BY <2>2, <2>3 DEF Reply, Success, ErrorOf
  <2>4. CASE ~ Commits(m, call) /\ ~ Settled(m, r.token)
    <3>1. ~ AcceptsForm(c) /\ Reply(m, call) = Refusal("invalid")
      BY <1>2, <2>2, <2>4 DEF Commits, Reply, ServerCall, AcceptsForm
    <3> QED
      BY <3>1 DEF ErrorOf, Refusal
  <2>5. CASE Settled(m, r.token) /\ m = "closed_guard"
    <3>1. Reply(m, call) = Refusal("closed")
      BY <2>2, <2>5 DEF Reply, ServerCall, Commits
    <3>2. aborts[t] # 0
      BY <1>2, <1>3, <2>5, AnswerFacts DEF AnswerOf, Settled, Bound
    <3> QED
      BY <1>2, <3>1, <3>2 DEF ErrorOf, Refusal
  <2>6. CASE Settled(m, r.token) /\ m = "receipt"
    <3>1. Reply(m, call) = rounds[r.token].result
      BY <2>2, <2>6 DEF Reply, ServerCall, Commits
    <3>2. ReceiptOf(r.token)
      BY <1>2, <2>6 DEF IInv, StoreInv, ReceiptsComplete, Settled
    <3> QED
      BY <3>1, <3>2 DEF ReceiptOf, ErrorOf
  <2> QED
    BY <2>3, <2>4, <2>5, <2>6 DEF Settled, Commits, ServerCall
<1>6. \A k \in Tokens : k # r.token => rounds'[k] = rounds[k]
  BY <1>1, <1>2 DEF Complete, ServerCall, storeVars, IInv, TypeOK, StoreTypeOK
<1>7. /\ \A u \in Threads : u # t \/ ~ Awaited(r) => inbox'[u] = inbox[u]
      /\ Awaited(r) => inbox'[t] = frame
  BY <1>1, <1>2 DEF Deliver, IInv, TypeOK, ClientTypeOK
<1>8. AnswerOf(ckpt[t], inbox'[t], aborts[t], c, rounds')
  <2>1. CASE Awaited(r)
    <3>1. inbox'[t] # NoFrame /\ inbox'[t].result = Reply(m, call)
      BY <1>7, <2>1 DEF TerminalFrame, NoFrame
    <3> QED
      BY <1>2, <1>3, <1>5, <2>1, <3>1, AnswerFacts DEF AnswerOf
  <2>2. CASE ~ Awaited(r)
    BY <1>2, <1>3, <1>7, <2>2, AnswerFacts DEF AnswerOf
  <2> QED
    BY <2>1, <2>2
<1>9. ASSUME NEW u \in Threads, u # t
      PROVE  AnswerOf(ckpt[u], inbox'[u], aborts[u], consent[u], rounds')
  <2>1. ckpt[u].next = "continue" =>
            consent[u].frame.token \in Tokens /\ Consents(consent[u])
    BY ThreadFacts DEF ConsentOf
  <2>2. ckpt[u].next = "continue" => consent[u].frame.token # r.token
    BY <1>2, <1>9, <2>1 DEF IInv, Parts, Owning, Holds
  <2> QED
    BY <1>6, <1>7, <1>9, <2>1, <2>2, AnswerFacts DEF AnswerOf
<1> QED
  BY <1>1, <1>8, <1>9 DEF Answering

\* The invariant, for the mode the store happens to have.
Safe == Answering /\ \E m \in MODES : IInv(m)

LEMMA InitAnswering == Init => Answering
BY DEF Init, ClientInit, NewThread, Answering, AnswerOf

LEMMA StepAnswering ==
    ASSUME NEW m \in MODES, IInv(m), Answering, [Next]_vars
    PROVE  Answering'
<1>1. CASE UNCHANGED vars
  BY <1>1 DEF vars, Answering
<1>2. ASSUME NEW t \in Threads, NEW answers \in Resumes,
             ChangedRepeat(t, answers)
      PROVE  UNCHANGED vars
  BY <1>2, ChangedRepeatStep
<1>3. Done => UNCHANGED vars
  BY DEF Done
<1> QED
  BY <1>1, <1>2, <1>3, ClientAnswering, LoseAnswering, InitialAnswering,
     ContinuationAnswering DEF Next

LEMMA InitSafe == Init => Safe
<1> SUFFICES ASSUME Init PROVE Safe
  OBVIOUS
<1>1. PICK m \in MODES : storeMode = m
  BY CommitGapAssumption DEF Init
<1>2. IInv(m)
  BY <1>1, InitIInv
<1> QED
  BY <1>2, InitAnswering DEF Safe

LEMMA StepSafe == Safe /\ [Next]_vars => Safe'
<1> SUFFICES ASSUME Safe, [Next]_vars PROVE Safe'
  OBVIOUS
<1>1. PICK m \in MODES : IInv(m)
  BY DEF Safe
<1>2. IInv(m)'
  BY <1>1, StepIInv
<1>3. Answering'
  BY <1>1, StepAnswering DEF Safe
<1> QED
  BY <1>2, <1>3 DEF Safe

LEMMA SpecSafe == Spec => []Safe
BY InitSafe, StepSafe, PTL DEF Spec
-----------------------------------------------------------------------------
\* What the invariant says of a thread, in the terms of the properties.
LEMMA ConsentTerms ==
    ASSUME NEW t \in Threads
    PROVE  /\ Consented(t) <=> Consents(consent[t])
           /\ Accepted(t) <=> AcceptsForm(consent[t])
           /\ Token(t) = consent[t].frame.token
BY DEF Consented, Consents, Accepted, AcceptsForm, Token

\* The invariant implies the properties that the runs check.
LEMMA IInvImplies ==
    ASSUME NEW m \in MODES, IInv(m)
    PROVE  /\ TypeOK
           /\ AtMostOneEffect
           /\ ConsentBeforeEffect
           /\ CompletedNamesItsEffect
           /\ OriginalResultRecovered
<1>0. storeMode = m
  BY DEF IInv
<1>1. StoreInv(m) /\ TypeOK
  BY DEF IInv
<1>2. AtMostOneEffect
  BY <1>0, <1>1 DEF StoreInv, OneEffect, AtMostOneEffect, EffectsOf
<1>3. ConsentBeforeEffect
  <2> SUFFICES ASSUME NEW i \in DOMAIN effects
               PROVE  \E t \in Threads :
                          /\ Accepted(t) /\ Token(t) = effects[i].token
                          /\ consent[t].form = Form
                          /\ consent[t].form.subject = effects[i].label
    BY DEF ConsentBeforeEffect
  <2> DEFINE tok == effects[i].token
  <2>1. tok \in Tokens
    BY <1>1, EffectsTyped DEF StoreInv, Effects
  <2>2. /\ rounds[tok].binding # None /\ rounds[tok].issued
        /\ effects[i].label = rounds[tok].arguments
    BY <1>1, <2>1 DEF StoreInv, EffectIsBound, BoundIsIssued, Bound
  <2>3. rounds[tok].arguments = ARGS
    BY <2>1, <2>2 DEF IInv, Parts, Settling
  <2>4. PICK t \in Threads : /\ AcceptsForm(consent[t])
                             /\ consent[t].frame.token = tok
    BY <2>1, <2>2 DEF IInv, Parts, Settling
  <2>5. consent[t].form = Form
    BY <2>4, ThreadFacts DEF ConsentOf, AcceptsForm
  <2> QED
    BY <2>2, <2>3, <2>4, <2>5, ConsentTerms DEF Form
<1>4. CompletedNamesItsEffect
  <2> SUFFICES ASSUME NEW t \in Threads, ckpt[t].status = "completed"
               PROVE  ckpt[t].result.effect \in EffectsOf(Token(t))
    BY DEF CompletedNamesItsEffect
  <2>1. /\ ckpt[t].next = "end" /\ ckpt[t].result = ckpt[t].frame.result
        /\ ~ ckpt[t].result.isError
    BY ThreadFacts DEF ReportOf
  <2>2. Reports(m, consent[t], rounds, effects, ckpt[t].result)
    BY <2>1, ThreadFacts DEF ReportOf
  <2> QED
    BY <2>1, <2>2, ConsentTerms DEF Reports, EffectsOf
<1>5. ASSUME m = "receipt" PROVE OriginalResultRecovered
  <2> SUFFICES ASSUME NEW t \in Threads, ckpt[t].next = "end"
               PROVE  IF Accepted(t)
                      THEN /\ ckpt[t].status = "completed"
                           /\ EffectsOf(Token(t)) = {ckpt[t].result.effect}
                           /\ ckpt[t].result = rounds[Token(t)].result
                      ELSE /\ ckpt[t].status = "tool_error"
                           /\ EffectsOf(Token(t)) = {}
    BY DEF OriginalResultRecovered
  <2> DEFINE c == consent[t]
             tok == c.frame.token
  <2>1. /\ Reports(m, c, rounds, effects, ckpt[t].result)
        /\ ckpt[t].status = IF ckpt[t].result.isError THEN "tool_error"
                            ELSE "completed"
        /\ Consents(c) /\ tok \in Tokens
    BY ThreadFacts DEF ReportOf, ConsentOf
  <2>2. CASE AcceptsForm(c)
    <3>1. rounds[tok].binding # None /\ ckpt[t].result = rounds[tok].result
      BY <1>5, <2>1, <2>2 DEF Reports
    <3>2. ReceiptOf(tok)
      BY <1>1, <1>5, <2>1, <3>1 DEF StoreInv, ReceiptsComplete, Bound
    <3>3. EffectsOf(tok) = {ckpt[t].result.effect}
      BY <1>1, <1>5, <3>1, <3>2
         DEF ReceiptOf, StoreInv, OneEffect, EffectsOf
    <3> QED
      BY <2>1, <2>2, <3>1, <3>2, <3>3, ConsentTerms DEF ReceiptOf
  <2>3. CASE ~ AcceptsForm(c)
    <3>1. ckpt[t].status = "tool_error"
      BY <2>1, <2>3 DEF Reports
    <3>2. rounds[tok].binding = None
      <4>1. SUFFICES ASSUME rounds[tok].binding # None PROVE FALSE
        OBVIOUS
      <4>2. PICK u \in Threads : /\ AcceptsForm(consent[u])
                                 /\ consent[u].frame.token = tok
        BY <2>1, <4>1 DEF IInv, Parts, Settling
      <4>3. u = t
        BY <2>1, <4>2 DEF IInv, Parts, Owning, Holds, AcceptsForm
      <4> QED
        BY <2>3, <4>2, <4>3
    <3>3. EffectsOf(tok) = {}
      BY <1>1, <3>2 DEF StoreInv, EffectIsBound, EffectsOf, Bound
    <3> QED
      BY <2>3, <3>1, <3>3, ConsentTerms
  <2> QED
    BY <2>2, <2>3
<1>6. ASSUME m # "receipt" PROVE OriginalResultRecovered
  BY <1>0, <1>6 DEF OriginalResultRecovered
<1> QED
  BY <1>1, <1>2, <1>3, <1>4, <1>5, <1>6

\* The types: every state that clients and server reach is one of the states
\* the module describes.
THEOREM CommitGapTypeCorrect == Spec => []TypeOK
<1>1. Safe => TypeOK
  BY IInvImplies DEF Safe
<1> QED
  BY <1>1, SpecSafe, PTL

\* Under the guard and the receipt policy a round leaves at most one label,
\* over every crash, lost reply and repeated call (complete's early return for
\* a bound round).
THEOREM OneLabelPerRound == Spec => []AtMostOneEffect
<1>1. Safe => AtMostOneEffect
  BY IInvImplies DEF Safe
<1> QED
  BY <1>1, SpecSafe, PTL

\* No label without an accepting answer to the form that was shown, which the
\* client checkpointed before it called (the order of review and
\* continue_original_round under durability='sync').
THEOREM ConsentFirst == Spec => []ConsentBeforeEffect
<1>1. Safe => ConsentBeforeEffect
  BY IInvImplies DEF Safe
<1> QED
  BY <1>1, SpecSafe, PTL

\* A completed thread names a label of its own round.
THEOREM CompletionIsTrue == Spec => []CompletedNamesItsEffect
<1>1. Safe => CompletedNamesItsEffect
  BY IInvImplies DEF Safe
<1> QED
  BY <1>1, SpecSafe, PTL

\* With receipts the operation that ends has reported the one label of its
\* round, or an error and there is no label (complete's return of the stored
\* result).
THEOREM ResultRecovered == Spec => []OriginalResultRecovered
<1>1. Safe => OriginalResultRecovered
  BY IInvImplies DEF Safe
<1> QED
  BY <1>1, SpecSafe, PTL

\* Under the guard an accepted operation that ends has exactly one label, and
\* reports ROUND_ALREADY_CLOSED only if a call of its own was cut short
\* (complete's early return for a bound round in closed_guard mode).
THEOREM GuardHolds == Spec => []GuardKeepsOneEffect
<1>1. Safe => GuardKeepsOneEffect
  <2> SUFFICES ASSUME Safe, NEW t \in Threads,
                      storeMode = "closed_guard", ckpt[t].next = "end",
                      Accepted(t)
               PROVE  /\ Cardinality(EffectsOf(Token(t))) = 1
                      /\ ckpt[t].status = "tool_error" =>
                             ckpt[t].result.why = "closed" /\ aborts[t] > 0
    BY DEF GuardKeepsOneEffect
  <2>1. /\ "closed_guard" \in MODES /\ IInv("closed_guard")
        /\ StoreInv("closed_guard")
    BY DEF Safe, IInv
  <2>2. /\ AcceptsForm(consent[t]) /\ Token(t) \in Tokens
        /\ Reports("closed_guard", consent[t], rounds, effects,
                   ckpt[t].frame.result)
        /\ ckpt[t].result = ckpt[t].frame.result
        /\ ckpt[t].status = "tool_error" => ckpt[t].result.isError
    BY <2>1, ConsentTerms, ThreadFacts DEF ReportOf, ConsentOf, AcceptsForm
  <2>3. Bound(Token(t))
    BY <2>2, ConsentTerms DEF Reports, Bound
  <2>4. PICK i : EffectsOf(Token(t)) = {i}
    <3>1. PICK i : i \in EffectsOf(Token(t))
      BY <2>1, <2>2, <2>3 DEF StoreInv, BoundHasEffect
    <3>2. \A j \in EffectsOf(Token(t)) : j = i
      BY <2>1, <3>1 DEF StoreInv, OneEffect, EffectsOf
    <3> QED
      BY <3>1, <3>2
  <2>5. ErrorOf(aborts[t], consent[t], ckpt[t].frame.result)
    BY AnswerFacts DEF Safe, AnswerOf
  <2> QED
    BY <2>2, <2>4, <2>5, FS_Singleton DEF ErrorOf
<1> QED
  BY <1>1, SpecSafe, PTL

\* The answer that a continuation carries was given to the form the reviewer
\* was shown (review's interrupt and its resume).
THEOREM AnswersOwnForm == Spec => []AnswersShownForm
<1>1. Safe => AnswersShownForm
  <2> SUFFICES ASSUME Safe, NEW t \in Threads, ckpt[t].next = "continue"
               PROVE  consent[t].form = ckpt[t].frame.form
    BY DEF AnswersShownForm
  <2>1. consent[t].form = Form
    BY ThreadFacts DEF Safe, ConsentOf
  <2>2. ckpt[t].frame.form = Form
    BY AnswerFacts DEF Safe, AnswerOf
  <2> QED
    BY <2>1, <2>2
<1> QED
  BY <1>1, SpecSafe, PTL
-----------------------------------------------------------------------------
\* With receipts the system implements ConfirmedEffect.  The refinement maps
\* the answer's checkpoint to the decision, the commit to the effect and the
\* last checkpoint to the report.
ReceiptOnly == Modes = {"receipt"}

\* What the invariant says of one operation of the abstract specification.
LEMMA Mapped ==
    ASSUME IInv("receipt"), Answering, NEW t \in Threads
    PROVE  /\ Decision(t) = "accepted" <=> AcceptsForm(consent[t])
           /\ Decision(t) = "none" <=> ~ Consents(consent[t])
           /\ Decision(t) = "rejected" <=>
                  Consents(consent[t]) /\ ~ AcceptsForm(consent[t])
           /\ EffectOf(t) # 0 => Bound(Token(t)) /\ Consents(consent[t])
           /\ Consents(consent[t]) => Token(t) \in Tokens
           /\ Consents(consent[t]) /\ Bound(Token(t)) =>
                  /\ AcceptsForm(consent[t])
                  /\ EffectOf(t) \in DOMAIN effects
                  /\ EffectOf(t) # 0
                  /\ effects[EffectOf(t)].token = Token(t)
<1>1. "receipt" \in MODES /\ StoreInv("receipt")
  BY DEF IInv, MODES
<1>2. Consents(consent[t]) => Token(t) \in Tokens
  BY <1>1, ThreadFacts, ConsentTerms DEF ConsentOf
<1>3. Consents(consent[t]) /\ Bound(Token(t)) => AcceptsForm(consent[t])
  BY <1>1, <1>2, OpenRound, ConsentTerms DEF Holds, Bound
<1>4. ASSUME Consents(consent[t]), Bound(Token(t))
      PROVE  /\ EffectOf(t) \in DOMAIN effects
             /\ effects[EffectOf(t)].token = Token(t)
  <2>1. ReceiptOf(Token(t))
    BY <1>1, <1>2, <1>4 DEF StoreInv, ReceiptsComplete
  <2> QED
    BY <1>4, <2>1, ConsentTerms DEF EffectOf, ReceiptOf, EffectsOf
<1>5. 0 \notin DOMAIN effects
  BY <1>1, EffectsTyped DEF StoreInv
<1>6. AcceptsForm(consent[t]) => Consents(consent[t])
  BY DEF AcceptsForm
<1>7. /\ Decision(t) = "accepted" <=> AcceptsForm(consent[t])
      /\ Decision(t) = "none" <=> ~ Consents(consent[t])
      /\ Decision(t) = "rejected" <=>
             Consents(consent[t]) /\ ~ AcceptsForm(consent[t])
  BY <1>6, ConsentTerms DEF Decision
<1>8. EffectOf(t) # 0 => Bound(Token(t)) /\ Consents(consent[t])
  BY ConsentTerms DEF EffectOf
<1> QED
  BY <1>2, <1>3, <1>4, <1>5, <1>7, <1>8

\* Nothing decided, nothing done, nothing reported.
LEMMA InitPromise ==
    ASSUME Init
    PROVE  Promise!Init
<1>1. \A t \in Threads : consent[t] = NoConsent /\ ckpt[t].next = "begin"
  BY DEF Init, ClientInit, NewThread
<1>2. \A t \in Threads :
          /\ Decision(t) = "none" /\ EffectOf(t) = 0
          /\ Outcome(t) = [done |-> FALSE, effect |-> 0]
  BY <1>1, ConsentTerms DEF Decision, EffectOf, Outcome, Consents
<1> QED
  BY <1>2 DEF Promise!Init, Decisions, EffectOfEach, Outcomes

\* A step that changes nothing of what an operation has decided, done and
\* reported.
Same(t) ==
    /\ Decision(t)' = Decision(t)
    /\ EffectOf(t)' = EffectOf(t)
    /\ Outcome(t)' = Outcome(t)

\* It depends on the thread's consent, its round's receipt and its end only.
LEMMA SameIf ==
    ASSUME NEW t \in Threads, consent'[t] = consent[t],
           Outcome(t)' = Outcome(t),
           Consents(consent[t]) =>
               /\ rounds'[Token(t)].binding = rounds[Token(t)].binding
               /\ rounds'[Token(t)].result = rounds[Token(t)].result
    PROVE  Same(t)
<1>1. /\ (Consented(t))' <=> Consented(t)
      /\ (Accepted(t))' <=> Accepted(t)
      /\ Token(t)' = Token(t)
  BY DEF Consented, Accepted, Token
<1>2. Decision(t)' = Decision(t)
  BY <1>1 DEF Decision
<1>3. CASE Consented(t)
  <2>1. /\ (Bound(Token(t)))' <=> Bound(Token(t))
        /\ rounds'[Token(t)'].result = rounds[Token(t)].result
    BY <1>1, <1>3, ConsentTerms DEF Bound
  <2>2. EffectOf(t)' = EffectOf(t)
    BY <1>1, <1>3, <2>1 DEF EffectOf
  <2> QED
    BY <1>2, <2>2 DEF Same
<1>4. CASE ~ Consented(t)
  <2>1. EffectOf(t)' = EffectOf(t)
    BY <1>1, <1>4 DEF EffectOf
  <2> QED
    BY <1>2, <2>1 DEF Same
<1> QED
  BY <1>3, <1>4

\* Steps of the system, as steps of the abstract specification.
LEMMA AsStutter ==
    ASSUME \A t \in Threads : Same(t)
    PROVE  UNCHANGED Promise!vars
BY DEF Promise!vars, Same, Decisions, EffectOfEach, Outcomes

LEMMA AsDecide ==
    ASSUME NEW t \in Threads, \A u \in Threads \ {t} : Same(u),
           Decision(t) = "none", Decision(t)' \in {"accepted", "rejected"},
           EffectOf(t)' = EffectOf(t), Outcome(t)' = Outcome(t)
    PROVE  Promise!Decide(t)
<1>1. Decisions' = [Decisions EXCEPT ![t] = Decision(t)']
  BY DEF Decisions, Same
<1>2. UNCHANGED <<EffectOfEach, Outcomes>>
  BY DEF EffectOfEach, Outcomes, Same
<1>3. Decisions[t] = "none"
  BY DEF Decisions
<1> QED
  BY <1>1, <1>2, <1>3 DEF Promise!Decide

LEMMA AsTakeEffect ==
    ASSUME NEW t \in Threads, \A u \in Threads \ {t} : Same(u),
           NEW id \in 1 .. MaxEffects,
           \A u \in Threads : EffectOf(u) # id,
           Decision(t) = "accepted", EffectOf(t) = 0, EffectOf(t)' = id,
           Decision(t)' = Decision(t), Outcome(t)' = Outcome(t)
    PROVE  Promise!TakeEffect(t)
<1>1. EffectOfEach' = [EffectOfEach EXCEPT ![t] = id]
  BY DEF EffectOfEach, Same
<1>2. UNCHANGED <<Decisions, Outcomes>>
  BY DEF Decisions, Outcomes, Same
<1>3. Decisions[t] = "accepted" /\ EffectOfEach[t] = 0
  BY DEF Decisions, EffectOfEach
<1>4. id \in (1 .. MaxEffects) \ {EffectOfEach[u] : u \in Threads}
  BY DEF EffectOfEach
<1> QED
  BY <1>1, <1>2, <1>3, <1>4 DEF Promise!TakeEffect

LEMMA AsReport ==
    ASSUME NEW t \in Threads, \A u \in Threads \ {t} : Same(u),
           ~ Outcome(t).done, Decision(t) = "rejected" \/ EffectOf(t) # 0,
           Outcome(t)' = [done |-> TRUE, effect |-> EffectOf(t)],
           Decision(t)' = Decision(t), EffectOf(t)' = EffectOf(t)
    PROVE  Promise!Report(t)
<1>1. Outcomes' = [Outcomes EXCEPT
          ![t] = [done |-> TRUE, effect |-> EffectOfEach[t]]]
  BY DEF Outcomes, EffectOfEach, Same
<1>2. UNCHANGED <<Decisions, EffectOfEach>>
  BY DEF Decisions, EffectOfEach, Same
<1>3. /\ ~ Outcomes[t].done
      /\ Decisions[t] = "rejected" \/ EffectOfEach[t] # 0
  BY DEF Outcomes, Decisions, EffectOfEach
<1> QED
  BY <1>1, <1>2, <1>3 DEF Promise!Report

\* The resume decides, finish reports, and the client's other steps are seen
\* by nobody.
LEMMA ClientPromise ==
    ASSUME IInv("receipt"), Answering, UNCHANGED <<storeVars, storeMode>>,
           NEW t \in Threads, Client(t)
    PROVE  Promise!Next \/ UNCHANGED Promise!vars
<1>0. /\ rounds' = rounds /\ effects' = effects
      /\ DOMAIN ckpt = Threads /\ DOMAIN consent = Threads
      /\ "receipt" \in MODES
  BY DEF storeVars, IInv, TypeOK, ClientTypeOK, MODES
<1>1. ASSUME NEW u \in Threads, consent'[u] = consent[u], ckpt'[u] = ckpt[u]
      PROVE  Same(u)
  <2>1. Outcome(u)' = Outcome(u)
    BY <1>1 DEF Outcome
  <2> QED
    BY <1>0, <1>1, <2>1, SameIf
<1>2. CASE UNCHANGED <<ckpt, consent>>
  BY <1>1, <1>2, AsStutter
<1>3. CASE BeginReturns(t) \/ ContinueReturns(t)
  <2>1. /\ ckpt[t].next \in {"begin", "continue"}
        /\ \E n : Received(t, n)
    BY <1>3 DEF BeginReturns, ContinueReturns
  <2>2. /\ ckpt'[t].next # "end" /\ UNCHANGED consent
        /\ \A u \in Threads \ {t} : ckpt'[u] = ckpt[u]
    BY <1>0, <2>1, ThreadFacts DEF Received, Checkpoints
  <2>3. Outcome(t)' = Outcome(t)
    BY <2>1, <2>2 DEF Outcome
  <2>4. Same(t)
    BY <1>0, <2>2, <2>3, SameIf
  <2> QED
    BY <1>1, <2>2, <2>4, AsStutter
<1>4. CASE Resume(t)
  <2>1. PICK answers \in Resumes :
            /\ ckpt' = [ckpt EXCEPT ![t].answers = answers,
                                    ![t].status = "answered",
                                    ![t].next = "continue"]
            /\ consent' = [consent EXCEPT ![t] =
                   [form |-> shown[t], frame |-> ckpt[t].frame,
                    answers |-> answers]]
    BY <1>4, Zenon DEF Resume
  <2>2. /\ ckpt'[t].next = "continue"
        /\ \A u \in Threads \ {t} : ckpt'[u] = ckpt[u]
    BY <1>0, <2>1, ThreadFacts DEF Checkpoints
  <2>3. /\ consent'[t].frame = ckpt[t].frame
        /\ \A u \in Threads \ {t} : consent'[u] = consent[u]
    BY <1>0, <2>1
  <2>4. ckpt[t].next = "review"
    BY <1>4 DEF Resume
  <2>5. /\ ckpt[t].frame.token \in Tokens
        /\ ~ Consents(consent[t]) /\ ~ AcceptsForm(consent[t])
    BY <1>0, <2>4, ThreadFacts DEF ConsentOf, AcceptsForm
  <2>6. rounds[ckpt[t].frame.token].binding = None
    BY <1>0, <2>5, OpenRound DEF Holds
  <2>7. Consented(t)' /\ Token(t)' = ckpt[t].frame.token
    <3>1. NoConsent.frame.token \notin Tokens
      BY CommitGapAssumption DEF NoConsent, NoFrame
    <3> QED
      BY <2>3, <2>5, <3>1 DEF Consented, Token
  <2>8. EffectOf(t)' = 0 /\ EffectOf(t) = 0
    BY <1>0, <2>5, <2>6, <2>7, ConsentTerms DEF EffectOf, Bound
  <2>9. Decision(t) = "none" /\ Decision(t)' \in {"accepted", "rejected"}
    BY <2>5, <2>7, ConsentTerms DEF Decision
  <2>10. Outcome(t)' = Outcome(t)
    BY <2>2, <2>4 DEF Outcome
  <2>11. Promise!Decide(t)
    BY <1>1, <2>2, <2>3, <2>8, <2>9, <2>10, AsDecide
  <2> QED
    BY <2>11 DEF Promise!Next
<1>5. CASE Finish(t)
  <2>1. /\ ckpt[t].next = "finish" /\ UNCHANGED consent
        /\ ckpt'[t].next = "end"
        /\ ckpt'[t].result = ckpt[t].frame.result
        /\ \A u \in Threads \ {t} : ckpt'[u] = ckpt[u]
    BY <1>0, <1>5, ThreadFacts DEF Finish, Checkpoints
  <2>2. /\ Consents(consent[t])
        /\ Reports("receipt", consent[t], rounds, effects,
                   ckpt[t].frame.result)
        /\ ErrorOf(aborts[t], consent[t], ckpt[t].frame.result)
    BY <1>0, <2>1, ThreadFacts, AnswerFacts DEF ConsentOf, ReportOf, AnswerOf
  <2>3. /\ ckpt[t].frame.result.effect = EffectOf(t)
        /\ Decision(t) = "rejected" \/ EffectOf(t) # 0
    <3>1. CASE AcceptsForm(consent[t])
      <4>1. /\ Bound(Token(t))
            /\ ckpt[t].frame.result = rounds[Token(t)].result
        BY <2>2, <3>1, ConsentTerms DEF Reports, Bound
      <4>2. EffectOf(t) = rounds[Token(t)].result.effect
        BY <2>2, <4>1, ConsentTerms DEF EffectOf
      <4> QED
        BY <2>2, <4>1, <4>2, Mapped
    <3>2. CASE ~ AcceptsForm(consent[t])
      <4>1. ckpt[t].frame.result.effect = 0
        BY <2>2, <3>2 DEF Reports, ErrorOf
      <4> QED
        BY <2>2, <3>2, <4>1, Mapped
    <3> QED
      BY <3>1, <3>2
  <2>4. ~ Outcome(t).done
    BY <2>1 DEF Outcome
  <2>5. Outcome(t)' = [done |-> TRUE, effect |-> EffectOf(t)]
    BY <2>1, <2>3 DEF Outcome
  <2>6. Decision(t)' = Decision(t) /\ EffectOf(t)' = EffectOf(t)
    BY <1>0, <2>1 DEF Decision, EffectOf, Consented, Accepted, Token, Bound
  <2>7. Promise!Report(t)
    BY <1>1, <2>1, <2>3, <2>4, <2>5, <2>6, AsReport
  <2> QED
    BY <2>7 DEF Promise!Next
<1>6. Invoke(t) \/ BeginCall(t) \/ ContinueCall(t) \/ Review(t)
          \/ RoundLimit(t) \/ Abort(t) => UNCHANGED <<ckpt, consent>>
  BY DEF Invoke, BeginCall, ContinueCall, CallTool, Review, RoundLimit, Abort
<1> QED
  BY <1>2, <1>3, <1>4, <1>5, <1>6 DEF Client

\* The commit is the effect, at an id that no other operation has.
LEMMA ServePromise ==
    ASSUME IInv("receipt"), Answering, NEW r \in requests,
           ServeInitial(r) \/ ServeContinuation(r)
    PROVE  Promise!Next \/ UNCHANGED Promise!vars
<1>0. "receipt" \in MODES
  BY DEF MODES
<1>1. UNCHANGED <<ckpt, consent>> /\ \A t \in Threads : Outcome(t)' = Outcome(t)
  <2>1. UNCHANGED <<ckpt, consent>>
    BY DEF ServeInitial, ServeContinuation, Deliver
  <2> QED
    BY <2>1 DEF Outcome
<1>2. \A t \in Threads : Consents(consent[t]) => Token(t) \in Tokens
  BY Mapped
<1>3. CASE ServeInitial(r)
  <2>1. \A k \in Tokens : /\ rounds'[k].binding = rounds[k].binding
                          /\ rounds'[k].result = rounds[k].result
    BY <1>3 DEF ServeInitial, Issue, IInv, TypeOK, StoreTypeOK, Rows
  <2> QED
    BY <1>1, <1>2, <2>1, SameIf, AsStutter
<1>4. CASE ServeContinuation(r)
  <2> DEFINE t == r.thread
             c == consent[t]
             call == ServerCall(r)
             id == Len(effects) + 1
  <2>1. /\ r.token # NoToken /\ Complete("receipt", call)
        /\ Commits("receipt", call) => Len(effects) < MaxEffects
    BY <1>4 DEF IInv, ServeContinuation
  <2>2. /\ t \in Threads /\ Consents(c) /\ r.token \in Tokens
        /\ r.token = c.frame.token /\ r.answers = c.answers
        /\ Token(t) = r.token
    BY <1>0, <2>1, RequestFacts, ConsentTerms DEF RequestOf
  <2>3. CASE ~ Commits("receipt", call)
    <3>1. rounds' = rounds
      BY <2>1, <2>3 DEF Complete, storeVars
    <3> QED
      BY <1>1, <3>1, SameIf, AsStutter
  <2>4. CASE Commits("receipt", call)
    <3>1. /\ AcceptsForm(c) /\ ~ Bound(r.token)
          /\ Reply("receipt", call) = Success(id, ARGS)
      BY <2>2, <2>4
         DEF Commits, Settled, ServerCall, AcceptsForm, Reply
    <3>2. /\ rounds \in [Tokens -> Rows] /\ Len(effects) \in Nat
          /\ DOMAIN effects = 1 .. Len(effects)
      BY EffectsTyped DEF IInv, TypeOK, StoreTypeOK
    <3>3. /\ rounds'[r.token].binding = Binding(call)
          /\ rounds'[r.token].result = Success(id, ARGS)
          /\ \A k \in Tokens : k # r.token => rounds'[k] = rounds[k]
      BY <2>1, <2>2, <2>4, <3>1, <3>2 DEF Complete, ServerCall, Rows
    <3>4. Binding(call) # None
      BY <2>2, ThreadFacts, <1>0, CommitGapAssumption
         DEF Binding, Bindings, ServerCall
    <3>5. EffectOf(t) = 0 /\ EffectOf(t)' = id /\ Decision(t)' = Decision(t)
      BY <1>1, <2>2, <3>1, <3>3, <3>4, ConsentTerms
         DEF EffectOf, Bound, Decision, Consented, Consents, Accepted, Token,
             Success
    <3>6. Decision(t) = "accepted"
      BY <2>2, <3>1, Mapped
    <3>7. \A u \in Threads : EffectOf(u) # id
      BY <3>2, Mapped
    <3>8. ASSUME NEW u \in Threads \ {t} PROVE Same(u)
      <4>1. Consents(consent[u]) => Token(u) # r.token
        BY <1>2, <2>2, ConsentTerms DEF IInv, Parts, Owning, Holds
      <4> QED
        BY <1>1, <1>2, <3>3, <4>1, SameIf
    <3>9. id \in 1 .. MaxEffects
      BY <2>1, <2>4, <3>2, CommitGapAssumption
    <3>10. Promise!TakeEffect(t)
      BY <1>1, <2>2, <3>5, <3>6, <3>7, <3>8, <3>9, AsTakeEffect
    <3> QED
      BY <2>2, <3>10 DEF Promise!Next
  <2> QED
    BY <2>3, <2>4
<1> QED
  BY <1>3, <1>4

LEMMA StepPromise ==
    ASSUME IInv("receipt"), Answering, [Next]_vars
    PROVE  [Promise!Next]_(Promise!vars)
<1>1. ASSUME UNCHANGED <<ckpt, consent, rounds>>
      PROVE  UNCHANGED Promise!vars
  <2>1. \A t \in Threads : Outcome(t)' = Outcome(t)
    BY <1>1 DEF Outcome
  <2> QED
    BY <1>1, <2>1, SameIf, AsStutter
<1>2. CASE UNCHANGED vars \/ Done
  BY <1>1, <1>2 DEF vars, Done
<1>3. ASSUME NEW t \in Threads, NEW answers \in Resumes,
             ChangedRepeat(t, answers)
      PROVE  UNCHANGED vars
  <2>1. "receipt" \in MODES
    BY DEF MODES
  <2> QED
    BY <1>3, <2>1, ChangedRepeatStep
<1>4. ASSUME NEW r \in requests, Lose(r), UNCHANGED <<storeVars, storeMode>>
      PROVE  UNCHANGED Promise!vars
  BY <1>1, <1>4 DEF Lose, storeVars
<1> QED
  BY <1>1, <1>2, <1>3, <1>4, ClientPromise, ServePromise DEF Next, vars

\* If the store can only be opened with receipts, the whole system - clients
\* that crash and repeat, calls that are lost or late, the store - implements
\* what a confirmed operation promises: one decision, at most one effect that
\* belongs to it alone, and a report of that very effect ("The complete
\* original result ... was returned unchanged").
THEOREM ReceiptImplementsPromise ==
    ASSUME ReceiptOnly
    PROVE  Spec => Promise!Safety
<1>1. Init => Promise!Init
  BY InitPromise
<1>2. Safe => IInv("receipt") /\ Answering
  BY DEF Safe, ReceiptOnly, IInv, TypeOK
<1>3. Safe /\ [Next]_vars => [Promise!Next]_(Promise!vars)
  BY <1>2, StepPromise
<1> QED
  BY <1>1, <1>3, SpecSafe, PTL DEF Spec, Promise!Safety
-----------------------------------------------------------------------------
(***************************************************************************)
(* The experiment of GapEvidence.  Its logs are histories of the steps     *)
(* above; the invariant says what a thread that keeps to the script has in *)
(* them at each point, and what is left of it in the store.                *)
(***************************************************************************)
Entries == [state : Tokens \cup {NoToken}, answers : AnswerMaps,
            result : Frames(Tokens, Arguments, Results),
            effects : Seq(Effects), rounds : [Tokens -> Rows]]
WireRows == [state : Tokens \cup {NoToken}, answers : AnswerMaps,
             result : Frames(Tokens, Arguments, Results)]
Crashes == [found : {"crash"}, effects : Seq(Effects),
            rounds : [Tokens -> Rows]]

LogTypes ==
    /\ wire \in [Threads -> Seq(WireRows)]
    /\ served \in [Threads -> Seq(Entries)]
    /\ crash \in [Threads -> {NoCrash, OffScript} \cup Crashes]

\* The labels that a table has for a token.
Own(labels, tok) == {i \in DOMAIN labels : labels[i].token = tok}

\* What was read earlier, e, of tables that are now rows and labels.
Past(e, rows, labels) ==
    /\ Len(e.effects) <= Len(labels)
    /\ \A i \in 1 .. Len(e.effects) : e.effects[i] = labels[i]
    /\ \A tok \in Tokens :
           ~ rows[tok].issued => e.rounds[tok] = Unissued

OfRound(e, c) == e.state = c.frame.token /\ e.answers = c.answers
Opens(e, frame) == e.state = NoToken /\ e.result = frame

\* The entry e of the call that committed the label of c's round.
Committed(m, c, rows, labels, e) ==
    LET tok == c.frame.token
    IN  /\ OfRound(e, c) /\ Past(e, rows, labels)
        /\ Own(e.effects, tok) = {e.result.result.effect}
        /\ rows[tok].binding # None
        /\ m = "receipt" => rows[tok].result = e.result.result
        /\ m # "naive" => rows[tok] = e.rounds[tok]

\* The answer to the repeated call, and the round's labels after it.
Repeated(m, first, again, own) ==
    CASE m = "naive" ->
           ~ again.isError /\ again.effect # 1 /\ own = {1, again.effect}
      [] m = "closed_guard" -> again = Refusal("closed") /\ own = {1}
      [] m = "receipt" -> again = first /\ own = {1}

\* Up to the answer: the form, and nothing else.
BeforeOf(ck, frame, log) ==
    /\ ck.next = "begin" =>
           IF frame = NoFrame THEN log = <<>>
           ELSE Len(log) = 1 /\ Opens(log[1], frame)
    /\ ck.next = "review" => Len(log) = 1 /\ Opens(log[1], ck.frame)

\* The answer is durable, and the reply not yet.
AskedOf(m, ck, frame, c, rows, labels, log) ==
    LET tok == c.frame.token
    IN  ck.next = "continue" =>
            /\ Opens(log[1], c.frame)
            /\ frame = NoFrame => Len(log) = 1 /\ rows[tok].binding = None
            /\ frame # NoFrame =>
                   /\ Len(log) = 2 /\ OfRound(log[2], c)
                   /\ log[2].result = frame
                   /\ ~ frame.result.isError =>
                          /\ Committed(m, c, rows, labels, log[2])
                          /\ rows[tok] = log[2].rounds[tok]
                          /\ Own(labels, tok) = {frame.result.effect}

\* After the exit: x is what was found of it.
CutOf(m, ck, frame, c, rows, labels, log, x) ==
    LET tok == c.frame.token
        first == log[2].result.result
        waits == ck.next = "continue" /\ frame = NoFrame
    IN  /\ ck.next \in {"continue", "finish", "end"}
        /\ Len(log) \in 2 .. 4
        /\ Opens(log[1], c.frame)
        /\ Committed(m, c, rows, labels, log[2])
        /\ ~ first.isError /\ first.effect = 1
        /\ Past(x, rows, labels) /\ Own(x.effects, tok) = {1}
        /\ x.rounds[tok] = log[2].rounds[tok]
        /\ waits => Len(log) = 2 /\ Own(labels, tok) = {1}
        /\ ~ waits =>
               /\ Len(log) >= 3 /\ OfRound(log[3], c)
               /\ log[3].result = IF ck.next = "continue" THEN frame
                                  ELSE ck.frame
               /\ Repeated(m, first, log[3].result.result, Own(labels, tok))
        /\ Len(log) = 4 =>
               /\ ck.next = "end" /\ m = "receipt"
               /\ log[4].state = tok
               /\ log[4].result.result = Refusal("mismatch")

LogOf(m, ck, frame, c, rows, labels, log, x) ==
    /\ x = NoCrash =>
           /\ BeforeOf(ck, frame, log)
           /\ AskedOf(m, ck, frame, c, rows, labels, log)
    /\ x \notin {NoCrash, OffScript} =>
           CutOf(m, ck, frame, c, rows, labels, log, x)

\* A client that keeps to the script has recorded all that the server has, and
\* awaits every call of its that is on the way.
Following ==
    /\ \A t \in Threads : crash[t] # OffScript => SameCalls(t)
    /\ \A r \in requests :
           crash[r.thread] # OffScript => r.attempt = aborts[r.thread]

Fresh == \A tok \in Tokens : ~ rounds[tok].issued => rounds[tok] = Unissued

Logs(m) ==
    \A t \in Threads :
        LogOf(m, ckpt[t], inbox[t], consent[t], rounds, effects, served[t],
              crash[t])

EInv(m) == LogTypes /\ Following /\ Fresh /\ Logs(m)

LEMMA EvidenceInitInv ==
    ASSUME NEW m \in MODES, EvidenceInit, storeMode = m
    PROVE  EInv(m)
<1>1. /\ \A t \in Threads : /\ wire[t] = <<>> /\ served[t] = <<>>
                            /\ crash[t] = NoCrash
                            /\ ckpt[t].next = "begin" /\ inbox[t] = NoFrame
      /\ requests = {}
      /\ \A tok \in Tokens : rounds[tok] = Unissued
  BY DEF EvidenceInit, Init, ClientInit, StoreInit, NewThread
<1>2. LogTypes
  BY DEF EvidenceInit, LogTypes
<1>3. Following
  BY <1>1 DEF Following, SameCalls
<1>4. Fresh
  BY <1>1 DEF Fresh
<1>5. Logs(m)
  BY <1>1 DEF Logs, LogOf, BeforeOf, AskedOf
<1> QED
  BY <1>2, <1>3, <1>4, <1>5 DEF EInv

\* What the invariants give for the logs of one thread.
LEMMA LogFacts ==
    ASSUME NEW m \in MODES, EInv(m), NEW t \in Threads
    PROVE  /\ served[t] \in Seq(Entries) /\ Len(served[t]) \in Nat
           /\ DOMAIN served[t] = 1 .. Len(served[t])
           /\ \A i \in 1 .. Len(served[t]) : served[t][i] \in Entries
           /\ wire[t] \in Seq(WireRows) /\ Len(wire[t]) \in Nat
           /\ DOMAIN wire[t] = 1 .. Len(wire[t])
           /\ crash[t] \in {NoCrash, OffScript} \cup Crashes
           /\ crash[t] # OffScript => SameCalls(t)
           /\ LogOf(m, ckpt[t], inbox[t], consent[t], rounds, effects,
                    served[t], crash[t])
<1>1. served[t] \in Seq(Entries) /\ wire[t] \in Seq(WireRows)
  BY DEF EInv, LogTypes
<1>2. /\ Len(served[t]) \in Nat /\ Len(wire[t]) \in Nat
      /\ DOMAIN served[t] = 1 .. Len(served[t])
      /\ DOMAIN wire[t] = 1 .. Len(wire[t])
      /\ \A i \in 1 .. Len(served[t]) : served[t][i] \in Entries
  BY <1>1, LenProperties, ElementOfSeq
<1> QED
  BY <1>1, <1>2 DEF EInv, LogTypes, Following, Logs

\* The tables of a later state: rows are added and rounds issued.
Extends ==
    /\ Len(effects) <= Len(effects')
    /\ \A i \in 1 .. Len(effects) : effects'[i] = effects[i]
    /\ \A tok \in Tokens : rounds[tok].issued => rounds'[tok].issued
    /\ effects \in Seq(Effects) /\ effects' \in Seq(Effects)

LEMMA PastGrows ==
    ASSUME NEW e, e.effects \in Seq(Effects), Past(e, rounds, effects), Extends
    PROVE  Past(e, rounds', effects')
<1>1. /\ Len(e.effects) \in Nat /\ Len(effects) \in Nat
      /\ Len(effects') \in Nat
  BY LenProperties DEF Extends
<1> QED
  BY <1>1 DEF Past, Extends

\* The log of a thread stays true while the tables grow by the rounds and the
\* labels of others.
LEMMA LogGrows ==
    ASSUME NEW m \in MODES, IInv(m), EInv(m), NEW t \in Threads, Extends,
           Consents(consent[t]) =>
               LET tok == consent[t].frame.token
               IN  /\ rounds'[tok] = rounds[tok]
                   /\ Own(effects', tok) = Own(effects, tok)
    PROVE  LogOf(m, ckpt[t], inbox[t], consent[t], rounds', effects',
                 served[t], crash[t])
<1> DEFINE c == consent[t]
           tok == c.frame.token
           log == served[t]
<1>1. /\ LogOf(m, ckpt[t], inbox[t], c, rounds, effects, log, crash[t])
      /\ Len(log) \in Nat /\ \A i \in 1 .. Len(log) : log[i] \in Entries
      /\ crash[t] \in {NoCrash, OffScript} \cup Crashes
  BY LogFacts
<1>2. ckpt[t].next \notin {"begin", "review"} => Consents(c)
  BY ThreadFacts DEF ConsentOf
<1>3. ASSUME NEW i \in 1 .. Len(log), Past(log[i], rounds, effects)
      PROVE  Past(log[i], rounds', effects')
  BY <1>1, <1>3, PastGrows DEF Entries
<1>4. CASE crash[t] = NoCrash
  <2>1. BeforeOf(ckpt[t], inbox[t], log)
    BY <1>1, <1>4 DEF LogOf
  <2>2. AskedOf(m, ckpt[t], inbox[t], c, rounds', effects', log)
    <3>1. CASE ckpt[t].next # "continue"
      BY <3>1 DEF AskedOf
    <3>2. CASE ckpt[t].next = "continue"
      <4>1. /\ rounds'[tok] = rounds[tok]
            /\ Own(effects', tok) = Own(effects, tok)
        BY <1>2, <3>2
      <4>2. Committed(m, c, rounds, effects, log[2]) /\ Len(log) = 2 =>
                Committed(m, c, rounds', effects', log[2])
        BY <1>3, <4>1 DEF Committed
      <4> QED
        BY <1>1, <1>4, <3>2, <4>1, <4>2 DEF LogOf, AskedOf
    <3> QED
      BY <3>1, <3>2
  <2> QED
    BY <1>4, <2>1, <2>2 DEF LogOf
<1>5. CASE crash[t] \in Crashes
  <2>1. CutOf(m, ckpt[t], inbox[t], c, rounds, effects, log, crash[t])
    BY <1>1, <1>5 DEF LogOf, Crashes, NoCrash, OffScript
  <2>2. /\ rounds'[tok] = rounds[tok]
        /\ Own(effects', tok) = Own(effects, tok)
        /\ 2 \in 1 .. Len(log)
    BY <1>1, <1>2, <2>1 DEF CutOf
  <2>3. Committed(m, c, rounds', effects', log[2])
    BY <1>3, <2>1, <2>2 DEF CutOf, Committed
  <2>4. Past(crash[t], rounds', effects')
    BY <1>5, <2>1, PastGrows DEF CutOf, Crashes
  <2>5. CutOf(m, ckpt[t], inbox[t], c, rounds', effects', log, crash[t])
    BY <2>1, <2>2, <2>3, <2>4 DEF CutOf
  <2> QED
    BY <1>5, <2>5 DEF LogOf, Crashes, NoCrash, OffScript
<1>6. CASE crash[t] = OffScript
  BY <1>6 DEF LogOf, NoCrash, OffScript
<1> QED
  BY <1>1, <1>4, <1>5, <1>6

\* An entry that is appended comes after the others.
LEMMA AppendFacts ==
    ASSUME NEW S, NEW log \in Seq(S), NEW e \in S
    PROVE  /\ Append(log, e) \in Seq(S) /\ Len(log) \in Nat
           /\ Len(Append(log, e)) = Len(log) + 1
           /\ DOMAIN Append(log, e) = 1 .. Len(log) + 1
           /\ \A i \in 1 .. Len(log) : Append(log, e)[i] = log[i]
           /\ Append(log, e)[Len(log) + 1] = e
BY AppendProperties, LenProperties

\* What a recorded call makes of the logs.
LEMMA LogCases ==
    ASSUME NEW m \in MODES, EInv(m), NEW t \in Threads, NEW state, NEW answers,
           NEW result, NEW received,
           Log(t, state, answers, result, received),
           Emitted(state, answers, result) \in Entries,
           Row(state, answers, result) \in WireRows,
           crash[t] # OffScript => received
    PROVE  /\ LogTypes'
           /\ \A u \in Threads \ {t} :
                  /\ wire'[u] = wire[u] /\ served'[u] = served[u]
                  /\ crash'[u] = crash[u]
           /\ \/ crash'[t] = OffScript
              \/ /\ crash'[t] = crash[t] /\ crash[t] # OffScript
                 /\ Len(served[t]) # 4
                 /\ Len(served'[t]) = Len(served[t]) + 1
                 /\ \A i \in 1 .. Len(served[t]) :
                        served'[t][i] = served[t][i]
                 /\ served'[t][Len(served[t]) + 1]
                        = Emitted(state, answers, result)
                 /\ SameCalls(t)'
<1> DEFINE new == Emitted(state, answers, result)
           row == Row(state, answers, result)
<1>1. LogTypes
  BY DEF EInv
<1>2. CASE crash[t] = OffScript
  <2>1. UNCHANGED <<wire, served, crash>>
    BY <1>2 DEF Log
  <2> QED
    BY <1>1, <1>2, <2>1 DEF LogTypes
<1>3. CASE crash[t] # OffScript /\ Len(served[t]) = 4
  <2>1. Forget(t)
    BY <1>3 DEF Log, MaxCalls
  <2> QED
    BY <1>1, <2>1 DEF LogTypes, Forget
<1>4. CASE crash[t] # OffScript /\ Len(served[t]) # 4
  <2>1. /\ served' = [served EXCEPT ![t] = Append(@, new)]
        /\ wire' = [wire EXCEPT ![t] = Append(@, row)]
        /\ crash' = crash
    BY <1>4 DEF Log, MaxCalls
  <2>2. /\ served'[t] = Append(served[t], new)
        /\ wire'[t] = Append(wire[t], row)
        /\ \A u \in Threads \ {t} :
               wire'[u] = wire[u] /\ served'[u] = served[u]
    BY <1>1, <2>1 DEF LogTypes
  <2>3. /\ served'[t] \in Seq(Entries) /\ Len(served[t]) \in Nat
        /\ Len(served'[t]) = Len(served[t]) + 1
        /\ \A i \in 1 .. Len(served[t]) : served'[t][i] = served[t][i]
        /\ served'[t][Len(served[t]) + 1] = new
    BY <2>2, LogFacts, AppendFacts
  <2>4. /\ wire'[t] \in Seq(WireRows)
        /\ Len(wire'[t]) = Len(wire[t]) + 1
        /\ DOMAIN wire'[t] = 1 .. Len(wire[t]) + 1
        /\ \A i \in 1 .. Len(wire[t]) : wire'[t][i] = wire[t][i]
        /\ wire'[t][Len(wire[t]) + 1] = row
    BY <2>2, LogFacts, AppendFacts
  <2>5. LogTypes'
    BY <1>1, <2>1, <2>3, <2>4 DEF LogTypes
  <2>6. /\ Len(wire[t]) = Len(served[t])
        /\ \A i \in 1 .. Len(wire[t]) :
               wire[t][i] = Row(served[t][i].state, served[t][i].answers,
                                served[t][i].result)
    BY <1>4, LogFacts DEF SameCalls
  <2>7. row = Row(new.state, new.answers, new.result)
    BY DEF Row, Emitted
  <2>8. SameCalls(t)'
    <3> SUFFICES ASSUME NEW i \in 1 .. Len(wire[t]) + 1
                 PROVE  wire'[t][i] = Row(served'[t][i].state,
                            served'[t][i].answers, served'[t][i].result)
      BY <2>3, <2>4, <2>6 DEF SameCalls, Row
    <3>1. CASE i = Len(wire[t]) + 1
      BY <2>3, <2>4, <2>6, <2>7, <3>1
    <3>2. CASE i # Len(wire[t]) + 1
      <4>1. i \in 1 .. Len(wire[t])
        BY <2>3, <2>6, <3>2
      <4> QED
        BY <2>3, <2>4, <2>6, <4>1
    <3> QED
      BY <3>1, <3>2
  <2> QED
    BY <1>4, <2>1, <2>2, <2>3, <2>5, <2>8
<1> QED
  BY <1>2, <1>3, <1>4

\* A step of thread t leaves the logs of the others true, if it touches no
\* round but t's own and one that nobody had.
LEMMA OthersKeep ==
    ASSUME NEW m \in MODES, IInv(m), EInv(m), NEW t \in Threads, Extends,
           \A u \in Threads \ {t} :
               /\ ckpt'[u] = ckpt[u] /\ inbox'[u] = inbox[u]
               /\ consent'[u] = consent[u] /\ served'[u] = served[u]
               /\ crash'[u] = crash[u],
           \A tok \in Tokens :
               rounds[tok].issued
               /\ ~ Holds(ckpt[t], inbox[t], consent[t], tok) =>
                   /\ rounds'[tok] = rounds[tok]
                   /\ Own(effects', tok) = Own(effects, tok),
           LogOf(m, ckpt'[t], inbox'[t], consent'[t], rounds', effects',
                 served'[t], crash'[t])
    PROVE  Logs(m)'
<1> SUFFICES ASSUME NEW u \in Threads \ {t}
             PROVE  LogOf(m, ckpt[u], inbox[u], consent[u], rounds', effects',
                          served[u], crash[u])
  BY DEF Logs
<1>1. ASSUME Consents(consent[u])
      PROVE  LET tok == consent[u].frame.token
             IN  /\ rounds'[tok] = rounds[tok]
                 /\ Own(effects', tok) = Own(effects, tok)
  <2>1. consent[u].frame.token \in Tokens
    BY <1>1, ThreadFacts DEF ConsentOf
  <2>2. Holds(ckpt[u], inbox[u], consent[u], consent[u].frame.token)
    BY <1>1 DEF Holds
  <2>3. /\ rounds[consent[u].frame.token].issued
        /\ ~ Holds(ckpt[t], inbox[t], consent[t], consent[u].frame.token)
    BY <2>1, <2>2 DEF IInv, Parts, Owning
  <2> QED
    BY <2>1, <2>3
<1> QED
  BY <1>1, LogGrows

\* A client's step records nothing: what it receives, it had recorded.
LEMMA ClientLogs ==
    ASSUME NEW m \in MODES, IInv(m), EInv(m), NEW t \in Threads, ClientStep(t)
    PROVE  EInv(m)'
<1> DEFINE log == served[t]
           c == consent[t]
<1>0. /\ rounds' = rounds /\ effects' = effects
      /\ UNCHANGED <<wire, served, crash, aborts>>
  BY DEF ClientStep, storeVars, Invoke, BeginCall, ContinueCall, CallTool,
     BeginReturns, ContinueReturns, Received, Review, RoundLimit, Resume,
     Finish
<1>1. /\ DOMAIN ckpt = Threads /\ DOMAIN inbox = Threads
      /\ DOMAIN consent = Threads
  BY DEF IInv, TypeOK, ClientTypeOK
<1>2. /\ \A u \in Threads \ {t} :
             /\ ckpt'[u] = ckpt[u] /\ inbox'[u] = inbox[u]
             /\ consent'[u] = consent[u]
      /\ \A r \in requests' :
             r \in requests \/ (r.thread = t /\ r.attempt = aborts[t])
  <2>1. CASE Resume(t)
    BY <1>1, <2>1 DEF Resume
  <2>2. CASE Finish(t)
    BY <1>1, <2>2 DEF Finish
  <2>3. CASE BeginReturns(t) \/ ContinueReturns(t)
    BY <1>1, <2>3 DEF BeginReturns, ContinueReturns, Received
  <2>4. CASE BeginCall(t) \/ ContinueCall(t)
    BY <1>1, <2>4 DEF BeginCall, ContinueCall, CallTool
  <2>5. CASE Invoke(t) \/ Review(t) \/ RoundLimit(t)
    BY <1>1, <2>5 DEF Invoke, Review, RoundLimit
  <2> QED
    BY <2>1, <2>2, <2>3, <2>4, <2>5 DEF ClientStep
<1>3. /\ LogOf(m, ckpt[t], inbox[t], c, rounds, effects, log, crash[t])
      /\ Len(log) \in Nat /\ crash[t] \in {NoCrash, OffScript} \cup Crashes
  BY LogFacts
<1>4. LogOf(m, ckpt'[t], inbox'[t], consent'[t], rounds, effects, log,
            crash[t])
  <2>1. CASE UNCHANGED <<ckpt, inbox, consent>>
    BY <1>3, <2>1
  <2>2. CASE BeginReturns(t)
    <3>1. /\ ckpt'[t].next = "review" /\ ckpt'[t].frame = inbox[t]
          /\ ckpt[t].next = "begin" /\ inbox[t] # NoFrame
      BY <1>1, <2>2, ThreadFacts
         DEF BeginReturns, Received, ReplyOf, Checkpoints
    <3>2. crash[t] \in {NoCrash, OffScript}
      BY <1>3, <3>1 DEF LogOf, CutOf
    <3> QED
      BY <1>3, <3>1, <3>2 DEF LogOf, BeforeOf, AskedOf
  <2>3. CASE ContinueReturns(t)
    <3>1. /\ ckpt'[t].next = "finish" /\ ckpt'[t].frame = inbox[t]
          /\ ckpt[t].next = "continue" /\ inbox[t] # NoFrame
          /\ consent'[t] = c
      BY <1>1, <2>3, ThreadFacts
         DEF ContinueReturns, Received, ReplyOf, Checkpoints
    <3>2. CASE crash[t] \in {NoCrash, OffScript}
      BY <3>1, <3>2 DEF LogOf, BeforeOf, AskedOf
    <3>3. CASE crash[t] \notin {NoCrash, OffScript}
      <4>1. CutOf(m, ckpt[t], inbox[t], c, rounds, effects, log, crash[t])
        BY <1>3, <3>3 DEF LogOf
      <4>2. CutOf(m, ckpt'[t], inbox'[t], c, rounds, effects, log, crash[t])
        BY <3>1, <4>1 DEF CutOf
      <4> QED
        BY <3>1, <3>3, <4>2 DEF LogOf
    <3> QED
      BY <3>2, <3>3
  <2>4. CASE Resume(t)
    <3>1. /\ ckpt[t].next = "review" /\ ckpt'[t].next = "continue"
          /\ ckpt'[t].frame = ckpt[t].frame
          /\ consent'[t].frame = ckpt[t].frame
          /\ inbox'[t] = NoFrame /\ inbox[t] = NoFrame
      BY <1>1, <2>4, ThreadFacts DEF Resume, Checkpoints
    <3>2. crash[t] \in {NoCrash, OffScript}
      BY <1>3, <3>1 DEF LogOf, CutOf
    <3>3. rounds[ckpt[t].frame.token].binding = None
      <4>1. ~ AcceptsForm(c) /\ ckpt[t].frame.token \in Tokens
        BY <3>1, ThreadFacts DEF ConsentOf, AcceptsForm
      <4>2. Holds(ckpt[t], inbox[t], c, ckpt[t].frame.token)
        BY DEF Holds
      <4> QED
        BY <4>1, <4>2, OpenRound
    <3> QED
      BY <1>3, <3>1, <3>2, <3>3 DEF LogOf, BeforeOf, AskedOf
  <2>5. CASE Finish(t)
    <3>1. /\ ckpt'[t].next = "end" /\ ckpt'[t].frame = ckpt[t].frame
          /\ ckpt[t].next = "finish" /\ inbox'[t] = inbox[t]
          /\ consent'[t] = c
      BY <1>1, <2>5, ThreadFacts DEF Finish, Checkpoints
    <3>2. CASE crash[t] \in {NoCrash, OffScript}
      BY <3>1, <3>2 DEF LogOf, BeforeOf, AskedOf
    <3>3. CASE crash[t] \notin {NoCrash, OffScript}
      <4>1. CutOf(m, ckpt[t], inbox[t], c, rounds, effects, log, crash[t])
        BY <1>3, <3>3 DEF LogOf
      <4>2. CutOf(m, ckpt'[t], inbox'[t], c, rounds, effects, log, crash[t])
        BY <3>1, <4>1 DEF CutOf
      <4> QED
        BY <3>1, <3>3, <4>2 DEF LogOf
    <3> QED
      BY <3>2, <3>3
  <2> QED
    BY <2>1, <2>2, <2>3, <2>4, <2>5 DEF ClientStep, Invoke, BeginCall,
       ContinueCall, CallTool, Review, RoundLimit
<1>5. LogTypes' /\ Fresh'
  BY <1>0 DEF EInv, LogTypes, Fresh
<1>6. Following'
  BY <1>0, <1>2 DEF EInv, Following, SameCalls
<1>7. Logs(m)'
  BY <1>0, <1>2, <1>4 DEF EInv, Logs
<1> QED
  BY <1>5, <1>6, <1>7 DEF EInv

\* The end of a client: the parent reads the tables after the scripted one,
\* and gives up on any other.
LEMMA ExitLogs ==
    ASSUME NEW m \in MODES, IInv(m), EInv(m), NEW t \in Threads, ClientExit(t)
    PROVE  EInv(m)'
<1> DEFINE log == served[t]
           c == consent[t]
           tok == c.frame.token
<1>1. /\ rounds' = rounds /\ effects' = effects
      /\ UNCHANGED <<ckpt, consent, requests>>
      /\ \A u \in Threads \ {t} :
             inbox'[u] = inbox[u] /\ aborts'[u] = aborts[u]
      /\ inbox'[t] = NoFrame
  BY DEF ClientExit, Abort, storeVars, IInv, TypeOK, ClientTypeOK
<1>2. /\ LogTypes /\ Following /\ Fresh
      /\ \A u \in Threads : LogOf(m, ckpt[u], inbox[u], consent[u], rounds,
                                  effects, served[u], crash[u])
      /\ \A r \in requests : r.thread \in Threads
  BY RequestFacts DEF EInv, Logs
<1>3. CASE ~ ScriptedExit(t)
  <2>1. Forget(t)
    BY <1>3 DEF ClientExit
  <2>2. /\ LogTypes' /\ crash'[t] = OffScript
        /\ \A u \in Threads \ {t} :
               /\ wire'[u] = wire[u] /\ served'[u] = served[u]
               /\ crash'[u] = crash[u]
    BY <1>2, <2>1 DEF LogTypes, Forget
  <2>3. Following'
    BY <1>1, <1>2, <2>2 DEF Following, SameCalls
  <2>4. Fresh'
    BY <1>1, <1>2 DEF Fresh
  <2>5. Logs(m)'
    BY <1>1, <1>2, <2>2 DEF Logs, LogOf, OffScript, NoCrash
  <2> QED
    BY <2>2, <2>3, <2>4, <2>5 DEF EInv
<1>4. CASE ScriptedExit(t)
  <2>1. /\ UNCHANGED <<wire, served>>
        /\ crash' = [crash EXCEPT ![t] = Found]
    BY <1>4 DEF ClientExit
  <2>2. /\ ckpt[t].next = "continue" /\ inbox[t] # NoFrame
        /\ ~ inbox[t].result.isError /\ inbox[t].result.effect = 1
        /\ crash[t] = NoCrash
    BY <1>4 DEF ScriptedExit
  <2>3. /\ Found \in Crashes /\ Found.effects = effects
        /\ Found.rounds = rounds
    BY DEF Found, Crashes, IInv, TypeOK, StoreTypeOK
  <2>4. /\ crash'[t] = Found
        /\ \A u \in Threads \ {t} : crash'[u] = crash[u]
        /\ LogTypes'
    BY <1>2, <2>1, <2>3 DEF LogTypes
  <2>5. Following'
    <3>1. \A r \in requests : r.thread # t
      <4> SUFFICES ASSUME NEW r \in requests, r.thread = t PROVE FALSE
        OBVIOUS
      <4>1. r.attempt = aborts[t]
        BY <1>2, <2>2 DEF Following, NoCrash, OffScript
      <4> QED
        BY <2>2, <4>1, RequestFacts DEF RequestOf
    <3>2. SameCalls(t)
      BY <1>2, <2>2 DEF Following, NoCrash, OffScript
    <3> QED
      BY <1>1, <1>2, <2>1, <2>4, <3>1, <3>2 DEF Following, SameCalls
  <2>6. Fresh'
    BY <1>1, <1>2 DEF Fresh
  <2>7. CutOf(m, ckpt[t], NoFrame, c, rounds, effects, log, Found)
    <3>1. AskedOf(m, ckpt[t], inbox[t], c, rounds, effects, log)
      BY <1>2, <2>2 DEF LogOf
    <3>2. /\ Opens(log[1], c.frame) /\ Len(log) = 2
          /\ log[2].result = inbox[t]
          /\ Committed(m, c, rounds, effects, log[2])
          /\ rounds[tok] = log[2].rounds[tok]
          /\ Own(effects, tok) = {1}
      BY <2>2, <3>1 DEF AskedOf
    <3>3. Past(Found, rounds, effects)
      <4>1. effects \in Seq(Effects)
        BY DEF IInv, TypeOK, StoreTypeOK
      <4>2. Len(effects) \in Nat
        BY <4>1, LenProperties
      <4> QED
        BY <1>2, <2>3, <4>2 DEF Past, Fresh
    <3> QED
      BY <2>2, <2>3, <3>2, <3>3 DEF CutOf
  <2>8. Found \notin {NoCrash, OffScript}
    BY DEF Found, NoCrash, OffScript
  <2>9. Logs(m)'
    BY <1>1, <1>2, <2>1, <2>4, <2>7, <2>8 DEF Logs, LogOf
  <2> QED
    BY <2>4, <2>5, <2>6, <2>9 DEF EInv
<1> QED
  BY <1>3, <1>4

\* call_tool raises: whoever awaits it leaves the script.
LEMMA LoseLogs ==
    ASSUME NEW m \in MODES, IInv(m), EInv(m), NEW r \in requests, LoseCall(r)
    PROVE  EInv(m)'
<1> DEFINE t == r.thread
<1>1. /\ rounds' = rounds /\ effects' = effects
      /\ UNCHANGED <<ckpt, consent, inbox>>
      /\ requests' \subseteq requests /\ t \in Threads
      /\ \A u \in Threads \ {t} : aborts'[u] = aborts[u]
  BY RequestFacts DEF LoseCall, Lose, storeVars, IInv, TypeOK, ClientTypeOK
<1>2. /\ LogTypes /\ Following /\ Fresh /\ Logs(m)
      /\ \A s \in requests : s.thread \in Threads
  BY RequestFacts DEF EInv
<1>3. /\ crash'[t] = OffScript /\ LogTypes'
      /\ \A u \in Threads \ {t} :
             /\ wire'[u] = wire[u] /\ served'[u] = served[u]
             /\ crash'[u] = crash[u]
  <2>1. CASE Awaited(r)
    <3>1. Forget(t)
      BY <2>1 DEF LoseCall
    <3> QED
      BY <1>1, <1>2, <3>1 DEF LogTypes, Forget
  <2>2. CASE ~ Awaited(r)
    <3>1. UNCHANGED <<wire, served, crash>>
      BY <2>2 DEF LoseCall
    <3>2. r.attempt # aborts[t]
      BY <2>2, RequestFacts DEF Awaited, RequestOf
    <3>3. crash[t] = OffScript
      BY <1>2, <3>2 DEF Following
    <3> QED
      BY <1>2, <3>1, <3>3 DEF LogTypes
  <2> QED
    BY <2>1, <2>2
<1>4. Following'
  BY <1>1, <1>2, <1>3 DEF Following, SameCalls
<1>5. Fresh'
  BY <1>1, <1>2 DEF Fresh
<1>6. Logs(m)'
  BY <1>1, <1>2, <1>3 DEF Logs, LogOf, OffScript, NoCrash
<1> QED
  BY <1>3, <1>4, <1>5, <1>6 DEF EInv

\* A call that is on the way from a client that keeps to the script is awaited.
LEMMA OnTheWay ==
    ASSUME NEW m \in MODES, IInv(m), EInv(m), NEW r \in requests,
           crash[r.thread] # OffScript
    PROVE  /\ r.attempt = aborts[r.thread] /\ run[r.thread] = "calling"
           /\ inbox[r.thread] = NoFrame /\ Awaited(r)
           /\ r.token = NoToken <=> ckpt[r.thread].next = "begin"
<1>1. r.attempt = aborts[r.thread]
  BY RequestFacts DEF EInv, Following
<1> QED
  BY <1>1, RequestFacts DEF RequestOf, Awaited

\* A new form is the first entry of its thread's log.
LEMMA InitialLogs ==
    ASSUME NEW m \in MODES, IInv(m), EInv(m), NEW r \in requests,
           EmitInitial(r)
    PROVE  EInv(m)'
<1> DEFINE t == r.thread
           log == served[t]
<1>1. /\ t \in Threads /\ r.token = NoToken /\ r.answers \in AnswerMaps
      /\ ServeInitial(r)
  BY RequestFacts DEF EmitInitial, ServeInitial, IInv, TypeOK, ClientTypeOK
<1>2. IInv(m)'
  BY <1>1, ServeInitialStep
<1>3. PICK tok \in Tokens :
          /\ ~ rounds[tok].issued /\ rounds'[tok].issued
          /\ Log(t, NoToken, r.answers, InputFrame(tok, Form), Awaited(r))
  BY DEF EmitInitial
<1>4. /\ Issue(ARGS, tok) /\ Deliver(r, InputFrame(tok, Form))
      /\ \A k \in Tokens \ {tok} : rounds'[k] = rounds[k]
      /\ effects' = effects
  <2>1. PICK k \in Tokens :
            Issue(ARGS, k) /\ Deliver(r, InputFrame(k, Form))
    BY <1>1 DEF ServeInitial
  <2>2. \A j \in Tokens \ {k} : rounds'[j] = rounds[j]
    BY <2>1 DEF Issue, IInv, TypeOK, StoreTypeOK
  <2>3. k = tok
    BY <1>3, <2>2
  <2> QED
    BY <2>1, <2>2, <2>3 DEF Issue
<1> DEFINE frame == InputFrame(tok, Form)
<1>5. /\ UNCHANGED <<ckpt, consent, aborts>>
      /\ requests' = requests \ {r}
      /\ \A u \in Threads \ {t} : inbox'[u] = inbox[u]
      /\ Awaited(r) => inbox'[t] = frame
  BY <1>1, <1>4 DEF Deliver, IInv, TypeOK, ClientTypeOK
<1>6. crash[t] # OffScript =>
          Awaited(r) /\ inbox[t] = NoFrame /\ ckpt[t].next = "begin"
  BY <1>1, OnTheWay
<1>7. /\ Emitted(NoToken, r.answers, frame) \in Entries
      /\ Row(NoToken, r.answers, frame) \in WireRows
  <2>1. frame \in Frames(Tokens, Arguments, Results)
    BY TypedFrames
  <2>2. effects' \in Seq(Effects) /\ rounds' \in [Tokens -> Rows]
    BY <1>2 DEF IInv, TypeOK, StoreTypeOK
  <2> QED
    BY <1>1, <2>1, <2>2 DEF Emitted, Row, Entries, WireRows
<1>8. /\ LogTypes'
      /\ \A u \in Threads \ {t} :
             /\ wire'[u] = wire[u] /\ served'[u] = served[u]
             /\ crash'[u] = crash[u]
      /\ \/ crash'[t] = OffScript
         \/ /\ crash'[t] = crash[t] /\ crash[t] # OffScript
            /\ Len(served'[t]) = Len(log) + 1
            /\ served'[t][Len(log) + 1] = Emitted(NoToken, r.answers, frame)
            /\ SameCalls(t)'
  BY <1>1, <1>3, <1>6, <1>7, LogCases
<1>9. Following'
  <2>1. \A s \in requests : s.thread \in Threads
    BY RequestFacts
  <2>2. ASSUME NEW s \in requests', crash'[s.thread] # OffScript
        PROVE  s.attempt = aborts'[s.thread]
    <3>1. s \in requests /\ crash[s.thread] # OffScript
      BY <1>5, <1>8, <2>1, <2>2
    <3> QED
      BY <1>5, <3>1 DEF EInv, Following
  <2>3. ASSUME NEW u \in Threads \ {t}, crash'[u] # OffScript
        PROVE  SameCalls(u)'
    BY <1>8, <2>3 DEF EInv, Following, SameCalls
  <2> QED
    BY <1>8, <2>2, <2>3 DEF Following
<1>10. Fresh'
  BY <1>3, <1>4 DEF EInv, Fresh
<1>11. Extends
  <2>1. effects \in Seq(Effects)
    BY DEF IInv, TypeOK, StoreTypeOK
  <2>2. Len(effects) \in Nat
    BY <2>1, LenProperties
  <2> QED
    BY <1>3, <1>4, <2>1, <2>2 DEF Extends
<1>12. LogOf(m, ckpt'[t], inbox'[t], consent'[t], rounds', effects',
             served'[t], crash'[t])
  <2>1. CASE crash'[t] = OffScript
    BY <2>1 DEF LogOf, OffScript, NoCrash
  <2>2. CASE crash'[t] # OffScript
    <3>1. /\ crash'[t] = crash[t] /\ crash[t] # OffScript
          /\ ckpt[t].next = "begin" /\ inbox[t] = NoFrame
          /\ inbox'[t] = frame
      BY <1>5, <1>6, <1>8, <2>2
    <3>2. LogOf(m, ckpt[t], NoFrame, consent[t], rounds, effects, log,
                crash[t])
      BY <1>1, <3>1, LogFacts
    <3>3. crash[t] = NoCrash
      BY <3>1, <3>2 DEF LogOf, CutOf
    <3>4. log = <<>>
      BY <3>1, <3>2, <3>3 DEF LogOf, BeforeOf
    <3>5. Len(served'[t]) = 1 /\ Opens(served'[t][1], frame)
      BY <1>8, <2>2, <3>4 DEF Opens, Emitted
    <3>6. frame # NoFrame
      BY DEF InputFrame, NoFrame
    <3> QED
      BY <1>5, <3>1, <3>3, <3>5, <3>6
         DEF LogOf, BeforeOf, AskedOf, NoCrash, OffScript
  <2> QED
    BY <2>1, <2>2
<1>13. Logs(m)'
  BY <1>1, <1>3, <1>4, <1>5, <1>8, <1>11, <1>12, OthersKeep
<1> QED
  BY <1>8, <1>9, <1>10, <1>13 DEF EInv

\* The changed answer finds another one bound, and is recorded as refused.
LEMMA RepeatLogs ==
    ASSUME NEW m \in MODES, IInv(m), EInv(m), NEW t \in Threads,
           NEW answers \in Resumes, RecordChangedRepeat(t, answers)
    PROVE  EInv(m)'
<1> DEFINE log == served[t]
           c == consent[t]
           tok == c.frame.token
           call == ServerCall([token |-> tok, answers |-> answers])
           frame == TerminalFrame(Reply(m, call))
<1>1. /\ UNCHANGED vars /\ storeMode = m
      /\ Log(t, tok, answers, frame, TRUE)
  BY ChangedRepeatStep DEF RecordChangedRepeat, Token, IInv
<1>2. /\ UNCHANGED <<ckpt, consent, aborts, requests, inbox, rounds, effects>>
      /\ answers \in AnswerMaps
  BY <1>1, CommitGapAssumption DEF vars
<1>3. /\ m = "receipt" /\ ckpt[t].status = "completed" /\ answers # c.answers
      /\ ckpt[t].next = "end"
  BY <1>1, ThreadFacts DEF RecordChangedRepeat, ChangedRepeat, ReportOf
<1>4. tok \in Tokens /\ Consents(c) /\ rounds[tok].binding # None
  BY <1>3, ThreadFacts DEF ReportOf, Reports, ConsentOf
<1>5. rounds[tok].issued /\ rounds[tok].binding = OwnBinding(c)
  BY <1>4 DEF IInv, Parts, Owning, Holds, Settling, AcceptsForm
<1>6. frame = TerminalFrame(Refusal("mismatch"))
  <2>1. call.token = tok /\ Binding(call) # OwnBinding(c)
    BY <1>3 DEF ServerCall, Binding, OwnBinding
  <2>2. ~ Unknown(call) /\ Mismatch(call)
    BY <1>4, <1>5, <2>1 DEF Unknown, Mismatch, Bound
  <2>3. ~ Commits(m, call)
    BY <2>2 DEF Commits
  <2> QED
    BY <2>2, <2>3 DEF Reply
<1>7. /\ Emitted(tok, answers, frame) \in Entries
      /\ Row(tok, answers, frame) \in WireRows
  <2>1. Refusal("mismatch") \in Results
    BY DEF Refusal, Results, Refusals
  <2>2. frame \in Frames(Tokens, Arguments, Results)
    BY <1>6, <2>1, TypedFrames
  <2>3. effects' \in Seq(Effects) /\ rounds' \in [Tokens -> Rows]
    BY <1>2 DEF IInv, TypeOK, StoreTypeOK
  <2> QED
    BY <1>2, <1>4, <2>2, <2>3 DEF Emitted, Row, Entries, WireRows
<1>8. /\ LogTypes'
      /\ \A u \in Threads \ {t} :
             /\ wire'[u] = wire[u] /\ served'[u] = served[u]
             /\ crash'[u] = crash[u]
      /\ \/ crash'[t] = OffScript
         \/ /\ crash'[t] = crash[t] /\ crash[t] # OffScript
            /\ Len(log) # 4
            /\ Len(served'[t]) = Len(log) + 1
            /\ \A i \in 1 .. Len(log) : served'[t][i] = log[i]
            /\ served'[t][Len(log) + 1] = Emitted(tok, answers, frame)
            /\ SameCalls(t)'
  BY <1>1, <1>7, LogCases
<1>9. Following'
  BY <1>2, <1>8, RequestFacts DEF EInv, Following, SameCalls
<1>10. Fresh'
  BY <1>2 DEF EInv, Fresh
<1>11. LogOf(m, ckpt[t], inbox[t], c, rounds, effects, served'[t], crash'[t])
  <2>1. CASE crash'[t] = OffScript
    BY <2>1 DEF LogOf, OffScript, NoCrash
  <2>2. CASE crash'[t] = NoCrash
    BY <1>3, <2>2 DEF LogOf, BeforeOf, AskedOf
  <2>3. CASE crash'[t] \notin {OffScript, NoCrash}
    <3>1. crash'[t] = crash[t] /\ Len(log) \in Nat
      BY <1>8, <2>3, LogFacts
    <3>2. CutOf(m, ckpt[t], inbox[t], c, rounds, effects, log, crash[t])
      BY <2>3, <3>1, LogFacts DEF LogOf
    <3>3. Len(log) = 3
      BY <1>3, <1>8, <2>3, <3>1, <3>2 DEF CutOf
    <3>4. /\ Len(served'[t]) = 4
          /\ served'[t][1] = log[1] /\ served'[t][2] = log[2]
          /\ served'[t][3] = log[3]
          /\ served'[t][4].state = tok
          /\ served'[t][4].result.result = Refusal("mismatch")
      BY <1>6, <1>8, <2>3, <3>3 DEF Emitted, TerminalFrame
    <3>5. CutOf(m, ckpt[t], inbox[t], c, rounds, effects, served'[t],
                crash[t])
      BY <1>3, <3>2, <3>3, <3>4 DEF CutOf
    <3> QED
      BY <2>3, <3>1, <3>5 DEF LogOf
  <2> QED
    BY <2>1, <2>2, <2>3
<1>12. Logs(m)'
  BY <1>2, <1>8, <1>11 DEF EInv, Logs
<1> QED
  BY <1>8, <1>9, <1>10, <1>12 DEF EInv

\* What a continuation does to the tables: the round of its thread is bound
\* and gets one label, or nothing changes.
LEMMA ContinuationTables ==
    ASSUME NEW m \in MODES, IInv(m), NEW t \in Threads, NEW call \in Calls,
           Consents(consent[t]), call.name = "preview", call.arguments = ARGS,
           call.token = consent[t].frame.token,
           call.answers = consent[t].answers, Complete(m, call)
    PROVE  LET tok == consent[t].frame.token
               id == Len(effects) + 1
               own == Own(effects, tok)
           IN  /\ Extends /\ tok \in Tokens /\ rounds[tok].issued
               /\ \A k \in Tokens \ {tok} : /\ rounds'[k] = rounds[k]
                                            /\ Own(effects', k)
                                                   = Own(effects, k)
               /\ rounds[tok].binding = None <=> own = {}
               /\ rounds[tok].binding # None => AcceptsForm(consent[t])
               /\ Commits(m, call) <=>
                      AcceptsForm(consent[t]) /\ ~ Settled(m, tok)
               /\ Commits(m, call) =>
                      /\ Reply(m, call) = Success(id, ARGS)
                      /\ Own(effects', tok) = own \cup {id} /\ id \notin own
                      /\ id \in Nat /\ \A i \in own : i < id
                      /\ rounds'[tok].binding # None
                      /\ m = "receipt" => rounds'[tok].result = Reply(m, call)
               /\ ~ Commits(m, call) =>
                      /\ rounds' = rounds /\ effects' = effects
                      /\ Reply(m, call) =
                             IF ~ Settled(m, tok) THEN Refusal("invalid")
                             ELSE IF m = "closed_guard" THEN Refusal("closed")
                             ELSE rounds[tok].result
<1> DEFINE c == consent[t]
           tok == c.frame.token
           id == Len(effects) + 1
           row == [token |-> tok, label |-> ARGS]
<1>1. tok \in Tokens /\ ~ Unknown(call) /\ ~ Mismatch(call)
  BY ThreadFacts, ContinuationKnown DEF ConsentOf
<1>2. /\ rounds[tok].binding # None => AcceptsForm(c)
      /\ Binding(call) = OwnBinding(c)
      /\ Accepts(call.answers) <=> AcceptsForm(c)
      /\ rounds[tok].issued
  BY <1>1, ContinuationKnown DEF Bound, AcceptsForm, Unknown
<1>3. Commits(m, call) <=> AcceptsForm(c) /\ ~ Settled(m, tok)
  BY <1>1, <1>2 DEF Commits
<1>4. /\ effects \in Seq(Effects) /\ rounds \in [Tokens -> Rows]
      /\ Len(effects) \in Nat /\ DOMAIN effects = 1 .. Len(effects)
      /\ row \in Effects
  BY <1>1, EffectsTyped, CommitGapAssumption
     DEF IInv, TypeOK, StoreTypeOK, Effects
<1>5. rounds[tok].binding = None <=> Own(effects, tok) = {}
  BY <1>1, <1>4
     DEF IInv, StoreInv, BoundHasEffect, EffectIsBound, Bound, EffectsOf, Own
<1>6. CASE Commits(m, call)
  <2>1. Reply(m, call) = Success(id, ARGS)
    BY <1>1, <1>6 DEF Reply
  <2>2. effects' = Append(effects, row)
    BY <1>6 DEF Complete
  <2>3. /\ effects' \in Seq(Effects) /\ Len(effects') = id
        /\ DOMAIN effects' = 1 .. id
        /\ \A i \in 1 .. Len(effects) : effects'[i] = effects[i]
        /\ effects'[id] = row
    BY <1>4, <2>2, AppendFacts
  <2>4. rounds' = [rounds EXCEPT ![tok] =
            [rounds[tok] EXCEPT !.binding = Binding(call),
                                !.result = IF m = "receipt"
                                           THEN Reply(m, call) ELSE None]]
    BY <1>1, <1>4, <1>6 DEF Complete, Rows
  <2>5. OwnBinding(c) # None
    <3>1. OwnBinding(c) \in Bindings
      BY ThreadFacts, CommitGapAssumption DEF OwnBinding, Bindings
    <3> QED
      BY <3>1, CommitGapAssumption
  <2>6. /\ rounds'[tok].binding # None
        /\ m = "receipt" => rounds'[tok].result = Reply(m, call)
        /\ rounds'[tok].issued = rounds[tok].issued
        /\ \A k \in Tokens \ {tok} : rounds'[k] = rounds[k]
    BY <1>1, <1>2, <1>4, <2>4, <2>5 DEF Rows
  <2>7. Own(effects', tok) = Own(effects, tok) \cup {id}
    BY <1>4, <2>3 DEF Own
  <2>8. \A k \in Tokens \ {tok} : Own(effects', k) = Own(effects, k)
    BY <1>4, <2>3 DEF Own
  <2>9. id \in Nat /\ \A i \in Own(effects, tok) : i < id
    BY <1>4 DEF Own
  <2>10. Extends
    <3>1. \A k \in Tokens : rounds[k].issued => rounds'[k].issued
      BY <2>6
    <3> QED
      BY <1>4, <2>3, <3>1 DEF Extends
  <2> QED
    BY <1>1, <1>2, <1>3, <1>5, <1>6, <2>1, <2>6, <2>7, <2>8, <2>9, <2>10
<1>7. CASE ~ Commits(m, call)
  <2>1. rounds' = rounds /\ effects' = effects
    BY <1>7 DEF Complete, storeVars
  <2>2. Extends
    BY <1>4, <2>1 DEF Extends
  <2>3. Reply(m, call) = IF ~ Settled(m, tok) THEN Refusal("invalid")
                         ELSE IF m = "closed_guard" THEN Refusal("closed")
                         ELSE rounds[tok].result
    BY <1>1, <1>7 DEF Reply
  <2> QED
    BY <1>1, <1>2, <1>3, <1>5, <1>7, <2>1, <2>2, <2>3
<1> QED
  BY <1>6, <1>7

\* A continuation is the second entry of the log, or, after the exit, the third.
LEMMA ContinuationLogs ==
    ASSUME NEW m \in MODES, IInv(m), EInv(m), NEW r \in requests,
           EmitContinuation(r)
    PROVE  EInv(m)'
<1> DEFINE t == r.thread
           log == served[t]
           c == consent[t]
           tok == c.frame.token
           call == ServerCall(r)
           result == Reply(m, call)
           frame == TerminalFrame(result)
           new == Emitted(r.token, r.answers, frame)
           own == Own(effects, tok)
           id == Len(effects) + 1
<1>1. /\ r.token # NoToken /\ ServeContinuation(r) /\ storeMode = m
      /\ Complete(m, call) /\ ~ Raises(m, call) /\ Deliver(r, frame)
      /\ Log(t, r.token, r.answers, frame, Awaited(r))
  BY DEF EmitContinuation, ServeContinuation, IInv
<1>2. /\ t \in Threads /\ Consents(c) /\ r.token \in Tokens
      /\ r.token = tok /\ r.answers = c.answers /\ r.answers \in AnswerMaps
  BY <1>1, RequestFacts, ThreadFacts DEF RequestOf
<1>3. call \in Calls /\ call.token = tok /\ call.answers = c.answers
      /\ call.name = "preview" /\ call.arguments = ARGS
  BY <1>2, CommitGapAssumption DEF ServerCall, Calls
<1>4. /\ Extends /\ rounds[tok].issued
      /\ \A k \in Tokens \ {tok} : /\ rounds'[k] = rounds[k]
                                   /\ Own(effects', k) = Own(effects, k)
      /\ rounds[tok].binding = None <=> own = {}
      /\ rounds[tok].binding # None => AcceptsForm(c)
      /\ Commits(m, call) <=> AcceptsForm(c) /\ ~ Settled(m, tok)
      /\ Commits(m, call) =>
             /\ result = Success(id, ARGS)
             /\ Own(effects', tok) = own \cup {id} /\ id \notin own
             /\ id \in Nat /\ \A i \in own : i < id
             /\ rounds'[tok].binding # None
             /\ m = "receipt" => rounds'[tok].result = result
      /\ ~ Commits(m, call) =>
             /\ rounds' = rounds /\ effects' = effects
             /\ result = IF ~ Settled(m, tok) THEN Refusal("invalid")
                         ELSE IF m = "closed_guard" THEN Refusal("closed")
                         ELSE rounds[tok].result
  BY <1>1, <1>2, <1>3, ContinuationTables
<1>5. IInv(m)'
  BY <1>1, ServeContinuationStep
<1>6. /\ UNCHANGED <<ckpt, consent, aborts>>
      /\ requests' = requests \ {r}
      /\ \A u \in Threads \ {t} : inbox'[u] = inbox[u]
      /\ Awaited(r) => inbox'[t] = frame
  BY <1>1, <1>2 DEF Deliver, IInv, TypeOK, ClientTypeOK
<1>7. crash[t] # OffScript =>
          Awaited(r) /\ inbox[t] = NoFrame /\ ckpt[t].next = "continue"
  BY <1>1, <1>2, OnTheWay, ThreadFacts DEF ReplyOf
<1>8. new \in Entries /\ Row(r.token, r.answers, frame) \in WireRows
  <2>1. result \in Results
    BY <1>1, <1>2, <1>3, ContinuationReply DEF Reports
  <2>2. frame \in Frames(Tokens, Arguments, Results)
    BY <2>1, TypedFrames
  <2>3. effects' \in Seq(Effects) /\ rounds' \in [Tokens -> Rows]
    BY <1>5 DEF IInv, TypeOK, StoreTypeOK
  <2> QED
    BY <1>2, <2>2, <2>3 DEF Emitted, Row, Entries, WireRows
<1>9. /\ LogTypes'
      /\ \A u \in Threads \ {t} :
             /\ wire'[u] = wire[u] /\ served'[u] = served[u]
             /\ crash'[u] = crash[u]
      /\ \/ crash'[t] = OffScript
         \/ /\ crash'[t] = crash[t] /\ crash[t] # OffScript
            /\ Len(served'[t]) = Len(log) + 1
            /\ \A i \in 1 .. Len(log) : served'[t][i] = log[i]
            /\ served'[t][Len(log) + 1] = new
            /\ SameCalls(t)'
  BY <1>1, <1>2, <1>7, <1>8, LogCases
<1>10. Following'
  <2>1. \A s \in requests : s.thread \in Threads
    BY RequestFacts
  <2>2. ASSUME NEW s \in requests', crash'[s.thread] # OffScript
        PROVE  s.attempt = aborts'[s.thread]
    <3>1. s \in requests /\ crash[s.thread] # OffScript
      BY <1>6, <1>9, <2>1, <2>2
    <3> QED
      BY <1>6, <3>1 DEF EInv, Following
  <2>3. ASSUME NEW u \in Threads \ {t}, crash'[u] # OffScript
        PROVE  SameCalls(u)'
    BY <1>9, <2>3 DEF EInv, Following, SameCalls
  <2> QED
    BY <1>9, <2>2, <2>3 DEF Following
<1>11. Fresh'
  <2>1. \A k \in Tokens \ {tok} : rounds'[k] = rounds[k]
    BY <1>4
  <2>2. rounds'[tok].issued
    BY <1>2, <1>4 DEF Extends
  <2> QED
    BY <2>1, <2>2 DEF EInv, Fresh
\* What the entry says of the call that commits.
<1>12. /\ OfRound(new, c) /\ Past(new, rounds', effects')
       /\ new.effects = effects' /\ new.rounds = rounds'
       /\ new.result = frame /\ frame.result = result /\ frame # NoFrame
  <2>1. /\ OfRound(new, c) /\ new.effects = effects' /\ new.rounds = rounds'
        /\ new.result = frame /\ frame.result = result /\ frame # NoFrame
    BY <1>2 DEF Emitted, OfRound, TerminalFrame, NoFrame
  <2>2. Len(effects') \in Nat
    BY <1>4, LenProperties DEF Extends
  <2> QED
    BY <1>11, <2>1, <2>2 DEF Past, Fresh
<1>13. LogOf(m, ckpt'[t], inbox'[t], consent'[t], rounds', effects',
             served'[t], crash'[t])
  <2>1. CASE crash'[t] = OffScript
    BY <2>1 DEF LogOf, OffScript, NoCrash
  <2>2. ASSUME crash'[t] # OffScript
        PROVE  /\ crash'[t] = crash[t] /\ crash[t] # OffScript
               /\ ckpt[t].next = "continue" /\ inbox[t] = NoFrame
               /\ inbox'[t] = frame /\ Len(log) \in Nat
               /\ LogOf(m, ckpt[t], NoFrame, c, rounds, effects, log,
                        crash[t])
               /\ Len(served'[t]) = Len(log) + 1
               /\ \A i \in 1 .. Len(log) : served'[t][i] = log[i]
               /\ served'[t][Len(log) + 1] = new
    <3>1. /\ crash'[t] = crash[t] /\ crash[t] # OffScript
          /\ ckpt[t].next = "continue" /\ inbox[t] = NoFrame
          /\ inbox'[t] = frame
      BY <1>6, <1>7, <1>9, <2>2
    <3> QED
      BY <1>2, <1>9, <2>2, <3>1, LogFacts
  <2>3. CASE crash'[t] = NoCrash
    <3>1. crash'[t] # OffScript
      BY <2>3 DEF NoCrash, OffScript
    <3>2. AskedOf(m, ckpt[t], NoFrame, c, rounds, effects, log)
      BY <2>2, <2>3, <3>1 DEF LogOf
    <3>3. /\ Len(log) = 1 /\ Opens(log[1], c.frame)
          /\ rounds[tok].binding = None /\ own = {}
      BY <1>4, <2>2, <3>1, <3>2 DEF AskedOf
    <3>4. /\ Len(served'[t]) = 2 /\ Opens(served'[t][1], c.frame)
          /\ served'[t][2] = new
      BY <2>2, <3>1, <3>3
    <3>5. ASSUME ~ result.isError
          PROVE  Committed(m, c, rounds', effects', new)
                 /\ Own(effects', tok) = {result.effect}
      <4>1. Commits(m, call)
        <5>1. ~ Settled(m, tok)
          BY <3>3 DEF Settled, Bound
        <5> QED
          BY <1>4, <3>5, <5>1 DEF Refusal
      <4>2. Own(effects', tok) = {result.effect}
        BY <1>4, <3>3, <4>1 DEF Success
      <4> QED
        BY <1>4, <1>12, <4>1, <4>2 DEF Committed
    <3>6. AskedOf(m, ckpt[t], frame, c, rounds', effects', served'[t])
      BY <1>12, <3>4, <3>5 DEF AskedOf
    <3> QED
      BY <1>6, <2>2, <2>3, <3>1, <3>6 DEF LogOf, BeforeOf
  <2>4. CASE crash'[t] \notin {NoCrash, OffScript}
    <3>1. CutOf(m, ckpt[t], NoFrame, c, rounds, effects, log, crash[t])
      BY <2>2, <2>4 DEF LogOf
    <3> DEFINE first == log[2].result.result
    <3>2. /\ Len(log) = 2 /\ Opens(log[1], c.frame) /\ own = {1}
          /\ Committed(m, c, rounds, effects, log[2])
          /\ ~ first.isError /\ first.effect = 1
          /\ Past(crash[t], rounds, effects)
          /\ Own(crash[t].effects, tok) = {1}
          /\ crash[t].rounds[tok] = log[2].rounds[tok]
      BY <2>2, <2>4, <3>1 DEF CutOf
    <3>3. /\ Len(served'[t]) = 3 /\ served'[t][1] = log[1]
          /\ served'[t][2] = log[2] /\ served'[t][3] = new
      BY <2>2, <2>4, <3>2
    <3>4. AcceptsForm(c) /\ Bound(tok)
      BY <1>4, <3>2 DEF Bound
    <3>5. /\ Repeated(m, first, result, Own(effects', tok))
          /\ rounds'[tok].binding # None
          /\ m = "receipt" => rounds'[tok].result = first
          /\ m # "naive" => rounds'[tok] = log[2].rounds[tok]
      <4>1. CASE m = "naive"
        <5>1. Commits(m, call)
          BY <1>4, <3>4, <4>1 DEF Settled
        <5>2. result.effect = id /\ ~ result.isError /\ id # 1
          BY <1>4, <3>2, <5>1 DEF Success
        <5> QED
          BY <1>4, <3>2, <4>1, <5>1, <5>2 DEF Repeated
      <4>2. CASE m # "naive"
        <5>1. Settled(m, tok) /\ m \in {"closed_guard", "receipt"}
          BY <3>4, <4>2 DEF Settled, MODES
        <5>2. ~ Commits(m, call)
          BY <1>4, <5>1
        <5>3. /\ rounds' = rounds /\ Own(effects', tok) = {1}
              /\ result = IF m = "closed_guard" THEN Refusal("closed")
                          ELSE rounds[tok].result
          BY <1>4, <3>2, <5>1, <5>2
        <5>4. /\ rounds[tok].binding # None
              /\ m = "receipt" => rounds[tok].result = first
              /\ rounds[tok] = log[2].rounds[tok]
          BY <3>2, <4>2 DEF Committed
        <5> QED
          BY <4>2, <5>1, <5>3, <5>4 DEF Repeated
      <4> QED
        BY <4>1, <4>2
    <3>6. Committed(m, c, rounds', effects', log[2])
      <4>1. log[2].effects \in Seq(Effects)
        <5>1. \A i \in 1 .. Len(log) : log[i] \in Entries
          BY <1>2, LogFacts
        <5>2. log[2] \in Entries
          BY <3>2, <5>1
        <5> QED
          BY <5>2 DEF Entries
      <4>2. Past(log[2], rounds', effects')
        BY <1>4, <3>2, <4>1, PastGrows DEF Committed
      <4> QED
        BY <3>2, <3>5, <4>2 DEF Committed
    <3>7. Past(crash[t], rounds', effects')
      <4>1. crash[t] \in Crashes
        BY <1>2, <2>2, <2>4, LogFacts
      <4> QED
        BY <1>4, <3>2, <4>1, PastGrows DEF Crashes
    <3>8. CutOf(m, ckpt[t], frame, c, rounds', effects', served'[t],
                crash[t])
      BY <1>12, <2>2, <2>4, <3>2, <3>3, <3>5, <3>6, <3>7 DEF CutOf
    <3> QED
      BY <1>6, <2>2, <2>4, <3>8 DEF LogOf
  <2> QED
    BY <2>1, <2>3, <2>4
<1>14. Logs(m)'
  <2>1. Holds(ckpt[t], inbox[t], c, tok)
    BY <1>2 DEF Holds
  <2> QED
    BY <1>2, <1>4, <1>6, <1>9, <1>13, <2>1, OthersKeep
<1> QED
  BY <1>9, <1>10, <1>11, <1>14 DEF EInv

\* Every step of the experiment is one of CommitGap, or changes nothing of it.
LEMMA EvidenceSteps ==
    ASSUME NEW m \in MODES, IInv(m), [EvidenceNext]_evidenceVars
    PROVE  [Next]_vars
<1>1. ASSUME NEW t \in Threads, ClientStep(t) PROVE Next
  BY <1>1 DEF ClientStep, Client, Next
<1>2. ASSUME NEW t \in Threads, ClientExit(t) PROVE Next
  BY <1>2 DEF ClientExit, Client, Next
<1>3. ASSUME NEW t \in Threads, NEW answers \in Resumes,
             RecordChangedRepeat(t, answers)
      PROVE  Next
  BY <1>3 DEF RecordChangedRepeat, Next
<1>4. ASSUME NEW r \in requests, EmitInitial(r) PROVE Next
  BY <1>4 DEF EmitInitial, Next
<1>5. ASSUME NEW r \in requests, EmitContinuation(r) PROVE Next
  BY <1>5 DEF EmitContinuation, Next
<1>6. ASSUME NEW r \in requests, LoseCall(r) PROVE Next
  BY <1>6 DEF LoseCall, Next
<1>7. CASE UNCHANGED evidenceVars
  BY <1>7 DEF evidenceVars, vars
<1> QED
  BY <1>1, <1>2, <1>3, <1>4, <1>5, <1>6, <1>7 DEF EvidenceNext, Next

LEMMA StepEvidence ==
    ASSUME NEW m \in MODES, IInv(m), EInv(m), [EvidenceNext]_evidenceVars
    PROVE  IInv(m)' /\ EInv(m)'
<1>1. IInv(m)'
  BY EvidenceSteps, StepIInv
<1>2. ASSUME UNCHANGED evidenceVars PROVE EInv(m)'
  BY <1>2 DEF evidenceVars, EInv, LogTypes, Following, SameCalls, Fresh, Logs
<1>3. CASE Done /\ UNCHANGED <<wire, served, crash>>
  BY <1>1, <1>2, <1>3 DEF Done, vars, evidenceVars
<1> QED
  BY <1>1, <1>2, <1>3, ClientLogs, ExitLogs, RepeatLogs, InitialLogs,
     ContinuationLogs, LoseLogs DEF EvidenceNext

\* What the records of an operation that has ended after the exit say.
LEMMA EndedRecords ==
    ASSUME NEW m \in MODES, IInv(m), EInv(m), NEW t \in Threads,
           ckpt[t].next = "end", crash[t].found = "crash"
    PROVE  LET w == wire[t]
               log == served[t]
               c == consent[t]
               own == Own(effects, c.frame.token)
               first == log[2].result.result
               again == log[3].result.result
           IN  /\ Len(w) = Len(log) /\ Len(log) \in 3 .. 4 /\ SameCalls(t)
               /\ \A i \in 1 .. Len(w) : /\ w[i].state = log[i].state
                                         /\ w[i].answers = log[i].answers
                                         /\ w[i].result = log[i].result
               /\ Opens(log[1], c.frame) /\ OfRound(log[2], c)
               /\ OfRound(log[3], c)
               /\ Committed(m, c, rounds, effects, log[2])
               /\ ~ first.isError /\ first.effect = 1
               /\ crash[t] \in Crashes /\ Past(crash[t], rounds, effects)
               /\ Own(crash[t].effects, c.frame.token) = {1}
               /\ crash[t].rounds[c.frame.token]
                      = log[2].rounds[c.frame.token]
               /\ Repeated(m, first, again, own)
               /\ ckpt[t].result = again
               /\ ckpt[t].status = IF again.isError THEN "tool_error"
                                   ELSE "completed"
               /\ Len(log) = 4 =>
                      /\ m = "receipt" /\ log[4].state = c.frame.token
                      /\ log[4].result.result = Refusal("mismatch")
<1> DEFINE w == wire[t]
           log == served[t]
           c == consent[t]
<1>1. crash[t] \notin {NoCrash, OffScript}
  BY DEF NoCrash, OffScript
<1>2. /\ crash[t] \in Crashes /\ SameCalls(t)
      /\ CutOf(m, ckpt[t], inbox[t], c, rounds, effects, log, crash[t])
      /\ DOMAIN w = 1 .. Len(w)
  BY <1>1, LogFacts DEF LogOf
<1>3. /\ Len(w) = Len(log)
      /\ \A i \in 1 .. Len(w) : /\ w[i].state = log[i].state
                                /\ w[i].answers = log[i].answers
                                /\ w[i].result = log[i].result
  <2>1. ASSUME NEW i \in 1 .. Len(w)
        PROVE  w[i] = Row(log[i].state, log[i].answers, log[i].result)
    BY <1>2 DEF SameCalls
  <2>2. ASSUME NEW i \in 1 .. Len(w)
        PROVE  /\ w[i].state = log[i].state
               /\ w[i].answers = log[i].answers
               /\ w[i].result = log[i].result
    <3>1. w[i] = [state |-> log[i].state, answers |-> log[i].answers,
                  result |-> log[i].result]
      BY <2>1 DEF Row
    <3> HIDE DEF w, log
    <3> QED
      BY <3>1
  <2> QED
    BY <1>2, <2>2 DEF SameCalls
<1>4. ckpt[t].result = ckpt[t].frame.result
      /\ ckpt[t].status = IF ckpt[t].result.isError THEN "tool_error"
                          ELSE "completed"
  BY ThreadFacts DEF ReportOf
<1>5. /\ Len(log) \in 2 .. 4 /\ Len(log) >= 3
      /\ Opens(log[1], c.frame) /\ OfRound(log[3], c)
      /\ Committed(m, c, rounds, effects, log[2])
      /\ ~ log[2].result.result.isError /\ log[2].result.result.effect = 1
      /\ Past(crash[t], rounds, effects)
      /\ Own(crash[t].effects, c.frame.token) = {1}
      /\ crash[t].rounds[c.frame.token] = log[2].rounds[c.frame.token]
      /\ log[3].result = ckpt[t].frame
      /\ Repeated(m, log[2].result.result, log[3].result.result,
                  Own(effects, c.frame.token))
      /\ Len(log) = 4 => /\ m = "receipt" /\ log[4].state = c.frame.token
                         /\ log[4].result.result = Refusal("mismatch")
  BY <1>2 DEF CutOf
<1>6. OfRound(log[2], c)
  BY <1>5 DEF Committed
<1> QED
  BY <1>2, <1>3, <1>4, <1>5, <1>6

\* What the check accepts is what was done.
LEMMA AcceptedIsDone ==
    ASSUME NEW m \in MODES, IInv(m), EInv(m), NEW t \in Threads,
           NEW mode \in MODES, CheckCase(t, mode)
    PROVE  Did(t, mode) /\ EffectsOf(Token(t)) = DOMAIN effects
<1> DEFINE w == wire[t]
           log == served[t]
           c == consent[t]
           own == Own(effects, c.frame.token)
           first == log[2].result.result
           again == log[3].result.result
<1>1. /\ ckpt[t].next = "end" /\ crash[t].found = "crash"
      /\ Len(w) = (IF mode = "receipt" THEN 4 ELSE 3)
      /\ w[2].answers = Yes /\ Recovered(t, mode)
  BY DEF CheckCase
<1>2. /\ Len(w) = Len(log) /\ Len(log) \in 3 .. 4
      /\ w[2].answers = log[2].answers /\ w[2].result = log[2].result
      /\ OfRound(log[2], c)
      /\ ~ first.isError /\ first.effect = 1
      /\ Repeated(m, first, again, own) /\ ckpt[t].result = again
      /\ Len(log) = 4 => m = "receipt"
  BY <1>1, EndedRecords
<1>3. c.answers = Yes
  BY <1>1, <1>2 DEF OfRound
<1>4. DOMAIN effects = 1 .. Len(effects) /\ Len(effects) \in Nat
  BY EffectsTyped DEF IInv, TypeOK
<1>5. mode = m /\ own = DOMAIN effects
  <2>1. CASE mode = "naive"
    <3>1. Len(effects) = 2 /\ again.effect = 2
      BY <1>1, <1>2, <2>1 DEF Recovered
    <3>2. again # Refusal("closed") /\ again # first
      BY <1>2, <3>1 DEF Refusal
    <3>3. m = "naive"
      BY <1>2, <3>2 DEF Repeated, MODES
    <3>4. own = {1, again.effect}
      BY <1>2, <3>3 DEF Repeated
    <3> QED
      BY <1>4, <2>1, <3>1, <3>3, <3>4
  <2>2. CASE mode = "closed_guard"
    <3>1. Len(effects) = 1 /\ again = Refusal("closed")
      BY <1>1, <1>2, <2>2 DEF Recovered
    <3>2. again.isError
      BY <3>1 DEF Refusal
    <3>3. m = "closed_guard" /\ own = {1}
      BY <1>2, <3>2 DEF Repeated, MODES
    <3> QED
      BY <1>4, <2>2, <3>1, <3>3
  <2>3. CASE mode = "receipt"
    <3>1. Len(effects) = 1 /\ m = "receipt"
      BY <1>1, <1>2, <2>3 DEF Recovered
    <3>2. own = {1}
      BY <1>2, <3>1 DEF Repeated
    <3> QED
      BY <1>4, <2>3, <3>1, <3>2
  <2> QED
    BY <2>1, <2>2, <2>3 DEF MODES
<1>6. Did(t, mode)
  BY <1>1, <1>2, <1>3, <1>5 DEF Did, IInv
<1> QED
  BY <1>5, <1>6 DEF Own, EffectsOf, Token

\* Nobody else in the store: its labels are those of the one round, now and in
\* what was read of it before.
LEMMA AloneFacts ==
    ASSUME NEW m \in MODES, IInv(m), EInv(m), NEW t \in Threads, Alone(t),
           NEW e, e.effects \in Seq(Effects), Past(e, rounds, effects)
    PROVE  /\ DOMAIN effects = Own(effects, Token(t))
           /\ DOMAIN e.effects = Own(e.effects, Token(t))
           /\ \A i \in DOMAIN e.effects : e.effects[i] = effects[i]
           /\ \A tok \in Tokens : tok # Token(t) =>
                  rounds[tok] = Unissued /\ e.rounds[tok] = Unissued
<1>1. /\ DOMAIN effects = 1 .. Len(effects) /\ Len(effects) \in Nat
      /\ \A i \in DOMAIN effects : effects[i] \in Effects
  BY EffectsTyped, ElementOfSeq DEF IInv, TypeOK, StoreTypeOK
<1>2. /\ DOMAIN e.effects = 1 .. Len(e.effects) /\ Len(e.effects) \in Nat
  BY LenProperties
<1>3. \A i \in DOMAIN e.effects :
          i \in DOMAIN effects /\ e.effects[i] = effects[i]
  BY <1>1, <1>2 DEF Past
<1>4. \A i \in DOMAIN effects : effects[i].token = Token(t)
  <2> SUFFICES ASSUME NEW i \in DOMAIN effects
               PROVE  effects[i].token = Token(t)
    OBVIOUS
  <2>1. effects[i].token \in Tokens
    BY <1>1 DEF Effects
  <2>2. rounds[effects[i].token].issued
    BY <2>1 DEF IInv, StoreInv, EffectIsBound, BoundIsIssued
  <2> QED
    BY <2>1, <2>2 DEF Alone
<1>5. \A tok \in Tokens : tok # Token(t) =>
          rounds[tok] = Unissued /\ e.rounds[tok] = Unissued
  BY DEF Alone, EInv, Fresh, Past
<1> QED
  BY <1>3, <1>4, <1>5 DEF Own

\* The tables with one label, and with one more.
LEMMA Intervals ==
    ASSUME NEW n \in Nat
    PROVE  /\ 1 .. n = {1} => n = 1
           /\ \A k : 1 .. n = {1, k} /\ k # 1 => n = 2 /\ k = 2
<1>1. ASSUME 1 .. n = {1} PROVE n = 1
  <2>1. 1 \in 1 .. n
    BY <1>1
  <2>2. n \in 1 .. n
    BY <2>1
  <2> QED
    BY <1>1, <2>2
<1>2. ASSUME NEW k, 1 .. n = {1, k}, k # 1 PROVE n = 2 /\ k = 2
  <2>1. 1 \in 1 .. n /\ k \in 1 .. n
    BY <1>2
  <2>2. n >= 2
    BY <1>2, <2>1
  <2>3. 2 \in 1 .. n /\ n \in 1 .. n
    BY <2>2
  <2> QED
    BY <1>2, <2>2, <2>3
<1> QED
  BY <1>1, <1>2

\* What was done, alone on the store, passes the check.
LEMMA DoneIsAccepted ==
    ASSUME NEW m \in MODES, IInv(m), EInv(m), NEW t \in Threads,
           Did(t, m), Alone(t)
    PROVE  CheckCase(t, m)
<1> DEFINE w == wire[t]
           log == served[t]
           c == consent[t]
           tok == c.frame.token
           own == Own(effects, tok)
           x == crash[t]
           e == log[2]
           first == log[2].result.result
           again == log[3].result.result
<1>1. /\ ckpt[t].next = "end" /\ x.found = "crash" /\ c.answers = Yes
      /\ Len(log) = IF m = "receipt" THEN 4 ELSE 3
  BY DEF Did
<1>2. /\ Len(w) = Len(log) /\ SameCalls(t)
      /\ \A i \in 1 .. Len(w) : /\ w[i].state = log[i].state
                                /\ w[i].answers = log[i].answers
                                /\ w[i].result = log[i].result
  BY <1>1, EndedRecords
<1>3. /\ Opens(log[1], c.frame) /\ OfRound(log[2], c) /\ OfRound(log[3], c)
      /\ Committed(m, c, rounds, effects, e)
      /\ ~ first.isError /\ first.effect = 1
      /\ x \in Crashes /\ Past(x, rounds, effects)
      /\ Own(x.effects, tok) = {1} /\ x.rounds[tok] = e.rounds[tok]
      /\ Repeated(m, first, again, own) /\ ckpt[t].result = again
      /\ ckpt[t].status = IF again.isError THEN "tool_error" ELSE "completed"
      /\ Len(log) = 4 => /\ log[4].state = tok
                         /\ log[4].result.result = Refusal("mismatch")
  BY <1>1, EndedRecords
<1>4. e \in Entries /\ DOMAIN w = 1 .. Len(w)
  <2>1. /\ \A i \in 1 .. Len(log) : log[i] \in Entries
        /\ DOMAIN w = 1 .. Len(w)
    BY LogFacts
  <2> QED
    BY <1>1, <2>1
<1>5. /\ w[1].state = NoToken /\ w[1].result.token = tok
      /\ w[2].state = tok /\ w[2].answers = Yes
      /\ w[3].state = tok /\ w[3].answers = Yes
      /\ w[2].result.result = first /\ w[3].result.result = again
      /\ m = "receipt" =>
             /\ w[4].state = tok
             /\ w[4].result.result = Refusal("mismatch")
  BY <1>1, <1>2, <1>3 DEF Opens, OfRound
<1>6. /\ e.effects \in Seq(Effects) /\ e.rounds \in [Tokens -> Rows]
      /\ x.effects \in Seq(Effects) /\ x.rounds \in [Tokens -> Rows]
      /\ Past(e, rounds, effects) /\ Own(e.effects, tok) = {1}
  BY <1>3, <1>4 DEF Entries, Crashes, Committed
<1>7. /\ DOMAIN effects = own
      /\ DOMAIN e.effects = {1} /\ DOMAIN x.effects = {1}
      /\ e.effects[1] = effects[1] /\ x.effects[1] = effects[1]
      /\ \A k \in Tokens \ {tok} :
             /\ rounds[k] = Unissued /\ e.rounds[k] = Unissued
             /\ x.rounds[k] = Unissued
  BY <1>3, <1>6, AloneFacts DEF Token
<1>8. Len(x.effects) = 1 /\ e.effects = x.effects /\ e.rounds = x.rounds
  <2>1. /\ DOMAIN x.effects = 1 .. Len(x.effects) /\ Len(x.effects) \in Nat
        /\ DOMAIN e.effects = 1 .. Len(e.effects) /\ Len(e.effects) \in Nat
    BY <1>6, LenProperties
  <2>2. Len(x.effects) = 1 /\ Len(e.effects) = 1
    BY <1>7, <2>1, Intervals
  <2>3. e.effects = x.effects
    BY <1>6, <1>7, <2>2, SeqEqual
  <2>4. e.rounds = x.rounds
    BY <1>3, <1>6, <1>7
  <2> QED
    BY <2>2, <2>3, <2>4
<1>9. /\ effects \in Seq(Effects) /\ rounds \in [Tokens -> Rows]
      /\ DOMAIN effects = 1 .. Len(effects) /\ Len(effects) \in Nat
  BY EffectsTyped DEF IInv, TypeOK, StoreTypeOK
<1>10. Recovered(t, m)
  <2>1. CASE m = "naive"
    <3>1. ~ again.isError /\ 1 .. Len(effects) = {1, again.effect}
          /\ again.effect # 1
      BY <1>3, <1>7, <1>9, <2>1 DEF Repeated
    <3>2. Len(effects) = 2 /\ again.effect = 2
      BY <1>9, <3>1, Intervals
    <3> QED
      BY <1>3, <2>1, <3>1, <3>2 DEF Recovered
  <2>2. CASE m # "naive"
    <3>1. own = {1}
      BY <1>3, <2>2 DEF Repeated, MODES
    <3>2. Len(effects) = 1
      BY <1>7, <1>9, <3>1, Intervals
    <3>3. CASE m = "closed_guard"
      <4>1. again = Refusal("closed") /\ again.isError
        BY <1>3, <3>3 DEF Repeated, Refusal
      <4> QED
        BY <1>3, <3>2, <3>3, <4>1 DEF Recovered
    <3>4. CASE m = "receipt"
      <4>1. again = first
        BY <1>3, <3>4 DEF Repeated
      <4>2. effects = x.effects
        BY <1>6, <1>7, <1>8, <1>9, <3>2, SeqEqual
      <4>3. rounds[tok] = x.rounds[tok]
        BY <1>3, <2>2 DEF Committed
      <4>4. rounds = x.rounds
        BY <1>6, <1>7, <1>9, <4>3
      <4> QED
        BY <1>3, <1>5, <3>2, <3>4, <4>1, <4>2, <4>4 DEF Recovered
    <3> QED
      BY <2>2, <3>3, <3>4 DEF MODES
  <2> QED
    BY <2>1, <2>2
<1>11. \A i \in 2 .. Len(w) : w[i].state = tok
  BY <1>1, <1>2, <1>5
<1> QED
  BY <1>1, <1>2, <1>3, <1>5, <1>8, <1>10, <1>11 DEF CheckCase

\* The experiment shows what it says.  Whatever other threads do meanwhile, its
\* check accepts the records of an operation only if the scripted crash and
\* recovery happened under that mode and every label in the store is its own;
\* and it accepts those of every operation that did so alone on its store.
THEOREM ExperimentTrue == EvidenceSpec => []ExperimentIsTrue
<1> DEFINE Both == \E m \in MODES : IInv(m) /\ EInv(m)
<1>1. EvidenceInit => Both
  <2> SUFFICES ASSUME EvidenceInit PROVE Both
    OBVIOUS
  <2>1. storeMode \in MODES /\ IInv(storeMode)
    BY InitIInv, CommitGapAssumption DEF EvidenceInit, Init
  <2> QED
    BY <2>1, EvidenceInitInv
<1>2. Both /\ [EvidenceNext]_evidenceVars => Both'
  BY StepEvidence
<1>3. Both => ExperimentIsTrue
  <2> SUFFICES ASSUME NEW m \in MODES, IInv(m), EInv(m)
               PROVE  ExperimentIsTrue
    OBVIOUS
  <2>1. ASSUME NEW t \in Threads, NEW mode \in MODES, Did(t, mode), Alone(t)
        PROVE  CheckCase(t, mode)
    BY <2>1, DoneIsAccepted DEF Did, IInv
  <2> QED
    BY <2>1, AcceptedIsDone DEF ExperimentIsTrue
<1> QED
  BY <1>1, <1>2, <1>3, PTL DEF EvidenceSpec
=============================================================================
