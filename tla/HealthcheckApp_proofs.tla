------------------------ MODULE HealthcheckApp_proofs ------------------------
(***************************************************************************)
(* What the two goroutines of glb-healthcheck guarantee, for any number of *)
(* backends, SIGHUPs and check rounds.                                     *)
(***************************************************************************)
EXTENDS HealthcheckApp, TLAPS

Locations == {"idle", "load", "sync", "update", "results", "compare", "assign",
              "clear", "store", "marshal", "open", "write", "reload"}
Healths == [Backends -> BOOLEAN]
Texts == [table : Tables \cup {-1}, healthy : Healths]

Loading == IF pc["hup"] = "load" THEN 1 ELSE 0

\* Every load of the table answers a SIGHUP of its own, so the tables in use
\* are among those the bound on SIGHUPs allows.
TypeOK ==
  /\ sigs \in {0, 1} /\ signals \in 0 .. MaxSignals
  /\ forwardingTableConfig \in Nat
  /\ forwardingTableConfig + sigs + Loading <= signals
  /\ results \in Healths /\ healthy \in [Tables -> Healths]
  /\ dirty \in BOOLEAN /\ hold \in BOOLEAN /\ failed \in BOOLEAN
  /\ pc \in [Goroutines -> Locations]
  /\ ft \in [Goroutines -> Tables] /\ seen \in [Goroutines -> Healths]
  /\ todo \in [Goroutines -> SUBSET Backends]
  /\ \A g \in Goroutines : pc[g] = "assign" => todo[g] # {}
  /\ buf \in [Goroutines -> Texts] /\ dst \in Texts /\ deployed \in Texts

InMemory == [table |-> 0, healthy |-> healthy[0]]

\* How far the round goroutine has got with publishing, as long as no SIGHUP
\* was sent: what it will hand on is the health in memory at each step.
Publishing ==
  signals = 0 =>
    /\ forwardingTableConfig = 0
    /\ sigs = 0 /\ pc["hup"] = "idle" /\ ft["round"] = 0
    /\ pc["round"] \notin {"load", "sync"}
    /\ pc["round"] \in {"idle", "update", "results", "compare", "assign"}
         /\ ~dirty /\ ~failed => deployed = InMemory
    /\ pc["round"] = "assign" /\ ~dirty =>
         ~Changed("round", CHOOSE b \in todo["round"] : TRUE)
    /\ pc["round"] = "clear" => dirty
    /\ pc["round"] \in {"open", "write"} => buf["round"] = InMemory
    /\ pc["round"] = "write" => dst = Partial
    /\ pc["round"] = "reload" /\ ~failed => dst = InMemory

HInv == TypeOK /\ Publishing

-------------------------------------------------------------------------------
(* The steps of Next, one by one, so that a proof can split on them.         *)

LEMMA NextCases ==
  ASSUME [Next]_vars
  PROVE  \/ SendHup \/ HoldExpires \/ FinishRound \/ RoundComplete
         \/ ReceiveHup \/ LoadForwardingTable \/ LoadFails
         \/ SyncBackendsToCheckManager
         \/ \E g \in Goroutines : UpdateTableBackendHealth(g)
         \/ \E g \in Goroutines : CheckAndClearDirty(g)
         \/ \E g \in Goroutines : StoreCheckedForwardingTable(g)
         \/ \E g \in Goroutines : RunReloadCommand(g) \/ ReloadFails(g)
         \/ UNCHANGED vars
  BY Zenon DEF Next, Manager, Hup, SyncAndMaybeReload

LEMMA PartialText == NoResults \in Healths /\ Partial \in Texts
<1>1. NoResults \in Healths
  BY DEF NoResults, Healths
<1> QED
  BY <1>1 DEF Partial, NoResults, Texts

LEMMA HInitTypes == Init => TypeOK
<1> SUFFICES ASSUME Init PROVE TypeOK
  OBVIOUS
<1> USE DEF Init
<1>1. healthy \in [Tables -> Healths] /\ 0 \in Tables
  BY PartialText, HealthcheckConstants DEF Tables
<1>2. dst \in Texts
  BY <1>1, PartialText DEF Texts
<1>3. ft \in [Goroutines -> Tables] /\ seen \in [Goroutines -> Healths]
  BY <1>1, PartialText
<1>4. buf \in [Goroutines -> Texts] /\ deployed \in Texts
  BY PartialText
<1>5. todo \in [Goroutines -> SUBSET Backends] /\ pc \in [Goroutines -> Locations]
  BY DEF Locations
<1>6. forwardingTableConfig + sigs + Loading <= signals /\ signals \in 0 .. MaxSignals
  BY HealthcheckConstants DEF Loading, Goroutines
<1> QED
  BY <1>1, <1>2, <1>3, <1>4, <1>5, <1>6, PartialText, ZenonT(30) DEF TypeOK

LEMMA HTypes == TypeOK /\ [Next]_vars => TypeOK'
<1> SUFFICES ASSUME TypeOK, [Next]_vars PROVE TypeOK'
  OBVIOUS
<1> USE HealthcheckConstants DEF TypeOK, Goroutines, Locations, Loading, Goto
<1>1. CASE SendHup
  BY <1>1 DEF SendHup, inVars, ctxVars, localVars, outVars
<1>2. CASE HoldExpires
  BY <1>2, ZenonT(30) DEF HoldExpires, inVars, ctxVars, localVars, outVars
<1>3. CASE FinishRound
  BY <1>3 DEF FinishRound, inVars, ctxVars, localVars, outVars, Healths
<1>4. CASE RoundComplete
  BY <1>4 DEF RoundComplete, inVars, ctxVars, localVars, outVars
<1>5. CASE ReceiveHup
  BY <1>5 DEF ReceiveHup, inVars, ctxVars, localVars, outVars
<1>6. CASE LoadForwardingTable
  <2> USE <1>6 DEF LoadForwardingTable, inVars, ctxVars, localVars, outVars
  <2>1. pc' = [pc EXCEPT !["hup"] = "sync"] /\ Loading = 1 /\ Loading' = 0
    OBVIOUS
  <2>2. /\ forwardingTableConfig' = forwardingTableConfig + 1
        /\ sigs' = sigs /\ signals' = signals
    OBVIOUS
  <2>3. /\ forwardingTableConfig' \in Nat
        /\ forwardingTableConfig' + sigs' + Loading' <= signals'
    BY <2>1, <2>2 DEF TypeOK
  <2>4. dirty' = TRUE /\ hold' = FALSE
    BY DEF LoadedDirty
  <2> QED
    BY <2>1, <2>2, <2>3, <2>4, ZenonT(30)
<1>7. CASE LoadFails
  BY <1>7 DEF LoadFails, inVars, ctxVars, localVars, outVars
<1>8. CASE SyncBackendsToCheckManager
  BY <1>8 DEF SyncBackendsToCheckManager, inVars, ctxVars, localVars, outVars
<1>9. ASSUME NEW g \in Goroutines, UpdateTableBackendHealth(g) PROVE TypeOK'
  <2>1. CASE SnapshotTable(g)
    BY <2>1 DEF SnapshotTable, inVars, ctxVars, localVars, outVars, Tables
  <2>2. CASE GetResults(g)
    BY <2>2 DEF GetResults, inVars, ctxVars, localVars, outVars
  <2>3. CASE CompareHealth(g)
    BY <2>3 DEF CompareHealth, inVars, ctxVars, localVars, outVars, MarkDirty, Changed
  <2>4. CASE AssignHealth(g)
    BY <2>4 DEF AssignHealth, inVars, ctxVars, localVars, outVars, Healths
  <2> QED BY <1>9, <2>1, <2>2, <2>3, <2>4 DEF UpdateTableBackendHealth
<1>10. ASSUME NEW g \in Goroutines, CheckAndClearDirty(g) PROVE TypeOK'
  <2>1. CASE CheckDirty(g)
    BY <2>1 DEF CheckDirty, inVars, ctxVars, localVars, outVars
  <2>2. CASE ClearDirty(g)
    BY <2>2, ZenonT(30) DEF ClearDirty, inVars, ctxVars, localVars, outVars
  <2> QED BY <1>10, <2>1, <2>2 DEF CheckAndClearDirty
<1>11. ASSUME NEW g \in Goroutines, StoreCheckedForwardingTable(g) PROVE TypeOK'
  <2>1. CASE PickTable(g)
    BY <2>1 DEF PickTable, inVars, ctxVars, localVars, outVars, Tables
  <2>2. CASE Marshal(g)
    BY <2>2 DEF Marshal, inVars, ctxVars, localVars, outVars, Texts
  <2>3. CASE Truncate(g)
    BY <2>3 DEF Truncate, inVars, ctxVars, localVars, outVars, Texts, Partial, Healths
  <2>4. CASE Write(g)
    <3>1. dst' \in Texts
      BY <2>4, PartialText DEF Write
    <3> QED BY <2>4, <3>1 DEF Write, inVars, ctxVars, localVars, outVars
  <2>5. CASE StoreFails(g)
    BY <2>5 DEF StoreFails, inVars, ctxVars, localVars, outVars
  <2> QED BY <1>11, <2>1, <2>2, <2>3, <2>4, <2>5 DEF StoreCheckedForwardingTable
<1>12. ASSUME NEW g \in Goroutines, RunReloadCommand(g) \/ ReloadFails(g) PROVE TypeOK'
  <2>1. CASE RunReloadCommand(g)
    BY <2>1 DEF RunReloadCommand, inVars, ctxVars, localVars, outVars
  <2>2. CASE ReloadFails(g)
    BY <2>2 DEF ReloadFails, inVars, ctxVars, localVars, outVars
  <2> QED BY <1>12, <2>1, <2>2
<1>13. CASE UNCHANGED vars
  BY <1>13 DEF vars, inVars, ctxVars, localVars, outVars
<1> QED
  BY NextCases, <1>1, <1>2, <1>3, <1>4, <1>5, <1>6, <1>7, <1>8, <1>9, <1>10, <1>11, <1>12, <1>13

-------------------------------------------------------------------------------
(* A SIGHUP is handed on.                                                    *)

LEMMA HandedOnStep == TypeOK /\ LoadHandedOn /\ [Next]_vars => LoadHandedOn'
<1> SUFFICES ASSUME TypeOK, LoadHandedOn, [Next]_vars PROVE LoadHandedOn'
  OBVIOUS
<1> USE DEF TypeOK, LoadHandedOn, Goroutines, Goto
<1>1. CASE SendHup
  BY <1>1 DEF SendHup, inVars, ctxVars, localVars, outVars
<1>2. CASE HoldExpires
  BY <1>2 DEF HoldExpires, inVars, ctxVars, localVars, outVars
<1>3. CASE FinishRound
  BY <1>3 DEF FinishRound, inVars, ctxVars, localVars, outVars
<1>4. CASE RoundComplete
  BY <1>4 DEF RoundComplete, inVars, ctxVars, localVars, outVars
<1>5. CASE ReceiveHup
  BY <1>5 DEF ReceiveHup, inVars, ctxVars, localVars, outVars
<1>6. CASE LoadForwardingTable
  BY <1>6 DEF LoadForwardingTable, inVars, ctxVars, localVars, outVars, LoadedDirty
<1>7. CASE LoadFails
  BY <1>7 DEF LoadFails, inVars, ctxVars, localVars, outVars
<1>8. CASE SyncBackendsToCheckManager
  BY <1>8 DEF SyncBackendsToCheckManager, inVars, ctxVars, localVars, outVars
<1>9. ASSUME NEW g \in Goroutines, UpdateTableBackendHealth(g) PROVE LoadHandedOn'
  <2>1. CASE SnapshotTable(g)
    BY <2>1 DEF SnapshotTable, inVars, ctxVars, localVars, outVars
  <2>2. CASE GetResults(g)
    BY <2>2 DEF GetResults, inVars, ctxVars, localVars, outVars
  <2>3. CASE CompareHealth(g)
    BY <2>3 DEF CompareHealth, inVars, ctxVars, localVars, outVars, MarkDirty
  <2>4. CASE AssignHealth(g)
    BY <2>4 DEF AssignHealth, inVars, ctxVars, localVars, outVars
  <2> QED BY <1>9, <2>1, <2>2, <2>3, <2>4 DEF UpdateTableBackendHealth
<1>10. ASSUME NEW g \in Goroutines, CheckAndClearDirty(g) PROVE LoadHandedOn'
  <2>1. CASE CheckDirty(g)
    BY <2>1 DEF CheckDirty, inVars, ctxVars, localVars, outVars
  <2>2. CASE ClearDirty(g)
    BY <2>2 DEF ClearDirty, inVars, ctxVars, localVars, outVars
  <2> QED BY <1>10, <2>1, <2>2 DEF CheckAndClearDirty
<1>11. ASSUME NEW g \in Goroutines, StoreCheckedForwardingTable(g) PROVE LoadHandedOn'
  <2>1. CASE PickTable(g)
    BY <2>1 DEF PickTable, inVars, ctxVars, localVars, outVars
  <2>2. CASE Marshal(g)
    BY <2>2 DEF Marshal, inVars, ctxVars, localVars, outVars
  <2>3. CASE Truncate(g)
    BY <2>3 DEF Truncate, inVars, ctxVars, localVars, outVars
  <2>4. CASE Write(g)
    BY <2>4 DEF Write, inVars, ctxVars, localVars, outVars
  <2>5. CASE StoreFails(g)
    BY <2>5 DEF StoreFails, inVars, ctxVars, localVars, outVars
  <2> QED BY <1>11, <2>1, <2>2, <2>3, <2>4, <2>5 DEF StoreCheckedForwardingTable
<1>12. ASSUME NEW g \in Goroutines, RunReloadCommand(g) \/ ReloadFails(g) PROVE LoadHandedOn'
  <2>1. CASE RunReloadCommand(g)
    BY <2>1 DEF RunReloadCommand, inVars, ctxVars, localVars, outVars
  <2>2. CASE ReloadFails(g)
    BY <2>2 DEF ReloadFails, inVars, ctxVars, localVars, outVars
  <2> QED BY <1>12, <2>1, <2>2
<1>13. CASE UNCHANGED vars
  BY <1>13 DEF vars, inVars, ctxVars, localVars, outVars
<1> QED
  BY NextCases, <1>1, <1>2, <1>3, <1>4, <1>5, <1>6, <1>7, <1>8, <1>9, <1>10, <1>11, <1>12, <1>13

-------------------------------------------------------------------------------
(* What the rounds found is published.                                       *)

LEMMA SameHealth ==
  ASSUME NEW h \in [Tables -> Healths], NEW t \in Tables, NEW b \in Backends
  PROVE  [h EXCEPT ![t][b] = h[t][b]] = h
<1>1. h[t] \in [Backends -> BOOLEAN]
  BY DEF Healths
<1>2. [h[t] EXCEPT ![b] = h[t][b]] = h[t]
  BY <1>1, ZenonT(30)
<1> QED
  BY <1>2

LEMMA PublishingStep == TypeOK /\ Publishing /\ [Next]_vars => Publishing'
<1> SUFFICES ASSUME TypeOK, Publishing, [Next]_vars, signals' = 0
             PROVE  Publishing'
  BY DEF Publishing
<1>0. signals = 0
  <2>1. CASE SendHup
    BY <2>1 DEF SendHup, TypeOK
  <2>2. CASE ~SendHup
    <3>1. UNCHANGED signals
      BY <2>2, ZenonT(30) DEF Next, Manager, Hup, SyncAndMaybeReload,
         UpdateTableBackendHealth, CheckAndClearDirty, StoreCheckedForwardingTable,
         HoldExpires, FinishRound, RoundComplete, ReceiveHup, LoadForwardingTable,
         LoadFails, SyncBackendsToCheckManager, SnapshotTable, GetResults,
         CompareHealth, AssignHealth, CheckDirty, ClearDirty, PickTable, Marshal,
         Truncate, Write, StoreFails, RunReloadCommand, ReloadFails, vars, inVars
    <3> QED BY <3>1, ZenonT(30)
  <2> QED BY <2>1, <2>2
<1> USE <1>0 DEF TypeOK, Publishing, Goroutines, Goto, InMemory
<1>1. CASE SendHup
  BY <1>1 DEF SendHup, inVars, ctxVars, localVars, outVars, Changed
<1>2. CASE HoldExpires
  BY <1>2 DEF HoldExpires, inVars, ctxVars, localVars, outVars, Changed
<1>3. CASE FinishRound
  BY <1>3 DEF FinishRound, inVars, ctxVars, localVars, outVars, Changed
<1>4. CASE RoundComplete
  BY <1>4 DEF RoundComplete, inVars, ctxVars, localVars, outVars, Changed
<1>5. CASE ReceiveHup
  BY <1>5 DEF ReceiveHup, inVars, ctxVars, localVars, outVars, Changed
<1>6. CASE LoadForwardingTable
  BY <1>6 DEF LoadForwardingTable, inVars, ctxVars, localVars, outVars, Changed, LoadedDirty
<1>7. CASE LoadFails
  BY <1>7 DEF LoadFails, inVars, ctxVars, localVars, outVars, Changed
<1>8. CASE SyncBackendsToCheckManager
  BY <1>8 DEF SyncBackendsToCheckManager, inVars, ctxVars, localVars, outVars, Changed
<1>9. ASSUME NEW g \in Goroutines, UpdateTableBackendHealth(g) PROVE Publishing'
  <2>1. CASE SnapshotTable(g)
    BY <2>1 DEF SnapshotTable, inVars, ctxVars, localVars, outVars, Changed
  <2>2. CASE GetResults(g)
    BY <2>2 DEF GetResults, inVars, ctxVars, localVars, outVars, Changed
  <2>3. CASE CompareHealth(g)
    BY <2>3, ZenonT(30) DEF CompareHealth, inVars, ctxVars, localVars, outVars, Changed, MarkDirty
  <2>4. CASE AssignHealth(g)
    <3> USE <2>4 DEF AssignHealth, inVars, ctxVars, localVars, outVars
    <3> DEFINE b == CHOOSE x \in todo["round"] : TRUE
    <3>1. g = "round" /\ ft[g] = 0 /\ 0 \in Tables /\ b \in Backends
      BY HealthcheckConstants DEF Tables
    <3>2. /\ healthy' = [healthy EXCEPT ![0][b] = seen["round"][b]]
          /\ pc' = [pc EXCEPT !["round"] = "compare"]
      BY <3>1
    <3>3. ASSUME ~dirty PROVE healthy'[0] = healthy[0]
      <4>1. seen["round"][b] = healthy[0][b]
        BY <3>1, <3>3 DEF Changed
      <4>2. healthy' = [healthy EXCEPT ![0][b] = healthy[0][b]]
        BY <3>2, <4>1, ZenonT(30)
      <4> QED BY <3>1, <4>2, SameHealth
    <3>4. ~dirty /\ ~failed => deployed = InMemory'
      BY <3>1, <3>3
    <3>5. /\ UNCHANGED <<forwardingTableConfig, sigs, ft, dirty, failed, deployed>>
          /\ pc'["hup"] = "idle" /\ pc'["round"] = "compare"
      BY <3>1, <3>2
    <3> HIDE DEF b, AssignHealth
    <3> QED BY <3>1, <3>4, <3>5 DEF InMemory
  <2> QED BY <1>9, <2>1, <2>2, <2>3, <2>4 DEF UpdateTableBackendHealth
<1>10. ASSUME NEW g \in Goroutines, CheckAndClearDirty(g) PROVE Publishing'
  <2>1. CASE CheckDirty(g)
    BY <2>1 DEF CheckDirty, inVars, ctxVars, localVars, outVars, Changed
  <2>2. CASE ClearDirty(g)
    BY <2>2, ZenonT(30) DEF ClearDirty, inVars, ctxVars, localVars, outVars, Changed
  <2> QED BY <1>10, <2>1, <2>2 DEF CheckAndClearDirty
<1>11. ASSUME NEW g \in Goroutines, StoreCheckedForwardingTable(g) PROVE Publishing'
  <2>1. CASE PickTable(g)
    BY <2>1 DEF PickTable, inVars, ctxVars, localVars, outVars, Changed
  <2>2. CASE Marshal(g)
    BY <2>2 DEF Marshal, inVars, ctxVars, localVars, outVars, Changed
  <2>3. CASE Truncate(g)
    BY <2>3 DEF Truncate, inVars, ctxVars, localVars, outVars, Changed
  <2>4. CASE Write(g)
    BY <2>4 DEF Write, inVars, ctxVars, localVars, outVars, Changed
  <2>5. CASE StoreFails(g)
    BY <2>5, ZenonT(30) DEF StoreFails, inVars, ctxVars, localVars, outVars, Changed
  <2> QED BY <1>11, <2>1, <2>2, <2>3, <2>4, <2>5, ZenonT(30) DEF StoreCheckedForwardingTable
<1>12. ASSUME NEW g \in Goroutines, RunReloadCommand(g) \/ ReloadFails(g) PROVE Publishing'
  <2>1. CASE RunReloadCommand(g)
    BY <2>1 DEF RunReloadCommand, inVars, ctxVars, localVars, outVars, Changed
  <2>2. CASE ReloadFails(g)
    BY <2>2 DEF ReloadFails, inVars, ctxVars, localVars, outVars, Changed
  <2> QED BY <1>12, <2>1, <2>2
<1>13. CASE UNCHANGED vars
  BY <1>13 DEF vars, inVars, ctxVars, localVars, outVars, Changed
<1> QED
  BY NextCases, <1>1, <1>2, <1>3, <1>4, <1>5, <1>6, <1>7, <1>8, <1>9, <1>10, <1>11, <1>12, <1>13, ZenonT(30)

-------------------------------------------------------------------------------
LEMMA HInvariant == Spec => []HInv
<1>1. Init => HInv
  BY HInitTypes DEF HInv, Init, Publishing, Goroutines
<1>2. HInv /\ [Next]_vars => HInv'
  BY HTypes, PublishingStep DEF HInv
<1> QED
  BY <1>1, <1>2, PTL DEF Spec

\* However many SIGHUPs and rounds interleave, the table in use has been taken
\* up by a store, or the dirty flag, or a goroutine that cleared it, will see
\* to it (CheckAndClearDirty, StoreCheckedForwardingTable).
THEOREM LoadIsHandedOn == Spec => []LoadHandedOn
<1>1. Init => LoadHandedOn
  BY DEF Init, LoadHandedOn
<1>2. HInv /\ LoadHandedOn /\ [Next]_vars => LoadHandedOn'
  BY HandedOnStep DEF HInv
<1> QED
  BY <1>1, <1>2, HInvariant, PTL DEF Spec

\* Without a SIGHUP, whenever the round goroutine rests with nothing dirty and
\* nothing failed, the director was handed the health of the table in memory,
\* for any number of backends and rounds (SyncAndMaybeReload).
THEOREM RoundsArePublished == Spec => []RoundsPublished
<1>1. HInv => RoundsPublished
  BY DEF HInv, Publishing, RoundsPublished, InMemory
<1> QED
  BY <1>1, HInvariant, PTL
===============================================================================
