-------------------------- MODULE HealthManager_proofs --------------------------
(***************************************************************************)
(* For any backends, tables, thresholds, streams and check identifiers:    *)
(* an active stream has exactly one result on its way while the manager    *)
(* awaits one and none otherwise, nothing can send into a stream that is   *)
(* closed, and reports are dampened by exactly the thresholds.             *)
(***************************************************************************)
EXTENDS HealthManager, SequenceTheorems, TLAPS

(* An identifier stands for one check: pending, selecting or being sent. *)
IdsExclusive ==
  \A i \in Ids :
    /\ pendingChecks[i] # NoStream => NoStream = selecting[i] /\ NoStream = sending[i]
    /\ selecting[i] # NoStream => NoStream = sending[i]

(* Nothing is outstanding. *)
Idle(s) ==
  /\ \A i \in Ids : s \notin {pendingChecks[i], selecting[i], sending[i]}
  /\ dpc[s] # "send"

(* The check with identifier i is outstanding for s and nothing else is. *)
ByCheck(s, i) ==
  /\ i \in Ids /\ dpc[s] # "send"
  /\ \A j \in Ids \ {i} : s \notin {pendingChecks[j], selecting[j], sending[j]}
  /\ \/ s = pendingChecks[i] /\ s # selecting[i] /\ s # sending[i]
     \/ s # pendingChecks[i] /\ s = selecting[i] /\ s # sending[i]
     \/ s # pendingChecks[i] /\ s # selecting[i] /\ s = sending[i]
ByDampener(s) ==
  /\ dpc[s] = "send"
  /\ \A i \in Ids : s \notin {pendingChecks[i], selecting[i], sending[i]}
Single(s) == (\E i \in Ids : ByCheck(s, i)) \/ ByDampener(s)

(* Results are collected in one phase of a round. *)
PhaseInv == mpc # "collect" => toWait = {}

(* OneResultPerCheck in terms of the tables of the checkers. *)
ResultsInv ==
  \A s \in active : (Awaited(s) => Single(s)) /\ (~Awaited(s) => Idle(s))

HInv == TypeOK /\ IdsExclusive /\ PhaseInv /\ ResultsInv /\ ClosedStreamsQuiet

LEMMA StreamFacts ==
  /\ NoStream \notin Streams
  /\ \A t \in Targets, g \in Gens : <<t, g>> \in Streams /\ Target(<<t, g>>) = t
  /\ \A s \in Streams : Target(s) \in Targets
BY DEF Streams, NoStream, Target

LEMMA WindowType == Window \in Nat \ {0}
BY ManagerConstants DEF Window

LEMMA TableTargets ==
  ASSUME NEW tb \in Tables
  PROVE  UniqueTargets(tb) \subseteq Targets
BY DEF Targets

LEMMA HInit == Init => HInv
<1> SUFFICES ASSUME Init PROVE HInv
  OBVIOUS
<1> USE DEF Init
<1>1. recent \in [Streams -> Seq(BOOLEAN)]
  OBVIOUS
<1>2. 0 \in 0..Window
  BY WindowType
<1>3. nextTargets \subseteq Targets
  BY TableTargets
<1>4. TypeOK
  BY <1>1, <1>2, <1>3, ZenonT(30) DEF TypeOK
<1>5. IdsExclusive /\ PhaseInv /\ ResultsInv /\ ClosedStreamsQuiet
  BY DEF IdsExclusive, PhaseInv, ResultsInv, ClosedStreamsQuiet
<1> QED BY <1>4, <1>5 DEF HInv

------------------------------------------------------------------------------
(* What is outstanding for a stream, read off the tables of the checkers.   *)

LEMMA IdleIs ==
  ASSUME NEW s
  PROVE  Outstanding(s) = {} <=> Idle(s)
BY ZenonT(30) DEF Outstanding, Idle

LEMMA Members ==
  ASSUME NEW s
  PROVE  /\ \A i \in Ids : pendingChecks[i] = s => <<"pending", i>> \in Outstanding(s)
         /\ \A i \in Ids : selecting[i] = s => <<"select", i>> \in Outstanding(s)
         /\ \A i \in Ids : sending[i] = s => <<"send", i>> \in Outstanding(s)
         /\ dpc[s] = "send" => <<"dampener", NoId>> \in Outstanding(s)
BY DEF Outstanding

LEMMA Tags ==
  ASSUME NEW a, NEW b, NEW i, NEW j, <<a, i>> = <<b, j>>
  PROVE  a = b /\ i = j
OBVIOUS

LEMMA SingleIs ==
  ASSUME NEW s
  PROVE  (\E x \in Outstanding(s) : Outstanding(s) = {x}) <=> Single(s)
<1>1. ASSUME NEW x \in Outstanding(s), Outstanding(s) = {x} PROVE Single(s)
  <2>1. CASE \E i \in Ids : x = <<"pending", i>> /\ pendingChecks[i] = s
    <3>1. PICK i \in Ids : x = <<"pending", i>> /\ pendingChecks[i] = s
      BY <2>1
    <3>2. \A j \in Ids : /\ pendingChecks[j] = s => j = i
                         /\ selecting[j] # s /\ sending[j] # s
      <4> SUFFICES ASSUME NEW j \in Ids
                   PROVE  (pendingChecks[j] = s => j = i) /\ selecting[j] # s /\ sending[j] # s
        OBVIOUS
      <4>1. \A y \in Outstanding(s) : y = <<"pending", i>>
        BY <1>1, <3>1
      <4>2. pendingChecks[j] = s => <<"pending", j>> = <<"pending", i>>
        BY <4>1, Members, ZenonT(30)
      <4>3. selecting[j] = s => <<"select", j>> = <<"pending", i>>
        BY <4>1, Members, ZenonT(30)
      <4>4. sending[j] = s => <<"send", j>> = <<"pending", i>>
        BY <4>1, Members, ZenonT(30)
      <4> QED BY <4>2, <4>3, <4>4, Tags
    <3>3. dpc[s] # "send"
      BY <1>1, <3>1, Members
    <3> QED BY <3>1, <3>2, <3>3 DEF Single, ByCheck
  <2>2. CASE \E i \in Ids : x = <<"select", i>> /\ selecting[i] = s
    <3>1. PICK i \in Ids : x = <<"select", i>> /\ selecting[i] = s
      BY <2>2
    <3>2. \A j \in Ids : /\ selecting[j] = s => j = i
                         /\ pendingChecks[j] # s /\ sending[j] # s
      <4> SUFFICES ASSUME NEW j \in Ids
                   PROVE  (selecting[j] = s => j = i) /\ pendingChecks[j] # s /\ sending[j] # s
        OBVIOUS
      <4>1. \A y \in Outstanding(s) : y = <<"select", i>>
        BY <1>1, <3>1
      <4>2. selecting[j] = s => <<"select", j>> = <<"select", i>>
        BY <4>1, Members, ZenonT(30)
      <4>3. pendingChecks[j] = s => <<"pending", j>> = <<"select", i>>
        BY <4>1, Members, ZenonT(30)
      <4>4. sending[j] = s => <<"send", j>> = <<"select", i>>
        BY <4>1, Members, ZenonT(30)
      <4> QED BY <4>2, <4>3, <4>4, Tags
    <3>3. dpc[s] # "send"
      BY <1>1, <3>1, Members
    <3> QED BY <3>1, <3>2, <3>3 DEF Single, ByCheck
  <2>3. CASE \E i \in Ids : x = <<"send", i>> /\ sending[i] = s
    <3>1. PICK i \in Ids : x = <<"send", i>> /\ sending[i] = s
      BY <2>3
    <3>2. \A j \in Ids : /\ sending[j] = s => j = i
                         /\ pendingChecks[j] # s /\ selecting[j] # s
      <4> SUFFICES ASSUME NEW j \in Ids
                   PROVE  (sending[j] = s => j = i) /\ pendingChecks[j] # s /\ selecting[j] # s
        OBVIOUS
      <4>1. \A y \in Outstanding(s) : y = <<"send", i>>
        BY <1>1, <3>1
      <4>2. sending[j] = s => <<"send", j>> = <<"send", i>>
        BY <4>1, Members, ZenonT(30)
      <4>3. pendingChecks[j] = s => <<"pending", j>> = <<"send", i>>
        BY <4>1, Members, ZenonT(30)
      <4>4. selecting[j] = s => <<"select", j>> = <<"send", i>>
        BY <4>1, Members, ZenonT(30)
      <4> QED BY <4>2, <4>3, <4>4, Tags
    <3>3. dpc[s] # "send"
      BY <1>1, <3>1, Members
    <3> QED BY <3>1, <3>2, <3>3 DEF Single, ByCheck
  <2>4. CASE dpc[s] = "send" /\ x = <<"dampener", NoId>>
    <3>1. ASSUME NEW j \in Ids
          PROVE  pendingChecks[j] # s /\ selecting[j] # s /\ sending[j] # s
      <4>1. \A y \in Outstanding(s) : y = <<"dampener", NoId>>
        BY <1>1, <2>4
      <4>2. /\ pendingChecks[j] = s => <<"pending", j>> = <<"dampener", NoId>>
            /\ selecting[j] = s => <<"select", j>> = <<"dampener", NoId>>
            /\ sending[j] = s => <<"send", j>> = <<"dampener", NoId>>
        BY <4>1, Members, ZenonT(30)
      <4> QED BY <4>2, Tags
    <3> QED BY <2>4, <3>1 DEF Single, ByDampener
  <2> QED BY <1>1, <2>1, <2>2, <2>3, <2>4 DEF Outstanding
<1>2. ASSUME NEW i \in Ids, ByCheck(s, i)
      PROVE  \E x \in Outstanding(s) : Outstanding(s) = {x}
  <2>1. CASE s = pendingChecks[i]
    <3>1. Outstanding(s) = {<<"pending", i>>}
      BY <2>1, <1>2 DEF Outstanding, ByCheck
    <3> QED BY <3>1
  <2>2. CASE s = selecting[i]
    <3>1. Outstanding(s) = {<<"select", i>>}
      BY <2>2, <1>2 DEF Outstanding, ByCheck
    <3> QED BY <3>1
  <2>3. CASE s = sending[i]
    <3>1. Outstanding(s) = {<<"send", i>>}
      BY <2>3, <1>2 DEF Outstanding, ByCheck
    <3> QED BY <3>1
  <2> QED BY <1>2, <2>1, <2>2, <2>3 DEF ByCheck
<1>3. ASSUME ByDampener(s)
      PROVE  \E x \in Outstanding(s) : Outstanding(s) = {x}
  <2>1. Outstanding(s) = {<<"dampener", NoId>>}
    BY <1>3 DEF Outstanding, ByDampener
  <2> QED BY <2>1
<1> QED BY <1>1, <1>2, <1>3 DEF Single

LEMMA OneResultIs == ResultsInv => OneResultPerCheck
BY SingleIs, IdleIs DEF OneResultPerCheck, ResultsInv

------------------------------------------------------------------------------
(* A step that does not touch what is outstanding for u. *)
Untouched(u) ==
  /\ \A j \in Ids : /\ pendingChecks'[j] = u <=> pendingChecks[j] = u
                    /\ selecting'[j] = u <=> selecting[j] = u
                    /\ sending'[j] = u <=> sending[j] = u
  /\ dpc'[u] = "send" <=> dpc[u] = "send"

LEMMA Unaffected ==
  ASSUME NEW u, Untouched(u)
  PROVE  (Single(u) => Single(u)') /\ (Idle(u) => Idle(u)')
<1>1. ASSUME NEW i \in Ids, ByCheck(u, i) PROVE ByCheck(u, i)'
  BY <1>1 DEF Untouched, ByCheck
<1>2. ByDampener(u) => ByDampener(u)'
  BY DEF Untouched, ByDampener
<1>3. Idle(u) => Idle(u)'
  BY DEF Untouched, Idle
<1> QED BY <1>1, <1>2, <1>3 DEF Single

(* Steps of the manager that start, send and receive nothing. *)
LEMMA PhaseStep ==
  ASSUME HInv, Sleep \/ PublishResults \/ RoundComplete
  PROVE  HInv'
<1>1. UNCHANGED <<crashed, nextTargets, active, toCheck, blockedOn, closed, checkVars, sendVars, dampVars>>
  BY DEF Sleep, PublishResults, RoundComplete, appVars
<1> USE DEF checkVars, sendVars, dampVars
<1>2. TypeOK'
  BY <1>1, StreamFacts DEF Sleep, PublishResults, RoundComplete, HInv, TypeOK
<1>3. IdsExclusive' /\ PhaseInv' /\ ClosedStreamsQuiet'
  BY <1>1 DEF Sleep, PublishResults, RoundComplete, Collected, HInv, IdsExclusive,
              PhaseInv, ClosedStreamsQuiet
<1>4. ResultsInv'
  <2> SUFFICES ASSUME NEW u \in active
               PROVE  (Awaited(u)' => Single(u)') /\ (~Awaited(u)' => Idle(u)')
    BY <1>1 DEF ResultsInv
  <2>1. Awaited(u)' <=> Awaited(u)
    BY <1>1 DEF Awaited, Sleep, PublishResults, RoundComplete, Collected, HInv, TypeOK
  <2>2. Untouched(u)
    BY <1>1 DEF Untouched
  <2> QED BY <2>1, <2>2, Unaffected DEF HInv, ResultsInv
<1> QED BY <1>2, <1>3, <1>4 DEF HInv

(* A table is loaded, an echo is lost. *)
LEMMA OutsideStep ==
  ASSUME HInv, \/ \E tb \in Tables : SyncBackendsToCheckManager(tb)
               \/ \E i \in Ids : LoseEcho(i)
  PROVE  HInv'
<1>1. /\ UNCHANGED <<managerVars, closed, pendingChecks, timers, selecting, sendVars, dampVars>>
      /\ crashed' \in BOOLEAN /\ nextTargets' \subseteq Targets /\ net' \subseteq Ids
  BY TableTargets, ZenonT(30) DEF SyncBackendsToCheckManager, SetTargets, LoseEcho, appVars,
                      checkVars, HInv, TypeOK
<1> USE DEF managerVars, sendVars, dampVars
<1>2. TypeOK'
  BY <1>1 DEF HInv, TypeOK
<1>3. IdsExclusive' /\ PhaseInv' /\ ClosedStreamsQuiet'
  BY <1>1 DEF HInv, IdsExclusive, PhaseInv, ClosedStreamsQuiet
<1>4. ResultsInv'
  <2> SUFFICES ASSUME NEW u \in active
               PROVE  (Awaited(u)' => Single(u)') /\ (~Awaited(u)' => Idle(u)')
    BY <1>1 DEF ResultsInv
  <2>1. (Awaited(u)' <=> Awaited(u)) /\ Untouched(u)
    BY <1>1 DEF Awaited, Untouched
  <2> QED BY <2>1, Unaffected DEF HInv, ResultsInv
<1> QED BY <1>2, <1>3, <1>4 DEF HInv

(* The streams of new targets are ones that nothing refers to. *)
LEMMA NewStreamsFresh ==
  ASSUME HInv, UpdateTargets
  PROVE  /\ NewStreams \subseteq Streams
         /\ \A s \in NewStreams : s \notin active /\ Idle(s) /\ Target(s) \in Added
         /\ \A s, u \in NewStreams : Target(s) = Target(u) => s = u
<1>1. ASSUME NEW t \in Added
      PROVE  /\ NewStream(t) \in Streams /\ Target(NewStream(t)) = t
             /\ NewStream(t) \notin active /\ Idle(NewStream(t))
  <2>1. t \in Targets
    BY DEF Added, HInv, TypeOK
  <2>2. PICK g \in Gens : NewStream(t) = <<t, g>> /\ Collectable(<<t, g>>)
    BY DEF UpdateTargets, NewStream
  <2>3. <<t, g>> \in Streams /\ Target(<<t, g>>) = t
    BY <2>1, StreamFacts, SMTT(30)
  <2> QED BY <2>2, <2>3 DEF Collectable, Idle
<1> QED BY <1>1 DEF NewStreams

LEMMA UpdateStep ==
  ASSUME HInv, UpdateTargets
  PROVE  HInv'
<1> USE DEF UpdateTargets, appVars, checkVars, sendVars
<1>1. \A s \in active : Idle(s)
  BY DEF HInv, ResultsInv, Awaited
<1>2. /\ NewStreams \subseteq Streams
      /\ \A s \in NewStreams : s \notin active /\ Idle(s) /\ Target(s) \in Added
      /\ \A s, u \in NewStreams : Target(s) = Target(u) => s = u
  BY NewStreamsFresh
<1>3. active \subseteq Streams /\ closed \subseteq Streams \ active
      /\ \A s, u \in active : Target(s) = Target(u) => s = u
  BY SMTT(30) DEF HInv, TypeOK
<1>4. active' \subseteq Streams /\ closed' \subseteq Streams \ active'
  BY <1>2, <1>3 DEF Kept, Gone
<1>5. \A s, u \in active' : Target(s) = Target(u) => s = u
  BY <1>2, <1>3 DEF Kept, Added
<1>6. recent' \in [Streams -> Seq(BOOLEAN)]
  <2>1. <<>> \in Seq(BOOLEAN)
    OBVIOUS
  <2>2. \A s \in Streams : recent[s] \in Seq(BOOLEAN)
    BY DEF HInv, TypeOK
  <2> QED BY <2>1, <2>2, Zenon
<1>7. dpc' \in [Streams -> {"done", "first", "recv", "send"}]
  BY SMTT(30) DEF HInv, TypeOK
<1>8. toWait' \subseteq active'
  <2>1. toWait = {}
    BY DEF HInv, PhaseInv
  <2> QED BY <2>1
<1>9. TypeOK'
  BY <1>4, <1>5, <1>6, <1>7, <1>8 DEF HInv, TypeOK
<1>10. IdsExclusive' /\ PhaseInv'
  BY DEF HInv, IdsExclusive, PhaseInv
<1>11. \A s \in active' : Idle(s)'
  BY <1>1, <1>2, <1>4 DEF Idle, Kept
<1>12. ResultsInv'
  BY <1>11 DEF ResultsInv, Awaited
<1>13. ClosedStreamsQuiet'
  BY <1>1 DEF HInv, ClosedStreamsQuiet, Idle, Gone
<1> QED BY <1>9, <1>10, <1>12, <1>13 DEF HInv

------------------------------------------------------------------------------
(* A check is started: its identifier was free and now stands for it.       *)

LEMMA FreeIdentifier ==
  ASSUME FreeIds # {}
  PROVE  createPendingCheck \in FreeIds
BY DEF createPendingCheck

LEMMA CheckStep ==
  ASSUME HInv, NEW s \in Streams, CheckTarget(s)
  PROVE  HInv'
<1>0. PICK i \in Ids : i = createPendingCheck /\ i \in FreeIds
  BY FreeIdentifier DEF CheckTarget, CheckFailsAtOnce, CheckTunnel, CheckSelect,
                        StartCheck, FreeIds
<1>1. /\ StartCheck(s)
      /\ NoStream = pendingChecks[i] /\ NoStream = selecting[i] /\ NoStream = sending[i]
  BY <1>0, SMTT(30) DEF CheckTarget, CheckFailsAtOnce, CheckTunnel, CheckSelect, FreeIds
<1>2. /\ s \in active /\ s \in toCheck /\ mpc = "check" /\ mpc' = "check"
      /\ toCheck' = toCheck \ {s} /\ s # NoStream
  BY <1>1, StreamFacts DEF StartCheck, CheckTarget, CheckFailsAtOnce, CheckTunnel,
                           CheckSelect, HInv, TypeOK
<1>3. /\ UNCHANGED <<crashed, nextTargets, results, active, toWait, closed>>
      /\ UNCHANGED dampVars
      /\ blockedOn' \in Ids \cup {NoId} /\ timers' \subseteq Ids /\ net' \subseteq Ids
      /\ value' \in [Ids -> BOOLEAN]
  BY <1>0, ZenonT(30) DEF CheckTarget, CheckFailsAtOnce, CheckTunnel, CheckSelect, SendResult,
              appVars, checkVars, sendVars, HInv, TypeOK
<1> USE DEF dampVars
<1>4. \/ /\ sending' = [sending EXCEPT ![i] = s] /\ UNCHANGED <<pendingChecks, selecting>>
      \/ /\ pendingChecks' = [pendingChecks EXCEPT ![i] = s] /\ UNCHANGED <<selecting, sending>>
      \/ /\ selecting' = [selecting EXCEPT ![i] = s] /\ UNCHANGED <<pendingChecks, sending>>
  BY <1>0 DEF CheckTarget, CheckFailsAtOnce, CheckTunnel, CheckSelect, SendResult,
              checkVars, sendVars
<1>5. /\ pendingChecks \in [Ids -> Streams \cup {NoStream}]
      /\ selecting \in [Ids -> Streams \cup {NoStream}]
      /\ sending \in [Ids -> Streams \cup {NoStream}]
  BY DEF HInv, TypeOK
<1>6. TypeOK'
  <2>1. /\ pendingChecks' \in [Ids -> Streams \cup {NoStream}]
        /\ selecting' \in [Ids -> Streams \cup {NoStream}]
        /\ sending' \in [Ids -> Streams \cup {NoStream}]
    BY <1>4, <1>5
  <2> QED BY <2>1, <1>2, <1>3 DEF HInv, TypeOK
<1>7. IdsExclusive' /\ PhaseInv'
  BY <1>1, <1>2, <1>3, <1>4, <1>5, ZenonT(30) DEF HInv, IdsExclusive, PhaseInv
<1>8. ClosedStreamsQuiet'
  <2>1. s \notin closed
    BY <1>2 DEF HInv, TypeOK
  <2> QED BY <2>1, <1>3, <1>4, <1>5 DEF HInv, ClosedStreamsQuiet
<1>9. ResultsInv'
  <2> SUFFICES ASSUME NEW u \in active
               PROVE  (Awaited(u)' => Single(u)') /\ (~Awaited(u)' => Idle(u)')
    BY <1>3 DEF ResultsInv
  <2>1. CASE u = s
    <3>1. Idle(s)
      BY <1>2 DEF HInv, ResultsInv, Awaited
    <3>2. ByCheck(s, i)'
      BY <3>1, <1>1, <1>2, <1>3, <1>4, <1>5 DEF Idle, ByCheck
    <3>3. Awaited(s)'
      BY <1>2, <1>3 DEF Awaited
    <3> QED BY <2>1, <3>2, <3>3, <1>1 DEF Single
  <2>2. CASE u # s
    <3>1. u # NoStream
      BY StreamFacts DEF HInv, TypeOK
    <3>2. Untouched(u)
      BY <2>2, <3>1, <1>1, <1>3, <1>4, <1>5, ZenonT(30) DEF Untouched
    <3>3. Awaited(u)' <=> Awaited(u)
      BY <2>2, <1>2, <1>3 DEF Awaited
    <3> QED BY <3>2, <3>3, Unaffected DEF HInv, ResultsInv
  <2> QED BY <2>1, <2>2
<1> QED BY <1>6, <1>7, <1>8, <1>9 DEF HInv

------------------------------------------------------------------------------
(* A check completes: reply, timeout or select, the first one moves it to   *)
(* a goroutine that sends its result; a later one finds nothing.            *)

LEMMA MoveStep ==
  ASSUME HInv, NEW i \in Ids, NEW s \in Streams, NEW h \in BOOLEAN,
         SendResult(i, s, h), s \in {pendingChecks[i], selecting[i]},
         UNCHANGED <<crashed, nextTargets, managerVars, closed, dampVars>>,
         timers' \subseteq Ids, net' \subseteq Ids,
         \/ s = pendingChecks[i] /\ pendingChecks' = [pendingChecks EXCEPT ![i] = NoStream]
                                 /\ selecting' = selecting
         \/ s = selecting[i] /\ selecting' = [selecting EXCEPT ![i] = NoStream]
                             /\ pendingChecks' = pendingChecks
  PROVE  HInv'
<1> USE DEF managerVars, dampVars, SendResult
<1>1. /\ pendingChecks \in [Ids -> Streams \cup {NoStream}]
      /\ selecting \in [Ids -> Streams \cup {NoStream}]
      /\ sending \in [Ids -> Streams \cup {NoStream}]
      /\ value \in [Ids -> BOOLEAN]
  BY DEF HInv, TypeOK
<1>2. s # NoStream /\ NoStream = sending[i]
      /\ (s = pendingChecks[i] => NoStream = selecting[i])
      /\ (s = selecting[i] => NoStream = pendingChecks[i])
  BY StreamFacts DEF HInv, IdsExclusive
<1>3. TypeOK'
  BY <1>1 DEF HInv, TypeOK
<1>4. IdsExclusive' /\ PhaseInv'
  BY <1>1, <1>2 DEF HInv, IdsExclusive, PhaseInv
<1>5. ClosedStreamsQuiet'
  <2>1. s \notin closed
    BY DEF HInv, ClosedStreamsQuiet
  <2>2. NoStream \notin closed
    BY StreamFacts DEF HInv, TypeOK
  <2> QED BY <2>1, <2>2, <1>1 DEF HInv, ClosedStreamsQuiet
<1>6. ResultsInv'
  <2> SUFFICES ASSUME NEW u \in active
               PROVE  (Awaited(u)' => Single(u)') /\ (~Awaited(u)' => Idle(u)')
    BY DEF ResultsInv
  <2>1. Awaited(u)' <=> Awaited(u)
    BY DEF Awaited
  <2>2. CASE u = s
    <3>1. Awaited(s) /\ Single(s)
      BY <2>2 DEF HInv, ResultsInv, Idle
    <3>2. ByCheck(s, i)
      BY <3>1 DEF Single, ByCheck, ByDampener
    <3>3. ByCheck(s, i)'
      BY <3>2, <1>1, <1>2 DEF ByCheck
    <3> QED BY <2>1, <2>2, <3>1, <3>3, SMTT(30) DEF Single
  <2>3. CASE u # s
    <3>1. u # NoStream
      BY StreamFacts DEF HInv, TypeOK
    <3>2. Untouched(u)
      BY <2>3, <3>1, <1>1, <1>2 DEF Untouched
    <3> QED BY <2>1, <3>2, Unaffected, SMTT(30) DEF HInv, ResultsInv
  <2> QED BY <2>2, <2>3
<1> QED BY <1>3, <1>4, <1>5, <1>6 DEF HInv

LEMMA CompleteStep ==
  ASSUME HInv, NEW i \in Ids, NEW h \in BOOLEAN, getCheckCompletionChannel(i, h),
         UNCHANGED <<crashed, nextTargets, managerVars, closed, selecting, dampVars>>,
         timers' \subseteq Ids, net' \subseteq Ids
  PROVE  HInv'
<1> USE DEF getCheckCompletionChannel
<1>1. pendingChecks \in [Ids -> Streams \cup {NoStream}]
  BY DEF HInv, TypeOK
<1>2. CASE pendingChecks[i] = NoStream
  <2>1. UNCHANGED <<pendingChecks, sendVars>>
    BY <1>1, <1>2
  <2> USE DEF managerVars, sendVars, dampVars
  <2>2. TypeOK'
    BY <2>1 DEF HInv, TypeOK
  <2>3. IdsExclusive' /\ PhaseInv' /\ ClosedStreamsQuiet'
    BY <2>1 DEF HInv, IdsExclusive, PhaseInv, ClosedStreamsQuiet
  <2>4. ASSUME NEW u \in active
        PROVE  (Awaited(u)' => Single(u)') /\ (~Awaited(u)' => Idle(u)')
    <3>1. (Awaited(u)' <=> Awaited(u)) /\ Untouched(u)
      BY <2>1 DEF Awaited, Untouched
    <3> QED BY <3>1, Unaffected, SMTT(30) DEF HInv, ResultsInv
  <2> QED BY <2>2, <2>3, <2>4 DEF HInv, ResultsInv
<1>3. CASE pendingChecks[i] # NoStream
  <2>1. pendingChecks[i] \in Streams /\ SendResult(i, pendingChecks[i], h)
    BY <1>1, <1>3
  <2> QED BY <2>1, MoveStep, ZenonT(30)
<1> QED BY <1>2, <1>3

LEMMA CheckerStep ==
  ASSUME HInv, NEW i \in Ids, Checker(i)
  PROVE  HInv'
<1>1. timers \subseteq Ids /\ net \subseteq Ids
      /\ selecting \in [Ids -> Streams \cup {NoStream}]
  BY DEF HInv, TypeOK
<1>2. CASE CheckTimeout(i)
  BY <1>1, <1>2, CompleteStep, ZenonT(30) DEF CheckTimeout, appVars
<1>3. CASE icmpReceiveLoop(i)
  <2>1. net' \subseteq Ids
    BY <1>1, <1>3 DEF icmpReceiveLoop
  <2> QED BY <2>1, <1>1, <1>3, CompleteStep, ZenonT(30) DEF icmpReceiveLoop, appVars
<1>4. ASSUME NEW h \in BOOLEAN, SelectDone(i, h) PROVE HInv'
  <2>1. selecting[i] \in Streams
    BY <1>1, <1>4 DEF SelectDone
  <2> QED BY <2>1, <1>1, <1>4, MoveStep, ZenonT(30) DEF SelectDone, appVars
<1> QED BY <1>2, <1>3, <1>4, OutsideStep, ZenonT(30) DEF Checker, SelectTimeout, Answer

------------------------------------------------------------------------------
(* The dampener takes a result, the manager takes the dampened one.         *)

LEMMA CollectStep ==
  ASSUME HInv, NEW s \in Streams, Collect(s)
  PROVE  HInv'
<1> USE DEF Collect, appVars, checkVars, sendVars
<1>1. TypeOK'
  BY SMTT(30) DEF HInv, TypeOK
<1>2. IdsExclusive' /\ PhaseInv' /\ ClosedStreamsQuiet'
  BY ZenonT(30) DEF HInv, IdsExclusive, PhaseInv, ClosedStreamsQuiet
<1>3. ASSUME NEW u \in active
      PROVE  (Awaited(u)' => Single(u)') /\ (~Awaited(u)' => Idle(u)')
  <2>1. CASE u = s
    <3>1. Awaited(s) /\ Single(s) /\ ~Awaited(s)'
      BY <2>1, <1>3 DEF HInv, ResultsInv, Awaited
    <3>2. ByDampener(s)
      BY <3>1 DEF Single, ByCheck
    <3>3. Idle(s)'
      BY <3>2 DEF ByDampener, Idle, HInv, TypeOK
    <3> QED BY <2>1, <3>1, <3>3
  <2>2. CASE u # s
    <3>1. (Awaited(u)' <=> Awaited(u)) /\ Untouched(u)
      BY <2>2 DEF Awaited, Untouched, HInv, TypeOK
    <3> QED BY <3>1, <1>3, Unaffected DEF HInv, ResultsInv
  <2> QED BY <2>1, <2>2
<1> QED BY <1>1, <1>2, <1>3 DEF HInv, ResultsInv

LEMMA RecentType ==
  ASSUME NEW r \in Seq(BOOLEAN), NEW h \in BOOLEAN
  PROVE  SubSeq(<<h>> \o r, 1, IF Len(r) < Window THEN Len(r) + 1 ELSE Window)
           \in Seq(BOOLEAN)
<1>1. <<h>> \o r \in Seq(BOOLEAN) /\ Len(<<h>> \o r) = Len(r) + 1 /\ Len(r) \in Nat
  OBVIOUS
<1>2. PICK n \in Nat : n = (IF Len(r) < Window THEN Len(r) + 1 ELSE Window)
                       /\ n <= Len(r) + 1
  BY <1>1, WindowType
<1>3. \A k \in 1..n : (<<h>> \o r)[k] \in BOOLEAN
  BY <1>1, <1>2, ElementOfSeq
<1>4. SubSeq(<<h>> \o r, 1, n) \in Seq(BOOLEAN)
  BY <1>1, <1>2, <1>3, SubSeqProperties
<1> QED BY <1>2, <1>4

LEMMA DampenStep ==
  ASSUME HInv, NEW i \in Ids, DampenedResultStream(i)
  PROVE  HInv'
<1>1. PICK s : s = sending[i]
  BY SMTT(30)
<1>2. /\ s \in Streams /\ s # NoStream /\ s \notin closed /\ dpc[s] \in {"first", "recv"}
      /\ SendResult(i, NoStream, FALSE) /\ value[i] \in BOOLEAN
      /\ blockedOn' \in Ids \cup {NoId}
      /\ dpc' = [dpc EXCEPT ![s] = "send"]
  BY <1>1, ZenonT(30) DEF DampenedResultStream, HInv, TypeOK
<1>3. UNCHANGED <<crashed, nextTargets, results, mpc, active, toCheck, toWait, closed,
                  pendingChecks, timers, net, selecting>>
  BY DEF DampenedResultStream, appVars, checkVars
<1>4. /\ sending' = [sending EXCEPT ![i] = NoStream]
      /\ value' = [value EXCEPT ![i] = FALSE]
      /\ sending \in [Ids -> Streams \cup {NoStream}] /\ value \in [Ids -> BOOLEAN]
      /\ dpc \in [Streams -> {"done", "first", "recv", "send"}]
  BY <1>2 DEF SendResult, HInv, TypeOK
<1>5. currentHealthCount' \in [Streams -> 0..Window]
  <2>1. currentHealthCount \in [Streams -> 0..Window]
    BY DEF HInv, TypeOK
  <2>2. RunLength(s, value[i]) \in 0..Window /\ 1 \in 0..Window
    BY <2>1, <1>2, WindowType DEF RunLength
  <2>3. PICK c \in 0..Window : currentHealthCount' = [currentHealthCount EXCEPT ![s] = c]
    BY <2>2, <1>1, ZenonT(30) DEF DampenedResultStream
  <2> QED BY <2>1, <2>3, ZenonT(30)
<1>6. currentHealth' \in [Streams -> BOOLEAN]
  <2>1. currentHealth' = [currentHealth EXCEPT ![s] = value[i]]
    BY <1>1, ZenonT(30) DEF DampenedResultStream
  <2> QED BY <2>1, <1>2 DEF HInv, TypeOK
<1>7. reportedHealth' \in [Streams -> BOOLEAN]
  <2>1. PICK b \in BOOLEAN : reportedHealth' = [reportedHealth EXCEPT ![s] = b]
    BY <1>1, <1>2, ZenonT(30) DEF DampenedResultStream, HInv, TypeOK
  <2> QED BY <2>1, ZenonT(30) DEF HInv, TypeOK
<1>8. recent' \in [Streams -> Seq(BOOLEAN)]
  <2>1. recent \in [Streams -> Seq(BOOLEAN)]
    BY DEF HInv, TypeOK
  <2>2. recent[s] \in Seq(BOOLEAN)
    BY <2>1, <1>2
  <2>3. PICK q \in Seq(BOOLEAN) : recent' = [recent EXCEPT ![s] = q]
    BY <2>2, <1>1, <1>2, RecentType, ZenonT(30) DEF DampenedResultStream
  <2> QED BY <2>1, <2>3, Zenon
<1>9. TypeOK'
  <2>1. sending' \in [Ids -> Streams \cup {NoStream}] /\ value' \in [Ids -> BOOLEAN]
        /\ dpc' \in [Streams -> {"done", "first", "recv", "send"}]
    BY <1>2, <1>4
  <2> QED BY <2>1, <1>2, <1>3, <1>5, <1>6, <1>7, <1>8, ZenonT(30) DEF HInv, TypeOK
<1>10. IdsExclusive' /\ PhaseInv'
  BY <1>3, <1>4 DEF HInv, IdsExclusive, PhaseInv
<1>11. ClosedStreamsQuiet'
  <2>1. NoStream \notin closed
    BY StreamFacts DEF HInv, TypeOK
  <2> QED BY <2>1, <1>3, <1>4, SMTT(30) DEF HInv, ClosedStreamsQuiet
<1>12. ASSUME NEW u \in active
       PROVE  (Awaited(u)' => Single(u)') /\ (~Awaited(u)' => Idle(u)')
  <2>1. Awaited(u)' <=> Awaited(u)
    BY <1>3 DEF Awaited
  <2>2. CASE u = s
    <3>1. Awaited(s) /\ Single(s)
      BY <2>2, <1>1, <1>12, SMTT(30) DEF HInv, ResultsInv, Idle
    <3>2. ByCheck(s, i)
      BY <3>1, <1>1, <1>2 DEF Single, ByCheck, ByDampener
    <3>3. ByDampener(s)'
      BY <3>2, <1>1, <1>2, <1>3, <1>4 DEF ByCheck, ByDampener
    <3> QED BY <2>1, <2>2, <3>1, <3>3 DEF Single
  <2>3. CASE u # s
    <3>1. u # NoStream
      BY <1>12, StreamFacts DEF HInv, TypeOK
    <3>2. Untouched(u)
      BY <2>3, <3>1, <1>1, <1>2, <1>3, <1>4 DEF Untouched
    <3> QED BY <2>1, <3>2, <1>12, Unaffected, SMTT(30) DEF HInv, ResultsInv
  <2> QED BY <2>2, <2>3
<1> QED BY <1>3, <1>9, <1>10, <1>11, <1>12 DEF HInv, ResultsInv

(* The dampener of a closed stream ends; no active stream is concerned. *)
LEMMA EndStep ==
  ASSUME HInv, NEW s \in Streams, DampenerEnds(s)
  PROVE  HInv'
<1> USE DEF DampenerEnds, appVars, managerVars, checkVars, sendVars
<1>1. dpc' \in [Streams -> {"done", "first", "recv", "send"}]
  <2>1. PICK c \in {"send", "recv", "done"} : dpc' = [dpc EXCEPT ![s] = c]
    BY ZenonT(30) DEF HInv, TypeOK
  <2> QED BY <2>1 DEF HInv, TypeOK
<1>2. recent' \in [Streams -> Seq(BOOLEAN)]
  <2>1. <<>> \in Seq(BOOLEAN) /\ recent \in [Streams -> Seq(BOOLEAN)]
    BY DEF HInv, TypeOK
  <2> QED BY <2>1, Zenon
<1>3. 0 \in 0..Window
  BY WindowType
<1>4. TypeOK'
  BY <1>1, <1>2, <1>3 DEF HInv, TypeOK
<1>5. IdsExclusive' /\ PhaseInv' /\ ClosedStreamsQuiet'
  BY DEF HInv, IdsExclusive, PhaseInv, ClosedStreamsQuiet
<1>6. ASSUME NEW u \in active
      PROVE  (Awaited(u)' => Single(u)') /\ (~Awaited(u)' => Idle(u)')
  <2>1. (Awaited(u)' <=> Awaited(u)) /\ Untouched(u)
    BY <1>6 DEF Awaited, Untouched, HInv, TypeOK
  <2> QED BY <2>1, <1>6, Unaffected DEF HInv, ResultsInv
<1> QED BY <1>4, <1>5, <1>6 DEF HInv, ResultsInv

LEMMA HNext == HInv /\ [Next]_vars => HInv'
<1> SUFFICES ASSUME HInv, [Next]_vars PROVE HInv'
  OBVIOUS
<1>1. CASE UNCHANGED vars
  <2> USE <1>1 DEF vars, appVars, managerVars, checkVars, sendVars, dampVars
  <2>1. TypeOK'
    BY SMTT(30) DEF HInv, TypeOK
  <2>2. IdsExclusive' /\ PhaseInv' /\ ClosedStreamsQuiet'
    BY DEF HInv, IdsExclusive, PhaseInv, ClosedStreamsQuiet
  <2>3. ASSUME NEW u \in active
        PROVE  (Awaited(u)' => Single(u)') /\ (~Awaited(u)' => Idle(u)')
    <3>1. (Awaited(u)' <=> Awaited(u)) /\ Untouched(u)
      BY DEF Awaited, Untouched
    <3> QED BY <3>1, <2>3, Unaffected, SMTT(30) DEF HInv, ResultsInv
  <2>4. active' = active
    OBVIOUS
  <2> QED BY <2>1, <2>2, <2>3, <2>4, SMTT(30) DEF HInv, ResultsInv
<1>2. CASE Manager
  BY <1>2, UpdateStep, PhaseStep, CheckStep, CollectStep DEF Manager
<1>3. CASE Dampener
  BY <1>3, DampenStep, EndStep DEF Dampener
<1> QED BY <1>1, <1>2, <1>3, OutsideStep, CheckerStep DEF Next

LEMMA HInvariant == Spec => []HInv
BY HInit, HNext, PTL DEF Spec

------------------------------------------------------------------------------
(* The state of manager, checkers and dampeners keeps its types, and no     *)
(* target has two active streams.                                           *)
THEOREM ManagerTypes == Spec => []TypeOK
<1>1. HInv => TypeOK
  BY DEF HInv
<1> QED BY <1>1, HInvariant, PTL

(* However replies, duplicates, timeouts and selects race, each check that  *)
(* was started has exactly one result on its way until it is collected.     *)
THEOREM OneResult == Spec => []OneResultPerCheck
<1>1. HInv => OneResultPerCheck
  BY OneResultIs DEF HInv
<1> QED BY <1>1, HInvariant, PTL

(* When Run closes a raw stream, no check can write into it any more, so    *)
(* no goroutine panics.                                                     *)
THEOREM NoSendOnClosed == Spec => []ClosedStreamsQuiet
<1>1. HInv => ClosedStreamsQuiet
  BY DEF HInv
<1> QED BY <1>1, HInvariant, PTL

------------------------------------------------------------------------------
(* Dampening: the counter of a dampener against the results it was given.   *)

(* The newest results of r are a run of h, c of them and no more. *)
Run(r, h, c) ==
  /\ Len(r) <= Window /\ c \in 1 .. Len(r)
  /\ \A k \in 1 .. c : r[k] = h
  /\ c < Len(r) => r[c + 1] # h

(* What a result h makes of the history r. *)
Newer(r, h) == SubSeq(<<h>> \o r, 1, IF Len(r) < Window THEN Len(r) + 1 ELSE Window)
Longer(g, h, c) == IF h # g THEN 1 ELSE IF c < Window THEN c + 1 ELSE Window

(* A dampener that has had results knows the run they end in, and reports   *)
(* the health of a run that is long enough.                                 *)
Tracks(s) ==
  /\ Run(recent[s], currentHealth[s], currentHealthCount[s])
  /\ currentHealthCount[s] >= CountBefore(currentHealth[s]) =>
       reportedHealth[s] = currentHealth[s]

DInv ==
  \A s \in Streams : s \notin closed =>
    /\ dpc[s] = "first" => recent[s] = <<>>
    /\ dpc[s] \in {"recv", "send"} => Tracks(s)

LEMMA CountBeforeType ==
  ASSUME NEW h \in BOOLEAN
  PROVE  CountBefore(h) \in Nat \ {0} /\ CountBefore(h) <= Window
BY ManagerConstants DEF CountBefore, Window

LEMMA NewerIs ==
  ASSUME NEW r \in Seq(BOOLEAN), NEW h \in BOOLEAN, Len(r) <= Window
  PROVE  /\ Len(Newer(r, h)) = IF Len(r) < Window THEN Len(r) + 1 ELSE Window
         /\ Newer(r, h)[1] = h
         /\ \A k \in 2 .. Len(Newer(r, h)) : Newer(r, h)[k] = r[k - 1]
<1>1. /\ <<h>> \o r \in Seq(BOOLEAN) /\ Len(<<h>> \o r) = Len(r) + 1 /\ Len(r) \in Nat
      /\ (<<h>> \o r)[1] = h
      /\ \A k \in 2 .. Len(r) + 1 : (<<h>> \o r)[k] = r[k - 1]
  OBVIOUS
<1>2. PICK n \in Nat : n = (IF Len(r) < Window THEN Len(r) + 1 ELSE Window)
                       /\ 1 <= n /\ n <= Len(r) + 1
  BY <1>1, WindowType
<1>3. /\ Len(SubSeq(<<h>> \o r, 1, n)) = n
      /\ \A k \in 1 .. n : SubSeq(<<h>> \o r, 1, n)[k] = (<<h>> \o r)[k]
  BY <1>1, <1>2, SubSeqProperties
<1>4. Newer(r, h) = SubSeq(<<h>> \o r, 1, n)
  BY <1>2 DEF Newer
<1>5. Len(Newer(r, h)) = n /\ Newer(r, h)[1] = h
  BY <1>1, <1>2, <1>3, <1>4
<1>6. ASSUME NEW k \in 2 .. n PROVE Newer(r, h)[k] = r[k - 1]
  <2>1. k \in 1 .. n /\ k \in 2 .. Len(r) + 1
    BY <1>1, <1>2
  <2> QED BY <2>1, <1>1, <1>3, <1>4
<1> QED BY <1>2, <1>5, <1>6

LEMMA RunStarts ==
  ASSUME NEW r \in Seq(BOOLEAN), r = <<>>, NEW h \in BOOLEAN
  PROVE  Run(Newer(r, h), h, 1)
<1>1. Len(r) = 0 /\ Len(r) <= Window
  BY WindowType
<1>2. Len(Newer(r, h)) = (IF Len(r) < Window THEN Len(r) + 1 ELSE Window)
      /\ Newer(r, h)[1] = h
  BY <1>1, NewerIs, ZenonT(30)
<1>3. Len(Newer(r, h)) = 1
  BY <1>1, <1>2, WindowType
<1> QED BY <1>2, <1>3, WindowType DEF Run

LEMMA RunGoesOn ==
  ASSUME NEW r \in Seq(BOOLEAN), NEW g \in BOOLEAN, NEW h \in BOOLEAN, NEW c,
         Run(r, g, c)
  PROVE  Run(Newer(r, h), h, Longer(g, h, c))
<1> DEFINE q == Newer(r, h)
<1>1. /\ Len(r) \in Nat /\ Len(r) <= Window /\ c \in Nat /\ 1 <= c /\ c <= Len(r)
      /\ \A k \in 1 .. c : r[k] = g
      /\ c < Len(r) => r[c + 1] # g
  BY DEF Run
<1>2. /\ Len(q) = IF Len(r) < Window THEN Len(r) + 1 ELSE Window
      /\ q[1] = h
      /\ \A k \in 2 .. Len(q) : q[k] = r[k - 1]
  BY <1>1, NewerIs
<1> HIDE DEF q
<1>3. Window \in Nat /\ Len(q) \in Nat /\ 1 <= Len(q) /\ Len(q) <= Window /\ c <= Window
      /\ Len(q) <= Len(r) + 1 /\ c <= Len(q)
  BY <1>1, <1>2, WindowType
<1>4. CASE h # g
  <2>1. 1 < Len(q) => q[2] # h
    <3>1. 1 < Len(q) => q[2] = r[1]
      BY <1>2, <1>3
    <3>2. r[1] = g
      BY <1>1
    <3> QED BY <3>1, <3>2, <1>4
  <2>2. Longer(g, h, c) = 1
    BY <1>4 DEF Longer
  <2>3. Run(q, h, 1)
    BY <2>1, <1>2, <1>3 DEF Run
  <2> QED BY <2>2, <2>3 DEF q
<1>5. CASE h = g /\ c < Window
  <2>1. Longer(g, h, c) = c + 1
    BY <1>5 DEF Longer
  <2>2. c + 1 \in 1 .. Len(q)
    BY <1>1, <1>2, <1>3, <1>5
  <2>3. ASSUME NEW k \in 1 .. c + 1 PROVE q[k] = h
    <3>1. CASE k = 1
      BY <3>1, <1>2
    <3>2. CASE k # 1
      <4>1. k \in 2 .. Len(q) /\ k - 1 \in 1 .. c
        BY <3>2, <2>2, <2>3, <1>1, <1>3
      <4> QED BY <4>1, <1>1, <1>2, <1>5
    <3> QED BY <3>1, <3>2
  <2>4. c + 1 < Len(q) => q[c + 1 + 1] # h
    <3> SUFFICES ASSUME c + 1 < Len(q) PROVE q[c + 1 + 1] # h
      OBVIOUS
    <3>1. PICK k \in 2 .. Len(q) : k = c + 1 + 1 /\ k - 1 = c + 1 /\ c < Len(r)
      BY <1>1, <1>3
    <3>2. q[k] = r[k - 1]
      BY <1>2
    <3> QED BY <3>1, <3>2, <1>1, <1>5
  <2>5. Run(q, h, c + 1)
    BY <2>2, <2>3, <2>4, <1>3 DEF Run
  <2> QED BY <2>1, <2>5 DEF q
<1>6. CASE h = g /\ ~(c < Window)
  <2>1. Longer(g, h, c) = Window /\ c = Window /\ Len(q) = Window
    BY <1>1, <1>2, <1>3, <1>6 DEF Longer
  <2>2. ASSUME NEW k \in 1 .. Window PROVE q[k] = h
    <3>1. CASE k = 1
      BY <3>1, <1>2
    <3>2. CASE k # 1
      <4>1. k \in 2 .. Len(q) /\ k - 1 \in 1 .. c
        BY <3>2, <2>1, <2>2, <1>3
      <4> QED BY <4>1, <1>1, <1>2, <1>6
    <3> QED BY <3>1, <3>2
  <2>3. Run(q, h, Window)
    BY <2>1, <2>2, <1>3 DEF Run
  <2> QED BY <2>1, <2>3 DEF q
<1> QED BY <1>4, <1>5, <1>6

(* What a result does to the stream it reaches. *)
LEMMA Taken ==
  ASSUME HInv, DInv, NEW i \in Ids, DampenedResultStream(i)
  PROVE  \E s \in Streams :
           /\ s = sending[i] /\ s \notin closed /\ closed' = closed
           /\ dpc[s] \in {"first", "recv"}
           /\ Tracks(s)' /\ dpc'[s] = "send" /\ currentHealth'[s] = value[i]
           /\ \/ reportedHealth'[s] = reportedHealth[s]
              \/ dpc[s] = "first"
              \/ /\ reportedHealth'[s] = value[i]
                 /\ currentHealthCount'[s] >= CountBefore(value[i])
           /\ \A u \in Streams : u # s =>
                /\ dpc'[u] = dpc[u] /\ recent'[u] = recent[u]
                /\ currentHealth'[u] = currentHealth[u]
                /\ currentHealthCount'[u] = currentHealthCount[u]
                /\ reportedHealth'[u] = reportedHealth[u]
<1>1. PICK s : s = sending[i]
  BY SMTT(30)
<1>2. PICK h : h = value[i]
  BY SMTT(30)
<1>3. /\ sending \in [Ids -> Streams \cup {NoStream}] /\ value \in [Ids -> BOOLEAN]
      /\ dpc \in [Streams -> {"done", "first", "recv", "send"}]
      /\ reportedHealth \in [Streams -> BOOLEAN] /\ currentHealth \in [Streams -> BOOLEAN]
      /\ currentHealthCount \in [Streams -> 0..Window]
      /\ recent \in [Streams -> Seq(BOOLEAN)]
  BY DEF HInv, TypeOK
<1>4. /\ s \in Streams /\ s \notin closed /\ dpc[s] \in {"first", "recv"} /\ h \in BOOLEAN
      /\ closed' = closed
      /\ dpc' = [dpc EXCEPT ![s] = "send"]
      /\ currentHealthCount' = [currentHealthCount EXCEPT ![s] =
                                  IF dpc[s] = "first" THEN 1
                                  ELSE Longer(currentHealth[s], h, currentHealthCount[s])]
      /\ currentHealth' = [currentHealth EXCEPT ![s] = h]
      /\ recent' = [recent EXCEPT ![s] = Newer(recent[s], h)]
  BY <1>1, <1>2, <1>3, ZenonT(30) DEF DampenedResultStream, RunLength, Longer, Newer
<1>5. reportedHealth' = [reportedHealth EXCEPT ![s] =
         IF \/ dpc[s] = "first"
            \/ /\ reportedHealth[s] # h
               /\ Longer(currentHealth[s], h, currentHealthCount[s]) >= CountBefore(h)
         THEN h ELSE reportedHealth[s]]
  BY <1>1, <1>2, ZenonT(30) DEF DampenedResultStream, RunLength, Longer
<1>6. /\ dpc'[s] = "send" /\ currentHealth'[s] = h /\ recent'[s] = Newer(recent[s], h)
      /\ dpc[s] = "first" => currentHealthCount'[s] = 1 /\ reportedHealth'[s] = h
      /\ dpc[s] = "recv" =>
           /\ currentHealthCount'[s] = Longer(currentHealth[s], h, currentHealthCount[s])
           /\ \/ /\ reportedHealth'[s] = h
                 /\ Longer(currentHealth[s], h, currentHealthCount[s]) >= CountBefore(h)
              \/ /\ reportedHealth'[s] = reportedHealth[s]
                 /\ \/ reportedHealth[s] = h
                    \/ ~(Longer(currentHealth[s], h, currentHealthCount[s]) >= CountBefore(h))
  BY <1>3, <1>4, <1>5, ZenonT(30)
<1>7. Tracks(s)'
  <2>1. recent[s] \in Seq(BOOLEAN) /\ currentHealth[s] \in BOOLEAN
    BY <1>3, <1>4
  <2>2. CASE dpc[s] = "first"
    <3>1. Run(recent'[s], h, 1)
      BY <2>1, <2>2, <1>4, <1>6, RunStarts, ZenonT(30) DEF DInv
    <3> QED BY <3>1, <2>2, <1>6, ZenonT(30) DEF Tracks
  <2>3. CASE dpc[s] = "recv"
    <3>1. Run(recent[s], currentHealth[s], currentHealthCount[s])
      BY <2>3, <1>4 DEF DInv, Tracks
    <3>2. Run(recent'[s], h, currentHealthCount'[s])
      BY <3>1, <2>1, <2>3, <1>4, <1>6, RunGoesOn
    <3>3. currentHealthCount'[s] >= CountBefore(h) => reportedHealth'[s] = h
      BY <2>3, <1>6, Zenon
    <3> QED BY <3>2, <3>3, <1>6 DEF Tracks
  <2> QED BY <2>2, <2>3, <1>4
<1>8. \A u \in Streams : u # s =>
        /\ dpc'[u] = dpc[u] /\ recent'[u] = recent[u]
        /\ currentHealth'[u] = currentHealth[u]
        /\ currentHealthCount'[u] = currentHealthCount[u]
        /\ reportedHealth'[u] = reportedHealth[u]
  BY <1>3, <1>4, <1>5, ZenonT(30)
<1>9. \/ reportedHealth'[s] = reportedHealth[s]
      \/ dpc[s] = "first"
      \/ reportedHealth'[s] = h /\ currentHealthCount'[s] >= CountBefore(h)
  BY <1>4, <1>6, Zenon
<1> QED BY <1>1, <1>2, <1>4, <1>6, <1>7, <1>8, <1>9, Zenon

LEMMA DInit == Init => DInv
BY DEF Init, DInv

(* A stream whose dampener a step leaves alone. *)
Same(u) == /\ dpc'[u] = dpc[u] /\ recent'[u] = recent[u]
           /\ currentHealth'[u] = currentHealth[u]
           /\ currentHealthCount'[u] = currentHealthCount[u]
           /\ reportedHealth'[u] = reportedHealth[u]

(* What a step can do to the dampener of a stream that stays open. *)
LEMMA DampenerSteps ==
  ASSUME HInv, DInv, [Next]_vars, NEW u \in Streams, u \notin closed'
  PROVE  \/ u \notin closed /\ Same(u)
         \/ dpc'[u] = "first" /\ recent'[u] = <<>>
         \/ /\ u \notin closed /\ dpc[u] = "send" /\ dpc'[u] = "recv"
            /\ recent'[u] = recent[u] /\ currentHealth'[u] = currentHealth[u]
            /\ currentHealthCount'[u] = currentHealthCount[u]
            /\ reportedHealth'[u] = reportedHealth[u]
         \/ /\ u \notin closed /\ Tracks(u)' /\ dpc'[u] = "send"
            /\ dpc[u] \in {"first", "recv"}
            /\ \/ reportedHealth'[u] = reportedHealth[u]
               \/ dpc[u] = "first"
               \/ /\ reportedHealth'[u] = currentHealth'[u]
                  /\ currentHealthCount'[u] >= CountBefore(currentHealth'[u])
<1>1. CASE UNCHANGED <<closed, dampVars>>
  BY <1>1, ZenonT(30) DEF dampVars, Same
<1>2. CASE UpdateTargets
  <2>1. CASE u \in NewStreams
    BY <1>2, <2>1, ZenonT(30) DEF UpdateTargets
  <2>2. CASE u \notin NewStreams
    BY <1>2, <2>2, ZenonT(30) DEF UpdateTargets, Same
  <2> QED BY <2>1, <2>2, ZenonT(30)
<1>3. ASSUME NEW s \in Streams, Collect(s)
      PROVE  \/ u \notin closed /\ Same(u)
             \/ /\ u \notin closed /\ dpc[u] = "send" /\ dpc'[u] = "recv"
                /\ recent'[u] = recent[u] /\ currentHealth'[u] = currentHealth[u]
                /\ currentHealthCount'[u] = currentHealthCount[u]
                /\ reportedHealth'[u] = reportedHealth[u]
  <2>1. dpc \in [Streams -> {"done", "first", "recv", "send"}]
    BY DEF HInv, TypeOK
  <2> QED BY <1>3, <2>1 DEF Collect, Same
<1>4. ASSUME NEW s \in Streams, DampenerEnds(s) PROVE u \notin closed /\ Same(u)
  <2>1. closed' = closed /\ s \in closed /\ u # s
    BY <1>4 DEF DampenerEnds
  <2> QED BY <1>4, <2>1, Zenon DEF DampenerEnds, Same, HInv, TypeOK
<1>5. ASSUME NEW i \in Ids, DampenedResultStream(i)
      PROVE  \/ u \notin closed /\ Same(u)
             \/ /\ u \notin closed /\ Tracks(u)' /\ dpc'[u] = "send"
                /\ dpc[u] \in {"first", "recv"}
                /\ \/ reportedHealth'[u] = reportedHealth[u]
                   \/ dpc[u] = "first"
                   \/ /\ reportedHealth'[u] = currentHealth'[u]
                      /\ currentHealthCount'[u] >= CountBefore(currentHealth'[u])
  BY <1>5, Taken, Zenon DEF Same
<1>6. \/ UNCHANGED <<closed, dampVars>>
      \/ UpdateTargets
      \/ \E s \in Streams : Collect(s) \/ DampenerEnds(s)
      \/ \E i \in Ids : DampenedResultStream(i)
  BY ZenonT(30) DEF Next, Manager, Checker, Dampener, CheckTarget, vars,
       SyncBackendsToCheckManager, Sleep, PublishResults, RoundComplete,
       CheckFailsAtOnce, CheckTunnel, CheckSelect, CheckTimeout, icmpReceiveLoop,
       LoseEcho, SelectTimeout, Answer, SelectDone
<1> QED BY <1>1, <1>2, <1>3, <1>4, <1>5, <1>6, Zenon

LEMMA DNext == HInv /\ DInv /\ [Next]_vars => DInv'
<1> SUFFICES ASSUME HInv, DInv, [Next]_vars, NEW u \in Streams, u \notin closed'
             PROVE  /\ dpc'[u] = "first" => recent'[u] = <<>>
                    /\ dpc'[u] \in {"recv", "send"} => Tracks(u)'
  BY Zenon DEF DInv
<1>1. ASSUME u \notin closed, recent'[u] = recent[u], currentHealth'[u] = currentHealth[u],
             currentHealthCount'[u] = currentHealthCount[u],
             reportedHealth'[u] = reportedHealth[u]
      PROVE  Tracks(u) => Tracks(u)'
  BY <1>1, Zenon DEF Tracks
<1>2. CASE u \notin closed /\ Same(u)
  BY <1>1, <1>2, ZenonT(30) DEF Same, DInv
<1>3. CASE /\ u \notin closed /\ dpc[u] = "send" /\ dpc'[u] = "recv"
           /\ recent'[u] = recent[u] /\ currentHealth'[u] = currentHealth[u]
           /\ currentHealthCount'[u] = currentHealthCount[u]
           /\ reportedHealth'[u] = reportedHealth[u]
  BY <1>1, <1>3 DEF DInv
<1> QED BY <1>2, <1>3, DampenerSteps, ZenonT(30)

LEMMA DInvariant == Spec => []DInv
BY DInit, DNext, HInvariant, PTL DEF Spec

LEMMA RunAgrees ==
  ASSUME NEW r \in Seq(BOOLEAN), NEW h, NEW g, NEW c, NEW n \in Nat \ {0},
         n <= Len(r), \A k \in 1 .. n : r[k] = h, Run(r, g, c)
  PROVE  g = h /\ c >= n
<1>1. c \in 1 .. Len(r) /\ (\A k \in 1 .. c : r[k] = g) /\ (c < Len(r) => r[c + 1] # g)
  BY Zenon DEF Run
<1>2. 1 \in 1 .. n /\ 1 \in 1 .. c
  BY <1>1
<1>3. r[1] = h /\ r[1] = g
  BY <1>1, <1>2
<1>4. ASSUME ~(c >= n) PROVE c < Len(r) /\ c + 1 \in 1 .. n
  BY <1>1, <1>4
<1>5. ASSUME ~(c >= n) PROVE FALSE
  <2>1. r[c + 1] # g /\ r[c + 1] = h
    BY <1>1, <1>4, <1>5
  <2> QED BY <1>3, <2>1
<1> QED BY <1>3, <1>5

(* For any thresholds, the health a dampener reports follows so many equal  *)
(* results of its checks, and changes for no fewer (HealthResultDampener),  *)
(* whatever rounds, checkers and changes of the targets do meanwhile.       *)
THEOREM ReportsAreDampened == Spec => Dampened
<1>1. DInv /\ HInv => \A s \in Streams, h \in BOOLEAN :
        Reported(s) /\ LastAll(recent[s], h) => reportedHealth[s] = h
  <2> SUFFICES ASSUME DInv, HInv, NEW s \in Streams, NEW h \in BOOLEAN,
                      Reported(s), LastAll(recent[s], h)
               PROVE  reportedHealth[s] = h
    OBVIOUS
  <2>1. PICK n \in Nat \ {0} : n = CountBefore(h)
    BY CountBeforeType
  <2>2. PICK c : c = currentHealthCount[s]
    BY SMTT(30)
  <2>3. PICK r \in Seq(BOOLEAN) : r = recent[s]
    BY DEF HInv, TypeOK
  <2>4. n <= Len(r) /\ \A k \in 1 .. n : r[k] = h
    BY <2>1, <2>3 DEF LastAll
  <2>5. Run(r, currentHealth[s], c)
        /\ (c >= CountBefore(currentHealth[s]) => reportedHealth[s] = currentHealth[s])
    BY <2>2, <2>3, Zenon DEF DInv, Reported, Tracks
  <2>6. currentHealth[s] = h /\ c >= n
    BY <2>4, <2>5, RunAgrees
  <2> QED BY <2>1, <2>5, <2>6, Zenon
<1>2. DInv /\ DInv' /\ HInv /\ HInv' /\ [Next]_vars =>
        [\A s \in Streams, h \in BOOLEAN :
          /\ Reported(s) /\ Reported(s)'
          /\ reportedHealth[s] # h /\ reportedHealth'[s] = h
          => LastAll(recent'[s], h)]_vars
  <2> SUFFICES ASSUME DInv, HInv, HInv', [Next]_vars, NEW s \in Streams, NEW h \in BOOLEAN,
                      Reported(s), Reported(s)',
                      reportedHealth[s] # h, reportedHealth'[s] = h
               PROVE  LastAll(recent'[s], h)
    OBVIOUS
  <2>1. s \notin closed' /\ s \notin closed
        /\ dpc[s] \in {"recv", "send"} /\ dpc'[s] \in {"recv", "send"}
    BY DEF Reported
  <2>2. /\ Tracks(s)' /\ currentHealth'[s] = h
        /\ currentHealthCount'[s] >= CountBefore(h)
    BY <2>1, DampenerSteps DEF Same
  <2>3. PICK c : c = currentHealthCount'[s]
    BY SMTT(30)
  <2>4. PICK r \in Seq(BOOLEAN) : r = recent'[s]
    BY ZenonT(30) DEF HInv, TypeOK
  <2>5. c \in 1 .. Len(r) /\ \A k \in 1 .. c : r[k] = h
    BY <2>2, <2>3, <2>4, ZenonT(30) DEF Tracks, Run
  <2>6. CountBefore(h) \in Nat /\ c >= CountBefore(h)
    BY <2>2, <2>3, CountBeforeType
  <2> QED BY <2>4, <2>5, <2>6 DEF LastAll
<1> QED BY <1>1, <1>2, DInvariant, HInvariant, PTL DEF Spec, Dampened
=============================================================================
