----------------------------- MODULE HealthManager -----------------------------
(***************************************************************************)
(* The health check manager of glb-healthcheck, its checkers and its       *)
(* dampeners.  Every target of the current table has a raw stream its      *)
(* checks send into and a dampener goroutine between that stream and the   *)
(* manager; both channels are unbuffered, so a send is a rendezvous.  Each *)
(* round the manager takes over the new targets, closes the streams of     *)
(* those that are gone, starts one check per target and collects one       *)
(* dampened result per target.  Tunnel checks (gue, fou) are answered by   *)
(* an echo reply or by a timeout goroutine, whichever finds the check      *)
(* still pending; http and tcp checks by a select over answer and timeout. *)
(***************************************************************************)
EXTENDS Integers, Sequences, FiniteSets

CONSTANTS
  Backends,
  Tables,               \* backend configurations the source file may hold
  CountBeforeHealthy,
  CountBeforeFailed,
  Gens,                 \* bound: streams of one target that exist at a time
  Ids,                  \* bound: check identifiers in use at a time
  NoId

CheckTypes == {"http", "gue", "fou", "tcp"}
BackendConfigs ==
  [state : {"active", "draining", "filling", "inactive"},
   present : BOOLEAN,   \* whether there is a "healthchecks" object
   healthchecks : SUBSET CheckTypes]

ASSUME ManagerConstants ==
  /\ Tables \subseteq [Backends -> BackendConfigs]
  /\ CountBeforeHealthy \in Nat \ {0} /\ CountBeforeFailed \in Nat \ {0}
  /\ NoId \notin Ids

(* An inactive backend is not checked. *)
HealthTargets(b, cfg) ==
  {<<b, type>> : type \in IF cfg.state = "inactive" THEN {} ELSE cfg.healthchecks}

(* The targets of a table, each once however many backends list it. *)
UniqueTargets(tb) == UNION {HealthTargets(b, tb[b]) : b \in Backends}

(* The checks are read through a pointer that is nil without the object. *)
NilConfig(tb) ==
  \E b \in Backends : tb[b].state # "inactive" /\ ~tb[b].present

Targets == UNION {UniqueTargets(tb) : tb \in Tables}
Streams == Targets \X Gens
NoStream == <<>>
Target(s) == s[1]
IsTunnel(s) == Target(s)[2] \in {"gue", "fou"}

VARIABLES
  crashed,        \* the process has ended in a nil dereference
  nextTargets,    \* what SetTargets left for the next round
  results,        \* the targets the latest results are about
  mpc,            \* where the manager goroutine is
  active,         \* activeTargets: the streams of this round
  toCheck,        \* streams whose check has not been started
  toWait,         \* streams whose result has not been collected
  blockedOn,      \* the check whose result the manager itself is sending
  closed,         \* raw streams that are closed
  pendingChecks,  \* identifier -> the stream of a pending tunnel check
  timers,         \* identifiers whose timeout goroutine sleeps
  net,            \* identifiers whose echo request or reply is under way
  selecting,      \* identifier -> the stream of an http or tcp check
  sending,        \* identifier -> the stream a goroutine sends a result to
  value,          \* identifier -> that result
  dpc,            \* stream -> "done", "first", "recv" or "send"
  reportedHealth, currentHealth, currentHealthCount,
  recent          \* history: stream -> its last raw results, newest first

appVars == <<crashed, nextTargets>>
managerVars == <<results, mpc, active, toCheck, toWait, blockedOn>>
checkVars == <<pendingChecks, timers, net, selecting>>
sendVars == <<sending, value>>
dampVars == <<dpc, reportedHealth, currentHealth, currentHealthCount, recent>>
vars == <<appVars, managerVars, closed, checkVars, sendVars, dampVars>>

Window == IF CountBeforeHealthy > CountBeforeFailed THEN CountBeforeHealthy
          ELSE CountBeforeFailed

Init ==
  /\ crashed = FALSE
  /\ \E tb \in Tables : ~NilConfig(tb) /\ nextTargets = UniqueTargets(tb)
  /\ results = {} /\ mpc = "update"
  /\ active = {} /\ toCheck = {} /\ toWait = {}
  /\ blockedOn = NoId /\ closed = {}
  /\ pendingChecks = [i \in Ids |-> NoStream] /\ timers = {} /\ net = {}
  /\ selecting = [i \in Ids |-> NoStream]
  /\ sending = [i \in Ids |-> NoStream] /\ value = [i \in Ids |-> FALSE]
  /\ dpc = [s \in Streams |-> "done"]
  /\ reportedHealth = [s \in Streams |-> FALSE]
  /\ currentHealth = [s \in Streams |-> FALSE]
  /\ currentHealthCount = [s \in Streams |-> 0]
  /\ recent = [s \in Streams |-> <<>>]

------------------------------------------------------------------------------
(* The SIGHUP goroutine loads a table and replaces the targets, at any      *)
(* time; every check type of a table has a checker.                         *)

SetTargets(targets) == nextTargets' = targets

SyncBackendsToCheckManager(tb) ==
  /\ IF NilConfig(tb)
     THEN crashed' = TRUE /\ UNCHANGED nextTargets
     ELSE SetTargets(UniqueTargets(tb)) /\ UNCHANGED crashed
  /\ UNCHANGED <<managerVars, closed, checkVars, sendVars, dampVars>>

------------------------------------------------------------------------------
(* The manager: Run and doHealthCheckRound.                                 *)

(* A stream nothing refers to any more: its memory can be used again. *)
Collectable(s) ==
  /\ s \notin active /\ dpc[s] = "done"
  /\ \A i \in Ids : s \notin {pendingChecks[i], selecting[i], sending[i]}

Gone == {s \in active : Target(s) \notin nextTargets}

(* Mutant: a new target is taken up only when no other is being checked. *)
Added_WhenIdle == IF active = {} THEN nextTargets ELSE {}
Added == nextTargets \ {Target(s) : s \in active}
NewStream(t) == <<t, CHOOSE g \in Gens : Collectable(<<t, g>>)>>
NewStreams == {NewStream(t) : t \in Added}

(* A target that is gone is deleted from the map. *)
Kept == active \ Gone

(* Targets still listed keep their stream and dampener, new ones get both,  *)
(* and the raw streams of the others are closed (a sink goroutine takes     *)
(* what their dampeners still send).                                        *)
UpdateTargets ==
  /\ mpc = "update"
  /\ \A t \in Added : \E g \in Gens : Collectable(<<t, g>>)
  /\ active' = Kept \cup NewStreams
  /\ closed' = (closed \cup Gone) \ NewStreams
  /\ dpc' = [s \in Streams |-> IF s \in NewStreams THEN "first" ELSE dpc[s]]
  /\ recent' = [s \in Streams |-> IF s \in NewStreams THEN <<>> ELSE recent[s]]
  /\ toCheck' = active' /\ mpc' = "check"
  /\ UNCHANGED <<appVars, results, toWait, blockedOn, checkVars,
                 sendVars, reportedHealth, currentHealth, currentHealthCount>>

FreeIds ==
  {i \in Ids : /\ NoStream = pendingChecks[i] /\ NoStream = selecting[i]
               /\ NoStream = sending[i] /\ i \notin timers \cup net}
createPendingCheck == CHOOSE i \in FreeIds : TRUE

(* A goroutine begins to send result h of check i into stream s. *)
SendResult(i, s, h) ==
  /\ sending' = [sending EXCEPT ![i] = s]
  /\ value' = [value EXCEPT ![i] = h]

StartCheck(s) ==
  /\ mpc = "check" /\ blockedOn = NoId /\ s \in toCheck /\ FreeIds # {}
  /\ toCheck' = toCheck \ {s}

(* The address does not resolve or cannot be dialled (unhealthy), or the    *)
(* buffer has no room for a header (healthy: fail open).  The manager sends *)
(* the result itself.                                                       *)
CheckFailsAtOnce(s, h) ==
  /\ StartCheck(s) /\ IsTunnel(s)
  /\ SendResult(createPendingCheck, s, h)
  /\ blockedOn' = createPendingCheck
  /\ UNCHANGED <<appVars, results, mpc, active, toWait, closed,
                 checkVars, dampVars>>

(* The check is pending, its timeout goroutine started, and the request     *)
(* written, or not (Write fails).                                           *)
CheckTunnel(s) ==
  /\ StartCheck(s) /\ IsTunnel(s)
  /\ LET i == createPendingCheck
     IN /\ pendingChecks' = [pendingChecks EXCEPT ![i] = s]
        /\ timers' = timers \cup {i}
        /\ net' \in {net, net \cup {i}}
  /\ UNCHANGED <<appVars, results, mpc, active, toWait, blockedOn,
                 closed, selecting, sendVars, dampVars>>

CheckSelect(s) ==
  /\ StartCheck(s) /\ ~IsTunnel(s)
  /\ selecting' = [selecting EXCEPT ![createPendingCheck] = s]
  /\ UNCHANGED <<appVars, results, mpc, active, toWait, blockedOn,
                 closed, pendingChecks, timers, net, sendVars, dampVars>>

(* time.Sleep(checkInterval) ends, whatever the checks have done. *)
Sleep ==
  /\ mpc = "check" /\ toCheck = {} /\ blockedOn = NoId
  /\ mpc' = "collect" /\ toWait' = active
  /\ UNCHANGED <<appVars, results, active, toCheck, blockedOn, closed,
                 checkVars, sendVars, dampVars>>

(* results[target] = <-metadata.dampenedStream *)
Collect(s) ==
  /\ mpc = "collect" /\ s \in toWait /\ dpc[s] = "send"
  /\ toWait' = toWait \ {s}
  /\ dpc' = [dpc EXCEPT ![s] = "recv"]
  /\ UNCHANGED <<appVars, results, mpc, active, toCheck, blockedOn, closed,
                 checkVars, sendVars, reportedHealth, currentHealth,
                 currentHealthCount, recent>>

(* Mutant: a result that is late is not waited for. *)
Collected_Late == TRUE
Collected == toWait = {}
PublishResults ==
  /\ mpc = "collect" /\ Collected
  /\ results' = {Target(s) : s \in active} /\ mpc' = "complete"
  /\ UNCHANGED <<appVars, active, toCheck, toWait, blockedOn, closed,
                 checkVars, sendVars, dampVars>>

(* roundComplete <- true, taken by the round goroutine of main. *)
RoundComplete ==
  /\ mpc = "complete" /\ mpc' = "update"
  /\ UNCHANGED <<appVars, results, active, toCheck, toWait, blockedOn,
                 closed, checkVars, sendVars, dampVars>>

------------------------------------------------------------------------------
(* The checkers.                                                            *)

(* The first caller gets the stream.  Mutant: the entry is not deleted.     *)
getCheckCompletionChannel_Kept(i, h) ==
  /\ UNCHANGED pendingChecks
  /\ IF pendingChecks[i] = NoStream THEN UNCHANGED sendVars
     ELSE SendResult(i, pendingChecks[i], h)
getCheckCompletionChannel(i, h) ==
  /\ pendingChecks' = [pendingChecks EXCEPT ![i] = NoStream]
  /\ IF pendingChecks[i] = NoStream THEN UNCHANGED sendVars
     ELSE SendResult(i, pendingChecks[i], h)

(* Mutant: the timeout is not reported. *)
CheckTimeout_Silent(i) ==
  /\ i \in timers /\ timers' = timers \ {i}
  /\ pendingChecks' = [pendingChecks EXCEPT ![i] = NoStream]
  /\ UNCHANGED <<appVars, managerVars, closed, net, selecting, sendVars, dampVars>>
CheckTimeout(i) ==
  /\ i \in timers /\ timers' = timers \ {i}
  /\ getCheckCompletionChannel(i, FALSE)
  /\ UNCHANGED <<appVars, managerVars, closed, net, selecting, dampVars>>

(* An echo reply with identifier i, which the network may deliver again. *)
icmpReceiveLoop(i) ==
  /\ i \in net /\ net' \in {net, net \ {i}}
  /\ getCheckCompletionChannel(i, TRUE)
  /\ UNCHANGED <<appVars, managerVars, closed, timers, selecting, dampVars>>

(* External: request or reply is lost, or was the last one. *)
LoseEcho(i) ==
  /\ i \in net /\ net' = net \ {i}
  /\ UNCHANGED <<appVars, managerVars, closed, pendingChecks, timers, selecting,
                 sendVars, dampVars>>

(* The select of an http or tcp check: the answer (an answer after the      *)
(* timeout goes to a buffered channel nobody reads), or time.After.         *)
SelectDone(i, h) ==
  /\ selecting[i] # NoStream
  /\ selecting' = [selecting EXCEPT ![i] = NoStream]
  /\ SendResult(i, selecting[i], h)
  /\ UNCHANGED <<appVars, managerVars, closed, pendingChecks, timers, net, dampVars>>

Answer(i, h) == SelectDone(i, h)
SelectTimeout(i) == SelectDone(i, FALSE)

------------------------------------------------------------------------------
(* The dampener of a stream.                                                *)

(* How many equal results change the report, which is h after them. *)
CountBefore(h) == IF h THEN CountBeforeHealthy ELSE CountBeforeFailed

(* The run of equal results, counted no further than Window.  Mutant: a     *)
(* change of health does not start a new run.                               *)
RunLength_NoReset(s, h) ==
  IF currentHealthCount[s] < Window THEN currentHealthCount[s] + 1 ELSE Window
RunLength(s, h) ==
  IF h # currentHealth[s] THEN 1
  ELSE IF currentHealthCount[s] < Window THEN currentHealthCount[s] + 1
  ELSE Window

(* A result reaches the dampener, which works out what to report.  The      *)
(* first one is taken as it is.                                             *)
DampenedResultStream(i) ==
  LET s == sending[i]
      h == value[i]
      report == \/ dpc[s] = "first"
                \/ reportedHealth[s] # h /\ RunLength(s, h) >= CountBefore(h)
  IN /\ s # NoStream /\ s \notin closed /\ dpc[s] \in {"first", "recv"}
     /\ SendResult(i, NoStream, FALSE)
     /\ blockedOn' = IF blockedOn = i THEN NoId ELSE blockedOn
     /\ dpc' = [dpc EXCEPT ![s] = "send"]
     /\ currentHealthCount' = [currentHealthCount EXCEPT ![s] =
                                 IF dpc[s] = "first" THEN 1 ELSE RunLength(s, h)]
     /\ currentHealth' = [currentHealth EXCEPT ![s] = h]
     /\ reportedHealth' = [reportedHealth EXCEPT ![s] = IF report THEN h ELSE @]
     /\ recent' = [recent EXCEPT ![s] =
                     SubSeq(<<h>> \o @, 1, IF Len(@) < Window THEN Len(@) + 1
                                           ELSE Window)]
     /\ UNCHANGED <<appVars, results, mpc, active, toCheck, toWait, 
                    closed, checkVars>>

(* The closed raw stream ends the dampener; the first receive would yield   *)
(* the zero result, and what it still sends goes to the sink goroutine.     *)
(* Mutant: receives from the closed stream are taken for results.           *)
DampenerEnds_ZeroResults(s) ==
  /\ s \in closed
  /\ dpc' = [dpc EXCEPT ![s] = IF @ = "send" THEN "recv" ELSE "send"]
  /\ UNCHANGED <<appVars, managerVars, closed, checkVars, sendVars,
                 reportedHealth, currentHealth, currentHealthCount, recent>>
DampenerEnds(s) ==
  /\ s \in closed /\ dpc[s] # "done"
  /\ dpc' = [dpc EXCEPT ![s] = CASE @ = "first" -> "send"
                                 [] @ = "send" -> "recv"
                                 [] @ = "recv" -> "done"]
  /\ reportedHealth' = [reportedHealth EXCEPT ![s] = FALSE]
  /\ currentHealth' = [currentHealth EXCEPT ![s] = FALSE]
  /\ currentHealthCount' = [currentHealthCount EXCEPT ![s] = 0]
  /\ recent' = [recent EXCEPT ![s] = <<>>]
  /\ UNCHANGED <<appVars, managerVars, closed, checkVars, sendVars>>

CheckTarget(s) ==
  \/ \E h \in BOOLEAN : CheckFailsAtOnce(s, h)
  \/ CheckTunnel(s)
  \/ CheckSelect(s)

Manager ==
  \/ UpdateTargets \/ Sleep \/ PublishResults \/ RoundComplete
  \/ \E s \in Streams : CheckTarget(s) \/ Collect(s)

Checker(i) ==
  \/ CheckTimeout(i) \/ icmpReceiveLoop(i) \/ LoseEcho(i) \/ SelectTimeout(i)
  \/ \E h \in BOOLEAN : Answer(i, h)

Dampener ==
  \/ \E i \in Ids : DampenedResultStream(i)
  \/ \E s \in Streams : DampenerEnds(s)

Next ==
  /\ ~crashed
  /\ \/ \E tb \in Tables : SyncBackendsToCheckManager(tb)
     \/ Manager
     \/ \E i \in Ids : Checker(i)
     \/ Dampener

Spec == Init /\ [][Next]_vars

(* Goroutines that can run do run, timers run out, a packet does not stay   *)
(* in the network for ever, and main takes every round.  Nothing is         *)
(* expected of the backends.                                                *)
Fairness ==
  /\ WF_vars(~crashed /\ Manager)
  /\ \A i \in Ids : /\ WF_vars(~crashed /\ DampenedResultStream(i))
                    /\ WF_vars(~crashed /\ CheckTimeout(i))
                    /\ WF_vars(~crashed /\ SelectTimeout(i))
                    /\ WF_vars(~crashed /\ LoseEcho(i))
  /\ \A s \in Streams : WF_vars(~crashed /\ DampenerEnds(s))

FairSpec == Spec /\ Fairness

------------------------------------------------------------------------------
(* Types; a target has at most one active stream. *)
TypeOK ==
  /\ crashed \in BOOLEAN /\ nextTargets \subseteq Targets
  /\ results \subseteq Targets
  /\ mpc \in {"update", "check", "collect", "complete"}
  /\ active \subseteq Streams /\ toCheck \subseteq active /\ toWait \subseteq active
  /\ \A s, u \in active : Target(s) = Target(u) => s = u
  /\ blockedOn \in Ids \cup {NoId} /\ closed \subseteq Streams \ active
  /\ pendingChecks \in [Ids -> Streams \cup {NoStream}]
  /\ selecting \in [Ids -> Streams \cup {NoStream}]
  /\ sending \in [Ids -> Streams \cup {NoStream}] /\ value \in [Ids -> BOOLEAN]
  /\ timers \subseteq Ids /\ net \subseteq Ids
  /\ dpc \in [Streams -> {"done", "first", "recv", "send"}]
  /\ reportedHealth \in [Streams -> BOOLEAN] /\ currentHealth \in [Streams -> BOOLEAN]
  /\ currentHealthCount \in [Streams -> 0..Window]
  /\ recent \in [Streams -> Seq(BOOLEAN)]

(* Where a result for stream s is or may still come from: a pending check,  *)
(* a select, a goroutine that sends, the dampener.                          *)
Outstanding(s) ==
  {<<"pending", i>> : i \in {j \in Ids : pendingChecks[j] = s}}
  \cup {<<"select", i>> : i \in {j \in Ids : selecting[j] = s}}
  \cup {<<"send", i>> : i \in {j \in Ids : sending[j] = s}}
  \cup (IF dpc[s] = "send" THEN {<<"dampener", NoId>>} ELSE {})

(* The check of s has been started and its result not been collected. *)
Awaited(s) ==
  \/ mpc = "check" /\ s \in active \ toCheck
  \/ mpc = "collect" /\ s \in toWait

(* doHealthCheckRound: "we now expect that every check will have returned a *)
(* result".  However reply, timeout, duplicate and select race, an active   *)
(* stream has exactly one result on its way while one is awaited, and none  *)
(* otherwise, so no round waits for ever and none sees an old result.       *)
OneResultPerCheck ==
  \A s \in active :
    IF Awaited(s)
    THEN \E x \in Outstanding(s) : Outstanding(s) = {x}
    ELSE Outstanding(s) = {}

(* Run closes a raw stream with the remark that "no health check result     *)
(* should be able to write into it by now": nothing sends into a closed     *)
(* stream (which would panic), nor will a pending check or a select.        *)
ClosedStreamsQuiet ==
  \A s \in closed, i \in Ids : s \notin {pendingChecks[i], selecting[i], sending[i]}

(* Documentation of "trigger": so many consecutive failing checks of a      *)
(* healthy backend make it unhealthy, so many succeeding ones of an         *)
(* unhealthy one healthy; and nothing less does, after the first result.    *)
LastAll(rs, h) ==
  Len(rs) >= CountBefore(h) /\ \A k \in 1..CountBefore(h) : rs[k] = h

Reported(s) == dpc[s] \in {"recv", "send"} /\ s \notin closed

Dampened ==
  /\ [](\A s \in Streams, h \in BOOLEAN :
          Reported(s) /\ LastAll(recent[s], h) => reportedHealth[s] = h)
  /\ [][\A s \in Streams, h \in BOOLEAN :
          /\ Reported(s) /\ Reported(s)'
          /\ reportedHealth[s] # h /\ reportedHealth'[s] = h
          => LastAll(recent'[s], h)]_vars

(* Rounds go on for ever, so health changes are seen: no checker, dampener  *)
(* or channel stalls the manager.                                           *)
RoundsGoOn == []<>(mpc = "complete")

(* A target of the table gets a result, unless a later table drops it; the  *)
(* dampener of one that is gone ends, and with it its stream.               *)
TargetsGetResults ==
  \A t \in Targets :
    t \in nextTargets ~> (t \notin nextTargets \/ t \in results)
DampenersEnd == \A s \in Streams : s \in closed ~> dpc[s] = "done"

=============================================================================
