----------------------- MODULE DirectorReload_proofs -----------------------
(***************************************************************************)
(* Proofs about DirectorReload for any number of slaves, any pool and ring *)
(* size and any number of signals and table versions.                      *)
(*                                                                         *)
(* RequestInv carries type correctness and NoLostRequest.  ContextInv, the *)
(* order of the contexts and their exact reference counts, is inductive    *)
(* relative to it when malloc does not hand out context 0 again behind a   *)
(* stale pointer.  MessagesInv counts the control messages.                *)
(***************************************************************************)
EXTENDS DirectorReload, FiniteSetTheorems, TLAPS

(* A load is paid for by a signal of its own: contexts never run out. *)
LoadsPaidFor ==
  nloads + reload_requested + (IF mpc = "load" THEN 1 ELSE 0) <= signals

RequestInv == TypeOK /\ LoadsPaidFor /\ asked <= table /\ NoLostRequest

------------------------------------------------------------------------------
(* Storing a value of the right kind keeps a function's type. *)
LEMMA UpdateType ==
  ASSUME NEW S, NEW T, NEW f \in [S -> T], NEW x \in S, NEW v \in T
  PROVE  [f EXCEPT ![x] = v] \in [S -> T]
  OBVIOUS

LEMMA RequestInit == Init => RequestInv
  BY ReloadConstants
  DEF Init, RequestInv, TypeOK, LoadsPaidFor, NoLostRequest, Contexts, Versions, Slaves,
      FirstSlave

LEMMA RequestStep == RequestInv /\ [Next]_vars => RequestInv'
<1> SUFFICES ASSUME RequestInv, [Next]_vars PROVE RequestInv'
  OBVIOUS
<1> USE ReloadConstants DEF Running, FirstSlave, masterVars, ctxVars, msgVars, slaveVars,
        histVars, envVars
<1>0. TypeOK /\ LoadsPaidFor /\ asked <= table /\ NoLostRequest
  BY DEF RequestInv
<1>1. CASE PublishTable
  <2>1. table' \in Versions
    BY <1>0, <1>1 DEF PublishTable, TypeOK, Versions
  <2>2. TypeOK'
    BY <1>0, <1>1, <2>1, SMTT(30) DEF PublishTable, TypeOK
  <2>3. LoadsPaidFor' /\ asked' <= table' /\ NoLostRequest'
    BY <1>0, <1>1 DEF PublishTable, TypeOK, Versions, LoadsPaidFor, NoLostRequest
  <2> QED
    BY <2>2, <2>3 DEF RequestInv
<1>2. CASE SignalReload
  <2>1. signals' \in 0 .. MaxSignals
    BY <1>0, <1>2 DEF SignalReload, TypeOK
  <2>2. TypeOK'
    BY <1>0, <1>2, <2>1 DEF SignalReload, TypeOK
  <2>3. LoadsPaidFor' /\ asked' <= table' /\ NoLostRequest'
    BY <1>0, <1>2, SMTT(30) DEF SignalReload, TypeOK, Versions, Contexts, LoadsPaidFor, NoLostRequest
  <2> QED
    BY <2>2, <2>3 DEF RequestInv
<1>3. CASE SignalStop \/ CheckStop \/ LoadFails \/ WaitLcores
  <2>1. TypeOK'
    BY <1>0, <1>3, SMTT(30) DEF SignalStop, CheckStop, LoadFails, WaitLcores, TypeOK
  <2>2. LoadsPaidFor' /\ asked' <= table' /\ NoLostRequest'
    BY <1>0, <1>3 DEF SignalStop, CheckStop, LoadFails, WaitLcores, TypeOK, LoadsPaidFor,
        NoLostRequest
  <2> QED
    BY <2>1, <2>2 DEF RequestInv
<1>4. CASE CheckReload
  <2>1. TypeOK'
    BY <1>0, <1>4 DEF CheckReload, TypeOK
  <2>2. LoadsPaidFor' /\ asked' <= table' /\ NoLostRequest'
    BY <1>0, <1>4 DEF CheckReload, TypeOK, Contexts, LoadsPaidFor, NoLostRequest
  <2> QED
    BY <2>1, <2>2 DEF RequestInv
<1>5. CASE Load
  <2>1. nloads + 1 \in Contexts /\ 0 \in Contexts
    BY <1>0, <1>5 DEF Load, TypeOK, LoadsPaidFor, Contexts
  <2>2. PICK c \in Contexts :
          /\ new_config_ctx' = c
          /\ version' = [version EXCEPT ![c] = table]
          /\ ref_count' = [ref_count EXCEPT ![c] = 1]
          /\ freed' = freed \ {c}
    BY <1>5, <2>1, ZenonT(30) DEF Load
  <2>3. TypeOK'
    BY <1>0, <1>5, <2>1, <2>2, SMTT(30) DEF Load, TypeOK
  <2>4. LoadsPaidFor' /\ asked' <= table' /\ NoLostRequest'
    BY <1>0, <1>5, <2>2 DEF Load, TypeOK, Contexts, Versions, LoadsPaidFor,
        NoLostRequest
  <2> QED
    BY <2>3, <2>4 DEF RequestInv
<1>6. CASE EnqueueReload
  <2>1. next_slave \in Slaves /\ next_slave' \in 1 .. NSlaves + 1
    BY <1>0, <1>6 DEF EnqueueReload, TypeOK, Slaves
  <2>2. ref_count' \in [Contexts -> Int] /\ pool' \in Nat
    BY <1>0, <1>6, <2>1, SMTT(30)
    DEF EnqueueReload, GotMsg, glb_fwd_config_ctx_incref, TypeOK
  <2>3. ring' \in [Slaves -> Seq(Contexts)]
    <3>1. ring[next_slave] \in Seq(Contexts) /\ new_config_ctx \in Contexts
      BY <1>0, <2>1 DEF TypeOK
    <3>2. Append(ring[next_slave], new_config_ctx) \in Seq(Contexts)
      BY <3>1
    <3>3. ring' = ring
          \/ ring' = [ring EXCEPT ![next_slave] = Append(ring[next_slave], new_config_ctx)]
      BY <1>6, Zenon DEF EnqueueReload, rte_ring_enqueue
    <3>4. ring \in [Slaves -> Seq(Contexts)]
      BY <1>0 DEF TypeOK
    <3>5. [ring EXCEPT ![next_slave] = Append(ring[next_slave], new_config_ctx)]
            \in [Slaves -> Seq(Contexts)]
      BY <2>1, <3>2, <3>4, UpdateType, Zenon
    <3> QED
      BY <3>3, <3>4, <3>5, ZenonT(30)
  <2>4. leaked' \subseteq Contexts \X Slaves /\ missed' \subseteq Slaves
    <3>1. <<new_config_ctx, next_slave>> \in Contexts \X Slaves
      BY <1>0, <2>1 DEF TypeOK
    <3>2. leaked' \in {leaked, leaked \cup {<<new_config_ctx, next_slave>>}}
      BY <1>6 DEF EnqueueReload
    <3>3. missed' \in {missed, missed \cup {next_slave}}
      BY <1>6 DEF EnqueueReload
    <3> QED
      BY <1>0, <2>1, <3>1, <3>2, <3>3 DEF TypeOK
  <2>5. TypeOK'
    BY <1>0, <1>6, <2>1, <2>2, <2>3, <2>4, ZenonT(30) DEF EnqueueReload, TypeOK
  <2>6. LoadsPaidFor' /\ asked' <= table' /\ NoLostRequest'
    BY <1>0, <1>6 DEF EnqueueReload, LoadsPaidFor, NoLostRequest
  <2> QED
    BY <2>5, <2>6 DEF RequestInv
<1>7. CASE ReleaseLoaded
  <2>1. ref_count' \in [Contexts -> Int] /\ freed' \subseteq Contexts
    BY <1>0, <1>7 DEF ReleaseLoaded, glb_fwd_config_ctx_decref, TypeOK
  <2>2. TypeOK'
    BY <1>0, <1>7, <2>1, SMTT(30) DEF ReleaseLoaded, TypeOK
  <2>3. LoadsPaidFor' /\ asked' <= table' /\ NoLostRequest'
    BY <1>0, <1>7 DEF ReleaseLoaded, LoadsPaidFor, NoLostRequest
  <2> QED
    BY <2>2, <2>3 DEF RequestInv
<1>8. CASE NotifyStop
  <2>1. next_slave' \in 1 .. NSlaves + 1
    BY <1>0, <1>8 DEF NotifyStop, TypeOK
  <2>2. TypeOK'
    BY <1>0, <1>8, <2>1, ZenonT(30) DEF NotifyStop, TypeOK
  <2>3. LoadsPaidFor' /\ asked' <= table' /\ NoLostRequest'
    BY <1>0, <1>8 DEF NotifyStop, LoadsPaidFor, NoLostRequest
  <2> QED
    BY <2>2, <2>3 DEF RequestInv
<1>9. ASSUME NEW s \in Slaves, SlaveStep(s) PROVE RequestInv'
  <2> USE DEF TypeOK
  <2>1. LoadsPaidFor' /\ asked' <= table' /\ NoLostRequest'
    BY <1>0, <1>9, SMTT(30) DEF SlaveStep, BaseWorkload, GetPkt, DequeueMsg, SwapConfig, PutMsg,
        CheckLcoreStop, ProcessPackets, Fault, LoadsPaidFor, NoLostRequest
  <2>2. CASE DequeueMsg(s)
    <3>1. ring[s] # <<>> => Head(ring[s]) \in Contexts /\ Tail(ring[s]) \in Seq(Contexts)
      BY <1>0
    <3>2. ring' \in [Slaves -> Seq(Contexts)]
      <4>1. ring \in [Slaves -> Seq(Contexts)]
        BY <1>0
      <4>2. ring[s] # <<>> =>
              [ring EXCEPT ![s] = Tail(ring[s])] \in [Slaves -> Seq(Contexts)]
        BY <3>1, <4>1, UpdateType, Zenon
      <4> QED
        BY <2>2, <4>1, <4>2, ZenonT(30) DEF DequeueMsg
    <3>3. msg' \in [Slaves -> Contexts]
      BY <1>0, <2>2, <3>1, ZenonT(60) DEF DequeueMsg
    <3> QED
      BY <1>0, <2>1, <2>2, <3>2, <3>3, ZenonT(30) DEF DequeueMsg, RequestInv
  <2>3. CASE SwapConfig(s)
    <3>1. config_ctx[s] \in Contexts /\ msg[s] \in Contexts
      BY <1>0
    <3>2. /\ ref_count' = [ref_count EXCEPT ![config_ctx[s]] = @ - 1]
          /\ freed' \subseteq freed \cup {config_ctx[s]}
      BY <2>3 DEF SwapConfig, glb_fwd_config_ctx_decref
    <3> QED
      BY <1>0, <2>1, <2>3, <3>1, <3>2, SMTT(30) DEF SwapConfig, RequestInv
  <2>4. CASE PutMsg(s)
    BY <1>0, <2>1, <2>4, SMTT(30) DEF PutMsg, RequestInv
  <2>5. CASE GetPkt(s) \/ CheckLcoreStop(s) \/ ProcessPackets(s) \/ Fault(s)
    BY <1>0, <2>1, <2>5, ZenonT(30) DEF GetPkt, CheckLcoreStop, ProcessPackets, Fault, RequestInv
  <2> QED
    BY <1>9, <2>2, <2>3, <2>4, <2>5 DEF SlaveStep, BaseWorkload
<1>10. CASE UNCHANGED vars
  BY <1>0, <1>10 DEF vars, RequestInv, TypeOK, LoadsPaidFor, NoLostRequest
<1> QED
  BY <1>1, <1>2, <1>3, <1>4, <1>5, <1>6, <1>7, <1>8, <1>9, <1>10
  DEF Next, Environment, MasterStep, Terminated

LEMMA RequestInvariant == Spec => []RequestInv
  BY RequestInit, RequestStep, PTL DEF Spec

(* Type correctness of the reload protocol for every value of the constants. *)
THEOREM ReloadTypes == Spec => []TypeOK
  BY RequestInvariant, PTL DEF RequestInv

(* main_loop_control never forgets a SIGUSR1, because it clears the request *)
(* before it reads the table.                                               *)
THEOREM RequestsKept == Spec => []NoLostRequest
  BY RequestInvariant, PTL DEF RequestInv

------------------------------------------------------------------------------
(* What slave s points to, is about to point to and will point to are in    *)
(* the order in which they were loaded.                                     *)
InLoadOrder(s) ==
  /\ config_ctx[s] <= nloads
  /\ spc[s] = "swap" => config_ctx[s] < msg[s] /\ msg[s] <= nloads
  /\ \A i \in 1 .. Len(ring[s]) :
       /\ config_ctx[s] < ring[s][i] /\ ring[s][i] <= nloads
       /\ spc[s] = "swap" => msg[s] < ring[s][i]
       /\ \A j \in 1 .. Len(ring[s]) : i < j => ring[s][i] < ring[s][j]

(* The slaves the master has not reached yet know nothing of the context it *)
(* is distributing.                                                         *)
NotSentYet ==
  mpc = "enqueue" =>
    /\ nloads >= 1
    /\ \A s \in Slaves : s >= next_slave => s \notin Holders(new_config_ctx)

LeaksApart ==
  \A c \in Contexts, s \in Slaves :
    <<c, s>> \in leaked => 1 <= c /\ c <= nloads /\ ~Reaches(s, c)

FreedExact == \A c \in Reloaded : c \in freed <=> ref_count[c] = 0

VersionsInOrder ==
  /\ \A c \in 0 .. nloads : version[c] <= table
  /\ \A c, d \in 0 .. nloads : c <= d => version[c] <= version[d]

ContextInv ==
  /\ new_config_ctx = nloads
  /\ \A s \in Slaves : InLoadOrder(s)
  /\ NotSentYet
  /\ LeaksApart
  /\ RefCountExact
  /\ FreedExact
  /\ VersionsInOrder

------------------------------------------------------------------------------
(* Taking the head of a ring leaves the rest; appending adds one context. *)
LEMMA QueuedTail ==
  ASSUME NEW S, NEW q \in Seq(S), q # <<>>, NEW c
  PROVE  Queued(q, c) <=> Head(q) = c \/ Queued(Tail(q), c)
<1>1. /\ Len(q) \in Nat /\ Len(q) >= 1 /\ Len(Tail(q)) = Len(q) - 1 /\ Head(q) = q[1]
      /\ \A i \in 1 .. Len(Tail(q)) : Tail(q)[i] = q[i + 1]
  OBVIOUS
<1>2. ASSUME Queued(q, c) PROVE Head(q) = c \/ Queued(Tail(q), c)
  <2>1. PICK i \in 1 .. Len(q) : q[i] = c
    BY <1>2 DEF Queued
  <2>2. CASE i = 1
    BY <1>1, <2>1, <2>2
  <2>3. CASE i # 1
    <3>1. i - 1 \in 1 .. Len(Tail(q)) /\ Tail(q)[i - 1] = c
      BY <1>1, <2>1, <2>3
    <3> QED
      BY <3>1, ZenonT(30) DEF Queued
  <2> QED
    BY <2>2, <2>3
<1>3. ASSUME Head(q) = c PROVE Queued(q, c)
  BY <1>1, <1>3 DEF Queued
<1>4. ASSUME Queued(Tail(q), c) PROVE Queued(q, c)
  <2>1. PICK i \in 1 .. Len(Tail(q)) : Tail(q)[i] = c
    BY <1>4 DEF Queued
  <2>2. i + 1 \in 1 .. Len(q) /\ q[i + 1] = c
    BY <1>1, <2>1
  <2> QED
    BY <2>2 DEF Queued
<1> QED
  BY <1>2, <1>3, <1>4

LEMMA QueuedAppend ==
  ASSUME NEW S, NEW q \in Seq(S), NEW d \in S, NEW c
  PROVE  Queued(Append(q, d), c) <=> d = c \/ Queued(q, c)
<1>1. /\ Len(q) \in Nat /\ Len(Append(q, d)) = Len(q) + 1
      /\ Append(q, d)[Len(q) + 1] = d
      /\ \A i \in 1 .. Len(q) : Append(q, d)[i] = q[i]
  OBVIOUS
<1> QED
  BY <1>1 DEF Queued

(* Counting a set of slaves. *)
LEMMA CountSlaves ==
  ASSUME NEW H \in SUBSET Slaves
  PROVE  /\ Cardinality(H) \in Nat
         /\ Cardinality(H) = 0 <=> H = {}
         /\ \A s \in Slaves : s \notin H => Cardinality(H \cup {s}) = Cardinality(H) + 1
         /\ \A s \in H : Cardinality(H \ {s}) = Cardinality(H) - 1
<1>1. IsFiniteSet(Slaves)
  BY ReloadConstants, FS_Interval DEF Slaves
<1>2. IsFiniteSet(H)
  BY <1>1, FS_Subset
<1> QED
  BY <1>2, FS_CardinalityType, FS_EmptySet, FS_AddElement, FS_RemoveElement, SMTT(30)

(* What a slave refers to are contexts, that is, numbers. *)
LEMMA SlaveTypes ==
  ASSUME TypeOK, NEW s \in Slaves
  PROVE  /\ config_ctx[s] \in Contexts /\ msg[s] \in Contexts /\ ring[s] \in Seq(Contexts)
         /\ \A i \in 1 .. Len(ring[s]) : ring[s][i] \in Contexts
         /\ \A c \in Contexts : c \in Int
<1>1. ring[s] \in Seq(Contexts) /\ config_ctx[s] \in Contexts /\ msg[s] \in Contexts
  BY DEF TypeOK
<1>2. \A i \in 1 .. Len(ring[s]) : ring[s][i] \in Contexts
  BY <1>1
<1>3. \A c \in Contexts : c \in Int
  BY DEF Contexts
<1> QED
  BY <1>1, <1>2, <1>3

LEMMA ContextInit == Init => ContextInv
<1> SUFFICES ASSUME Init PROVE ContextInv
  OBVIOUS
<1> USE ReloadConstants DEF Init, Contexts
<1>1. Reloaded = {}
  BY DEF Reloaded
<1>2. \A s \in Slaves : InLoadOrder(s)
  BY DEF InLoadOrder, Slaves
<1>3. NotSentYet /\ LeaksApart /\ VersionsInOrder
  BY DEF NotSentYet, LeaksApart, VersionsInOrder
<1> QED
  BY <1>1, <1>2, <1>3 DEF ContextInv, RefCountExact, FreedExact

(* What all the steps have in common that move no reference. *)
Quiet ==
  /\ UNCHANGED <<new_config_ctx, nloads, ctxVars, ring, msg, config_ctx, leaked>>
  /\ \A s \in Slaves : spc'[s] = "swap" <=> spc[s] = "swap"
  /\ mpc' = "enqueue" <=> mpc = "enqueue"
  /\ mpc = "enqueue" => next_slave' = next_slave
  /\ table' \in Nat /\ table' >= table

LEMMA QuietStep == RequestInv /\ ContextInv /\ Quiet => ContextInv'
<1> SUFFICES ASSUME RequestInv, ContextInv, Quiet PROVE ContextInv'
  OBVIOUS
<1>1. \A s \in Slaves : \A c : Reaches(s, c)' <=> Reaches(s, c)
  BY DEF Quiet, Reaches
<1>2. \A c : Holders(c)' = Holders(c)
  BY <1>1 DEF Holders, Quiet
<1>3. \A c : MasterHolds(c)' <=> MasterHolds(c)
  BY DEF MasterHolds, Quiet
<1>4. RefCountExact' /\ FreedExact'
  BY <1>2, <1>3 DEF RefCountExact, FreedExact, Reloaded, Quiet, ContextInv, ctxVars
<1>5. \A s \in Slaves : InLoadOrder(s)'
  BY DEF ContextInv, InLoadOrder, Quiet
<1>6. NotSentYet' /\ LeaksApart'
  BY <1>1, <1>2 DEF ContextInv, NotSentYet, LeaksApart, Quiet
<1>7. VersionsInOrder'
  <2>1. \A c \in 0 .. nloads : version[c] \in Int /\ version[c] <= table
    BY ReloadConstants
    DEF ContextInv, VersionsInOrder, RequestInv, TypeOK, Versions, Contexts
  <2>2. table \in Int /\ table' \in Int /\ table <= table'
    BY ReloadConstants DEF Quiet, RequestInv, TypeOK, Versions
  <2> QED
    BY <2>1, <2>2 DEF ContextInv, VersionsInOrder, Quiet, ctxVars
<1> QED
  BY <1>4, <1>5, <1>6, <1>7 DEF ContextInv, Quiet

LEMMA QuietActions ==
  ASSUME RequestInv, RequestInv',
         \/ Environment \/ CheckStop \/ CheckReload \/ LoadFails \/ NotifyStop \/ WaitLcores
         \/ \E s \in Slaves : \/ GetPkt(s) \/ PutMsg(s) \/ CheckLcoreStop(s)
                              \/ ProcessPackets(s) \/ Fault(s)
                              \/ (DequeueMsg(s) /\ ring[s] = <<>>)
         \/ UNCHANGED vars
  PROVE  Quiet
<1> USE DEF envVars, masterVars, ctxVars, msgVars, slaveVars, histVars, Running
<1>0. table \in Nat /\ table' \in Nat /\ spc = [s \in Slaves |-> spc[s]]
  BY ReloadConstants DEF RequestInv, TypeOK, Versions
<1>1. CASE Environment
  <2>1. CASE PublishTable
    BY <1>0, <2>1 DEF PublishTable, Quiet
  <2>2. CASE SignalReload
    BY <1>0, <2>2 DEF SignalReload, Quiet
  <2>3. CASE SignalStop
    BY <1>0, <2>3 DEF SignalStop, Quiet
  <2> QED
    BY <1>1, <2>1, <2>2, <2>3 DEF Environment
<1>2. CASE CheckStop \/ CheckReload \/ LoadFails \/ NotifyStop \/ WaitLcores
  <2>1. CASE CheckStop
    BY <1>0, <2>1 DEF CheckStop, Quiet
  <2>2. CASE CheckReload
    BY <1>0, <2>2 DEF CheckReload, Quiet
  <2>3. CASE LoadFails
    BY <1>0, <2>3 DEF LoadFails, Quiet
  <2>4. CASE NotifyStop
    BY <1>0, <2>4 DEF NotifyStop, Quiet
  <2>5. CASE WaitLcores
    BY <1>0, <2>5 DEF WaitLcores, Quiet
  <2> QED
    BY <1>2, <2>1, <2>2, <2>3, <2>4, <2>5
<1>3. ASSUME NEW s \in Slaves, GetPkt(s) \/ PutMsg(s) \/ CheckLcoreStop(s)
                              \/ ProcessPackets(s) \/ Fault(s)
                              \/ (DequeueMsg(s) /\ ring[s] = <<>>)
      PROVE  Quiet
  <2>1. CASE GetPkt(s)
    BY <1>0, <2>1 DEF GetPkt, Quiet
  <2>2. CASE PutMsg(s)
    BY <1>0, <2>2 DEF PutMsg, Quiet
  <2>3. CASE CheckLcoreStop(s)
    BY <1>0, <2>3 DEF CheckLcoreStop, Quiet
  <2>4. CASE ProcessPackets(s)
    BY <1>0, <2>4 DEF ProcessPackets, Quiet
  <2>5. CASE Fault(s)
    BY <1>0, <2>5 DEF Fault, Quiet
  <2>6. CASE DequeueMsg(s) /\ ring[s] = <<>>
    BY <1>0, <2>6 DEF DequeueMsg, Quiet
  <2> QED
    BY <1>3, <2>1, <2>2, <2>3, <2>4, <2>5, <2>6, SMTT(30)
<1>4. CASE UNCHANGED vars
  BY <1>0, <1>4 DEF vars, Quiet
<1> QED
  BY <1>1, <1>2, <1>3, <1>4

LEMMA LoadStep == ~ReuseStale /\ RequestInv /\ ContextInv /\ Load => ContextInv'
<1> SUFFICES ASSUME ~ReuseStale, RequestInv, ContextInv, Load PROVE ContextInv'
  OBVIOUS
<1> PICK n : n = nloads + 1
  OBVIOUS
<1>0. /\ TypeOK /\ LoadsPaidFor /\ mpc = "load"
  BY DEF RequestInv, Load
<1>1. /\ nloads \in Nat /\ n = nloads + 1 /\ n \in Contexts /\ nloads' = n /\ new_config_ctx' = n
      /\ version' = [version EXCEPT ![n] = table]
      /\ ref_count' = [ref_count EXCEPT ![n] = 1]
      /\ freed' = freed \ {n}
      /\ mpc' = "enqueue"
      /\ UNCHANGED <<table, ring, msg, config_ctx, spc, leaked>>
  BY <1>0, ReloadConstants DEF TypeOK, LoadsPaidFor, Contexts, Load, envVars,
      msgVars, slaveVars, histVars
<1>2. \A s \in Slaves : \A c : Reaches(s, c)' <=> Reaches(s, c)
  BY <1>1 DEF Reaches
<1>3. \A c : Holders(c)' = Holders(c)
  BY <1>1, <1>2 DEF Holders
<1>4. Holders(n) = {}
  <2>1. \A s \in Slaves : <<n, s>> \notin leaked
    BY <1>1 DEF ContextInv, LeaksApart
  <2>2. \A s \in Slaves : ~Reaches(s, n)
    BY <1>0, <1>1, SMTT(30) DEF ContextInv, InLoadOrder, Reaches, Queued, TypeOK, Contexts
  <2> QED
    BY <2>1, <2>2 DEF Holders
<1>5. \A c : MasterHolds(c)' <=> c = n
  BY <1>1 DEF MasterHolds
<1>6. \A c : ~MasterHolds(c)
  BY <1>0 DEF MasterHolds
<1>7. \A c \in Reloaded' : c = n \/ (c \in Reloaded /\ c # n)
  <2>1. nloads \in Nat /\ n = nloads + 1 /\ nloads' = n
    BY <1>1
  <2> QED
    BY <2>1 DEF Reloaded
<1>8. RefCountExact'
  <2>1. ref_count'[n] = Cardinality(Holders(n)') + 1
    <3>1. ref_count'[n] = 1
      BY <1>0, <1>1 DEF TypeOK
    <3>2. Holders(n)' = {}
      BY <1>3, <1>4
    <3> QED
      BY <3>1, <3>2, FS_EmptySet
  <2>2. ASSUME NEW c \in Reloaded, c # n PROVE ref_count'[c] = Cardinality(Holders(c)')
    <3>1. ref_count'[c] = ref_count[c]
      BY <1>0, <1>1, <2>2 DEF TypeOK, Reloaded, Contexts
    <3>2. ref_count[c] = Cardinality(Holders(c)) + 0
      BY <1>6 DEF ContextInv, RefCountExact
    <3>3. Cardinality(Holders(c)) \in Nat
      BY CountSlaves, ZenonT(30) DEF Holders
    <3> QED
      BY <1>3, <3>1, <3>2, <3>3
  <2>3. ASSUME NEW c \in Reloaded'
        PROVE  ref_count'[c] = Cardinality(Holders(c)') + (IF MasterHolds(c)' THEN 1 ELSE 0)
    <3>1. CASE c = n
      BY <1>5, <2>1, <3>1
    <3>2. CASE c # n
      <4>1. ref_count'[c] = Cardinality(Holders(c)') /\ Cardinality(Holders(c)') \in Nat
        BY <1>7, <2>2, <3>2, CountSlaves, <1>3, ZenonT(30) DEF Holders
      <4> QED
        BY <1>5, <3>2, <4>1
    <3> QED
      BY <3>1, <3>2
  <2> QED
    BY <2>3 DEF RefCountExact
<1>9. FreedExact'
  BY <1>0, <1>1, <1>7 DEF ContextInv, FreedExact, TypeOK, Reloaded, Contexts
<1>10. \A s \in Slaves : InLoadOrder(s)'
  <2> SUFFICES ASSUME NEW s \in Slaves PROVE InLoadOrder(s)'
    OBVIOUS
  <2>1. /\ config_ctx[s] \in Int /\ msg[s] \in Int
        /\ \A i \in 1 .. Len(ring[s]) : ring[s][i] \in Int
    BY <1>0, SlaveTypes
  <2>2. \A x \in Int : x <= nloads => x <= nloads'
    BY <1>1
  <2>3. InLoadOrder(s)
    BY DEF ContextInv
  <2> QED
    BY <1>1, <2>1, <2>2, <2>3 DEF InLoadOrder
<1>11. NotSentYet'
  BY <1>1, <1>3, <1>4 DEF NotSentYet
<1>12. LeaksApart'
  BY <1>1, <1>2 DEF ContextInv, LeaksApart, Contexts
<1>13. VersionsInOrder'
  <2>1. \A c \in 0 .. nloads : version'[c] = version[c] /\ version[c] \in Int
    <3>1. \A c \in 0 .. nloads : c \in Contexts /\ c # n
      BY <1>1, ReloadConstants DEF Contexts
    <3>2. version \in [Contexts -> Versions] /\ Versions \subseteq Int
      BY <1>0 DEF TypeOK, Versions
    <3> QED
      BY <1>1, <3>1, <3>2, ZenonT(30)
  <2>2. version'[n] = table /\ table \in Int
    BY <1>0, <1>1 DEF TypeOK, Versions
  <2>3. \A c \in 0 .. nloads' : c = n \/ c \in 0 .. nloads
    BY <1>1
  <2>4. \A c \in 0 .. nloads : c \in Int /\ c < n
    BY <1>1
  <2>5. VersionsInOrder
    BY DEF ContextInv
  <2> QED
    BY <1>1, <2>1, <2>2, <2>3, <2>4, <2>5 DEF VersionsInOrder
<1> QED
  BY <1>1, <1>8, <1>9, <1>10, <1>11, <1>12, <1>13 DEF ContextInv

LEMMA EnqueueStep == RequestInv /\ ContextInv /\ EnqueueReload => ContextInv'
<1> SUFFICES ASSUME RequestInv, ContextInv, EnqueueReload PROVE ContextInv'
  OBVIOUS
<1> PICK n : n = nloads
  OBVIOUS
<1> PICK t : t = next_slave
  OBVIOUS
<1>0. /\ TypeOK /\ ContextInv /\ NotSentYet
  BY DEF RequestInv, ContextInv
<1>1. /\ t \in Slaves /\ t = next_slave /\ next_slave' = t + 1
      /\ n = nloads /\ n \in Contexts /\ n \in Nat /\ n >= 1
      /\ new_config_ctx = n /\ new_config_ctx' = n /\ nloads' = n
      /\ mpc = "enqueue" /\ mpc' = "enqueue"
      /\ UNCHANGED <<table, version, freed, msg, config_ctx, spc>>
  BY <1>0, ReloadConstants, SMTT(30) DEF TypeOK, ContextInv, NotSentYet, EnqueueReload, Slaves,
      Contexts, envVars, slaveVars
<1>2. t \notin Holders(n)
  BY <1>0, <1>1 DEF NotSentYet, Slaves
<1>3. \A c : (MasterHolds(c)' <=> c = n) /\ (MasterHolds(c) <=> c = n)
  BY <1>1 DEF MasterHolds
<1>4. FreedExact' /\ RefCountExact' /\ NotSentYet' /\ LeaksApart'
        /\ \A s \in Slaves : InLoadOrder(s)'
  (* No message, a full ring, or sent. *)
  <2>1. CASE UNCHANGED <<ref_count, ring, leaked>>
    <3>1. \A s \in Slaves : \A c : Reaches(s, c)' <=> Reaches(s, c)
      BY <1>1, <2>1 DEF Reaches
    <3>2. \A c : Holders(c)' = Holders(c)
      BY <2>1, <3>1 DEF Holders
    <3>3. RefCountExact' /\ FreedExact'
      BY <1>1, <1>3, <2>1, <3>2 DEF ContextInv, RefCountExact, FreedExact, Reloaded
    <3>4. NotSentYet'
      BY <1>0, <1>1, <3>2 DEF NotSentYet, Slaves
    <3>5. LeaksApart'
      BY <1>1, <2>1, <3>1, SMTT(30) DEF ContextInv, LeaksApart
    <3>6. \A s \in Slaves : InLoadOrder(s)'
      BY <1>1, <2>1 DEF ContextInv, InLoadOrder
    <3> QED
      BY <3>3, <3>4, <3>5, <3>6
  <2>2. ASSUME ref_count' = [ref_count EXCEPT ![n] = @ + 1],
               Holders(n)' = Holders(n) \cup {t},
               \A c : c # n => Holders(c)' = Holders(c)
        PROVE  RefCountExact' /\ FreedExact' /\ NotSentYet'
    <3>1. n \in Reloaded /\ Reloaded' = Reloaded /\ Reloaded \subseteq Contexts
      BY <1>0, <1>1, ReloadConstants DEF Reloaded, Contexts
    <3>2. ref_count[n] = Cardinality(Holders(n)) + 1
      BY <1>3, <3>1 DEF ContextInv, RefCountExact
    <3>3. /\ Cardinality(Holders(n)) \in Nat
          /\ Cardinality(Holders(n)') = Cardinality(Holders(n)) + 1
      BY <1>1, <1>2, <2>2, CountSlaves, ZenonT(60) DEF Holders
    <3>4. ref_count'[n] = Cardinality(Holders(n)') + 1 /\ ref_count'[n] > 1
          /\ ref_count[n] > 0
      BY <1>0, <1>1, <2>2, <3>2, <3>3, SMTT(30) DEF TypeOK
    <3>5. \A c \in Reloaded : c # n => ref_count'[c] = ref_count[c]
      BY <1>0, <2>2, <3>1 DEF TypeOK
    <3>6. RefCountExact'
      BY <1>3, <2>2, <3>1, <3>4, <3>5 DEF ContextInv, RefCountExact
    <3>7. FreedExact'
      BY <1>1, <3>1, <3>4, <3>5 DEF ContextInv, FreedExact
    <3>8. NotSentYet'
      BY <1>0, <1>1, <2>2 DEF NotSentYet, Slaves
    <3> QED
      BY <3>6, <3>7, <3>8
  <2>3. CASE /\ ref_count' = [ref_count EXCEPT ![n] = @ + 1]
             /\ leaked' = leaked \cup {<<n, t>>} /\ ring' = ring
    <3>1. \A s \in Slaves : \A c : Reaches(s, c)' <=> Reaches(s, c)
      BY <1>1, <2>3 DEF Reaches
    <3>2. Holders(n)' = Holders(n) \cup {t} /\ \A c : c # n => Holders(c)' = Holders(c)
      BY <1>1, <2>3, <3>1 DEF Holders
    <3>3. LeaksApart'
      BY <1>1, <1>2, <2>3, <3>1, SMTT(30) DEF ContextInv, LeaksApart, Holders
    <3>4. \A s \in Slaves : InLoadOrder(s)'
      BY <1>1, <2>3 DEF ContextInv, InLoadOrder
    <3> QED
      BY <2>2, <2>3, <3>2, <3>3, <3>4
  <2>4. CASE /\ ref_count' = [ref_count EXCEPT ![n] = @ + 1]
             /\ leaked' = leaked /\ ring' = [ring EXCEPT ![t] = Append(@, n)]
    <3>0. /\ ring[t] \in Seq(Contexts) /\ ring'[t] = Append(ring[t], n)
          /\ \A s \in Slaves : s # t => ring'[s] = ring[s]
      BY <1>0, <1>1, <2>4 DEF TypeOK
    <3>1. \A c : Queued(ring'[t], c) <=> c = n \/ Queued(ring[t], c)
      BY <1>1, <3>0, QueuedAppend, SMTT(30)
    <3>2. \A s \in Slaves : \A c : Reaches(s, c)' <=> Reaches(s, c) \/ (s = t /\ c = n)
      BY <1>1, <3>0, <3>1, ZenonT(30) DEF Reaches
    <3>3. Holders(n)' = Holders(n) \cup {t} /\ \A c : c # n => Holders(c)' = Holders(c)
      BY <1>1, <2>4, <3>2 DEF Holders
    <3>4. LeaksApart'
      BY <1>1, <1>2, <2>4, <3>2 DEF ContextInv, LeaksApart, Holders
    <3>5. ASSUME NEW s \in Slaves PROVE InLoadOrder(s)'
      <4>1. CASE s # t
        BY <1>1, <3>0, <4>1, SMTT(30) DEF ContextInv, InLoadOrder
      <4>2. CASE s = t
        <5>1. /\ config_ctx[t] \in Int /\ msg[t] \in Int
              /\ \A i \in 1 .. Len(ring[t]) : ring[t][i] \in Int
          BY <1>0, <1>1, SlaveTypes
        <5>2. /\ Len(ring[t]) \in Nat /\ Len(ring'[t]) = Len(ring[t]) + 1
              /\ ring'[t][Len(ring[t]) + 1] = n
              /\ \A i \in 1 .. Len(ring[t]) : ring'[t][i] = ring[t][i]
          BY <1>1, <3>0
        <5>3. /\ config_ctx[t] # n /\ (spc[t] = "swap" => msg[t] # n)
              /\ \A i \in 1 .. Len(ring[t]) : ring[t][i] # n
          BY <1>1, <1>2 DEF Holders, Reaches, Queued
        <5>4. InLoadOrder(t)
          BY <1>1 DEF ContextInv
        <5>5. config_ctx[t] < n /\ (spc[t] = "swap" => msg[t] < n)
          <6>1. config_ctx[t] <= n /\ (spc[t] = "swap" => msg[t] <= n)
            BY <1>1, <5>4 DEF InLoadOrder
          <6>2. n \in Int
            BY <1>1
          <6> QED
            BY <5>1, <5>3, <6>1, <6>2, SMTT(30)
        <5>6. \A i \in 1 .. Len(ring[t]) : ring[t][i] < n
          <6>1. \A i \in 1 .. Len(ring[t]) : ring[t][i] <= n
            BY <1>1, <5>4 DEF InLoadOrder
          <6>2. n \in Int
            BY <1>1
          <6> QED
            BY <5>1, <5>3, <6>1, <6>2, SMTT(30)
        <5>7. \A i \in 1 .. Len(ring'[t]) : i = Len(ring[t]) + 1 \/ i \in 1 .. Len(ring[t])
          BY <5>2
        <5>8. \A i, j \in 1 .. Len(ring'[t]) : i < j => ring'[t][i] < ring'[t][j]
          <6>1. \A i, j \in 1 .. Len(ring[t]) : i < j => ring[t][i] < ring[t][j]
            BY <5>4 DEF InLoadOrder
          <6>2. \A j \in 1 .. Len(ring[t]) : ~(Len(ring[t]) + 1 < j)
            BY <5>2, SMTT(30)
          <6> QED
            BY <5>2, <5>6, <5>7, <6>1, <6>2, SMTT(30)
        <5>9. \A i \in 1 .. Len(ring'[t]) :
                /\ config_ctx[t] < ring'[t][i] /\ ring'[t][i] <= n
                /\ spc[t] = "swap" => msg[t] < ring'[t][i]
          <6>1. n <= n /\ n = nloads
            BY <1>1
          <6> QED
            BY <5>2, <5>4, <5>5, <5>7, <6>1, SMTT(30) DEF InLoadOrder
        <5> QED
          BY <1>1, <4>2, <5>4, <5>8, <5>9, SMTT(30) DEF InLoadOrder
      <4> QED
        BY <4>1, <4>2
    <3> QED
      BY <2>2, <2>4, <3>3, <3>4, <3>5
  <2> QED
    BY <1>1, <2>1, <2>3, <2>4
    DEF EnqueueReload, GotMsg, glb_fwd_config_ctx_incref, rte_ring_enqueue
<1>5. VersionsInOrder'
  BY <1>1 DEF ContextInv, VersionsInOrder
<1> QED
  BY <1>1, <1>4, <1>5 DEF ContextInv

(* Dropping one counted reference keeps the count and the freed flag exact. *)
LEMMA DecrefStep ==
  ASSUME RequestInv, ContextInv, NEW o \in Contexts, glb_fwd_config_ctx_decref(o),
         nloads' = nloads,
         \A c \in Reloaded :
           LET Held  == Cardinality(Holders(c)) + (IF MasterHolds(c) THEN 1 ELSE 0)
               Held1 == Cardinality(Holders(c)') + (IF MasterHolds(c)' THEN 1 ELSE 0)
           IN  /\ Held \in Nat /\ Held1 \in Nat
               /\ Held1 = IF c = o THEN Held - 1 ELSE Held
  PROVE  RefCountExact' /\ FreedExact'
<1>1. /\ Reloaded' = Reloaded /\ Reloaded \subseteq Contexts
      /\ ref_count \in [Contexts -> Int]
      /\ ref_count' = [ref_count EXCEPT ![o] = @ - 1]
      /\ freed' = IF ref_count[o] = 1 THEN freed \cup {o} ELSE freed
  BY ReloadConstants, SMTT(30) DEF RequestInv, TypeOK, glb_fwd_config_ctx_decref, Reloaded, Contexts
<1>2. RefCountExact /\ FreedExact
  BY DEF ContextInv
<1>3. ASSUME NEW c \in Reloaded
      PROVE  /\ ref_count'[c] = Cardinality(Holders(c)') + (IF MasterHolds(c)' THEN 1 ELSE 0)
             /\ c \in freed' <=> ref_count'[c] = 0
  <2> DEFINE Held  == Cardinality(Holders(c)) + (IF MasterHolds(c) THEN 1 ELSE 0)
             Held1 == Cardinality(Holders(c)') + (IF MasterHolds(c)' THEN 1 ELSE 0)
  <2>1. /\ Held \in Nat /\ Held1 \in Nat /\ Held1 = (IF c = o THEN Held - 1 ELSE Held)
        /\ ref_count[c] = Held /\ (c \in freed <=> ref_count[c] = 0)
    BY <1>2 DEF RefCountExact, FreedExact
  <2> HIDE DEF Held, Held1
  <2>2. ref_count'[c] = Held1 /\ (c \in freed' <=> ref_count'[c] = 0)
    BY <1>1, <2>1, SMTT(30)
  <2> QED
    BY <2>2 DEF Held1
<1> QED
  BY <1>1, <1>3 DEF RefCountExact, FreedExact

LEMMA ReleaseStep == RequestInv /\ ContextInv /\ ReleaseLoaded => ContextInv'
<1> SUFFICES ASSUME RequestInv, ContextInv, ReleaseLoaded PROVE ContextInv'
  OBVIOUS
<1> PICK n : n = nloads
  OBVIOUS
<1>1. /\ n = nloads /\ nloads' = n /\ new_config_ctx = n /\ new_config_ctx' = n
      /\ n \in Contexts /\ mpc = "enqueue" /\ mpc' = "stop?"
      /\ UNCHANGED <<table, version, ring, msg, config_ctx, spc, leaked>>
      /\ glb_fwd_config_ctx_decref(n)
  BY SMTT(30) DEF RequestInv, TypeOK, ContextInv, ReleaseLoaded, envVars, msgVars, slaveVars, histVars
<1>2. \A s \in Slaves : \A c : Reaches(s, c)' <=> Reaches(s, c)
  BY <1>1, ZenonT(30) DEF Reaches
<1>3. \A c : Holders(c)' = Holders(c) /\ Holders(c) \in SUBSET Slaves
  BY <1>1, <1>2 DEF Holders
<1>4. \A c : (MasterHolds(c) <=> c = n) /\ ~MasterHolds(c)'
  BY <1>1 DEF MasterHolds
<1>5. \A c : Cardinality(Holders(c)) \in Nat
  BY <1>3, CountSlaves
<1>6. RefCountExact' /\ FreedExact'
  BY <1>1, <1>3, <1>4, <1>5, DecrefStep, SMTT(30)
<1>7. \A s \in Slaves : InLoadOrder(s)'
  BY <1>1 DEF ContextInv, InLoadOrder
<1>8. NotSentYet' /\ LeaksApart' /\ VersionsInOrder'
  BY <1>1, <1>2, SMTT(30) DEF ContextInv, NotSentYet, LeaksApart, VersionsInOrder
<1> QED
  BY <1>1, <1>6, <1>7, <1>8 DEF ContextInv

LEMMA DequeueStep ==
  ASSUME RequestInv, ContextInv, NEW t \in Slaves, DequeueMsg(t), ring[t] # <<>>
  PROVE  ContextInv'
<1>0. TypeOK /\ InLoadOrder(t)
  BY DEF RequestInv, ContextInv
<1>1. /\ UNCHANGED <<table, mpc, next_slave, new_config_ctx, nloads, version, ref_count,
                     freed, config_ctx, leaked>>
      /\ spc[t] = "base" /\ spc'[t] = "swap" /\ msg'[t] = Head(ring[t])
      /\ ring'[t] = Tail(ring[t])
      /\ \A s \in Slaves : s # t => /\ ring'[s] = ring[s] /\ msg'[s] = msg[s]
                                    /\ spc'[s] = spc[s]
  BY <1>0, SMTT(30) DEF TypeOK, DequeueMsg, envVars, masterVars, ctxVars, histVars
<1>2. \A c : Queued(ring[t], c) <=> Head(ring[t]) = c \/ Queued(Tail(ring[t]), c)
  <2>1. ring[t] \in Seq(Contexts)
    BY <1>0, SlaveTypes
  <2> QED BY <2>1, QueuedTail
<1>3. \A s \in Slaves : \A c : Reaches(s, c)' <=> Reaches(s, c)
  BY <1>1, <1>2, ZenonT(30) DEF Reaches
<1>4. \A c : Holders(c)' = Holders(c)
  BY <1>1, <1>3, ZenonT(30) DEF Holders
<1>5. \A c : MasterHolds(c)' <=> MasterHolds(c)
  BY <1>1, ZenonT(30) DEF MasterHolds
<1>6. RefCountExact' /\ FreedExact'
  <2>1. RefCountExact'
    <3>1. ASSUME NEW c \in Reloaded
          PROVE  ref_count[c] = Cardinality(Holders(c)') + (IF MasterHolds(c)' THEN 1 ELSE 0)
      BY <1>4, <1>5, <3>1 DEF ContextInv, RefCountExact
    <3> QED BY <3>1, <1>1, Zenon DEF RefCountExact, Reloaded
  <2>2. FreedExact'
    BY <1>1, Zenon DEF ContextInv, FreedExact, Reloaded
  <2> QED BY <2>1, <2>2
<1>7. NotSentYet' /\ LeaksApart' /\ VersionsInOrder'
  BY <1>1, <1>3, <1>4, ZenonT(30) DEF ContextInv, NotSentYet, LeaksApart, VersionsInOrder
<1>8. ASSUME NEW s \in Slaves PROVE InLoadOrder(s)'
  <2>1. CASE s # t
    <3>1. InLoadOrder(s)
      BY DEF ContextInv
    <3>2. ring'[s] = ring[s] /\ msg'[s] = msg[s] /\ spc'[s] = spc[s] /\ config_ctx' = config_ctx
      BY <1>1, <2>1, Zenon
    <3> QED BY <1>1, <3>1, <3>2, ZenonT(30) DEF InLoadOrder
  <2>2. CASE s = t
    <3>1. ring[t] \in Seq(Contexts)
      BY <1>0, SlaveTypes
    <3>2. /\ Len(ring[t]) \in Nat /\ Len(ring[t]) >= 1
          /\ Len(ring'[t]) = Len(ring[t]) - 1 /\ msg'[t] = ring[t][1]
          /\ \A i \in 1 .. Len(ring'[t]) : ring'[t][i] = ring[t][i + 1]
      BY <1>1, <3>1, SMTT(30)
    <3>3. 1 \in 1 .. Len(ring[t])
          /\ \A i \in 1 .. Len(ring'[t]) : i + 1 \in 1 .. Len(ring[t]) /\ 1 < i + 1
      BY <3>2, SMTT(30)
    <3>4. config_ctx[t] < msg'[t] /\ msg'[t] <= nloads
      BY <1>0, <3>2, <3>3, SMTT(30) DEF InLoadOrder
    <3>5. \A i \in 1 .. Len(ring'[t]) :
            /\ config_ctx[t] < ring'[t][i] /\ ring'[t][i] <= nloads
            /\ msg'[t] < ring'[t][i]
      BY <1>0, <3>2, <3>3, ZenonT(30) DEF InLoadOrder
    <3>6. \A i, j \in 1 .. Len(ring'[t]) : i < j => ring'[t][i] < ring'[t][j]
      <4>1. \A i, j \in 1 .. Len(ring'[t]) : i < j => i + 1 < j + 1
        BY <3>2, SMTT(30)
      <4> QED
        BY <1>0, <3>2, <3>3, <4>1 DEF InLoadOrder
    <3> QED
      BY <1>0, <1>1, <2>2, <3>4, <3>5, <3>6, ZenonT(30) DEF InLoadOrder
  <2> QED
    BY <2>1, <2>2, SMTT(30)
<1> QED
  BY <1>1, <1>6, <1>7, <1>8 DEF ContextInv

LEMMA SwapStep ==
  ASSUME RequestInv, ContextInv, NEW t \in Slaves, SwapConfig(t)
  PROVE  ContextInv'
<1> PICK o : o = config_ctx[t]
  OBVIOUS
<1>0. TypeOK /\ InLoadOrder(t) /\ LeaksApart
  BY DEF RequestInv, ContextInv
<1>1. /\ UNCHANGED <<table, mpc, next_slave, new_config_ctx, nloads, version, ring, msg,
                     leaked>>
      /\ o = config_ctx[t] /\ spc[t] = "swap" /\ spc'[t] = "put" /\ config_ctx'[t] = msg[t]
      /\ \A s \in Slaves : s # t => config_ctx'[s] = config_ctx[s] /\ spc'[s] = spc[s]
      /\ glb_fwd_config_ctx_decref(o)
  BY <1>0, SMTT(30) DEF TypeOK, SwapConfig, envVars, masterVars, msgVars, histVars
<1>2. /\ o \in Contexts /\ o \in Int /\ msg[t] \in Int
      /\ \A i \in 1 .. Len(ring[t]) : ring[t][i] \in Int
  BY <1>0, <1>1, SlaveTypes, ZenonT(30)
<1>3. o < msg[t] /\ \A i \in 1 .. Len(ring[t]) : o < ring[t][i]
  BY <1>0, <1>1, ZenonT(30) DEF InLoadOrder
<1>4. o # msg[t] /\ ~Queued(ring[t], o)
  BY <1>2, <1>3, SMTT(30) DEF Queued
<1>5. \A s \in Slaves : \A c : Reaches(s, c)' <=> Reaches(s, c) /\ ~(s = t /\ c = o)
  BY <1>1, <1>4 DEF Reaches
<1>6. Reaches(t, o) /\ <<o, t>> \notin leaked
  <2>1. Reaches(t, o)
    BY <1>1, Zenon DEF Reaches
  <2> QED BY <2>1, <1>0, <1>2, Zenon DEF LeaksApart
<1>7. /\ Holders(o)' = Holders(o) \ {t} /\ t \in Holders(o)
      /\ \A c : c # o => Holders(c)' = Holders(c)
      /\ \A c : Holders(c) \in SUBSET Slaves
  BY <1>1, <1>5, <1>6, ZenonT(30) DEF Holders
<1>8. /\ \A c : Cardinality(Holders(c)) \in Nat
      /\ Cardinality(Holders(o)') = Cardinality(Holders(o)) - 1
      /\ Cardinality(Holders(o)') \in Nat
  BY <1>7, CountSlaves, SMTT(30)
<1>9. \A c : MasterHolds(c)' <=> MasterHolds(c)
  BY <1>1, SMTT(30) DEF MasterHolds
<1>10. RefCountExact' /\ FreedExact'
  <2>1. ASSUME NEW c \in Reloaded
        PROVE  LET Held  == Cardinality(Holders(c)) + (IF MasterHolds(c) THEN 1 ELSE 0)
                   Held1 == Cardinality(Holders(c)') + (IF MasterHolds(c)' THEN 1 ELSE 0)
               IN  /\ Held \in Nat /\ Held1 \in Nat
                   /\ Held1 = IF c = o THEN Held - 1 ELSE Held
    <3>1. /\ Cardinality(Holders(c)) \in Nat /\ Cardinality(Holders(c)') \in Nat
          /\ Cardinality(Holders(c)') =
               IF c = o THEN Cardinality(Holders(c)) - 1 ELSE Cardinality(Holders(c))
      BY <1>7, <1>8
    <3>2. (IF MasterHolds(c)' THEN 1 ELSE 0) = IF MasterHolds(c) THEN 1 ELSE 0
      BY <1>9
    <3>3. (IF MasterHolds(c) THEN 1 ELSE 0) \in Nat
      OBVIOUS
    <3> QED
      BY <3>1, <3>2, <3>3
  <2> QED
    BY <1>1, <1>2, <2>1, DecrefStep, ZenonT(30)
<1>11. NotSentYet'
  <2>1. \A c : Holders(c)' \subseteq Holders(c)
    BY <1>7, SMTT(30)
  <2> QED
    BY <1>1, <2>1 DEF ContextInv, NotSentYet
<1>12. LeaksApart' /\ VersionsInOrder'
  BY <1>1, <1>5, ZenonT(30) DEF ContextInv, LeaksApart, VersionsInOrder
<1>13. ASSUME NEW s \in Slaves PROVE InLoadOrder(s)'
  <2>1. CASE s # t
    BY <1>1, <2>1, ZenonT(60) DEF ContextInv, InLoadOrder
  <2>2. CASE s = t
    BY <1>0, <1>1, <2>2, ZenonT(30) DEF InLoadOrder
  <2> QED
    BY <2>1, <2>2
<1> QED
  BY <1>1, <1>10, <1>11, <1>12, <1>13 DEF ContextInv

LEMMA ContextStep ==
  ASSUME ~ReuseStale, RequestInv, RequestInv', ContextInv, [Next]_vars
  PROVE  ContextInv'
<1>1. CASE Load
  BY <1>1, LoadStep
<1>2. CASE EnqueueReload
  BY <1>2, EnqueueStep
<1>3. CASE ReleaseLoaded
  BY <1>3, ReleaseStep
<1>4. ASSUME NEW s \in Slaves, DequeueMsg(s), ring[s] # <<>> PROVE ContextInv'
  BY <1>4, DequeueStep
<1>5. ASSUME NEW s \in Slaves, SwapConfig(s) PROVE ContextInv'
  BY <1>5, SwapStep
<1>6. CASE \/ Environment \/ CheckStop \/ CheckReload \/ LoadFails \/ NotifyStop
           \/ WaitLcores
           \/ \E s \in Slaves : \/ GetPkt(s) \/ PutMsg(s) \/ CheckLcoreStop(s)
                                \/ ProcessPackets(s) \/ Fault(s)
                                \/ (DequeueMsg(s) /\ ring[s] = <<>>)
           \/ UNCHANGED vars
  BY <1>6, QuietActions, QuietStep
<1> QED
  BY <1>1, <1>2, <1>3, <1>4, <1>5, <1>6, ZenonT(30)
  DEF Next, MasterStep, SlaveStep, BaseWorkload, Terminated

LEMMA ContextInvariant == ~ReuseStale /\ Spec => [](RequestInv /\ ContextInv)
<1> SUFFICES ASSUME ~ReuseStale PROVE Spec => [](RequestInv /\ ContextInv)
  OBVIOUS
<1>1. Init => RequestInv /\ ContextInv
  BY RequestInit, ContextInit
<1>2. RequestInv /\ ContextInv /\ [Next]_vars => (RequestInv /\ ContextInv)'
  BY RequestStep, ContextStep
<1> QED
  BY <1>1, <1>2, PTL DEF Spec

(* The reference count of every context a reload creates is exact on every  *)
(* interleaving of the master with any number of slaves.                    *)
THEOREM CountsExact == ~ReuseStale /\ Spec => []RefCountExact
<1>1. RequestInv /\ ContextInv => RefCountExact
  BY DEF ContextInv
<1> QED
  BY <1>1, ContextInvariant, PTL

(* No slave ever classifies a packet with a reloaded context that was freed,*)
(* and the master never sends one.                                          *)
THEOREM NoUseAfterFree == ~ReuseStale /\ Spec => []LiveWhileReachable
<1>1. RequestInv /\ ContextInv => LiveWhileReachable
  <2> SUFFICES ASSUME ContextInv, NEW c \in Reloaded,
                      MasterHolds(c) \/ \E s \in Slaves : Reaches(s, c)
               PROVE  c \notin freed
    BY DEF LiveWhileReachable
  <2>1. /\ ref_count[c] = Cardinality(Holders(c)) + (IF MasterHolds(c) THEN 1 ELSE 0)
        /\ (c \in freed <=> ref_count[c] = 0)
    BY DEF ContextInv, RefCountExact, FreedExact
  <2>2. Cardinality(Holders(c)) \in Nat /\ (Cardinality(Holders(c)) = 0 <=> Holders(c) = {})
    BY CountSlaves, ZenonT(30) DEF Holders
  <2>3. MasterHolds(c) \/ Holders(c) # {}
    BY DEF Holders
  <2> QED
    BY <2>1, <2>2, <2>3
<1> QED
  BY <1>1, ContextInvariant, PTL

(* A reloaded context is freed as soon as nobody can reach it, unless a     *)
(* full control ring leaked a reference.                                    *)
THEOREM NoOtherLeak == ~ReuseStale /\ Spec => []FreedWhenUnreachable
<1>1. RequestInv /\ ContextInv => FreedWhenUnreachable
  <2> SUFFICES ASSUME ContextInv, NEW c \in Reloaded, ~MasterHolds(c), Holders(c) = {}
               PROVE  c \in freed
    BY DEF FreedWhenUnreachable
  <2>1. /\ ref_count[c] = Cardinality(Holders(c)) + 0
        /\ (c \in freed <=> ref_count[c] = 0)
    BY DEF ContextInv, RefCountExact, FreedExact
  <2> QED
    BY <2>1, FS_EmptySet
<1> QED
  BY <1>1, ContextInvariant, PTL

(* A slave never goes back to an older forwarding table. *)
THEOREM VersionsAdvance == ~ReuseStale /\ Spec => NeverBackwards
<1> SUFFICES ASSUME ~ReuseStale PROVE Spec => NeverBackwards
  OBVIOUS
<1>1. ASSUME RequestInv, ContextInv, [Next]_vars, NEW s \in Slaves
      PROVE  version'[config_ctx'[s]] >= version[config_ctx[s]]
  <2>0. /\ TypeOK /\ InLoadOrder(s) /\ VersionsInOrder
    BY <1>1, ZenonT(30) DEF RequestInv, ContextInv
  <2>1. /\ config_ctx[s] \in 0 .. nloads /\ config_ctx[s] \in Contexts
        /\ version[config_ctx[s]] \in Int
    BY <2>0, SlaveTypes, SMTT(30) DEF InLoadOrder, TypeOK, Contexts, Versions
  <2>2. CASE Load
    <3>1. /\ version' = [version EXCEPT ![nloads + 1] = table]
          /\ config_ctx' = config_ctx /\ nloads + 1 # config_ctx[s]
      BY <1>1, <2>0, <2>1, <2>2, SMTT(30) DEF Load, slaveVars, TypeOK, Contexts
    <3> QED
      BY <2>0, <2>1, <3>1, SMTT(30) DEF TypeOK
  <2>3. CASE SwapConfig(s)
    <3>1. version' = version /\ config_ctx'[s] = msg[s] /\ spc[s] = "swap"
      BY <2>0, <2>3, SMTT(30) DEF SwapConfig, TypeOK
    <3>2. config_ctx[s] < msg[s] /\ msg[s] \in 0 .. nloads /\ version[msg[s]] \in Int
      BY <2>0, <3>1, SlaveTypes, SMTT(30) DEF InLoadOrder, TypeOK, Contexts, Versions
    <3> QED
      BY <2>0, <2>1, <3>1, <3>2, SMTT(30) DEF VersionsInOrder
  <2>4. ASSUME ~Load, ~SwapConfig(s)
        PROVE  version' = version /\ config_ctx'[s] = config_ctx[s]
    BY <1>1, <2>0, <2>4, ZenonT(60)
    DEF Next, Environment, PublishTable, SignalReload, SignalStop, MasterStep, CheckStop,
        CheckReload, LoadFails, EnqueueReload, ReleaseLoaded, NotifyStop, WaitLcores,
        SlaveStep, BaseWorkload, GetPkt, DequeueMsg, SwapConfig, PutMsg, CheckLcoreStop,
        ProcessPackets, Fault, Terminated, vars, ctxVars, slaveVars, TypeOK
  <2> QED
    BY <2>1, <2>2, <2>3, <2>4, SMTT(30)
<1>2. RequestInv /\ ContextInv /\ [Next]_vars =>
        [\A s \in Slaves : version'[config_ctx'[s]] >= version[config_ctx[s]]]_vars
  BY <1>1
<1>3. Spec => [](RequestInv /\ ContextInv)
  BY ContextInvariant
<1> QED
  BY <1>2, <1>3, PTL DEF Spec, NeverBackwards

------------------------------------------------------------------------------
(* Control messages: in the pool, in a ring, or in the hands of a slave.    *)

InRings == UNION {{s} \X (1 .. Len(ring[s])) : s \in Slaves}
Handling == {s \in Slaves : spc[s] \in {"swap", "put"}}

MessagesInv == IsFiniteSet(InRings) /\ MessageConservation

LEMMA RingSlots == \A x : x \in InRings <=>
                     \E s \in Slaves : \E i \in 1 .. Len(ring[s]) : x = <<s, i>>
  BY DEF InRings

LEMMA MessagesInit == Init => MessagesInv
<1> SUFFICES ASSUME Init PROVE MessagesInv
  OBVIOUS
<1>1. InRings = {} /\ Handling = {}
  <2>1. \A s \in Slaves : ring[s] = <<>> /\ Len(ring[s]) = 0
                              /\ spc[s] \in {"get_pkt", "base", "done"}
    BY DEF Init
  <2>2. \A x : x \notin InRings
    BY <2>1, RingSlots
  <2> QED
    BY <2>1, <2>2, ZenonT(30) DEF Handling
<1>2. IsFiniteSet({}) /\ Cardinality({}) = 0
  BY FS_EmptySet
<1>3. PoolSize = pool + Cardinality(InRings) + Cardinality(Handling)
  BY <1>1, <1>2, ReloadConstants DEF Init
<1> QED
  BY <1>1, <1>2, <1>3, ZenonT(30) DEF MessagesInv, MessageConservation, InRings, Handling

(* A step that sends, takes and returns no message. *)
LEMMA MessagesKept ==
  ASSUME MessagesInv, UNCHANGED <<pool, ring>>,
         \A s \in Slaves : spc'[s] \in {"swap", "put"} <=> spc[s] \in {"swap", "put"}
  PROVE  MessagesInv'
<1>1. InRings' = InRings /\ Handling' = Handling
  BY DEF InRings, Handling
<1> QED
  BY <1>1, ZenonT(30) DEF MessagesInv, MessageConservation, InRings, Handling

LEMMA MessagesMaster ==
  ASSUME TypeOK, MessagesInv, EnqueueReload
  PROVE  MessagesInv'
<1> DEFINE s == next_slave
<1>0. s \in Slaves /\ ring[s] \in Seq(Contexts) /\ spc' = spc
  BY ReloadConstants DEF TypeOK, EnqueueReload, Slaves, slaveVars
<1>1. CASE UNCHANGED <<pool, ring>>
  BY <1>0, <1>1, MessagesKept, ZenonT(30)
<1>2. CASE /\ pool' = pool - 1
           /\ ring' = [ring EXCEPT ![s] = Append(ring[s], new_config_ctx)]
  <2> DEFINE n == Len(ring[s]) + 1
  <2>1. Len(ring[s]) \in Nat /\ Len(ring'[s]) = n
    BY <1>0, <1>2 DEF TypeOK
  <2>2. \A t \in Slaves : t # s => ring'[t] = ring[t]
    BY <1>2 DEF TypeOK
  <2>3. InRings' = InRings \cup {<<s, n>>} /\ <<s, n>> \notin InRings
    <3>1. 1 .. n = (1 .. Len(ring[s])) \cup {n} /\ n \notin 1 .. Len(ring[s])
      BY <2>1
    <3>2. ASSUME NEW x PROVE x \in InRings' <=> x \in InRings \cup {<<s, n>>}
      <4>1. x \in InRings' <=> \E t \in Slaves : \E i \in 1 .. Len(ring'[t]) : x = <<t, i>>
        BY DEF InRings
      <4>2. x \in InRings <=> \E t \in Slaves : \E i \in 1 .. Len(ring[t]) : x = <<t, i>>
        BY RingSlots
      <4> QED BY <1>0, <2>1, <2>2, <3>1, <4>1, <4>2
    <3>3. <<s, n>> \notin InRings
      BY <3>1, RingSlots
    <3> QED BY <3>2, <3>3
  <2>4. IsFiniteSet(InRings') /\ Cardinality(InRings') = Cardinality(InRings) + 1
    BY <2>3, FS_AddElement, ZenonT(30) DEF MessagesInv
  <2>5. Handling' = Handling /\ Cardinality(Handling) \in Nat /\ Cardinality(InRings) \in Nat
    BY <1>0, CountSlaves, FS_CardinalityType DEF Handling, MessagesInv
  <2>6. PoolSize = pool + Cardinality(InRings) + Cardinality(Handling)
    BY DEF MessagesInv, MessageConservation, InRings, Handling
  <2>7. PoolSize = pool' + Cardinality(InRings') + Cardinality(Handling')
    BY <1>2, <2>4, <2>5, <2>6 DEF TypeOK
  <2> QED
    BY <2>4, <2>7, ZenonT(30) DEF MessagesInv, MessageConservation, InRings, Handling
<1> QED
  BY <1>1, <1>2 DEF EnqueueReload, rte_ring_enqueue

LEMMA MessagesSlave ==
  ASSUME TypeOK, MessagesInv, NEW s \in Slaves, DequeueMsg(s) \/ PutMsg(s)
  PROVE  MessagesInv'
<1>0. /\ ring[s] \in Seq(Contexts) /\ DOMAIN spc = Slaves
      /\ Cardinality(Handling) \in Nat /\ Cardinality(InRings) \in Nat
      /\ PoolSize = pool + Cardinality(InRings) + Cardinality(Handling)
  <2>1. ring[s] \in Seq(Contexts) /\ DOMAIN spc = Slaves
    BY DEF TypeOK
  <2>2. Cardinality(Handling) \in Nat
    BY CountSlaves DEF Handling
  <2>3. Cardinality(InRings) \in Nat
    BY FS_CardinalityType, ZenonT(30) DEF MessagesInv
  <2>4. PoolSize = pool + Cardinality(InRings) + Cardinality(Handling)
    BY ZenonT(30) DEF Handling, InRings, MessagesInv, MessageConservation
  <2> QED BY <2>1, <2>2, <2>3, <2>4
<1>1. CASE DequeueMsg(s) /\ ring[s] = <<>>
  BY <1>0, <1>1, MessagesKept, ZenonT(30) DEF DequeueMsg
<1>2. CASE DequeueMsg(s) /\ ring[s] # <<>>
  <2> DEFINE n == Len(ring[s])
  <2>1. /\ pool' = pool /\ ring' = [ring EXCEPT ![s] = Tail(ring[s])]
        /\ spc' = [spc EXCEPT ![s] = "swap"] /\ spc[s] = "base"
    BY <1>2 DEF DequeueMsg
  <2>2. n \in Nat /\ n >= 1 /\ Len(ring'[s]) = n - 1
    BY <1>0, <1>2, <2>1 DEF TypeOK
  <2>3. \A t \in Slaves : t # s => ring'[t] = ring[t]
    BY <2>1 DEF TypeOK
  <2>4. InRings' = InRings \ {<<s, n>>} /\ <<s, n>> \in InRings
    <3>1. 1 .. n - 1 = (1 .. n) \ {n} /\ n \in 1 .. n
      BY <2>2
    <3>2. ASSUME NEW x PROVE x \in InRings' <=> x \in InRings \ {<<s, n>>}
      <4>1. x \in InRings' <=> \E t \in Slaves : \E i \in 1 .. Len(ring'[t]) : x = <<t, i>>
        BY DEF InRings
      <4>2. x \in InRings <=> \E t \in Slaves : \E i \in 1 .. Len(ring[t]) : x = <<t, i>>
        BY RingSlots
      <4> QED BY <2>2, <2>3, <3>1, <4>1, <4>2
    <3>3. <<s, n>> \in InRings
      BY <3>1, RingSlots
    <3> QED BY <3>2, <3>3
  <2>5. IsFiniteSet(InRings') /\ Cardinality(InRings') = Cardinality(InRings) - 1
    BY <2>4, FS_RemoveElement, ZenonT(30) DEF MessagesInv
  <2>6. Handling' = Handling \cup {s} /\ s \notin Handling
    BY <1>0, <2>1 DEF Handling
  <2>7. Cardinality(Handling') = Cardinality(Handling) + 1
    BY <2>6, CountSlaves DEF Handling
  <2>8. PoolSize = pool' + Cardinality(InRings') + Cardinality(Handling')
    BY <1>0, <2>1, <2>5, <2>7 DEF TypeOK
  <2> QED
    BY <2>5, <2>8, ZenonT(30) DEF MessagesInv, MessageConservation, InRings, Handling
<1>3. CASE PutMsg(s)
  <2>1. /\ pool' = pool + 1 /\ ring' = ring
        /\ spc' = [spc EXCEPT ![s] = "stop?"] /\ spc[s] = "put"
    BY <1>3, ZenonT(30) DEF PutMsg
  <2>2. Handling' = Handling \ {s} /\ s \in Handling /\ InRings' = InRings
    BY <1>0, <2>1, ZenonT(30) DEF Handling, InRings
  <2>3. Cardinality(Handling') = Cardinality(Handling) - 1
    BY <2>2, CountSlaves, ZenonT(30) DEF Handling
  <2>4. PoolSize = pool' + Cardinality(InRings') + Cardinality(Handling')
    BY <1>0, <2>1, <2>2, <2>3 DEF TypeOK
  <2> QED
    BY <2>2, <2>4, ZenonT(30) DEF MessagesInv, MessageConservation, InRings, Handling
<1> QED
  BY <1>1, <1>2, <1>3, ZenonT(30)

LEMMA MessagesStep == TypeOK /\ MessagesInv /\ [Next]_vars => MessagesInv'
<1> SUFFICES ASSUME TypeOK, MessagesInv, [Next]_vars PROVE MessagesInv'
  OBVIOUS
<1> USE DEF msgVars, slaveVars
<1>1. CASE Environment \/ UNCHANGED vars
  BY <1>1, MessagesKept, ZenonT(30) DEF Environment, PublishTable, SignalReload, SignalStop, vars
<1>2. CASE CheckStop \/ CheckReload \/ Load \/ LoadFails \/ ReleaseLoaded \/ NotifyStop \/ WaitLcores
  BY <1>2, MessagesKept, ZenonT(30) DEF CheckStop, CheckReload, Load, LoadFails, ReleaseLoaded,
     NotifyStop, WaitLcores
<1>3. ASSUME NEW s \in Slaves,
             GetPkt(s) \/ SwapConfig(s) \/ CheckLcoreStop(s) \/ ProcessPackets(s) \/ Fault(s)
      PROVE  MessagesInv'
  <2>1. UNCHANGED <<pool, ring>>
    BY <1>3, ZenonT(30) DEF GetPkt, SwapConfig, CheckLcoreStop, ProcessPackets, Fault
  <2>2. \A t \in Slaves : spc'[t] \in {"swap", "put"} <=> spc[t] \in {"swap", "put"}
    BY <1>3, ZenonT(30) DEF GetPkt, SwapConfig, CheckLcoreStop, ProcessPackets, Fault, TypeOK
  <2> QED BY <2>1, <2>2, MessagesKept, ZenonT(30)
<1> QED
  BY <1>1, <1>2, <1>3, MessagesMaster, MessagesSlave
  DEF Next, MasterStep, SlaveStep, BaseWorkload, Terminated

(* However the master and the slaves interleave, whatever rings are full    *)
(* and whenever the pool is empty, the messages of glb_processor_msg_pool   *)
(* are neither lost nor duplicated.                                         *)
THEOREM MessagesConserved == Spec => []MessageConservation
<1>1. RequestInv /\ MessagesInv /\ [Next]_vars => MessagesInv'
  BY MessagesStep DEF RequestInv
<1>2. MessagesInv => MessageConservation
  BY DEF MessagesInv
<1> QED
  BY <1>1, <1>2, MessagesInit, RequestInvariant, PTL DEF Spec
==============================================================================
