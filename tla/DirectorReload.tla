--------------------------- MODULE DirectorReload ---------------------------
(***************************************************************************)
(* Configuration reload and shutdown of the DPDK director.                 *)
(*                                                                         *)
(* The master lcore runs main_loop_control (glb_control_loop.c): it polls  *)
(* two flags that signal_handler raises, loads the forwarding table into a *)
(* fresh, reference-counted glb_fwd_config_ctx and sends a pointer to it   *)
(* to every slave lcore over that lcore's control_msg_ring.  Every slave   *)
(* runs processor_base_workload (glb_processor_loop.c) once per iteration: *)
(* it takes at most one message, drops its old context and adopts the new. *)
(*                                                                         *)
(* A context is a number: 0 is the one main() loads before it launches the *)
(* slaves, c > 0 the one of the c-th reload.  Packets are abstracted away: *)
(* what matters here is when a slave reads its context.                    *)
(***************************************************************************)
EXTENDS Integers, Sequences, FiniteSets

CONSTANTS NSlaves,      \* number of slave lcores, visited in order 1 .. NSlaves
          Workers,      \* slaves that run processor_worker
          Distributors, \* slaves that run processor_rx_dist_tx
          Source,       \* Source[w]: source_dist_core of worker w
          PoolSize,     \* control messages in glb_processor_msg_pool (0xff)
          RingSize,     \* usable slots of a control_msg_ring (0x10 - 1)
          ReuseStale,   \* may malloc hand out the block of context 0 again?
          MaxSignals,   \* bound on the SIGUSR1s the environment sends
          MaxVersion    \* bound on the table versions written to disk

Slaves == 1 .. NSlaves
Contexts == 0 .. MaxSignals
Versions == 0 .. MaxVersion

ASSUME ReloadConstants ==
  /\ NSlaves \in Nat /\ PoolSize \in Nat /\ RingSize \in Nat
  /\ MaxSignals \in Nat /\ MaxVersion \in Nat
  /\ Workers \subseteq Slaves /\ Distributors \subseteq Slaves
  /\ Workers \cap Distributors = {}
  /\ Source \in [Workers -> Distributors]
  /\ ReuseStale \in BOOLEAN

VARIABLES
  table,            \* version of the forwarding table on disk
  asked,            \* newest version on disk when a SIGUSR1 was delivered
  signals,          \* SIGUSR1s delivered so far
  reload_requested, director_stop,   \* the two flags of signal_handler
  process,          \* "up", or "dead" after exit(1) or a fault
  mpc,              \* where the master lcore is
  next_slave,       \* loop variable of RTE_LCORE_FOREACH_SLAVE
  new_config_ctx,   \* the context being distributed
  nloads,           \* contexts loaded by reloads
  version,          \* version[c]: the table version context c holds
  ref_count,        \* _ref_count of each context
  freed,            \* contexts handed back to free()
  pool,             \* messages left in glb_processor_msg_pool
  ring,             \* ring[s]: contexts in the messages queued for slave s
  msg,              \* msg[s]: context of the message slave s has dequeued
  config_ctx,       \* config_ctx[s]: the context slave s points to
  lcore_stop,       \* the per-lcore director_stop flags
  spc,              \* where slave s is
  leaked,           \* <<c, s>>: the reference taken on c for s was never sent
  missed            \* slaves some reload message never reached

envVars    == <<table, asked, signals>>
masterVars == <<mpc, next_slave, new_config_ctx, nloads>>
ctxVars    == <<version, ref_count, freed>>
msgVars    == <<pool, ring, msg>>
slaveVars  == <<config_ctx, spc>>
histVars   == <<leaked, missed>>
vars == <<envVars, reload_requested, director_stop, process, masterVars, ctxVars, msgVars,
          slaveVars, lcore_stop, histVars>>

(* The process runs until main() returns, exit(1) or a fault. *)
Running == process = "up" /\ mpc # "done"
Active == Workers \cup Distributors

(* The first lcore RTE_LCORE_FOREACH_SLAVE visits.  Mutant: it is skipped. *)
FirstSlave_Skipped == 2
FirstSlave == 1

(* main() loads context 0, whose reference count is the 1 that              *)
(* create_glb_fwd_config leaves, stores that pointer in every lcore's       *)
(* context and launches the slaves.  A slave with neither workload returns  *)
(* from main_loop_processor at once.                                        *)
Init ==
  /\ table = 0 /\ asked = 0 /\ signals = 0
  /\ reload_requested = 0 /\ director_stop = 0 /\ process = "up"
  /\ mpc = "stop?" /\ next_slave = FirstSlave /\ new_config_ctx = 0 /\ nloads = 0
  /\ version = [c \in Contexts |-> 0]
  /\ ref_count = [c \in Contexts |-> IF c = 0 THEN 1 ELSE 0]
  /\ freed = {}
  /\ pool = PoolSize
  /\ ring = [s \in Slaves |-> <<>>]
  /\ msg = [s \in Slaves |-> 0]
  /\ config_ctx = [s \in Slaves |-> 0]
  /\ lcore_stop = [s \in Slaves |-> 0]
  /\ spc = [s \in Slaves |-> IF s \in Workers THEN "get_pkt"
                             ELSE IF s \in Distributors THEN "base" ELSE "done"]
  /\ leaked = {} /\ missed = {}

------------------------------------------------------------------------------
(* The environment: glb-director-cli replaces the table by a rename, and    *)
(* the operator sends signals.                                              *)

PublishTable ==
  /\ Running /\ table < MaxVersion
  /\ table' = table + 1
  /\ UNCHANGED <<asked, signals, reload_requested, director_stop, process,
                 masterVars, ctxVars, msgVars, slaveVars, lcore_stop, histVars>>

SignalReload ==
  /\ Running /\ signals < MaxSignals
  /\ signals' = signals + 1
  /\ asked' = table
  /\ reload_requested' = 1
  /\ UNCHANGED <<table, director_stop, process, masterVars, ctxVars, msgVars,
                 slaveVars, lcore_stop, histVars>>

SignalStop ==
  /\ Running /\ director_stop = 0
  /\ director_stop' = 1
  /\ UNCHANGED <<envVars, reload_requested, process, masterVars, ctxVars,
                 msgVars, slaveVars, lcore_stop, histVars>>

------------------------------------------------------------------------------
(* The master lcore.                                                        *)

(* rte_mempool_get finds a message. *)
GotMsg == pool > 0

(* A ring is first-in, first-out.  Mutant: last-in, first-out. *)
rte_ring_enqueue_Lifo(q, c) == <<c>> \o q
rte_ring_enqueue(q, c) == Append(q, c)

(* Mutant: the reference is not taken. *)
glb_fwd_config_ctx_incref_Missing(c) == UNCHANGED ref_count
glb_fwd_config_ctx_incref(c) == ref_count' = [ref_count EXCEPT ![c] = @ + 1]

(* The reference is dropped and, if it was the last one, the context freed. *)
(* Mutants: freed one reference too early; the old count is tested.        *)
glb_fwd_config_ctx_decref_Early(c) ==
  /\ ref_count' = [ref_count EXCEPT ![c] = @ - 1]
  /\ freed' = IF ref_count[c] = 2 THEN freed \cup {c} ELSE freed
glb_fwd_config_ctx_decref_OldCount(c) ==
  /\ ref_count' = [ref_count EXCEPT ![c] = @ - 1]
  /\ freed' = IF ref_count[c] = 0 THEN freed \cup {c} ELSE freed
glb_fwd_config_ctx_decref(c) ==
  /\ ref_count' = [ref_count EXCEPT ![c] = @ - 1]
  /\ freed' = IF ref_count[c] = 1 THEN freed \cup {c} ELSE freed

CheckStop ==
  /\ Running /\ mpc = "stop?"
  /\ mpc' = IF director_stop = 1 THEN "stopping" ELSE "reload?"
  /\ next_slave' = FirstSlave
  /\ UNCHANGED <<envVars, reload_requested, director_stop, process,
                 new_config_ctx, nloads, ctxVars, msgVars, slaveVars,
                 lcore_stop, histVars>>

(* The request is cleared before the table is read.  The metrics, the KNI   *)
(* requests and sleep(1) that end the iteration leave this state alone.     *)
CheckReload ==
  /\ Running /\ mpc = "reload?"
  /\ mpc' = IF reload_requested = 1 THEN "load" ELSE "stop?"
  /\ reload_requested' = 0
  /\ UNCHANGED <<envVars, director_stop, process, next_slave, new_config_ctx,
                 nloads, ctxVars, msgVars, slaveVars, lcore_stop, histVars>>

(* create_glb_fwd_config: a copy of the file with one reference.  A context *)
(* block is a fresh number; only block 0 can be freed with pointers to it   *)
(* left, so only its reuse is told apart.                                   *)
Load ==
  /\ Running /\ mpc = "load"
  /\ nloads' = nloads + 1
  /\ \E c \in {nloads + 1} \cup (IF ReuseStale THEN freed \cap {0} ELSE {}) :
       /\ new_config_ctx' = c
       /\ version' = [version EXCEPT ![c] = table]
       /\ ref_count' = [ref_count EXCEPT ![c] = 1]
       /\ freed' = freed \ {c}
  /\ mpc' = "enqueue" /\ next_slave' = FirstSlave
  /\ UNCHANGED <<envVars, reload_requested, director_stop, process, msgVars,
                 slaveVars, lcore_stop, histVars>>

(* Every failure to stat, map, copy or validate the table, or to build its  *)
(* classifiers, ends in exit(1).                                            *)
LoadFails ==
  /\ Running /\ mpc = "load"
  /\ process' = "dead"
  /\ UNCHANGED <<envVars, reload_requested, director_stop, masterVars, ctxVars,
                 msgVars, slaveVars, lcore_stop, histVars>>

(* One iteration of enqueue_reload_control_msg: no message left, ring full, *)
(* or sent.  A full ring gives the message back but not the reference.      *)
EnqueueReload ==
  /\ Running /\ mpc = "enqueue" /\ next_slave <= NSlaves
  /\ next_slave' = next_slave + 1
  /\ LET c == new_config_ctx
         s == next_slave
     IN \/ /\ ~GotMsg
           /\ missed' = missed \cup {s}
           /\ UNCHANGED <<ref_count, pool, ring, leaked>>
        \/ /\ GotMsg /\ Len(ring[s]) = RingSize
           /\ glb_fwd_config_ctx_incref(c)
           /\ leaked' = leaked \cup {<<c, s>>}
           /\ missed' = missed \cup {s}
           /\ UNCHANGED <<pool, ring>>
        \/ /\ GotMsg /\ Len(ring[s]) < RingSize
           /\ glb_fwd_config_ctx_incref(c)
           /\ pool' = pool - 1
           /\ ring' = [ring EXCEPT ![s] = rte_ring_enqueue(@, c)]
           /\ UNCHANGED <<leaked, missed>>
  /\ UNCHANGED <<envVars, reload_requested, director_stop, process, mpc,
                 new_config_ctx, nloads, version, freed, msg, slaveVars,
                 lcore_stop>>

(* The master gives up the reference that loading gave it.  Mutant: the     *)
(* request is cleared here, once the reload is done.                        *)
ReleaseLoaded_ThenReset ==
  /\ Running /\ mpc = "enqueue" /\ next_slave = NSlaves + 1
  /\ glb_fwd_config_ctx_decref(new_config_ctx)
  /\ mpc' = "stop?" /\ next_slave' = FirstSlave
  /\ reload_requested' = 0
  /\ UNCHANGED <<envVars, director_stop, process, new_config_ctx, nloads, version,
                 msgVars, slaveVars, lcore_stop, histVars>>
ReleaseLoaded ==
  /\ Running /\ mpc = "enqueue" /\ next_slave = NSlaves + 1
  /\ glb_fwd_config_ctx_decref(new_config_ctx)
  /\ mpc' = "stop?" /\ next_slave' = FirstSlave
  /\ UNCHANGED <<envVars, reload_requested, director_stop, process,
                 new_config_ctx, nloads, version, msgVars, slaveVars,
                 lcore_stop, histVars>>

(* The slaves are told one after the other; then main() waits for all of    *)
(* them.                                                                    *)
NotifyStop ==
  /\ Running /\ mpc = "stopping" /\ next_slave <= NSlaves
  /\ lcore_stop' = [lcore_stop EXCEPT ![next_slave] = 1]
  /\ next_slave' = next_slave + 1
  /\ UNCHANGED <<envVars, reload_requested, director_stop, process, mpc,
                 new_config_ctx, nloads, ctxVars, msgVars, slaveVars, histVars>>

WaitLcores ==
  /\ Running /\ mpc = "stopping" /\ next_slave = NSlaves + 1
  /\ \A s \in Slaves : spc[s] = "done"
  /\ mpc' = "done"
  /\ UNCHANGED <<envVars, reload_requested, director_stop, process, next_slave,
                 new_config_ctx, nloads, ctxVars, msgVars, slaveVars,
                 lcore_stop, histVars>>

------------------------------------------------------------------------------
(* The slave lcores.                                                        *)

(* rte_distributor_get_pkt returns, perhaps with no packet (external).      *)
GetPkt(s) ==
  /\ Running /\ spc[s] = "get_pkt"
  /\ spc' = [spc EXCEPT ![s] = "base"]
  /\ UNCHANGED <<envVars, reload_requested, director_stop, process, masterVars,
                 ctxVars, msgVars, config_ctx, lcore_stop, histVars>>

(* processor_base_workload dequeues at most one message ... *)
DequeueMsg(s) ==
  /\ Running /\ spc[s] = "base"
  /\ IF ring[s] = <<>>
     THEN /\ spc' = [spc EXCEPT ![s] = "stop?"]
          /\ UNCHANGED <<ring, msg>>
     ELSE /\ spc' = [spc EXCEPT ![s] = "swap"]
          /\ msg' = [msg EXCEPT ![s] = Head(ring[s])]
          /\ ring' = [ring EXCEPT ![s] = Tail(@)]
  /\ UNCHANGED <<envVars, reload_requested, director_stop, process, masterVars,
                 ctxVars, pool, config_ctx, lcore_stop, histVars>>

(* ... drops the old context and steals the message's reference ... *)
SwapConfig(s) ==
  /\ Running /\ spc[s] = "swap"
  /\ glb_fwd_config_ctx_decref(config_ctx[s])
  /\ config_ctx' = [config_ctx EXCEPT ![s] = msg[s]]
  /\ spc' = [spc EXCEPT ![s] = "put"]
  /\ UNCHANGED <<envVars, reload_requested, director_stop, process, masterVars,
                 version, msgVars, lcore_stop, histVars>>

(* ... returns the message to the pool (mutant: it does not) ... *)
PutMsg_Missing(s) ==
  /\ Running /\ spc[s] = "put"
  /\ spc' = [spc EXCEPT ![s] = "stop?"]
  /\ UNCHANGED <<envVars, reload_requested, director_stop, process, masterVars,
                 ctxVars, msgVars, config_ctx, lcore_stop, histVars>>
PutMsg(s) ==
  /\ Running /\ spc[s] = "put"
  /\ pool' = pool + 1
  /\ spc' = [spc EXCEPT ![s] = "stop?"]
  /\ UNCHANGED <<envVars, reload_requested, director_stop, process, masterVars,
                 ctxVars, ring, msg, config_ctx, lcore_stop, histVars>>

(* ... and reports whether the lcore has to stop. *)
CheckLcoreStop(s) ==
  /\ Running /\ spc[s] = "stop?"
  /\ spc' = [spc EXCEPT ![s] = IF lcore_stop[s] = 1 THEN "done"
                               ELSE IF s \in Workers THEN "packets" ELSE "base"]
  /\ UNCHANGED <<envVars, reload_requested, director_stop, process, masterVars,
                 ctxVars, msgVars, config_ctx, lcore_stop, histVars>>

(* A worker classifies and encapsulates its burst with its context. *)
ProcessPackets(s) ==
  /\ Running /\ spc[s] = "packets"
  /\ spc' = [spc EXCEPT ![s] = "get_pkt"]
  /\ UNCHANGED <<envVars, reload_requested, director_stop, process, masterVars,
                 ctxVars, msgVars, config_ctx, lcore_stop, histVars>>

(* Reading or decrementing a freed context is undefined: the memory may     *)
(* still be intact (the two actions above), be part of a newer context      *)
(* (ReuseStale), or the access may kill the process.                        *)
Fault(s) ==
  /\ Running /\ spc[s] \in {"swap", "packets"}
  /\ config_ctx[s] \in freed
  /\ process' = "dead"
  /\ UNCHANGED <<envVars, reload_requested, director_stop, masterVars, ctxVars,
                 msgVars, slaveVars, lcore_stop, histVars>>

Terminated == ~Running /\ UNCHANGED vars

Environment == PublishTable \/ SignalReload \/ SignalStop
MasterStep == CheckStop \/ CheckReload \/ Load \/ LoadFails \/ EnqueueReload
              \/ ReleaseLoaded \/ NotifyStop \/ WaitLcores
BaseWorkload(s) == DequeueMsg(s) \/ SwapConfig(s) \/ PutMsg(s) \/ CheckLcoreStop(s)
SlaveStep(s) == GetPkt(s) \/ BaseWorkload(s) \/ ProcessPackets(s) \/ Fault(s)

Next == \/ Environment
        \/ MasterStep
        \/ \E s \in Slaves : SlaveStep(s)
        \/ Terminated

Spec == Init /\ [][Next]_vars

(* Every lcore keeps running: the master never blocks while it polls, and a *)
(* slave spins.  rte_distributor_get_pkt only returns because the loop of   *)
(* the distributor lcore calls rte_distributor_process in every iteration,  *)
(* with or without packets, so nothing is assumed of it after that lcore    *)
(* has left its loop.  Neither a signal nor a failure is assumed to happen. *)
Fairness ==
  /\ WF_vars(CheckStop \/ CheckReload \/ Load \/ EnqueueReload \/ ReleaseLoaded
             \/ NotifyStop \/ WaitLcores)
  /\ \A s \in Slaves :
       /\ WF_vars(BaseWorkload(s) \/ ProcessPackets(s))
       /\ s \in Workers => WF_vars(spc[Source[s]] # "done" /\ GetPkt(s))

FairSpec == Spec /\ Fairness

------------------------------------------------------------------------------
(* Type correctness. *)
TypeOK ==
  /\ table \in Versions /\ asked \in Versions /\ signals \in 0 .. MaxSignals
  /\ reload_requested \in {0, 1} /\ director_stop \in {0, 1} /\ process \in {"up", "dead"}
  /\ mpc \in {"stop?", "reload?", "load", "enqueue", "stopping", "done"}
  /\ next_slave \in 1 .. NSlaves + 1
  /\ new_config_ctx \in Contexts /\ nloads \in Contexts
  /\ version \in [Contexts -> Versions]
  /\ ref_count \in [Contexts -> Int]
  /\ freed \subseteq Contexts
  /\ pool \in Nat
  /\ ring \in [Slaves -> Seq(Contexts)]
  /\ msg \in [Slaves -> Contexts]
  /\ config_ctx \in [Slaves -> Contexts]
  /\ lcore_stop \in [Slaves -> {0, 1}]
  /\ spc \in [Slaves -> {"get_pkt", "base", "swap", "put", "stop?", "packets", "done"}]
  /\ leaked \subseteq Contexts \X Slaves
  /\ missed \subseteq Slaves

Queued(q, c) == \E i \in 1 .. Len(q) : q[i] = c

(* s can still reach context c: it points to it, is about to, or will. *)
Reaches(s, c) ==
  \/ config_ctx[s] = c
  \/ spc[s] = "swap" /\ msg[s] = c
  \/ Queued(ring[s], c)

MasterHolds(c) == mpc = "enqueue" /\ new_config_ctx = c

(* A slave counts once: it reaches c, or the reference taken for it leaked. *)
Holders(c) == {s \in Slaves : Reaches(s, c) \/ <<c, s>> \in leaked}

Reloaded == 1 .. nloads

(* At every moment the count of a context that a reload created is exactly  *)
(* the number of parties that will still drop a reference to it, plus the   *)
(* references lost on a full ring: no incref or decref is missing or done   *)
(* twice on any interleaving of the master with the slaves.                 *)
RefCountExact ==
  \A c \in Reloaded :
    ref_count[c] = Cardinality(Holders(c)) + (IF MasterHolds(c) THEN 1 ELSE 0)

(* No reloaded context is freed while the master is still sending it or any *)
(* slave can still classify a packet with it.                               *)
LiveWhileReachable ==
  \A c \in Reloaded :
    MasterHolds(c) \/ (\E s \in Slaves : Reaches(s, c)) => c \notin freed

(* A reloaded context that nobody can reach is freed, unless a full ring    *)
(* leaked a reference to it.                                                *)
FreedWhenUnreachable ==
  \A c \in Reloaded :
    ~MasterHolds(c) /\ Holders(c) = {} => c \in freed

(* No control message is lost or duplicated: each is in the pool, in one    *)
(* ring, or in the hands of one slave.                                      *)
MessageConservation ==
  PoolSize = pool + Cardinality(UNION {{s} \X (1 .. Len(ring[s])) : s \in Slaves})
                  + Cardinality({s \in Slaves : spc[s] \in {"swap", "put"}})

(* A reload request is never forgotten: whenever the master is not about to *)
(* act on a request, the last context it loaded is at least as new as the   *)
(* table on disk at the latest SIGUSR1.                                     *)
NoLostRequest ==
  \/ reload_requested = 1 \/ mpc = "load"
  \/ version[new_config_ctx] >= asked

(* The table a slave works with never goes back to an older version. *)
NeverBackwards ==
  [][\A s \in Slaves : version'[config_ctx'[s]] >= version[config_ctx[s]]]_vars

(* The comment in glb_fwd_config_ctx_decref, "no more refs, we can free     *)
(* this!": a freed context is one no running slave points to any more.      *)
FreedHasNoUser ==
  \A s \in Active : spc[s] # "done" => config_ctx[s] \notin freed

(* Every slave with a workload ends up with a table at least as new as the  *)
(* one on disk when a SIGUSR1 arrived, unless the process stops or a        *)
(* message to that slave was lost to a full ring or an empty pool.          *)
ReloadDelivered ==
  \A v \in Versions \ {0}, s \in Active :
    (asked >= v) ~> (\/ version[config_ctx[s]] >= v
                     \/ s \in missed \/ director_stop = 1 \/ ~Running)
==============================================================================
