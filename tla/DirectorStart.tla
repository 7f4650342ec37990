--------------------------- MODULE DirectorStart ---------------------------
(***************************************************************************)
(* The life of the director process, from its configuration file to its   *)
(* exit (glb-director/main.c, glb_director_config.c, glb_kni.c, shared_opt.c *)
(* and the ends of glb_control_loop.c): the file is loaded and refused or  *)
(* accepted, the NIC ports are started, every core gets its context, the   *)
(* workers are linked to the distributor they work for, the slave cores    *)
(* are launched, systemd is told, and a stop signal, which may arrive at   *)
(* any moment, ends it all.                                                *)
(* What the cores do to packets is DirectorPipeline, and what a reload     *)
(* does to their tables is DirectorReload.                                 *)
(***************************************************************************)
EXTENDS Integers, Sequences, FiniteSets

CONSTANTS RTE_MAX_LCORE,            \* the number of cores DPDK can name
          Enabled, Master,          \* the enabled cores, and main's own
          Ports,                    \* the ports DPDK drives
          MaxQueues,                \* the queues each port supports
          PER_CORE_MAX_FLOW_PATHS,
          Files,                    \* the configuration files considered
          NULL

Lcores == 0 .. RTE_MAX_LCORE - 1
Slaves == Enabled \ {Master}

ASSUME StartAssumption ==
    /\ RTE_MAX_LCORE \in Nat
    /\ Enabled \subseteq Lcores /\ Master \in Enabled
    /\ Ports \subseteq Nat
    /\ NULL \notin Lcores

Absent == -1                        \* a setting the file does not have

Workloads == {"rx", "tx", "dist", "work", "kni"}
CORE_WORKLOAD_RX_DIST_TX == {"rx", "dist", "tx"}

VARIABLES
    file,                \* the configuration file of this process
    pc,                  \* where main is
    todo,                \* the cores or ports the loop main is in has left
    signalled,           \* director_stop of the process: SIGINT or SIGTERM came
    g_director_config,
    started,             \* the ports that rte_eth_dev_start started
    kni_ports,           \* the core that owns the KNI of a port, or NULL
    released,            \* the ports whose KNI is released
    glb_lcore_contexts,
    worker_ids,
    lcore,               \* "wait", "running" or "finished": rte_eal's state
    ready                \* READY=1 was sent

vars == <<file, pc, todo, signalled, g_director_config, started, kni_ports,
          released, glb_lcore_contexts, worker_ids, lcore, ready>>

----------------------------------------------------------------------------
(* glb_director_config_load_file.  A file is a record: the settings that   *)
(* only have to be there and to parse, numbers, and the section of every   *)
(* core it lists.                                                          *)

\* The addresses and sections without which there is no configuration, and
\* kni_ip and the two sets of hash fields, which may be missing but not
\* malformed (a set of hash fields is if it names none).
SettingsAccepted(f) ==
    /\ f.outbound_gateway_mac = "good"
    /\ f.outbound_src_ip = "good"
    /\ f.kni_ip # "malformed"
    /\ f.flow_paths # Absent
    /\ f.has_lcores
    /\ "malformed" \notin {f.hash_fields, f.alt_hash_fields}

\* The checks on the section of one core: each concerns one workload.
CoreAccepted(f, c) ==
    /\ c.workloads \cap {"rx", "tx"} # {} =>
           /\ Len(c.flow_paths) <= PER_CORE_MAX_FLOW_PATHS
           /\ \A i \in DOMAIN c.flow_paths : c.flow_paths[i] < f.flow_paths
    /\ "dist" \in c.workloads => c.num_dist_workers >= 1
    /\ "work" \in c.workloads =>
           c.work_source # Absent /\ c.work_source <= RTE_MAX_LCORE

Accepted(f) ==
    /\ SettingsAccepted(f)
    /\ \A c \in DOMAIN f.lcores : CoreAccepted(f, f.lcores[c])

\* A core the file does not list is left zeroed, and so are the numbers that
\* none of a core's workloads reads.
lcore_config(f, c) ==
    IF c \notin DOMAIN f.lcores
    THEN [workloads |-> {}, num_dist_workers |-> 0, source_dist_core |-> 0]
    ELSE LET s == f.lcores[c] IN
         [workloads        |-> s.workloads,
          num_dist_workers |-> IF "dist" \in s.workloads THEN s.num_dist_workers ELSE 0,
          source_dist_core |-> IF "work" \in s.workloads THEN s.work_source ELSE 0]

glb_director_config(f) ==
    [nb_queues     |-> IF f.num_worker_queues = Absent THEN 1 ELSE f.num_worker_queues % 256,
     kni_enabled   |-> \E c \in DOMAIN f.lcores : "kni" \in f.lcores[c].workloads,
     lcore_configs |-> [c \in Lcores |-> lcore_config(f, c)]]

----------------------------------------------------------------------------
Init ==
    /\ file \in Files
    /\ pc = "eal"
    /\ todo = {}
    /\ signalled = FALSE
    /\ g_director_config = NULL
    /\ started = {}
    /\ kni_ports = [p \in Ports |-> NULL]
    /\ released = {}
    /\ glb_lcore_contexts = [c \in Lcores |-> NULL]
    /\ worker_ids = [c \in Lcores |-> 0]
    /\ lcore = [c \in Slaves |-> "wait"]
    /\ ready = FALSE

\* exit(1), a fault, and main's return.
Ended == pc \in {"exited", "crashed", "returned"}

\* The loops go over cores and ports in the order of their numbers.
First(x) == x \in todo /\ \A y \in todo : x <= y

Exit == /\ pc' = "exited"
        /\ UNCHANGED <<file, todo, signalled, g_director_config, started, kni_ports,
                       released, glb_lcore_contexts, worker_ids, lcore, ready>>

Crash == /\ pc' = "crashed"
         /\ UNCHANGED <<file, todo, signalled, g_director_config, started, kni_ports,
                        released, glb_lcore_contexts, worker_ids, lcore, ready>>

\* signal_handler: the handlers are installed before anything else.
signal_handler ==
    /\ ~Ended
    /\ ~signalled
    /\ signalled' = TRUE
    /\ UNCHANGED <<file, pc, todo, g_director_config, started, kni_ports, released,
                   glb_lcore_contexts, worker_ids, lcore, ready>>

\* rte_eal_init, and get_options on the rest of the command line.
EalInit ==
    /\ pc = "eal"
    /\ pc' = "config"
    /\ UNCHANGED <<file, todo, signalled, g_director_config, started, kni_ports,
                   released, glb_lcore_contexts, worker_ids, lcore, ready>>

LoadConfig ==
    /\ pc = "config"
    /\ IF Accepted(file)
       THEN /\ g_director_config' = glb_director_config(file)
            /\ pc' = "devices"
            /\ UNCHANGED <<file, todo, signalled, started, kni_ports, released,
                           glb_lcore_contexts, worker_ids, lcore, ready>>
       ELSE Exit

\* The NIC must have ports, and as many queues as the file asks for.
CheckDevices ==
    /\ pc = "devices"
    /\ IF Ports # {} /\ g_director_config.nb_queues <= MaxQueues
       THEN /\ pc' = "ports"
            /\ todo' = Ports
            /\ UNCHANGED <<file, signalled, g_director_config, started, kni_ports,
                           released, glb_lcore_contexts, worker_ids, lcore, ready>>
       ELSE Exit

\* init_port: the queues are set up and the port is started.
init_port ==
    /\ pc = "ports"
    /\ \E p \in Ports :
           /\ First(p)
           /\ started' = started \cup {p}
           /\ todo' = todo \ {p}
    /\ UNCHANGED <<file, pc, signalled, g_director_config, kni_ports, released,
                   glb_lcore_contexts, worker_ids, lcore, ready>>

\* rte_kni_init, the pool of control messages and the first forwarding table.
LoadTable ==
    /\ pc = "ports"
    /\ todo = {}
    /\ pc' = "contexts"
    /\ todo' = Enabled
    /\ UNCHANGED <<file, signalled, g_director_config, started, kni_ports, released,
                   glb_lcore_contexts, worker_ids, lcore, ready>>

\* The steps above, and the making of a context, call what may fail: DPDK, the
\* allocator, ip(8), the loader of the forwarding table.  main then exits.
LibraryFails ==
    /\ pc \in {"eal", "config", "devices", "ports", "contexts"}
    /\ pc = "contexts" => todo # {}
    /\ Exit

----------------------------------------------------------------------------
(* The two passes over the cores.                                          *)

\* glb_kni_new makes the interface vglb_kni<p> of every port, for slaves with a
\* KNI workload: only one KNI can have the name.
MakesKni(c) == c # Master /\ "kni" \in g_director_config.lcore_configs[c].workloads
glb_kni_new(c) == IF MakesKni(c) THEN [p \in Ports |-> c] ELSE kni_ports
KniExists(c) == MakesKni(c) /\ \E p \in Ports : kni_ports[p] # NULL

\* The context of a core.  A slave that distributes has a distributor, named
\* here by its core.
Context(c) ==
    LET cfg == g_director_config.lcore_configs[c] IN
    [lcore_config   |-> cfg,
     dist           |-> IF c # Master /\ "dist" \in cfg.workloads THEN c ELSE NULL,
     dist_worker_id |-> NULL,
     director_stop  |-> FALSE]

PrepareContext ==
    /\ pc = "contexts"
    /\ \E c \in Enabled :
           /\ First(c)
           /\ IF KniExists(c) THEN Exit
              ELSE /\ kni_ports' = glb_kni_new(c)
                   /\ glb_lcore_contexts' = [glb_lcore_contexts EXCEPT ![c] = Context(c)]
                   /\ todo' = todo \ {c}
                   /\ UNCHANGED <<file, pc, signalled, g_director_config, started,
                                  released, worker_ids, lcore, ready>>

FirstPassDone ==
    /\ pc = "contexts"
    /\ todo = {}
    /\ pc' = "link"
    /\ todo' = Slaves
    /\ UNCHANGED <<file, signalled, g_director_config, started, kni_ports, released,
                   glb_lcore_contexts, worker_ids, lcore, ready>>

\* worker_ids counts the workers of each source.  A mutant: of all sources.
Counted_Together(src) == [d \in Lcores |-> worker_ids[d] + 1]
Counted(src) == [worker_ids EXCEPT ![src] = @ + 1]

\* A worker gets the distributor of its source and the next free number at it.
\* A source that is not enabled has no context.
LinkWorker ==
    /\ pc = "link"
    /\ \E c \in Slaves :
           /\ First(c)
           /\ LET cfg == glb_lcore_contexts[c].lcore_config
                  src == cfg.source_dist_core
              IN  IF "work" \notin cfg.workloads
                  THEN /\ todo' = todo \ {c}
                       /\ UNCHANGED <<file, pc, signalled, g_director_config, started,
                                      kni_ports, released, glb_lcore_contexts,
                                      worker_ids, lcore, ready>>
                  ELSE IF src \notin Enabled THEN Crash
                  ELSE /\ glb_lcore_contexts' = [glb_lcore_contexts EXCEPT
                              ![c].dist = glb_lcore_contexts[src].dist,
                              ![c].dist_worker_id = worker_ids[src]]
                       /\ worker_ids' = Counted(src)
                       /\ todo' = todo \ {c}
                       /\ UNCHANGED <<file, pc, signalled, g_director_config, started,
                                      kni_ports, released, lcore, ready>>

SecondPassDone ==
    /\ pc = "link"
    /\ todo = {}
    /\ pc' = "launch"
    /\ todo' = Slaves
    /\ UNCHANGED <<file, signalled, g_director_config, started, kni_ports, released,
                   glb_lcore_contexts, worker_ids, lcore, ready>>

Launch ==
    /\ pc = "launch"
    /\ \E c \in Slaves :
           /\ First(c)
           /\ lcore' = [lcore EXCEPT ![c] = "running"]
           /\ todo' = todo \ {c}
    /\ UNCHANGED <<file, pc, signalled, g_director_config, started, kni_ports, released,
                   glb_lcore_contexts, worker_ids, ready>>

\* The loop over the slaves is behind main.  A mutant: it is not.
AllLaunched_NotYet == pc = "launch"
AllLaunched == pc = "launch" /\ todo = {}

\* sd_notify, and on to main_loop_control.  A mutant: director_stop is reset
\* there.
NotifyReady_StopReset ==
    /\ AllLaunched
    /\ ready' = TRUE
    /\ pc' = "control"
    /\ signalled' = FALSE
    /\ UNCHANGED <<file, todo, g_director_config, started, kni_ports, released,
                   glb_lcore_contexts, worker_ids, lcore>>
NotifyReady ==
    /\ AllLaunched
    /\ ready' = TRUE
    /\ pc' = "control"
    /\ UNCHANGED <<file, todo, signalled, g_director_config, started, kni_ports,
                   released, glb_lcore_contexts, worker_ids, lcore>>

----------------------------------------------------------------------------
(* main_loop_control, and the end of main.                                 *)

\* A look at director_stop that finds it set.
SeeStop ==
    /\ pc = "control"
    /\ signalled
    /\ pc' = "notify"
    /\ todo' = Slaves
    /\ UNCHANGED <<file, signalled, g_director_config, started, kni_ports, released,
                   glb_lcore_contexts, worker_ids, lcore, ready>>

\* Otherwise the requests of the kernel are served.  Their callbacks change
\* nothing; without a KNI there is nothing to call.
glb_kni_handle_request ==
    /\ pc = "control"
    /\ ~signalled
    /\ g_director_config.kni_enabled
    /\ \E p \in Ports : kni_ports[p] = NULL
    /\ Crash

NotifyStop ==
    /\ pc = "notify"
    /\ \E c \in Slaves :
           /\ First(c)
           /\ glb_lcore_contexts' = [glb_lcore_contexts EXCEPT ![c].director_stop = TRUE]
           /\ todo' = todo \ {c}
    /\ UNCHANGED <<file, pc, signalled, g_director_config, started, kni_ports, released,
                   worker_ids, lcore, ready>>

LeaveControl ==
    /\ pc = "notify"
    /\ todo = {}
    /\ pc' = "join"
    /\ todo' = Slaves
    /\ UNCHANGED <<file, signalled, g_director_config, started, kni_ports, released,
                   glb_lcore_contexts, worker_ids, lcore, ready>>

\* rte_eal_wait_lcore waits until the core is not running.  A mutant: it does not.
Finished_OrNot(c) == c \in Slaves
Finished(c) == lcore[c] # "running"

rte_eal_wait_lcore ==
    /\ pc = "join"
    /\ \E c \in Slaves :
           /\ First(c)
           /\ Finished(c)
           /\ todo' = todo \ {c}
    /\ UNCHANGED <<file, pc, signalled, g_director_config, started, kni_ports, released,
                   glb_lcore_contexts, worker_ids, lcore, ready>>

AllJoined ==
    /\ pc = "join"
    /\ todo = {}
    /\ pc' = "release"
    /\ todo' = IF g_director_config.kni_enabled THEN Ports ELSE {}
    /\ UNCHANGED <<file, signalled, g_director_config, started, kni_ports, released,
                   glb_lcore_contexts, worker_ids, lcore, ready>>

glb_kni_release ==
    /\ pc = "release"
    /\ \E p \in Ports :
           /\ First(p)
           /\ IF kni_ports[p] = NULL THEN Crash
              ELSE /\ released' = released \cup {p}
                   /\ todo' = todo \ {p}
                   /\ UNCHANGED <<file, pc, signalled, g_director_config, started,
                                  kni_ports, glb_lcore_contexts, worker_ids, lcore, ready>>

Return ==
    /\ pc = "release"
    /\ todo = {}
    /\ pc' = "returned"
    /\ UNCHANGED <<file, todo, signalled, g_director_config, started, kni_ports,
                   released, glb_lcore_contexts, worker_ids, lcore, ready>>

----------------------------------------------------------------------------
(* The slave cores.                                                        *)

\* What main_loop_processor runs on core c.
Role(c) ==
    LET w == glb_lcore_contexts[c].lcore_config.workloads IN
    IF CORE_WORKLOAD_RX_DIST_TX \subseteq w THEN "processor_rx_dist_tx"
    ELSE IF "work" \in w THEN "processor_worker" ELSE "none"

\* A slave that runs touches what it was given: a distributor core the KNI of
\* every port, if it has that workload, and every core that processes packets
\* a distributor.
Faults(c) ==
    \/ /\ Role(c) # "none"
       /\ glb_lcore_contexts[c].dist = NULL
    \/ /\ Role(c) = "processor_rx_dist_tx"
       /\ "kni" \in glb_lcore_contexts[c].lcore_config.workloads
       /\ \E p \in Ports : kni_ports[p] = NULL \/ p \in released

SlaveFaults(c) == ~Ended /\ lcore[c] = "running" /\ Faults(c) /\ Crash

\* A slave returns once it sees its own director_stop; one without a role
\* returns at once.
SlaveReturns(c) ==
    /\ ~Ended
    /\ lcore[c] = "running"
    /\ Role(c) = "none" \/ glb_lcore_contexts[c].director_stop
    /\ lcore' = [lcore EXCEPT ![c] = "finished"]
    /\ UNCHANGED <<file, pc, todo, signalled, g_director_config, started, kni_ports,
                   released, glb_lcore_contexts, worker_ids, ready>>

Main ==
    \/ EalInit \/ LoadConfig \/ CheckDevices \/ init_port \/ LoadTable
    \/ PrepareContext \/ FirstPassDone \/ LinkWorker \/ SecondPassDone
    \/ Launch \/ NotifyReady \/ SeeStop \/ NotifyStop \/ LeaveControl
    \/ rte_eal_wait_lcore \/ AllJoined \/ glb_kni_release \/ Return

\* The process is over.
Over == Ended /\ UNCHANGED vars

Next ==
    \/ Main
    \/ LibraryFails
    \/ glb_kni_handle_request
    \/ signal_handler
    \/ \E c \in Slaves : SlaveFaults(c) \/ SlaveReturns(c)
    \/ Over

\* main is a thread: it goes on as long as it can.  Nothing is assumed of the
\* slaves, which wait inside the distributor library.
Spec == Init /\ [][Next]_vars /\ WF_vars(Main)

----------------------------------------------------------------------------
(* The configurations the documentation describes                          *)
(* (docs/setup/glb-director-configuration.md, lcores): enabled cores other *)
(* than the master, each in one of two modes, and every distributor with   *)
(* as many workers as it announces.                                        *)

Distributor(f, c) ==
    /\ c \in DOMAIN f.lcores
    /\ CORE_WORKLOAD_RX_DIST_TX \subseteq f.lcores[c].workloads
    /\ "work" \notin f.lcores[c].workloads

WorkersOf(f, d) ==
    {c \in DOMAIN f.lcores : f.lcores[c].workloads = {"work"} /\ f.lcores[c].work_source = d}

Documented(f) ==
    /\ DOMAIN f.lcores \subseteq Slaves
    /\ \A c \in DOMAIN f.lcores :
           \/ /\ Distributor(f, c)
              /\ Cardinality(WorkersOf(f, c)) = f.lcores[c].num_dist_workers
           \/ /\ f.lcores[c].workloads = {"work"}
              /\ Distributor(f, f.lcores[c].work_source)

----------------------------------------------------------------------------
TypeOK ==
    /\ file \in Files
    /\ pc \in {"eal", "config", "devices", "ports", "contexts", "link", "launch",
               "control", "notify", "join", "release", "exited", "crashed", "returned"}
    /\ todo \subseteq Lcores \cup Ports
    /\ signalled \in BOOLEAN /\ ready \in BOOLEAN
    /\ started \subseteq Ports /\ released \subseteq Ports
    /\ g_director_config \in {NULL, glb_director_config(file)}
    /\ kni_ports \in [Ports -> Slaves \cup {NULL}]
    /\ DOMAIN glb_lcore_contexts = Lcores
    /\ worker_ids \in [Lcores -> Nat]
    /\ lcore \in [Slaves -> {"wait", "running", "finished"}]

\* The second pass hands out the numbers of a distributor's workers: once the
\* cores are launched, the workers of one distributor have it as their work
\* source and hold each of its numbers, 0 to num_dist_workers - 1, exactly once,
\* so that no two workers share a slot of the distributor and no slot is left
\* without a worker (main.c 405-422).
WorkersIdentified ==
    Documented(file) /\ pc \in {"launch", "control", "notify", "join", "release"} =>
        \A d \in DOMAIN file.lcores : Distributor(file, d) =>
            LET W == WorkersOf(file, d)
                Id(c) == glb_lcore_contexts[c].dist_worker_id
            IN  /\ \A c \in W : glb_lcore_contexts[c].dist = glb_lcore_contexts[d].dist
                /\ \A b, c \in W : Id(b) = Id(c) => b = c
                /\ {Id(c) : c \in W} = 0 .. file.lcores[d].num_dist_workers - 1
                /\ glb_lcore_contexts[d].lcore_config.num_dist_workers
                       = file.lcores[d].num_dist_workers

\* Started from a documented file, the process never touches what is not there:
\* every worker finds the context and the distributor of its source, and the KNI
\* of every port exists from before the first core that uses it is launched
\* until after the last one has returned (main.c 315-455, glb_kni.c 197-267).
NoFault == Documented(file) => pc # "crashed"

\* "Now that all processing workers are running, we can notify systemd we're
\* ready" (main.c 431): with READY=1 sent, every port is started and, unless a
\* stop signal came, every core of a documented file runs its role, with the
\* KNI it may be asked for.
ReadyServes ==
    ready /\ ~Ended =>
        /\ started = Ports
        /\ Documented(file) /\ ~signalled =>
               \A c \in DOMAIN file.lcores :
                   /\ lcore[c] = "running" /\ Role(c) # "none"
                   /\ "kni" \in file.lcores[c].workloads =>
                          \A p \in Ports : kni_ports[p] # NULL /\ p \notin released

\* A stop signal is never lost, however early it arrives: the process ends, or
\* every slave core is told to stop; and once all of those have returned, main
\* ends too (glb_control_loop.c 303-313, main.c 440-455).
StopHonoured ==
    /\ signalled ~> \/ Ended
                    \/ \A c \in Slaves : glb_lcore_contexts[c] # NULL
                                         /\ glb_lcore_contexts[c].director_stop
    /\ (pc = "join" /\ \A c \in Slaves : lcore[c] # "running") ~> Ended

============================================================================
