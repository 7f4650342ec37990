------------------------ MODULE DirectorStart_proofs ------------------------
(***************************************************************************)
(* The life of the director process, for every set of cores and ports and  *)
(* every configuration file: types, and, for the files the documentation   *)
(* describes, that workers hold the numbers of their distributor once      *)
(* each, that nothing missing is touched, and that READY=1 is true.        *)
(***************************************************************************)
EXTENDS DirectorStart, FiniteSetTheorems, TLAPS

\* Where main is once the contexts are made, and once the cores are launched.
Serving == {"control", "notify", "join", "release"}
Later == {"link", "launch"} \cup Serving

Cfg(c) == lcore_config(file, c)

\* Each loop has only its own cores or ports left, and what it did for the
\* others stays done.
Phases ==
    /\ ~Ended /\ pc \notin {"eal", "config"} =>
           g_director_config = glb_director_config(file)
    /\ pc = "ports" => todo \subseteq Ports /\ started = Ports \ todo
    /\ pc \in {"eal", "config", "devices"} => started = {}
    /\ pc = "contexts" => todo \subseteq Enabled
    /\ pc \in {"link", "launch", "notify", "join"} => todo \subseteq Slaves
    /\ pc = "release" => /\ todo \subseteq Ports
                         /\ todo # {} => g_director_config.kni_enabled
    /\ pc \in {"contexts"} \cup Later => started = Ports
    /\ ~Ended /\ pc # "release" => released = {}
    /\ pc \in {"notify", "join", "release"} => signalled
    /\ ready /\ ~Ended => pc \in Serving

\* The cores whose context is made, and those that are linked.
Prepared(c) == c \in Enabled /\ (pc \in Later \/ (pc = "contexts" /\ c \notin todo))
Linked(c) == c \in Slaves /\ pc \in Later /\ (pc = "link" => c \notin todo)

ContextOf(c) == [lcore_config   : {Cfg(c)},
                 dist           : Slaves \cup {NULL},
                 dist_worker_id : Nat \cup {NULL},
                 director_stop  : BOOLEAN]

\* A context that is made holds the core's section of the file, and the core's
\* own distributor until it is linked to another; nobody is told to stop
\* without a signal.
Contexts ==
    \A c \in Enabled : Prepared(c) =>
        /\ glb_lcore_contexts[c] \in ContextOf(c)
        /\ glb_lcore_contexts[c].director_stop => signalled
        /\ c \in Slaves /\ "dist" \in Cfg(c).workloads /\ "work" \notin Cfg(c).workloads =>
               glb_lcore_contexts[c].dist = c

\* The workers of d that are linked hold the numbers below worker_ids[d].
LinkedOf(d) == {c \in WorkersOf(file, d) : Linked(c)}
Id(c) == glb_lcore_contexts[c].dist_worker_id

Links ==
    \A d \in Slaves : Distributor(file, d) =>
        /\ worker_ids[d] = Cardinality(LinkedOf(d))
        /\ \A c \in LinkedOf(d) : glb_lcore_contexts[c].dist = d
        /\ \A b, c \in LinkedOf(d) : Id(b) = Id(c) => b = c
        /\ {Id(c) : c \in LinkedOf(d)} = 0 .. worker_ids[d] - 1

\* A slave with a KNI workload that is prepared left every port with a KNI.
KniMade ==
    \A c \in Slaves : Prepared(c) /\ "kni" \in Cfg(c).workloads =>
        \A p \in Ports : kni_ports[p] # NULL

\* A slave runs from its launch on, and is not running any more when main has
\* waited for it.  One with a role has returned only if it was told to stop.
Runs ==
    /\ pc \notin {"launch"} \cup Serving /\ ~Ended => \A c \in Slaves : lcore[c] = "wait"
    /\ pc = "launch" => \A c \in Slaves : lcore[c] = "wait" <=> c \in todo
    /\ pc \in Serving => \A c \in Slaves : lcore[c] # "wait"
    /\ pc = "join" => \A c \in Slaves \ todo : lcore[c] # "running"
    /\ pc = "release" => \A c \in Slaves : lcore[c] # "running"
    /\ ~Ended => \A c \in Slaves : lcore[c] = "finished" =>
           Role(c) = "none" \/ glb_lcore_contexts[c].director_stop

IInv == /\ TypeOK /\ Phases /\ Contexts /\ Runs
        /\ Documented(file) => (~Ended => Links) /\ KniMade /\ pc # "crashed"

----------------------------------------------------------------------------
(* Facts about the constants and the file.                                 *)

LEMMA Cores == /\ Slaves \subseteq Enabled /\ Enabled \subseteq Lcores
               /\ Slaves \subseteq Nat /\ Enabled \subseteq Nat /\ Lcores \subseteq Nat
               /\ Master \in Enabled /\ Master \notin Slaves
               /\ NULL \notin Slaves
               /\ IsFiniteSet(Slaves)
  <1>1. Lcores = 0 .. RTE_MAX_LCORE - 1 /\ Lcores \subseteq Nat
    BY StartAssumption DEF Lcores
  <1>2. IsFiniteSet(Lcores)
    BY <1>1, StartAssumption, FS_Interval
  <1>3. Slaves \subseteq Enabled /\ Enabled \subseteq Lcores /\ Master \in Enabled
    BY StartAssumption DEF Slaves
  <1>4. IsFiniteSet(Slaves)
    BY <1>2, <1>3, FS_Subset
  <1> QED BY <1>1, <1>3, <1>4, StartAssumption, ZenonT(30) DEF Slaves

\* A section as lcore_config copies it.
LEMMA SectionOf ==
  ASSUME NEW f, NEW c
  PROVE  /\ c \notin DOMAIN f.lcores => lcore_config(f, c).workloads = {}
         /\ c \in DOMAIN f.lcores => lcore_config(f, c).workloads = f.lcores[c].workloads
         /\ c \in DOMAIN f.lcores /\ "work" \in f.lcores[c].workloads =>
                lcore_config(f, c).source_dist_core = f.lcores[c].work_source
         /\ c \in DOMAIN f.lcores /\ "dist" \in f.lcores[c].workloads =>
                lcore_config(f, c).num_dist_workers = f.lcores[c].num_dist_workers
  BY DEF lcore_config

\* In a documented file, a core that works has a distributor as its source, and
\* every other core that is listed is a distributor.
LEMMA DocumentedCores ==
  ASSUME NEW f, Documented(f), NEW c, lcore_config(f, c).workloads # {}
  PROVE  /\ c \in Slaves /\ c \in DOMAIN f.lcores
         /\ \/ /\ Distributor(f, c)
               /\ "work" \notin lcore_config(f, c).workloads
               /\ CORE_WORKLOAD_RX_DIST_TX \subseteq lcore_config(f, c).workloads
            \/ /\ lcore_config(f, c).workloads = {"work"}
               /\ Distributor(f, lcore_config(f, c).source_dist_core)
               /\ lcore_config(f, c).source_dist_core \in Slaves
               /\ c \in WorkersOf(f, lcore_config(f, c).source_dist_core)
  <1>1. c \in DOMAIN f.lcores
    BY SectionOf
  <1>2. c \in Slaves
    BY <1>1 DEF Documented
  <1>3. CASE Distributor(f, c)
    BY <1>1, <1>2, <1>3, SectionOf DEF Distributor
  <1>4. CASE f.lcores[c].workloads = {"work"} /\ Distributor(f, f.lcores[c].work_source)
    <2>1. lcore_config(f, c).workloads = {"work"}
          /\ lcore_config(f, c).source_dist_core = f.lcores[c].work_source
      BY <1>1, <1>4, SectionOf
    <2>2. f.lcores[c].work_source \in Slaves
      BY <1>4 DEF Distributor, Documented
    <2>3. c \in WorkersOf(f, f.lcores[c].work_source)
      BY <1>1, <1>4 DEF WorkersOf
    <2> QED BY <1>1, <1>2, <1>4, <2>1, <2>2, <2>3
  <1> QED BY <1>1, <1>3, <1>4 DEF Documented

\* A worker of d works, for d.
LEMMA WorkerSections ==
  ASSUME NEW f, NEW d, NEW c \in WorkersOf(f, d)
  PROVE  /\ lcore_config(f, c).workloads = {"work"}
         /\ lcore_config(f, c).source_dist_core = d
  BY SectionOf DEF WorkersOf

LEMMA WorkersFinite ==
  ASSUME NEW f, Documented(f), NEW d
  PROVE  WorkersOf(f, d) \subseteq Slaves /\ IsFiniteSet(WorkersOf(f, d))
  <1>1. WorkersOf(f, d) \subseteq Slaves
    BY DEF WorkersOf, Documented
  <1> QED BY <1>1, Cores, FS_Subset

LEMMA Configs ==
  ASSUME NEW f, NEW c \in Lcores
  PROVE  glb_director_config(f).lcore_configs[c] = lcore_config(f, c)
  BY DEF glb_director_config

----------------------------------------------------------------------------
(* Types and phases.                                                       *)

LEMMA StartInit == Init => IInv
  <1> SUFFICES ASSUME Init PROVE IInv
    OBVIOUS
  <1>0. ~Ended /\ pc = "eal" /\ pc \notin Later
    BY DEF Init, Ended, Later, Serving
  <1>1. TypeOK
    BY ZenonT(30) DEF Init, TypeOK
  <1>2. Phases
    BY <1>0 DEF Init, Phases, Serving, Later
  <1>3. \A c : ~Prepared(c) /\ ~Linked(c)
    BY <1>0 DEF Prepared, Linked
  <1>4. Contexts /\ KniMade
    BY <1>3 DEF Contexts, KniMade
  <1>5. Runs
    BY <1>0 DEF Init, Runs, Serving
  <1>6. Links
    <2> SUFFICES ASSUME NEW d \in Slaves
                 PROVE  /\ worker_ids[d] = Cardinality(LinkedOf(d))
                        /\ \A c \in LinkedOf(d) : glb_lcore_contexts[c].dist = d
                        /\ \A b, c \in LinkedOf(d) : Id(b) = Id(c) => b = c
                        /\ {Id(c) : c \in LinkedOf(d)} = 0 .. worker_ids[d] - 1
      BY DEF Links
    <2>1. LinkedOf(d) = {}
      BY <1>3 DEF LinkedOf
    <2>2. worker_ids[d] = 0
      BY Cores DEF Init
    <2>3. Cardinality({}) = 0
      BY FS_EmptySet
    <2> QED BY <2>1, <2>2, <2>3
  <1> QED BY <1>0, <1>1, <1>2, <1>4, <1>5, <1>6 DEF IInv

\* What a step that ends the process leaves alone.
LEMMA EndsType ==
  ASSUME TypeOK, Exit \/ Crash
  PROVE  TypeOK'
  BY DEF TypeOK, Exit, Crash

LEMMA TypeStep ==
  ASSUME TypeOK, [Next]_vars
  PROVE  TypeOK'
  <1>1. CASE EalInit
    BY <1>1 DEF TypeOK, EalInit
  <1>2. CASE LoadConfig
    <2>1. CASE Accepted(file)
      BY <1>2, <2>1 DEF TypeOK, LoadConfig
    <2> QED BY <1>2, <2>1, EndsType DEF LoadConfig
  <1>3. CASE CheckDevices
    <2>1. CASE Ports # {} /\ g_director_config.nb_queues <= MaxQueues
      BY <1>3, <2>1 DEF TypeOK, CheckDevices
    <2> QED BY <1>3, <2>1, EndsType DEF CheckDevices
  <1>4. CASE init_port
    BY <1>4 DEF TypeOK, init_port
  <1>5. CASE LoadTable
    BY <1>5, Cores DEF TypeOK, LoadTable
  <1>6. CASE PrepareContext
    <2>1. PICK c \in Enabled :
              \/ Exit
              \/ /\ kni_ports' = glb_kni_new(c)
                 /\ glb_lcore_contexts' = [glb_lcore_contexts EXCEPT ![c] = Context(c)]
                 /\ todo' = todo \ {c}
                 /\ UNCHANGED <<file, pc, signalled, g_director_config, started,
                                released, worker_ids, lcore, ready>>
      BY <1>6 DEF PrepareContext
    <2>2. CASE Exit
      BY <2>2, EndsType
    <2>3. CASE ~Exit
      <3>1. kni_ports' \in [Ports -> Slaves \cup {NULL}]
        BY <2>1, <2>3 DEF TypeOK, glb_kni_new, MakesKni, Slaves
      <3> QED BY <2>1, <2>3, <3>1 DEF TypeOK
    <2> QED BY <2>2, <2>3
  <1>7. CASE FirstPassDone
    BY <1>7, Cores DEF TypeOK, FirstPassDone
  <1>8. CASE LinkWorker
    <2>1. PICK c \in Slaves :
              \/ Crash
              \/ /\ UNCHANGED <<glb_lcore_contexts, worker_ids>>
                 /\ todo' = todo \ {c}
                 /\ UNCHANGED <<file, pc, signalled, g_director_config, started,
                                kni_ports, released, lcore, ready>>
              \/ /\ glb_lcore_contexts[c].lcore_config.source_dist_core \in Enabled
                 /\ DOMAIN glb_lcore_contexts' = DOMAIN glb_lcore_contexts
                 /\ worker_ids' = Counted(glb_lcore_contexts[c].lcore_config.source_dist_core)
                 /\ todo' = todo \ {c}
                 /\ UNCHANGED <<file, pc, signalled, g_director_config, started,
                                kni_ports, released, lcore, ready>>
      BY <1>8 DEF LinkWorker
    <2>2. CASE Crash
      BY <2>2, EndsType
    <2>3. CASE ~Crash
      <3>1. worker_ids' \in [Lcores -> Nat]
        BY <2>1, <2>3, Cores DEF TypeOK, Counted
      <3> QED BY <2>1, <2>3, <3>1 DEF TypeOK
    <2> QED BY <2>2, <2>3
  <1>9. CASE SecondPassDone
    BY <1>9, Cores DEF TypeOK, SecondPassDone
  <1>10. CASE Launch
    BY <1>10 DEF TypeOK, Launch
  <1>11. CASE NotifyReady
    BY <1>11 DEF TypeOK, NotifyReady
  <1>12. CASE SeeStop
    BY <1>12, Cores DEF TypeOK, SeeStop
  <1>13. CASE NotifyStop
    BY <1>13 DEF TypeOK, NotifyStop
  <1>14. CASE LeaveControl
    BY <1>14, Cores DEF TypeOK, LeaveControl
  <1>15. CASE rte_eal_wait_lcore
    BY <1>15 DEF TypeOK, rte_eal_wait_lcore
  <1>16. CASE AllJoined
    BY <1>16 DEF TypeOK, AllJoined
  <1>17. CASE glb_kni_release
    <2>1. CASE Crash
      BY <2>1, EndsType
    <2> QED BY <1>17, <2>1 DEF TypeOK, glb_kni_release
  <1>18. CASE Return
    BY <1>18 DEF TypeOK, Return
  <1>19. CASE LibraryFails \/ glb_kni_handle_request \/ \E c \in Slaves : SlaveFaults(c)
    BY <1>19, EndsType DEF LibraryFails, glb_kni_handle_request, SlaveFaults
  <1>20. CASE signal_handler
    BY <1>20 DEF TypeOK, signal_handler
  <1>21. CASE \E c \in Slaves : SlaveReturns(c)
    BY <1>21 DEF TypeOK, SlaveReturns
  <1>22. CASE UNCHANGED vars
    BY <1>22 DEF TypeOK, vars
  <1> QED BY <1>1, <1>2, <1>3, <1>4, <1>5, <1>6, <1>7, <1>8, <1>9, <1>10, <1>11, <1>12,
             <1>13, <1>14, <1>15, <1>16, <1>17, <1>18, <1>19, <1>20, <1>21, <1>22
          DEF Next, Main, Over

LEMMA EndsPhases ==
  ASSUME Exit \/ Crash
  PROVE  Phases' /\ Ended'
  BY ZenonT(30) DEF Phases, Exit, Crash, Ended, Later, Serving

LEMMA PhasesStep ==
  ASSUME TypeOK, Phases, [Next]_vars
  PROVE  Phases'
  <1> USE DEF Phases, Ended, Later, Serving
  <1>1. CASE EalInit
    BY <1>1 DEF EalInit
  <1>2. CASE LoadConfig
    <2>1. CASE Accepted(file)
      BY <1>2, <2>1 DEF LoadConfig
    <2> QED BY <1>2, <2>1, EndsPhases DEF LoadConfig
  <1>3. CASE CheckDevices
    <2>1. CASE Ports # {} /\ g_director_config.nb_queues <= MaxQueues
      BY <1>3, <2>1 DEF CheckDevices
    <2> QED BY <1>3, <2>1, EndsPhases DEF CheckDevices
  <1>4. CASE init_port
    BY <1>4 DEF init_port, First
  <1>5. CASE LoadTable
    BY <1>5 DEF LoadTable
  <1>6. CASE PrepareContext
    <2>1. PICK c \in Enabled :
              \/ Exit
              \/ /\ pc = "contexts"
                 /\ todo' = todo \ {c}
                 /\ UNCHANGED <<file, pc, signalled, g_director_config, started,
                                released, ready>>
      BY <1>6 DEF PrepareContext
    <2>2. CASE Exit
      BY <2>2, EndsPhases
    <2> QED BY <2>1, <2>2
  <1>7. CASE FirstPassDone
    BY <1>7 DEF FirstPassDone
  <1>8. CASE LinkWorker
    <2>1. PICK c \in Slaves :
              \/ Crash
              \/ /\ pc = "link"
                 /\ todo' = todo \ {c}
                 /\ UNCHANGED <<file, pc, signalled, g_director_config, started,
                                released, ready>>
      BY <1>8 DEF LinkWorker
    <2>2. CASE Crash
      BY <2>2, EndsPhases
    <2> QED BY <2>1, <2>2
  <1>9. CASE SecondPassDone
    BY <1>9 DEF SecondPassDone
  <1>10. CASE Launch
    BY <1>10 DEF Launch
  <1>11. CASE NotifyReady
    BY <1>11 DEF NotifyReady, AllLaunched
  <1>12. CASE SeeStop
    BY <1>12 DEF SeeStop
  <1>13. CASE NotifyStop
    BY <1>13 DEF NotifyStop
  <1>14. CASE LeaveControl
    BY <1>14 DEF LeaveControl
  <1>15. CASE rte_eal_wait_lcore
    BY <1>15 DEF rte_eal_wait_lcore
  <1>16. CASE AllJoined
    BY <1>16 DEF AllJoined
  <1>17. CASE glb_kni_release
    <2>1. CASE Crash
      BY <2>1, EndsPhases
    <2> QED BY <1>17, <2>1, ZenonT(30) DEF glb_kni_release
  <1>18. CASE Return
    BY <1>18 DEF Return
  <1>19. CASE LibraryFails \/ glb_kni_handle_request \/ \E c \in Slaves : SlaveFaults(c)
    BY <1>19, EndsPhases DEF LibraryFails, glb_kni_handle_request, SlaveFaults
  <1>20. CASE signal_handler
    BY <1>20 DEF signal_handler
  <1>21. CASE \E c \in Slaves : SlaveReturns(c)
    BY <1>21 DEF SlaveReturns
  <1>22. CASE UNCHANGED vars
    BY <1>22 DEF vars
  <1> QED BY <1>1, <1>2, <1>3, <1>4, <1>5, <1>6, <1>7, <1>8, <1>9, <1>10, <1>11, <1>12,
             <1>13, <1>14, <1>15, <1>16, <1>17, <1>18, <1>19, <1>20, <1>21, <1>22, ZenonT(30)
          DEF Next, Main, Over

----------------------------------------------------------------------------
(* The contexts.  Most steps leave them alone, and the cores that have     *)
(* theirs.                                                                 *)

\* A step that leaves the contexts alone, and prepares and links nobody.
Quiet == /\ UNCHANGED <<file, glb_lcore_contexts, worker_ids, kni_ports>>
         /\ signalled => signalled'
         /\ \A c : Prepared(c)' => Prepared(c)
         /\ \A c : ~Ended' => (Linked(c)' <=> Linked(c))

\* Every step is quiet, or ends the process, or makes a context, links a worker
\* or tells a core to stop.
LEMMA Steps ==
  ASSUME TypeOK, Phases, [Next]_vars
  PROVE  \/ Quiet
         \/ (Exit \/ Crash)
         \/ PrepareContext \/ LinkWorker \/ NotifyStop
  <1> USE DEF Quiet, Prepared, Linked, Later, Serving, Ended
  <1>1. CASE EalInit
    BY <1>1 DEF EalInit
  <1>2. CASE LoadConfig
    BY <1>2 DEF LoadConfig
  <1>3. CASE CheckDevices
    BY <1>3 DEF CheckDevices
  <1>4. CASE init_port
    BY <1>4 DEF init_port
  <1>5. CASE LoadTable
    BY <1>5 DEF LoadTable
  <1>6. CASE FirstPassDone
    BY <1>6 DEF FirstPassDone
  <1>7. CASE SecondPassDone
    BY <1>7 DEF SecondPassDone, Phases
  <1>8. CASE Launch
    BY <1>8 DEF Launch
  <1>9. CASE NotifyReady
    BY <1>9 DEF NotifyReady, AllLaunched
  <1>10. CASE SeeStop
    BY <1>10 DEF SeeStop
  <1>11. CASE LeaveControl
    BY <1>11 DEF LeaveControl
  <1>12. CASE rte_eal_wait_lcore
    BY <1>12 DEF rte_eal_wait_lcore
  <1>13. CASE AllJoined
    BY <1>13 DEF AllJoined
  <1>14. CASE glb_kni_release
    <2>1. CASE Crash
      BY <2>1
    <2> QED BY <1>14, <2>1 DEF glb_kni_release
  <1>15. CASE Return
    BY <1>15 DEF Return
  <1>16. CASE LibraryFails \/ glb_kni_handle_request \/ \E c \in Slaves : SlaveFaults(c)
    BY <1>16 DEF LibraryFails, glb_kni_handle_request, SlaveFaults
  <1>17. CASE signal_handler
    BY <1>17 DEF signal_handler
  <1>18. CASE \E c \in Slaves : SlaveReturns(c)
    BY <1>18 DEF SlaveReturns
  <1>19. CASE UNCHANGED vars
    BY <1>19 DEF vars
  <1> QED BY <1>1, <1>2, <1>3, <1>4, <1>5, <1>6, <1>7, <1>8, <1>9, <1>10, <1>11, <1>12,
             <1>13, <1>14, <1>15, <1>16, <1>17, <1>18, <1>19, ZenonT(30)
          DEF Next, Main, Over

\* The three steps that change the contexts, when they do not end the process.
Prepares(c) ==
    /\ pc = "contexts" /\ c \in Enabled /\ c \in todo
    /\ ~KniExists(c)
    /\ kni_ports' = glb_kni_new(c)
    /\ glb_lcore_contexts' = [glb_lcore_contexts EXCEPT ![c] = Context(c)]
    /\ todo' = todo \ {c}
    /\ UNCHANGED <<file, pc, signalled, worker_ids, lcore>>

Passes(c) ==
    /\ pc = "link" /\ c \in Slaves /\ c \in todo
    /\ "work" \notin glb_lcore_contexts[c].lcore_config.workloads
    /\ todo' = todo \ {c}
    /\ UNCHANGED <<file, pc, signalled, glb_lcore_contexts, worker_ids, kni_ports, lcore>>

LinksTo(c, src) ==
    /\ pc = "link" /\ c \in Slaves /\ c \in todo
    /\ "work" \in glb_lcore_contexts[c].lcore_config.workloads
    /\ src = glb_lcore_contexts[c].lcore_config.source_dist_core
    /\ src \in Enabled
    /\ glb_lcore_contexts' = [glb_lcore_contexts EXCEPT
                                  ![c].dist = glb_lcore_contexts[src].dist,
                                  ![c].dist_worker_id = worker_ids[src]]
    /\ worker_ids' = [worker_ids EXCEPT ![src] = @ + 1]
    /\ todo' = todo \ {c}
    /\ UNCHANGED <<file, pc, signalled, kni_ports, lcore>>

Tells(c) ==
    /\ pc = "notify" /\ c \in Slaves
    /\ glb_lcore_contexts' = [glb_lcore_contexts EXCEPT ![c].director_stop = TRUE]
    /\ todo' = todo \ {c}
    /\ UNCHANGED <<file, pc, signalled, worker_ids, kni_ports, lcore>>

LEMMA ContextSteps ==
  ASSUME TypeOK, Phases, [Next]_vars
  PROVE  \/ Quiet
         \/ (Exit \/ Crash)
         \/ \E c : Prepares(c) \/ Passes(c) \/ Tells(c)
         \/ \E c : \E src : LinksTo(c, src)
  <1>1. CASE PrepareContext
    BY <1>1 DEF PrepareContext, Prepares, First
  <1>2. CASE LinkWorker
    <2>1. PICK c \in Slaves :
              /\ pc = "link"
              /\ First(c)
              /\ \/ Crash
                 \/ /\ "work" \notin glb_lcore_contexts[c].lcore_config.workloads
                    /\ todo' = todo \ {c}
                    /\ UNCHANGED <<file, pc, signalled, glb_lcore_contexts, worker_ids,
                                   kni_ports, lcore>>
                 \/ /\ "work" \in glb_lcore_contexts[c].lcore_config.workloads
                    /\ \E src : /\ src = glb_lcore_contexts[c].lcore_config.source_dist_core
                                /\ src \in Enabled
                                /\ glb_lcore_contexts' = [glb_lcore_contexts EXCEPT
                                      ![c].dist = glb_lcore_contexts[src].dist,
                                      ![c].dist_worker_id = worker_ids[src]]
                                /\ worker_ids' = [worker_ids EXCEPT ![src] = @ + 1]
                    /\ todo' = todo \ {c}
                    /\ UNCHANGED <<file, pc, signalled, kni_ports, lcore>>
      BY <1>2, ZenonT(30) DEF LinkWorker, Counted
    <2> QED BY <2>1, ZenonT(30) DEF Passes, LinksTo, First
  <1>3. CASE NotifyStop
    BY <1>3, ZenonT(30) DEF NotifyStop, Tells
  <1> QED BY <1>1, <1>2, <1>3, Steps

LEMMA ContextsStep ==
  ASSUME TypeOK, Phases, Contexts, [Next]_vars
  PROVE  Contexts'
  <1>1. CASE Quiet
    BY <1>1 DEF Quiet, Contexts, ContextOf, Cfg
  <1>2. CASE Exit \/ Crash
    <2>1. Ended'
      BY <1>2, EndsPhases
    <2>2. \A c : ~Prepared(c)'
      BY <2>1 DEF Ended, Prepared, Later, Serving
    <2> QED BY <2>2 DEF Contexts
  <1>3. ASSUME NEW c, Prepares(c) PROVE Contexts'
    <2>1. /\ c \in Enabled /\ c \in Lcores
          /\ g_director_config.lcore_configs[c] = Cfg(c)
      BY <1>3, Cores, Configs DEF Prepares, Phases, Ended, Cfg
    <2>2. Context(c) = [lcore_config   |-> Cfg(c),
                        dist           |-> IF c # Master /\ "dist" \in Cfg(c).workloads
                                           THEN c ELSE NULL,
                        dist_worker_id |-> NULL,
                        director_stop  |-> FALSE]
      BY <2>1 DEF Context
    <2>3. glb_lcore_contexts'[c] = Context(c)
      BY <1>3, <2>1 DEF Prepares, TypeOK
    <2>4. \A b \in Enabled : b # c => /\ Prepared(b)' <=> Prepared(b)
                                       /\ glb_lcore_contexts'[b] = glb_lcore_contexts[b]
      BY <1>3 DEF Prepares, Prepared, TypeOK
    <2>5. Context(c) \in ContextOf(c)
      BY <2>1, <2>2 DEF ContextOf, Slaves
    <2>6. \A b : Cfg(b)' = Cfg(b) /\ ContextOf(b)' = ContextOf(b)
      BY <1>3 DEF Prepares, ContextOf, Cfg
    <2>7. signalled' = signalled
      BY <1>3 DEF Prepares
    <2>8. /\ ~Context(c).director_stop
          /\ c \in Slaves /\ "dist" \in Cfg(c).workloads => Context(c).dist = c
      BY <2>2 DEF Slaves
    <2> QED BY <2>3, <2>4, <2>5, <2>6, <2>7, <2>8 DEF Contexts
  <1>4. ASSUME NEW c, Passes(c) PROVE Contexts'
    BY <1>4 DEF Passes, Contexts, ContextOf, Cfg, Prepared, Later
  <1>5. ASSUME NEW c, NEW src, LinksTo(c, src) PROVE Contexts'
    <2>1. \A b \in Enabled : Prepared(b) /\ Prepared(b)'
      BY <1>5 DEF LinksTo, Prepared, Later
    <2>2. c \in Enabled /\ c \in Lcores /\ src \in Enabled
      BY <1>5, Cores DEF LinksTo
    <2>3. glb_lcore_contexts[c] \in ContextOf(c) /\ glb_lcore_contexts[src] \in ContextOf(src)
      BY <2>1, <2>2 DEF Contexts
    <2>4. glb_lcore_contexts[src].dist \in Slaves \cup {NULL} /\ worker_ids[src] \in Nat
      BY <2>2, <2>3, Cores DEF ContextOf, TypeOK
    <2>5. /\ glb_lcore_contexts'[c] \in ContextOf(c)
          /\ glb_lcore_contexts'[c].director_stop = glb_lcore_contexts[c].director_stop
      BY <1>5, <2>2, <2>3, <2>4, ZenonT(30) DEF LinksTo, ContextOf, TypeOK
    <2>6. "work" \in Cfg(c).workloads
      BY <1>5, <2>3 DEF LinksTo, ContextOf
    <2>7. \A b \in Enabled : b # c => glb_lcore_contexts'[b] = glb_lcore_contexts[b]
      BY <1>5, Cores DEF LinksTo, TypeOK
    <2>8. ContextOf(c)' = ContextOf(c) /\ \A b : Cfg(b)' = Cfg(b) /\ ContextOf(b)' = ContextOf(b)
      BY <1>5 DEF LinksTo, ContextOf, Cfg
    <2>9. signalled' = signalled
      BY <1>5 DEF LinksTo
    <2> QED BY <2>1, <2>2, <2>5, <2>6, <2>7, <2>8, <2>9 DEF Contexts
  <1>6. ASSUME NEW c, Tells(c) PROVE Contexts'
    <2>1. \A b \in Enabled : Prepared(b) /\ Prepared(b)'
      BY <1>6 DEF Tells, Prepared, Later, Serving
    <2>2. c \in Enabled /\ c \in Lcores
      BY <1>6, Cores DEF Tells
    <2>3. glb_lcore_contexts[c] \in ContextOf(c)
      BY <2>1, <2>2 DEF Contexts
    <2>4. /\ glb_lcore_contexts'[c] \in ContextOf(c)
          /\ glb_lcore_contexts'[c].dist = glb_lcore_contexts[c].dist
      BY <1>6, <2>2, <2>3, ZenonT(30) DEF Tells, ContextOf, TypeOK
    <2>5. \A b \in Enabled : b # c => glb_lcore_contexts'[b] = glb_lcore_contexts[b]
      BY <1>6 DEF Tells, TypeOK
    <2>6. \A b : Cfg(b)' = Cfg(b) /\ ContextOf(b)' = ContextOf(b)
      BY <1>6 DEF Tells, ContextOf, Cfg
    <2>7. signalled /\ signalled'
      BY <1>6 DEF Tells, Phases
    <2> QED BY <2>1, <2>2, <2>4, <2>5, <2>6, <2>7 DEF Contexts
  <1> QED BY <1>1, <1>2, <1>3, <1>4, <1>5, <1>6, ContextSteps

----------------------------------------------------------------------------
(* The links of a documented file.                                         *)

LEMMA EndedStays ==
  ASSUME [Next]_vars, Ended
  PROVE  Ended'
  <1>1. CASE UNCHANGED vars
    BY <1>1 DEF vars, Ended
  <1>2. CASE ~UNCHANGED vars
    <2>1. ~Main
      BY DEF Ended, Main, EalInit, LoadConfig, CheckDevices, init_port, LoadTable,
             PrepareContext, FirstPassDone, LinkWorker, SecondPassDone, Launch, NotifyReady,
             AllLaunched, SeeStop, NotifyStop, LeaveControl, rte_eal_wait_lcore, AllJoined,
             glb_kni_release, Return
    <2>2. ~LibraryFails /\ ~glb_kni_handle_request /\ ~signal_handler
      BY DEF Ended, LibraryFails, glb_kni_handle_request, signal_handler
    <2>3. \A c \in Slaves : ~SlaveFaults(c) /\ ~SlaveReturns(c)
      BY DEF SlaveFaults, SlaveReturns
    <2> QED BY <1>2, <2>1, <2>2, <2>3 DEF Next, Over
  <1> QED BY <1>1, <1>2

\* What Links says of one distributor, and that it depends only on the linked
\* workers, their contexts and the distributor's counter.
LinksOf(d) ==
    /\ worker_ids[d] = Cardinality(LinkedOf(d))
    /\ \A c \in LinkedOf(d) : glb_lcore_contexts[c].dist = d
    /\ \A b, c \in LinkedOf(d) : Id(b) = Id(c) => b = c
    /\ {Id(c) : c \in LinkedOf(d)} = 0 .. worker_ids[d] - 1

LEMMA LinksFrame ==
  ASSUME NEW d, LinksOf(d),
         LinkedOf(d)' = LinkedOf(d), worker_ids'[d] = worker_ids[d],
         \A c \in LinkedOf(d) : /\ glb_lcore_contexts'[c].dist = glb_lcore_contexts[c].dist
                                /\ Id(c)' = Id(c)
  PROVE  LinksOf(d)'
  <1>1. {Id(c)' : c \in LinkedOf(d)} = {Id(c) : c \in LinkedOf(d)}
    OBVIOUS
  <1>2. {Id(c) : c \in LinkedOf(d)}' = {Id(c)' : c \in LinkedOf(d)}
    OBVIOUS
  <1> QED BY <1>1, <1>2 DEF LinksOf

\* The next worker of d takes the next number.
LEMMA LinksGrow ==
  ASSUME NEW d, NEW w, LinksOf(d), worker_ids[d] \in Nat,
         IsFiniteSet(LinkedOf(d)), w \notin LinkedOf(d),
         LinkedOf(d)' = LinkedOf(d) \cup {w},
         worker_ids'[d] = worker_ids[d] + 1,
         glb_lcore_contexts'[w].dist = d, Id(w)' = worker_ids[d],
         \A c \in LinkedOf(d) : /\ glb_lcore_contexts'[c].dist = glb_lcore_contexts[c].dist
                                /\ Id(c)' = Id(c)
  PROVE  LinksOf(d)'
  <1> DEFINE L == LinkedOf(d)
             n == worker_ids[d]
  <1>1. Cardinality(L \cup {w}) = Cardinality(L) + 1
    BY FS_AddElement, ZenonT(30)
  <1>2. worker_ids'[d] = Cardinality(LinkedOf(d)')
    BY <1>1 DEF LinksOf
  <1>3. \A c \in L : Id(c) \in 0 .. n - 1
    BY DEF LinksOf
  <1>4. \A c \in L : Id(c)' = Id(c) /\ Id(c)' # n
    <2> SUFFICES ASSUME NEW c \in L PROVE Id(c)' = Id(c) /\ Id(c)' # n
      OBVIOUS
    <2>1. Id(c)' = Id(c) /\ Id(c) \in 0 .. n - 1
      BY <1>3
    <2> QED BY <2>1
  <1>5. \A b, c \in L \cup {w} : Id(b)' = Id(c)' => b = c
    BY <1>4 DEF LinksOf
  <1>6. {Id(c)' : c \in L \cup {w}} = {Id(c) : c \in L} \cup {n}
    BY <1>4
  <1>7. 0 .. (n + 1) - 1 = (0 .. n - 1) \cup {n}
    OBVIOUS
  <1>8. {Id(c)' : c \in L \cup {w}} = 0 .. worker_ids'[d] - 1
    BY <1>6, <1>7 DEF LinksOf
  <1>9. \A c \in L \cup {w} : glb_lcore_contexts'[c].dist = d
    BY DEF LinksOf
  <1>10. {Id(c) : c \in LinkedOf(d)}' = {Id(c)' : c \in L \cup {w}}
    OBVIOUS
  <1> QED BY <1>2, <1>5, <1>8, <1>9, <1>10 DEF LinksOf

LEMMA LinksStep ==
  ASSUME TypeOK, Phases, Contexts, [Next]_vars, Documented(file), ~Ended => Links, ~Ended'
  PROVE  Links'
  <1>0. ~Ended /\ file' = file
    <2>1. ~Ended
      BY EndedStays
    <2>2. file' = file
      BY ContextSteps, ZenonT(30) DEF Quiet, Exit, Crash, Prepares, Passes, Tells, LinksTo
    <2> QED BY <2>1, <2>2
  <1> SUFFICES ASSUME NEW d \in Slaves, Distributor(file, d) PROVE LinksOf(d)'
    BY <1>0 DEF Links, LinksOf
  <1>1. LinksOf(d)
    BY <1>0 DEF Links, LinksOf
  <1>2. CASE Quiet
    <2>1. LinkedOf(d)' = LinkedOf(d)
      BY <1>0, <1>2 DEF Quiet, LinkedOf
    <2>2. /\ worker_ids'[d] = worker_ids[d]
          /\ \A c \in LinkedOf(d) : /\ glb_lcore_contexts'[c].dist = glb_lcore_contexts[c].dist
                                    /\ Id(c)' = Id(c)
      BY <1>2 DEF Quiet, Id
    <2> QED BY <1>1, <2>1, <2>2, LinksFrame, ZenonT(30)
  <1>3. CASE Exit \/ Crash
    BY <1>3, EndsPhases
  <1>4. ASSUME NEW c, Prepares(c) PROVE LinksOf(d)'
    <2>1. LinkedOf(d) = {} /\ LinkedOf(d)' = {}
      BY <1>4 DEF Prepares, LinkedOf, Linked, Later, Serving
    <2>2. worker_ids'[d] = worker_ids[d]
      BY <1>4 DEF Prepares
    <2> QED BY <1>1, <2>1, <2>2, LinksFrame
  <1>5. ASSUME NEW c, Passes(c) PROVE LinksOf(d)'
    <2>1. Prepared(c) /\ c \in Enabled
      BY <1>5, Cores DEF Passes, Prepared, Later
    <2>2. "work" \notin Cfg(c).workloads
      BY <1>5, <2>1 DEF Passes, Contexts, ContextOf
    <2>3. c \notin WorkersOf(file, d)
      BY <2>2, WorkerSections DEF Cfg
    <2>4. \A b : b # c => (Linked(b)' <=> Linked(b))
      BY <1>5 DEF Passes, Linked
    <2>5. LinkedOf(d)' = LinkedOf(d)
      BY <1>0, <2>3, <2>4 DEF LinkedOf
    <2>6. /\ worker_ids'[d] = worker_ids[d]
          /\ \A b \in LinkedOf(d) : /\ glb_lcore_contexts'[b].dist = glb_lcore_contexts[b].dist
                                    /\ Id(b)' = Id(b)
      BY <1>5 DEF Passes, Id
    <2> QED BY <1>1, <2>5, <2>6, LinksFrame
  <1>6. ASSUME NEW c, NEW src, LinksTo(c, src) PROVE LinksOf(d)'
    <2>1. /\ Prepared(c) /\ c \in Enabled /\ c \in Lcores
          /\ src \in Enabled /\ src \in Lcores /\ Prepared(src)
      BY <1>6, Cores DEF LinksTo, Prepared, Later
    <2>2. /\ glb_lcore_contexts[c] \in ContextOf(c)
          /\ "work" \in Cfg(c).workloads /\ src = Cfg(c).source_dist_core
      BY <1>6, <2>1 DEF LinksTo, Contexts, ContextOf
    <2>3. /\ c \in WorkersOf(file, src) /\ src \in Slaves /\ Distributor(file, src)
      BY <2>2, DocumentedCores DEF Cfg
    <2>4. glb_lcore_contexts[src].dist = src
      <3>1. CORE_WORKLOAD_RX_DIST_TX \subseteq Cfg(src).workloads
            /\ "work" \notin Cfg(src).workloads
        BY <2>3, SectionOf DEF Distributor, Cfg
      <3> QED BY <2>1, <2>3, <3>1, ZenonT(30) DEF Contexts, CORE_WORKLOAD_RX_DIST_TX
    <2>5. /\ glb_lcore_contexts'[c].dist = src
          /\ glb_lcore_contexts'[c].dist_worker_id = worker_ids[src]
      BY <1>6, <2>1, <2>2, <2>4 DEF LinksTo, ContextOf, TypeOK
    <2>6. /\ \A b \in Slaves : b # c => glb_lcore_contexts'[b] = glb_lcore_contexts[b]
          /\ \A b : b # c => (Linked(b)' <=> Linked(b))
      BY <1>6, Cores DEF LinksTo, TypeOK, Linked
    <2>7. ~Linked(c) /\ Linked(c)'
      BY <1>6 DEF LinksTo, Linked, Later
    <2>8. WorkersOf(file, d) \subseteq Slaves /\ IsFiniteSet(WorkersOf(file, d))
      BY WorkersFinite, ZenonT(30)
    <2>9. CASE d = src
      <3>1. LinkedOf(d)' = LinkedOf(d) \cup {c} /\ c \notin LinkedOf(d)
        <4>1. LinkedOf(d)' = {b \in WorkersOf(file, d) : Linked(b)'}
          BY <1>0 DEF LinkedOf
        <4>2. c \in WorkersOf(file, d)
          BY <2>3, <2>9
        <4> QED BY <2>6, <2>7, <4>1, <4>2 DEF LinkedOf
      <3>2. IsFiniteSet(LinkedOf(d))
        BY <2>8, FS_Subset DEF LinkedOf
      <3>3. worker_ids'[d] = worker_ids[d] + 1 /\ worker_ids[d] \in Nat
        BY <1>6, <2>1, <2>9 DEF LinksTo, TypeOK
      <3>4. \A b \in LinkedOf(d) : /\ glb_lcore_contexts'[b].dist = glb_lcore_contexts[b].dist
                                    /\ Id(b)' = Id(b)
        BY <2>6, <2>8, <3>1 DEF LinkedOf, Id
      <3>5. glb_lcore_contexts'[c].dist = d /\ Id(c)' = worker_ids[d]
        BY <2>5, <2>9 DEF Id
      <3> QED BY <1>1, <3>1, <3>2, <3>3, <3>4, <3>5, LinksGrow
    <2>10. CASE d # src
      <3>1. c \notin WorkersOf(file, d)
        BY <2>2, <2>10, WorkerSections DEF Cfg
      <3>2. LinkedOf(d)' = LinkedOf(d)
        BY <1>0, <2>6, <3>1 DEF LinkedOf
      <3>3. worker_ids'[d] = worker_ids[d]
        BY <1>6, <2>10, Cores DEF LinksTo, TypeOK
      <3>4. \A b \in LinkedOf(d) : /\ glb_lcore_contexts'[b].dist = glb_lcore_contexts[b].dist
                                    /\ Id(b)' = Id(b)
        BY <2>6, <2>8, <3>1 DEF LinkedOf, Id
      <3> QED BY <1>1, <3>2, <3>3, <3>4, LinksFrame
    <2> QED BY <2>9, <2>10
  <1>7. ASSUME NEW c, Tells(c) PROVE LinksOf(d)'
    <2>1. LinkedOf(d)' = LinkedOf(d) /\ LinkedOf(d) \subseteq Slaves
      BY <1>0, <1>7 DEF Tells, LinkedOf, Linked, Later, Serving
    <2>2. \A b \in Enabled : Prepared(b)
      BY <1>7 DEF Tells, Prepared, Later, Serving
    <2>3. \A b \in Slaves : glb_lcore_contexts[b] \in ContextOf(b)
      BY <2>2, Cores DEF Contexts
    <2>4. \A b \in Slaves : /\ glb_lcore_contexts'[b].dist = glb_lcore_contexts[b].dist
                            /\ glb_lcore_contexts'[b].dist_worker_id
                                   = glb_lcore_contexts[b].dist_worker_id
      BY <1>7, <2>3, Cores DEF Tells, TypeOK, ContextOf
    <2>5. worker_ids'[d] = worker_ids[d]
      BY <1>7 DEF Tells
    <2>6. \A b \in LinkedOf(d) : /\ glb_lcore_contexts'[b].dist = glb_lcore_contexts[b].dist
                                  /\ Id(b)' = Id(b)
      BY <2>1, <2>4 DEF Id
    <2> QED BY <1>1, <2>1, <2>5, <2>6, LinksFrame
  <1> QED BY <1>2, <1>3, <1>4, <1>5, <1>6, <1>7, ContextSteps

----------------------------------------------------------------------------
(* The KNI, the running cores, and what a step touches.                    *)

LEMMA KniStep ==
  ASSUME TypeOK, Phases, KniMade, [Next]_vars
  PROVE  KniMade'
  <1>1. CASE Quiet
    BY <1>1 DEF Quiet, KniMade, Cfg
  <1>2. CASE Exit \/ Crash
    BY <1>2, EndsPhases DEF KniMade, Ended, Prepared, Later, Serving
  <1>3. ASSUME NEW c, Prepares(c) PROVE KniMade'
    <2>1. /\ c \in Enabled /\ c \in Lcores /\ c # NULL
          /\ g_director_config.lcore_configs[c] = Cfg(c)
      BY <1>3, Cores, Configs, StartAssumption DEF Prepares, Phases, Ended, Cfg
    <2>2. \A b \in Slaves : b # c => (Prepared(b)' <=> Prepared(b))
      BY <1>3 DEF Prepares, Prepared
    <2>3. \A b : Cfg(b)' = Cfg(b)
      BY <1>3 DEF Prepares, Cfg
    <2>4. CASE MakesKni(c)
      <3>1. \A p \in Ports : kni_ports'[p] # NULL
        BY <1>3, <2>1, <2>4 DEF Prepares, glb_kni_new
      <3> QED BY <3>1 DEF KniMade
    <2>5. CASE ~MakesKni(c)
      <3>1. kni_ports' = kni_ports
        BY <1>3, <2>5 DEF Prepares, glb_kni_new
      <3>2. c \in Slaves => "kni" \notin Cfg(c).workloads
        BY <2>1, <2>5 DEF MakesKni, Slaves
      <3> QED BY <2>2, <2>3, <3>1, <3>2 DEF KniMade
    <2> QED BY <2>4, <2>5
  <1>4. ASSUME NEW c, Passes(c) \/ Tells(c) \/ \E src : LinksTo(c, src) PROVE KniMade'
    BY <1>4, Cores, ZenonT(30) DEF Passes, Tells, LinksTo, KniMade, Cfg, Prepared, Later, Serving
  <1> QED BY <1>1, <1>2, <1>3, <1>4, ContextSteps

LEMMA RunsStep ==
  ASSUME TypeOK, Phases, Contexts, Runs, [Next]_vars
  PROVE  Runs'
  <1>0. CASE Exit \/ Crash
    BY <1>0 DEF Exit, Crash, Runs, Ended, Serving
  <1>1. CASE \/ EalInit \/ LoadConfig \/ CheckDevices \/ init_port \/ LoadTable
             \/ PrepareContext \/ FirstPassDone \/ LinkWorker
    <2>1. /\ Exit \/ Crash \/ pc' \in {"config", "devices", "ports", "contexts", "link"}
          /\ pc \in {"eal", "config", "devices", "ports", "contexts", "link"}
          /\ lcore' = lcore
      BY <1>1, ZenonT(30) DEF EalInit, LoadConfig, CheckDevices, init_port, LoadTable, PrepareContext,
                  FirstPassDone, LinkWorker, Exit, Crash
    <2>2. \A c \in Slaves : lcore[c] = "wait"
      BY <2>1 DEF Runs, Serving, Ended
    <2> QED BY <1>0, <2>1, <2>2 DEF Runs, Serving
  <1>2. CASE SecondPassDone
    BY <1>2 DEF SecondPassDone, Runs, Serving, Ended
  <1>3. CASE Launch
    <2>1. PICK c \in Slaves : /\ c \in todo /\ pc = "launch"
                              /\ lcore' = [lcore EXCEPT ![c] = "running"]
                              /\ todo' = todo \ {c}
                              /\ UNCHANGED <<pc, glb_lcore_contexts>>
      BY <1>3, ZenonT(30) DEF Launch, First
    <2>2. \A b : Role(b)' = Role(b)
      BY <2>1 DEF Role
    <2> QED BY <2>1, <2>2 DEF Runs, Serving, Ended, TypeOK
  <1>4. CASE NotifyReady
    <2>1. \A b : Role(b)' = Role(b)
      BY <1>4 DEF Role, NotifyReady
    <2> QED BY <1>4, <2>1 DEF NotifyReady, AllLaunched, Runs, Serving, Ended
  <1>5. CASE SeeStop \/ LeaveControl
    <2>1. \A b : Role(b)' = Role(b)
      BY <1>5 DEF Role, SeeStop, LeaveControl
    <2> QED BY <1>5, <2>1 DEF SeeStop, LeaveControl, Runs, Serving, Ended
  <1>6. CASE NotifyStop
    <2>1. PICK c \in Slaves : /\ pc = "notify"
                              /\ glb_lcore_contexts' = [glb_lcore_contexts EXCEPT
                                                           ![c].director_stop = TRUE]
                              /\ UNCHANGED <<pc, lcore>>
      BY <1>6, ZenonT(30) DEF NotifyStop
    <2>2. \A b \in Slaves : glb_lcore_contexts[b] \in ContextOf(b)
      BY <2>1, Cores DEF Contexts, Prepared, Later, Serving
    <2>3. \A b \in Slaves :
              /\ glb_lcore_contexts'[b].lcore_config = glb_lcore_contexts[b].lcore_config
              /\ glb_lcore_contexts[b].director_stop => glb_lcore_contexts'[b].director_stop
      BY <2>1, <2>2, Cores DEF TypeOK, ContextOf
    <2>4. \A b \in Slaves : Role(b)' = Role(b)
      BY <2>3 DEF Role
    <2> QED BY <2>1, <2>3, <2>4 DEF Runs, Serving, Ended
  <1>7. CASE rte_eal_wait_lcore
    <2>1. \A b : Role(b)' = Role(b)
      BY <1>7 DEF Role, rte_eal_wait_lcore
    <2>2. PICK c \in Slaves : /\ pc = "join" /\ lcore[c] # "running"
                              /\ todo' = todo \ {c}
                              /\ UNCHANGED <<pc, lcore, glb_lcore_contexts>>
      BY <1>7 DEF rte_eal_wait_lcore, Finished
    <2> QED BY <2>1, <2>2 DEF Runs, Serving, Ended
  <1>8. CASE AllJoined
    <2>1. \A b : Role(b)' = Role(b)
      BY <1>8 DEF Role, AllJoined
    <2> QED BY <1>8, <2>1 DEF AllJoined, Runs, Serving, Ended
  <1>9. CASE glb_kni_release \/ signal_handler
    <2>1. Crash \/ UNCHANGED <<pc, lcore, glb_lcore_contexts>>
      BY <1>9 DEF glb_kni_release, signal_handler
    <2>2. CASE UNCHANGED <<pc, lcore, glb_lcore_contexts>>
      <3>1. \A b : Role(b)' = Role(b)
        BY <2>2 DEF Role
      <3>2. todo' = todo \/ pc = "release"
        BY <1>9 DEF glb_kni_release, signal_handler
      <3> QED BY <2>2, <3>1, <3>2 DEF Runs, Serving, Ended
    <2> QED BY <1>0, <2>1, <2>2
  <1>10. CASE Return
    BY <1>10 DEF Return, Runs, Serving, Ended
  <1>11. CASE LibraryFails \/ glb_kni_handle_request \/ \E c \in Slaves : SlaveFaults(c)
    BY <1>0, <1>11 DEF LibraryFails, glb_kni_handle_request, SlaveFaults
  <1>12. CASE \E c \in Slaves : SlaveReturns(c)
    <2>1. PICK c \in Slaves : SlaveReturns(c)
      BY <1>12
    <2>2. \A b : Role(b)' = Role(b)
      BY <2>1 DEF Role, SlaveReturns
    <2>3. /\ pc' = pc /\ todo' = todo /\ ~Ended
          /\ UNCHANGED glb_lcore_contexts
          /\ lcore[c] = "running" /\ lcore' = [lcore EXCEPT ![c] = "finished"]
          /\ Role(c) = "none" \/ glb_lcore_contexts[c].director_stop
      BY <2>1 DEF SlaveReturns
    <2>4. \A b \in Slaves : lcore'[b] = IF b = c THEN "finished" ELSE lcore[b]
      BY <2>3, ZenonT(30) DEF TypeOK
    <2> QED BY <2>2, <2>3, <2>4 DEF Runs, Serving, Ended
  <1>13. CASE UNCHANGED vars
    <2>1. \A b : Role(b)' = Role(b)
      BY <1>13, ZenonT(30) DEF Role, vars
    <2> QED BY <1>13, <2>1, ZenonT(30) DEF vars, Runs, Serving, Ended
  <1> QED BY <1>1, <1>2, <1>3, <1>4, <1>5, <1>6, <1>7, <1>8, <1>9, <1>10, <1>11, <1>12, <1>13
          DEF Next, Main, Over

\* Where the process can fault.
LEMMA Faulting ==
  ASSUME TypeOK, [Next]_vars, pc # "crashed", pc' = "crashed"
  PROVE  \/ /\ pc = "link"
            /\ \E c \in Slaves :
                   /\ "work" \in glb_lcore_contexts[c].lcore_config.workloads
                   /\ glb_lcore_contexts[c].lcore_config.source_dist_core \notin Enabled
         \/ /\ pc \in {"control", "release"}
            /\ pc = "release" => todo # {}
            /\ pc = "control" => g_director_config.kni_enabled
            /\ \E p \in Ports : kni_ports[p] = NULL
         \/ ~Ended /\ \E c \in Slaves : lcore[c] = "running" /\ Faults(c)
  <1>1. CASE LinkWorker
    BY <1>1 DEF LinkWorker
  <1>2. CASE glb_kni_release
    BY <1>2 DEF glb_kni_release, First
  <1>3. CASE glb_kni_handle_request
    BY <1>3 DEF glb_kni_handle_request
  <1>4. CASE \E c \in Slaves : SlaveFaults(c)
    BY <1>4 DEF SlaveFaults
  <1>5. ~EalInit /\ ~LoadConfig /\ ~CheckDevices /\ ~init_port /\ ~LoadTable
    BY DEF EalInit, LoadConfig, CheckDevices, init_port, LoadTable, Exit
  <1>6. ~PrepareContext /\ ~FirstPassDone /\ ~SecondPassDone /\ ~Launch /\ ~NotifyReady
    BY DEF PrepareContext, FirstPassDone, SecondPassDone, Launch, NotifyReady, Exit
  <1>7. ~SeeStop /\ ~NotifyStop /\ ~LeaveControl /\ ~rte_eal_wait_lcore /\ ~AllJoined /\ ~Return
    BY ZenonT(30) DEF SeeStop, NotifyStop, LeaveControl, rte_eal_wait_lcore, AllJoined, Return
  <1>8. ~LibraryFails /\ ~signal_handler /\ ~UNCHANGED vars
        /\ \A c \in Slaves : ~SlaveReturns(c)
    BY ZenonT(30) DEF LibraryFails, signal_handler, vars, SlaveReturns, Exit
  <1> QED BY <1>1, <1>2, <1>3, <1>4, <1>5, <1>6, <1>7, <1>8, ZenonT(30) DEF Next, Main, Over

\* With a KNI configured, one is made on every port before the cores are linked.
LEMMA KniThere ==
  ASSUME Phases, KniMade, Documented(file), pc \in Later, g_director_config.kni_enabled
  PROVE  \A p \in Ports : kni_ports[p] # NULL
  <1>a. ~Ended /\ pc \notin {"eal", "config"}
    BY DEF Later, Serving, Ended
  <1>b. g_director_config = glb_director_config(file)
    BY <1>a, ZenonT(30) DEF Phases
  <1>c. glb_director_config(file).kni_enabled
        = \E c \in DOMAIN file.lcores : "kni" \in file.lcores[c].workloads
    BY DEF glb_director_config
  <1>1. PICK c \in DOMAIN file.lcores : "kni" \in file.lcores[c].workloads
    BY <1>b, <1>c
  <1>2. c \in Slaves /\ "kni" \in Cfg(c).workloads
    BY <1>1, SectionOf DEF Documented, Cfg
  <1>3. Prepared(c)
    BY <1>2, Cores DEF Prepared
  <1> QED BY <1>2, <1>3 DEF KniMade

LEMMA NoFaultStep ==
  ASSUME TypeOK, Phases, Contexts, Runs, [Next]_vars,
         Documented(file), ~Ended => Links, KniMade, pc # "crashed"
  PROVE  pc' # "crashed"
  <1> SUFFICES ASSUME pc' = "crashed" PROVE FALSE
    OBVIOUS
  <1>1. ASSUME pc = "link", NEW c \in Slaves,
               "work" \in glb_lcore_contexts[c].lcore_config.workloads,
               glb_lcore_contexts[c].lcore_config.source_dist_core \notin Enabled
        PROVE  FALSE
    <2>1. glb_lcore_contexts[c].lcore_config = Cfg(c)
      BY <1>1, Cores DEF Contexts, Prepared, Later, ContextOf
    <2>2. Cfg(c).source_dist_core \in Slaves
      <3>1. "work" \in Cfg(c).workloads
        BY <1>1, <2>1
      <3> QED BY <3>1, DocumentedCores DEF Cfg
    <2> QED BY <1>1, <2>1, <2>2, Cores, ZenonT(30)
  <1>2. ASSUME pc \in {"control", "release"}, pc = "release" => todo # {},
               pc = "control" => g_director_config.kni_enabled,
               NEW p \in Ports, kni_ports[p] = NULL
        PROVE  FALSE
    <2>1. g_director_config.kni_enabled
      BY <1>2, ZenonT(30) DEF Phases
    <2> QED BY <1>2, <2>1, KniThere, ZenonT(30) DEF Later, Serving
  <1>3. ASSUME ~Ended, NEW c \in Slaves, lcore[c] = "running", Faults(c)
        PROVE  FALSE
    <2>1. pc \in {"launch", "control", "notify", "join"}
      BY <1>3 DEF Runs, Serving, Ended, TypeOK
    <2>2. Prepared(c) /\ Linked(c) /\ c \in Enabled /\ pc \in Later
      BY <2>1, Cores DEF Prepared, Linked, Later, Serving
    <2>3. glb_lcore_contexts[c].lcore_config = Cfg(c)
      BY <2>2 DEF Contexts, ContextOf
    <2>4. released = {}
      BY <1>3, <2>1 DEF Phases
    <2>5. CASE Role(c) = "none"
      BY <1>3, <2>5 DEF Faults
    <2>6. CASE Cfg(c).workloads # {} /\ Distributor(file, c)
               /\ "work" \notin Cfg(c).workloads
               /\ CORE_WORKLOAD_RX_DIST_TX \subseteq Cfg(c).workloads
      <3>1. glb_lcore_contexts[c].dist = c
        BY <2>2, <2>6 DEF Contexts, CORE_WORKLOAD_RX_DIST_TX
      <3>2. "kni" \in Cfg(c).workloads => \A p \in Ports : kni_ports[p] # NULL
        BY <2>2 DEF KniMade
      <3> QED BY <1>3, <2>3, <2>4, <3>1, <3>2, Cores, ZenonT(30) DEF Faults
    <2>7. CASE /\ Cfg(c).workloads = {"work"}
               /\ Distributor(file, Cfg(c).source_dist_core)
               /\ Cfg(c).source_dist_core \in Slaves
               /\ c \in WorkersOf(file, Cfg(c).source_dist_core)
      <3> DEFINE d == Cfg(c).source_dist_core
      <3>1. c \in LinkedOf(d)
        BY <2>2, <2>7, ZenonT(30) DEF LinkedOf
      <3>2. glb_lcore_contexts[c].dist = d
        BY <1>3, <2>7, <3>1 DEF Links
      <3>3. Role(c) # "processor_rx_dist_tx"
        BY <2>3, <2>7 DEF Role, CORE_WORKLOAD_RX_DIST_TX
      <3> QED BY <1>3, <2>7, <3>2, <3>3, Cores, ZenonT(30) DEF Faults
    <2>8. CASE Cfg(c).workloads = {}
      <3>1. Role(c) = "none"
        BY <2>3, <2>8 DEF Role, CORE_WORKLOAD_RX_DIST_TX
      <3> QED BY <2>5, <3>1
    <2>9. CASE Cfg(c).workloads # {}
      BY <2>6, <2>7, <2>9, DocumentedCores DEF Cfg
    <2> QED BY <2>8, <2>9, ZenonT(30)
  <1> QED BY <1>1, <1>2, <1>3, Faulting

LEMMA StartStep == IInv /\ [Next]_vars => IInv'
  <1> SUFFICES ASSUME IInv, [Next]_vars PROVE IInv'
    OBVIOUS
  <1>1. TypeOK' /\ Phases' /\ Contexts' /\ Runs'
    BY TypeStep, PhasesStep, ContextsStep, RunsStep DEF IInv
  <1>2. Documented(file)' => Documented(file)
    BY ContextSteps, ZenonT(30) DEF IInv, Quiet, Exit, Crash, Prepares, Passes, Tells, LinksTo
  <1>3. ASSUME Documented(file) PROVE (~Ended' => Links') /\ KniMade' /\ pc' # "crashed"
    BY <1>3, LinksStep, KniStep, NoFaultStep DEF IInv
  <1> QED BY <1>1, <1>2, <1>3 DEF IInv

LEMMA StartInvariant == Spec => []IInv
  BY StartInit, StartStep, PTL DEF Spec

----------------------------------------------------------------------------
(* The theorems.                                                           *)

\* Types: main stays in its phases, every loop within its cores and ports, and
\* every variable within its values, whatever the file says.
THEOREM StartTypes == Spec => []TypeOK
  <1>1. IInv => TypeOK
    BY DEF IInv
  <1> QED BY <1>1, StartInvariant, PTL

\* For every documented file, the workers of a distributor hold its numbers
\* once each from the moment the cores are launched (main.c 405-422).
THEOREM WorkersAreIdentified == Spec => []WorkersIdentified
  <1>1. IInv => WorkersIdentified
    <2> SUFFICES ASSUME IInv, Documented(file), pc \in {"launch"} \cup Serving,
                        NEW d \in DOMAIN file.lcores, Distributor(file, d)
                 PROVE  /\ \A c \in WorkersOf(file, d) :
                               glb_lcore_contexts[c].dist = glb_lcore_contexts[d].dist
                        /\ \A b, c \in WorkersOf(file, d) : Id(b) = Id(c) => b = c
                        /\ {Id(c) : c \in WorkersOf(file, d)}
                               = 0 .. file.lcores[d].num_dist_workers - 1
                        /\ glb_lcore_contexts[d].lcore_config.num_dist_workers
                               = file.lcores[d].num_dist_workers
      BY ZenonT(30) DEF WorkersIdentified, Serving, Id
    <2>1. d \in Slaves /\ d \in Enabled /\ ~Ended /\ pc \in Later
      BY Cores DEF Documented, Ended, Serving, Later
    <2>2. Prepared(d)
      BY <2>1 DEF Prepared
    <2>3. /\ CORE_WORKLOAD_RX_DIST_TX \subseteq Cfg(d).workloads
          /\ "work" \notin Cfg(d).workloads
          /\ Cfg(d).num_dist_workers = file.lcores[d].num_dist_workers
      BY SectionOf, ZenonT(30) DEF Distributor, Cfg, CORE_WORKLOAD_RX_DIST_TX
    <2>4. /\ glb_lcore_contexts[d].dist = d
          /\ glb_lcore_contexts[d].lcore_config = Cfg(d)
      BY <2>1, <2>2, <2>3 DEF IInv, Contexts, ContextOf, CORE_WORKLOAD_RX_DIST_TX
    <2>5. LinkedOf(d) = WorkersOf(file, d)
      <3>1. WorkersOf(file, d) \subseteq Slaves
        BY WorkersFinite
      <3> QED BY <2>1, <3>1 DEF LinkedOf, Linked, Serving
    <2>6. Cardinality(WorkersOf(file, d)) = file.lcores[d].num_dist_workers
      <3>1. file.lcores[d].workloads # {"work"}
        BY ZenonT(30) DEF Distributor
      <3> QED BY <3>1 DEF Documented
    <2>7. LinksOf(d)
      BY <2>1, ZenonT(30) DEF IInv, Links, LinksOf
    <2> QED BY <2>3, <2>4, <2>5, <2>6, <2>7 DEF LinksOf
  <1> QED BY <1>1, StartInvariant, PTL

\* For every documented file, no core and no step of main touches a context,
\* a distributor or a KNI that is not there (main.c 315-455, glb_kni.c 197-267).
THEOREM NothingMissing == Spec => []NoFault
  <1>1. IInv => NoFault
    BY DEF IInv, NoFault
  <1> QED BY <1>1, StartInvariant, PTL

\* READY=1 is true: every port is started and, for a documented file, every
\* listed core runs its role until a stop signal comes (main.c 424-437).
THEOREM ReadyIsTrue == Spec => []ReadyServes
  <1>1. IInv => ReadyServes
    <2> SUFFICES ASSUME IInv, ready, ~Ended PROVE ReadyServes
      BY DEF ReadyServes
    <2>1. pc \in Serving /\ pc \in Later /\ started = Ports
      BY DEF IInv, Phases, Later
    <2> SUFFICES ASSUME Documented(file), ~signalled, NEW c \in DOMAIN file.lcores
                 PROVE  /\ lcore[c] = "running" /\ Role(c) # "none"
                        /\ "kni" \in file.lcores[c].workloads =>
                               \A p \in Ports : kni_ports[p] # NULL /\ p \notin released
      BY <2>1 DEF ReadyServes
    <2>2. c \in Slaves /\ c \in Enabled /\ Prepared(c)
      BY <2>1, Cores, ZenonT(30) DEF Documented, Prepared
    <2>3. /\ glb_lcore_contexts[c].lcore_config = Cfg(c)
          /\ ~glb_lcore_contexts[c].director_stop
          /\ Cfg(c).workloads = file.lcores[c].workloads
      BY <2>2, SectionOf, ZenonT(30) DEF IInv, Contexts, ContextOf, Cfg
    <2>4. Role(c) # "none"
      BY <2>3 DEF Role, Documented, Distributor, CORE_WORKLOAD_RX_DIST_TX
    <2>5. lcore[c] = "running"
      BY <2>1, <2>2, <2>3, <2>4 DEF IInv, Runs, TypeOK
    <2>6. released = {}
      BY <2>1, ZenonT(30) DEF IInv, Phases, Serving
    <2>7. "kni" \in file.lcores[c].workloads => \A p \in Ports : kni_ports[p] # NULL
      BY <2>2, <2>3 DEF IInv, KniMade
    <2> QED BY <2>4, <2>5, <2>6, <2>7
  <1> QED BY <1>1, StartInvariant, PTL

============================================================================
