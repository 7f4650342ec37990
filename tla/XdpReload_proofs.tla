---------------------------- MODULE XdpReload_proofs ----------------------------
(***************************************************************************)
(* For any number of processes, tables, reloads and interfaces: the types, *)
(* that attached tables are whole, that no interface steps back to an      *)
(* older table unless a director gave up waiting for its copy, and that a  *)
(* reload which nothing disturbs hands everything over to the copy.        *)
(***************************************************************************)
EXTENDS XdpReload, TLAPS

(* A process that packets reach has loaded its table, and only a table that *)
(* passed the checks is loaded.                                             *)
LoadedWhole ==
  /\ \A p \in Pids : pc[p] \notin {"none", "load", "dead"} => table[p].whole
  /\ \A r \in Paths : root[r] # Nobody =>
       pc[root[r]] \notin {"none", "load"} /\ table[root[r]].whole

(* Tables are numbered in the order they are put in place. *)
NewestInPlace ==
  /\ tmp # NoFile => tmp.version > file.version
  /\ \A p \in Pids : table[p].version <= file.version

(* Neither waiting for a copy nor gone. *)
Working(p) == pc[p] \notin {"none", "dead", "waiting"}

(* Until a director gives up, one process at most is at work, and systemd   *)
(* does not start another beside it.                                        *)
OneWorking ==
  ~gaveUp => \A p \in Pids : Working(p) =>
               /\ \A q \in Pids : Working(q) => q = p
               /\ main # Nobody => pc[main] # "dead"

(* It is about to attach a table that is as new as any attached one. *)
AttachesNewest ==
  ~gaveUp => \A p \in Pids : pc[p] = "attach" =>
               \A r \in Paths : root[r] # Nobody =>
                 table[root[r]].version <= table[p].version

XInv == TypeOK /\ LoadedWhole /\ NewestInPlace /\ OneWorking /\ AttachesNewest

LEMMA Numbers ==
  /\ Pids \subseteq Nat /\ Paths \subseteq Nat /\ 1 \in Pids /\ 1 \in Paths
  /\ Nobody \notin Pids /\ Roots \in Paths
  /\ NoFile \in Tables
BY XdpReloadConstants DEF Pids, Paths, Nobody, NoFile, Tables

LEMMA XInit == Init => XInv
<1> SUFFICES ASSUME Init PROVE XInv
  OBVIOUS
<1> USE DEF Init
<1>1. file \in Tables
  BY XdpReloadConstants DEF Tables
<1>2. TypeOK
  BY <1>1, Numbers DEF TypeOK
<1>3. LoadedWhole
  BY Numbers DEF LoadedWhole
<1>4. NewestInPlace
  BY DEF NewestInPlace, NoFile
<1>5. OneWorking /\ AttachesNewest
  BY Numbers DEF OneWorking, AttachesNewest, Working
<1> QED BY <1>2, <1>3, <1>4, <1>5 DEF XInv

------------------------------------------------------------------------------
(* The steps that touch neither the processes' tables nor what they do.     *)

LEMMA BuildStep ==
  ASSUME XInv, (\E w \in BOOLEAN : WriteTable(w)) \/ RenameTable \/ BuildFails
  PROVE  XInv'
<1> USE DEF procVars, hostVars, histVars
<1>1. UNCHANGED <<procVars, hostVars, histVars>>
  BY DEF WriteTable, RenameTable, BuildFails
<1>2. tmp' \in Tables /\ file' \in Tables
  BY Numbers, XdpReloadConstants DEF XInv, TypeOK, WriteTable, RenameTable, BuildFails, Tables
<1>3. NewestInPlace'
  BY DEF XInv, TypeOK, NewestInPlace, Tables, WriteTable, RenameTable, BuildFails, NoFile
<1>4. TypeOK' /\ LoadedWhole' /\ OneWorking' /\ AttachesNewest'
  BY <1>1, <1>2 DEF XInv, TypeOK, LoadedWhole, OneWorking, AttachesNewest, Working
<1> QED BY <1>3, <1>4 DEF XInv

(* A process may die at any time. *)
LEMMA DeathStep ==
  ASSUME XInv, NEW p \in Pids, Died(p), pc[p] # "none",
         UNCHANGED <<buildVars, table, root, pidFile>>,
         parent' \in [Pids -> Pids \cup {Nobody}], next' \in [Pids -> Paths],
         sigs' \in [Pids -> BOOLEAN], ready' \in [Pids -> BOOLEAN],
         main' \in Pids \cup {Nobody},
         \A q \in Pids : pc[q] = "none" => parent'[q] = Nobody,
         main' # Nobody => \/ pc'[main'] # "dead"
                           \/ main' = main /\ pc[main] = "dead"
                           \/ main' = p /\ Working(p),
         gaveUp' = gaveUp
  PROVE  XInv'
<1> USE DEF Died, buildVars
<1>1. TypeOK'
  BY ZenonT(30) DEF XInv, TypeOK
<1>2. LoadedWhole' /\ NewestInPlace' /\ AttachesNewest'
  BY DEF XInv, TypeOK, LoadedWhole, NewestInPlace, AttachesNewest
<1>3. OneWorking'
  BY DEF XInv, TypeOK, OneWorking, Working
<1> QED BY <1>1, <1>2, <1>3 DEF XInv

LEMMA FaultStep ==
  ASSUME XInv, NEW p \in Pids,
         RefuseTable(p) \/ Fatal(p) \/ Interrupt(p)
  PROVE  XInv'
<1>1. Died(p) /\ Working(p) /\ pc[p] # "none"
  BY DEF RefuseTable, Fatal, Interrupt, Working
<1>2. /\ UNCHANGED <<buildVars, table, root, pidFile>>
      /\ parent' = parent /\ ready' = ready /\ gaveUp' = gaveUp
      /\ sigs' \in [Pids -> BOOLEAN] /\ next' \in [Pids -> Paths]
  BY Numbers, ZenonT(30) DEF RefuseTable, Fatal, Interrupt, hostVars, XInv, TypeOK
<1>3. main' \in {main, Nobody}
  BY DEF RefuseTable, Fatal, Interrupt, hostVars
<1>4. main' # Nobody => \/ pc'[main'] # "dead"
                        \/ main' = main /\ pc[main] = "dead"
                        \/ main' = p /\ Working(p)
  BY <1>1, <1>3 DEF Died, XInv, TypeOK
<1>5. /\ parent \in [Pids -> Pids \cup {Nobody}] /\ ready \in [Pids -> BOOLEAN]
      /\ main \in Pids \cup {Nobody}
      /\ \A q \in Pids : pc[q] = "none" => parent[q] = Nobody
  BY DEF XInv, TypeOK
<1> QED BY <1>1, <1>2, <1>3, <1>4, <1>5, DeathStep

LEMMA ReadyStep ==
  ASSUME XInv, NEW p \in Pids, ChildReady(p)
  PROVE  XInv'
<1> USE DEF ChildReady
<1>1. Died(p) /\ pc[p] = "waiting"
  OBVIOUS
<1>2. /\ UNCHANGED <<buildVars, table, root, pidFile>> /\ gaveUp' = gaveUp /\ next' = next
      /\ sigs' \in [Pids -> BOOLEAN] /\ ready' \in [Pids -> BOOLEAN]
  BY ZenonT(30) DEF XInv, TypeOK, histVars
<1>3. /\ parent' \in [Pids -> Pids \cup {Nobody}]
      /\ \A q \in Pids : pc[q] = "none" => parent'[q] = Nobody
  BY ZenonT(30) DEF XInv, TypeOK, Orphaned
<1>4. main' \in {main, pidFile, Nobody} /\ (main = p /\ main' # Nobody => main' \in Alive \ {p})
  OBVIOUS
<1>5. main' # Nobody => \/ pc'[main'] # "dead"
                        \/ main' = main /\ pc[main] = "dead"
  <2>1. CASE main = p
    BY <2>1, <1>1, <1>4 DEF Died, Alive, XInv, TypeOK
  <2>2. CASE main # p
    BY <2>2, <1>1 DEF Died, XInv, TypeOK
  <2> QED BY <2>1, <2>2
<1>6. next \in [Pids -> Paths] /\ main' \in Pids \cup {Nobody}
  BY <1>4 DEF XInv, TypeOK
<1> QED BY <1>1, <1>2, <1>3, <1>5, <1>6, DeathStep

(* A reload signals the process in the pid file; one that does not listen   *)
(* yet dies of it.                                                          *)
LEMMA SignalStep ==
  ASSUME XInv, Reload
  PROVE  XInv'
<1> USE DEF Reload, hostVars
<1>1. pidFile \in Pids /\ next \in [Pids -> Paths] /\ main \in Pids \cup {Nobody}
      /\ parent \in [Pids -> Pids \cup {Nobody}] /\ sigs \in [Pids -> BOOLEAN]
      /\ ready \in [Pids -> BOOLEAN]
      /\ \A q \in Pids : pc[q] = "none" => parent[q] = Nobody
  BY DEF XInv, TypeOK
<1>2. CASE pidFile \in Starting /\ Died(pidFile) /\ UNCHANGED sigs
  <2>1. Working(pidFile) /\ pc[pidFile] # "none"
    BY <1>2 DEF Starting, Working
  <2>2. main # Nobody => \/ pc'[main] # "dead"
                         \/ pc[main] = "dead"
                         \/ main = pidFile
    BY <1>1, <1>2 DEF Died, XInv, TypeOK
  <2> QED BY <1>1, <1>2, <2>1, <2>2, DeathStep
<1>3. CASE UNCHANGED pc /\ sigs' \in [Pids -> BOOLEAN]
  BY <1>3 DEF XInv, TypeOK, LoadedWhole, NewestInPlace, OneWorking, AttachesNewest,
              Working, buildVars
<1> QED BY <1>1, <1>2, <1>3, ZenonT(30)

------------------------------------------------------------------------------
(* A process at work goes on with its start.                                *)

LEMMA LoadStep ==
  ASSUME XInv, NEW p \in Pids, ReloadForwardingTable(p)
  PROVE  XInv'
<1> USE DEF ReloadForwardingTable, buildVars, hostVars, histVars
<1>1. TypeOK'
  BY DEF XInv, TypeOK
<1>2. \A r \in Paths : root[r] # p
  BY Numbers DEF XInv, LoadedWhole
<1>3. LoadedWhole'
  BY <1>2, Numbers DEF XInv, TypeOK, LoadedWhole, check_config
<1>4. NewestInPlace'
  BY DEF XInv, TypeOK, NewestInPlace, Tables
<1>5. OneWorking'
  BY DEF XInv, TypeOK, OneWorking, Working
<1>6. AttachesNewest'
  <2> SUFFICES ASSUME ~gaveUp, NEW q \in Pids, pc'[q] = "attach",
                      NEW r \in Paths, root[r] # Nobody
               PROVE  table'[root[r]].version <= table'[q].version
    BY DEF AttachesNewest
  <2>1. q = p
    BY DEF XInv, TypeOK, OneWorking, Working
  <2>2. root[r] \in Pids /\ table'[root[r]] = table[root[r]] /\ table'[q] = file
    BY <1>2, <2>1 DEF XInv, TypeOK
  <2> QED BY <2>2 DEF XInv, NewestInPlace
<1> QED BY <1>1, <1>3, <1>4, <1>5, <1>6 DEF XInv

LEMMA AttachStep ==
  ASSUME XInv, NEW p \in Pids, Attach(p)
  PROVE  XInv'
<1> USE DEF Attach, buildVars, histVars
<1>1. next[p] \in Paths /\ NextPath(p) \in Paths
  BY Numbers, XdpReloadConstants DEF XInv, TypeOK, NextPath, Paths
<1>2. NextStep(p) \in {"pidfile", "attach"}
  BY DEF NextStep
<1>3. TypeOK'
  BY <1>1, <1>2 DEF XInv, TypeOK
<1>4. LoadedWhole'
  BY <1>1, <1>2 DEF XInv, TypeOK, LoadedWhole
<1>5. NewestInPlace'
  BY DEF XInv, NewestInPlace
<1>6. OneWorking'
  BY <1>2 DEF XInv, TypeOK, OneWorking, Working
<1>7. AttachesNewest'
  <2> SUFFICES ASSUME ~gaveUp, NEW q \in Pids, pc'[q] = "attach",
                      NEW r \in Paths, root'[r] # Nobody
               PROVE  table[root'[r]].version <= table[q].version
    BY DEF AttachesNewest
  <2>1. q = p
    BY <1>2 DEF XInv, TypeOK, OneWorking, Working
  <2>2. table[p].version \in Nat
    BY DEF XInv, TypeOK, Tables
  <2>3. CASE root'[r] = p
    BY <2>1, <2>2, <2>3
  <2>4. CASE root'[r] # p
    BY <2>1, <2>4, <1>1 DEF XInv, TypeOK, AttachesNewest
  <2> QED BY <2>3, <2>4
<1> QED BY <1>3, <1>4, <1>5, <1>6, <1>7 DEF XInv

LEMMA AnnounceStep ==
  ASSUME XInv, NEW p \in Pids, WritePidFile(p) \/ SdNotify(p) \/ SignalNotify(p)
  PROVE  XInv'
<1> USE DEF WritePidFile, SdNotify, SignalNotify, buildVars, hostVars, histVars
<1>1. PICK s \in {"notify", "handler", "running"} :
        pc' = [pc EXCEPT ![p] = s] /\ pc[p] \in {"pidfile", "notify", "handler"}
  OBVIOUS
<1>2. /\ UNCHANGED <<tmp, file, parent, table, next, sigs, root, main, gaveUp>>
      /\ pidFile' \in Pids /\ ready' \in [Pids -> BOOLEAN]
  BY ZenonT(30) DEF XInv, TypeOK
<1>3. TypeOK' /\ LoadedWhole' /\ NewestInPlace'
  BY <1>1, <1>2, ZenonT(30) DEF XInv, TypeOK, LoadedWhole, NewestInPlace
<1>4. OneWorking' /\ AttachesNewest'
  BY <1>1, <1>2 DEF XInv, TypeOK, OneWorking, AttachesNewest, Working
<1> QED BY <1>3, <1>4 DEF XInv

------------------------------------------------------------------------------
(* Processes start: a copy, while the one that starts it waits, or a new    *)
(* one by systemd, when the main one is gone.                               *)

LEMMA LaunchStep ==
  ASSUME XInv, NEW p \in Pids, NEW q \in Pids, LaunchVersion(p, q)
  PROVE  XInv'
<1> USE DEF LaunchVersion, buildVars, hostVars, histVars
<1>1. pc' = [pc EXCEPT ![p] = "waiting", ![q] = "load"] /\ p # q
  BY DEF Launched
<1>2. TypeOK'
  BY <1>1 DEF XInv, TypeOK
<1>3. LoadedWhole' /\ NewestInPlace'
  BY <1>1, SMTT(30) DEF XInv, TypeOK, LoadedWhole, NewestInPlace
<1>4. OneWorking'
  BY <1>1 DEF XInv, TypeOK, OneWorking, Working
<1>5. AttachesNewest'
  BY <1>1 DEF XInv, TypeOK, AttachesNewest
<1> QED BY <1>2, <1>3, <1>4, <1>5 DEF XInv

LEMMA RestartStep ==
  ASSUME XInv, NEW q \in Pids, Restart(q)
  PROVE  XInv'
<1> USE DEF Restart, buildVars, histVars
<1>1. TypeOK' /\ LoadedWhole' /\ NewestInPlace'
  BY DEF XInv, TypeOK, LoadedWhole, NewestInPlace
<1>2. OneWorking' /\ AttachesNewest'
  BY DEF XInv, TypeOK, OneWorking, AttachesNewest, Working
<1> QED BY <1>1, <1>2 DEF XInv

LEMMA TimeoutStep ==
  ASSUME XInv, NEW p \in Pids, Timeout(p)
  PROVE  XInv'
<1> USE DEF Timeout, buildVars, hostVars
<1>1. TypeOK'
  BY ZenonT(30) DEF XInv, TypeOK, Orphaned
<1>2. LoadedWhole' /\ NewestInPlace'
  BY DEF XInv, TypeOK, LoadedWhole, NewestInPlace
<1>3. OneWorking' /\ AttachesNewest'
  BY DEF OneWorking, AttachesNewest
<1> QED BY <1>1, <1>2, <1>3 DEF XInv

LEMMA OtherStep ==
  ASSUME XInv, (\E p \in Pids : LaunchFails(p)) \/ (\E r \in Paths : RestartShim(r))
  PROVE  XInv'
<1>1. ASSUME NEW p \in Pids, LaunchFails(p) PROVE XInv'
  BY <1>1 DEF LaunchFails, XInv, TypeOK, LoadedWhole, NewestInPlace, OneWorking,
              AttachesNewest, Working, buildVars, hostVars
<1>2. ASSUME NEW r \in Paths, RestartShim(r) PROVE XInv'
  BY <1>2 DEF RestartShim, XInv, TypeOK, LoadedWhole, NewestInPlace, OneWorking,
              AttachesNewest, Working, buildVars, procVars
<1> QED BY <1>1, <1>2

LEMMA XNext == XInv /\ [Next]_vars => XInv'
<1> SUFFICES ASSUME XInv, [Next]_vars PROVE XInv'
  OBVIOUS
<1>1. CASE UNCHANGED vars
  BY <1>1 DEF vars, buildVars, procVars, hostVars, histVars, XInv, TypeOK,
              LoadedWhole, NewestInPlace, OneWorking, AttachesNewest, Working
<1>2. ASSUME NEW p \in Pids, Process(p) PROVE XInv'
  BY <1>2, LoadStep, FaultStep, AttachStep, AnnounceStep, LaunchStep, ReadyStep
     DEF Process
<1>3. ASSUME NEW p \in Pids, Fatal(p) \/ Timeout(p) \/ Interrupt(p) \/ Restart(p)
      PROVE  XInv'
  BY <1>3, FaultStep, TimeoutStep, RestartStep
<1> QED BY <1>1, <1>2, <1>3, BuildStep, SignalStep, OtherStep DEF Next

LEMMA XInvariant == Spec => []XInv
BY XInit, XNext, PTL DEF Spec

------------------------------------------------------------------------------
(* The state of the builder, the processes, the root arrays and systemd     *)
(* keeps its types: no index of a root path runs over, no process is        *)
(* attached or named in the pid file that was never started.                *)
THEOREM XdpTypes == Spec => []TypeOK
<1>1. XInv => TypeOK
  BY DEF XInv
<1> QED BY <1>1, XInvariant, PTL

(* Whatever is cut short, refused, restarted or timed out: packets only     *)
(* reach programs that have a whole table in their maps.                    *)
THEOREM TablesWhole == Spec => []AttachedTablesWhole
<1>1. XInv => AttachedTablesWhole
  BY DEF XInv, LoadedWhole, AttachedTablesWhole, TableOf
<1> QED BY <1>1, XInvariant, PTL

(* As long as no director gave up waiting for its copy, no step puts an     *)
(* older table in front of an interface.                                    *)
THEOREM NeverStepsBack == Spec => NoStepBack
<1>1. ASSUME XInv, [Next]_vars, ~gaveUp, NEW r \in Paths,
             Nobody \notin {root[r], root'[r]}
      PROVE  table'[root'[r]].version >= table[root[r]].version
  <2>1. /\ root[r] \in Pids /\ table[root[r]].version \in Nat
        /\ pc[root[r]] # "load"
    BY <1>1 DEF XInv, TypeOK, LoadedWhole, Tables
  <2>2. CASE root' = root /\ table' = table
    BY <2>1, <2>2
  <2>3. ASSUME NEW p \in Pids, Attach(p)
        PROVE  table'[root'[r]].version >= table[root[r]].version
    <3>1. table' = table /\ root'[r] \in {root[r], p} /\ pc[p] = "attach"
      BY <2>3, <1>1 DEF Attach, XInv, TypeOK
    <3>2. table[root[r]].version <= table[p].version /\ table[p].version \in Nat
      BY <3>1, <1>1 DEF XInv, TypeOK, AttachesNewest, Tables
    <3> QED BY <3>1, <3>2, <2>1
  <2>4. ASSUME NEW p \in Pids, ReloadForwardingTable(p)
        PROVE  table'[root'[r]].version >= table[root[r]].version
    <3>1. root' = root /\ root[r] # p /\ table'[root[r]] = table[root[r]]
      BY <2>4, <2>1, <1>1 DEF ReloadForwardingTable, hostVars, XInv, TypeOK
    <3> QED BY <3>1, <2>1
  <2>5. ASSUME NEW q \in Paths, RestartShim(q)
        PROVE  table'[root'[r]].version >= table[root[r]].version
    <3>1. table' = table /\ root'[r] = root[r]
      BY <2>5, <1>1, SMTT(30) DEF RestartShim, procVars, XInv, TypeOK
    <3> QED BY <3>1, <2>1
  <2>6. \/ root' = root /\ table' = table
        \/ \E p \in Pids : Attach(p) \/ ReloadForwardingTable(p)
        \/ \E q \in Paths : RestartShim(q)
    BY <1>1, ZenonT(30) DEF Next, Process, WriteTable, RenameTable, BuildFails, Reload, RefuseTable,
                WritePidFile, SdNotify, SignalNotify, LaunchVersion, ChildReady, Fatal,
                LaunchFails, Timeout, Interrupt, Restart, vars, procVars, hostVars
  <2> QED BY <2>2, <2>3, <2>4, <2>5, <2>6
<1>2. XInv /\ [Next]_vars =>
        [\A r \in Paths : ~gaveUp /\ Nobody \notin {root[r], root'[r]} =>
           TableOf(r)'.version >= TableOf(r).version]_vars
  BY <1>1 DEF TableOf
<1> QED BY <1>2, XInvariant, PTL DEF Spec, NoStepBack

------------------------------------------------------------------------------
(* The hand-over, while nothing goes wrong and no reload overlaps another.  *)

(* A process not started yet has nothing of an earlier one. *)
Fresh == \A p \in Pids : pc[p] = "none" => next[p] = 1 /\ ~sigs[p] /\ ~ready[p]

Serves(p) == \A r \in Paths : root[r] = p

(* One director, that everything names. *)
Sole(p) ==
  /\ \A x \in Pids : pc[x] \in {"none", "dead"} <=> x # p
  /\ \A x \in Pids : parent[x] = Nobody
  /\ pc[p] \in {"handler", "running"} /\ (pc[p] = "handler" => ~sigs[p])
  /\ main = p /\ pidFile = p /\ Serves(p)

(* A director p that waits for its copy q, and what q has taken over yet. *)
Pair(p, q) ==
  /\ p # q /\ \A x \in Pids : pc[x] \in {"none", "dead"} <=> x \notin {p, q}
  /\ pc[p] = "waiting" /\ main = p /\ ~sigs[p] /\ ~sigs[q]
  /\ \A x \in Pids : parent[x] = IF x = q THEN p ELSE Nobody
  /\ pc[q] \in {"load", "attach", "pidfile", "notify", "handler", "running"}
  /\ pc[q] = "load" => next[q] = 1
  /\ pc[q] = "attach" => \A r \in Paths : r < next[q] => root[r] = q
  /\ pc[q] \notin {"load", "attach"} => Serves(q)
  /\ pc[q] \in {"notify", "handler", "running"} => pidFile = q
  /\ ready[q] => pc[q] \in {"handler", "running"}

HandingOver ==
  /\ Fresh
  /\ ~disturbed => \/ \E p \in Pids : Sole(p)
                   \/ \E p, q \in Pids : Pair(p, q)

LEMMA FreshStep == TypeOK /\ Fresh /\ [Next]_vars => Fresh'
<1> SUFFICES ASSUME TypeOK, Fresh, [Next]_vars PROVE Fresh'
  OBVIOUS
<1> USE DEF TypeOK, Fresh, buildVars, procVars, hostVars, histVars
<1>1. CASE (\E w \in BOOLEAN : WriteTable(w)) \/ RenameTable \/ BuildFails
  BY <1>1 DEF WriteTable, RenameTable, BuildFails
<1>2. CASE Reload
  BY <1>2 DEF Reload, Starting, Died
<1>3. ASSUME NEW p \in Pids, Process(p) PROVE Fresh'
  <2>1. CASE ReloadForwardingTable(p) \/ RefuseTable(p) \/ Attach(p)
    BY <2>1 DEF ReloadForwardingTable, RefuseTable, Attach, Died, NextStep
  <2>2. CASE WritePidFile(p) \/ SdNotify(p) \/ SignalNotify(p)
    BY <2>2 DEF WritePidFile, SdNotify, SignalNotify
  <2>3. ASSUME NEW q \in Pids, LaunchVersion(p, q) PROVE Fresh'
    BY <2>3 DEF LaunchVersion, Launched
  <2>4. CASE ChildReady(p)
    BY <2>4 DEF ChildReady, Died
  <2> QED BY <1>3, <2>1, <2>2, <2>3, <2>4 DEF Process
<1>4. ASSUME NEW p \in Pids, Fatal(p) \/ LaunchFails(p) \/ Timeout(p) PROVE Fresh'
  BY <1>4 DEF Fatal, LaunchFails, Timeout, Died
<1>5. ASSUME NEW p \in Pids, Interrupt(p) \/ Restart(p) PROVE Fresh'
  BY <1>5 DEF Interrupt, Restart, Died
<1>6. ASSUME NEW r \in Paths, RestartShim(r) PROVE Fresh'
  BY <1>6 DEF RestartShim
<1>7. CASE UNCHANGED vars
  BY <1>7 DEF vars
<1> QED BY <1>1, <1>2, <1>3, <1>4, <1>5, <1>6, <1>7 DEF Next

(* The steps that can be part of an undisturbed hand-over. *)
LEMMA Undisturbed ==
  ASSUME [Next]_vars, ~disturbed', disturbed \in BOOLEAN
  PROVE  /\ ~disturbed
         /\ \/ UNCHANGED <<procVars, hostVars>>
            \/ Reload /\ Quiet /\ pidFile \in Alive
            \/ \E p \in Pids : \/ ReloadForwardingTable(p) \/ Attach(p) \/ WritePidFile(p)
                               \/ SdNotify(p) \/ SignalNotify(p) \/ ChildReady(p)
                               \/ Restart(p)
            \/ \E p, q \in Pids : LaunchVersion(p, q)
<1> USE DEF histVars
<1>1. CASE (\E w \in BOOLEAN : WriteTable(w)) \/ RenameTable \/ BuildFails \/ UNCHANGED vars
  BY <1>1 DEF WriteTable, RenameTable, BuildFails, vars
<1>2. CASE Reload
  BY <1>2, ZenonT(30) DEF Reload
<1>3. ASSUME NEW p \in Pids, Process(p) PROVE ~disturbed /\ ~RefuseTable(p)
  BY <1>3 DEF Process, ReloadForwardingTable, RefuseTable, Attach, WritePidFile, SdNotify,
              SignalNotify, LaunchVersion, ChildReady
<1>4. ASSUME NEW p \in Pids
      PROVE  ~Fatal(p) /\ ~LaunchFails(p) /\ ~Timeout(p) /\ ~Interrupt(p)
             /\ (Restart(p) => ~disturbed)
  BY DEF Fatal, LaunchFails, Timeout, Interrupt, Restart
<1>5. ASSUME NEW r \in Paths PROVE ~RestartShim(r)
  BY DEF RestartShim
<1>6. ASSUME NEW p \in Pids, Process(p)
      PROVE  \/ ReloadForwardingTable(p) \/ Attach(p) \/ WritePidFile(p) \/ SdNotify(p)
             \/ SignalNotify(p) \/ ChildReady(p) \/ \E q \in Pids : LaunchVersion(p, q)
  BY <1>6, <1>3 DEF Process
<1> QED
  BY <1>1, <1>2, <1>3, <1>4, <1>5, <1>6 DEF Next

LEMMA SoleStep ==
  ASSUME TypeOK, Fresh, NEW p \in Pids, Sole(p), [Next]_vars, ~disturbed',
         disturbed \in BOOLEAN
  PROVE  Sole(p)' \/ \E q \in Pids : Pair(p, q)'
<1> USE Numbers DEF TypeOK
<1>1. CASE UNCHANGED <<procVars, hostVars>>
  BY <1>1 DEF procVars, hostVars, Sole, Serves
<1>2. CASE Reload
  <2>1. pc[p] = "running"
    BY <1>2, Undisturbed, ZenonT(30) DEF Reload, Sole, Quiet, Alive
  <2>2. sigs' = [sigs EXCEPT ![p] = TRUE] /\ pc' = pc /\ UNCHANGED <<parent, main, pidFile, root>>
    BY <1>2, <2>1 DEF Reload, Sole, Starting, hostVars
  <2> QED BY <2>1, <2>2 DEF Sole, Serves
<1>3. ASSUME NEW x \in Pids, ReloadForwardingTable(x) \/ Attach(x) \/ WritePidFile(x) \/ SdNotify(x)
      PROVE  FALSE
  BY <1>3 DEF ReloadForwardingTable, Attach, WritePidFile, SdNotify, Sole
<1>4. ASSUME NEW x \in Pids, ChildReady(x) \/ Restart(x) PROVE FALSE
  BY <1>4 DEF ChildReady, Restart, Sole
<1>5. ASSUME NEW x \in Pids, SignalNotify(x) PROVE Sole(p)'
  BY <1>5 DEF SignalNotify, Sole, Serves, hostVars
<1>6. ASSUME NEW x \in Pids, NEW q \in Pids, LaunchVersion(x, q) PROVE Pair(p, q)'
  <2>1. x = p /\ p # q /\ pc[q] = "none"
    BY <1>6 DEF LaunchVersion, Sole
  <2>2. /\ pc' = [pc EXCEPT ![p] = "waiting", ![q] = "load"]
        /\ parent' = [parent EXCEPT ![q] = p] /\ sigs' = [sigs EXCEPT ![p] = FALSE]
        /\ UNCHANGED <<next, ready, root, pidFile, main>>
    BY <1>6, <2>1 DEF LaunchVersion, Launched, hostVars
  <2>3. next[q] = 1 /\ ~sigs[q] /\ ~ready[q]
    BY <2>1 DEF Fresh
  <2> QED BY <2>1, <2>2, <2>3 DEF Sole, Pair
<1> QED BY <1>1, <1>2, <1>3, <1>4, <1>5, <1>6, Undisturbed

LEMMA PairStep ==
  ASSUME TypeOK, Fresh, NEW p \in Pids, NEW q \in Pids, Pair(p, q), [Next]_vars,
         ~disturbed', disturbed \in BOOLEAN
  PROVE  Pair(p, q)' \/ Sole(q)'
<1> USE Numbers DEF TypeOK
<1>1. CASE UNCHANGED <<procVars, hostVars>>
  BY <1>1 DEF procVars, hostVars, Pair, Serves
<1>2. CASE Reload /\ Quiet
  <2>1. {p, q} \subseteq Alive
    BY DEF Pair, Alive
  <2> QED BY <1>2, <2>1 DEF Quiet, Pair
<1>3. ASSUME NEW x \in Pids, ReloadForwardingTable(x) PROVE Pair(p, q)'
  BY <1>3 DEF ReloadForwardingTable, Pair, hostVars, Paths
<1>4. ASSUME NEW x \in Pids, Attach(x) PROVE Pair(p, q)'
  <2>1. x = q /\ pc[q] = "attach" /\ next[q] \in Paths
    BY <1>4 DEF Attach, Pair
  <2>2. /\ root' = [root EXCEPT ![next[q]] = q] /\ next' = [next EXCEPT ![q] = NextPath(q)]
        /\ pc' = [pc EXCEPT ![q] = NextStep(q)]
        /\ UNCHANGED <<parent, sigs, ready, pidFile, main>>
    BY <1>4, <2>1 DEF Attach
  <2>3. CASE next[q] = Roots
    <3>1. NextStep(q) = "pidfile"
      BY <2>3 DEF NextStep
    <3>2. \A r \in Paths : r < Roots \/ r = Roots
      BY XdpReloadConstants DEF Paths
    <3>3. Serves(q)'
      BY <2>1, <2>2, <2>3, <3>2 DEF Pair, Serves
    <3> QED BY <2>1, <2>2, <3>1, <3>3 DEF Pair
  <2>4. CASE next[q] # Roots
    <3>1. NextStep(q) = "attach" /\ NextPath(q) = next[q] + 1
      BY <2>4 DEF NextStep, NextPath
    <3>2. \A r \in Paths : r < next[q] + 1 => r < next[q] \/ r = next[q]
      BY <2>1 DEF Paths
    <3>3. \A r \in Paths : r < next'[q] => root'[r] = q
      BY <2>1, <2>2, <3>1, <3>2 DEF Pair
    <3> QED BY <2>1, <2>2, <3>1, <3>3 DEF Pair
  <2> QED BY <2>3, <2>4
<1>5. ASSUME NEW x \in Pids, WritePidFile(x) \/ SdNotify(x) \/ SignalNotify(x) PROVE Pair(p, q)'
  <2>1. x = q
    BY <1>5 DEF WritePidFile, SdNotify, SignalNotify, Pair
  <2>2. CASE WritePidFile(x)
    BY <2>1, <2>2 DEF WritePidFile, Pair, Serves
  <2>3. CASE SdNotify(x)
    BY <2>1, <2>3 DEF SdNotify, Pair, Serves, hostVars
  <2>4. CASE SignalNotify(x)
    BY <2>1, <2>4 DEF SignalNotify, Pair, Serves, hostVars
  <2> QED BY <1>5, <2>2, <2>3, <2>4
<1>6. ASSUME NEW x \in Pids, ChildReady(x) PROVE Sole(q)'
  <2>1. x = p /\ Child(p) = q
    BY <1>6 DEF ChildReady, Pair, Child
  <2>2. pc[q] \in {"handler", "running"} /\ pidFile = q /\ Serves(q)
    BY <1>6, <2>1 DEF ChildReady, Pair
  <2>3. /\ pc' = [pc EXCEPT ![p] = "dead"] /\ parent' = [parent EXCEPT ![q] = Nobody]
        /\ sigs' = [sigs EXCEPT ![p] = FALSE] /\ UNCHANGED <<root, pidFile>>
    BY <1>6, <2>1 DEF ChildReady, Died, Orphaned
  <2>4. main' = q
    BY <1>6, <2>1, <2>2 DEF ChildReady, Pair, Alive
  <2> QED BY <2>2, <2>3, <2>4 DEF Pair, Sole, Serves
<1>7. ASSUME NEW x \in Pids, Restart(x) PROVE FALSE
  BY <1>7 DEF Restart, Pair
<1>8. ASSUME NEW x \in Pids, NEW y \in Pids, LaunchVersion(x, y) PROVE FALSE
  BY <1>8 DEF LaunchVersion, Pair
<1> QED BY <1>1, <1>2, <1>3, <1>4, <1>5, <1>6, <1>7, <1>8, Undisturbed

(* As long as nothing goes wrong and no reload is asked for during another, *)
(* once a reload is over the process in the pid file serves every interface *)
(* and is the one systemd watches, for any number of root paths and of      *)
(* processes (main.go).                                                     *)
THEOREM HandOverComplete == Spec => []HandedOver
<1> DEFINE HOInv == HandingOver /\ disturbed \in BOOLEAN
<1>1. Init => HOInv
  <2>1. Init => Sole(1) /\ Fresh
    BY Numbers DEF Init, Sole, Serves, Fresh
  <2> QED BY <2>1, Numbers, ZenonT(30) DEF Init, HandingOver
<1>2. XInv /\ HOInv /\ [Next]_vars => HOInv'
  <2> SUFFICES ASSUME XInv, HOInv, [Next]_vars PROVE HOInv'
    OBVIOUS
  <2>1. TypeOK /\ Fresh /\ disturbed \in BOOLEAN
    BY DEF XInv, HandingOver
  <2>2. disturbed' \in BOOLEAN
    BY <2>1, ZenonT(30) DEF Next, Process, WriteTable, RenameTable, BuildFails, Reload,
                ReloadForwardingTable, RefuseTable, Attach, WritePidFile, SdNotify, SignalNotify,
                LaunchVersion, ChildReady, Fatal, LaunchFails, Timeout, Interrupt, Restart,
                RestartShim, vars, histVars
  <2>3. Fresh'
    BY <2>1, FreshStep
  <2>4. ASSUME ~disturbed'
        PROVE  (\E p \in Pids : Sole(p)') \/ \E p, q \in Pids : Pair(p, q)'
    <3>1. ~disturbed
      BY <2>1, <2>4, Undisturbed
    <3>2. (\E p \in Pids : Sole(p)) \/ \E p, q \in Pids : Pair(p, q)
      BY <3>1 DEF HandingOver
    <3> QED BY <2>1, <2>4, <3>2, SoleStep, PairStep
  <2> QED BY <2>2, <2>3, <2>4 DEF HandingOver
<1>3. XInv /\ HOInv => HandedOver
  <2> SUFFICES ASSUME XInv, HOInv, ~disturbed, Quiet
               PROVE  main = pidFile /\ \A r \in Paths : root[r] = pidFile
    BY DEF HandedOver
  <2>1. ASSUME NEW p \in Pids, NEW q \in Pids, Pair(p, q) PROVE FALSE
    <3>1. p # q /\ {p, q} \subseteq Alive
      BY <2>1 DEF Pair, Alive
    <3> QED BY <3>1 DEF Quiet
  <2> QED BY <2>1 DEF HandingOver, Sole, Serves
<1> QED BY <1>1, <1>2, <1>3, XInvariant, PTL DEF Spec
=============================================================================
