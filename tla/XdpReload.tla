------------------------------- MODULE XdpReload -------------------------------
(***************************************************************************)
(* Replacing the XDP director's forwarding table (glb-director-xdp/main.go *)
(* and its systemd units).  glb-director-cli writes a table and renames it *)
(* into place; SIGUSR1 makes the running director start a copy of itself,  *)
(* which loads the table into maps of its own, puts its program into the   *)
(* root array of each interface, and tells its parent, which exits.  The   *)
(* root arrays are pinned by xdp-root-shim and outlive the directors.      *)
(***************************************************************************)
EXTENDS Naturals, Sequences, FiniteSets

CONSTANTS
  MaxPid,       \* bound: processes ever started
  MaxVersion,   \* bound: tables built after the first
  MaxReloads,   \* bound: reloads asked for
  Roots         \* number of --xdp-root-path arguments

ASSUME XdpReloadConstants ==
  MaxPid \in Nat \ {0} /\ MaxVersion \in Nat /\ MaxReloads \in Nat /\ Roots \in Nat \ {0}

Pids == 1 .. MaxPid
Paths == 1 .. Roots
Nobody == 0

VARIABLES
  tmp,        \* the builder's temporary file
  file,       \* the forwarding table at its path
  pc,         \* process -> where it is in main
  parent,     \* process -> the process that waits for its READY=1
  table,      \* process -> the table in its maps
  next,       \* process -> the root path to attach to next
  sigs,       \* process -> a signal waits in its channel
  ready,      \* process -> READY=1 waits in the socket of its parent
  root,       \* root path -> process whose program is in the root array
  pidFile,
  main,       \* the service's main process, for systemd
  reloads,    \* reloads asked for
  requested,  \* history: newest table that was in place when a reload was asked for
  disturbed,  \* history: a fault, or a reload asked for during another
  gaveUp      \* history: a director did not wait for its copy any longer

buildVars == <<tmp, file>>
procVars == <<pc, parent, table, next, sigs, ready>>
hostVars == <<root, pidFile, main>>
histVars == <<reloads, requested, disturbed, gaveUp>>
vars == <<buildVars, procVars, hostVars, histVars>>

NoFile == [version |-> 0, whole |-> FALSE]
Tables == [version : 0 .. MaxVersion, whole : BOOLEAN]

Alive == {p \in Pids : pc[p] \notin {"none", "dead"}}
Starting == {p \in Pids : pc[p] \in {"load", "attach", "pidfile", "notify", "handler"}}

(* One director, waiting for signals, on every interface. *)
Quiet == \E p \in Pids : Alive = {p} /\ pc[p] = "running" /\ ~sigs[p]

Init ==
  /\ tmp = NoFile
  /\ file = [version |-> 0, whole |-> TRUE]
  /\ pc = [p \in Pids |-> IF p = 1 THEN "running" ELSE "none"]
  /\ parent = [p \in Pids |-> Nobody]
  /\ table = [p \in Pids |-> IF p = 1 THEN file ELSE NoFile]
  /\ next = [p \in Pids |-> 1]
  /\ sigs = [p \in Pids |-> FALSE]
  /\ ready = [p \in Pids |-> FALSE]
  /\ root = [r \in Paths |-> 1]
  /\ pidFile = 1 /\ main = 1
  /\ reloads = 0 /\ requested = 0 /\ disturbed = FALSE /\ gaveUp = FALSE

------------------------------------------------------------------------------
(* glb-director-cli build-config.                                           *)

(* mkstemp and the writes; tmp.whole says what reached the disk.  fwrite    *)
(* and fclose go unchecked, so a file cut short by a full disk is renamed   *)
(* as well.                                                                 *)
WriteTable(whole) ==
  /\ tmp = NoFile /\ file.version < MaxVersion
  /\ tmp' = [version |-> file.version + 1, whole |-> whole]
  /\ UNCHANGED <<file, procVars, hostVars, histVars>>

RenameTable ==
  /\ tmp # NoFile
  /\ file' = tmp /\ tmp' = NoFile
  /\ UNCHANGED <<procVars, hostVars, histVars>>

(* An error in the source, or a failed rename: the file is unlinked. *)
BuildFails ==
  /\ tmp # NoFile
  /\ tmp' = NoFile
  /\ UNCHANGED <<file, procVars, hostVars, histVars>>

------------------------------------------------------------------------------
(* kill -USR1 $(cat pidfile).  A process that has not called signal.Notify  *)
(* yet dies of it, a full channel drops it, and a dead one never gets it.   *)
Died(p) == pc' = [pc EXCEPT ![p] = "dead"]

Reload ==
  /\ reloads < MaxReloads /\ reloads' = reloads + 1
  /\ requested' = IF file.whole THEN file.version ELSE requested
  /\ disturbed' = (disturbed \/ ~Quiet \/ ~file.whole \/ pidFile \notin Alive)
  /\ \/ /\ pc[pidFile] \in {"running", "waiting"}
        /\ sigs' = [sigs EXCEPT ![pidFile] = TRUE]
        /\ UNCHANGED pc
     \/ /\ pidFile \in Starting
        /\ Died(pidFile)
        /\ UNCHANGED sigs
     \/ /\ pc[pidFile] = "dead"
        /\ UNCHANGED <<pc, sigs>>
  /\ UNCHANGED <<buildVars, parent, table, next, ready, hostVars, gaveUp>>

------------------------------------------------------------------------------
(* The director's main.                                                     *)

(* create_glb_fwd_config and check_config, which refuses a size that does   *)
(* not fit the header.  A mutant: it takes what it finds.                   *)
check_config_NoSize(f) == TRUE
check_config(f) == f.whole

(* Load the configuration and the table into new maps. *)
ReloadForwardingTable(p) ==
  /\ pc[p] = "load" /\ check_config(file)
  /\ table' = [table EXCEPT ![p] = file]
  /\ pc' = [pc EXCEPT ![p] = "attach"]
  /\ UNCHANGED <<buildVars, parent, next, sigs, ready, hostVars, histVars>>

RefuseTable(p) ==
  /\ pc[p] = "load" /\ ~check_config(file)
  /\ Died(p)
  /\ disturbed' = TRUE
  /\ UNCHANGED <<buildVars, parent, table, next, sigs, ready, hostVars, reloads, requested, gaveUp>>

(* log.Fatal: a system call fails, also one of those that prepare a reload. *)
Fatal(p) ==
  /\ pc[p] \in {"load", "attach"} \/ (pc[p] = "running" /\ sigs[p])
  /\ Died(p)
  /\ next' = [next EXCEPT ![p] = 1]
  /\ sigs' = [sigs EXCEPT ![p] = FALSE]
  /\ disturbed' = TRUE
  /\ UNCHANGED <<buildVars, parent, table, ready, hostVars, reloads, requested, gaveUp>>

(* A mutant: the last of several root paths is left out. *)
NextStep_SkipLast(p) == IF next[p] >= Roots - 1 THEN "pidfile" ELSE "attach"
NextStep(p) == IF next[p] = Roots THEN "pidfile" ELSE "attach"

NextPath(p) == IF next[p] = Roots THEN 1 ELSE next[p] + 1

Attach(p) ==
  /\ pc[p] = "attach"
  /\ root' = [root EXCEPT ![next[p]] = p]
  /\ next' = [next EXCEPT ![p] = NextPath(p)]
  /\ pc' = [pc EXCEPT ![p] = NextStep(p)]
  /\ UNCHANGED <<buildVars, parent, table, sigs, ready, pidFile, main, histVars>>

(* A mutant: the pid file keeps the name of the first director. *)
WritePidFile_Once(p) ==
  /\ pc[p] = "pidfile"
  /\ pc' = [pc EXCEPT ![p] = "notify"]
  /\ UNCHANGED <<buildVars, parent, table, next, sigs, ready, hostVars, histVars>>

WritePidFile(p) ==
  /\ pc[p] = "pidfile"
  /\ pidFile' = p
  /\ pc' = [pc EXCEPT ![p] = "notify"]
  /\ UNCHANGED <<buildVars, parent, table, next, sigs, ready, root, main, histVars>>

(* The datagram is lost when the parent has given up and closed its socket. *)
SdNotify(p) ==
  /\ pc[p] = "notify"
  /\ ready' = [ready EXCEPT ![p] = parent[p] # Nobody]
  /\ pc' = [pc EXCEPT ![p] = "handler"]
  /\ UNCHANGED <<buildVars, parent, table, next, sigs, hostVars, histVars>>

SignalNotify(p) ==
  /\ pc[p] = "handler"
  /\ pc' = [pc EXCEPT ![p] = "running"]
  /\ UNCHANGED <<buildVars, parent, table, next, sigs, ready, hostVars, histVars>>

(* gracefullReloadByExec: start a copy of this program and wait ...         *)
(* A mutant: it is not waited for.                                          *)
Launched_NoWait(p, q) == [pc EXCEPT ![q] = "load"]
Launched(p, q) == [pc EXCEPT ![p] = "waiting", ![q] = "load"]

LaunchVersion(p, q) ==
  /\ pc[p] = "running" /\ sigs[p] /\ pc[q] = "none" /\ \A i \in 1 .. q - 1 : pc[i] # "none"
  /\ pc' = Launched(p, q)
  /\ parent' = [parent EXCEPT ![q] = p]
  /\ sigs' = [sigs EXCEPT ![p] = FALSE]
  /\ UNCHANGED <<buildVars, table, next, ready, hostVars, histVars>>

LaunchFails(p) ==
  /\ pc[p] = "running" /\ sigs[p]
  /\ sigs' = [sigs EXCEPT ![p] = FALSE]
  /\ disturbed' = TRUE
  /\ UNCHANGED <<buildVars, pc, parent, table, next, ready, hostVars, reloads, requested, gaveUp>>

Child(p) == CHOOSE q \in Pids : parent[q] = p
Orphaned(p) == parent' = [parent EXCEPT ![Child(p)] = Nobody]

(* ... for READY=1, and exit, with a signal that has come in the meantime.  *)
(* systemd takes the process in the pid file for the service's main one.    *)
ChildReady(p) ==
  /\ pc[p] = "waiting" /\ ready[Child(p)]
  /\ Died(p) /\ Orphaned(p)
  /\ ready' = [ready EXCEPT ![Child(p)] = FALSE]
  /\ sigs' = [sigs EXCEPT ![p] = FALSE]
  /\ main' = IF main # p THEN main ELSE IF pidFile \in Alive \ {p} THEN pidFile ELSE Nobody
  /\ UNCHANGED <<buildVars, table, next, root, pidFile, histVars>>

(* ... or for 30 seconds: the child is neither stopped nor waited for.      *)
(* A READY that is there at the same time may go either way.                *)
Timeout(p) ==
  /\ pc[p] = "waiting"
  /\ pc' = [pc EXCEPT ![p] = "running"]
  /\ Orphaned(p)
  /\ ready' = [ready EXCEPT ![Child(p)] = FALSE]
  /\ disturbed' = TRUE /\ gaveUp' = TRUE
  /\ UNCHANGED <<buildVars, table, next, sigs, hostVars, reloads, requested>>

(* An interrupt ends a director that waits for signals. *)
Interrupt(p) ==
  /\ pc[p] = "running"
  /\ Died(p)
  /\ sigs' = [sigs EXCEPT ![p] = FALSE]
  /\ main' = IF main = p THEN Nobody ELSE main
  /\ disturbed' = TRUE
  /\ UNCHANGED <<buildVars, parent, table, next, ready, root, pidFile, reloads, requested, gaveUp>>

(* External: systemd restarts a main process that failed. *)
Restart(q) ==
  /\ main # Nobody /\ pc[main] = "dead"
  /\ pc[q] = "none" /\ \A i \in 1 .. q - 1 : pc[i] # "none"
  /\ pc' = [pc EXCEPT ![q] = "load"]
  /\ main' = q
  /\ UNCHANGED <<buildVars, parent, table, next, sigs, ready, root, pidFile, histVars>>

(* xdp-root-shim is restarted: it pins and attaches an empty root array. *)
RestartShim(r) ==
  /\ root' = [root EXCEPT ![r] = Nobody]
  /\ disturbed' = TRUE
  /\ UNCHANGED <<buildVars, procVars, pidFile, main, reloads, requested, gaveUp>>

------------------------------------------------------------------------------
Process(p) ==
  \/ ReloadForwardingTable(p) \/ RefuseTable(p) \/ Attach(p) \/ WritePidFile(p) \/ SdNotify(p) \/ SignalNotify(p)
  \/ (\E q \in Pids : LaunchVersion(p, q)) \/ ChildReady(p)

Next ==
  \/ \E whole \in BOOLEAN : WriteTable(whole)
  \/ RenameTable \/ BuildFails \/ Reload
  \/ \E p \in Pids : Process(p) \/ Fatal(p) \/ LaunchFails(p) \/ Timeout(p) \/ Interrupt(p) \/ Restart(p)
  \/ \E r \in Paths : RestartShim(r)

(* Processes run, and the timer of the one that waits fires. *)
Fairness == \A p \in Pids : WF_vars(Process(p)) /\ WF_vars(Timeout(p))

Spec == Init /\ [][Next]_vars /\ Fairness

------------------------------------------------------------------------------
TableOf(r) == table[root[r]]
Served(v) == \A r \in Paths : root[r] # Nobody /\ TableOf(r).version >= v

(* Types; a process that is not started has no parent and no table. *)
TypeOK ==
  /\ tmp \in Tables /\ file \in Tables
  /\ pc \in [Pids -> {"none", "load", "attach", "pidfile", "notify", "handler",
                      "running", "waiting", "dead"}]
  /\ parent \in [Pids -> Pids \cup {Nobody}] /\ table \in [Pids -> Tables]
  /\ next \in [Pids -> Paths]
  /\ sigs \in [Pids -> BOOLEAN] /\ ready \in [Pids -> BOOLEAN]
  /\ root \in [Paths -> Pids \cup {Nobody}]
  /\ pidFile \in Pids /\ main \in Pids \cup {Nobody}
  /\ \A p \in Pids : pc[p] = "none" => parent[p] = Nobody /\ table[p] = NoFile

(* The attach is the cut-over (main.go): a program that packets reach has   *)
(* its whole table in its maps, however the builder, its disk and reloads   *)
(* that time out are interleaved.                                           *)
AttachedTablesWhole == \A r \in Paths : root[r] # Nobody => TableOf(r).whole

(* No interface falls back to an older table, whatever fails or is asked    *)
(* for at the same time, as long as no director gave up waiting for its     *)
(* copy (which then may still attach the table it had read).                *)
NoStepBack ==
  [][\A r \in Paths : ~gaveUp /\ Nobody \notin {root[r], root'[r]} =>
       TableOf(r)'.version >= TableOf(r).version]_vars

(* While nothing goes wrong and reloads do not overlap: when one is over,   *)
(* the process that the next one will signal serves all interfaces, and     *)
(* systemd watches it.                                                      *)
HandedOver ==
  ~disturbed /\ Quiet => main = pidFile /\ \A r \in Paths : root[r] = pidFile

(* A reload asked for while no other is under way, with a table that is     *)
(* whole, reaches every interface, unless something goes wrong or another   *)
(* reload is asked for before it is through.                                *)
ReloadReachesAll ==
  \A v \in 1 .. MaxVersion : requested = v ~> (disturbed \/ Served(v))

=============================================================================
