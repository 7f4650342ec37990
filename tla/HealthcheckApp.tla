---------------------------- MODULE HealthcheckApp ----------------------------
(***************************************************************************)
(* glb-healthcheck between its check results and the director: the source  *)
(* forwarding table is loaded at start and on SIGHUP, the results of each  *)
(* check round are merged into its backends, and a dirty table is stored   *)
(* and handed to the reload command, at most once in a hold time.          *)
(* Two goroutines do this at the same time, one per finished round, one    *)
(* per SIGHUP; a mutex guards the table pointer and most uses of the dirty *)
(* flag.                                                                   *)
(***************************************************************************)
EXTENDS Integers, FiniteSets

CONSTANTS
  Backends,      \* the backends of the table, one check target each
  MaxSignals,    \* bound: SIGHUPs sent
  MaxRounds      \* bound: rounds whose results differ from the ones before

ASSUME HealthcheckConstants == MaxSignals \in Nat /\ MaxRounds \in Nat

Goroutines == {"round", "hup"}
Tables == 0..MaxSignals       \* one per load: LoadForwardingTable allocates
Partial == [table |-> -1, healthy |-> [b \in Backends |-> FALSE]]

VARIABLES
  sigs,        \* SIGHUPs in the channel, whose buffer holds one
  signals,     \* SIGHUPs sent
  rounds,      \* rounds with new results
  manager,     \* the check manager: "checking" or "sending" roundComplete
  results,     \* its latest results: backend -> healthy
  forwardingTableConfig,  \* the table in use
  healthy,     \* table -> backend -> its Healthy field
  dirty,
  hold,        \* now is before nextAllowedDirtyClear
  pc,          \* goroutine -> where it is
  ft,          \* goroutine -> the table it works on
  seen,        \* goroutine -> the results it works with
  todo,        \* goroutine -> backends it has not compared yet
  buf,         \* goroutine -> the JSON it writes
  dst,         \* content of the checked table file
  deployed,    \* what the reload command last handed to the director
  taken,       \* history: tables some store has picked up
  failed       \* history: a store or a reload command has failed

ctxVars == <<forwardingTableConfig, healthy, dirty, hold>>
localVars == <<ft, seen, todo, buf>>
inVars == <<sigs, signals, rounds, manager, results>>
outVars == <<dst, deployed, taken, failed>>
vars == <<inVars, ctxVars, pc, localVars, outVars>>

NoResults == [b \in Backends |-> FALSE]
Goto(g, where) == pc' = [pc EXCEPT ![g] = where]

(* main() has loaded the table, whose source says nothing of health, stored *)
(* it once, marked it dirty, and started the manager and the goroutines.    *)
Init ==
  /\ sigs = 0 /\ signals = 0 /\ rounds = 0
  /\ manager = "checking" /\ results = NoResults
  /\ forwardingTableConfig = 0 /\ healthy = [t \in Tables |-> NoResults]
  /\ dirty = TRUE /\ hold = FALSE
  /\ pc = [g \in Goroutines |-> "idle"]
  /\ ft = [g \in Goroutines |-> 0] /\ seen = [g \in Goroutines |-> NoResults]
  /\ todo = [g \in Goroutines |-> {}] /\ buf = [g \in Goroutines |-> Partial]
  /\ dst \in {Partial, [table |-> 0, healthy |-> NoResults]}
  /\ deployed = Partial
  /\ taken = {} /\ failed = FALSE

------------------------------------------------------------------------------
(* External: the operator edits the source and signals; a signal is dropped *)
(* while one waits in the channel.  The hold time passes.                   *)

SendHup ==
  /\ signals < MaxSignals
  /\ signals' = signals + 1 /\ sigs' = 1
  /\ UNCHANGED <<rounds, manager, results, ctxVars, pc, localVars, outVars>>

HoldExpires ==
  /\ hold /\ hold' = FALSE
  /\ UNCHANGED <<inVars, forwardingTableConfig, healthy, dirty, pc, localVars,
                 outVars>>

------------------------------------------------------------------------------
(* The check manager: a round ends with a new map of results ...            *)
FinishRound ==
  /\ manager = "checking" /\ manager' = "sending"
  /\ \E r \in [Backends -> BOOLEAN] :
       /\ r # results => rounds < MaxRounds
       /\ rounds' = IF r = results THEN rounds ELSE rounds + 1
       /\ results' = r
  /\ UNCHANGED <<sigs, signals, ctxVars, pc, localVars, outVars>>

(* ... and a send on the unbuffered channel that waits for the goroutine.   *)
RoundComplete ==
  /\ manager = "sending" /\ pc["round"] = "idle"
  /\ manager' = "checking"
  /\ Goto("round", "update")
  /\ UNCHANGED <<sigs, signals, rounds, results, ctxVars, localVars, outVars>>

------------------------------------------------------------------------------
(* The SIGHUP goroutine.                                                    *)

ReceiveHup ==
  /\ sigs = 1 /\ pc["hup"] = "idle"
  /\ sigs' = 0
  /\ Goto("hup", "load")
  /\ UNCHANGED <<signals, rounds, manager, results, ctxVars, localVars, outVars>>

(* ctx.Lock() succeeds: only CheckAndClearDirty is split, at "clear". *)
Unlocked == \A g \in Goroutines : pc[g] # "clear"

(* The new table, dirty and out of hold in one critical section.  Mutant:   *)
(* the table is not marked dirty.                                           *)
LoadedDirty_Not == UNCHANGED dirty
LoadedDirty == dirty' = TRUE

LoadForwardingTable ==
  /\ pc["hup"] = "load" /\ Unlocked
  /\ forwardingTableConfig' = forwardingTableConfig + 1
  /\ LoadedDirty /\ hold' = FALSE
  /\ Goto("hup", "sync")
  /\ UNCHANGED <<inVars, healthy, localVars, outVars>>

LoadFails ==
  /\ pc["hup"] = "load"
  /\ Goto("hup", "idle")
  /\ UNCHANGED <<inVars, ctxVars, localVars, outVars>>

(* SetTargets takes all targets, or none if one has an unknown type. *)
SyncBackendsToCheckManager ==
  /\ pc["hup"] = "sync"
  /\ Goto("hup", "update") \/ Goto("hup", "idle")
  /\ UNCHANGED <<inVars, ctxVars, localVars, outVars>>

------------------------------------------------------------------------------
(* SyncAndMaybeReload, in either goroutine: UpdateTableBackendHealth ...    *)

SnapshotTable(g) ==
  /\ pc[g] = "update" /\ Unlocked
  /\ ft' = [ft EXCEPT ![g] = forwardingTableConfig]
  /\ todo' = [todo EXCEPT ![g] = Backends]
  /\ Goto(g, "results")
  /\ UNCHANGED <<inVars, ctxVars, seen, buf, outVars>>

GetResults(g) ==
  /\ pc[g] = "results"
  /\ seen' = [seen EXCEPT ![g] = results]
  /\ Goto(g, "compare")
  /\ UNCHANGED <<inVars, ctxVars, ft, todo, buf, outVars>>

Changed(g, b) == healthy[ft[g]][b] # seen[g][b]

(* The flag is set without the lock, before the field.  Mutant: it is set   *)
(* only for a backend that became unhealthy.                                *)
MarkDirty_Unhealthy(g, b) == dirty' = (dirty \/ (Changed(g, b) /\ ~seen[g][b]))
MarkDirty(g, b) == dirty' = (dirty \/ Changed(g, b))

CompareHealth(g) ==
  /\ pc[g] = "compare" /\ todo[g] # {}
  /\ MarkDirty(g, CHOOSE b \in todo[g] : TRUE)
  /\ Goto(g, "assign")
  /\ UNCHANGED <<inVars, forwardingTableConfig, healthy, hold, localVars, outVars>>

AssignHealth(g) ==
  /\ pc[g] = "assign"
  /\ LET b == CHOOSE x \in todo[g] : TRUE
     IN /\ healthy' = [healthy EXCEPT ![ft[g]][b] = seen[g][b]]
        /\ todo' = [todo EXCEPT ![g] = @ \ {b}]
  /\ Goto(g, "compare")
  /\ UNCHANGED <<inVars, forwardingTableConfig, dirty, hold, ft, seen, buf, outVars>>

(* ... CheckAndClearDirty: not dirty, held, or cleared.  The mutex is held  *)
(* throughout, but a MarkDirty of the other goroutine can fall before the   *)
(* clearing write.                                                          *)
CheckDirty(g) ==
  /\ pc[g] = "compare" /\ todo[g] = {} /\ Unlocked
  /\ Goto(g, IF dirty /\ ~hold THEN "clear" ELSE "idle")
  /\ UNCHANGED <<inVars, ctxVars, localVars, outVars>>

(* Mutant: the flag is not reset. *)
ClearDirty_NotReset(g) ==
  /\ pc[g] = "clear"
  /\ hold' = TRUE
  /\ Goto(g, "store")
  /\ UNCHANGED <<inVars, forwardingTableConfig, healthy, dirty, localVars, outVars>>
ClearDirty(g) ==
  /\ pc[g] = "clear"
  /\ dirty' = FALSE /\ hold' = TRUE
  /\ Goto(g, "store")
  /\ UNCHANGED <<inVars, forwardingTableConfig, healthy, localVars, outVars>>

(* ... StoreCheckedForwardingTable: the table pointer under the lock, the   *)
(* JSON, the file opened and truncated, and written ...                     *)
PickTable(g) ==
  /\ pc[g] = "store" /\ Unlocked
  /\ ft' = [ft EXCEPT ![g] = forwardingTableConfig]
  /\ taken' = taken \cup {forwardingTableConfig}
  /\ Goto(g, "marshal")
  /\ UNCHANGED <<inVars, ctxVars, seen, todo, buf, dst, deployed, failed>>

Marshal(g) ==
  /\ pc[g] = "marshal"
  /\ buf' = [buf EXCEPT ![g] = [table |-> ft[g], healthy |-> healthy[ft[g]]]]
  /\ Goto(g, "open")
  /\ UNCHANGED <<inVars, ctxVars, ft, seen, todo, outVars>>

Truncate(g) ==
  /\ pc[g] = "open"
  /\ dst' = Partial
  /\ Goto(g, "write")
  /\ UNCHANGED <<inVars, ctxVars, localVars, deployed, taken, failed>>

(* Over what the other goroutine wrote since, the longer text shows through.*)
Write(g) ==
  /\ pc[g] = "write"
  /\ dst' \in IF dst = Partial THEN {buf[g]} ELSE {buf[g], Partial}
  /\ Goto(g, "reload")
  /\ UNCHANGED <<inVars, ctxVars, localVars, deployed, taken, failed>>

StoreFails(g) ==
  /\ pc[g] \in {"open", "write"}
  /\ failed' = TRUE
  /\ Goto(g, "reload")
  /\ UNCHANGED <<inVars, ctxVars, localVars, dst, deployed, taken>>

(* ... RunReloadCommand, whatever became of the store: the table is built   *)
(* and the director told, or the command fails.                             *)
RunReloadCommand(g) ==
  /\ pc[g] = "reload" /\ dst # Partial
  /\ deployed' = dst
  /\ Goto(g, "idle")
  /\ UNCHANGED <<inVars, ctxVars, localVars, dst, taken, failed>>

ReloadFails(g) ==
  /\ pc[g] = "reload"
  /\ failed' = TRUE
  /\ Goto(g, "idle")
  /\ UNCHANGED <<inVars, ctxVars, localVars, dst, deployed, taken>>

Manager == FinishRound \/ RoundComplete
Hup == ReceiveHup \/ LoadForwardingTable \/ LoadFails \/ SyncBackendsToCheckManager
UpdateTableBackendHealth(g) ==
  SnapshotTable(g) \/ GetResults(g) \/ CompareHealth(g) \/ AssignHealth(g)
CheckAndClearDirty(g) == CheckDirty(g) \/ ClearDirty(g)
StoreCheckedForwardingTable(g) ==
  PickTable(g) \/ Marshal(g) \/ Truncate(g) \/ Write(g) \/ StoreFails(g)
SyncAndMaybeReload(g) ==
  \/ UpdateTableBackendHealth(g) \/ CheckAndClearDirty(g)
  \/ StoreCheckedForwardingTable(g) \/ RunReloadCommand(g) \/ ReloadFails(g)

Next ==
  \/ SendHup \/ HoldExpires \/ Manager \/ Hup
  \/ \E g \in Goroutines : SyncAndMaybeReload(g)

Spec == Init /\ [][Next]_vars

(* The Go scheduler runs every goroutine that can run, and time passes. *)
Fairness ==
  /\ WF_vars(HoldExpires) /\ WF_vars(Manager) /\ WF_vars(Hup)
  /\ \A g \in Goroutines : WF_vars(SyncAndMaybeReload(g))

FairSpec == Spec /\ Fairness

------------------------------------------------------------------------------
(* SIGHUP is never forgotten: the table in use has been picked up to be     *)
(* stored, or the dirty flag or a goroutine that cleared it will see to it. *)
LoadHandedOn ==
  \/ dirty \/ forwardingTableConfig \in taken
  \/ \E g \in Goroutines : pc[g] \in {"clear", "store"}

(* Without a SIGHUP since the start: when the round goroutine rests and     *)
(* nothing is dirty, the director has the health of the table in memory,    *)
(* unless a store or a reload failed (neither is retried).                  *)
RoundsPublished ==
  signals = 0 /\ pc["round"] = "idle" /\ ~dirty /\ ~failed =>
    deployed = [table |-> 0, healthy |-> healthy[0]]

(* A change is not held back for ever: the dirty flag is always cleared     *)
(* again, by a store.                                                       *)
DirtyStored == dirty ~> ~dirty

(* The documentation: "either because of the update or a health change",    *)
(* the checked table is written "with updated health states for every       *)
(* backend" and the director reloaded.  At rest, with nothing dirty and     *)
(* nothing failed, the director has the table in use with its health.       *)
ChangesPublished ==
  (\A g \in Goroutines : pc[g] = "idle") /\ sigs = 0 /\ ~dirty /\ ~failed =>
    deployed = [table |-> forwardingTableConfig,
                healthy |-> healthy[forwardingTableConfig]]

=============================================================================
