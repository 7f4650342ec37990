----------------------------- MODULE TableBuilder -----------------------------
(***************************************************************************)
(* glb-director-cli build-config, from the tables of the JSON source to    *)
(* the binary table, and the checks of the directors that load it.  The    *)
(* rows are worked out the way the code does it, in one array of backends  *)
(* that is filled and sorted again for every table and never cleared.      *)
(*                                                                         *)
(* A source is a sequence of [backends, binds]: of [ip, state, healthy],   *)
(* and of [family, ip, cidr, proto, port, port_start, port_end], in which  *)
(* cidr and port may be absent.                                            *)
(***************************************************************************)
EXTENDS BindClassifier, TLC

CONSTANTS
  MaxBackends,      \* GLB_FMT_MAX_NUM_BACKENDS (256)
  MaxTableBinds,    \* GLB_FMT_MAX_NUM_BINDS (256)
  Rows,             \* rows of a table (0x10000)
  Seeded(_, _)      \* Seeded(row, ip): siphash of a row and a backend's address

ASSUME TableBuilderConstants ==
  MaxBackends \in Nat \ {0, 1} /\ MaxTableBinds \in Nat \ {0} /\ Rows \in Nat \ {0}

Absent == -1

------------------------------------------------------------------------------
(* Binds.                                                                   *)

AddressBits(b) == Len(b.ip) * WordBits

BindBits(b) == IF b.cidr = Absent THEN AddressBits(b) ELSE b.cidr

FirstPort(b) == IF b.port = Absent THEN b.port_start ELSE b.port
LastPort(b) == IF b.port = Absent THEN b.port_end ELSE b.port

BindAccepted(b) ==
  /\ FirstPort(b) \in 0 .. MaxPort /\ LastPort(b) \in 0 .. MaxPort
  /\ BindBits(b) <= AddressBits(b)
  /\ b.proto \in {"tcp", "udp"}

bind_entry(b, t) ==
  [family |-> b.family, ip |-> b.ip, ip_bits |-> BindBits(b), proto |-> b.proto,
   port_start |-> FirstPort(b), port_end |-> LastPort(b), table |-> t]

Binds(tables) ==
  UNION {{bind_entry(tables[t].binds[i], t) : i \in DOMAIN tables[t].binds} : t \in DOMAIN tables}

------------------------------------------------------------------------------
(* Backends.  An entry of the binary table that no backend fills is zero.   *)

BackendAccepted(e) == e.state \in {"active", "filling", "draining", "inactive"}

StateCode(s) == CASE s = "filling" -> 0 [] s = "active" -> 1 [] OTHER -> 2
HealthCode(healthy) == IF healthy THEN 1 ELSE 0

OutBackend(t, i) ==
  IF i \notin DOMAIN t.backends THEN [ip |-> 0, state |-> 0, health |-> 0]
  ELSE [ip |-> t.backends[i].ip, state |-> StateCode(t.backends[i].state),
        health |-> HealthCode(t.backends[i].healthy)]

(* The source is built: what is over the limits is counted, not looked at. *)
BuildSucceeds(tables) ==
  \A t \in DOMAIN tables :
    /\ \A i \in DOMAIN tables[t].backends : i <= MaxBackends => BackendAccepted(tables[t].backends[i])
    /\ \A i \in DOMAIN tables[t].binds : i <= MaxTableBinds => BindAccepted(tables[t].binds[i])

------------------------------------------------------------------------------
(* Rows.                                                                    *)

(* A mutant: inactive backends are sorted as well. *)
AvailableIndexes_All(t) == {i \in DOMAIN t.backends : i <= MaxBackends}
AvailableIndexes(t) ==
  {i \in DOMAIN t.backends : i <= MaxBackends /\ t.backends[i].state # "inactive"}

(* What qsort makes of the first num_available_backends elements. *)
Sorted(t, row) ==
  SortSeq(SelectSeq([i \in DOMAIN t.backends |-> i], LAMBDA i : i \in AvailableIndexes(t)),
          LAMBDA i, j : Seeded(row, t.backends[i].ip) < Seeded(row, t.backends[j].ip))

(* The first two of sortable_backends, of which sorted overwrites as many   *)
(* as it has.                                                               *)
Overlaid(sorted, before) == [i \in 1 .. 2 |-> IF i <= Len(sorted) THEN sorted[i] ELSE before[i]]

(* What the first k tables leave there; unset is the pair of indexes that   *)
(* was on the stack.  One past the array of backends is left out.           *)
LeftBy(tables, unset) ==
  LET Left[k \in 0 .. Len(tables)] ==
        IF k = 0 THEN unset
        ELSE Overlaid(Sorted(tables[k], Rows - 1), Left[k - 1])
  IN Left

(* The addresses of a row's primary and secondary. *)
TableEntry(tables, k, row, unset) ==
  LET sortable == Overlaid(Sorted(tables[k], row), LeftBy(tables, unset)[k - 1])
      primary == OutBackend(tables[k], sortable[1])
      secondary == OutBackend(tables[k], sortable[2])
      primary_bad == primary.state = 2 \/ primary.health # 1
  IN IF primary_bad /\ secondary.state = 1
     THEN <<secondary.ip, primary.ip>> ELSE <<primary.ip, secondary.ip>>

------------------------------------------------------------------------------
(* The directors: check_config on what the builder wrote.  The header's     *)
(* constants, the families and the protocols are always right then.         *)
check_config(tables) ==
  /\ tables # <<>>
  /\ \A t \in DOMAIN tables : /\ Len(tables[t].backends) \in 1 .. MaxBackends
                              /\ Len(tables[t].binds) \in 1 .. MaxTableBinds

=============================================================================
