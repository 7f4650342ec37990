--------------------------- MODULE ForwardingTable ---------------------------
(***************************************************************************)
(* The rows glb-director-cli writes into the binary forwarding table: for  *)
(* each row, the available proxies are sorted by a keyed hash of the row   *)
(* and the proxy's address, the first two become primary and secondary,    *)
(* and the two change places when the primary should get no new traffic.   *)
(***************************************************************************)
EXTENDS Integers

CONSTANTS
  Proxies,   \* the backends of one table
  Rows,      \* its rows
  Hash       \* Hash[r][p]: siphash of row r and the address of p

(* The sort is on distinct 64-bit hashes. *)
ASSUME TableConstants ==
  /\ Hash \in [Rows -> [Proxies -> Nat]]
  /\ \A r \in Rows : \A p, q \in Proxies : Hash[r][p] = Hash[r][q] => p = q

States == {"active", "draining", "filling", "inactive"}
Healths == {"up", "down"}

(* The codes of the binary table, in which "draining" and "inactive" are    *)
(* the same state.                                                          *)
GLB_BACKEND_HEALTH_UP == 1
StateCode(s) == CASE s = "filling" -> 0 [] s = "active" -> 1 [] OTHER -> 2
HealthCode(h) == IF h = "up" THEN GLB_BACKEND_HEALTH_UP ELSE 0

(* The backends that take part in the sort.  Mutant: draining ones do not. *)
Available_NotDraining(state) == {p \in Proxies : StateCode(state[p]) # 2}
Available(state) == {p \in Proxies : state[p] # "inactive"}

Lowest(r, S) == CHOOSE p \in S : \A q \in S : Hash[r][p] <= Hash[r][q]
First(r, state) == Lowest(r, Available(state))
Second(r, state) == Lowest(r, Available(state) \ {First(r, state)})

(* Mutant: only the health counts. *)
PrimaryBad_HealthOnly(p, state, health) ==
  HealthCode(health[p]) # GLB_BACKEND_HEALTH_UP
PrimaryBad(p, state, health) ==
  \/ StateCode(state[p]) = 2
  \/ HealthCode(health[p]) # GLB_BACKEND_HEALTH_UP

(* The secondary's state, not its health, is compared with "up". *)
Swapped(r, state, health) ==
  /\ PrimaryBad(First(r, state), state, health)
  /\ StateCode(state[Second(r, state)]) = GLB_BACKEND_HEALTH_UP

(* The two hops of row r.  Mutant: a swapped-out primary is left out. *)
Entry_Dropped(r, state, health) ==
  IF Swapped(r, state, health)
  THEN <<Second(r, state), Second(r, state)>>
  ELSE <<First(r, state), Second(r, state)>>
Entry(r, state, health) ==
  IF Swapped(r, state, health)
  THEN <<Second(r, state), First(r, state)>>
  ELSE <<First(r, state), Second(r, state)>>

=============================================================================
