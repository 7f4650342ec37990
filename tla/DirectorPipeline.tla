--------------------------- MODULE DirectorPipeline ---------------------------
(***************************************************************************)
(* The packet pipeline of the DPDK director: one receiving core that      *)
(* distributes packets over worker cores, collects them again and sends   *)
(* them out (processor_rx_dist_tx), the workers (processor_worker), the   *)
(* kernel interface with its owner core and its ring (glb_kni.c), and the *)
(* control core that stops the others and reports their counters          *)
(* (main_loop_control, send_logs_metrics).                                *)
(*                                                                        *)
(* A packet is its buffer (mbuf).  What a packet says is left out: whether *)
(* it is classified, encapsulated or refused is a choice (PacketPath      *)
(* models it).  The forwarding table that a core uses, and the messages   *)
(* that replace it, are in DirectorReload.                                *)
(***************************************************************************)
EXTENDS Integers, Sequences, FiniteSets, FiniteSetsExt, Functions

CONSTANTS NB_MBUF,         \* buffers of the pool
          Workers, Paths,
          StopOrder,       \* the slave cores in the order of their numbers
          Reported,        \* bound: the counters reported in a behaviour
          PKT_BURST_SZ,    \* packets in one burst of a flow path
          DIST_BURST,      \* packets the distributor gives a worker at once
          KniRingSize,     \* entries of the ring of a kernel interface
          MaxRx            \* bound: packets received in a behaviour

Rx == "rx"
TARGET_KNI == "kni"
TARGET_DROP == "drop"

\* The counters of struct processor_metrics that a packet moves.
Metrics == {"total", "director", "unmatched", "kni", "encapsulated",
            "encap_failed", "eth_tx", "kni_tx"}

ASSUME BoundsAssumption ==
    /\ {NB_MBUF, PKT_BURST_SZ, DIST_BURST, KniRingSize} \subseteq Nat \ {0}
    /\ MaxRx \in Nat
    /\ IsFiniteSet(Paths) /\ Paths \cap {TARGET_KNI, TARGET_DROP} = {}
    /\ Reported \in Seq(Metrics)
    /\ StopOrder \in Seq({Rx} \cup Workers)
    /\ IsInjective(StopOrder) /\ Range(StopOrder) = {Rx} \cup Workers

VARIABLES
    config,      \* the receiving core has the KNI workload; the owner of the KNI
    pool,        \* how many times the pool holds a buffer: 0 or 1
    target,      \* udata64 of a buffer
    rxAt,        \* where the receiving core is in its loop
    pkts,        \* its pkts_burst: packets taken back from the workers
    bursts,      \* per_path_tx_bursts
    backlog,     \* packets the distributor holds for a worker
    returned,    \* packets the workers returned, in the distributor
    lost,        \* packets the distributor forgot (clear_returns)
    workAt,      \* where a worker is in its loop
    work,        \* its pkts_burst
    kniRing,     \* kni_tx_ring
    stop,        \* how many cores have their director_stop set
    metrics,     \* the counters, summed over the cores
    statsd,      \* what was reported of each counter
    report       \* the counters still to report, and the value just read

vars == <<config, pool, target, rxAt, pkts, bursts, backlog, returned, lost,
          workAt, work, kniRing, stop, metrics, statsd, report>>

Mbufs == 1 .. NB_MBUF
NothingRead == -1

-------------------------------------------------------------------------------
(* Buffers. *)

\* rte_pktmbuf_free of every packet of S, and of packets that a device or the
\* kernel has taken over and releases when it is done with them.
Release(p, S) == [m \in Mbufs |-> IF m \in S THEN p[m] + 1 ELSE p[m]]

\* rte_eth_rx_burst and rte_kni_rx_burst fill buffers of the pool.
Fill(p, S) == [m \in Mbufs |-> IF m \in S THEN p[m] - 1 ELSE p[m]]
Idle(p) == {m \in Mbufs : p[m] > 0}

\* Buffers of the pool are interchangeable: the lowest are filled, in
\* ascending order.
Fillable(p) == {S \in SUBSET Idle(p) : \A m \in S, i \in Idle(p) \ S : m < i}

\* Buffers of S in an array of n entries.
Arrays(S, n) == {s \in UNION {[1 .. k -> S] : k \in 0 .. n} :
                   \A i, j \in DOMAIN s : i < j => s[i] < s[j]}

burst_free_missed_mbufs_All(s, sent) == s

\* A device took the first "sent" packets of s, the rest is freed.
burst_free_missed_mbufs(s, sent) == SubSeq(s, sent + 1, Len(s))

Handed(p, s, sent) ==
    Release(Release(p, Range(SubSeq(s, 1, sent))), Range(burst_free_missed_mbufs(s, sent)))

Counted(n) == metrics[n] + statsd[n]

Count(n, k) == metrics' = [metrics EXCEPT ![n] = @ + k]

\* rte_atomic32_read(&ctx->director_stop) of core c.
Stopped(c) == \E i \in 1 .. stop : StopOrder[i] = c

-------------------------------------------------------------------------------
Init ==
    /\ config \in [kni : {TRUE}, owner : {Rx, "other"}] \cup [kni : {FALSE}, owner : {"other"}]
    /\ pool = [m \in Mbufs |-> 1]
    /\ target = [m \in Mbufs |-> TARGET_DROP]
    /\ rxAt = "loop"
    /\ pkts = <<>>
    /\ bursts = [f \in Paths |-> <<>>]
    /\ backlog = [w \in Workers |-> <<>>]
    /\ returned = <<>>
    /\ lost = <<>>
    /\ workAt = [w \in Workers |-> "wait"]
    /\ work = [w \in Workers |-> <<>>]
    /\ kniRing = <<>>
    /\ stop = 0
    /\ metrics = [n \in Metrics |-> 0]
    /\ statsd = [n \in Metrics |-> 0]
    /\ report = [next |-> 1, read |-> NothingRead]

-------------------------------------------------------------------------------
(* The kernel interface. *)

\* handle_kni_to_nic: packets of the kernel go out on the port; what the
\* port does not take is freed.
KniToNic(p) == UNION {{Handed(Fill(p, Range(s)), s, sent) : sent \in 0 .. Len(s)} :
                         s \in Arrays(Idle(p), PKT_BURST_SZ)}

\* glb_kni_lcore_flush on the owner: the ring to the kernel, then the kernel
\* to the port.  The pools it may leave, and the rest of the ring.
KniFlushed == LET n == Min({Len(kniRing), PKT_BURST_SZ})
              IN  UNION {KniToNic(Handed(pool, SubSeq(kniRing, 1, n), sent)) : sent \in 0 .. n}
KniRingRest == SubSeq(kniRing, Min({Len(kniRing), PKT_BURST_SZ}) + 1, Len(kniRing))

\* glb_kni_safe_tx_burst of one packet: the owner hands it to the kernel,
\* which may be full, any other core puts it in the ring unless that is full.
glb_kni_safe_tx_burst(m) ==
    \E sent \in 0 .. 1 :
      /\ IF config.owner = Rx
           THEN /\ pool' = Handed(pool, <<m>>, sent)
                /\ UNCHANGED kniRing
           ELSE /\ sent = IF Len(kniRing) < KniRingSize THEN 1 ELSE 0
                /\ kniRing' = IF sent = 1 THEN Append(kniRing, m) ELSE kniRing
                /\ pool' = Release(pool, Range(burst_free_missed_mbufs(<<m>>, sent)))
      /\ Count("kni_tx", sent)

\* The loop of another core that owns the interface.
OwnerFlushes ==
    /\ config.owner = "other"
    /\ kniRing # <<>>
    /\ kniRing' = KniRingRest
    /\ pool' \in KniFlushed
    /\ UNCHANGED <<config, target, rxAt, pkts, bursts, backlog, returned, lost,
                   workAt, work, stop, metrics, statsd, report>>

-------------------------------------------------------------------------------
(* The receiving core. *)

Collected_AfterRx(received) ==
    IF received = 0 THEN 0 ELSE Min({Len(returned), PKT_BURST_SZ * Cardinality(Paths)})

\* rte_distributor_returned_pkts.  The distributor is run even when nothing
\* came in, so that packets come back from the workers.
Collected(received) == Min({Len(returned), PKT_BURST_SZ * Cardinality(Paths)})

\* rte_distributor_process gives every packet of S to a worker, chosen by its
\* flow.
Shares(S) == {share \in [Workers -> Arrays(S, Cardinality(S))] :
                \A m \in S : \E w \in Workers :
                  /\ m \in Range(share[w])
                  /\ \A v \in Workers : m \in Range(share[v]) => v = w}

\* The head of the loop of processor_rx_dist_tx: the kernel interface, then
\* processor_burst_rx_on_flows, rte_distributor_process and
\* rte_distributor_returned_pkts.
RxDistribute ==
    /\ rxAt = "loop"
    /\ ~Stopped(Rx)
    /\ kniRing' = IF config.owner = Rx THEN KniRingRest ELSE kniRing
    /\ \E p \in IF config.owner = Rx THEN KniFlushed ELSE {pool} :
       \E filled \in Fillable(p) :
       \E path \in [filled -> Paths], share \in Shares(filled) :
         /\ \A f \in Paths : Cardinality({m \in filled : path[m] = f}) <= PKT_BURST_SZ
         /\ Counted("total") + Cardinality(filled) <= MaxRx
         /\ pool' = Fill(p, filled)
         /\ target' = [m \in Mbufs |-> IF m \in filled THEN path[m] ELSE target[m]]
         /\ backlog' = [w \in Workers |-> backlog[w] \o share[w]]
         /\ Count("total", Cardinality(filled))
         /\ LET n == Collected(Cardinality(filled))
            IN  /\ pkts' = SubSeq(returned, 1, n)
                /\ returned' = SubSeq(returned, n + 1, Len(returned))
                /\ rxAt' = IF n = 0 THEN "loop" ELSE "shard"
    /\ UNCHANGED <<config, bursts, lost, workAt, work, stop, statsd, report>>

\* A burst that is full is sent before another packet is added to it.
Full(burst) == Len(burst) = PKT_BURST_SZ

Emptied_Kept(burst) == burst

\* flush_packet_burst resets num_packets.
Emptied(burst) == <<>>

\* The burst of flow path f is sent, and what the port does not take freed.
flush_packet_burst(f, burst) ==
    \E sent \in 0 .. Len(burst) :
      /\ pool' = Handed(pool, burst, sent)
      /\ bursts' = [bursts EXCEPT ![f] = Emptied(burst)]
      /\ Count("eth_tx", sent)

\* One round of the loop over the packets that came back.
ShardPacket ==
    /\ rxAt = "shard"
    /\ pkts # <<>>
    /\ pkts' = Tail(pkts)
    /\ LET m == Head(pkts)
           f == target[m]
       IN  \/ /\ f = TARGET_KNI /\ config.kni
              /\ glb_kni_safe_tx_burst(m)
              /\ UNCHANGED bursts
           \/ /\ f = TARGET_DROP \/ (f = TARGET_KNI /\ ~config.kni)
              /\ pool' = Release(pool, {m})
              /\ UNCHANGED <<kniRing, bursts, metrics>>
           \/ /\ f \in Paths
              /\ LET burst == Append(bursts[f], m)
                 IN  IF Full(burst)
                       THEN flush_packet_burst(f, burst)
                       ELSE /\ bursts' = [bursts EXCEPT ![f] = burst]
                            /\ UNCHANGED <<pool, metrics>>
              /\ UNCHANGED kniRing
    /\ UNCHANGED <<config, target, rxAt, backlog, returned, lost, workAt, work,
                   stop, statsd, report>>

\* One round of the loop that sends the burst of each flow path ...
FlushPath ==
    /\ rxAt = "shard" /\ pkts = <<>>
    /\ \E f \in Paths : bursts[f] # <<>> /\ flush_packet_burst(f, bursts[f])
    /\ UNCHANGED <<config, target, rxAt, pkts, backlog, returned, lost, workAt,
                   work, kniRing, stop, statsd, report>>

\* ... and the end of that loop, when none is left.
AllFlushed ==
    /\ rxAt = "shard" /\ pkts = <<>>
    /\ \A f \in Paths : bursts[f] = <<>>
    /\ rxAt' = "loop"
    /\ UNCHANGED <<config, pool, target, pkts, bursts, backlog, returned, lost,
                   workAt, work, kniRing, stop, metrics, statsd, report>>

\* Told to stop: rte_distributor_flush waits until no packet is held for a
\* worker, then rte_distributor_clear_returns forgets what came back.
flush_and_clear_returns ==
    /\ rxAt = "loop"
    /\ Stopped(Rx)
    /\ \A w \in Workers : backlog[w] = <<>>
    /\ lost' = returned
    /\ returned' = <<>>
    /\ rxAt' = "done"
    /\ UNCHANGED <<config, pool, target, pkts, bursts, backlog, workAt, work,
                   kniRing, stop, metrics, statsd, report>>

-------------------------------------------------------------------------------
(* The workers. *)

\* rte_distributor_get_pkt waits for a burst.  A flush lets every worker go,
\* with none.  A worker that is told to stop frees what it got.
get_pkt(w) ==
    /\ workAt[w] = "wait"
    /\ backlog[w] # <<>> \/ rxAt = "done"
    /\ LET n == Min({Len(backlog[w]), DIST_BURST})
           got == SubSeq(backlog[w], 1, n)
       IN  /\ backlog' = [backlog EXCEPT ![w] = SubSeq(@, n + 1, Len(@))]
           /\ \/ /\ Stopped(w)
                 /\ pool' = Release(pool, Range(got))
                 /\ workAt' = [workAt EXCEPT ![w] = "done"]
                 /\ UNCHANGED work
              \/ /\ ~Stopped(w)
                 /\ work' = [work EXCEPT ![w] = got]
                 /\ workAt' = [workAt EXCEPT ![w] = "classify"]
                 /\ UNCHANGED pool
    /\ UNCHANGED <<config, target, rxAt, pkts, bursts, returned, lost, kniRing,
                   stop, metrics, statsd, report>>

\* The next rte_distributor_get_pkt first gives back the last burst.
ReturnBurst(w) ==
    /\ returned' = returned \o work[w]
    /\ work' = [work EXCEPT ![w] = <<>>]
    /\ workAt' = [workAt EXCEPT ![w] = "wait"]

Dropped_Left(s) == target

\* Every packet of s is marked for being dropped.
Dropped(s) == [m \in Mbufs |-> IF m \in Range(s) THEN TARGET_DROP ELSE target[m]]

\* classify_to_tables failed: the whole burst is to be dropped.
ClassifyFails(w) ==
    /\ workAt[w] = "classify"
    /\ target' = Dropped(work[w])
    /\ Count("unmatched", Len(work[w]))
    /\ ReturnBurst(w)
    /\ UNCHANGED <<config, pool, rxAt, pkts, bursts, backlog, lost, kniRing, stop,
                   statsd, report>>

Outcomes == {"unclassified", "encapsulated", "encap_failed"}

\* Each packet of the burst is sent to the kernel, encapsulated (and keeps the
\* flow path it came on), or dropped when it cannot be encapsulated.
ProcessBurst(w) ==
    /\ workAt[w] = "classify"
    /\ \E outcome \in [Range(work[w]) -> Outcomes] :
         LET Number(o) == Cardinality({m \in DOMAIN outcome : outcome[m] = o})
         IN  /\ target' = [m \in Mbufs |->
                             IF m \notin DOMAIN outcome THEN target[m]
                             ELSE IF outcome[m] = "unclassified" THEN TARGET_KNI
                             ELSE IF outcome[m] = "encap_failed" THEN TARGET_DROP
                             ELSE target[m]]
             /\ metrics' = [metrics EXCEPT
                  !["kni"] = @ + Number("unclassified"),
                  !["director"] = @ + Number("encapsulated") + Number("encap_failed"),
                  !["encapsulated"] = @ + Number("encapsulated"),
                  !["encap_failed"] = @ + Number("encap_failed")]
    /\ ReturnBurst(w)
    /\ UNCHANGED <<config, pool, rxAt, pkts, bursts, backlog, lost, kniRing, stop,
                   statsd, report>>

-------------------------------------------------------------------------------
(* The control core. *)

\* One round of the loop in which main_loop_control tells every slave core to
\* stop.
NotifyStop ==
    /\ stop < Len(StopOrder)
    /\ stop' = stop + 1
    /\ UNCHANGED <<config, pool, target, rxAt, pkts, bursts, backlog, returned,
                   lost, workAt, work, kniRing, metrics, statsd, report>>

ReadMetric ==
    /\ report.next <= Len(Reported)
    /\ report.read = NothingRead
    /\ report' = [report EXCEPT !.read = metrics[Reported[report.next]]]
    /\ UNCHANGED <<config, pool, target, rxAt, pkts, bursts, backlog, returned,
                   lost, workAt, work, kniRing, stop, metrics, statsd>>

Rest_Zero(now, read) == 0

\* The value read is subtracted, so that what was counted since stays.
Rest(now, read) == now - read

SubtractMetric ==
    /\ report.read # NothingRead
    /\ LET n == Reported[report.next]
       IN  /\ metrics' = [metrics EXCEPT ![n] = Rest(@, report.read)]
           /\ statsd' = [statsd EXCEPT ![n] = @ + report.read]
    /\ report' = [next |-> report.next + 1, read |-> NothingRead]
    /\ UNCHANGED <<config, pool, target, rxAt, pkts, bursts, backlog, returned,
                   lost, workAt, work, kniRing, stop>>

-------------------------------------------------------------------------------
RxCore ==
    \/ RxDistribute \/ ShardPacket \/ FlushPath \/ AllFlushed \/ flush_and_clear_returns

Worker(w) == get_pkt(w) \/ ClassifyFails(w) \/ ProcessBurst(w)

Next ==
    \/ RxCore
    \/ \E w \in Workers : Worker(w)
    \/ OwnerFlushes
    \/ NotifyStop
    \/ ReadMetric
    \/ SubtractMetric

\* Every core runs one loop on a processor of its own.
Fairness ==
    /\ WF_vars(RxCore)
    /\ \A w \in Workers : WF_vars(Worker(w))
    /\ WF_vars(OwnerFlushes)

Spec == Init /\ [][Next]_vars /\ Fairness
-------------------------------------------------------------------------------
(* Properties. *)

\* The arrays of the code hold what is put into them: the burst of a flow
\* path PKT_BURST_SZ packets, the burst of a worker what the distributor may
\* give, the array of the receiving core a burst for every flow path.  None is
\* carried over into the next round of the loop.
TypeOK ==
    /\ config \in [kni : BOOLEAN, owner : {Rx, "other"}]
    /\ pool \in [Mbufs -> Nat]
    /\ target \in [Mbufs -> Paths \cup {TARGET_KNI, TARGET_DROP}]
    /\ rxAt \in {"loop", "shard", "done"}
    /\ {pkts, returned, lost, kniRing} \subseteq Seq(Mbufs)
    /\ bursts \in [Paths -> Seq(Mbufs)]
    /\ backlog \in [Workers -> Seq(Mbufs)] /\ work \in [Workers -> Seq(Mbufs)]
    /\ Len(pkts) <= PKT_BURST_SZ * Cardinality(Paths)
    /\ \A f \in Paths : Len(bursts[f]) < IF rxAt = "shard" THEN PKT_BURST_SZ ELSE 1
    /\ rxAt # "shard" => pkts = <<>>
    /\ \A w \in Workers : Len(work[w]) <= DIST_BURST
    /\ workAt \in [Workers -> {"wait", "classify", "done"}]
    /\ Len(kniRing) <= KniRingSize
    /\ stop \in 0 .. Len(StopOrder)
    /\ metrics \in [Metrics -> Nat]
    /\ statsd \in [Metrics -> Nat]

\* The arrays and rings that hold references to buffers, and what they hold.
Places == ({"pkts", "returned", "lost", "kniRing"} \X {Rx})
            \cup ({"bursts"} \X Paths) \cup ({"backlog", "work"} \X Workers)
Held(x) == CASE x[1] = "pkts" -> pkts
             [] x[1] = "returned" -> returned
             [] x[1] = "lost" -> lost
             [] x[1] = "kniRing" -> kniRing
             [] x[1] = "bursts" -> bursts[x[2]]
             [] x[1] = "backlog" -> backlog[x[2]]
             [] x[1] = "work" -> work[x[2]]
Holders(m) == {x \in Places : m \in Range(Held(x))}

\* A buffer has one holder at any time: no path through the cores, the
\* distributor, the kernel interface and its ring frees or sends a buffer
\* twice, or drops the last reference to one.  Packets that a port or the
\* kernel did not take, a full ring, failed bursts and cores that stop
\* included.
OneHolder ==
    /\ \A m \in Mbufs : pool[m] + Cardinality(Holders(m)) = 1
    /\ \A x \in Places : IsInjective(Held(x))

\* Packets that no worker has classified yet.
Unclassified == {m \in Mbufs : \E w \in Workers :
                   \/ m \in Range(backlog[w])
                   \/ workAt[w] = "classify" /\ m \in Range(work[w])}

\* The equations above struct processor_metrics: every packet received was
\* matched, unmatched or for the kernel, apart from those still on their way
\* to a worker, and every matched one was encapsulated or failed to be.  They
\* hold of what was reported and is still counted together, although the
\* control core reads and subtracts counters that other cores increment.
MetricsBalance ==
    /\ (\A w \in Workers : workAt[w] # "done") =>
          Counted("total") = Counted("director") + Counted("unmatched")
                               + Counted("kni") + Cardinality(Unclassified)
    /\ Counted("director") = Counted("encapsulated") + Counted("encap_failed")

\* Only an encapsulated packet goes out on a port, and only an unclassified
\* one to the kernel: a buffer that is used again does not carry over where
\* its last packet went, and a failed burst is not sent.
OnlyEncapsulatedSent ==
    /\ Counted("eth_tx") + Cardinality({m \in Mbufs : \E f \in Paths : m \in Range(bursts[f])})
         <= Counted("encapsulated")
    /\ Counted("kni_tx") <= Counted("kni")

\* Unless the director is stopped, a packet that came in leaves: its buffer
\* gets back to the pool, even when no other packet comes in.
PacketsLeave ==
    \A m \in Mbufs : pool[m] = 0 ~> (pool[m] > 0 \/ stop > 0)
===============================================================================
