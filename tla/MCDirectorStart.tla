-------------------------- MODULE MCDirectorStart --------------------------
(* DirectorStart for every way to give four slave cores one of six        *)
(* sections, documented or not, and the files with a setting amiss.       *)
EXTENDS DirectorStart, TLC

Section(w, n, s) == [workloads |-> w, flow_paths |-> <<0>>,
                     num_dist_workers |-> n, work_source |-> s]

Unlisted == Section({}, Absent, Absent)

Sections ==
    {Unlisted,
     Section({"rx", "tx", "dist"}, 1, Absent),
     Section({"rx", "tx", "dist", "kni"}, 2, Absent),
     Section({"work"}, Absent, 1),
     Section({"work"}, Absent, 3),
     Section({"rx", "tx"}, Absent, Absent)}

File(cores) ==
    [outbound_gateway_mac |-> "good", outbound_src_ip |-> "good", kni_ip |-> "absent",
     num_worker_queues |-> 1, flow_paths |-> 1, has_lcores |-> TRUE,
     hash_fields |-> "good", alt_hash_fields |-> "absent",
     lcores |-> [c \in {c \in DOMAIN cores : cores[c] # Unlisted} |-> cores[c]]]

Plain == File(1 :> Section({"rx", "tx", "dist", "kni"}, 1, Absent)
              @@ 2 :> Section({"work"}, Absent, 1))

Amiss ==
    {[Plain EXCEPT !.outbound_gateway_mac = "malformed"],
     [Plain EXCEPT !.kni_ip = "malformed"],
     [Plain EXCEPT !.hash_fields = "malformed"],
     [Plain EXCEPT !.num_worker_queues = Absent],
     [Plain EXCEPT !.num_worker_queues = 257],
     [Plain EXCEPT !.num_worker_queues = 3],
     [Plain EXCEPT !.flow_paths = Absent],
     [Plain EXCEPT !.flow_paths = 0],
     [Plain EXCEPT !.lcores[1].num_dist_workers = Absent],
     [Plain EXCEPT !.lcores[2].work_source = RTE_MAX_LCORE],
     [Plain EXCEPT !.lcores[2].work_source = RTE_MAX_LCORE + 1],
     File(0 :> Section({"kni"}, Absent, Absent) @@ Plain.lcores),
     File(0 :> Section({"kni"}, Absent, Absent)),
     File(1 :> Section({"rx", "tx", "dist", "work"}, 1, 1))}

MCFiles == {File(cores) : cores \in [1 .. 4 -> Sections]} \cup Amiss

============================================================================
