CONSTANTS
    w1 = w1
    w2 = w2
    Workers = {w1, w2}
    Paths = {f1, f2}
    NB_MBUF = 2
    StopOrder <- OrderMC
    Reported <- ReportedMC
    PKT_BURST_SZ = 2
    DIST_BURST = 2
    KniRingSize = 1
    MaxRx = 2
SPECIFICATION Spec
INVARIANTS TypeOK OneHolder MetricsBalance OnlyEncapsulatedSent
PROPERTIES PacketsLeave
CHECK_DEADLOCK FALSE
