------------------------ MODULE DirectorPipeline_proofs ------------------------
(***************************************************************************)
(* The packet pipeline for any number of buffers, workers and flow paths,  *)
(* any burst and ring sizes, and any order in which the cores are stopped. *)
(*                                                                         *)
(* Buffers are followed through "where", the contents of all arrays and    *)
(* rings by place.  Sound says that every buffer is in the pool or in one  *)
(* place, once; every step of a core exchanges buffers between the pool    *)
(* and a few places (lemma Exchange).  The counters are then compared with *)
(* the numbers of buffers on their way.                                    *)
(***************************************************************************)
EXTENDS DirectorPipeline, TLAPS

LEMMA Bounds ==
  /\ NB_MBUF \in Nat \ {0} /\ PKT_BURST_SZ \in Nat \ {0}
  /\ DIST_BURST \in Nat \ {0} /\ KniRingSize \in Nat \ {0}
  BY BoundsAssumption

(* What the proofs use of cardinalities; the last section shows it. *)
CardinalityFacts ==
  /\ Cardinality({}) = 0 /\ \A x : Cardinality({x}) = 1
  /\ Cardinality(Paths) \in Nat
  /\ \A S \in SUBSET Mbufs : Cardinality(S) \in Nat
  /\ \A S \in SUBSET Mbufs : \A T \in SUBSET S : Cardinality(T) <= Cardinality(S)
  /\ \A S, T \in SUBSET Mbufs :
       S \cap T = {} => Cardinality(S \cup T) = Cardinality(S) + Cardinality(T)
  /\ \A s \in Seq(Mbufs) : IsInjective(s) => Cardinality(Range(s)) = Len(s)

LEMMA MinTwo ==
  ASSUME NEW a \in Int, NEW b \in Int
  PROVE  Min({a, b}) \in {a, b} /\ Min({a, b}) <= a /\ Min({a, b}) <= b
<1>1. \E x \in {a, b} : \A y \in {a, b} : x <= y
  OBVIOUS
<1> QED BY <1>1 DEF Min

LEMMA MinLen ==
  ASSUME NEW S, NEW s \in Seq(S), NEW k \in Nat
  PROVE  Min({Len(s), k}) \in 0 .. Len(s) /\ Min({Len(s), k}) <= k
<1>1. Len(s) \in Nat
  OBVIOUS
<1>2. \A a, b \in Nat : Min({a, b}) \in 0 .. a /\ Min({a, b}) <= b
  BY MinTwo
<1> QED BY <1>1, <1>2, Zenon

-------------------------------------------------------------------------------
(* Sequences of buffers without repetition. *)

LEMMA SeqRange ==
  ASSUME NEW S, NEW s \in Seq(S)
  PROVE  /\ Range(s) \subseteq S
         /\ \A m : m \in Range(s) <=> \E i \in 1 .. Len(s) : s[i] = m
         /\ Len(s) \in Nat /\ DOMAIN s = 1 .. Len(s)
  BY DEF Range

LEMMA SameElements ==
  ASSUME NEW S, NEW s \in Seq(S), NEW t \in Seq(S), Len(s) = Len(t),
         \A i \in 1 .. Len(s) : s[i] = t[i]
  PROVE  s = t
  OBVIOUS

LEMMA Concatenated ==
  ASSUME NEW S, NEW s \in Seq(S), NEW t \in Seq(S)
  PROVE  /\ s \o t \in Seq(S) /\ Len(s \o t) = Len(s) + Len(t)
         /\ \A i \in 1 .. Len(s) + Len(t) :
              (s \o t)[i] = IF i <= Len(s) THEN s[i] ELSE t[i - Len(s)]
  OBVIOUS

LEMMA EmptyAdded ==
  ASSUME NEW S, NEW s \in Seq(S)
  PROVE  s \o <<>> = s /\ <<>> \o s = s
  OBVIOUS

\* The elements m to n of s.
LEMMA PartOf ==
  ASSUME NEW S, NEW s, NEW m \in Int, NEW n \in Int, \A i \in m .. n : s[i] \in S
  PROVE  /\ SubSeq(s, m, n) \in Seq(S)
         /\ Len(SubSeq(s, m, n)) = IF m <= n THEN n - m + 1 ELSE 0
         /\ \A i \in 1 .. n - m + 1 : SubSeq(s, m, n)[i] = s[m + i - 1]
  OBVIOUS

LEMMA BothRanges ==
  ASSUME NEW s \in Seq(Mbufs), NEW t \in Seq(Mbufs)
  PROVE  Range(s \o t) = Range(s) \cup Range(t)
<1> DEFINE u == s \o t
<1>1. /\ DOMAIN u = 1 .. Len(s) + Len(t) /\ Len(s) \in Nat /\ Len(t) \in Nat
      /\ DOMAIN s = 1 .. Len(s) /\ DOMAIN t = 1 .. Len(t)
      /\ \A i \in 1 .. Len(s) + Len(t) : u[i] = IF i <= Len(s) THEN s[i] ELSE t[i - Len(s)]
  OBVIOUS
<1> HIDE DEF u
<1>2. \A i \in 1 .. Len(s) : i \in DOMAIN u /\ u[i] = s[i]
  BY <1>1
<1>3. \A i \in 1 .. Len(t) : Len(s) + i \in DOMAIN u /\ u[Len(s) + i] = t[i]
  BY <1>1
<1>4. ASSUME NEW i \in DOMAIN u PROVE u[i] \in Range(s) \cup Range(t)
  <2>1. CASE i <= Len(s)
    BY <1>1, <2>1 DEF Range
  <2>2. CASE ~(i <= Len(s))
    <3>1. i - Len(s) \in 1 .. Len(t) /\ u[i] = t[i - Len(s)]
      BY <1>1, <2>2
    <3> QED BY <1>1, <3>1 DEF Range
  <2> QED BY <2>1, <2>2
<1>5. Range(s) \cup Range(t) \subseteq Range(u)
  BY <1>1, <1>2, <1>3, SMTT(30) DEF Range
<1> QED BY <1>4, <1>5, Zenon DEF Range, u

\* A sequence is cut in two.
LEMMA Cut ==
  ASSUME NEW S, NEW s \in Seq(S), IsInjective(s), NEW n \in 0 .. Len(s)
  PROVE  LET a == SubSeq(s, 1, n)
             b == SubSeq(s, n + 1, Len(s))
         IN  /\ a \in Seq(S) /\ IsInjective(a) /\ Len(a) = n
             /\ b \in Seq(S) /\ IsInjective(b) /\ Len(b) = Len(s) - n
             /\ Range(a) \cap Range(b) = {} /\ Range(a) \cup Range(b) = Range(s)
<1> DEFINE a == SubSeq(s, 1, n)
           b == SubSeq(s, n + 1, Len(s))
<1>0. Len(s) \in Nat
  BY SeqRange
<1>1. /\ Len(s) \in Nat /\ DOMAIN s = 1 .. Len(s)
      /\ \A i \in 1 .. Len(s) : s[i] \in S
      /\ \A i, j \in 1 .. Len(s) : s[i] = s[j] => i = j
  BY SeqRange DEF IsInjective
<1>2. /\ a \in Seq(S) /\ Len(a) = n
      /\ \A i \in 1 .. n : a[i] = s[i]
  BY <1>1, PartOf
<1>3. /\ b \in Seq(S) /\ Len(b) = Len(s) - n
      /\ \A i \in 1 .. Len(s) - n : b[i] = s[n + i]
  <2>1. n + 1 \in Int /\ Len(s) \in Int /\ \A i \in n + 1 .. Len(s) : s[i] \in S
    BY <1>1
  <2>2. /\ b \in Seq(S)
        /\ Len(b) = IF n + 1 <= Len(s) THEN Len(s) - (n + 1) + 1 ELSE 0
        /\ \A i \in 1 .. Len(s) - (n + 1) + 1 : b[i] = s[n + 1 + i - 1]
    BY <2>1, PartOf
  <2> HIDE DEF b
  <2>3. Len(s) - (n + 1) + 1 = Len(s) - n /\ (n + 1 <= Len(s) \/ Len(s) - n = 0)
    BY <1>0
  <2>4. ASSUME NEW i \in 1 .. Len(s) - n PROVE b[i] = s[n + i]
    <3>1. n + 1 + i - 1 = n + i
      BY <1>0
    <3> QED BY <2>2, <2>3, <3>1, ZenonT(30)
  <2> QED BY <1>0, <2>2, <2>3, <2>4, ZenonT(30)
<1> HIDE DEF a, b
<1>4. DOMAIN a = 1 .. n /\ DOMAIN b = 1 .. Len(s) - n
  BY <1>2, <1>3
<1>5. IsInjective(a) /\ IsInjective(b)
  <2>1. \A i, j \in 1 .. n : a[i] = a[j] => i = j
    BY <1>1, <1>2
  <2>2. ASSUME NEW i \in 1 .. Len(s) - n, NEW j \in 1 .. Len(s) - n, b[i] = b[j]
        PROVE  i = j
    <3>1. s[n + i] = s[n + j] /\ n + i \in 1 .. Len(s) /\ n + j \in 1 .. Len(s)
      BY <1>1, <1>3, <2>2
    <3> QED BY <1>1, <3>1
  <2> QED BY <1>4, <2>1, <2>2 DEF IsInjective
<1>a. \A m : m \in Range(a) <=> \E i \in 1 .. n : s[i] = m
  BY <1>2, <1>4 DEF Range
<1>b. \A m : m \in Range(b) <=> \E i \in 1 .. Len(s) - n : s[n + i] = m
  BY <1>3, <1>4, ZenonT(30) DEF Range
<1>c. \A m : m \in Range(s) <=> \E i \in 1 .. Len(s) : s[i] = m
  BY <1>1 DEF Range
<1>d. \A i \in 1 .. Len(s) - n : n + i \in 1 .. Len(s) /\ n + i \notin 1 .. n
  BY <1>1
<1>e. 1 .. n \subseteq 1 .. Len(s)
  BY <1>1
<1>6. Range(a) \cap Range(b) = {}
  <2> SUFFICES ASSUME NEW i \in 1 .. n, NEW j \in 1 .. Len(s) - n, s[i] = s[n + j]
               PROVE  FALSE
    BY <1>a, <1>b, ZenonT(30)
  <2> QED BY <1>1, <1>d, <1>e
<1>7. Range(a) \cup Range(b) = Range(s)
  <2>1. Range(a) \subseteq Range(s) /\ Range(b) \subseteq Range(s)
    BY <1>a, <1>b, <1>c, <1>d, <1>e, Zenon
  <2>2. ASSUME NEW i \in 1 .. Len(s) PROVE s[i] \in Range(a) \cup Range(b)
    <3>1. CASE i <= n
      BY <1>2, <1>4, <3>1 DEF Range
    <3>2. CASE i > n
      <4>1. i - n \in 1 .. Len(s) - n /\ b[i - n] = s[i]
        BY <1>1, <1>3, <3>2
      <4> QED BY <1>4, <4>1 DEF Range
    <3> QED BY <1>1, <3>1, <3>2
  <2>3. Range(s) \subseteq Range(a) \cup Range(b)
    BY <1>c, <2>2, ZenonT(30)
  <2> QED BY <2>1, <2>3, ZenonT(30)
<1> QED
  BY <1>2, <1>3, <1>5, <1>6, <1>7 DEF a, b

LEMMA Join ==
  ASSUME NEW s \in Seq(Mbufs), NEW t \in Seq(Mbufs), IsInjective(s), IsInjective(t),
         Range(s) \cap Range(t) = {}
  PROVE  s \o t \in Seq(Mbufs) /\ IsInjective(s \o t) /\ Range(s \o t) = Range(s) \cup Range(t)
<1>1. /\ s \o t \in Seq(Mbufs) /\ Len(s \o t) = Len(s) + Len(t)
      /\ Len(s) \in Nat /\ Len(t) \in Nat
      /\ DOMAIN s = 1 .. Len(s) /\ DOMAIN t = 1 .. Len(t)
      /\ DOMAIN (s \o t) = 1 .. Len(s) + Len(t)
  BY Concatenated, SeqRange
<1>2. \A i \in 1 .. Len(s) + Len(t) :
        (s \o t)[i] = IF i <= Len(s) THEN s[i] ELSE t[i - Len(s)]
  BY Concatenated
<1>3. IsInjective(s \o t)
  <2> SUFFICES ASSUME NEW i \in 1 .. Len(s) + Len(t), NEW j \in 1 .. Len(s) + Len(t),
                      (s \o t)[i] = (s \o t)[j]
               PROVE  i = j
    BY <1>1, Zenon DEF IsInjective
  <2>1. ASSUME NEW k \in 1 .. Len(s) + Len(t)
        PROVE  IF k <= Len(s) THEN (s \o t)[k] = s[k] /\ s[k] \in Range(s) /\ k \in DOMAIN s
                              ELSE /\ (s \o t)[k] = t[k - Len(s)] /\ k - Len(s) \in DOMAIN t
                                   /\ t[k - Len(s)] \in Range(t)
    <3>1. CASE k <= Len(s)
      BY <1>1, <1>2, <3>1 DEF Range
    <3>2. CASE ~(k <= Len(s))
      <4>1. k - Len(s) \in 1 .. Len(t)
        BY <1>1, <3>2
      <4> QED BY <1>1, <1>2, <3>2, <4>1 DEF Range
    <3> QED BY <3>1, <3>2
  <2>2. CASE i <= Len(s)
    BY <2>1, <2>2 DEF IsInjective
  <2>3. CASE ~(i <= Len(s))
    <3>1. ~(j <= Len(s))
      BY <2>1, <2>3
    <3>2. i - Len(s) = j - Len(s)
      BY <2>1, <2>3, <3>1 DEF IsInjective
    <3> QED BY <1>1, <3>2
  <2> QED BY <2>2, <2>3
<1> QED
  BY <1>1, <1>3, BothRanges

LEMMA One ==
  ASSUME NEW S, NEW m \in S
  PROVE  <<m>> \in Seq(S) /\ IsInjective(<<m>>) /\ Range(<<m>>) = {m} /\ Len(<<m>>) = 1
  BY DEF IsInjective, Range

LEMMA Empty ==
  ASSUME NEW S
  PROVE  <<>> \in Seq(S) /\ IsInjective(<<>>) /\ Range(<<>>) = {} /\ Len(<<>>) = 0
  BY DEF IsInjective, Range

LEMMA Appended ==
  \A s \in Seq(Mbufs) : \A m \in Mbufs :
    /\ Append(s, m) \in Seq(Mbufs) /\ Range(Append(s, m)) = Range(s) \cup {m}
    /\ IsInjective(s) /\ m \notin Range(s) => IsInjective(Append(s, m))
<1> TAKE s \in Seq(Mbufs)
<1> TAKE m \in Mbufs
<1>1. Append(s, m) = s \o <<m>> /\ Append(s, m) \in Seq(Mbufs)
  OBVIOUS
<1> DEFINE u == <<m>>
<1>2. u \in Seq(Mbufs) /\ IsInjective(u) /\ Range(u) = {m} /\ Append(s, m) = s \o u
  BY <1>1, One
<1> HIDE DEF u
<1>3. Range(s \o u) = Range(s) \cup {m}
  BY <1>2, BothRanges
<1>4. ASSUME IsInjective(s), m \notin Range(s) PROVE IsInjective(s \o u)
  <2>1. Range(s) \cap Range(u) = {}
    BY <1>2, <1>4
  <2> QED BY <1>2, <1>4, <2>1, Join
<1> QED BY <1>1, <1>2, <1>3, <1>4

-------------------------------------------------------------------------------
(* Who holds a buffer. *)

\* The pool p and the contents f of the places share the buffers out: each is
\* in the pool, or in one place and there once.
Sound(p, f) ==
    /\ p \in [Mbufs -> {0, 1}]
    /\ f \in [Places -> Seq(Mbufs)]
    /\ \A x \in Places : IsInjective(f[x])
    /\ \A x, y \in Places : x # y => Range(f[x]) \cap Range(f[y]) = {}
    /\ \A m \in Mbufs : p[m] = 1 <=> \A x \in Places : m \notin Range(f[x])

\* The places of A are filled anew, from what they held and from the pool,
\* and what they no longer hold is back in the pool.
Exchanged(p, f, A, q, g) ==
    /\ A \subseteq Places
    /\ g \in [Places -> Seq(Mbufs)]
    /\ q \in [Mbufs -> {0, 1}]
    /\ \A x \in Places \ A : g[x] = f[x]
    /\ \A x \in A : IsInjective(g[x])
    /\ \A x, y \in A : x # y => Range(g[x]) \cap Range(g[y]) = {}
    /\ \A x \in A : \A m \in Range(g[x]) : p[m] = 1 \/ \E y \in A : m \in Range(f[y])
    /\ \A m \in Mbufs : q[m] = IF \E x \in A : m \in Range(g[x]) THEN 0
                              ELSE IF \E x \in A : m \in Range(f[x]) THEN 1 ELSE p[m]

LEMMA Exchange ==
  ASSUME NEW p, NEW f, NEW A, NEW q, NEW g, Sound(p, f), Exchanged(p, f, A, q, g)
  PROVE  Sound(q, g)
<1> USE DEF Exchanged
<1>0. \A x \in Places : Range(g[x]) \subseteq Mbufs /\ Range(f[x]) \subseteq Mbufs
  BY SeqRange DEF Sound
<1>1. \A x \in Places : IsInjective(g[x])
  BY DEF Sound
<1>2. ASSUME NEW x \in A, NEW y \in Places \ A
      PROVE  Range(g[x]) \cap Range(f[y]) = {}
  <2> SUFFICES ASSUME NEW m \in Range(g[x]), m \in Range(f[y]) PROVE FALSE
    OBVIOUS
  <2>1. CASE p[m] = 1
    BY <1>0, <2>1 DEF Sound
  <2>2. CASE \E z \in A : m \in Range(f[z])
    BY <2>2, ZenonT(30) DEF Sound
  <2> QED BY <2>1, <2>2
<1>3. ASSUME NEW x \in Places, NEW y \in Places, x # y
      PROVE  Range(g[x]) \cap Range(g[y]) = {}
  <2>1. CASE x \in A /\ y \in A
    BY <1>3, <2>1, ZenonT(30)
  <2>2. CASE x \in A /\ y \notin A
    BY <1>2, <2>2, ZenonT(30)
  <2>3. CASE x \notin A /\ y \in A
    BY <1>2, <2>3, ZenonT(30)
  <2>4. CASE x \notin A /\ y \notin A
    BY <1>3, <2>4 DEF Sound
  <2> QED BY <2>1, <2>2, <2>3, <2>4
<1>4. ASSUME NEW m \in Mbufs
      PROVE  q[m] = 1 <=> \A x \in Places : m \notin Range(g[x])
  <2>1. CASE \E x \in A : m \in Range(g[x])
    BY <2>1
  <2>2. CASE (\A x \in A : m \notin Range(g[x])) /\ \E x \in A : m \in Range(f[x])
    <3>1. q[m] = 1
      BY <2>2, Zenon
    <3>2. \A y \in Places \ A : m \notin Range(f[y])
      BY <2>2, ZenonT(30) DEF Sound
    <3> QED BY <2>2, <3>1, <3>2
  <2>3. CASE \A x \in A : m \notin Range(g[x]) /\ m \notin Range(f[x])
    <3>1. q[m] = p[m]
      BY <2>3
    <3> QED BY <2>3, <3>1, ZenonT(30) DEF Sound
  <2> QED BY <2>1, <2>2, <2>3
<1> QED
  BY <1>1, <1>3, <1>4 DEF Sound

LEMMA FillOf ==
  ASSUME NEW p \in [Mbufs -> {0, 1}], NEW S \in SUBSET Idle(p)
  PROVE  /\ Fill(p, S) \in [Mbufs -> {0, 1}] /\ S \subseteq Mbufs
         /\ \A m \in S : p[m] = 1
         /\ \A m \in Mbufs : Fill(p, S)[m] = IF m \in S THEN 0 ELSE p[m]
  BY DEF Fill, Idle

\* Whatever the device takes, all packets handed to it are released.
LEMMA HandedOf ==
  ASSUME NEW p \in [Mbufs -> {0, 1}], NEW s \in Seq(Mbufs), IsInjective(s),
         NEW sent \in 0 .. Len(s)
  PROVE  Handed(p, s, sent) = Release(p, Range(s))
<1> DEFINE a == SubSeq(s, 1, sent)
           b == SubSeq(s, sent + 1, Len(s))
<1>1. Range(a) \cap Range(b) = {} /\ Range(a) \cup Range(b) = Range(s)
  BY Cut
<1> HIDE DEF a, b
<1>2. Release(Release(p, Range(a)), Range(b)) = Release(p, Range(s))
  BY <1>1 DEF Release
<1> QED BY <1>2 DEF Handed, burst_free_missed_mbufs, a, b

LEMMA ArraysOf ==
  ASSUME NEW S \in SUBSET Mbufs, NEW n \in Nat, NEW s \in Arrays(S, n)
  PROVE  s \in Seq(S) /\ IsInjective(s)
<1>1. PICK k \in 0 .. n : s \in [1 .. k -> S]
  BY DEF Arrays
<1>2. \A i, j \in 1 .. k : i < j => s[i] < s[j]
  BY <1>1 DEF Arrays
<1>3. ASSUME NEW i \in 1 .. k, NEW j \in 1 .. k, s[i] = s[j]
      PROVE  i = j
  <2>1. s[i] \in Int /\ s[j] \in Int
    <3>1. \A m \in S : m \in Int
      BY Bounds DEF Mbufs
    <3> QED BY <1>1, <3>1
  <2>2. ~(i < j) /\ ~(j < i)
    BY <1>2, <1>3, <2>1
  <2> QED BY <2>2
<1> QED BY <1>1, <1>3 DEF IsInjective

\* What the kernel sends leaves the pool as it was.
LEMMA KniToNicOf ==
  ASSUME NEW p \in [Mbufs -> {0, 1}], NEW q \in KniToNic(p)
  PROVE  q = p
<1>1. PICK s \in Arrays(Idle(p), PKT_BURST_SZ) :
        \E sent \in 0 .. Len(s) : q = Handed(Fill(p, Range(s)), s, sent)
  BY DEF KniToNic
<1>2. s \in Seq(Idle(p)) /\ IsInjective(s)
  BY <1>1, ArraysOf, Bounds, Zenon DEF Idle
<1>3. Range(s) \subseteq Idle(p) /\ s \in Seq(Mbufs)
  <2>1. Idle(p) \subseteq Mbufs
    BY DEF Idle
  <2> QED BY <1>2, <2>1, SeqRange, SMT
<1>4. Fill(p, Range(s)) \in [Mbufs -> {0, 1}]
  BY <1>3, FillOf
<1>5. q = Release(Fill(p, Range(s)), Range(s))
  BY <1>1, <1>2, <1>3, <1>4, HandedOf
<1> QED
  BY <1>5 DEF Release, Fill

\* The first n packets of a place are taken from it.
Taken(f, x, n, g) ==
    /\ x \in Places /\ n \in 0 .. Len(f[x])
    /\ g \in [Places -> Seq(Mbufs)]
    /\ g[x] = SubSeq(f[x], n + 1, Len(f[x]))
    /\ \A y \in Places : y # x => g[y] = f[y]

\* They are released.
LEMMA Drop ==
  ASSUME NEW p, NEW f, NEW x, NEW n, NEW g, Sound(p, f), Taken(f, x, n, g)
  PROVE  Sound(Release(p, Range(SubSeq(f[x], 1, n))), g)
<1> USE DEF Taken
<1> DEFINE a == SubSeq(f[x], 1, n)
<1>1. /\ Range(a) \cap Range(g[x]) = {} /\ Range(a) \cup Range(g[x]) = Range(f[x])
      /\ IsInjective(g[x])
  BY Cut DEF Sound
<1> HIDE DEF a
<1>2. Range(f[x]) \subseteq Mbufs /\ \A m \in Range(f[x]) : p[m] = 0
  BY SeqRange DEF Sound
<1>3. /\ Release(p, Range(a)) \in [Mbufs -> {0, 1}]
      /\ \A m \in Mbufs : Release(p, Range(a))[m] = IF m \in Range(a) THEN 1 ELSE p[m]
  <2>1. p \in [Mbufs -> {0, 1}]
    BY DEF Sound
  <2>2. Range(a) \in SUBSET Mbufs /\ \A m \in Range(a) : p[m] = 0
    BY <1>1, <1>2
  <2> QED BY <2>1, <2>2 DEF Release
<1> DEFINE A == {x}
           q == Release(p, Range(a))
<1>4. \A m \in Mbufs : q[m] = IF \E z \in A : m \in Range(g[z]) THEN 0
                             ELSE IF \E z \in A : m \in Range(f[z]) THEN 1 ELSE p[m]
  BY <1>1, <1>2, <1>3, ZenonT(30)
<1>5. \A y \in A : \A m \in Range(g[y]) : p[m] = 1 \/ \E z \in A : m \in Range(f[z])
  BY <1>1, ZenonT(30)
<1>6. /\ A \in SUBSET Places
      /\ \A z \in Places \ A : g[z] = f[z]
      /\ \A z \in A : IsInjective(g[z])
      /\ \A z, y \in A : z # y => Range(g[z]) \cap Range(g[y]) = {}
      /\ q \in [Mbufs -> {0, 1}]
  BY <1>1, <1>3, ZenonT(30)
<1> HIDE DEF A, q
<1>7. Sound(q, g)
  <2>1. Exchanged(p, f, A, q, g)
    BY <1>4, <1>5, <1>6, ZenonT(30) DEF Exchanged
  <2> QED BY <2>1, Exchange
<1> QED BY <1>7 DEF a, q

\* They are moved to the end of another place.
Moved(f, x, y, n, g) ==
    /\ x \in Places /\ y \in Places /\ x # y /\ n \in 0 .. Len(f[x])
    /\ g \in [Places -> Seq(Mbufs)]
    /\ g[x] = SubSeq(f[x], n + 1, Len(f[x]))
    /\ g[y] = f[y] \o SubSeq(f[x], 1, n)
    /\ \A z \in Places : z \notin {x, y} => g[z] = f[z]

LEMMA Move ==
  ASSUME NEW p, NEW f, NEW x, NEW y, NEW n, NEW g, Sound(p, f), Moved(f, x, y, n, g)
  PROVE  Sound(p, g)
<1> USE DEF Moved
<1> DEFINE a == SubSeq(f[x], 1, n)
<1>1. /\ Range(a) \cap Range(g[x]) = {} /\ Range(a) \cup Range(g[x]) = Range(f[x])
      /\ IsInjective(g[x]) /\ IsInjective(a) /\ a \in Seq(Mbufs)
  BY Cut DEF Sound
<1> HIDE DEF a
<1>2. /\ Range(f[x]) \subseteq Mbufs /\ \A m \in Range(f[x]) : p[m] = 0
      /\ Range(f[y]) \subseteq Mbufs /\ \A m \in Range(f[y]) : p[m] = 0
      /\ Range(f[x]) \cap Range(f[y]) = {}
      /\ p \in [Mbufs -> {0, 1}]
  BY SeqRange DEF Sound
<1>3. f[y] \in Seq(Mbufs) /\ IsInjective(f[y]) /\ Range(f[y]) \cap Range(a) = {}
  BY <1>1, <1>2 DEF Sound
<1>4. g[y] = f[y] \o a
  BY DEF a
<1>5. IsInjective(g[y]) /\ Range(g[y]) = Range(f[y]) \cup Range(a)
  <2>1. IsInjective(f[y] \o a) /\ Range(f[y] \o a) = Range(f[y]) \cup Range(a)
    BY <1>1, <1>3, Join
  <2> QED BY <1>4, <2>1, Zenon
<1> DEFINE A == {x, y}
<1>6. \A m \in Mbufs : p[m] = IF \E z \in A : m \in Range(g[z]) THEN 0
                             ELSE IF \E z \in A : m \in Range(f[z]) THEN 1 ELSE p[m]
  BY <1>1, <1>2, <1>5, ZenonT(30)
<1>7. \A z \in A : \A m \in Range(g[z]) : p[m] = 1 \/ \E u \in A : m \in Range(f[u])
  BY <1>1, <1>5, ZenonT(30)
<1>8. /\ A \in SUBSET Places
      /\ \A z \in Places \ A : g[z] = f[z]
      /\ \A z \in A : IsInjective(g[z])
      /\ \A z, u \in A : z # u => Range(g[z]) \cap Range(g[u]) = {}
  BY <1>1, <1>2, <1>5, ZenonT(30)
<1> HIDE DEF A
<1>9. Exchanged(p, f, A, p, g)
  BY <1>2, <1>6, <1>7, <1>8, ZenonT(30) DEF Exchanged
<1> QED BY <1>9, Exchange

\* Buffers of the pool are filled and given to the workers.
Supplied(f, share, g) ==
    /\ g \in [Places -> Seq(Mbufs)]
    /\ \A w \in Workers : g[<<"backlog", w>>] = f[<<"backlog", w>>] \o share[w]
    /\ \A x \in Places : x[1] # "backlog" => g[x] = f[x]

LEMMA SharesOf ==
  ASSUME CardinalityFacts, NEW S \in SUBSET Mbufs, NEW share \in Shares(S), NEW w \in Workers
  PROVE  /\ share[w] \in Seq(S) /\ share[w] \in Seq(Mbufs)
         /\ IsInjective(share[w]) /\ Range(share[w]) \subseteq S
<1>1. Cardinality(S) \in Nat
  BY DEF CardinalityFacts
<1>2. share[w] \in Arrays(S, Cardinality(S)) /\ Cardinality(S) \in Nat
  BY <1>1 DEF Shares
<1>3. share[w] \in Seq(S) /\ IsInjective(share[w])
  BY <1>2, ArraysOf, ZenonT(30)
<1>4. Range(share[w]) \subseteq S
  BY <1>3, SeqRange
<1> QED BY <1>3, <1>4

LEMMA Supply ==
  ASSUME CardinalityFacts, NEW p, NEW f, NEW g, Sound(p, f), NEW S \in SUBSET Idle(p),
         NEW share \in Shares(S), Supplied(f, share, g)
  PROVE  Sound(Fill(p, S), g)
<1> USE DEF Supplied
<1> DEFINE A == {x \in Places : x[1] = "backlog"}
<1>0. /\ \A w \in Workers : <<"backlog", w>> \in A
      /\ \A x \in A : x = <<"backlog", x[2]>> /\ x[2] \in Workers
  BY DEF Places
<1>1. /\ Fill(p, S) \in [Mbufs -> {0, 1}] /\ S \subseteq Mbufs
      /\ \A m \in S : p[m] = 1
      /\ \A m \in Mbufs : Fill(p, S)[m] = IF m \in S THEN 0 ELSE p[m]
  <2>1. p \in [Mbufs -> {0, 1}]
    BY DEF Sound
  <2> QED BY <2>1 DEF Fill, Idle
<1>2. ASSUME NEW w \in Workers
      PROVE  share[w] \in Seq(S) /\ IsInjective(share[w]) /\ Range(share[w]) \subseteq S
  BY <1>1, SharesOf
<1>3. \A m \in S : \E w \in Workers :
        m \in Range(share[w]) /\ \A v \in Workers : m \in Range(share[v]) => v = w
  BY Zenon DEF Shares
<1>4. ASSUME NEW x \in A
      PROVE  /\ IsInjective(g[x])
             /\ Range(g[x]) = Range(f[x]) \cup Range(share[x[2]])
             /\ \A m \in Range(f[x]) : m \in Mbufs /\ p[m] = 0
             /\ Range(share[x[2]]) \subseteq S
  <2>1. /\ f[x] \in Seq(Mbufs) /\ IsInjective(f[x]) /\ Range(f[x]) \subseteq Mbufs
        /\ \A m \in Range(f[x]) : p[m] = 0
    BY SeqRange DEF Sound
  <2>2. g[x] = f[x] \o share[x[2]] /\ x[2] \in Workers
    BY <1>0, ZenonT(30)
  <2>3. /\ share[x[2]] \in Seq(Mbufs) /\ IsInjective(share[x[2]])
        /\ Range(share[x[2]]) \subseteq S
    BY <1>1, <1>2, <2>2
  <2>4. Range(f[x]) \cap Range(share[x[2]]) = {}
    BY <1>1, <2>1, <2>3
  <2> QED BY <2>1, <2>2, <2>3, <2>4, Join
<1>5. ASSUME NEW x \in A, NEW y \in A, x # y
      PROVE  Range(g[x]) \cap Range(g[y]) = {}
  <2>1. Range(f[x]) \cap Range(f[y]) = {}
    BY <1>5 DEF Sound
  <2>2. x[2] # y[2] /\ x[2] \in Workers /\ y[2] \in Workers
    BY <1>0, <1>5
  <2>3. Range(share[x[2]]) \cap Range(share[y[2]]) = {}
    BY <1>2, <1>3, <2>2, ZenonT(30)
  <2>4. /\ Range(g[x]) = Range(f[x]) \cup Range(share[x[2]])
        /\ Range(g[y]) = Range(f[y]) \cup Range(share[y[2]])
        /\ Range(f[x]) \cap Range(share[y[2]]) = {}
        /\ Range(f[y]) \cap Range(share[x[2]]) = {}
    <3>1. ASSUME NEW z \in A, NEW m \in Range(f[z]) PROVE m \notin S
      BY <1>1, <1>4, <3>1
    <3> HIDE DEF A
    <3> QED BY <1>4, <3>1, ZenonT(30)
  <2> HIDE DEF A
  <2> QED BY <2>1, <2>3, <2>4
<1>6. \A m \in S : \E x \in A : m \in Range(g[x])
  <2> TAKE m \in S
  <2>1. PICK w \in Workers : m \in Range(share[w])
    BY <1>3
  <2>2. <<"backlog", w>> \in A /\ <<"backlog", w>>[2] = w
    BY <1>0
  <2>3. Range(g[<<"backlog", w>>]) = Range(f[<<"backlog", w>>]) \cup Range(share[w])
    BY <1>4, <2>2
  <2> QED BY <2>1, <2>2, <2>3, ZenonT(30)
<1> DEFINE q == Fill(p, S)
<1>a. A \in SUBSET Places /\ \A x \in Places \ A : g[x] = f[x]
  OBVIOUS
<1> HIDE DEF A
<1>b. ASSUME NEW x \in A, NEW m \in Range(g[x])
      PROVE  m \in S \/ (m \in Range(f[x]) /\ p[m] = 0)
  BY <1>4, ZenonT(30)
<1>c. ASSUME NEW x \in A, NEW m \in Range(f[x])
      PROVE  m \in Range(g[x])
  BY <1>4, ZenonT(30)
<1>7. ASSUME NEW m \in Mbufs
      PROVE  q[m] = IF \E x \in A : m \in Range(g[x]) THEN 0
                    ELSE IF \E x \in A : m \in Range(f[x]) THEN 1 ELSE p[m]
  <2>1. CASE m \in S
    BY <1>1, <1>6, <2>1
  <2>2. CASE m \notin S
    BY <1>1, <1>b, <1>c, <2>2, ZenonT(30)
  <2> QED BY <2>1, <2>2
<1>8. \A x \in A : \A m \in Range(g[x]) : p[m] = 1 \/ \E y \in A : m \in Range(f[y])
  BY <1>1, <1>b
<1>9. /\ \A x \in A : IsInjective(g[x])
      /\ \A x, y \in A : x # y => Range(g[x]) \cap Range(g[y]) = {}
      /\ q \in [Mbufs -> {0, 1}]
  BY <1>1, <1>4, <1>5, ZenonT(30)
<1> HIDE DEF q
<1>d. Sound(q, g)
  <2>1. Exchanged(p, f, A, q, g)
    BY <1>7, <1>8, <1>9, <1>a, ZenonT(30) DEF Exchanged
  <2> QED BY <2>1, Exchange
<1> QED BY <1>d DEF q

-------------------------------------------------------------------------------
(* The invariant. *)

where == [x \in Places |-> Held(x)]

Contents ==
    /\ {pkts, returned, lost, kniRing} \subseteq Seq(Mbufs)
    /\ bursts \in [Paths -> Seq(Mbufs)]
    /\ backlog \in [Workers -> Seq(Mbufs)] /\ work \in [Workers -> Seq(Mbufs)]

\* A worker holds packets only while it classifies them, and packets are
\* forgotten only when the receiving core ends.
Resting ==
    /\ \A w \in Workers : workAt[w] # "classify" => work[w] = <<>>
    /\ rxAt # "done" => lost = <<>>

\* A value that was read has not been counted down since.
Reporting ==
    /\ report \in [next : Nat \ {0}, read : Int]
    /\ report.read # NothingRead =>
         /\ report.next <= Len(Reported)
         /\ report.read \in 0 .. metrics[Reported[report.next]]

BInv == TypeOK /\ Sound(pool, where) /\ Resting /\ Reporting

LEMMA PlacesAre ==
  /\ <<"pkts", Rx>> \in Places /\ <<"returned", Rx>> \in Places
  /\ <<"lost", Rx>> \in Places /\ <<"kniRing", Rx>> \in Places
  /\ \A f \in Paths : <<"bursts", f>> \in Places
  /\ \A w \in Workers : <<"backlog", w>> \in Places /\ <<"work", w>> \in Places
  /\ \A x \in Places :
       \/ x \in {<<"pkts", Rx>>, <<"returned", Rx>>, <<"lost", Rx>>, <<"kniRing", Rx>>}
       \/ \E f \in Paths : x = <<"bursts", f>>
       \/ \E w \in Workers : x = <<"backlog", w>> \/ x = <<"work", w>>
  BY DEF Places

LEMMA WhereIs ==
  /\ where[<<"pkts", Rx>>] = pkts /\ where[<<"returned", Rx>>] = returned
  /\ where[<<"lost", Rx>>] = lost /\ where[<<"kniRing", Rx>>] = kniRing
  /\ \A f \in Paths : where[<<"bursts", f>>] = bursts[f]
  /\ \A w \in Workers : where[<<"backlog", w>>] = backlog[w] /\ where[<<"work", w>>] = work[w]
  BY PlacesAre DEF where, Held

LEMMA WhereWillBe ==
  /\ where'[<<"pkts", Rx>>] = pkts' /\ where'[<<"returned", Rx>>] = returned'
  /\ where'[<<"lost", Rx>>] = lost' /\ where'[<<"kniRing", Rx>>] = kniRing'
  /\ \A f \in Paths : where'[<<"bursts", f>>] = bursts'[f]
  /\ \A w \in Workers : where'[<<"backlog", w>>] = backlog'[w] /\ where'[<<"work", w>>] = work'[w]
  BY PlacesAre DEF where, Held

LEMMA WhereTypes ==
  ASSUME Contents
  PROVE  where \in [Places -> Seq(Mbufs)]
<1>1. ASSUME NEW x \in Places PROVE where[x] \in Seq(Mbufs)
  <2>1. CASE x \in {<<"pkts", Rx>>, <<"returned", Rx>>, <<"lost", Rx>>, <<"kniRing", Rx>>}
    BY <2>1, WhereIs, ZenonT(30) DEF Contents
  <2>2. ASSUME NEW f \in Paths PROVE where[<<"bursts", f>>] \in Seq(Mbufs)
    BY WhereIs DEF Contents
  <2>3. ASSUME NEW w \in Workers
        PROVE  /\ where[<<"backlog", w>>] \in Seq(Mbufs)
               /\ where[<<"work", w>>] \in Seq(Mbufs)
    BY WhereIs DEF Contents
  <2> QED BY <2>1, <2>2, <2>3, PlacesAre, ZenonT(30)
<1> QED BY <1>1 DEF where

LEMMA Injective ==
  ASSUME Sound(pool, where)
  PROVE  /\ IsInjective(pkts) /\ IsInjective(returned) /\ IsInjective(lost)
         /\ IsInjective(kniRing)
         /\ \A f \in Paths : IsInjective(bursts[f])
         /\ \A w \in Workers : IsInjective(backlog[w]) /\ IsInjective(work[w])
  BY PlacesAre, WhereIs, ZenonT(30) DEF Sound

LEMMA KniFlushedOf ==
  ASSUME pool \in [Mbufs -> {0, 1}], kniRing \in Seq(Mbufs), IsInjective(kniRing),
         \A m \in Range(kniRing) : pool[m] = 0,
         NEW p \in KniFlushed
  PROVE  p = Release(pool, Range(SubSeq(kniRing, 1, Min({Len(kniRing), PKT_BURST_SZ}))))
<1> DEFINE n == Min({Len(kniRing), PKT_BURST_SZ})
           s == SubSeq(kniRing, 1, n)
<1>1. n \in 0 .. Len(kniRing)
  BY MinLen, Bounds
<1> HIDE DEF n
<1>2. /\ s \in Seq(Mbufs) /\ IsInjective(s) /\ Len(s) = n
      /\ Range(s) \subseteq Range(kniRing) /\ Range(s) \subseteq Mbufs
  BY <1>1, Cut, SeqRange
<1>3. PICK sent \in 0 .. n : p \in KniToNic(Handed(pool, s, sent))
  BY ZenonT(30) DEF KniFlushed, n
<1> HIDE DEF s
<1>4. Handed(pool, s, sent) = Release(pool, Range(s))
  BY <1>2, <1>3, HandedOf
<1>5. Release(pool, Range(s)) \in [Mbufs -> {0, 1}]
  BY <1>2 DEF Release
<1>6. p = Release(pool, Range(s))
  BY <1>3, <1>4, <1>5, KniToNicOf
<1> QED BY <1>6 DEF s, n

-------------------------------------------------------------------------------
(* Every step exchanges buffers between places and the pool. *)

LEMMA HeadCut ==
  ASSUME NEW S, NEW s \in Seq(S), s # <<>>
  PROVE  /\ SubSeq(s, 1, 1) = <<Head(s)>> /\ SubSeq(s, 1 + 1, Len(s)) = Tail(s)
         /\ 1 \in 0 .. Len(s) /\ Head(s) \in S /\ Tail(s) \in Seq(S)
<1>1. /\ Len(s) \in Nat \ {0} /\ Head(s) = s[1] /\ Head(s) \in S
      /\ \A i \in 1 .. Len(s) : s[i] \in S
  OBVIOUS
<1>2. /\ SubSeq(s, 1, 1) \in Seq(S) /\ Len(SubSeq(s, 1, 1)) = 1
      /\ \A i \in 1 .. 1 : SubSeq(s, 1, 1)[i] = s[i]
  BY <1>1, PartOf
<1>3. SubSeq(s, 1, 1) = <<Head(s)>>
  <2>1. <<Head(s)>> \in Seq(S) /\ Len(<<Head(s)>>) = 1 /\ <<Head(s)>>[1] = s[1]
    BY <1>1
  <2>2. \A i \in 1 .. Len(SubSeq(s, 1, 1)) : SubSeq(s, 1, 1)[i] = <<Head(s)>>[i]
    BY <1>2, <2>1
  <2> QED BY <1>2, <2>1, <2>2, SameElements, ZenonT(30)
<1>4. Tail(s) = SubSeq(s, 2, Len(s)) /\ Tail(s) \in Seq(S) /\ 1 + 1 = 2
  OBVIOUS
<1>5. 1 \in 0 .. Len(s)
  BY <1>1
<1> QED BY <1>1, <1>3, <1>4, <1>5

\* A single packet that is not sent is freed.
LEMMA Missed ==
  ASSUME NEW m
  PROVE  /\ Range(burst_free_missed_mbufs(<<m>>, 1)) = {}
         /\ Range(burst_free_missed_mbufs(<<m>>, 0)) = {m}
         /\ Range(<<m>>) = {m}
  BY DEF burst_free_missed_mbufs, Range

\* The cases of the loop over the packets that came back: freed, put in the
\* ring of the kernel interface, added to a burst, or completing a burst that
\* is then sent.
LEMMA ShardCases ==
  ASSUME BInv, ShardPacket
  PROVE  /\ pkts # <<>> /\ pkts' = Tail(pkts)
         /\ LET m == Head(pkts)
                f == target[m]
                burst == Append(bursts[f], m)
            IN  \/ pool' = Release(pool, {m}) /\ UNCHANGED <<kniRing, bursts>>
                \/ /\ pool' = pool /\ kniRing' = Append(kniRing, m) /\ bursts' = bursts
                   /\ Len(kniRing) < KniRingSize
                \/ /\ f \in Paths /\ UNCHANGED <<pool, kniRing>>
                   /\ bursts' = [bursts EXCEPT ![f] = burst]
                   /\ ~Full(burst)
                \/ /\ f \in Paths /\ UNCHANGED kniRing
                   /\ bursts' = [bursts EXCEPT ![f] = <<>>]
                   /\ \E sent \in 0 .. Len(burst) : pool' = Handed(pool, burst, sent)
<1> DEFINE m == Head(pkts)
           f == target[m]
           burst == Append(bursts[f], m)
<1>0. pool \in [Mbufs -> {0, 1}]
  BY ZenonT(30) DEF BInv, Sound
<1>a. m \in Mbufs
  BY DEF BInv, TypeOK, ShardPacket
<1>1. pkts # <<>> /\ pkts' = Tail(pkts)
  BY DEF ShardPacket
<1>2. CASE f = TARGET_KNI /\ config.kni /\ glb_kni_safe_tx_burst(m) /\ UNCHANGED bursts
  <2>1. PICK sent \in 0 .. 1 :
          IF config.owner = Rx
            THEN pool' = Handed(pool, <<m>>, sent) /\ UNCHANGED kniRing
            ELSE /\ sent = IF Len(kniRing) < KniRingSize THEN 1 ELSE 0
                 /\ kniRing' = IF sent = 1 THEN Append(kniRing, m) ELSE kniRing
                 /\ pool' = Release(pool, Range(burst_free_missed_mbufs(<<m>>, sent)))
    BY <1>2 DEF glb_kni_safe_tx_burst
  <2> HIDE DEF m, f
  <2>2. CASE config.owner = Rx
    <3>1. Handed(pool, <<m>>, sent) = Release(pool, Range(<<m>>))
      BY <1>0, <1>a, One, HandedOf, ZenonT(30)
    <3>2. pool' = Release(pool, {m}) /\ UNCHANGED <<kniRing, bursts>>
      BY <1>2, <2>1, <2>2, <3>1, Missed, ZenonT(30)
    <3> QED BY <1>1, <3>2 DEF m, f
  <2>3. CASE config.owner # Rx /\ sent = 1
    <3>1. Release(pool, {}) = pool
      BY <1>0 DEF Release
    <3>2. /\ pool' = pool /\ kniRing' = Append(kniRing, m) /\ bursts' = bursts
          /\ Len(kniRing) < KniRingSize
      BY <1>2, <2>1, <2>3, <3>1, Missed, ZenonT(30)
    <3> QED BY <1>1, <3>2 DEF m, f
  <2>4. CASE config.owner # Rx /\ sent = 0
    <3>1. pool' = Release(pool, {m}) /\ UNCHANGED <<kniRing, bursts>>
      BY <1>2, <2>1, <2>4, Missed, ZenonT(30)
    <3> QED BY <1>1, <3>1 DEF m, f
  <2> QED BY <2>1, <2>2, <2>3, <2>4, ZenonT(30)
<1>3. CASE pool' = Release(pool, {m}) /\ UNCHANGED <<kniRing, bursts, metrics>>
  BY <1>1, <1>3, Zenon
<1>4. CASE /\ f \in Paths
           /\ IF Full(burst)
                THEN flush_packet_burst(f, burst)
                ELSE bursts' = [bursts EXCEPT ![f] = burst] /\ UNCHANGED <<pool, metrics>>
           /\ UNCHANGED kniRing
  BY <1>1, <1>4 DEF flush_packet_burst, Emptied
<1> QED
  BY <1>2, <1>3, <1>4, ZenonT(30) DEF ShardPacket

LEMMA HoldersInit ==
  ASSUME Init
  PROVE  Sound(pool, where) /\ Contents
<1>1. Contents
  BY Empty DEF Init, Contents
<1>2. where \in [Places -> Seq(Mbufs)]
  BY <1>1, WhereTypes, ZenonT(30)
<1>3. ASSUME NEW x \in Places PROVE where[x] = <<>>
  <2>1. /\ pkts = <<>> /\ returned = <<>> /\ lost = <<>> /\ kniRing = <<>>
        /\ \A f \in Paths : bursts[f] = <<>>
        /\ \A w \in Workers : backlog[w] = <<>> /\ work[w] = <<>>
    BY DEF Init
  <2>2. CASE x \in {<<"pkts", Rx>>, <<"returned", Rx>>, <<"lost", Rx>>, <<"kniRing", Rx>>}
    BY <2>1, <2>2, WhereIs, ZenonT(30)
  <2>3. CASE \E f \in Paths : x = <<"bursts", f>>
    BY <2>1, <2>3, WhereIs, ZenonT(30)
  <2>4. CASE \E w \in Workers : x = <<"backlog", w>> \/ x = <<"work", w>>
    BY <2>1, <2>4, WhereIs, ZenonT(30)
  <2> QED BY <2>2, <2>3, <2>4, PlacesAre, ZenonT(30)
<1>4. pool \in [Mbufs -> {0, 1}] /\ \A m \in Mbufs : pool[m] = 1
  BY DEF Init
<1>5. \A x \in Places : IsInjective(where[x]) /\ Range(where[x]) = {}
  BY <1>3, Empty
<1> QED BY <1>1, <1>2, <1>4, <1>5 DEF Sound

LEMMA HoldersStep ==
  ASSUME CardinalityFacts
  PROVE  BInv /\ [Next]_vars => Sound(pool', where') /\ Contents'
\* What happens to the arrays outside A does not happen to the places.
<1>Elsewhere. ASSUME NEW A,
                     <<"pkts", Rx>> \in A \/ pkts' = pkts,
                     <<"returned", Rx>> \in A \/ returned' = returned,
                     <<"lost", Rx>> \in A \/ lost' = lost,
                     <<"kniRing", Rx>> \in A \/ kniRing' = kniRing,
                     \A f \in Paths : <<"bursts", f>> \in A \/ bursts'[f] = bursts[f],
                     \A w \in Workers : <<"backlog", w>> \in A \/ backlog'[w] = backlog[w],
                     \A w \in Workers : <<"work", w>> \in A \/ work'[w] = work[w]
              PROVE  \A x \in Places : x \notin A => where'[x] = where[x]
  <2> USE <1>Elsewhere
  <2> SUFFICES ASSUME NEW x \in Places, x \notin A PROVE where'[x] = where[x]
    OBVIOUS
  <2>1. CASE x \in {<<"pkts", Rx>>, <<"returned", Rx>>, <<"lost", Rx>>, <<"kniRing", Rx>>}
    <3>1. CASE x = <<"pkts", Rx>>
      BY <3>1, WhereIs, WhereWillBe, Zenon
    <3>2. CASE x = <<"returned", Rx>>
      BY <3>2, WhereIs, WhereWillBe, Zenon
    <3>3. CASE x = <<"lost", Rx>>
      BY <3>3, WhereIs, WhereWillBe, Zenon
    <3>4. CASE x = <<"kniRing", Rx>>
      BY <3>4, WhereIs, WhereWillBe, Zenon
    <3> QED BY <2>1, <3>1, <3>2, <3>3, <3>4, Zenon
  <2>2. CASE \E f \in Paths : x = <<"bursts", f>>
    <3>1. PICK f \in Paths : x = <<"bursts", f>>
      BY <2>2
    <3>2. bursts'[f] = bursts[f]
      BY <3>1
    <3> QED BY <3>1, <3>2, WhereIs, WhereWillBe
  <2>3. CASE \E w \in Workers : x = <<"backlog", w>> \/ x = <<"work", w>>
    <3>1. PICK w \in Workers : x = <<"backlog", w>> \/ x = <<"work", w>>
      BY <2>3
    <3>2. CASE x = <<"backlog", w>>
      <4>1. backlog'[w] = backlog[w]
        BY <3>2
      <4> QED BY <3>2, <4>1, WhereIs, WhereWillBe, ZenonT(30)
    <3>3. CASE x = <<"work", w>>
      <4>1. work'[w] = work[w]
        BY <3>3
      <4> QED BY <3>3, <4>1, WhereIs, WhereWillBe, ZenonT(30)
    <3> QED BY <3>1, <3>2, <3>3
  <2> QED BY <2>1, <2>2, <2>3, PlacesAre
<1>WhereTypesPrime. ASSUME Contents'
                    PROVE  where' \in [Places -> Seq(Mbufs)]
  <2> USE <1>WhereTypesPrime
  <2>1. ASSUME NEW x \in Places PROVE where'[x] \in Seq(Mbufs)
    <3>1. CASE x \in {<<"pkts", Rx>>, <<"returned", Rx>>, <<"lost", Rx>>, <<"kniRing", Rx>>}
      BY <3>1, WhereWillBe, ZenonT(30) DEF Contents
    <3>2. ASSUME NEW f \in Paths PROVE where'[<<"bursts", f>>] \in Seq(Mbufs)
      BY WhereWillBe DEF Contents
    <3>3. ASSUME NEW w \in Workers
          PROVE  /\ where'[<<"backlog", w>>] \in Seq(Mbufs)
                 /\ where'[<<"work", w>>] \in Seq(Mbufs)
      BY WhereWillBe DEF Contents
    <3> QED BY <3>1, <3>2, <3>3, PlacesAre, ZenonT(30)
  <2> QED BY <2>1 DEF where
<1>OwnerFlushesHolds. ASSUME BInv, OwnerFlushes
                      PROVE  Sound(pool', where') /\ Contents'
  <2> USE <1>OwnerFlushesHolds
  <2> DEFINE x == <<"kniRing", Rx>>
             n == Min({Len(kniRing), PKT_BURST_SZ})
  <2>1. /\ Contents /\ IsInjective(kniRing) /\ kniRing \in Seq(Mbufs)
        /\ pool \in [Mbufs -> {0, 1}] /\ Sound(pool, where)
    BY Injective, Zenon DEF BInv, TypeOK, Contents, Sound
  <2>2. n \in 0 .. Len(kniRing)
    BY <2>1, MinLen, Bounds
  <2>6. /\ x \in Places /\ where[x] = kniRing
        /\ where'[x] = SubSeq(kniRing, n + 1, Len(kniRing))
        /\ kniRing' = SubSeq(kniRing, n + 1, Len(kniRing))
    BY PlacesAre, WhereIs, WhereWillBe DEF OwnerFlushes, KniRingRest
  <2>7. \A y \in Places : y \notin {x} => where'[y] = where[y]
    BY <1>Elsewhere, ZenonT(30) DEF OwnerFlushes
  <2>a. \A m \in Range(kniRing) : pool[m] = 0
    BY <2>1, <2>6, SeqRange DEF Sound
  <2>5. pool' = Release(pool, Range(SubSeq(kniRing, 1, n)))
    BY <2>1, <2>a, KniFlushedOf, ZenonT(30) DEF OwnerFlushes
  <2> HIDE DEF n
  <2>3. kniRing' \in Seq(Mbufs)
    BY <2>1, <2>2, <2>6, Cut, Zenon
  <2>4. Contents'
    BY <2>1, <2>3 DEF Contents, OwnerFlushes
  <2>8. where' \in [Places -> Seq(Mbufs)]
    BY <2>4, <1>WhereTypesPrime
  <2> HIDE DEF x
  <2>9. Taken(where, x, n, where')
    BY <2>2, <2>6, <2>7, <2>8 DEF Taken
  <2> QED
    BY <2>1, <2>4, <2>5, <2>6, <2>9, Drop, ZenonT(30)
<1>get_pktHolds. ASSUME BInv, NEW w \in Workers, get_pkt(w)
                 PROVE  Sound(pool', where') /\ Contents'
  <2> USE <1>get_pktHolds
  <2> DEFINE x == <<"backlog", w>>
             y == <<"work", w>>
             n == Min({Len(backlog[w]), DIST_BURST})
  <2>1. /\ Contents /\ IsInjective(backlog[w]) /\ backlog[w] \in Seq(Mbufs)
        /\ Sound(pool, where) /\ work[w] = <<>>
    BY Injective, ZenonT(30) DEF BInv, TypeOK, Contents, Resting, get_pkt
  <2>2. n \in 0 .. Len(backlog[w])
    BY <2>1, MinLen, Bounds, Zenon
  <2>3. /\ x \in Places /\ y \in Places /\ x # y
        /\ where[x] = backlog[w] /\ where[y] = <<>>
        /\ where'[x] = backlog'[w] /\ where'[y] = work'[w]
    BY <2>1, PlacesAre, WhereIs, WhereWillBe
  <2>4. /\ backlog' = [backlog EXCEPT ![w] = SubSeq(backlog[w], n + 1, Len(backlog[w]))]
        /\ \/ work' = work /\ pool' = Release(pool, Range(SubSeq(backlog[w], 1, n)))
           \/ work' = [work EXCEPT ![w] = SubSeq(backlog[w], 1, n)] /\ pool' = pool
        /\ UNCHANGED <<pkts, bursts, returned, lost, kniRing>>
    BY ZenonT(30) DEF get_pkt
  <2> HIDE DEF n
  <2>5. /\ SubSeq(backlog[w], n + 1, Len(backlog[w])) \in Seq(Mbufs)
        /\ SubSeq(backlog[w], 1, n) \in Seq(Mbufs)
    BY <2>1, <2>2, Cut
  <2>6. backlog'[w] = SubSeq(backlog[w], n + 1, Len(backlog[w]))
    BY <2>1, <2>4, ZenonT(30) DEF Contents
  <2>7. Contents'
    BY <2>1, <2>4, <2>5, ZenonT(30) DEF Contents
  <2>8. where' \in [Places -> Seq(Mbufs)]
    BY <2>7, <1>WhereTypesPrime, Zenon
  <2>9. CASE work' = work /\ pool' = Release(pool, Range(SubSeq(backlog[w], 1, n)))
    <3>1. \A z \in Places : z \notin {x} => where'[z] = where[z]
      BY <2>1, <2>4, <2>9, <1>Elsewhere, ZenonT(30) DEF Contents
    <3> HIDE DEF x, y
    <3>2. Taken(where, x, n, where')
      BY <2>2, <2>3, <2>6, <2>8, <3>1 DEF Taken
    <3> QED BY <2>1, <2>3, <2>7, <2>9, <3>2, Drop
  <2>10. CASE work' = [work EXCEPT ![w] = SubSeq(backlog[w], 1, n)] /\ pool' = pool
    <3>1. \A z \in Places : z \notin {x, y} => where'[z] = where[z]
      BY <2>1, <2>4, <2>10, <1>Elsewhere, ZenonT(30) DEF Contents
    <3>2. where'[y] = where[y] \o SubSeq(where[x], 1, n)
      BY <2>1, <2>3, <2>5, <2>10, EmptyAdded DEF Contents
    <3> HIDE DEF x, y
    <3>3. Moved(where, x, y, n, where')
      BY <2>2, <2>3, <2>6, <2>8, <3>1, <3>2 DEF Moved
    <3> QED BY <2>1, <2>7, <2>10, <3>3, Move, ZenonT(30)
  <2> QED
    BY <2>4, <2>9, <2>10, ZenonT(30)
\* All of a sequence.
<1>Whole. ASSUME NEW S, NEW s \in Seq(S)
          PROVE  /\ SubSeq(s, 1, Len(s)) = s /\ SubSeq(s, Len(s) + 1, Len(s)) = <<>>
                 /\ Len(s) \in 0 .. Len(s) /\ Len(s) \in Nat
  <2> USE <1>Whole
  <2>1. Len(s) \in Nat /\ Len(s) \in 0 .. Len(s)
    OBVIOUS
  <2>2. SubSeq(s, Len(s) + 1, Len(s)) = <<>>
    BY <2>1
  <2>3. SubSeq(s, 1, Len(s)) = s
    <3>1. /\ SubSeq(s, 1, Len(s)) \in Seq(S) /\ Len(SubSeq(s, 1, Len(s))) = Len(s)
          /\ \A i \in 1 .. Len(s) : SubSeq(s, 1, Len(s))[i] = s[i]
      BY PartOf
    <3> QED BY <3>1, SameElements
  <2> QED BY <2>1, <2>2, <2>3
<1>ReturnBurstHolds. ASSUME BInv, NEW w \in Workers, ReturnBurst(w),
                            UNCHANGED <<pool, pkts, bursts, backlog, lost, kniRing>>
                     PROVE  Sound(pool', where') /\ Contents'
  <2> USE <1>ReturnBurstHolds
  <2> DEFINE x == <<"work", w>>
             y == <<"returned", Rx>>
             n == Len(work[w])
  <2>1. /\ Contents /\ work[w] \in Seq(Mbufs) /\ returned \in Seq(Mbufs)
        /\ Sound(pool, where)
    BY ZenonT(30) DEF BInv, TypeOK, Contents
  <2>2. /\ n \in 0 .. Len(work[w]) /\ SubSeq(work[w], 1, n) = work[w]
        /\ SubSeq(work[w], n + 1, Len(work[w])) = <<>>
    BY <2>1, <1>Whole
  <2>3. /\ x \in Places /\ y \in Places /\ x # y
        /\ where[x] = work[w] /\ where[y] = returned
        /\ where'[x] = <<>> /\ where'[y] = returned \o work[w]
    BY <2>1, PlacesAre, WhereIs, WhereWillBe, ZenonT(30) DEF ReturnBurst, Contents
  <2>4. Contents'
    BY <2>1 DEF Contents, ReturnBurst
  <2>5. where' \in [Places -> Seq(Mbufs)]
    BY <2>4, <1>WhereTypesPrime
  <2>6. \A z \in Places : z \notin {x, y} => where'[z] = where[z]
    BY <2>1, <1>Elsewhere, ZenonT(30) DEF Contents, ReturnBurst
  <2> HIDE DEF x, y, n
  <2>7. Moved(where, x, y, n, where')
    BY <2>2, <2>3, <2>5, <2>6, ZenonT(30) DEF Moved
  <2> QED
    BY <2>1, <2>4, <2>7, Move
<1>ClearReturnsHolds. ASSUME BInv, flush_and_clear_returns
                      PROVE  Sound(pool', where') /\ Contents'
  <2> USE <1>ClearReturnsHolds
  <2> DEFINE x == <<"returned", Rx>>
             y == <<"lost", Rx>>
             n == Len(returned)
  <2>1. Contents /\ returned \in Seq(Mbufs) /\ Sound(pool, where) /\ lost = <<>>
    BY DEF BInv, TypeOK, Contents, Resting, flush_and_clear_returns
  <2>2. /\ n \in 0 .. Len(returned) /\ SubSeq(returned, 1, n) = returned
        /\ SubSeq(returned, n + 1, Len(returned)) = <<>>
        /\ <<>> \o returned = returned
    BY <2>1, <1>Whole, EmptyAdded, ZenonT(30)
  <2>3. /\ x \in Places /\ y \in Places /\ x # y
        /\ where[x] = returned /\ where[y] = <<>>
        /\ where'[x] = <<>> /\ where'[y] = returned
    BY <2>1, PlacesAre, WhereIs, WhereWillBe DEF flush_and_clear_returns
  <2>4. Contents'
    BY <2>1 DEF Contents, flush_and_clear_returns
  <2>5. where' \in [Places -> Seq(Mbufs)]
    BY <2>4, <1>WhereTypesPrime
  <2>6. \A z \in Places : z \notin {x, y} => where'[z] = where[z]
    BY <1>Elsewhere, ZenonT(30) DEF flush_and_clear_returns
  <2> HIDE DEF x, y, n
  <2>7. Moved(where, x, y, n, where')
    BY <2>2, <2>3, <2>5, <2>6 DEF Moved
  <2> QED
    BY <2>1, <2>4, <2>7, Move, Zenon DEF flush_and_clear_returns
\* A port takes part of a burst: the burst is gone.
<1>FlushPathHolds. ASSUME BInv, FlushPath
                   PROVE  Sound(pool', where') /\ Contents'
  <2> USE <1>FlushPathHolds
  <2>1. PICK f \in Paths : flush_packet_burst(f, bursts[f])
    BY ZenonT(30) DEF FlushPath
  <2> DEFINE x == <<"bursts", f>>
             n == Len(bursts[f])
  <2>2. /\ Contents /\ bursts[f] \in Seq(Mbufs) /\ IsInjective(bursts[f])
        /\ Sound(pool, where) /\ pool \in [Mbufs -> {0, 1}]
    BY Injective, ZenonT(30) DEF BInv, TypeOK, Contents, Sound
  <2>3. /\ n \in 0 .. Len(bursts[f]) /\ SubSeq(bursts[f], 1, n) = bursts[f]
        /\ SubSeq(bursts[f], n + 1, Len(bursts[f])) = <<>>
    BY <2>2, <1>Whole
  <2>4. bursts' = [bursts EXCEPT ![f] = <<>>] /\ pool' = Release(pool, Range(bursts[f]))
    BY <2>1, <2>2, HandedOf DEF flush_packet_burst, Emptied
  <2>5. Contents'
    BY <2>2, <2>4 DEF Contents, FlushPath
  <2>6. where' \in [Places -> Seq(Mbufs)]
    BY <2>5, <1>WhereTypesPrime, ZenonT(30)
  <2>7. x \in Places /\ where[x] = bursts[f] /\ where'[x] = <<>>
    BY <2>2, <2>4, PlacesAre, WhereIs, WhereWillBe, ZenonT(30) DEF Contents
  <2>8. \A z \in Places : z \notin {x} => where'[z] = where[z]
    BY <2>2, <2>4, <1>Elsewhere, ZenonT(30) DEF Contents, FlushPath
  <2> HIDE DEF x, n
  <2>9. Taken(where, x, n, where')
    BY <2>3, <2>6, <2>7, <2>8 DEF Taken
  <2>10. pool' = Release(pool, Range(SubSeq(where[x], 1, n)))
    BY <2>3, <2>4, <2>7, ZenonT(30)
  <2> QED
    BY <2>2, <2>5, <2>9, <2>10, Drop
<1>ShardPacketHolds. ASSUME BInv, ShardPacket
                     PROVE  Sound(pool', where') /\ Contents'
  <2> USE <1>ShardPacketHolds
  <2> DEFINE m == Head(pkts)
             f == target[m]
             burst == Append(bursts[f], m)
             x == <<"pkts", Rx>>
             r == <<"kniRing", Rx>>
             y == <<"bursts", f>>
  <2>1. /\ Contents /\ pkts \in Seq(Mbufs) /\ kniRing \in Seq(Mbufs) /\ Sound(pool, where)
        /\ pool \in [Mbufs -> {0, 1}]
    BY ZenonT(30) DEF BInv, TypeOK, Contents, Sound
  <2>2. /\ pkts # <<>> /\ pkts' = Tail(pkts)
        /\ UNCHANGED <<target, backlog, returned, lost, work>>
    BY DEF ShardPacket
  <2>3. /\ SubSeq(pkts, 1, 1) = <<m>> /\ SubSeq(pkts, 1 + 1, Len(pkts)) = Tail(pkts)
        /\ 1 \in 0 .. Len(pkts) /\ m \in Mbufs /\ Tail(pkts) \in Seq(Mbufs)
    BY <2>1, <2>2, HeadCut, Zenon
  <2>4. x \in Places /\ where[x] = pkts /\ where'[x] = Tail(pkts)
    BY <2>2, PlacesAre, WhereIs, WhereWillBe
  <2>5. CASE pool' = Release(pool, {m}) /\ UNCHANGED <<kniRing, bursts>>
    <3>1. Contents'
      BY <2>1, <2>2, <2>3, <2>5 DEF Contents
    <3>2. where' \in [Places -> Seq(Mbufs)]
      BY <3>1, <1>WhereTypesPrime
    <3>3. \A z \in Places : z \notin {x} => where'[z] = where[z]
      BY <2>2, <2>5, <1>Elsewhere, ZenonT(30)
    <3>4. pool' = Release(pool, Range(SubSeq(where[x], 1, 1)))
      BY <2>3, <2>4, <2>5, Missed, ZenonT(30)
    <3> HIDE DEF x, m
    <3>5. Taken(where, x, 1, where')
      BY <2>3, <2>4, <3>2, <3>3 DEF Taken
    <3> QED BY <2>1, <3>1, <3>4, <3>5, Drop, Zenon
  <2>6. CASE pool' = pool /\ kniRing' = Append(kniRing, m) /\ bursts' = bursts
    <3>1. Contents'
      BY <2>1, <2>2, <2>3, <2>6 DEF Contents
    <3>2. where' \in [Places -> Seq(Mbufs)]
      BY <3>1, <1>WhereTypesPrime
    <3>3. \A z \in Places : z \notin {x, r} => where'[z] = where[z]
      BY <2>2, <2>6, <1>Elsewhere, ZenonT(30)
    <3>4. r \in Places /\ r # x /\ where'[r] = where[r] \o <<m>>
      BY <2>1, <2>3, <2>6, PlacesAre, WhereIs, WhereWillBe
    <3> HIDE DEF x, r, m
    <3>5. Moved(where, x, r, 1, where')
      BY <2>3, <2>4, <3>2, <3>3, <3>4, ZenonT(30) DEF Moved
    <3> QED BY <2>1, <2>6, <3>1, <3>5, Move, Zenon
  <2>7. ASSUME f \in Paths
        PROVE  y \in Places /\ y # x /\ where[y] = bursts[f] /\ bursts[f] \in Seq(Mbufs)
               /\ burst = bursts[f] \o <<m>> /\ burst \in Seq(Mbufs)
               /\ where'[y] = bursts'[f]
    <3> HIDE DEF m, f
    <3>1. bursts[f] \in Seq(Mbufs)
      BY <2>1, <2>7 DEF Contents
    <3>2. burst = bursts[f] \o <<m>> /\ burst \in Seq(Mbufs)
      BY <2>3, <3>1
    <3>3. y \in Places /\ where[y] = bursts[f] /\ where'[y] = bursts'[f]
      BY <2>7, PlacesAre, WhereIs, WhereWillBe, ZenonT(30)
    <3> QED BY <3>1, <3>2, <3>3
  <2>8. CASE /\ f \in Paths /\ UNCHANGED <<pool, kniRing>>
             /\ bursts' = [bursts EXCEPT ![f] = burst]
    <3> HIDE DEF m, f
    <3>1. Contents'
      BY <2>1, <2>2, <2>3, <2>7, <2>8 DEF Contents
    <3>2. where' \in [Places -> Seq(Mbufs)]
      BY <3>1, <1>WhereTypesPrime
    <3>3. \A z \in Places : z \notin {x, y} => where'[z] = where[z]
      BY <2>1, <2>2, <2>8, <1>Elsewhere, ZenonT(30) DEF Contents
    <3>4. where'[y] = where[y] \o <<m>>
      BY <2>1, <2>7, <2>8, ZenonT(30) DEF Contents
    <3> HIDE DEF x, y
    <3>5. Moved(where, x, y, 1, where')
      BY <2>3, <2>4, <2>7, <2>8, <3>2, <3>3, <3>4, ZenonT(30) DEF Moved
    <3> QED BY <2>1, <2>8, <3>1, <3>5, Move, Zenon
  <2>9. CASE /\ f \in Paths /\ UNCHANGED kniRing
             /\ bursts' = [bursts EXCEPT ![f] = <<>>]
             /\ \E sent \in 0 .. Len(burst) : pool' = Handed(pool, burst, sent)
    <3> DEFINE g == [where EXCEPT ![x] = Tail(pkts), ![y] = burst]
    <3> HIDE DEF m, f
    <3>1. Contents'
      BY <2>1, <2>2, <2>3, <2>9 DEF Contents
    <3>2. where' \in [Places -> Seq(Mbufs)] /\ where \in [Places -> Seq(Mbufs)]
      BY <2>1, <3>1, <1>WhereTypesPrime, WhereTypes
    <3>3. \A z \in Places : z \notin {x, y} => where'[z] = where[z]
      BY <2>1, <2>2, <2>9, <1>Elsewhere, ZenonT(30) DEF Contents
    <3>4. where'[y] = <<>>
      BY <2>1, <2>7, <2>9 DEF Contents
    <3> HIDE DEF x, y, burst
    <3>5. /\ g \in [Places -> Seq(Mbufs)] /\ g[x] = Tail(pkts) /\ g[y] = burst
          /\ \A z \in Places : z \notin {x, y} => g[z] = where[z]
      BY <2>3, <2>4, <2>7, <2>9, <3>2, ZenonT(30)
    <3> HIDE DEF g
    <3>6. Moved(where, x, y, 1, g)
      BY <2>3, <2>4, <2>7, <2>9, <3>5, ZenonT(30) DEF Moved
    <3>7. Sound(pool, g)
      BY <2>1, <3>6, Move, Zenon
    <3>8. IsInjective(burst) /\ burst \in Seq(Mbufs)
      BY <2>7, <2>9, <3>5, <3>7 DEF Sound
    <3>9. /\ SubSeq(burst, 1, Len(burst)) = burst /\ Len(burst) \in 0 .. Len(burst)
          /\ SubSeq(burst, Len(burst) + 1, Len(burst)) = <<>>
      BY <3>8, <1>Whole
    <3>10. Taken(g, y, Len(burst), where')
      BY <2>4, <2>7, <2>9, <3>2, <3>3, <3>4, <3>5, <3>9, ZenonT(30) DEF Taken
    <3>11. pool' = Release(pool, Range(SubSeq(g[y], 1, Len(burst))))
      BY <2>1, <2>9, <3>5, <3>8, <3>9, HandedOf, ZenonT(30)
    <3> QED BY <3>1, <3>7, <3>10, <3>11, Drop, Zenon
  <2> HIDE DEF m, f, burst
  <2> QED
    BY <2>5, <2>6, <2>8, <2>9, ShardCases, ZenonT(30) DEF m, f, burst
<1>RxDistributeHolds. ASSUME BInv, RxDistribute
                      PROVE  Sound(pool', where') /\ Contents'
  <2> USE <1>RxDistributeHolds
  <2>1. /\ Contents /\ kniRing \in Seq(Mbufs) /\ returned \in Seq(Mbufs) /\ pkts = <<>>
        /\ Sound(pool, where) /\ pool \in [Mbufs -> {0, 1}] /\ IsInjective(kniRing)
        /\ where \in [Places -> Seq(Mbufs)] /\ IsInjective(returned)
    BY Injective, ZenonT(30) DEF BInv, TypeOK, Contents, Sound, RxDistribute
  <2>2. PICK p \in IF config.owner = Rx THEN KniFlushed ELSE {pool} :
        \E filled \in Fillable(p) : \E share \in Shares(filled) :
          /\ pool' = Fill(p, filled)
          /\ backlog' = [w \in Workers |-> backlog[w] \o share[w]]
          /\ \E n \in {Collected(Cardinality(filled))} :
               /\ pkts' = SubSeq(returned, 1, n)
               /\ returned' = SubSeq(returned, n + 1, Len(returned))
    BY ZenonT(30) DEF RxDistribute
  <2>b. PICK filled \in Fillable(p) : \E share \in Shares(filled) :
          /\ pool' = Fill(p, filled)
          /\ backlog' = [w \in Workers |-> backlog[w] \o share[w]]
          /\ \E n \in {Collected(Cardinality(filled))} :
               /\ pkts' = SubSeq(returned, 1, n)
               /\ returned' = SubSeq(returned, n + 1, Len(returned))
    BY <2>2, ZenonT(30)
  <2>3. PICK share \in Shares(filled) :
          /\ pool' = Fill(p, filled)
          /\ backlog' = [w \in Workers |-> backlog[w] \o share[w]]
          /\ \E n \in {Collected(Cardinality(filled))} :
               /\ pkts' = SubSeq(returned, 1, n)
               /\ returned' = SubSeq(returned, n + 1, Len(returned))
    BY <2>b, ZenonT(30)
  <2>4. PICK n \in {Collected(Cardinality(filled))} :
               /\ pkts' = SubSeq(returned, 1, n)
               /\ returned' = SubSeq(returned, n + 1, Len(returned))
    BY <2>3, ZenonT(30)
  <2>5. n \in 0 .. Len(returned) /\ n <= PKT_BURST_SZ * Cardinality(Paths)
    <3>1. PKT_BURST_SZ * Cardinality(Paths) \in Nat
      BY Bounds DEF CardinalityFacts
    <3> QED BY <2>1, <2>4, <3>1, MinLen, ZenonT(30) DEF Collected
  <2>6. UNCHANGED <<bursts, lost, work>>
        /\ kniRing' = IF config.owner = Rx THEN KniRingRest ELSE kniRing
    BY DEF RxDistribute
  <2> DEFINE r == <<"kniRing", Rx>>
             x == <<"returned", Rx>>
             y == <<"pkts", Rx>>
             k == Min({Len(kniRing), PKT_BURST_SZ})
             g1 == [where EXCEPT ![r] = kniRing']
             g2 == [z \in Places |-> IF z[1] = "backlog" THEN g1[z] \o share[z[2]] ELSE g1[z]]
  <2>7. r \in Places /\ x \in Places /\ y \in Places /\ where[r] = kniRing
        /\ r # x /\ r # y /\ x # y /\ where[x] = returned /\ where[y] = <<>>
        /\ r[1] # "backlog" /\ x[1] # "backlog" /\ y[1] # "backlog"
        /\ where'[r] = kniRing' /\ where'[x] = returned' /\ where'[y] = pkts'
    BY <2>1, PlacesAre, WhereIs, WhereWillBe, ZenonT(30)
  <2>8. kniRing' \in Seq(Mbufs) /\ Sound(p, g1) /\ g1 \in [Places -> Seq(Mbufs)]
        /\ \A z \in Places : z # r => g1[z] = where[z]
    <3>1. CASE config.owner = Rx
      <4>1. k \in 0 .. Len(kniRing)
        BY <2>1, MinLen, Bounds, ZenonT(30)
      <4>2. kniRing' = SubSeq(kniRing, k + 1, Len(kniRing))
        BY <2>6, <3>1, Zenon DEF KniRingRest
      <4>3. \A m \in Range(kniRing) : pool[m] = 0
        BY <2>1, <2>7, SeqRange DEF Sound
      <4>4. p = Release(pool, Range(SubSeq(kniRing, 1, k)))
        BY <2>1, <2>2, <3>1, <4>3, KniFlushedOf, ZenonT(30)
      <4> HIDE DEF k, r
      <4>5. kniRing' \in Seq(Mbufs)
        BY <2>1, <4>1, <4>2, Cut
      <4>6. /\ g1 \in [Places -> Seq(Mbufs)] /\ g1[r] = kniRing'
            /\ \A z \in Places : z # r => g1[z] = where[z]
        BY <2>1, <2>7, <4>5, ZenonT(30)
      <4> HIDE DEF g1
      <4>7. Taken(where, r, k, g1)
        BY <2>7, <4>1, <4>2, <4>6 DEF Taken
      <4> QED BY <2>1, <2>7, <4>4, <4>5, <4>6, <4>7, Drop, ZenonT(30)
    <3>2. CASE config.owner # Rx
      <4>1. kniRing' = kniRing /\ p = pool
        BY <2>2, <2>6, <3>2, Zenon
      <4>2. g1 = where
        BY <2>1, <2>7, <4>1, Zenon
      <4> QED BY <2>1, <4>1, <4>2, ZenonT(30)
    <3> QED BY <3>1, <3>2, ZenonT(30)
  <2>9. filled \in SUBSET Idle(p) /\ filled \in SUBSET Mbufs
    BY DEF Fillable, Idle
  <2>10. ASSUME NEW w \in Workers
         PROVE  /\ <<"backlog", w>> \in Places /\ g1[<<"backlog", w>>] = backlog[w]
                /\ backlog[w] \o share[w] \in Seq(Mbufs)
                /\ where'[<<"backlog", w>>] = backlog[w] \o share[w]
    <3>1. <<"backlog", w>> \in Places /\ <<"backlog", w>> # r
      BY PlacesAre, ZenonT(30)
    <3>2. g1[<<"backlog", w>>] = backlog[w]
      BY <2>8, <3>1, WhereIs, ZenonT(30)
    <3>3. share[w] \in Seq(Mbufs) /\ backlog[w] \in Seq(Mbufs)
      BY <2>1, <2>9, SharesOf, ZenonT(30) DEF Contents
    <3>4. backlog'[w] = backlog[w] \o share[w]
      BY <2>3, ZenonT(30)
    <3> QED BY <3>1, <3>2, <3>3, <3>4, WhereWillBe, Concatenated, ZenonT(30)
  <2>11. /\ SubSeq(returned, 1, n) \in Seq(Mbufs)
         /\ SubSeq(returned, n + 1, Len(returned)) \in Seq(Mbufs)
    BY <2>1, <2>5, Cut, Zenon
  <2>12. Contents'
    <3>1. {pkts', returned', lost', kniRing'} \subseteq Seq(Mbufs)
      BY <2>1, <2>4, <2>6, <2>8, <2>11, ZenonT(30) DEF Contents
    <3>2. backlog' \in [Workers -> Seq(Mbufs)]
      BY <2>3, <2>10, ZenonT(30)
    <3> QED BY <2>1, <2>6, <3>1, <3>2 DEF Contents
  <2>13. where' \in [Places -> Seq(Mbufs)]
    BY <2>12, <1>WhereTypesPrime
  <2>14. \A z \in Places : z[1] = "backlog" => \E w \in Workers : z = <<"backlog", w>>
    BY DEF Places
  <2> HIDE DEF g1, r, x, y
  <2>15. Supplied(g1, share, g2)
    <3>1. ASSUME NEW w \in Workers
          PROVE  /\ g2[<<"backlog", w>>] = g1[<<"backlog", w>>] \o share[w]
                 /\ g2[<<"backlog", w>>] \in Seq(Mbufs)
      BY <2>10, ZenonT(30)
    <3>2. \A z \in Places : z[1] # "backlog" => g2[z] = g1[z] /\ g2[z] \in Seq(Mbufs)
      BY <2>8
    <3>3. \A z \in Places : g2[z] \in Seq(Mbufs)
      BY <2>14, <3>1, <3>2, ZenonT(30)
    <3> QED BY <3>1, <3>2, <3>3, ZenonT(30) DEF Supplied
  <2>16. Sound(Fill(p, filled), g2)
    BY <2>8, <2>9, <2>15, Supply, ZenonT(30)
  <2>17. /\ g2[x] = returned /\ g2[y] = <<>>
         /\ \A z \in Places : z \notin {x, y} => where'[z] = g2[z]
    <3>1. g2[x] = returned /\ g2[y] = <<>> /\ g2[r] = kniRing'
      BY <2>1, <2>7, <2>8, ZenonT(30) DEF g1
    <3>2. ASSUME NEW z \in Places, z \notin {x, y} PROVE where'[z] = g2[z]
      <4>1. CASE z[1] = "backlog"
        <5>1. PICK w \in Workers : z = <<"backlog", w>>
          BY <2>14, <4>1, Zenon
        <5> QED BY <2>10, <4>1, <5>1, ZenonT(30)
      <4>2. CASE z = r
        BY <2>7, <3>1, <4>2
      <4>3. CASE z # r /\ z[1] # "backlog"
        <5>1. \A u \in Places : u \notin {x, y, r} \cup {v \in Places : v[1] = "backlog"}
                 => where'[u] = where[u]
          BY <2>6, PlacesAre, <1>Elsewhere, ZenonT(30) DEF x, y, r
        <5> QED BY <2>8, <3>2, <4>3, <5>1, ZenonT(30)
      <4> QED BY <4>1, <4>2, <4>3, ZenonT(30)
    <3> QED BY <3>1, <3>2, ZenonT(30)
  <2> HIDE DEF g2
  <2>18. Moved(g2, x, y, n, where')
    <3>1. where'[y] = g2[y] \o SubSeq(g2[x], 1, n)
      BY <2>4, <2>7, <2>11, <2>17, EmptyAdded, ZenonT(30)
    <3> QED BY <2>4, <2>5, <2>7, <2>13, <2>17, <3>1, ZenonT(30) DEF Moved
  <2> QED
    BY <2>3, <2>12, <2>16, <2>18, Move
<1> SUFFICES ASSUME BInv, [Next]_vars PROVE Sound(pool', where') /\ Contents'
  BY Zenon
<1>0. Sound(pool, where) /\ Contents
  BY DEF BInv, TypeOK, Contents
<1>1. CASE RxDistribute
  BY <1>1, <1>RxDistributeHolds
<1>2. CASE ShardPacket
  BY <1>2, <1>ShardPacketHolds
<1>3. CASE FlushPath
  BY <1>3, <1>FlushPathHolds
<1>4. CASE flush_and_clear_returns
  BY <1>4, <1>ClearReturnsHolds
<1>5. ASSUME NEW w \in Workers, Worker(w)
      PROVE  Sound(pool', where') /\ Contents'
  <2>1. CASE get_pkt(w)
    BY <2>1, <1>get_pktHolds, ZenonT(30)
  <2>2. CASE ClassifyFails(w) \/ ProcessBurst(w)
    BY <2>2, <1>ReturnBurstHolds, ZenonT(30) DEF ClassifyFails, ProcessBurst
  <2> QED BY <1>5, <2>1, <2>2 DEF Worker
<1>6. CASE OwnerFlushes
  BY <1>6, <1>OwnerFlushesHolds
<1>7. CASE UNCHANGED <<pool, pkts, bursts, backlog, returned, lost, work, kniRing>>
  <2>1. Contents'
    BY <1>0, <1>7 DEF Contents
  <2>2. where' = where
    BY <1>7 DEF where, Held
  <2> QED BY <1>0, <1>7, <2>1, <2>2
<1>8. CASE AllFlushed \/ NotifyStop \/ ReadMetric \/ SubtractMetric \/ UNCHANGED vars
  BY <1>7, <1>8 DEF AllFlushed, NotifyStop, ReadMetric, SubtractMetric, vars
<1> QED
  BY <1>1, <1>2, <1>3, <1>4, <1>5, <1>6, <1>8, Zenon DEF Next, RxCore

-------------------------------------------------------------------------------
(* The sizes of the arrays, and the counters. *)

LEMMA Capacity ==
  ASSUME CardinalityFacts
  PROVE  PKT_BURST_SZ * Cardinality(Paths) \in Nat
  BY Bounds DEF CardinalityFacts

\* What TypeOK says beyond Contents and the pool.
Sizes ==
    /\ config \in [kni : BOOLEAN, owner : {Rx, "other"}]
    /\ target \in [Mbufs -> Paths \cup {TARGET_KNI, TARGET_DROP}]
    /\ rxAt \in {"loop", "shard", "done"}
    /\ Len(pkts) <= PKT_BURST_SZ * Cardinality(Paths)
    /\ \A f \in Paths : Len(bursts[f]) < IF rxAt = "shard" THEN PKT_BURST_SZ ELSE 1
    /\ rxAt # "shard" => pkts = <<>>
    /\ \A w \in Workers : Len(work[w]) <= DIST_BURST
    /\ workAt \in [Workers -> {"wait", "classify", "done"}]
    /\ Len(kniRing) <= KniRingSize
    /\ stop \in 0 .. Len(StopOrder)
    /\ metrics \in [Metrics -> Nat]
    /\ statsd \in [Metrics -> Nat]

MetricsGrow ==
    /\ metrics' \in [Metrics -> Nat]
    /\ \A i \in Metrics : metrics'[i] >= metrics[i]

LEMMA MetricNames ==
  /\ "total" \in Metrics /\ "director" \in Metrics /\ "unmatched" \in Metrics
  /\ "kni" \in Metrics /\ "encapsulated" \in Metrics /\ "encap_failed" \in Metrics
  /\ "eth_tx" \in Metrics /\ "kni_tx" \in Metrics
  BY ZenonT(30) DEF Metrics

LEMMA SizesStep ==
  ASSUME CardinalityFacts
  PROVE  BInv /\ [Next]_vars => Sizes' /\ Reporting'
<1>RingSize. ASSUME BInv
             PROVE  Len(KniRingRest) <= KniRingSize
  <2> USE <1>RingSize
  <2> DEFINE n == Min({Len(kniRing), PKT_BURST_SZ})
  <2>1. kniRing \in Seq(Mbufs) /\ IsInjective(kniRing) /\ Len(kniRing) <= KniRingSize
    BY Injective DEF BInv, TypeOK
  <2>2. n \in 0 .. Len(kniRing)
    BY <2>1, MinLen, Bounds
  <2> HIDE DEF n
  <2>3. Len(SubSeq(kniRing, n + 1, Len(kniRing))) = Len(kniRing) - n /\ Len(kniRing) \in Nat
    BY <2>1, <2>2, Cut
  <2> QED BY <2>1, <2>2, <2>3, Bounds DEF KniRingRest, n
<1>CountMore. ASSUME metrics \in [Metrics -> Nat], NEW n \in Metrics, NEW k \in Nat, Count(n, k)
              PROVE  metrics' \in [Metrics -> Nat] /\ \A i \in Metrics : metrics'[i] >= metrics[i]
  BY <1>CountMore DEF Count
<1>RxDistributeSizes. ASSUME BInv, RxDistribute
                      PROVE  Sizes' /\ MetricsGrow /\ UNCHANGED report
  <2> USE <1>RxDistributeSizes
  <2>1. /\ Sizes /\ returned \in Seq(Mbufs) /\ IsInjective(returned)
        /\ bursts \in [Paths -> Seq(Mbufs)]
    BY Injective, ZenonT(30) DEF BInv, TypeOK, Sizes
  <2>2. PICK p \in IF config.owner = Rx THEN KniFlushed ELSE {pool} :
        \E filled \in Fillable(p) : \E path \in [filled -> Paths] :
          /\ target' = [m \in Mbufs |-> IF m \in filled THEN path[m] ELSE target[m]]
          /\ Count("total", Cardinality(filled))
          /\ pkts' = SubSeq(returned, 1, Collected(Cardinality(filled)))
          /\ rxAt' = IF Collected(Cardinality(filled)) = 0 THEN "loop" ELSE "shard"
    BY ZenonT(30) DEF RxDistribute
  <2>3. PICK filled \in Fillable(p) : \E path \in [filled -> Paths] :
          /\ target' = [m \in Mbufs |-> IF m \in filled THEN path[m] ELSE target[m]]
          /\ Count("total", Cardinality(filled))
          /\ pkts' = SubSeq(returned, 1, Collected(Cardinality(filled)))
          /\ rxAt' = IF Collected(Cardinality(filled)) = 0 THEN "loop" ELSE "shard"
    BY <2>2, ZenonT(30)
  <2> DEFINE n == Collected(Cardinality(filled))
  <2>4. n \in 0 .. Len(returned) /\ n <= PKT_BURST_SZ * Cardinality(Paths)
    BY <2>1, Capacity, MinLen DEF Collected
  <2>5. Cardinality(filled) \in Nat
    <3>1. filled \subseteq Mbufs
      BY DEF Fillable, Idle
    <3> QED BY <3>1 DEF CardinalityFacts
  <2>6. MetricsGrow
    BY <2>1, <2>3, <2>5, <1>CountMore, MetricNames, ZenonT(30) DEF Sizes, MetricsGrow
  <2>7. target' \in [Mbufs -> Paths \cup {TARGET_KNI, TARGET_DROP}]
    BY <2>1, <2>3 DEF Sizes
  <2>8. pkts' = SubSeq(returned, 1, n) /\ rxAt' = IF n = 0 THEN "loop" ELSE "shard"
    BY <2>3
  <2> HIDE DEF n
  <2>9. pkts' \in Seq(Mbufs) /\ Len(pkts') = n
    BY <2>1, <2>4, <2>8, Cut
  <2>10. rxAt' # "shard" => pkts' = <<>>
    BY <2>8, <2>9
  <2>11. Len(kniRing') <= KniRingSize
    BY <2>1, <1>RingSize, ZenonT(30) DEF RxDistribute, Sizes
  <2>12. \A f \in Paths : Len(bursts'[f]) < IF rxAt' = "shard" THEN PKT_BURST_SZ ELSE 1
    BY <2>1, Bounds DEF Sizes, RxDistribute
  <2> QED
    BY <2>1, <2>4, <2>6, <2>7, <2>8, <2>9, <2>10, <2>11, <2>12, ZenonT(30)
       DEF Sizes, RxDistribute, MetricsGrow
<1>ShardPacketSizes. ASSUME BInv, ShardPacket
                     PROVE  Sizes' /\ MetricsGrow /\ UNCHANGED report
  <2> USE <1>ShardPacketSizes
  <2> DEFINE m == Head(pkts)
             f == target[m]
             burst == Append(bursts[f], m)
  <2>1. /\ Sizes /\ pkts \in Seq(Mbufs) /\ kniRing \in Seq(Mbufs) /\ rxAt = "shard"
        /\ bursts \in [Paths -> Seq(Mbufs)] /\ pkts # <<>>
    BY ZenonT(30) DEF BInv, TypeOK, Sizes, ShardPacket
  <2>2. UNCHANGED <<config, target, rxAt, work, workAt, stop, statsd, report>>
    BY DEF ShardPacket
  <2>3. m \in Mbufs /\ Len(Tail(pkts)) <= Len(pkts) /\ Len(pkts) \in Nat /\ Len(Tail(pkts)) \in Nat
    BY <2>1
  <2>4. Len(pkts') <= PKT_BURST_SZ * Cardinality(Paths)
    BY <2>1, <2>3, Capacity DEF ShardPacket, Sizes
  <2>5. MetricsGrow
    <3>1. CASE UNCHANGED metrics
      BY <2>1, <3>1 DEF MetricsGrow, Sizes
    <3>2. CASE \E k \in 0 .. 1 : Count("kni_tx", k)
      <4>1. PICK k \in 0 .. 1 : Count("kni_tx", k)
        BY <3>2
      <4>2. k \in Nat
        OBVIOUS
      <4> QED BY <2>1, <4>1, <4>2, <1>CountMore, MetricNames, ZenonT(30) DEF MetricsGrow, Sizes
    <3>3. CASE f \in Paths /\ \E k \in 0 .. Len(burst) : Count("eth_tx", k)
      <4>1. burst \in Seq(Mbufs)
        BY <2>1, <2>3, <3>3
      <4>2. PICK k \in 0 .. Len(burst) : Count("eth_tx", k)
        BY <3>3
      <4> HIDE DEF burst
      <4>3. k \in Nat
        BY <4>1, <4>2, SMTT(30)
      <4> QED BY <2>1, <4>2, <4>3, <1>CountMore, MetricNames, ZenonT(30) DEF MetricsGrow, Sizes
    <3> QED BY <3>1, <3>2, <3>3, ZenonT(30) DEF ShardPacket, glb_kni_safe_tx_burst, flush_packet_burst
  <2>6. /\ Len(kniRing') <= KniRingSize
        /\ \A g \in Paths : Len(bursts'[g]) < PKT_BURST_SZ
    <3> HIDE DEF m, f
    <3>1. \A g \in Paths : Len(bursts[g]) < PKT_BURST_SZ /\ bursts[g] \in Seq(Mbufs)
      BY <2>1, Zenon DEF Sizes
    <3>2. CASE UNCHANGED <<kniRing, bursts>>
      BY <2>1, <3>1, <3>2 DEF Sizes
    <3>3. CASE kniRing' = Append(kniRing, m) /\ bursts' = bursts /\ Len(kniRing) < KniRingSize
      <4>1. Len(kniRing') = Len(kniRing) + 1 /\ Len(kniRing) \in Nat
        BY <2>1, <2>3, <3>3
      <4> QED BY <3>1, <3>3, <4>1, Bounds
    <3>4. CASE f \in Paths /\ UNCHANGED kniRing /\ bursts' = [bursts EXCEPT ![f] = burst]
               /\ ~Full(burst)
      <4>1. Len(burst) = Len(bursts[f]) + 1 /\ Len(bursts[f]) \in Nat
        BY <2>1, <2>3, <3>4
      <4>2. Len(burst) < PKT_BURST_SZ
        BY <3>1, <3>4, <4>1, Bounds DEF Full
      <4> HIDE DEF burst
      <4> QED BY <2>1, <3>1, <3>4, <4>2 DEF Sizes
    <3>5. CASE f \in Paths /\ UNCHANGED kniRing /\ bursts' = [bursts EXCEPT ![f] = <<>>]
      BY <2>1, <3>1, <3>5, Bounds, Empty DEF Sizes
    <3> HIDE DEF burst
    <3> QED BY <3>2, <3>3, <3>4, <3>5, ShardCases, Zenon DEF m, f, burst
  <2> QED
    BY <2>1, <2>2, <2>4, <2>5, <2>6, ZenonT(30) DEF Sizes, MetricsGrow
<1>FlushPathSizes. ASSUME BInv, FlushPath
                   PROVE  Sizes' /\ MetricsGrow /\ UNCHANGED report
  <2> USE <1>FlushPathSizes
  <2>1. PICK f \in Paths : flush_packet_burst(f, bursts[f])
    BY Zenon DEF FlushPath
  <2>2. Sizes /\ bursts \in [Paths -> Seq(Mbufs)] /\ rxAt = "shard"
    BY Zenon DEF BInv, TypeOK, Sizes, FlushPath
  <2>3. PICK k \in 0 .. Len(bursts[f]) : Count("eth_tx", k)
    BY <2>1 DEF flush_packet_burst
  <2>4. k \in Nat
    BY <2>2, <2>3
  <2>5. MetricsGrow
    BY <2>2, <2>3, <2>4, <1>CountMore, MetricNames, ZenonT(30) DEF MetricsGrow, Sizes
  <2>6. bursts' = [bursts EXCEPT ![f] = <<>>]
    BY <2>1, Zenon DEF flush_packet_burst, Emptied
  <2>7. \A g \in Paths : Len(bursts'[g]) < IF rxAt = "shard" THEN PKT_BURST_SZ ELSE 1
    BY <2>2, <2>6, Bounds, Empty, SMTT(30) DEF Sizes
  <2> QED
    BY <2>2, <2>5, <2>7, ZenonT(30) DEF Sizes, MetricsGrow, FlushPath
<1>get_pktSizes. ASSUME BInv, NEW w \in Workers, get_pkt(w)
                 PROVE  Sizes' /\ MetricsGrow /\ UNCHANGED report
  <2> USE <1>get_pktSizes
  <2> DEFINE n == Min({Len(backlog[w]), DIST_BURST})
  <2>1. /\ Sizes /\ backlog[w] \in Seq(Mbufs) /\ IsInjective(backlog[w])
        /\ work \in [Workers -> Seq(Mbufs)]
    BY Injective, ZenonT(30) DEF BInv, TypeOK, Sizes
  <2>2. n \in 0 .. Len(backlog[w]) /\ n <= DIST_BURST
    BY <2>1, MinLen, Bounds, ZenonT(30)
  <2>3. \/ work' = work /\ workAt' = [workAt EXCEPT ![w] = "done"]
        \/ /\ work' = [work EXCEPT ![w] = SubSeq(backlog[w], 1, n)]
           /\ workAt' = [workAt EXCEPT ![w] = "classify"]
    BY ZenonT(30) DEF get_pkt
  <2> HIDE DEF n
  <2>4. Len(SubSeq(backlog[w], 1, n)) = n
    BY <2>1, <2>2, Cut
  <2>5. \A v \in Workers : Len(work'[v]) <= DIST_BURST
    BY <2>1, <2>2, <2>3, <2>4, ZenonT(30) DEF Sizes
  <2>6. workAt' \in [Workers -> {"wait", "classify", "done"}]
    BY <2>1, <2>3, ZenonT(30) DEF Sizes
  <2> QED
    BY <2>1, <2>5, <2>6 DEF Sizes, MetricsGrow, get_pkt
\* Packets of a worker, sorted by what became of them.
<1>Numbers. ASSUME BInv, NEW w \in Workers, NEW outcome \in [Range(work[w]) -> Outcomes], NEW o
            PROVE  Cardinality({m \in DOMAIN outcome : outcome[m] = o}) \in Nat
  <2> USE <1>Numbers
  <2>1. work[w] \in Seq(Mbufs)
    BY ZenonT(30) DEF BInv, TypeOK
  <2>2. {m \in DOMAIN outcome : outcome[m] = o} \subseteq Mbufs
    BY <2>1, SeqRange, ZenonT(30)
  <2> QED BY <2>2 DEF CardinalityFacts
<1>Booked. ASSUME NEW f \in [Metrics -> Nat], NEW u \in Nat, NEW e \in Nat, NEW x \in Nat, NEW g,
                  g = [f EXCEPT !["kni"] = @ + u, !["director"] = @ + e + x,
                                !["encapsulated"] = @ + e, !["encap_failed"] = @ + x]
           PROVE  /\ g \in [Metrics -> Nat]
                  /\ g["kni"] = f["kni"] + u /\ g["director"] = f["director"] + e + x
                  /\ g["encapsulated"] = f["encapsulated"] + e
                  /\ g["encap_failed"] = f["encap_failed"] + x
                  /\ g["total"] = f["total"] /\ g["unmatched"] = f["unmatched"]
                  /\ g["eth_tx"] = f["eth_tx"] /\ g["kni_tx"] = f["kni_tx"]
                  /\ \A i \in Metrics : g[i] >= f[i]
  <2> USE <1>Booked
  <2>1. \A i \in Metrics : f[i] \in Nat
    OBVIOUS
  <2>2. DOMAIN g = Metrics /\ DOMAIN f = Metrics /\ g = [i \in Metrics |-> g[i]]
    BY ZenonT(30)
  <2>3. /\ g["kni"] = f["kni"] + u /\ g["director"] = f["director"] + e + x
        /\ g["encapsulated"] = f["encapsulated"] + e
        /\ g["encap_failed"] = f["encap_failed"] + x
        /\ g["total"] = f["total"] /\ g["unmatched"] = f["unmatched"]
        /\ g["eth_tx"] = f["eth_tx"] /\ g["kni_tx"] = f["kni_tx"]
    BY <2>2, MetricNames
  <2>4. ASSUME NEW i \in Metrics PROVE g[i] \in Nat /\ g[i] >= f[i]
    BY <2>1, <2>3 DEF Metrics
  <2> QED BY <2>2, <2>3, <2>4, ZenonT(30)
<1>ClassifySizes. ASSUME BInv, NEW w \in Workers, ClassifyFails(w) \/ ProcessBurst(w)
                  PROVE  Sizes' /\ MetricsGrow /\ UNCHANGED report
  <2> USE <1>ClassifySizes
  <2>1. Sizes /\ work \in [Workers -> Seq(Mbufs)]
    BY ZenonT(30) DEF BInv, TypeOK, Sizes
  <2>2. /\ UNCHANGED <<config, rxAt, pkts, bursts, kniRing, stop, statsd, report>>
        /\ ReturnBurst(w)
    BY ZenonT(30) DEF ClassifyFails, ProcessBurst
  <2>3. /\ \A v \in Workers : Len(work'[v]) <= DIST_BURST
        /\ workAt' \in [Workers -> {"wait", "classify", "done"}]
    BY <2>1, <2>2, Bounds, Empty DEF ReturnBurst, Sizes
  <2>4. /\ target' \in [Mbufs -> Paths \cup {TARGET_KNI, TARGET_DROP}]
        /\ MetricsGrow
    <3>1. CASE ClassifyFails(w)
      <4>1. Len(work[w]) \in Nat
        BY <2>1
      <4>2. MetricsGrow
        BY <2>1, <3>1, <4>1, <1>CountMore, MetricNames, ZenonT(30) DEF ClassifyFails, MetricsGrow, Sizes
      <4>3. target' \in [Mbufs -> Paths \cup {TARGET_KNI, TARGET_DROP}]
        BY <2>1, <3>1 DEF ClassifyFails, Dropped, Sizes
      <4> QED BY <4>2, <4>3
    <3>2. CASE ProcessBurst(w)
      <4> DEFINE Number(outcome, o) == Cardinality({m \in DOMAIN outcome : outcome[m] = o})
      <4>1. PICK outcome \in [Range(work[w]) -> Outcomes] :
               /\ target' = [m \in Mbufs |->
                               IF m \notin DOMAIN outcome THEN target[m]
                               ELSE IF outcome[m] = "unclassified" THEN TARGET_KNI
                               ELSE IF outcome[m] = "encap_failed" THEN TARGET_DROP
                               ELSE target[m]]
               /\ metrics' = [metrics EXCEPT
                    !["kni"] = @ + Number(outcome, "unclassified"),
                    !["director"] = @ + Number(outcome, "encapsulated")
                                      + Number(outcome, "encap_failed"),
                    !["encapsulated"] = @ + Number(outcome, "encapsulated"),
                    !["encap_failed"] = @ + Number(outcome, "encap_failed")]
        BY <3>2, ZenonT(30) DEF ProcessBurst
      <4>2. /\ Number(outcome, "unclassified") \in Nat /\ Number(outcome, "encapsulated") \in Nat
            /\ Number(outcome, "encap_failed") \in Nat
        BY <1>Numbers, ZenonT(30)
      <4> HIDE DEF Number
      <4>3. MetricsGrow
        BY <2>1, <4>1, <4>2, <1>Booked, ZenonT(30) DEF MetricsGrow, Sizes
      <4>4. target' \in [Mbufs -> Paths \cup {TARGET_KNI, TARGET_DROP}]
        BY <2>1, <4>1 DEF Sizes
      <4> QED BY <4>3, <4>4, ZenonT(30)
    <3> QED BY <3>1, <3>2
  <2> QED
    BY <2>1, <2>2, <2>3, <2>4, ZenonT(30) DEF Sizes, MetricsGrow
<1> SUFFICES ASSUME BInv, [Next]_vars PROVE Sizes' /\ Reporting'
  OBVIOUS
<1>1. Sizes /\ Reporting /\ Reported \in Seq(Metrics)
  BY BoundsAssumption, ZenonT(30) DEF BInv, TypeOK, Sizes
<1>2. ASSUME Sizes', MetricsGrow, UNCHANGED report
      PROVE  Sizes' /\ Reporting'
  <2>1. CASE report.read = NothingRead
    BY <1>1, <1>2, <2>1, ZenonT(30) DEF Reporting
  <2>2. CASE report.read # NothingRead
    <3>1. report.next \in 1 .. Len(Reported) /\ report.read \in 0 .. metrics[Reported[report.next]]
      BY <1>1, <2>2 DEF Reporting
    <3>2. Reported[report.next] \in Metrics
      BY <1>1, <3>1
    <3>3. /\ metrics[Reported[report.next]] \in Nat /\ metrics'[Reported[report.next]] \in Nat
          /\ metrics'[Reported[report.next]] >= metrics[Reported[report.next]]
      BY <1>1, <1>2, <3>2, ZenonT(30) DEF MetricsGrow, Sizes
    <3>4. report.read \in 0 .. metrics'[Reported[report.next]]
      BY <3>1, <3>3
    <3> QED BY <1>1, <1>2, <3>1, <3>4, ZenonT(30) DEF Reporting
  <2> QED BY <2>1, <2>2
<1>3. CASE RxDistribute \/ ShardPacket \/ FlushPath
  BY <1>2, <1>3, <1>RxDistributeSizes, <1>ShardPacketSizes, <1>FlushPathSizes
<1>4. CASE AllFlushed
  <2>1. \A f \in Paths : Len(bursts'[f]) < 1
    BY <1>4, Empty DEF AllFlushed
  <2>2. Sizes' /\ MetricsGrow /\ UNCHANGED report
    BY <1>1, <1>4, <2>1, Bounds DEF AllFlushed, Sizes, MetricsGrow
  <2> QED BY <1>2, <2>2, ZenonT(30)
<1>5. CASE flush_and_clear_returns
  <2>1. Sizes' /\ MetricsGrow /\ UNCHANGED report
    BY <1>1, <1>5 DEF flush_and_clear_returns, Sizes, MetricsGrow
  <2> QED BY <1>2, <2>1, Zenon
<1>6. ASSUME NEW w \in Workers, Worker(w)
      PROVE  Sizes' /\ Reporting'
  BY <1>2, <1>6, <1>get_pktSizes, <1>ClassifySizes DEF Worker
<1>7. CASE OwnerFlushes
  <2>1. Len(kniRing') <= KniRingSize
    BY <1>7, <1>RingSize, Zenon DEF OwnerFlushes
  <2>2. Sizes' /\ MetricsGrow /\ UNCHANGED report
    BY <1>1, <1>7, <2>1 DEF OwnerFlushes, Sizes, MetricsGrow
  <2> QED BY <1>2, <2>2
<1>8. CASE NotifyStop
  <2>1. stop' \in 0 .. Len(StopOrder)
    BY <1>1, <1>8, BoundsAssumption DEF NotifyStop, Sizes
  <2>2. Sizes' /\ MetricsGrow /\ UNCHANGED report
    BY <1>1, <1>8, <2>1 DEF NotifyStop, Sizes, MetricsGrow
  <2> QED BY <1>2, <2>2
<1>9. CASE ReadMetric
  <2>1. Sizes'
    BY <1>1, <1>9 DEF ReadMetric, Sizes
  <2>2. report.next \in 1 .. Len(Reported)
    BY <1>1, <1>9 DEF ReadMetric, Reporting
  <2>3. metrics[Reported[report.next]] \in Nat
    BY <1>1, <2>2 DEF Sizes
  <2>4. /\ report' \in [next : Nat \ {0}, read : Int]
        /\ report'.next = report.next /\ report'.read = metrics[Reported[report.next]]
        /\ metrics' = metrics
    BY <1>1, <1>9, <2>3 DEF ReadMetric, Reporting
  <2> QED BY <2>1, <2>2, <2>3, <2>4 DEF Reporting
<1>10. CASE SubtractMetric
  <2>1. report.next \in 1 .. Len(Reported) /\ report.read \in 0 .. metrics[Reported[report.next]]
    BY <1>1, <1>10 DEF SubtractMetric, Reporting
  <2> DEFINE n == Reported[report.next]
  <2>2. n \in Metrics
    BY <1>1, <2>1
  <2>3. metrics[n] \in Nat /\ statsd[n] \in Nat
    BY <1>1, <2>2, Zenon DEF Sizes
  <2>4. metrics[n] - report.read \in Nat /\ statsd[n] + report.read \in Nat
    BY <2>1, <2>3
  <2>5. metrics' \in [Metrics -> Nat] /\ statsd' \in [Metrics -> Nat]
    BY <1>1, <1>10, <2>4, ZenonT(30) DEF SubtractMetric, Rest, Sizes
  <2>6. Sizes'
    BY <1>1, <1>10, <2>5, ZenonT(30) DEF SubtractMetric, Sizes
  <2>7. Reporting'
    BY <1>10, <2>1 DEF SubtractMetric, Reporting, NothingRead
  <2> QED BY <2>6, <2>7, ZenonT(30)
<1>11. CASE UNCHANGED vars
  <2>1. Sizes' /\ MetricsGrow /\ UNCHANGED report
    BY <1>1, <1>11 DEF vars, Sizes, MetricsGrow
  <2> QED BY <1>2, <2>1
<1> QED
  BY <1>3, <1>4, <1>5, <1>6, <1>7, <1>8, <1>9, <1>10, <1>11 DEF Next, RxCore

LEMMA RestingStep ==
  ASSUME BInv, [Next]_vars
  PROVE  Resting'
<1>1. /\ Resting /\ work \in [Workers -> Seq(Mbufs)]
      /\ workAt \in [Workers -> {"wait", "classify", "done"}]
  BY DEF BInv, TypeOK
<1>2. CASE UNCHANGED <<work, workAt, lost>> /\ (rxAt = "done" => rxAt' = "done")
  BY <1>1, <1>2, ZenonT(30) DEF Resting
<1>3. CASE RxDistribute \/ ShardPacket \/ FlushPath \/ AllFlushed
  BY <1>2, <1>3, ZenonT(30) DEF RxDistribute, ShardPacket, FlushPath, AllFlushed
<1>4. CASE flush_and_clear_returns
  BY <1>1, <1>4, Zenon DEF flush_and_clear_returns, Resting
<1>5. CASE OwnerFlushes \/ NotifyStop \/ ReadMetric \/ SubtractMetric \/ UNCHANGED vars
  BY <1>2, <1>5 DEF OwnerFlushes, NotifyStop, ReadMetric, SubtractMetric, vars
<1>6. ASSUME NEW w \in Workers, Worker(w) PROVE Resting'
  <2>1. UNCHANGED <<rxAt, lost>>
    BY <1>6, ZenonT(30) DEF Worker, get_pkt, ClassifyFails, ProcessBurst
  <2>2. CASE get_pkt(w)
    <3>1. CASE work' = work /\ workAt' = [workAt EXCEPT ![w] = "done"] /\ workAt[w] = "wait"
      BY <1>1, <2>1, <3>1 DEF Resting
    <3>2. CASE /\ \E s : work' = [work EXCEPT ![w] = s]
               /\ workAt' = [workAt EXCEPT ![w] = "classify"]
      BY <1>1, <2>1, <3>2, ZenonT(30) DEF Resting
    <3> QED BY <2>2, <3>1, <3>2 DEF get_pkt
  <2>3. CASE ClassifyFails(w) \/ ProcessBurst(w)
    <3>1. work' = [work EXCEPT ![w] = <<>>] /\ workAt' = [workAt EXCEPT ![w] = "wait"]
      BY <2>3, ZenonT(30) DEF ClassifyFails, ProcessBurst, ReturnBurst
    <3> QED BY <1>1, <2>1, <3>1, ZenonT(30) DEF Resting
  <2> QED BY <1>6, <2>2, <2>3, ZenonT(30) DEF Worker
<1> QED
  BY <1>3, <1>4, <1>5, <1>6, ZenonT(30) DEF Next, RxCore

LEMMA BInvInit ==
  ASSUME CardinalityFacts, Init
  PROVE  BInv
<1>1. Sound(pool, where) /\ Contents
  BY HoldersInit
<1>a. config \in [kni : BOOLEAN, owner : {Rx, "other"}]
  BY ZenonT(30) DEF Init
<1>b. 0 \in 0 .. Len(StopOrder)
  BY BoundsAssumption, SeqRange
<1>3. /\ target \in [Mbufs -> Paths \cup {TARGET_KNI, TARGET_DROP}]
      /\ stop \in 0 .. Len(StopOrder)
      /\ workAt \in [Workers -> {"wait", "classify", "done"}]
      /\ metrics \in [Metrics -> Nat] /\ statsd \in [Metrics -> Nat]
  BY <1>b, Zenon DEF Init
<1>4. /\ Len(pkts) <= PKT_BURST_SZ * Cardinality(Paths) /\ rxAt = "loop" /\ pkts = <<>>
      /\ Len(kniRing) <= KniRingSize
      /\ \A f \in Paths : Len(bursts[f]) < 1
      /\ \A w \in Workers : Len(work[w]) <= DIST_BURST
  BY Bounds, Capacity, Empty DEF Init
<1>5. pool \in [Mbufs -> Nat]
  BY <1>1 DEF Sound
<1>6. TypeOK
  BY <1>1, <1>3, <1>4, <1>5, <1>a, Zenon DEF TypeOK, Contents
<1>7. Resting /\ Reporting
  BY DEF Init, Resting, Reporting, NothingRead
<1> QED BY <1>1, <1>6, <1>7 DEF BInv

LEMMA BInvStep ==
  ASSUME CardinalityFacts, BInv, [Next]_vars
  PROVE  BInv'
<1>1. Sound(pool', where') /\ Contents'
  BY HoldersStep, ZenonT(30)
<1>2. Sound(pool, where)'
  BY <1>1, ZenonT(30) DEF Sound, Places, Mbufs
<1>3. pool' \in [Mbufs -> Nat]
  BY <1>1 DEF Sound
<1>4. Sizes' /\ Reporting' /\ Resting'
  BY SizesStep, RestingStep, ZenonT(30)
<1>5. TypeOK'
  BY <1>1, <1>3, <1>4, ZenonT(30) DEF TypeOK, Contents, Sizes
<1> QED BY <1>2, <1>4, <1>5 DEF BInv

-------------------------------------------------------------------------------
(* The counters and the packets on their way. *)

\* Packets that were classified and wait for the receiving core, and those
\* of them that go out on a port or to the kernel.
OnWay == Range(returned) \cup Range(pkts)
InBurst == {m \in Mbufs : \E f \in Paths : m \in Range(bursts[f])}
ToSend == InBurst \cup {m \in OnWay : target[m] \in Paths}
ToKernel == {m \in OnWay : target[m] = TARGET_KNI}

\* Packets on their way to a port or the kernel have been counted.
Sending ==
    /\ Counted("eth_tx") + Cardinality(ToSend) <= Counted("encapsulated")
    /\ Counted("kni_tx") + Cardinality(ToKernel) <= Counted("kni")

CInv == MetricsBalance /\ Sending

\* A packet that is not classified still has the flow path it came on.
Arrived == \A w \in Workers :
             \A m \in Range(backlog[w]) \cup Range(work[w]) : target[m] \in Paths

LEMMA Subsets ==
  ASSUME Contents
  PROVE  /\ OnWay \in SUBSET Mbufs /\ InBurst \in SUBSET Mbufs
         /\ ToSend \in SUBSET Mbufs /\ ToKernel \in SUBSET Mbufs
         /\ Unclassified \in SUBSET Mbufs
<1>1. Range(returned) \subseteq Mbufs /\ Range(pkts) \subseteq Mbufs
  BY SeqRange DEF Contents
<1> QED BY <1>1 DEF OnWay, InBurst, ToSend, ToKernel, Unclassified

LEMMA CountedTypes ==
  ASSUME metrics \in [Metrics -> Nat], statsd \in [Metrics -> Nat]
  PROVE  \A i \in Metrics : Counted(i) \in Nat
  BY DEF Counted

\* Packets D go to ports and E to the kernel, and no more than those are
\* counted as sent.
Sends(D, E) ==
    /\ D \in SUBSET ToSend /\ E \in SUBSET ToKernel
    /\ ToSend' \in SUBSET (ToSend \ D) /\ ToKernel' \in SUBSET (ToKernel \ E)
    /\ \A i \in Metrics : Counted(i)' \in Nat
    /\ Counted("eth_tx")' <= Counted("eth_tx") + Cardinality(D)
    /\ Counted("kni_tx")' <= Counted("kni_tx") + Cardinality(E)
    /\ Counted("encapsulated")' = Counted("encapsulated")
    /\ Counted("kni")' = Counted("kni")

LEMMA Apart ==
  ASSUME BInv
  PROVE  /\ Range(pkts) \cap Range(returned) = {}
         /\ \A f \in Paths : /\ Range(bursts[f]) \cap Range(returned) = {}
                            /\ Range(bursts[f]) \cap Range(pkts) = {}
         /\ \A f, g \in Paths : f # g => Range(bursts[f]) \cap Range(bursts[g]) = {}
         /\ \A v, w \in Workers : Range(backlog[v]) \cap Range(work[w]) = {}
         /\ \A v, w \in Workers : v # w => Range(work[v]) \cap Range(work[w]) = {}
<1>1. \A x, y \in Places : x # y => Range(where[x]) \cap Range(where[y]) = {}
  BY ZenonT(30) DEF BInv, Sound
<1>2. Range(pkts) \cap Range(returned) = {}
  <2>1. <<"pkts", Rx>> # <<"returned", Rx>>
    BY ZenonT(30)
  <2> QED BY <1>1, <2>1, PlacesAre, WhereIs, ZenonT(30)
<1>3. ASSUME NEW f \in Paths
      PROVE  Range(bursts[f]) \cap Range(returned) = {} /\ Range(bursts[f]) \cap Range(pkts) = {}
  <2>1. <<"pkts", Rx>> # <<"bursts", f>> /\ <<"returned", Rx>> # <<"bursts", f>>
    BY ZenonT(30)
  <2> QED BY <1>1, <2>1, PlacesAre, WhereIs, ZenonT(30)
<1>4. ASSUME NEW f \in Paths, NEW g \in Paths, f # g
      PROVE  Range(bursts[f]) \cap Range(bursts[g]) = {}
  <2>1. <<"bursts", f>> # <<"bursts", g>>
    BY <1>4
  <2> QED BY <1>1, <2>1, PlacesAre, WhereIs, ZenonT(30)
<1>5. ASSUME NEW v \in Workers, NEW w \in Workers
      PROVE  Range(backlog[v]) \cap Range(work[w]) = {}
  <2>1. <<"backlog", v>> # <<"work", w>>
    BY ZenonT(30)
  <2>2. /\ <<"backlog", v>> \in Places /\ where[<<"backlog", v>>] = backlog[v]
        /\ <<"work", w>> \in Places /\ where[<<"work", w>>] = work[w]
    BY PlacesAre, WhereIs, ZenonT(30)
  <2> QED BY <1>1, <2>1, <2>2
<1>6. ASSUME NEW v \in Workers, NEW w \in Workers, v # w
      PROVE  Range(work[v]) \cap Range(work[w]) = {}
  <2>1. <<"work", v>> # <<"work", w>>
    BY <1>6, ZenonT(30)
  <2>2. /\ <<"work", v>> \in Places /\ where[<<"work", v>>] = work[v]
        /\ <<"work", w>> \in Places /\ where[<<"work", w>>] = work[w]
    BY PlacesAre, WhereIs, ZenonT(30)
  <2> QED BY <1>1, <2>1, <2>2
<1> QED BY <1>2, <1>3, <1>4, <1>5, <1>6, ZenonT(30)

LEMMA CountsStep ==
  ASSUME CardinalityFacts
  PROVE  BInv /\ CInv /\ Arrived /\ [Next]_vars => CInv'
<1>Sized. ASSUME NEW S \in SUBSET Mbufs PROVE Cardinality(S) \in Nat
  BY DEF CardinalityFacts
<1>Added. ASSUME NEW S \in SUBSET Mbufs, NEW D \in SUBSET Mbufs, S \cap D = {}
          PROVE  Cardinality(S \cup D) = Cardinality(S) + Cardinality(D)
  BY <1>Added DEF CardinalityFacts
<1>CountRange. ASSUME NEW s \in Seq(Mbufs), IsInjective(s)
               PROVE  Cardinality(Range(s)) = Len(s)
  BY <1>CountRange DEF CardinalityFacts
<1>NoneIsZero. Cardinality({}) = 0
  BY DEF CardinalityFacts
<1>Removed. ASSUME NEW S \in SUBSET Mbufs, NEW D \in SUBSET S
            PROVE  Cardinality(S \ D) = Cardinality(S) - Cardinality(D)
  <2> USE <1>Removed
  <2>1. S \ D \in SUBSET Mbufs /\ D \in SUBSET Mbufs /\ (S \ D) \cap D = {} /\ (S \ D) \cup D = S
    OBVIOUS
  <2>2. Cardinality((S \ D) \cup D) = Cardinality(S \ D) + Cardinality(D)
    BY <2>1, <1>Added
  <2>3. Cardinality(S) = Cardinality(S \ D) + Cardinality(D)
    BY <2>1, <2>2, Zenon
  <2> QED BY <2>1, <2>3, <1>Sized
<1>Fewer. ASSUME NEW S \in SUBSET Mbufs, NEW D \in SUBSET S, NEW T \in SUBSET (S \ D)
          PROVE  Cardinality(T) + Cardinality(D) <= Cardinality(S)
  <2> USE <1>Fewer
  <2>1. S \ D \in SUBSET Mbufs /\ T \in SUBSET Mbufs /\ D \in SUBSET Mbufs
    OBVIOUS
  <2>2. Cardinality(S \ D) \in Nat /\ Cardinality(T) \in Nat
        /\ Cardinality(D) \in Nat /\ Cardinality(S) \in Nat
    BY <2>1, <1>Sized, ZenonT(30)
  <2>3. Cardinality(T) <= Cardinality(S \ D)
    BY <2>1 DEF CardinalityFacts
  <2>4. Cardinality(S \ D) = Cardinality(S) - Cardinality(D)
    BY <1>Removed, Zenon
  <2> QED BY <2>2, <2>3, <2>4
<1>More. ASSUME NEW S \in SUBSET Mbufs, NEW D \in SUBSET Mbufs, NEW T \in SUBSET (S \cup D)
         PROVE  Cardinality(T) <= Cardinality(S) + Cardinality(D)
  <2> USE <1>More
  <2> DEFINE E == D \ S
  <2>1. S \cup D = S \cup E /\ S \cap E = {} /\ E \in SUBSET D /\ E \in SUBSET Mbufs
        /\ S \cup D \in SUBSET Mbufs
    OBVIOUS
  <2>2. Cardinality(S \cup D) = Cardinality(S) + Cardinality(E)
    BY <2>1, <1>Added
  <2>3. /\ Cardinality(D) \in Nat /\ Cardinality(S) \in Nat
        /\ Cardinality(E) \in Nat /\ Cardinality(T) \in Nat
    BY <2>1, <1>Sized, ZenonT(30)
  <2> HIDE DEF E
  <2>4. Cardinality(E) <= Cardinality(D)
    BY <2>1, Zenon DEF CardinalityFacts
  <2>5. Cardinality(T) <= Cardinality(S \cup D)
    BY <2>1 DEF CardinalityFacts
  <2> QED BY <2>2, <2>3, <2>4, <2>5
<1>CountedOf. ASSUME metrics \in [Metrics -> Nat], statsd \in [Metrics -> Nat], UNCHANGED statsd,
                     NEW n \in Metrics, NEW k \in Nat, Count(n, k)
              PROVE  \A i \in Metrics : /\ Counted(i) \in Nat
                                        /\ Counted(i)' = Counted(i) + (IF i = n THEN k ELSE 0)
  BY <1>CountedOf DEF Count, Counted
\* Buffers that the receiving core may fill are in no array.
<1>IdleFlushed. ASSUME BInv, NEW p \in IF config.owner = Rx THEN KniFlushed ELSE {pool},
                       NEW m \in Idle(p)
                PROVE  /\ m \in Mbufs
                       /\ \A x \in Places : x # <<"kniRing", Rx>> => m \notin Range(where[x])
  <2> USE <1>IdleFlushed
  <2>1. /\ m \in Mbufs /\ kniRing \in Seq(Mbufs) /\ Sound(pool, where) /\ IsInjective(kniRing)
        /\ pool \in [Mbufs -> {0, 1}]
    BY Injective, ZenonT(30) DEF BInv, TypeOK, Idle, Sound
  <2>2. where[<<"kniRing", Rx>>] = kniRing /\ <<"kniRing", Rx>> \in Places
    BY WhereIs, PlacesAre, ZenonT(30)
  <2>3. CASE pool[m] = 1
    BY <2>1, <2>3, ZenonT(30) DEF Sound
  <2>4. CASE pool[m] = 0
    <3>1. config.owner = Rx
      BY <2>4 DEF Idle
    <3> DEFINE n == Min({Len(kniRing), PKT_BURST_SZ})
    <3>2. \A i \in Range(kniRing) : pool[i] = 0
      BY <2>1, <2>2, SeqRange DEF Sound
    <3>3. p = Release(pool, Range(SubSeq(kniRing, 1, n)))
      BY <2>1, <3>1, <3>2, KniFlushedOf, ZenonT(30)
    <3>4. n \in 0 .. Len(kniRing)
      BY <2>1, MinLen, Bounds, Zenon
    <3> HIDE DEF n
    <3>5. Range(SubSeq(kniRing, 1, n)) \subseteq Range(kniRing)
      BY <2>1, <3>4, Cut
    <3>6. m \in Range(kniRing)
      BY <2>1, <2>4, <3>3, <3>5 DEF Release, Idle
    <3> QED BY <2>1, <2>2, <3>6 DEF Sound
  <2> QED BY <2>1, <2>3, <2>4, ZenonT(30)
<1>SendingLess. ASSUME BInv, Sending, NEW D, NEW E, Sends(D, E)
                PROVE  Sending'
  <2> USE <1>SendingLess
  <2> USE DEF Sends
  <2>1. ToSend \in SUBSET Mbufs /\ ToKernel \in SUBSET Mbufs
    BY Subsets, ZenonT(30) DEF BInv, TypeOK, Contents
  <2>2. D \in SUBSET Mbufs /\ E \in SUBSET Mbufs /\ ToSend' \in SUBSET Mbufs /\ ToKernel' \in SUBSET Mbufs
    BY <2>1
  <2>3. /\ Cardinality(ToSend) \in Nat /\ Cardinality(ToKernel) \in Nat
        /\ Cardinality(D) \in Nat /\ Cardinality(E) \in Nat
        /\ Cardinality(ToSend') \in Nat /\ Cardinality(ToKernel') \in Nat
    BY <2>1, <2>2, <1>Sized, ZenonT(30)
  <2>4. Cardinality(ToSend') + Cardinality(D) <= Cardinality(ToSend)
    BY <2>1, <1>Fewer, ZenonT(30)
  <2>5. Cardinality(ToKernel') + Cardinality(E) <= Cardinality(ToKernel)
    BY <2>1, <1>Fewer, ZenonT(30)
  <2>6. \A i \in Metrics : Counted(i) \in Nat
    BY CountedTypes, ZenonT(30) DEF BInv, TypeOK
  <2>7. /\ Counted("eth_tx") \in Nat /\ Counted("encapsulated") \in Nat
        /\ Counted("kni_tx") \in Nat /\ Counted("kni") \in Nat
        /\ Counted("eth_tx")' \in Nat /\ Counted("kni_tx")' \in Nat
    BY <2>6, MetricNames, ZenonT(30)
  <2>8. Counted("eth_tx")' + Cardinality(ToSend') <= Counted("encapsulated")'
    BY <2>3, <2>4, <2>7, SMTT(30) DEF Sending
  <2>9. Counted("kni_tx")' + Cardinality(ToKernel') <= Counted("kni")'
    BY <2>3, <2>5, <2>7 DEF Sending
  <2> QED BY <2>8, <2>9, ZenonT(30) DEF Sending
<1>RxDistributeCounts. ASSUME BInv, CInv, RxDistribute
                       PROVE  CInv'
  <2> USE <1>RxDistributeCounts
  <2>1. /\ metrics \in [Metrics -> Nat] /\ statsd \in [Metrics -> Nat] /\ Contents
        /\ returned \in Seq(Mbufs) /\ IsInjective(returned) /\ pkts = <<>>
        /\ UNCHANGED <<statsd, bursts, work, workAt>>
    BY Injective, ZenonT(30) DEF BInv, TypeOK, Contents, RxDistribute
  <2>2. PICK p \in IF config.owner = Rx THEN KniFlushed ELSE {pool} :
        \E filled \in Fillable(p) : \E path \in [filled -> Paths] : \E share \in Shares(filled) :
          /\ target' = [m \in Mbufs |-> IF m \in filled THEN path[m] ELSE target[m]]
          /\ backlog' = [w \in Workers |-> backlog[w] \o share[w]]
          /\ Count("total", Cardinality(filled))
          /\ pkts' = SubSeq(returned, 1, Collected(Cardinality(filled)))
          /\ returned' = SubSeq(returned, Collected(Cardinality(filled)) + 1, Len(returned))
    BY ZenonT(30) DEF RxDistribute
  <2>3. PICK filled \in Fillable(p) : \E path \in [filled -> Paths] : \E share \in Shares(filled) :
          /\ target' = [m \in Mbufs |-> IF m \in filled THEN path[m] ELSE target[m]]
          /\ backlog' = [w \in Workers |-> backlog[w] \o share[w]]
          /\ Count("total", Cardinality(filled))
          /\ pkts' = SubSeq(returned, 1, Collected(Cardinality(filled)))
          /\ returned' = SubSeq(returned, Collected(Cardinality(filled)) + 1, Len(returned))
    BY <2>2, ZenonT(30)
  <2>4. PICK share \in Shares(filled) :
          /\ \A m \in Mbufs \ filled : target'[m] = target[m]
          /\ backlog' = [w \in Workers |-> backlog[w] \o share[w]]
          /\ Count("total", Cardinality(filled))
          /\ pkts' = SubSeq(returned, 1, Collected(Cardinality(filled)))
          /\ returned' = SubSeq(returned, Collected(Cardinality(filled)) + 1, Len(returned))
    BY <2>3, ZenonT(30)
  <2> DEFINE n == Collected(Cardinality(filled))
  <2>5. n \in 0 .. Len(returned)
    BY <2>1, Capacity, MinLen, ZenonT(30) DEF Collected
  <2>6. filled \in SUBSET Mbufs /\ \A m \in filled : m \in Idle(p)
    BY DEF Fillable, Idle
  <2>7. Cardinality(filled) \in Nat
    BY <2>6, <1>Sized, ZenonT(30)
  <2>8. \A i \in Metrics : /\ Counted(i) \in Nat
                           /\ Counted(i)' = Counted(i) + (IF i = "total" THEN Cardinality(filled) ELSE 0)
    BY <2>1, <2>4, <2>7, <1>CountedOf, MetricNames, ZenonT(30)
  <2>9. pkts' = SubSeq(returned, 1, n) /\ returned' = SubSeq(returned, n + 1, Len(returned))
    BY <2>4
  <2> HIDE DEF n
  <2>10. OnWay' = OnWay
    <3>1. Range(pkts') \cup Range(returned') = Range(returned)
      BY <2>1, <2>5, <2>9, Cut, ZenonT(30)
    <3>2. Range(pkts) = {}
      BY <2>1, Empty, ZenonT(30)
    <3> QED BY <3>1, <3>2, ZenonT(30) DEF OnWay
  <2>11. ASSUME NEW m \in filled
         PROVE  m \notin OnWay /\ m \notin Unclassified
    <3>1. m \in Mbufs /\ \A x \in Places : x # <<"kniRing", Rx>> => m \notin Range(where[x])
      BY <2>6, <1>IdleFlushed, ZenonT(30)
    <3>2. m \notin Range(returned) /\ m \notin Range(pkts)
      BY <3>1, PlacesAre, WhereIs, ZenonT(30)
    <3>3. \A w \in Workers : m \notin Range(backlog[w]) /\ m \notin Range(work[w])
      BY <3>1, PlacesAre, WhereIs, ZenonT(30)
    <3> QED BY <3>2, <3>3, ZenonT(30) DEF OnWay, Unclassified
  <2>12. OnWay \in SUBSET Mbufs /\ Unclassified \in SUBSET Mbufs
    BY <2>1, Subsets, ZenonT(30)
  <2>13. \A m \in OnWay : target'[m] = target[m]
    BY <2>4, <2>11, <2>12, ZenonT(30)
  <2>14. ToSend' = ToSend /\ ToKernel' = ToKernel
    <3>1. InBurst' = InBurst
      BY <2>1, ZenonT(30) DEF InBurst
    <3> QED BY <2>10, <2>13, <3>1, ZenonT(30) DEF ToSend, ToKernel
  <2>15. Unclassified' = Unclassified \cup filled
    <3>1. ASSUME NEW w \in Workers PROVE Range(backlog'[w]) = Range(backlog[w]) \cup Range(share[w])
      <4>1. share[w] \in Seq(Mbufs)
        BY <2>6, SharesOf, ZenonT(30)
      <4>2. backlog[w] \in Seq(Mbufs) /\ backlog'[w] = backlog[w] \o share[w]
        BY <2>1, <2>4, ZenonT(30) DEF Contents
      <4> QED BY <4>1, <4>2, BothRanges, Zenon
    <3>2. \A m \in Mbufs : m \in filled <=> \E w \in Workers : m \in Range(share[w])
      BY <2>6, SharesOf, ZenonT(30) DEF Shares
    <3> QED BY <2>1, <2>6, <3>1, <3>2, ZenonT(30) DEF Unclassified
  <2>16. Cardinality(Unclassified') = Cardinality(Unclassified) + Cardinality(filled)
    BY <2>6, <2>11, <2>12, <2>15, <1>Added, Zenon
  <2>17. MetricsBalance'
    <3>1. Cardinality(Unclassified) \in Nat
      BY <2>12, <1>Sized, ZenonT(30)
    <3>2. /\ Counted("total")' = Counted("total") + Cardinality(filled)
          /\ Counted("director")' = Counted("director") /\ Counted("unmatched")' = Counted("unmatched")
          /\ Counted("kni")' = Counted("kni") /\ Counted("encapsulated")' = Counted("encapsulated")
          /\ Counted("encap_failed")' = Counted("encap_failed")
          /\ Counted("total") \in Nat /\ Counted("director") \in Nat /\ Counted("unmatched") \in Nat
          /\ Counted("kni") \in Nat
      BY <2>7, <2>8, MetricNames
    <3> QED BY <2>1, <2>7, <2>16, <3>1, <3>2, SMTT(30) DEF CInv, MetricsBalance
  <2>18. Sending'
    BY <2>8, <2>14, MetricNames, SMTT(30) DEF CInv, Sending
  <2> QED BY <2>17, <2>18, ZenonT(30) DEF CInv
\* What the receiving core does with packets that were classified leaves the
\* balance alone.
<1>SameBalance. ASSUME BInv, MetricsBalance, UNCHANGED <<statsd, backlog, work, workAt>>,
                       NEW n \in {"eth_tx", "kni_tx"}, NEW k \in Nat, Count(n, k)
                PROVE  MetricsBalance'
  <2> USE <1>SameBalance
  <2>1. metrics \in [Metrics -> Nat] /\ statsd \in [Metrics -> Nat]
    BY ZenonT(30) DEF BInv, TypeOK
  <2>2. n \in Metrics
    BY MetricNames
  <2>3. \A i \in Metrics : Counted(i)' = Counted(i) + (IF i = n THEN k ELSE 0) /\ Counted(i) \in Nat
    BY <2>1, <2>2, <1>CountedOf, ZenonT(30)
  <2>4. \A i \in Metrics \ {"eth_tx", "kni_tx"} : Counted(i)' = Counted(i)
    BY <2>3
  <2>5. /\ Counted("total")' = Counted("total") /\ Counted("director")' = Counted("director")
        /\ Counted("unmatched")' = Counted("unmatched") /\ Counted("kni")' = Counted("kni")
        /\ Counted("encapsulated")' = Counted("encapsulated")
        /\ Counted("encap_failed")' = Counted("encap_failed")
    BY <2>4, MetricNames, ZenonT(30)
  <2>6. Unclassified' = Unclassified
    BY Zenon DEF Unclassified
  <2> QED BY <2>5, <2>6 DEF MetricsBalance
<1>CountedFew. ASSUME metrics \in [Metrics -> Nat], statsd \in [Metrics -> Nat], UNCHANGED statsd,
                      NEW n \in {"eth_tx", "kni_tx"}, NEW k \in Nat, Count(n, k)
               PROVE  /\ \A i \in Metrics : Counted(i)' \in Nat
                      /\ Counted("eth_tx")' = Counted("eth_tx") + (IF n = "eth_tx" THEN k ELSE 0)
                      /\ Counted("kni_tx")' = Counted("kni_tx") + (IF n = "kni_tx" THEN k ELSE 0)
                      /\ Counted("eth_tx") \in Nat /\ Counted("kni_tx") \in Nat
                      /\ n # "eth_tx" => Counted("eth_tx")' = Counted("eth_tx")
                      /\ n # "kni_tx" => Counted("kni_tx")' = Counted("kni_tx")
                      /\ Counted("encapsulated")' = Counted("encapsulated")
                      /\ Counted("kni")' = Counted("kni")
  <2> USE <1>CountedFew
  <2>1. n \in Metrics
    BY MetricNames, Zenon
  <2>2. \A i \in Metrics : /\ Counted(i) \in Nat
                           /\ Counted(i)' = Counted(i) + (IF i = n THEN k ELSE 0)
    BY <2>1, <1>CountedOf, Zenon
  <2>3. \A i \in Metrics : Counted(i)' \in Nat /\ (i # n => Counted(i)' = Counted(i))
    BY <2>2
  <2> QED BY <2>2, <2>3, MetricNames, Zenon
<1>EmptiedBurst. ASSUME BInv, NEW f \in Paths, bursts' = [bursts EXCEPT ![f] = <<>>]
                 PROVE  InBurst' = InBurst \ Range(bursts[f]) /\ Range(bursts[f]) \subseteq InBurst
  <2> USE <1>EmptiedBurst
  <2>1. \A g \in Paths : g # f => Range(bursts[g]) \cap Range(bursts[f]) = {}
    BY Apart, ZenonT(30)
  <2>2. \A g \in Paths : bursts'[g] = IF g = f THEN <<>> ELSE bursts[g]
    BY ZenonT(30) DEF BInv, TypeOK
  <2>3. Range(<<>>) = {}
    BY Empty, ZenonT(30)
  <2>4. Range(bursts[f]) \subseteq Mbufs
    BY SeqRange DEF BInv, TypeOK
  <2> QED BY <2>1, <2>2, <2>3, <2>4, ZenonT(30) DEF InBurst
<1>NoCount. ASSUME metrics \in [Metrics -> Nat], UNCHANGED metrics, NEW n \in Metrics
            PROVE  Count(n, 0)
  BY <1>NoCount DEF Count
\* The first packet that came back is held nowhere else.
<1>HeadOnWay. ASSUME BInv, pkts # <<>>
              PROVE  LET m == Head(pkts)
                     IN  /\ m \in Mbufs /\ m \in OnWay
                         /\ Range(Tail(pkts)) \cup Range(returned) = OnWay \ {m}
                         /\ \A f \in Paths : m \notin Range(bursts[f])
  <2> USE <1>HeadOnWay
  <2> DEFINE m == Head(pkts)
  <2>1. /\ pkts \in Seq(Mbufs) /\ IsInjective(pkts) /\ Sound(pool, where)
    BY Injective, ZenonT(30) DEF BInv, TypeOK
  <2>2. /\ SubSeq(pkts, 1, 1) = <<m>> /\ SubSeq(pkts, 1 + 1, Len(pkts)) = Tail(pkts)
        /\ 1 \in 0 .. Len(pkts) /\ m \in Mbufs
    BY <2>1, HeadCut
  <2>3. Range(<<m>>) = {m}
    BY Missed
  <2> HIDE DEF m
  <2>4. {m} \cap Range(Tail(pkts)) = {} /\ {m} \cup Range(Tail(pkts)) = Range(pkts)
    <3>1. \A n \in 0 .. Len(pkts) :
            /\ Range(SubSeq(pkts, 1, n)) \cap Range(SubSeq(pkts, n + 1, Len(pkts))) = {}
            /\ Range(SubSeq(pkts, 1, n)) \cup Range(SubSeq(pkts, n + 1, Len(pkts))) = Range(pkts)
      BY <2>1, Cut
    <3> QED BY <2>2, <2>3, <3>1, ZenonT(30)
  <2>5. Range(pkts) \cap Range(returned) = {}
    BY Apart, ZenonT(30)
  <2>6. ASSUME NEW f \in Paths PROVE Range(pkts) \cap Range(bursts[f]) = {}
    BY Apart
  <2>7. m \in OnWay /\ Range(Tail(pkts)) \cup Range(returned) = OnWay \ {m}
    BY <2>4, <2>5, ZenonT(30) DEF OnWay
  <2>8. \A f \in Paths : m \notin Range(bursts[f])
    BY <2>4, <2>6, ZenonT(30)
  <2> QED BY <2>2, <2>7, <2>8, ZenonT(30) DEF m
<1>ShardPacketCounts. ASSUME BInv, CInv, ShardPacket
                      PROVE  CInv'
  <2> USE <1>ShardPacketCounts
  <2> DEFINE m == Head(pkts)
             f == target[m]
             burst == Append(bursts[f], m)
  <2>1. /\ metrics \in [Metrics -> Nat] /\ statsd \in [Metrics -> Nat] /\ Contents
        /\ UNCHANGED <<statsd, backlog, work, workAt, returned, target>>
        /\ pkts # <<>> /\ pkts' = Tail(pkts) /\ Sending /\ MetricsBalance
    BY ZenonT(30) DEF BInv, CInv, TypeOK, Contents, ShardPacket
  <2>2. /\ m \in Mbufs /\ m \in OnWay /\ OnWay' = OnWay \ {m}
        /\ \A g \in Paths : m \notin Range(bursts[g])
    BY <2>1, <1>HeadOnWay, ZenonT(30) DEF OnWay
  <2>3. ToSend \in SUBSET Mbufs /\ ToKernel \in SUBSET Mbufs
    BY <2>1, Subsets
  <2>4. \A i \in Metrics : Counted(i) \in Nat
    BY <2>1, CountedTypes, ZenonT(30)
  <2>5. TARGET_KNI \notin Paths /\ TARGET_DROP \notin Paths /\ TARGET_KNI # TARGET_DROP
    BY BoundsAssumption DEF TARGET_KNI, TARGET_DROP
  <2>6. CASE f = TARGET_KNI /\ config.kni /\ glb_kni_safe_tx_burst(m) /\ UNCHANGED bursts
    <3> HIDE DEF m, f
    <3>1. PICK k \in 0 .. 1 : Count("kni_tx", k)
      BY <2>6 DEF glb_kni_safe_tx_burst
    <3>2. k \in Nat
      OBVIOUS
    <3>3. /\ \A i \in Metrics : Counted(i)' \in Nat
          /\ Counted("eth_tx")' = Counted("eth_tx") /\ Counted("kni_tx")' = Counted("kni_tx") + k
          /\ Counted("encapsulated")' = Counted("encapsulated") /\ Counted("kni")' = Counted("kni")
      BY <2>1, <3>1, <3>2, <1>CountedFew, ZenonT(30)
    <3>4. ToSend' \in SUBSET (ToSend \ {}) /\ ToKernel' \in SUBSET (ToKernel \ {m})
          /\ {m} \in SUBSET ToKernel
      BY <2>1, <2>2, <2>6, ZenonT(30) DEF ToSend, ToKernel, InBurst, f
    <3>5. Cardinality({m}) = 1 /\ Cardinality({}) = 0
      BY Zenon DEF CardinalityFacts
    <3>6. Sends({}, {m})
      BY <2>4, <3>3, <3>4, <3>5, MetricNames DEF Sends
    <3>7. MetricsBalance'
      BY <2>1, <3>1, <3>2, <1>SameBalance, ZenonT(30)
    <3> QED BY <2>1, <3>6, <3>7, <1>SendingLess, ZenonT(30) DEF CInv
  <2>7. ASSUME UNCHANGED metrics, ToSend' \in SUBSET ToSend, ToKernel' \in SUBSET ToKernel
        PROVE  CInv'
    <3>1. \A i \in Metrics : Counted(i)' = Counted(i)
      BY <2>1, <2>7 DEF Counted
    <3>2. Cardinality({}) = 0
      BY <1>NoneIsZero, Zenon
    <3>3. Sends({}, {})
      BY <2>4, <2>7, <3>1, <3>2, MetricNames DEF Sends
    <3>4. Count("eth_tx", 0)
      BY <2>1, <2>7, <1>NoCount, MetricNames, ZenonT(30)
    <3>5. MetricsBalance'
      BY <2>1, <3>4, <1>SameBalance
    <3> QED BY <2>1, <3>3, <3>5, <1>SendingLess, ZenonT(30) DEF CInv
  <2>8. CASE UNCHANGED <<bursts, metrics>>
    <3>1. ToSend' \in SUBSET ToSend /\ ToKernel' \in SUBSET ToKernel
      BY <2>1, <2>2, <2>8, ZenonT(30) DEF ToSend, ToKernel, InBurst
    <3> QED BY <2>7, <2>8, <3>1, ZenonT(30)
  <2>9. ASSUME f \in Paths
        PROVE  /\ burst \in Seq(Mbufs) /\ Range(burst) = Range(bursts[f]) \cup {m}
               /\ IsInjective(burst) /\ bursts[f] \in Seq(Mbufs) /\ m \notin Range(bursts[f])
    <3> HIDE DEF m, f
    <3>1. bursts[f] \in Seq(Mbufs) /\ IsInjective(bursts[f]) /\ m \notin Range(bursts[f])
      BY <2>1, <2>2, <2>9, Injective, ZenonT(30) DEF Contents, BInv
    <3>2. /\ Append(bursts[f], m) \in Seq(Mbufs)
          /\ Range(Append(bursts[f], m)) = Range(bursts[f]) \cup {m}
          /\ IsInjective(Append(bursts[f], m))
      BY <2>2, <3>1, Appended
    <3> QED BY <3>1, <3>2, ZenonT(30)
  <2>10. CASE f \in Paths /\ bursts' = [bursts EXCEPT ![f] = burst] /\ UNCHANGED metrics
    <3> HIDE DEF m, f, burst
    <3>1. InBurst' = InBurst \cup {m}
      BY <2>1, <2>2, <2>9, <2>10, ZenonT(30) DEF InBurst, Contents
    <3>2. ToSend' \in SUBSET ToSend /\ ToKernel' \in SUBSET ToKernel
      BY <2>1, <2>2, <2>10, <3>1, ZenonT(30) DEF ToSend, ToKernel, f
    <3> QED BY <2>7, <2>10, <3>2, ZenonT(30)
  <2>11. CASE f \in Paths /\ flush_packet_burst(f, burst)
    <3> HIDE DEF m, f, burst
    <3>1. Cardinality(Range(burst)) = Len(burst) /\ Len(burst) \in Nat
      BY <2>9, <2>11, <1>CountRange, SeqRange, ZenonT(30)
    <3>2. PICK k \in 0 .. Len(burst) : Count("eth_tx", k)
      BY <2>11 DEF flush_packet_burst
    <3>3. k \in Nat /\ k <= Len(burst)
      BY <3>1
    <3>4. bursts' = [bursts EXCEPT ![f] = <<>>]
      BY <2>11, ZenonT(30) DEF flush_packet_burst, Emptied
    <3>5. InBurst' = InBurst \ Range(bursts[f]) /\ Range(bursts[f]) \subseteq InBurst
      BY <2>1, <2>11, <3>4, <1>EmptiedBurst, ZenonT(30)
    <3>6. InBurst \cap OnWay = {}
      BY Apart DEF InBurst, OnWay
    <3>7. ToSend' \in SUBSET (ToSend \ Range(burst)) /\ Range(burst) \in SUBSET ToSend
      BY <2>1, <2>2, <2>9, <2>11, <3>5, <3>6, ZenonT(30) DEF ToSend, f
    <3>8. ToKernel' \in SUBSET (ToKernel \ {})
      BY <2>1, <2>2, ZenonT(30) DEF ToKernel
    <3>9. /\ \A i \in Metrics : Counted(i)' \in Nat
          /\ Counted("eth_tx")' = Counted("eth_tx") + k /\ Counted("kni_tx")' = Counted("kni_tx")
          /\ Counted("encapsulated")' = Counted("encapsulated") /\ Counted("kni")' = Counted("kni")
      BY <2>1, <3>2, <3>3, <1>CountedFew
    <3>10. Cardinality({}) = 0
      BY <1>NoneIsZero, ZenonT(30)
    <3>11. Sends(Range(burst), {})
      BY <2>4, <3>1, <3>3, <3>7, <3>8, <3>9, <3>10, MetricNames, SMTT(30) DEF Sends
    <3>12. MetricsBalance'
      BY <2>1, <3>2, <3>3, <1>SameBalance, ZenonT(30)
    <3> QED BY <2>1, <3>11, <3>12, <1>SendingLess, ZenonT(30) DEF CInv
  <2> QED
    BY <2>6, <2>8, <2>10, <2>11, ZenonT(30) DEF ShardPacket
<1>FlushPathCounts. ASSUME BInv, CInv, FlushPath
                    PROVE  CInv'
  <2> USE <1>FlushPathCounts
  <2>1. /\ metrics \in [Metrics -> Nat] /\ statsd \in [Metrics -> Nat] /\ Contents
        /\ UNCHANGED <<statsd, backlog, work, workAt, returned, pkts, target>>
        /\ Sending /\ MetricsBalance
    BY ZenonT(30) DEF BInv, CInv, TypeOK, Contents, FlushPath
  <2>2. PICK f \in Paths : flush_packet_burst(f, bursts[f])
    BY DEF FlushPath
  <2>3. bursts[f] \in Seq(Mbufs) /\ IsInjective(bursts[f])
    BY <2>1, Injective, ZenonT(30) DEF Contents, BInv
  <2>4. Cardinality(Range(bursts[f])) = Len(bursts[f]) /\ Len(bursts[f]) \in Nat
    BY <2>3, <1>CountRange, SeqRange, ZenonT(30)
  <2>5. PICK k \in 0 .. Len(bursts[f]) : Count("eth_tx", k)
    BY <2>2 DEF flush_packet_burst
  <2>6. k \in Nat /\ k <= Len(bursts[f])
    BY <2>4
  <2>7. bursts' = [bursts EXCEPT ![f] = <<>>]
    BY <2>2 DEF flush_packet_burst, Emptied
  <2>8. InBurst' = InBurst \ Range(bursts[f]) /\ Range(bursts[f]) \subseteq InBurst
    BY <2>7, <1>EmptiedBurst, ZenonT(30)
  <2>9. InBurst \cap OnWay = {}
    BY Apart, ZenonT(30) DEF InBurst, OnWay
  <2>10. OnWay' = OnWay
    BY <2>1, ZenonT(30) DEF OnWay
  <2>11. /\ ToSend' \in SUBSET (ToSend \ Range(bursts[f])) /\ Range(bursts[f]) \in SUBSET ToSend
         /\ ToKernel' \in SUBSET (ToKernel \ {})
    BY <2>1, <2>8, <2>9, <2>10, ZenonT(30) DEF ToSend, ToKernel
  <2>12. /\ \A i \in Metrics : Counted(i)' \in Nat
         /\ Counted("eth_tx")' = Counted("eth_tx") + k /\ Counted("kni_tx")' = Counted("kni_tx")
         /\ Counted("encapsulated")' = Counted("encapsulated") /\ Counted("kni")' = Counted("kni")
         /\ Counted("eth_tx") \in Nat /\ Counted("kni_tx") \in Nat
    BY <2>1, <2>5, <2>6, <1>CountedFew, ZenonT(30)
  <2>13. Cardinality({}) = 0
    BY <1>NoneIsZero, ZenonT(30)
  <2>14. Sends(Range(bursts[f]), {})
    BY <2>4, <2>6, <2>11, <2>12, <2>13 DEF Sends
  <2>15. MetricsBalance'
    BY <2>1, <2>5, <2>6, <1>SameBalance
  <2> QED BY <2>1, <2>14, <2>15, <1>SendingLess, Zenon DEF CInv
\* Steps that count nothing.
<1>QuietCounts. ASSUME BInv, CInv, \A i \in Metrics : Counted(i)' = Counted(i),
                       Unclassified' = Unclassified \/ \E w \in Workers : workAt'[w] = "done",
                       \A w \in Workers : workAt[w] = "done" => workAt'[w] = "done",
                       ToSend' \in SUBSET ToSend, ToKernel' \in SUBSET ToKernel
                PROVE  CInv'
  <2> USE <1>QuietCounts
  <2>1. \A i \in Metrics : Counted(i) \in Nat
    BY CountedTypes, ZenonT(30) DEF BInv, TypeOK
  <2>2. Cardinality({}) = 0
    BY <1>NoneIsZero, ZenonT(30)
  <2>3. Sends({}, {})
    BY <2>1, <2>2, MetricNames DEF Sends
  <2>4. Sending'
    BY <2>3, <1>SendingLess, ZenonT(30) DEF CInv
  <2>5. /\ Counted("total")' = Counted("total") /\ Counted("director")' = Counted("director")
        /\ Counted("unmatched")' = Counted("unmatched") /\ Counted("kni")' = Counted("kni")
        /\ Counted("encapsulated")' = Counted("encapsulated")
        /\ Counted("encap_failed")' = Counted("encap_failed")
    BY MetricNames, ZenonT(30)
  <2>6. MetricsBalance'
    BY <2>5, ZenonT(30) DEF CInv, MetricsBalance
  <2> QED BY <2>4, <2>6, ZenonT(30) DEF CInv
<1>get_pktCounts. ASSUME BInv, CInv, NEW w \in Workers, get_pkt(w)
                  PROVE  CInv'
  <2> USE <1>get_pktCounts
  <2> DEFINE n == Min({Len(backlog[w]), DIST_BURST})
             got == SubSeq(backlog[w], 1, n)
             left == SubSeq(backlog[w], n + 1, Len(backlog[w]))
  <2>1. /\ Contents /\ backlog[w] \in Seq(Mbufs) /\ IsInjective(backlog[w])
        /\ workAt \in [Workers -> {"wait", "classify", "done"}] /\ workAt[w] = "wait"
        /\ UNCHANGED <<metrics, statsd, bursts, returned, pkts, target>>
    BY Injective, ZenonT(30) DEF BInv, TypeOK, Contents, get_pkt
  <2>2. n \in 0 .. Len(backlog[w])
    BY <2>1, MinLen, Bounds, ZenonT(30)
  <2>3. /\ backlog' = [backlog EXCEPT ![w] = left]
        /\ \/ workAt' = [workAt EXCEPT ![w] = "done"]
           \/ /\ work' = [work EXCEPT ![w] = got]
              /\ workAt' = [workAt EXCEPT ![w] = "classify"]
    BY ZenonT(30) DEF get_pkt
  <2> HIDE DEF n
  <2>4. Range(got) \cup Range(left) = Range(backlog[w])
    BY <2>1, <2>2, Cut
  <2> HIDE DEF got, left
  <2>5. ToSend' = ToSend /\ ToKernel' = ToKernel
    BY <2>1, ZenonT(30) DEF ToSend, ToKernel, OnWay, InBurst
  <2>6. \A i \in Metrics : Counted(i)' = Counted(i)
    BY <2>1, ZenonT(30) DEF Counted
  <2>7. \A v \in Workers : workAt[v] = "done" => workAt'[v] = "done"
    BY <2>1, <2>3, ZenonT(30)
  <2>8. CASE workAt' = [workAt EXCEPT ![w] = "done"]
    <3>1. workAt'[w] = "done"
      BY <2>1, <2>8, ZenonT(30)
    <3> QED BY <2>5, <2>6, <2>7, <3>1, <1>QuietCounts, Zenon
  <2>9. CASE /\ work' = [work EXCEPT ![w] = got]
             /\ workAt' = [workAt EXCEPT ![w] = "classify"]
    <3>1. /\ \A v \in Workers : backlog'[v] = IF v = w THEN left ELSE backlog[v]
          /\ \A v \in Workers : work'[v] = IF v = w THEN got ELSE work[v]
          /\ \A v \in Workers : workAt'[v] = IF v = w THEN "classify" ELSE workAt[v]
      BY <2>1, <2>3, <2>9, ZenonT(30) DEF Contents
    <3>2. ASSUME NEW m \in Mbufs
          PROVE  (m \in Unclassified)' <=> m \in Unclassified
      <4>1. ASSUME NEW v \in Workers, v # w
            PROVE  backlog'[v] = backlog[v] /\ work'[v] = work[v] /\ workAt'[v] = workAt[v]
        BY <3>1, <4>1, ZenonT(30)
      <4>2. backlog'[w] = left /\ work'[w] = got /\ workAt'[w] = "classify"
        BY <3>1, ZenonT(30)
      <4> QED BY <2>1, <2>4, <4>1, <4>2, ZenonT(30) DEF Unclassified
    <3>3. Unclassified' = Unclassified
      BY <3>2, ZenonT(30) DEF Unclassified
    <3> QED BY <2>5, <2>6, <2>7, <3>3, <1>QuietCounts, ZenonT(30)
  <2> QED BY <2>3, <2>8, <2>9, ZenonT(30)
<1>ClearReturnsCounts. ASSUME BInv, CInv, flush_and_clear_returns
                       PROVE  CInv'
  <2> USE <1>ClearReturnsCounts
  <2>1. pkts = <<>> /\ UNCHANGED <<metrics, statsd, bursts, pkts, target, backlog, work, workAt>>
        /\ returned' = <<>>
    BY ZenonT(30) DEF BInv, TypeOK, flush_and_clear_returns
  <2>2. Range(<<>>) = {}
    BY Empty, ZenonT(30)
  <2>3. ToSend' \in SUBSET ToSend /\ ToKernel' \in SUBSET ToKernel
    BY <2>1, <2>2, ZenonT(30) DEF ToSend, ToKernel, OnWay, InBurst
  <2>4. Unclassified' = Unclassified
    BY <2>1 DEF Unclassified
  <2>5. \A i \in Metrics : Counted(i)' = Counted(i)
    BY <2>1, ZenonT(30) DEF Counted
  <2> QED BY <2>1, <2>3, <2>4, <2>5, <1>QuietCounts, ZenonT(30)
\* A worker returns its burst: its packets are classified and wait for the
\* receiving core.
<1>Returned. ASSUME BInv, NEW w \in Workers, workAt[w] = "classify", ReturnBurst(w),
                    UNCHANGED <<backlog, pkts>>
             PROVE  /\ Range(work[w]) \in SUBSET Unclassified
                    /\ Unclassified' = Unclassified \ Range(work[w])
                    /\ OnWay' = OnWay \cup Range(work[w])
                    /\ \A v \in Workers : workAt[v] = "done" => workAt'[v] = "done"
  <2> USE <1>Returned
  <2>1. /\ work \in [Workers -> Seq(Mbufs)] /\ returned \in Seq(Mbufs)
        /\ workAt \in [Workers -> {"wait", "classify", "done"}]
        /\ work[w] \in Seq(Mbufs)
    BY ZenonT(30) DEF BInv, TypeOK
  <2>2. Range(work[w]) \subseteq Mbufs
    BY <2>1, SeqRange, ZenonT(30)
  <2>3. Range(returned') = Range(returned) \cup Range(work[w])
    BY <2>1, BothRanges DEF ReturnBurst
  <2>4. /\ \A v \in Workers : v # w => work'[v] = work[v] /\ workAt'[v] = workAt[v]
        /\ workAt'[w] = "wait"
    BY <2>1, ZenonT(30) DEF ReturnBurst
  <2>5. /\ \A v \in Workers : Range(backlog[v]) \cap Range(work[w]) = {}
        /\ \A v \in Workers : v # w => Range(work[v]) \cap Range(work[w]) = {}
    BY Apart, ZenonT(30)
  <2>6. Range(work[w]) \in SUBSET Unclassified
    BY <2>2, ZenonT(30) DEF Unclassified
  <2>7. ASSUME NEW m \in Mbufs
        PROVE  (m \in Unclassified)' <=> (m \in Unclassified /\ m \notin Range(work[w]))
    <3>1. (m \in Unclassified)' <=> \E v \in Workers :
                   \/ m \in Range(backlog[v])
                   \/ v # w /\ workAt[v] = "classify" /\ m \in Range(work[v])
      BY <2>4, ZenonT(30) DEF Unclassified
    <3> QED BY <2>5, <3>1, ZenonT(30) DEF Unclassified
  <2>8. Unclassified' = Unclassified \ Range(work[w])
    BY <2>7, ZenonT(30) DEF Unclassified
  <2> QED BY <2>3, <2>4, <2>6, <2>8, ZenonT(30) DEF OnWay
<1>ClassifyFailsCounts. ASSUME BInv, CInv, NEW w \in Workers, ClassifyFails(w)
                        PROVE  CInv'
  <2> USE <1>ClassifyFailsCounts
  <2>1. /\ metrics \in [Metrics -> Nat] /\ statsd \in [Metrics -> Nat] /\ Contents
        /\ UNCHANGED <<statsd, backlog, bursts, pkts>> /\ work[w] \in Seq(Mbufs)
        /\ IsInjective(work[w]) /\ ReturnBurst(w) /\ workAt[w] = "classify"
        /\ Count("unmatched", Len(work[w])) /\ target' = Dropped(work[w])
    BY Injective, ZenonT(30) DEF BInv, TypeOK, Contents, ClassifyFails
  <2>2. /\ Range(work[w]) \in SUBSET Unclassified
        /\ Unclassified' = Unclassified \ Range(work[w])
        /\ OnWay' = OnWay \cup Range(work[w])
        /\ \A v \in Workers : workAt[v] = "done" => workAt'[v] = "done"
    BY <2>1, <1>Returned, ZenonT(30)
  <2>3. Cardinality(Range(work[w])) = Len(work[w]) /\ Len(work[w]) \in Nat
    BY <2>1, <1>CountRange, SeqRange, ZenonT(30)
  <2>4. \A i \in Metrics : /\ Counted(i) \in Nat
                           /\ Counted(i)' = Counted(i) + (IF i = "unmatched" THEN Len(work[w]) ELSE 0)
    BY <2>1, <2>3, <1>CountedOf, MetricNames, ZenonT(30)
  <2>5. /\ OnWay \in SUBSET Mbufs /\ Unclassified \in SUBSET Mbufs
        /\ Range(work[w]) \in SUBSET Mbufs
    BY <2>1, Subsets, SeqRange, ZenonT(30)
  <2>6. TARGET_KNI \notin Paths /\ TARGET_DROP \notin Paths /\ TARGET_KNI # TARGET_DROP
    BY BoundsAssumption, ZenonT(30) DEF TARGET_KNI, TARGET_DROP
  <2>7. \A m \in Mbufs : target'[m] = IF m \in Range(work[w]) THEN TARGET_DROP ELSE target[m]
    BY <2>1, ZenonT(30) DEF Dropped
  <2>8. ToSend' \in SUBSET ToSend /\ ToKernel' \in SUBSET ToKernel
    <3>1. InBurst' = InBurst
      BY <2>1, ZenonT(30) DEF InBurst
    <3> QED BY <2>2, <2>5, <2>6, <2>7, <3>1, ZenonT(30) DEF ToSend, ToKernel
  <2>9. /\ Counted("total")' = Counted("total") /\ Counted("director")' = Counted("director")
        /\ Counted("unmatched")' = Counted("unmatched") + Len(work[w])
        /\ Counted("kni")' = Counted("kni") /\ Counted("encapsulated")' = Counted("encapsulated")
        /\ Counted("encap_failed")' = Counted("encap_failed")
        /\ Counted("eth_tx")' = Counted("eth_tx") /\ Counted("kni_tx")' = Counted("kni_tx")
        /\ Counted("total") \in Nat /\ Counted("director") \in Nat /\ Counted("unmatched") \in Nat
        /\ Counted("kni") \in Nat /\ Counted("eth_tx") \in Nat /\ Counted("kni_tx") \in Nat
    BY <2>4, MetricNames
  <2>10. \A i \in Metrics : Counted(i)' \in Nat
    BY <2>3, <2>4
  <2>11. Cardinality({}) = 0
    BY <1>NoneIsZero, ZenonT(30)
  <2>12. Sends({}, {})
    BY <2>8, <2>9, <2>10, <2>11 DEF Sends
  <2>13. Sending'
    BY <2>12, <1>SendingLess, ZenonT(30) DEF CInv
  <2>14. Cardinality(Unclassified') = Cardinality(Unclassified) - Len(work[w])
         /\ Cardinality(Unclassified) \in Nat
    BY <2>2, <2>3, <2>5, <1>Removed, <1>Sized, ZenonT(30)
  <2>15. ASSUME \A v \in Workers : workAt'[v] # "done"
         PROVE  Counted("total")' = Counted("director")' + Counted("unmatched")' + Counted("kni")'
                                      + Cardinality(Unclassified')
    <3>1. Counted("total") = Counted("director") + Counted("unmatched") + Counted("kni")
                               + Cardinality(Unclassified)
      BY <2>2, <2>15, ZenonT(30) DEF CInv, MetricsBalance
    <3> QED BY <2>3, <2>9, <2>14, <3>1, SMTT(30)
  <2>16. Counted("director")' = Counted("encapsulated")' + Counted("encap_failed")'
    BY <2>9 DEF CInv, MetricsBalance
  <2>17. MetricsBalance'
    BY <2>15, <2>16 DEF MetricsBalance
  <2> QED BY <2>13, <2>17, ZenonT(30) DEF CInv
<1>ProcessBurstCounts. ASSUME BInv, CInv, Arrived, NEW w \in Workers, ProcessBurst(w)
                       PROVE  CInv'
  <2> USE <1>ProcessBurstCounts
  <2> DEFINE With(outcome, o) == {m \in DOMAIN outcome : outcome[m] = o}
  <2>1. /\ metrics \in [Metrics -> Nat] /\ statsd \in [Metrics -> Nat] /\ Contents
        /\ UNCHANGED <<statsd, backlog, bursts, pkts>> /\ work[w] \in Seq(Mbufs)
        /\ ReturnBurst(w) /\ workAt[w] = "classify"
    BY ZenonT(30) DEF BInv, TypeOK, Contents, ProcessBurst
  <2>2. PICK outcome \in [Range(work[w]) -> Outcomes] :
           /\ target' = [m \in Mbufs |->
                           IF m \notin DOMAIN outcome THEN target[m]
                           ELSE IF outcome[m] = "unclassified" THEN TARGET_KNI
                           ELSE IF outcome[m] = "encap_failed" THEN TARGET_DROP
                           ELSE target[m]]
           /\ metrics' = [metrics EXCEPT
                !["kni"] = @ + Cardinality(With(outcome, "unclassified")),
                !["director"] = @ + Cardinality(With(outcome, "encapsulated"))
                                  + Cardinality(With(outcome, "encap_failed")),
                !["encapsulated"] = @ + Cardinality(With(outcome, "encapsulated")),
                !["encap_failed"] = @ + Cardinality(With(outcome, "encap_failed"))]
    BY ZenonT(30) DEF ProcessBurst
  <2> DEFINE U == With(outcome, "unclassified")
             E == With(outcome, "encapsulated")
             X == With(outcome, "encap_failed")
  <2>3. /\ OnWay \in SUBSET Mbufs /\ Unclassified \in SUBSET Mbufs
        /\ Range(work[w]) \in SUBSET Mbufs /\ ToSend \in SUBSET Mbufs /\ ToKernel \in SUBSET Mbufs
    BY <2>1, Subsets, SeqRange, ZenonT(30)
  <2>4. /\ U \in SUBSET Mbufs /\ E \in SUBSET Mbufs /\ X \in SUBSET Mbufs
        /\ U \cup E \cup X = Range(work[w])
        /\ U \cap E = {} /\ (U \cup E) \cap X = {} /\ U \cup E \in SUBSET Mbufs
    BY <2>3, ZenonT(30) DEF Outcomes
  <2>5. /\ \A m \in Mbufs : target'[m] \in Paths =>
               (target[m] \in Paths /\ (m \notin Range(work[w]) \/ m \in E))
        /\ \A m \in Mbufs : target'[m] = TARGET_KNI =>
               ((target[m] = TARGET_KNI /\ (m \notin Range(work[w]) \/ m \in E)) \/ m \in U)
    <3>1. TARGET_KNI \notin Paths /\ TARGET_DROP \notin Paths /\ TARGET_KNI # TARGET_DROP
      BY BoundsAssumption, ZenonT(30) DEF TARGET_KNI, TARGET_DROP
    <3> QED BY <2>2, <3>1, ZenonT(30) DEF Outcomes
  <2>6. \A m \in Range(work[w]) : target[m] \in Paths
    BY ZenonT(30) DEF Arrived
  <2>7. /\ Range(work[w]) \in SUBSET Unclassified
        /\ Unclassified' = Unclassified \ Range(work[w])
        /\ OnWay' = OnWay \cup Range(work[w])
        /\ \A v \in Workers : workAt[v] = "done" => workAt'[v] = "done"
    BY <2>1, <1>Returned, ZenonT(30)
  <2>8. /\ Cardinality(U) \in Nat /\ Cardinality(E) \in Nat /\ Cardinality(X) \in Nat
        /\ Cardinality(Unclassified) \in Nat
    BY <2>3, <2>4, <1>Sized, ZenonT(30)
  <2>9. /\ metrics'["kni"] = metrics["kni"] + Cardinality(U)
        /\ metrics'["director"] = metrics["director"] + Cardinality(E) + Cardinality(X)
        /\ metrics'["encapsulated"] = metrics["encapsulated"] + Cardinality(E)
        /\ metrics'["encap_failed"] = metrics["encap_failed"] + Cardinality(X)
        /\ metrics'["total"] = metrics["total"] /\ metrics'["unmatched"] = metrics["unmatched"]
        /\ metrics'["eth_tx"] = metrics["eth_tx"] /\ metrics'["kni_tx"] = metrics["kni_tx"]
    <3> DEFINE u == Cardinality(U)
               e == Cardinality(E)
               x == Cardinality(X)
    <3>1. metrics' = [metrics EXCEPT !["kni"] = @ + u, !["director"] = @ + e + x,
                                     !["encapsulated"] = @ + e, !["encap_failed"] = @ + x]
      BY <2>2, ZenonT(30)
    <3>2. u \in Nat /\ e \in Nat /\ x \in Nat
      BY <2>8, ZenonT(30)
    <3> HIDE DEF u, e, x, U, E, X, With
    <3>3. /\ metrics'["kni"] = metrics["kni"] + u /\ metrics'["director"] = metrics["director"] + e + x
          /\ metrics'["encapsulated"] = metrics["encapsulated"] + e
          /\ metrics'["encap_failed"] = metrics["encap_failed"] + x
          /\ metrics'["total"] = metrics["total"] /\ metrics'["unmatched"] = metrics["unmatched"]
          /\ metrics'["eth_tx"] = metrics["eth_tx"] /\ metrics'["kni_tx"] = metrics["kni_tx"]
      <4>1. metrics \in [Metrics -> Nat]
        BY <2>1, ZenonT(30)
      <4>2. DOMAIN metrics = Metrics /\ DOMAIN metrics' = Metrics
        BY <3>1, <4>1, ZenonT(30)
      <4> QED BY <3>1, <4>2, MetricNames, ZenonT(30)
    <3> QED BY <3>3, ZenonT(30) DEF u, e, x
  <2> HIDE DEF U, E, X, With
  <2>10. ToSend' \in SUBSET (ToSend \cup E) /\ ToKernel' \in SUBSET (ToKernel \cup U)
    <3>1. InBurst' = InBurst
      BY <2>1, ZenonT(30) DEF InBurst
    <3>2. TARGET_KNI \notin Paths
      BY BoundsAssumption, ZenonT(30) DEF TARGET_KNI
    <3>3. ASSUME NEW m \in OnWay', target'[m] \in Paths
          PROVE  m \in ToSend \cup E
      BY <2>3, <2>5, <2>7, <3>3, ZenonT(30) DEF ToSend
    <3>4. ASSUME NEW m \in OnWay', target'[m] = TARGET_KNI
          PROVE  m \in ToKernel \cup U
      BY <2>3, <2>5, <2>6, <2>7, <3>2, <3>4, ZenonT(30) DEF ToKernel
    <3> QED BY <3>1, <3>3, <3>4, ZenonT(30) DEF ToSend, ToKernel
  <2>11. /\ Cardinality(ToSend') <= Cardinality(ToSend) + Cardinality(E)
         /\ Cardinality(ToKernel') <= Cardinality(ToKernel) + Cardinality(U)
    BY <2>3, <2>4, <2>10, <1>More, Zenon
  <2>12. /\ Cardinality(ToSend) \in Nat /\ Cardinality(ToKernel) \in Nat
         /\ Cardinality(ToSend') \in Nat /\ Cardinality(ToKernel') \in Nat
    <3>1. ToSend' \in SUBSET Mbufs /\ ToKernel' \in SUBSET Mbufs
      BY <2>3, <2>4, <2>10, ZenonT(30)
    <3> QED BY <2>3, <3>1, <1>Sized, ZenonT(30)
  <2>13. Cardinality(Range(work[w])) = Cardinality(U) + Cardinality(E) + Cardinality(X)
    <3>1. Cardinality(U \cup E) = Cardinality(U) + Cardinality(E)
      BY <2>4, <1>Added, Zenon
    <3>2. Cardinality((U \cup E) \cup X) = Cardinality(U \cup E) + Cardinality(X)
      BY <2>4, <1>Added
    <3>3. (U \cup E) \cup X = Range(work[w])
      BY <2>4, ZenonT(30)
    <3> QED BY <3>1, <3>2, <3>3, ZenonT(30)
  <2>14. Cardinality(Unclassified') = Cardinality(Unclassified) - Cardinality(Range(work[w]))
    BY <2>3, <2>7, <1>Removed, ZenonT(30)
  <2>15. /\ Counted("total")' = Counted("total")
         /\ Counted("director")' = Counted("director") + Cardinality(E) + Cardinality(X)
         /\ Counted("unmatched")' = Counted("unmatched")
         /\ Counted("kni")' = Counted("kni") + Cardinality(U)
         /\ Counted("encapsulated")' = Counted("encapsulated") + Cardinality(E)
         /\ Counted("encap_failed")' = Counted("encap_failed") + Cardinality(X)
         /\ Counted("eth_tx")' = Counted("eth_tx") /\ Counted("kni_tx")' = Counted("kni_tx")
    <3>1. \A i \in Metrics : metrics[i] \in Nat /\ statsd[i] \in Nat
      BY <2>1, Zenon
    <3> DEFINE u == Cardinality(U)
               e == Cardinality(E)
               x == Cardinality(X)
    <3>2. u \in Nat /\ e \in Nat /\ x \in Nat
      BY <2>8, ZenonT(30)
    <3>3. statsd' = statsd
      BY <2>1, ZenonT(30)
    <3> HIDE DEF u, e, x
    <3>4. /\ metrics["kni"] \in Nat /\ statsd["kni"] \in Nat
          /\ metrics["director"] \in Nat /\ statsd["director"] \in Nat
          /\ metrics["encapsulated"] \in Nat /\ statsd["encapsulated"] \in Nat
          /\ metrics["encap_failed"] \in Nat /\ statsd["encap_failed"] \in Nat
      BY <3>1, MetricNames, ZenonT(30)
    <3>5. Counted("kni")' = Counted("kni") + u
      BY <2>9, <3>2, <3>3, <3>4, SMTT(30) DEF Counted, u
    <3>6. Counted("director")' = Counted("director") + e + x
      BY <2>9, <3>2, <3>3, <3>4, SMTT(30) DEF Counted, e, x
    <3>7. Counted("encapsulated")' = Counted("encapsulated") + e
      BY <2>9, <3>2, <3>3, <3>4, SMTT(30) DEF Counted, e
    <3>8. Counted("encap_failed")' = Counted("encap_failed") + x
      BY <2>9, <3>2, <3>3, <3>4, SMTT(30) DEF Counted, x
    <3>9. /\ Counted("total")' = Counted("total") /\ Counted("unmatched")' = Counted("unmatched")
          /\ Counted("eth_tx")' = Counted("eth_tx") /\ Counted("kni_tx")' = Counted("kni_tx")
      BY <2>9, <3>3, ZenonT(30) DEF Counted
    <3> QED BY <3>5, <3>6, <3>7, <3>8, <3>9, Zenon DEF u, e, x
  <2>16. /\ Counted("total") \in Nat /\ Counted("director") \in Nat
         /\ Counted("unmatched") \in Nat /\ Counted("kni") \in Nat
         /\ Counted("encapsulated") \in Nat /\ Counted("encap_failed") \in Nat
         /\ Counted("eth_tx") \in Nat /\ Counted("kni_tx") \in Nat
    BY <2>1, CountedTypes, MetricNames, ZenonT(30)
  <2>17. Sending'
    <3>1. Counted("eth_tx")' + Cardinality(ToSend') <= Counted("encapsulated")'
      BY <2>8, <2>11, <2>12, <2>15, <2>16, SMTT(30) DEF CInv, Sending
    <3>2. Counted("kni_tx")' + Cardinality(ToKernel') <= Counted("kni")'
      BY <2>8, <2>11, <2>12, <2>15, <2>16, SMTT(30) DEF CInv, Sending
    <3> QED BY <3>1, <3>2, ZenonT(30) DEF Sending
  <2>18. MetricsBalance'
    <3>1. Counted("director")' = Counted("encapsulated")' + Counted("encap_failed")'
      BY <2>8, <2>15, <2>16, SMTT(30) DEF CInv, MetricsBalance
    <3>2. ASSUME \A v \in Workers : workAt'[v] # "done"
          PROVE  Counted("total")' = Counted("director")' + Counted("unmatched")'
                                       + Counted("kni")' + Cardinality(Unclassified')
      <4>1. Counted("total") = Counted("director") + Counted("unmatched")
                                 + Counted("kni") + Cardinality(Unclassified)
        BY <2>7, <3>2, ZenonT(30) DEF CInv, MetricsBalance
      <4> QED BY <2>8, <2>13, <2>14, <2>15, <2>16, <4>1
    <3> QED BY <3>1, <3>2, ZenonT(30) DEF MetricsBalance
  <2> QED BY <2>17, <2>18, ZenonT(30) DEF CInv
<1> SUFFICES ASSUME BInv, CInv, Arrived, [Next]_vars PROVE CInv'
  OBVIOUS
<1>1. ASSUME \A i \in Metrics : Counted(i)' = Counted(i),
             UNCHANGED <<target, pkts, bursts, backlog, returned, workAt, work>>
      PROVE  CInv'
  <2>1. ToSend' = ToSend /\ ToKernel' = ToKernel /\ Unclassified' = Unclassified
    BY <1>1, ZenonT(30) DEF ToSend, ToKernel, OnWay, InBurst, Unclassified
  <2> QED BY <1>1, <2>1, <1>QuietCounts, ZenonT(30)
<1>2. ASSUME UNCHANGED <<target, pkts, bursts, backlog, returned, workAt, work, metrics, statsd>>
      PROVE  CInv'
  BY <1>1, <1>2 DEF Counted
<1>3. CASE RxDistribute \/ ShardPacket \/ FlushPath \/ flush_and_clear_returns
  BY <1>3, <1>RxDistributeCounts, <1>ShardPacketCounts, <1>FlushPathCounts, <1>ClearReturnsCounts
<1>4. CASE AllFlushed \/ OwnerFlushes \/ NotifyStop \/ ReadMetric \/ UNCHANGED vars
  BY <1>2, <1>4, ZenonT(30) DEF AllFlushed, OwnerFlushes, NotifyStop, ReadMetric, vars
<1>5. CASE SubtractMetric
  <2> DEFINE n == Reported[report.next]
  <2>1. /\ metrics \in [Metrics -> Nat] /\ statsd \in [Metrics -> Nat] /\ report.read \in Int
    BY ZenonT(30) DEF BInv, TypeOK, Reporting
  <2>2. /\ metrics' = [metrics EXCEPT ![n] = @ - report.read]
        /\ statsd' = [statsd EXCEPT ![n] = @ + report.read]
    BY <1>5, ZenonT(30) DEF SubtractMetric, Rest
  <2> HIDE DEF n
  <2>3. \A i \in Metrics : Counted(i)' = Counted(i)
    BY <2>1, <2>2 DEF Counted
  <2> QED BY <1>1, <1>5, <2>3, ZenonT(30) DEF SubtractMetric
<1>6. ASSUME NEW w \in Workers, Worker(w) PROVE CInv'
  BY <1>6, <1>get_pktCounts, <1>ClassifyFailsCounts, <1>ProcessBurstCounts, ZenonT(30) DEF Worker
<1> QED
  BY <1>3, <1>4, <1>5, <1>6, Zenon DEF Next, RxCore

-------------------------------------------------------------------------------
(* A packet that no worker has classified has the flow path it came on. *)

LEMMA ArrivedStep ==
  ASSUME CardinalityFacts
  PROVE  BInv /\ Arrived /\ [Next]_vars => Arrived'
<1>RxDistributeArrives. ASSUME BInv, Arrived, RxDistribute
                        PROVE  Arrived'
  <2> USE <1>RxDistributeArrives
  <2>1. /\ backlog \in [Workers -> Seq(Mbufs)]
        /\ \A w \in Workers : Range(backlog[w]) \subseteq Mbufs /\ Range(work[w]) \subseteq Mbufs
    BY SeqRange, ZenonT(30) DEF BInv, TypeOK
  <2>2. PICK p \in IF config.owner = Rx THEN KniFlushed ELSE {pool} :
        \E filled \in Fillable(p) : \E path \in [filled -> Paths] : \E share \in Shares(filled) :
          /\ target' = [m \in Mbufs |-> IF m \in filled THEN path[m] ELSE target[m]]
          /\ backlog' = [w \in Workers |-> backlog[w] \o share[w]]
          /\ Count("total", Cardinality(filled))
    BY ZenonT(30) DEF RxDistribute
  <2>3. PICK filled \in Fillable(p) : \E path \in [filled -> Paths] : \E share \in Shares(filled) :
          /\ target' = [m \in Mbufs |-> IF m \in filled THEN path[m] ELSE target[m]]
          /\ backlog' = [w \in Workers |-> backlog[w] \o share[w]]
    BY <2>2, ZenonT(30)
  <2>4. PICK path \in [filled -> Paths] : \E share \in Shares(filled) :
          /\ target' = [m \in Mbufs |-> IF m \in filled THEN path[m] ELSE target[m]]
          /\ backlog' = [w \in Workers |-> backlog[w] \o share[w]]
    BY <2>3, ZenonT(30)
  <2>5. PICK share \in Shares(filled) :
          /\ target' = [m \in Mbufs |-> IF m \in filled THEN path[m] ELSE target[m]]
          /\ backlog' = [w \in Workers |-> backlog[w] \o share[w]]
    BY <2>4, ZenonT(30)
  <2>6. UNCHANGED work /\ filled \subseteq Mbufs
    BY ZenonT(30) DEF RxDistribute, Fillable, Idle
  <2>7. ASSUME NEW w \in Workers, NEW m \in Range(backlog'[w]) \cup Range(work'[w])
        PROVE  target'[m] \in Paths
    <3>1. share[w] \in Seq(Mbufs) /\ Range(share[w]) \subseteq filled
      BY <2>6, SharesOf, ZenonT(30)
    <3>2. Range(backlog'[w]) = Range(backlog[w]) \cup Range(share[w])
      BY <2>1, <2>5, <3>1, BothRanges, Zenon
    <3>3. m \in Mbufs
      BY <2>1, <2>6, <2>7, <3>1, <3>2, Zenon
    <3>4. m \in filled \/ target[m] \in Paths
      BY <2>6, <2>7, <3>1, <3>2, ZenonT(30) DEF Arrived
    <3> QED BY <2>5, <3>3, <3>4, ZenonT(30)
  <2> QED BY <2>7, ZenonT(30) DEF Arrived
<1> SUFFICES ASSUME BInv, Arrived, [Next]_vars PROVE Arrived'
  OBVIOUS
<1>1. /\ backlog \in [Workers -> Seq(Mbufs)] /\ work \in [Workers -> Seq(Mbufs)]
      /\ target \in [Mbufs -> Paths \cup {TARGET_KNI, TARGET_DROP}]
      /\ \A w \in Workers : Range(backlog[w]) \subseteq Mbufs /\ Range(work[w]) \subseteq Mbufs
  BY SeqRange, ZenonT(30) DEF BInv, TypeOK
<1>2. CASE UNCHANGED <<target, backlog, work>>
  BY <1>2 DEF Arrived
<1>3. CASE RxDistribute
  BY <1>3, <1>RxDistributeArrives
<1>4. ASSUME NEW w \in Workers, get_pkt(w) PROVE Arrived'
  <2>1. UNCHANGED target
    BY <1>4, ZenonT(30) DEF get_pkt
  <2>2. \A v \in Workers : v # w => backlog'[v] = backlog[v] /\ work'[v] = work[v]
    BY <1>1, <1>4, ZenonT(30) DEF get_pkt
  <2>3. /\ Range(backlog'[w]) \subseteq Range(backlog[w])
        /\ Range(work'[w]) \subseteq Range(backlog[w]) \cup Range(work[w])
    <3> DEFINE k == Min({Len(backlog[w]), DIST_BURST})
               s == backlog[w]
    <3>1. s \in Seq(Mbufs) /\ IsInjective(s)
      BY <1>1, Injective DEF BInv
    <3>5. k \in 0 .. Len(s)
      BY <3>1, MinLen, Bounds, ZenonT(30)
    <3>2. /\ backlog'[w] = SubSeq(s, k + 1, Len(s))
          /\ work'[w] \in {work[w], SubSeq(s, 1, k)}
      BY <1>1, <1>4, ZenonT(30) DEF get_pkt
    <3> HIDE DEF s, k
    <3>3. /\ Range(SubSeq(s, 1, k)) \subseteq Range(s)
          /\ Range(SubSeq(s, k + 1, Len(s))) \subseteq Range(s)
      BY <3>1, <3>5, Cut
    <3>4. s = backlog[w]
      BY ZenonT(30) DEF s
    <3> QED BY <3>2, <3>3, <3>4, ZenonT(30)
  <2> QED BY <2>1, <2>2, <2>3, ZenonT(30) DEF Arrived
<1>5. ASSUME NEW w \in Workers, ClassifyFails(w) \/ ProcessBurst(w) PROVE Arrived'
  <2>1. /\ UNCHANGED backlog /\ work' = [work EXCEPT ![w] = <<>>]
        /\ \A m \in Mbufs : m \notin Range(work[w]) => target'[m] = target[m]
    BY <1>5, ZenonT(30) DEF ClassifyFails, ProcessBurst, ReturnBurst, Dropped
  <2>2. /\ \A v \in Workers : Range(backlog[v]) \cap Range(work[w]) = {}
        /\ \A v \in Workers : v # w => Range(work[v]) \cap Range(work[w]) = {}
    BY Apart, ZenonT(30)
  <2>3. work'[w] = <<>> /\ Range(<<>>) = {} /\ \A v \in Workers : v # w => work'[v] = work[v]
    BY <1>1, <2>1, SMTT(30) DEF Range
  <2> QED BY <1>1, <2>1, <2>2, <2>3, ZenonT(30) DEF Arrived
<1>6. CASE \/ ShardPacket \/ FlushPath \/ AllFlushed \/ flush_and_clear_returns
           \/ OwnerFlushes \/ NotifyStop \/ ReadMetric \/ SubtractMetric \/ UNCHANGED vars
  BY <1>2, <1>6 DEF ShardPacket, FlushPath, AllFlushed, flush_and_clear_returns,
                    OwnerFlushes, NotifyStop, ReadMetric, SubtractMetric, vars
<1> QED
  BY <1>3, <1>4, <1>5, <1>6, ZenonT(30) DEF Next, RxCore, Worker

LEMMA CInvInit ==
  ASSUME CardinalityFacts, Init
  PROVE  CInv /\ Arrived
<1>1. /\ metrics = [n \in Metrics |-> 0] /\ statsd = [n \in Metrics |-> 0]
      /\ pkts = <<>> /\ returned = <<>>
      /\ \A f \in Paths : bursts[f] = <<>>
      /\ \A w \in Workers : backlog[w] = <<>> /\ work[w] = <<>>
  BY DEF Init
<1>2. Range(<<>>) = {}
  BY DEF Range
<1>3. ToSend = {} /\ ToKernel = {} /\ Unclassified = {}
  BY <1>1, <1>2, ZenonT(30) DEF ToSend, ToKernel, OnWay, InBurst, Unclassified
<1>4. Cardinality({}) = 0
  BY Zenon DEF CardinalityFacts
<1>5. /\ Counted("total") = 0 /\ Counted("director") = 0 /\ Counted("unmatched") = 0
      /\ Counted("kni") = 0 /\ Counted("encapsulated") = 0 /\ Counted("encap_failed") = 0
      /\ Counted("eth_tx") = 0 /\ Counted("kni_tx") = 0
  BY <1>1, MetricNames DEF Counted
<1>6. CInv
  BY <1>3, <1>4, <1>5 DEF CInv, MetricsBalance, Sending
<1> QED BY <1>1, <1>2, <1>6, ZenonT(30) DEF Arrived


-------------------------------------------------------------------------------
(* The theorems. *)

INSTANCE FiniteSetTheorems

\* A sequence without repetition has as many elements as its length.
LEMMA CountRange ==
  ASSUME NEW S, NEW s \in Seq(S), IsInjective(s)
  PROVE  IsFiniteSet(Range(s)) /\ Cardinality(Range(s)) = Len(s)
<1>1. s \in Bijection(1 .. Len(s), Range(s))
  BY SeqRange DEF Bijection, Injection, Surjection, IsInjective, Range
<1>2. IsFiniteSet(1 .. Len(s)) /\ Cardinality(1 .. Len(s)) = Len(s)
  BY SeqRange, FS_Interval, SMTT(30)
<1> QED
  BY <1>1, <1>2, FS_Bijection, Zenon DEF ExistsBijection

LEMMA CardinalitiesHold == CardinalityFacts
<1>1. IsFiniteSet(Mbufs)
  BY Bounds, FS_Interval DEF Mbufs
<1>2. IsFiniteSet(Paths)
  BY BoundsAssumption, Zenon
<1>3. \A S \in SUBSET Mbufs : IsFiniteSet(S) /\ Cardinality(S) \in Nat
  BY <1>1, FS_Subset, FS_CardinalityType, Zenon
<1>4. \A S \in SUBSET Mbufs : \A T \in SUBSET S : Cardinality(T) <= Cardinality(S)
  BY <1>3, FS_Subset, Zenon
<1>5. ASSUME NEW S \in SUBSET Mbufs, NEW T \in SUBSET Mbufs, S \cap T = {}
      PROVE  Cardinality(S \cup T) = Cardinality(S) + Cardinality(T)
  <2>1. Cardinality(S \cup T) = Cardinality(S) + Cardinality(T) - Cardinality(S \cap T)
    BY <1>3, FS_Union, Zenon
  <2>2. Cardinality(S \cap T) = 0
    BY <1>5, FS_EmptySet, Zenon
  <2> QED BY <1>3, <2>1, <2>2
<1> QED
  BY <1>2, <1>3, <1>4, <1>5, CountRange, FS_EmptySet, FS_Singleton, FS_CardinalityType
     DEF CardinalityFacts

LEMMA BInvariant == Spec => []BInv
<1>1. Init => BInv
  BY BInvInit, CardinalitiesHold, Zenon
<1>2. BInv /\ [Next]_vars => BInv'
  BY BInvStep, CardinalitiesHold, Zenon
<1> QED BY <1>1, <1>2, PTL DEF Spec

\* The arrays of the receiving core, the workers and the kernel interface hold
\* what is put into them, for any sizes: no burst outgrows its array, and none
\* is carried over into the next round of the loop.
THEOREM BurstsFit == Spec => []TypeOK
<1>1. BInv => TypeOK
  BY Zenon DEF BInv
<1> QED BY <1>1, BInvariant, PTL

LEMMA SoundHolders ==
  ASSUME Sound(pool, where)
  PROVE  OneHolder
<1>1. \A x \in Places : where[x] = Held(x)
  BY Zenon DEF where
<1>2. \A x \in Places : IsInjective(Held(x))
  BY <1>1, Zenon DEF Sound
<1>3. ASSUME NEW m \in Mbufs
      PROVE  pool[m] + Cardinality(Holders(m)) = 1
  <2>1. CASE pool[m] = 1
    <3>1. Holders(m) = {}
      BY <1>1, <2>1, Zenon DEF Sound, Holders
    <3> QED BY <2>1, <3>1, FS_EmptySet, SMTT(30)
  <2>2. CASE pool[m] # 1
    <3>1. PICK x \in Places : m \in Range(Held(x))
      BY <1>1, <2>2, ZenonT(30) DEF Sound
    <3>2. \A y \in Places : m \in Range(Held(y)) => y = x
      BY <1>1, <3>1, Zenon DEF Sound
    <3>3. Holders(m) = {x}
      BY <3>1, <3>2, Zenon DEF Holders
    <3>4. pool[m] = 0
      BY <2>2 DEF Sound
    <3>5. Cardinality({x}) = 1
      BY FS_Singleton, ZenonT(30)
    <3> QED BY <3>3, <3>4, <3>5
  <2> QED BY <2>1, <2>2, Zenon
<1> QED BY <1>2, <1>3, Zenon DEF OneHolder

\* Every buffer is in the pool or in exactly one array or ring, once, whatever
\* ports, the kernel and the workers do and whenever the cores are stopped.
THEOREM BuffersHaveOneHolder == Spec => []OneHolder
<1>1. BInv => OneHolder
  BY SoundHolders DEF BInv
<1> QED BY <1>1, BInvariant, PTL

LEMMA CInvariant == Spec => [](BInv /\ CInv /\ Arrived)
<1>1. Init => BInv /\ CInv /\ Arrived
  BY BInvInit, CInvInit, CardinalitiesHold, Zenon
<1>2. BInv /\ CInv /\ Arrived /\ [Next]_vars => (BInv /\ CInv /\ Arrived)'
  BY BInvStep, CountsStep, ArrivedStep, CardinalitiesHold, Zenon
<1> QED BY <1>1, <1>2, PTL DEF Spec

\* The equations above struct processor_metrics hold of what was reported and
\* what is still counted together, at every moment until a worker stops,
\* although the control core's read and subtraction of a counter interleave
\* with the increments of the other cores (glb_processor_loop.c,
\* glb_control_loop.c send_logs_metrics).
THEOREM CountersBalance == Spec => []MetricsBalance
<1>1. CInv => MetricsBalance
  BY DEF CInv
<1> QED BY <1>1, CInvariant, PTL

\* No more packets go out on a port, or wait in a burst to go out, than were
\* encapsulated, and no more go to the kernel than were counted for it: the
\* marks in udata64 (PACKET_TARGET_KNI, PACKET_TARGET_DROP, the flow path) of
\* a buffer's last packet never decide where its next packet goes.
THEOREM SentPacketsWereEncapsulated == Spec => []OnlyEncapsulatedSent
<1>1. ASSUME BInv, CInv PROVE OnlyEncapsulatedSent
  <2>1. InBurst = {m \in Mbufs : \E f \in Paths : m \in Range(bursts[f])}
    BY DEF InBurst
  <2>2. /\ InBurst \in SUBSET ToSend /\ ToSend \in SUBSET Mbufs /\ ToKernel \in SUBSET Mbufs
    <3>1. Contents
      BY <1>1, ZenonT(30) DEF BInv, TypeOK, Contents
    <3> QED BY <3>1, Subsets, ZenonT(30) DEF ToSend
  <2>3. Cardinality(InBurst) <= Cardinality(ToSend)
    BY <2>2, CardinalitiesHold, Zenon DEF CardinalityFacts
  <2>4. /\ Cardinality(InBurst) \in Nat /\ Cardinality(ToSend) \in Nat
        /\ Cardinality(ToKernel) \in Nat
    BY <2>2, CardinalitiesHold, Zenon DEF CardinalityFacts
  <2>5. /\ Counted("eth_tx") \in Nat /\ Counted("encapsulated") \in Nat
        /\ Counted("kni_tx") \in Nat /\ Counted("kni") \in Nat
    <3>1. metrics \in [Metrics -> Nat] /\ statsd \in [Metrics -> Nat]
      BY <1>1, ZenonT(30) DEF BInv, TypeOK
    <3> QED BY <3>1, CountedTypes, MetricNames, ZenonT(30)
  <2>6. /\ Counted("eth_tx") + Cardinality(InBurst) <= Counted("encapsulated")
        /\ Counted("kni_tx") <= Counted("kni")
    BY <1>1, <2>3, <2>4, <2>5 DEF CInv, Sending
  <2> QED BY <2>1, <2>6, Zenon DEF OnlyEncapsulatedSent
<1> QED BY <1>1, CInvariant, PTL
================================================================================
