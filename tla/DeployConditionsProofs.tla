----------------------- MODULE DeployConditionsProofs ------------------------
(***************************************************************************)
(* Facts about the operators of DeployConditions, for every configuration  *)
(* and for the histories of deployments that report healthy versions only. *)
(***************************************************************************)
EXTENDS DeployConditions, StatusHistoryProofs

\* Configurations whose bake times are in T, and the statuses that are healthy.
Waves(T) == [bakeTime : T, deployments : Seq(STRING)]
Healthy(V, T) == [version : V, state : {"Healthy"}, start : T]

-----------------------------------------------------------------------------
(***************************************************************************)
(* Greatest and least elements.                                            *)
(***************************************************************************)

\* A nonempty set of numbers with an upper bound has a greatest element.
LEMMA GreatestNat ==
  ASSUME NEW n \in Nat, NEW T \in SUBSET (0..n), T # {}
  PROVE  \E x \in T : \A y \in T : y <= x
<1> DEFINE R == {n - x : x \in T}
<1>1. R # {} /\ R \in SUBSET Nat
  <2>1. \A x \in T : x \in 0..n
    OBVIOUS
  <2>2. \A x \in T : n - x \in Nat
    BY <2>1
  <2> QED
    BY <2>2
<1>2. PICK r \in R : \A y \in R : r <= y
  BY <1>1, LeastNat
<1>3. PICK m \in T : r = n - m
  BY <1>2
<1>4. \A y \in T : y <= m
  <2> TAKE y \in T
  <2>1. n - m <= n - y
    BY <1>2, <1>3
  <2>2. m \in Nat /\ y \in Nat
    OBVIOUS
  <2> QED
    BY <2>1, <2>2
<1> QED
  BY <1>4

\* Positions are pairs of numbers within the configuration.
LEMMA PositionsAreIn ==
  ASSUME NEW W, NEW c \in Seq(Seq(W))
  PROVE  /\ Len(c) \in Nat
         /\ \A e \in 1..Len(c) : Len(c[e]) \in Nat /\ c[e] \in Seq(W)
         /\ \A e, w : <<e, w>> \in Positions(c) <=> e \in 1..Len(c) /\ w \in 1..Len(c[e])
         /\ \A p \in Positions(c) :
              /\ p = <<p[1], p[2]>>
              /\ p[1] \in 1..Len(c) /\ p[2] \in 1..Len(c[p[1]])
              /\ WaveAt(c, p) \in W
<1>1. Len(c) \in Nat /\ \A e \in 1..Len(c) : c[e] \in Seq(W)
  BY LenProperties, ElementOfSeq
<1>2. \A e \in 1..Len(c) : Len(c[e]) \in Nat /\ \A w \in 1..Len(c[e]) : c[e][w] \in W
  BY <1>1, LenProperties, ElementOfSeq
<1>3. \A e, w : <<e, w>> \in Positions(c) <=> e \in 1..Len(c) /\ w \in 1..Len(c[e])
  BY DEF Positions
<1>4. ASSUME NEW p \in Positions(c)
      PROVE  /\ p = <<p[1], p[2]>>
             /\ p[1] \in 1..Len(c) /\ p[2] \in 1..Len(c[p[1]])
             /\ WaveAt(c, p) \in W
  <2>1. PICK e \in 1..Len(c) : \E w \in 1..Len(c[e]) : p = <<e, w>>
    BY DEF Positions
  <2>2. PICK w \in 1..Len(c[e]) : p = <<e, w>>
    BY <2>1
  <2> QED
    BY <1>2, <2>2 DEF WaveAt
<1> QED
  BY <1>1, <1>2, <1>3, <1>4

\* Among some positions there is one that all the others precede.
LEMMA LastPosition ==
  ASSUME NEW W, NEW c \in Seq(Seq(W)), NEW P \in SUBSET Positions(c), P # {}
  PROVE  \E p \in P : \A q \in P : ~Precedes(p, q)
<1> DEFINE E == {p[1] : p \in P}
<1>1. /\ Len(c) \in Nat
      /\ \A p \in P : p[1] \in 1..Len(c) /\ Len(c[p[1]]) \in Nat /\ p[2] \in 1..Len(c[p[1]])
  BY PositionsAreIn
<1>2. E \in SUBSET (0..Len(c)) /\ E # {}
  BY <1>1
<1>3. PICK e \in E : \A x \in E : x <= e
  BY <1>1, <1>2, GreatestNat
<1> DEFINE Q == {p \in P : p[1] = e}
           F == {p[2] : p \in Q}
<1>4. e \in 1..Len(c) /\ Len(c[e]) \in Nat
  BY <1>1, <1>3
<1>5. F \in SUBSET (0..Len(c[e])) /\ F # {}
  BY <1>1, <1>3, <1>4
<1>6. PICK w \in F : \A x \in F : x <= w
  BY <1>4, <1>5, GreatestNat
<1>7. PICK p \in Q : p[2] = w
  BY <1>6
<1>8. ASSUME NEW q \in P PROVE ~Precedes(p, q)
  <2>1. q[1] <= e /\ (q[1] = e => q[2] <= w) /\ p[1] = e
    BY <1>3, <1>6, <1>7
  <2>2. q[1] \in Nat /\ q[2] \in Nat /\ e \in Nat /\ w \in Nat
    BY <1>1, <1>4, <1>5
  <2> QED
    BY <1>7, <2>1, <2>2 DEF Precedes
<1> QED
  BY <1>7, <1>8

\* ... and one that precedes all the others.
LEMMA FirstPosition ==
  ASSUME NEW W, NEW c \in Seq(Seq(W)), NEW P \in SUBSET Positions(c), P # {}
  PROVE  \E p \in P : \A q \in P : ~Precedes(q, p)
<1> DEFINE E == {p[1] : p \in P}
<1>1. \A p \in P : p[1] \in 1..Len(c) /\ Len(c[p[1]]) \in Nat /\ p[2] \in 1..Len(c[p[1]])
  BY PositionsAreIn
<1>2. E \in SUBSET Nat /\ E # {}
  BY <1>1, PositionsAreIn
<1>3. PICK e \in E : \A x \in E : e <= x
  BY <1>2, LeastNat
<1> DEFINE Q == {p \in P : p[1] = e}
           F == {p[2] : p \in Q}
<1>4. F \in SUBSET Nat /\ F # {}
  <2>1. \A p \in P : p[2] \in Nat
    BY <1>1
  <2> QED
    BY <1>3, <2>1
<1>5. PICK w \in F : \A x \in F : w <= x
  BY <1>4, LeastNat
<1>6. PICK p \in Q : p[2] = w
  BY <1>5
<1>7. ASSUME NEW q \in P PROVE ~Precedes(q, p)
  <2>1. e <= q[1] /\ (q[1] = e => w <= q[2]) /\ p[1] = e
    BY <1>3, <1>5, <1>6
  <2>2. q[1] \in Nat /\ q[2] \in Nat /\ e \in Nat /\ w \in Nat
    BY <1>1, <1>2, <1>3, <1>4, <1>5
  <2> QED
    BY <1>6, <2>1, <2>2 DEF Precedes
<1> QED
  BY <1>6, <1>7

-----------------------------------------------------------------------------
(***************************************************************************)
(* Whom a deployment follows, and whom it waits for.                       *)
(***************************************************************************)

\* A deployment of a configuration has a place in it: the first wave that names it.
LEMMA PlaceOfDeployment ==
  ASSUME NEW W, NEW c \in Seq(Seq(W)), NEW d \in Deployments(c)
  PROVE  /\ PositionOf(c, d) \in Positions(c)
         /\ d \in Names(WaveAt(c, PositionOf(c, d)))
         /\ \A q \in Positions(c) :
              d \in Names(WaveAt(c, q)) => ~Precedes(q, PositionOf(c, d))
<1> DEFINE P == {p \in Positions(c) : d \in Names(WaveAt(c, p))}
<1>1. P \in SUBSET Positions(c) /\ P # {}
  BY DEF Deployments
<1>2. PICK p \in P : \A q \in P : ~Precedes(q, p)
  BY <1>1, FirstPosition
<1>3. \E x \in Positions(c) :
        /\ d \in Names(WaveAt(c, x))
        /\ \A q \in Positions(c) : d \in Names(WaveAt(c, q)) => ~Precedes(q, x)
  BY <1>2
<1> QED
  BY <1>3 DEF PositionOf

\* It follows nobody when it is in the very first wave, and otherwise the last
\* of the waves before its own.
LEMMA FollowedWave ==
  ASSUME NEW W, NEW c \in Seq(Seq(W)), NEW d \in Deployments(c)
  PROVE  LET here == PositionOf(c, d)
         IN  \/ /\ DeployAfter(c, d) = [bakeTime |-> 0, deployments |-> <<>>]
                /\ \A q \in Positions(c) : ~Precedes(q, here)
             \/ \E p \in Positions(c) :
                  /\ DeployAfter(c, d) = WaveAt(c, p)
                  /\ Precedes(p, here)
                  /\ \A q \in Positions(c) : Precedes(q, here) => ~Precedes(p, q)
<1> DEFINE here == PositionOf(c, d)
           earlier == {q \in Positions(c) : Precedes(q, here)}
           last == CHOOSE p \in earlier : \A q \in earlier : ~Precedes(p, q)
<1>1. CASE earlier = {}
  BY <1>1 DEF DeployAfter
<1>2. CASE earlier # {}
  <2>1. \E p \in earlier : \A q \in earlier : ~Precedes(p, q)
    BY <1>2, LastPosition
  <2>2. last \in earlier /\ \A q \in earlier : ~Precedes(last, q)
    BY <2>1
  <2>3. DeployAfter(c, d) = WaveAt(c, last)
    BY <1>2 DEF DeployAfter
  <2> QED
    BY <2>2, <2>3
<1> QED
  BY <1>1, <1>2

\* A list of deployments and the set of them.
LEMMA NamesOfList ==
  ASSUME NEW T, NEW w \in Waves(T)
  PROVE  /\ w.bakeTime \in T /\ Len(w.deployments) \in Nat
         /\ w.deployments = <<>> <=> Names(w) = {}
         /\ w.deployments # <<>> => w.deployments[1] \in Names(w)
         /\ Len(w.deployments) <= 1 => Names(w) \subseteq {w.deployments[1]}
<1>1. w.bakeTime \in T /\ w.deployments \in Seq(STRING)
  BY DEF Waves
<1>2. Len(w.deployments) \in Nat
  BY <1>1, LenProperties
<1>3. w.deployments # <<>> <=> Len(w.deployments) # 0
  BY <1>1, EmptySeq
<1>4. CASE w.deployments = <<>>
  <2>1. Len(w.deployments) = 0
    BY <1>3, <1>4
  <2>2. Names(w) = {}
    BY <2>1 DEF Names
  <2> QED
    BY <1>1, <1>4, <2>1, <2>2
<1>5. CASE w.deployments # <<>>
  <2>1. 1 \in 1..Len(w.deployments)
    BY <1>2, <1>3, <1>5
  <2>2. w.deployments[1] \in Names(w)
    BY <2>1 DEF Names
  <2>3. Len(w.deployments) <= 1 => Names(w) \subseteq {w.deployments[1]}
    BY <1>2 DEF Names
  <2> QED
    BY <1>1, <1>2, <1>5, <2>2, <2>3
<1> QED
  BY <1>4, <1>5

\* Everybody it reads the status of is in the configuration.
LEMMA RequiredAreNamed ==
  ASSUME NEW T, NEW c \in Seq(Seq(Waves(T))), NEW d \in Deployments(c)
  PROVE  /\ Names(DeployAfter(c, d)) \subseteq Deployments(c)
         /\ DeployWith(c, d) \subseteq Deployments(c)
         /\ DeployAfter(c, d) \in Waves(T \cup {0})
<1> DEFINE here == PositionOf(c, d)
<1>1. here \in Positions(c)
  BY PlaceOfDeployment
<1>2. \A p \in Positions(c) : Names(WaveAt(c, p)) \subseteq Deployments(c)
  BY DEF Deployments
<1>3. ASSUME DeployAfter(c, d) = [bakeTime |-> 0, deployments |-> <<>>]
      PROVE  /\ Names(DeployAfter(c, d)) \subseteq Deployments(c)
             /\ DeployAfter(c, d) \in Waves(T \cup {0})
  <2>1. <<>> \in Seq(STRING) /\ Len(<<>>) = 0
    BY EmptySeq
  <2>2. DeployAfter(c, d) \in Waves(T \cup {0})
    BY <1>3, <2>1 DEF Waves
  <2>3. Names(DeployAfter(c, d)) = {}
    BY <1>3, <2>2, NamesOfList
  <2> QED
    BY <2>2, <2>3
<1>4. ASSUME NEW p \in Positions(c), DeployAfter(c, d) = WaveAt(c, p)
      PROVE  /\ Names(DeployAfter(c, d)) \subseteq Deployments(c)
             /\ DeployAfter(c, d) \in Waves(T \cup {0})
  <2>1. WaveAt(c, p) \in Waves(T)
    BY PositionsAreIn
  <2> QED
    BY <1>2, <1>4, <2>1 DEF Waves
<1>5. DeployWith(c, d) \subseteq Deployments(c)
  <2>1. /\ Len(c[here[1]]) \in Nat /\ here[1] \in 1..Len(c)
        /\ \A e, w : <<e, w>> \in Positions(c) <=> e \in 1..Len(c) /\ w \in 1..Len(c[e])
    BY <1>1, PositionsAreIn
  <2>2. \A w \in 2..Len(c[here[1]]) : Names(c[here[1]][w]) \subseteq Deployments(c)
    <3> TAKE w \in 2..Len(c[here[1]])
    <3>1. w \in 1..Len(c[here[1]])
      BY <2>1
    <3>2. <<here[1], w>> \in Positions(c) /\ WaveAt(c, <<here[1], w>>) = c[here[1]][w]
      BY <2>1, <3>1 DEF WaveAt
    <3> QED
      BY <1>2, <3>2
  <2> QED
    BY <2>2 DEF DeployWith
<1> QED
  BY <1>3, <1>4, <1>5, FollowedWave

\* The first wave of an environment waits for the deployments of all the others.
LEMMA LaterWavesAwaited ==
  ASSUME NEW W, NEW c \in Seq(Seq(W)), NEW d \in Deployments(c), NEW u \in Deployments(c),
         PositionOf(c, u)[1] = PositionOf(c, d)[1],
         PositionOf(c, d)[2] = 1, PositionOf(c, u)[2] > 1
  PROVE  u \in DeployWith(c, d)
<1> DEFINE p == PositionOf(c, u)
<1>1. p \in Positions(c) /\ u \in Names(WaveAt(c, p))
  BY PlaceOfDeployment
<1>2. p[1] \in 1..Len(c) /\ Len(c[p[1]]) \in Nat /\ p[2] \in 1..Len(c[p[1]])
  BY <1>1, PositionsAreIn
<1>3. p[2] \in 2..Len(c[p[1]]) /\ u \in Names(c[p[1]][p[2]])
  BY <1>1, <1>2 DEF WaveAt
<1> QED
  BY <1>3 DEF DeployWith

-----------------------------------------------------------------------------
(***************************************************************************)
(* Histories of healthy statuses, and the version that is chosen from them.*)
(***************************************************************************)

\* A healthy status is appended unless the last one is about the same version.
LEMMA HealthyAppend ==
  ASSUME NEW V, NEW T, NEW h \in Seq(Healthy(V, T)), NEW s \in Healthy(V, T)
  PROVE  AppendStatus(h, s) =
           IF h # <<>> /\ LastStatus(h).version = s.version THEN h ELSE Append(h, s)
<1> DEFINE S == Healthy(V, T)
           n == Len(h)
           g == Append(h, s)
<1>1. n \in Nat /\ \A i \in 1..n : h[i] \in S
  BY LenProperties, ElementOfSeq
<1>2. h # <<>> <=> n >= 1
  BY <1>1, EmptySeq
<1>3. h # <<>> => h[n].state = "Healthy"
  BY <1>1, <1>2 DEF Healthy
<1>4. Recorded(h, s) = g
  BY <1>3 DEF Recorded, Overwrites, LastStatus
<1>5. g \in Seq(S) /\ Len(g) = n + 1 /\ \A i \in 1..n : g[i] = h[i]
  BY AppendProperties
<1>6. s.state = "Healthy"
  BY DEF Healthy
<1>7. CASE h # <<>> /\ h[n].version = s.version
  <2>1. AppendStatus(h, s) = SubSeq(g, 1, n)
    BY <1>1, <1>2, <1>3, <1>4, <1>5, <1>6, <1>7 DEF AppendStatus, Compacted
  <2>2. /\ SubSeq(g, 1, n) \in Seq(S) /\ Len(SubSeq(g, 1, n)) = n
        /\ \A i \in 1..n : SubSeq(g, 1, n)[i] = h[i]
    <3>1. Len(g) >= 2 /\ Len(g) - 1 = n
      BY <1>1, <1>2, <1>5, <1>7
    <3> QED
      BY <1>5, <3>1, DropLast
  <2>3. SubSeq(g, 1, n) = h
    BY <2>2, SeqEqual
  <2> QED
    BY <1>7, <2>1, <2>3 DEF LastStatus
<1>8. CASE ~(h # <<>> /\ h[n].version = s.version)
  <2>1. ~(Len(g) >= 2 /\ g[Len(g) - 1].version = s.version)
    BY <1>1, <1>2, <1>5, <1>8
  <2>2. AppendStatus(h, s) = g
    BY <1>4, <2>1 DEF AppendStatus, Compacted
  <2> QED
    BY <1>8, <2>2 DEF LastStatus
<1> QED
  BY <1>7, <1>8

\* A version has been healthy since the first entry about it.
LEMMA HealthyDuration ==
  ASSUME NEW V, NEW T, NEW h \in Seq(Healthy(V, T)), NEW v, NEW now
  PROVE  VersionHealthyDuration(h, v, now) =
           IF Mentions(h, v) THEN now - h[FirstIndex(h, v)].start ELSE 0
<1>1. Len(h) \in Nat /\ \A i \in 1..Len(h) : h[i] \in Healthy(V, T)
  BY LenProperties, ElementOfSeq
<1>2. CASE ~Mentions(h, v)
  BY <1>2 DEF VersionHealthyDuration
<1>3. CASE Mentions(h, v)
  <2> DEFINE i == FirstIndex(h, v)
  <2>1. i \in 1..Len(h)
    BY <1>1, <1>3, FirstIndexIsFirst
  <2>2. Bad(h, i) = {}
    BY <1>1, <2>1 DEF Bad, Healthy
  <2>3. Until(h, i, now) = now
    BY <2>2 DEF Until
  <2> QED
    BY <1>3, <2>2, <2>3 DEF VersionHealthyDuration
<1> QED
  BY <1>2, <1>3

\* A version that a history mentions has a last entry.
LEMMA LastIndexIsLast ==
  ASSUME NEW h, Len(h) \in Nat, NEW v \in Versions(h)
  PROVE  /\ LastIndex(h, v) \in 1..Len(h)
         /\ h[LastIndex(h, v)].version = v
         /\ \A j \in 1..Len(h) : h[j].version = v => j <= LastIndex(h, v)
<1> DEFINE P == {i \in 1..Len(h) : h[i].version = v}
<1>1. P # {} /\ P \in SUBSET (0..Len(h))
  BY DEF Versions
<1>2. PICK x \in P : \A y \in P : y <= x
  BY <1>1, GreatestNat
<1>3. \E i \in 1..Len(h) : h[i].version = v /\ \A j \in (i + 1)..Len(h) : h[j].version # v
  BY <1>2
<1>4. /\ LastIndex(h, v) \in 1..Len(h)
      /\ h[LastIndex(h, v)].version = v
      /\ \A j \in (LastIndex(h, v) + 1)..Len(h) : h[j].version # v
  BY <1>3 DEF LastIndex
<1> QED
  BY <1>4

\* NextVersion returns the candidate that was reported last, if there is one.
LEMMA NextVersionIs ==
  ASSUME NEW after, NEW reports, NEW now, after.deployments # <<>>,
         after.deployments[1] \in DOMAIN reports =>
           Len(reports[after.deployments[1]]) \in Nat
  PROVE  LET cs == Candidates(after, reports, now)
             h  == reports[after.deployments[1]]
             nv == NextVersion(after, reports, now)
         IN  /\ cs = {} => nv = NoVersion
             /\ cs # {} => nv \in cs /\ \A w \in cs : LastIndex(h, w) <= LastIndex(h, nv)
<1> DEFINE cs == Candidates(after, reports, now)
           h == reports[after.deployments[1]]
           nv == NextVersion(after, reports, now)
           P == {LastIndex(h, v) : v \in cs}
<1>1. CASE cs = {}
  BY <1>1 DEF NextVersion
<1>2. CASE cs # {}
  <2>1. Len(h) \in Nat /\ cs \subseteq Versions(h)
    BY <1>2 DEF Candidates
  <2>2. P \in SUBSET (0..Len(h)) /\ P # {}
    BY <1>2, <2>1, LastIndexIsLast
  <2>3. PICK x \in P : \A y \in P : y <= x
    BY <2>1, <2>2, GreatestNat
  <2>4. \E v \in cs : \A w \in cs : LastIndex(h, w) <= LastIndex(h, v)
    BY <2>3
  <2>5. nv = CHOOSE v \in cs : \A w \in cs : LastIndex(h, w) <= LastIndex(h, v)
    BY <1>2 DEF NextVersion
  <2> QED
    BY <1>2, <2>4, <2>5
<1> QED
  BY <1>1, <1>2

=============================================================================
