------------------------ MODULE StatusHistoryProofs -------------------------
(***************************************************************************)
(* Facts about the operators of StatusHistory, for every history.          *)
(***************************************************************************)
EXTENDS StatusHistory, SequenceTheorems, WellFoundedInduction, TLAPS

\* r is h with s recorded: everything before the last entry of r comes from h,
\* only a trailing pending entry of h can have changed or gone, and the last
\* entry is about s.
Records(h, s, r) ==
  /\ r # <<>>
  /\ Len(r) <= Len(h) + 1
  /\ \A i \in 1..(Len(r) - 1) : i <= Len(h) /\ r[i] = h[i]
  /\ \A i \in 1..Len(h) : h[i].state # "Pending" => i <= Len(r) /\ r[i] = h[i]
  /\ r[Len(r)].version = s.version
  /\ r[Len(r)].state = s.state
  /\ \/ r[Len(r)] = s
     \/ Len(r) <= Len(h) /\ r[Len(r)] = h[Len(r)]
     \/ /\ s.state # "Healthy"
        /\ Len(r) = Len(h)
        /\ r[Len(r)].start = h[Len(h)].start

-----------------------------------------------------------------------------
(***************************************************************************)
(* AppendStatus.                                                           *)
(***************************************************************************)

\* Dropping the last entry of a sequence.
LEMMA DropLast ==
  ASSUME NEW S, NEW h \in Seq(S), Len(h) >= 2
  PROVE  LET r == SubSeq(h, 1, Len(h) - 1)
         IN  /\ r \in Seq(S)
             /\ Len(r) = Len(h) - 1
             /\ \A i \in 1..(Len(h) - 1) : r[i] = h[i]
<1>1. Len(h) \in Nat /\ \A i \in 1..Len(h) : h[i] \in S
  BY LenProperties, ElementOfSeq
<1>2. \A i \in 1..(Len(h) - 1) : h[i] \in S
  BY <1>1
<1>3. Len(h) - 1 \in Int /\ 1 \in Int /\ 1 <= Len(h) - 1
  BY <1>1
<1> QED
  BY <1>1, <1>2, <1>3, SubSeqProperties

\* Writing a status over the last, pending entry records it too: this is what
\* AppendStatus leaves in the saved report when its own result is thrown away.
LEMMA OverwrittenRecords ==
  ASSUME NEW V, NEW h \in Seq(DeploymentStatus(V)), NEW s \in DeploymentStatus(V),
         Compact(h), Overwrites(h, s)
  PROVE  LET g == Overwritten(h, s)
         IN  /\ g \in Seq(DeploymentStatus(V))
             /\ Len(g) = Len(h)
             /\ \A i \in 1..(Len(h) - 1) : g[i] = h[i]
             /\ Records(h, s, g)
             /\ Compact(g)
<1> DEFINE S == DeploymentStatus(V)
           n == Len(h)
           g == Overwritten(h, s)
           e == Updated(h[n], s)
<1>1. /\ n \in Nat /\ n >= 1
      /\ h[n] \in S
      /\ h[n].version = s.version /\ h[n].state = "Pending"
  <2>1. n \in Nat /\ \A i \in 1..n : h[i] \in S
    BY LenProperties, ElementOfSeq
  <2>2. h # <<>> /\ h[n].version = s.version /\ h[n].state = "Pending"
    BY DEF Overwrites, LastStatus
  <2> QED
    BY <2>1, <2>2, EmptySeq
<1>2. /\ e \in S
      /\ e.version = s.version
      /\ e.state = s.state
      /\ s.state = "Healthy" => e = s
      /\ s.state # "Healthy" => e.start = h[n].start
  BY <1>1 DEF DeploymentStatus, Updated
<1>3. g = [h EXCEPT ![n] = e]
  BY DEF Overwritten, LastStatus
<1>4. /\ g \in Seq(S) /\ Len(g) = n
      /\ \A i \in 1..n : g[i] = IF i = n THEN e ELSE h[i]
  BY <1>1, <1>2, <1>3, ExceptSeq
<1>5. Compact(g)
  <2> SUFFICES ASSUME NEW i \in 1..(Len(g) - 1), g[i].version = g[i + 1].version
               PROVE  g[i].state # "Pending"
    BY DEF Compact
  <2>1. i \in 1..(n - 1) /\ g[i] = h[i]
    BY <1>1, <1>4
  <2>2. h[i + 1].version = g[i + 1].version
    BY <1>1, <1>2, <1>4, <2>1
  <2> QED
    BY <2>1, <2>2 DEF Compact
<1>6. Records(h, s, g)
  BY <1>1, <1>2, <1>4, EmptySeq DEF Records
<1> QED
  BY <1>1, <1>4, <1>5, <1>6

\* AppendStatus records the status, and keeps a compact history compact.
LEMMA AppendStatusRecords ==
  ASSUME NEW V, NEW h \in Seq(DeploymentStatus(V)), NEW s \in DeploymentStatus(V),
         Compact(h)
  PROVE  /\ AppendStatus(h, s) \in Seq(DeploymentStatus(V))
         /\ Records(h, s, AppendStatus(h, s))
         /\ Compact(AppendStatus(h, s))
<1> DEFINE S == DeploymentStatus(V)
           n == Len(h)
           pending == h # <<>> /\ h[n].version = s.version /\ h[n].state = "Pending"
           g == Recorded(h, s)
           r == AppendStatus(h, s)
<1>1. n \in Nat /\ \A i \in 1..n : h[i] \in S
  BY LenProperties, ElementOfSeq
<1>2. h # <<>> => n >= 1
  BY <1>1, EmptySeq
<1>3. r = Compacted(g, s)
  BY DEF AppendStatus
<1>4. CASE ~pending
  <2>1. g = Append(h, s)
    BY <1>4 DEF Recorded, Overwrites, Overwritten, LastStatus
  <2>2. /\ g \in Seq(S) /\ Len(g) = n + 1
        /\ \A i \in 1..n : g[i] = h[i]
        /\ g[n + 1] = s
    BY <2>1, AppendProperties
  <2>3. CASE n >= 1 /\ h[n].version = s.version /\ h[n].state = s.state
    <3>1. r = SubSeq(g, 1, n)
      BY <1>1, <1>3, <2>2, <2>3 DEF Compacted
    <3>2. r \in Seq(S) /\ Len(r) = n /\ \A i \in 1..n : r[i] = h[i]
      BY <1>1, <2>2, <2>3, <3>1, DropLast
    <3>3. Compact(r)
      BY <1>1, <3>2 DEF Compact
    <3> QED
      BY <1>1, <2>3, <3>2, <3>3, EmptySeq DEF Records
  <2>4. CASE ~(n >= 1 /\ h[n].version = s.version /\ h[n].state = s.state)
    <3>1. r = g
      BY <1>1, <1>3, <2>2, <2>4 DEF Compacted
    <3>2. Compact(r)
      BY <1>1, <1>4, <2>2, <2>4, <3>1 DEF Compact
    <3> QED
      BY <1>1, <2>2, <3>1, <3>2, EmptySeq DEF Records
  <2> QED
    BY <2>3, <2>4
<1>5. CASE pending
  <2>1. Overwrites(h, s) /\ g = Overwritten(h, s)
    BY <1>5 DEF Overwrites, Recorded, LastStatus
  <2>2. /\ g \in Seq(S) /\ Len(g) = n
        /\ \A i \in 1..(n - 1) : g[i] = h[i]
        /\ Records(h, s, g)
        /\ Compact(g)
    BY <2>1, OverwrittenRecords
  <2>3. CASE n >= 2 /\ h[n - 1].version = s.version /\ h[n - 1].state = s.state
    <3>1. r = SubSeq(g, 1, n - 1)
      BY <1>1, <1>3, <2>2, <2>3 DEF Compacted
    <3>2. r \in Seq(S) /\ Len(r) = n - 1 /\ \A i \in 1..(n - 1) : r[i] = g[i]
      BY <2>2, <2>3, <3>1, DropLast
    <3>3. \A i \in 1..(n - 1) : r[i] = h[i]
      BY <1>1, <2>2, <3>2
    <3>4. Compact(r)
      BY <1>1, <3>2, <3>3 DEF Compact
    <3> QED
      BY <1>1, <1>5, <2>3, <3>2, <3>3, <3>4, EmptySeq DEF Records
  <2>4. CASE ~(n >= 2 /\ h[n - 1].version = s.version /\ h[n - 1].state = s.state)
    <3>1. n >= 2 => g[n - 1] = h[n - 1]
      BY <1>1, <2>2
    <3>2. r = g
      BY <1>1, <1>3, <2>2, <2>4, <3>1 DEF Compacted
    <3> QED
      BY <2>2, <3>2
  <2> QED
    BY <2>3, <2>4
<1> QED
  BY <1>4, <1>5

\* Writing the last entry's version and state over it once more changes nothing.
LEMMA OverwrittenRepeats ==
  ASSUME NEW V, NEW h \in Seq(DeploymentStatus(V)), NEW s \in DeploymentStatus(V),
         Overwrites(h, s), LastStatus(h).state = s.state
  PROVE  Overwritten(h, s) = h
<1> DEFINE S == DeploymentStatus(V)
           n == Len(h)
           g == Overwritten(h, s)
<1>1. n \in Nat /\ n >= 1 /\ \A i \in 1..n : h[i] \in S
  BY LenProperties, ElementOfSeq, EmptySeq DEF Overwrites
<1>2. h[n].version = s.version /\ h[n].state = s.state /\ h[n].state = "Pending"
  BY DEF Overwrites, LastStatus
<1>3. Updated(h[n], s) = h[n]
  <2>1. h[n] \in S /\ s.state # "Healthy"
    BY <1>1, <1>2
  <2>2. h[n] = [version |-> h[n].version, state |-> h[n].state, start |-> h[n].start]
    BY <2>1 DEF DeploymentStatus
  <2>3. Updated(h[n], s) = [version |-> s.version, state |-> s.state, start |-> h[n].start]
    BY <2>1 DEF DeploymentStatus, Updated
  <2> QED
    BY <1>2, <2>2, <2>3
<1>4. g = [h EXCEPT ![n] = h[n]]
  BY <1>3 DEF Overwritten, LastStatus
<1>5. g \in Seq(S) /\ Len(g) = n /\ \A i \in 1..n : g[i] = h[i]
  BY <1>1, <1>4, ExceptSeq
<1> QED
  BY <1>5, SeqEqual

\* Recording once more what the last entry of a compact history already says
\* changes nothing, start stamps included.
LEMMA AppendStatusRepeats ==
  ASSUME NEW V, NEW h \in Seq(DeploymentStatus(V)), NEW s \in DeploymentStatus(V),
         Compact(h), h # <<>>,
         LastStatus(h).version = s.version, LastStatus(h).state = s.state
  PROVE  AppendStatus(h, s) = h
<1> DEFINE S == DeploymentStatus(V)
           n == Len(h)
           g == Recorded(h, s)
           r == AppendStatus(h, s)
<1>1. n \in Nat /\ n >= 1 /\ \A i \in 1..n : h[i] \in S
  BY LenProperties, ElementOfSeq, EmptySeq
<1>2. r = Compacted(g, s) /\ h[n].version = s.version /\ h[n].state = s.state
  BY DEF AppendStatus, LastStatus
<1>3. CASE h[n].state = "Pending"
  <2>1. Overwrites(h, s) /\ g = Overwritten(h, s)
    BY <1>2, <1>3 DEF Recorded, Overwrites, LastStatus
  <2>2. g = h
    BY <2>1, OverwrittenRepeats
  <2>3. ~(n >= 2 /\ h[n - 1].version = s.version /\ h[n - 1].state = s.state)
    <3> SUFFICES ASSUME n >= 2, h[n - 1].version = h[n].version, h[n - 1].state = h[n].state
                 PROVE  FALSE
      BY <1>2
    <3>1. n - 1 \in 1..(Len(h) - 1) /\ (n - 1) + 1 = n
      BY <1>1
    <3> QED
      BY <1>3, <3>1 DEF Compact
  <2> QED
    BY <1>2, <2>2, <2>3 DEF Compacted
<1>4. CASE h[n].state # "Pending"
  <2>1. g = Append(h, s)
    BY <1>4 DEF Recorded, Overwrites, Overwritten, LastStatus
  <2>2. g \in Seq(S) /\ Len(g) = n + 1 /\ \A i \in 1..n : g[i] = h[i]
    BY <2>1, AppendProperties
  <2>3. r = SubSeq(g, 1, n)
    BY <1>1, <1>2, <2>2 DEF Compacted
  <2>4. r \in Seq(S) /\ Len(r) = n /\ \A i \in 1..n : r[i] = h[i]
    <3> HIDE DEF S, g, r
    <3>1. Len(g) >= 2 /\ Len(g) - 1 = n
      BY <1>1, <2>2
    <3>2. r = SubSeq(g, 1, Len(g) - 1)
      BY <2>3, <3>1
    <3>3. r \in Seq(S) /\ Len(r) = Len(g) - 1 /\ \A i \in 1..(Len(g) - 1) : r[i] = g[i]
      BY <2>2, <3>1, <3>2, DropLast
    <3> QED
      BY <2>2, <3>1, <3>3
  <2> QED
    BY <2>4, SeqEqual
<1> QED
  BY <1>3, <1>4

-----------------------------------------------------------------------------
(***************************************************************************)
(* VersionHealthyDuration.                                                 *)
(***************************************************************************)

\* A nonempty set of natural numbers has a least element.
LEMMA LeastNat ==
  ASSUME NEW T \in SUBSET Nat, T # {}
  PROVE  \E x \in T : \A y \in T : x <= y
<1>1. PICK x \in T : \A y \in T : ~(<<y, x>> \in OpToRel(<, Nat))
  BY NatLessThanWellFounded, WFMin
<1>2. \A y \in T : ~(y < x)
  BY <1>1 DEF OpToRel
<1> QED
  BY <1>2

\* A version that a history mentions has a first entry.
LEMMA FirstIndexIsFirst ==
  ASSUME NEW h, Len(h) \in Nat, NEW v, Mentions(h, v)
  PROVE  /\ FirstIndex(h, v) \in 1..Len(h)
         /\ h[FirstIndex(h, v)].version = v
         /\ \A j \in 1..Len(h) : h[j].version = v => FirstIndex(h, v) <= j
<1> DEFINE T == {i \in 1..Len(h) : h[i].version = v}
<1>1. T # {} /\ T \in SUBSET Nat
  BY DEF Mentions
<1>2. PICK x \in T : \A y \in T : x <= y
  BY <1>1, LeastNat
<1>3. \A j \in 1..(x - 1) : h[j].version # v
  BY <1>2
<1>4. \E i \in 1..Len(h) : h[i].version = v /\ \A j \in 1..(i - 1) : h[j].version # v
  BY <1>2, <1>3
<1>5. /\ FirstIndex(h, v) \in 1..Len(h)
      /\ h[FirstIndex(h, v)].version = v
      /\ \A j \in 1..(FirstIndex(h, v) - 1) : h[j].version # v
  BY <1>4 DEF FirstIndex
<1> QED
  BY <1>5

\* A healthy period ends now or at the start of one of the later entries.
LEMMA UntilIsReached ==
  ASSUME NEW h, Len(h) \in Nat, NEW i \in 1..Len(h), NEW now
  PROVE  \/ Until(h, i, now) = now
         \/ \E j \in i..Len(h) : h[j].state # "Healthy" /\ Until(h, i, now) = h[j].start
<1> DEFINE B == Bad(h, i)
           T == {Len(h) - j : j \in B}
<1>1. CASE B = {}
  BY <1>1 DEF Until
<1>2. CASE B # {}
  <2>1. B \subseteq i..Len(h)
    BY DEF Bad
  <2>2. T # {} /\ T \in SUBSET Nat
    BY <1>2, <2>1
  <2>3. PICK x \in T : \A y \in T : x <= y
    BY <2>2, LeastNat
  <2>4. PICK m \in B : x = Len(h) - m
    BY <2>3
  <2>5. \A k \in B : k <= m
    <3> TAKE k \in B
    <3>1. x <= Len(h) - k
      BY <2>3
    <3>2. k \in Int /\ m \in Int
      BY <2>1
    <3> QED
      BY <2>4, <3>1, <3>2
  <2> DEFINE last == CHOOSE j \in B : \A k \in B : k <= j
  <2>6. last \in B
    BY <2>5
  <2>7. Until(h, i, now) = h[last].start
    BY <1>2 DEF Until
  <2> QED
    BY <2>1, <2>6, <2>7 DEF Bad
<1> QED
  BY <1>1, <1>2

=============================================================================
