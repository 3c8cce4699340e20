----------------------------- MODULE KpctlProofs -----------------------------
(***************************************************************************)
(* Runs of kpctl, for any number of jobs, files and backends.              *)
(***************************************************************************)
EXTENDS Kpctl, CachedBackendProofs, SequenceTheorems

\* How many of its files a job has dealt with.
Done(j) == Len(Repo[j]) - Len(pending[j])

\* Where a job stands, and what it has left.
OutcomesOK ==
  \A j \in Job :
    /\ outcome[j] = "new" => pending[j] = Repo[j]
    /\ outcome[j] = "ok" => pending[j] = <<>>

\* As long as a job goes well and nobody crosses it, the last file that it has
\* published to a backend is what that backend serves.
ProgressIsServed ==
  \A j \in Job : \A n \in 1..Done(j) :
    outcome[j] \in {"running", "ok"} =>
      LET f == Repo[j][n]
      IN  /\ f.backend \in Registry
          /\ alone[j] /\ (\A m \in n+1..Done(j) : Repo[j][m].backend # f.backend) =>
               registry[f.backend][Tag(Configuration)] = f.config

\* A backend serves a configuration that names it, or none.
ConfigurationsAtHome ==
  \A b \in Registry :
    registry[b][Tag(Configuration)] # None =>
      \E j \in Job : \E n \in 1..Len(Repo[j]) :
        Repo[j][n].backend = b /\ Repo[j][n].config = registry[b][Tag(Configuration)]

\* The inductive invariant.
KInv ==
  /\ TypeOK /\ FetchesOK
  /\ JobsOK /\ OutcomesOK
  /\ ProgressIsServed
  /\ ConfigurationsAtHome

-----------------------------------------------------------------------------
(***************************************************************************)
(* The files that are left.                                                *)
(***************************************************************************)

\* What is left of a sequence after n elements.
LEMMA Rest ==
  ASSUME NEW S, NEW s \in Seq(S), NEW n \in 0..Len(s)
  PROVE  LET r == SubSeq(s, n + 1, Len(s))
         IN  /\ Len(r) = Len(s) - n
             /\ r = <<>> <=> n = Len(s)
             /\ n < Len(s) =>
                  /\ Head(r) = s[n + 1]
                  /\ Tail(r) = SubSeq(s, n + 2, Len(s))
<1> DEFINE r == SubSeq(s, n + 1, Len(s))
<1>1. Len(s) \in Nat /\ \A i \in 1..Len(s) : s[i] \in S
  BY LenProperties, ElementOfSeq
<1>2. \A i \in n+1..Len(s) : s[i] \in S
  BY <1>1
<1>3. n + 1 \in Int /\ Len(s) \in Int
  BY <1>1
<1>4. r \in Seq(S) /\ Len(r) = IF n + 1 <= Len(s) THEN Len(s) - (n + 1) + 1 ELSE 0
  BY <1>2, <1>3, SubSeqProperties
<1>5. Len(r) = Len(s) - n
  BY <1>1, <1>4
<1>6. r = <<>> <=> n = Len(s)
  <2>1. r # <<>> => Len(r) # 0
    BY <1>4, EmptySeq
  <2>2. r = <<>> => Len(r) = 0
    BY EmptySeq
  <2> QED
    BY <1>1, <1>5, <2>1, <2>2
<1>7. n < Len(s) => Head(r) = s[n + 1] /\ Tail(r) = SubSeq(s, n + 2, Len(s))
  <2> SUFFICES ASSUME n < Len(s)
               PROVE  Head(r) = s[n + 1] /\ Tail(r) = SubSeq(s, n + 2, Len(s))
    OBVIOUS
  <2>1. n + 1 \in 1..Len(s) /\ Len(s) \in n+1..Len(s) /\ (n + 1) + 1 = n + 2
    BY <1>1
  <2> QED
    BY <2>1, HeadTailOfSubSeq
<1> QED
  BY <1>5, <1>6, <1>7

\* What JobsOK says of a job: how far it is, and which file is next.
LEMMA PendingFiles ==
  ASSUME JobsOK, NEW j \in Job
  PROVE  /\ Len(Repo[j]) \in Nat /\ Done(j) \in 0..Len(Repo[j])
         /\ \A i \in 1..Len(Repo[j]) : Repo[j][i] \in File
         /\ pending[j] = <<>> <=> Done(j) = Len(Repo[j])
         /\ Len(pending[j]) = Len(Repo[j]) - Done(j)
         /\ pending[j] = SubSeq(Repo[j], Done(j) + 1, Len(Repo[j]))
         /\ Done(j) < Len(Repo[j]) =>
              /\ Head(pending[j]) = Repo[j][Done(j) + 1]
              /\ Tail(pending[j]) = SubSeq(Repo[j], Done(j) + 2, Len(Repo[j]))
              /\ Len(Tail(pending[j])) = Len(pending[j]) - 1
<1>1. Repo[j] \in Seq(File)
  BY RepoAssumption
<1>2. Len(Repo[j]) \in Nat /\ \A i \in 1..Len(Repo[j]) : Repo[j][i] \in File
  BY <1>1, LenProperties, ElementOfSeq
<1>3. PICK n \in 0..Len(Repo[j]) : pending[j] = SubSeq(Repo[j], n + 1, Len(Repo[j]))
  BY DEF JobsOK
<1>4. /\ Len(pending[j]) = Len(Repo[j]) - n
      /\ pending[j] = <<>> <=> n = Len(Repo[j])
      /\ n < Len(Repo[j]) =>
           /\ Head(pending[j]) = Repo[j][n + 1]
           /\ Tail(pending[j]) = SubSeq(Repo[j], n + 2, Len(Repo[j]))
  BY <1>1, <1>3, Rest
<1>5. n = Done(j)
  BY <1>2, <1>4 DEF Done
<1>6. ASSUME n < Len(Repo[j]) PROVE Len(Tail(pending[j])) = Len(pending[j]) - 1
  <2>1. n + 1 \in 0..Len(Repo[j]) /\ (n + 1) + 1 = n + 2
    BY <1>2, <1>6
  <2>2. Len(SubSeq(Repo[j], (n + 1) + 1, Len(Repo[j]))) = Len(Repo[j]) - (n + 1)
    BY <1>1, <2>1, Rest
  <2> QED
    BY <1>2, <1>4, <1>6, <2>1, <2>2
<1> QED
  BY <1>2, <1>3, <1>4, <1>5, <1>6

\* A job that has a file left takes the next one.
LEMMA NotDone ==
  ASSUME JobsOK, NEW j \in Job, pending[j] # <<>>
  PROVE  /\ Done(j) + 1 \in 1..Len(Repo[j]) /\ Done(j) + 1 \in 0..Len(Repo[j])
         /\ Head(pending[j]) = Repo[j][Done(j) + 1]
         /\ Tail(pending[j]) = SubSeq(Repo[j], (Done(j) + 1) + 1, Len(Repo[j]))
         /\ Len(Tail(pending[j])) = Len(pending[j]) - 1
         /\ Len(pending[j]) = 1 <=> Done(j) + 1 = Len(Repo[j])
<1> DEFINE d == Done(j)
           l == Len(Repo[j])
<1>1. l \in Nat /\ d \in 0..l /\ d # l /\ Len(pending[j]) = l - d
  BY PendingFiles
<1>2. d < l
  BY <1>1
<1>3. /\ Head(pending[j]) = Repo[j][d + 1]
      /\ Tail(pending[j]) = SubSeq(Repo[j], d + 2, l)
      /\ Len(Tail(pending[j])) = Len(pending[j]) - 1
  BY <1>2, PendingFiles
<1> HIDE DEF d, l
<1>4. d + 1 \in 1..l /\ d + 1 \in 0..l /\ (d + 1) + 1 = d + 2
  BY <1>1, <1>2
<1>5. Len(pending[j]) = 1 <=> d + 1 = l
  BY <1>1
<1> QED
  BY <1>3, <1>4, <1>5 DEF d, l

-----------------------------------------------------------------------------
(***************************************************************************)
(* The steps of the client and of others.                                  *)
(***************************************************************************)

\* What every backend holds after a push.
LEMMA PushedAnywhere ==
  ASSUME TypeOK, NEW b \in Registry, NEW r \in Ref, NEW v \in Value, Pushed(b, r, v)
  PROVE  /\ registry' \in [Registry -> [Tags -> Held]]
         /\ \A a \in Registry, q \in Ref :
              registry'[a][Tag(q)] = IF a = b /\ q = r THEN v ELSE registry[a][Tag(q)]
<1>1. Tag(r) \in Tags /\ \A q \in Ref : Tag(q) \in Tags
  BY DEF Tags
<1> QED
  BY <1>1, TagInjective DEF TypeOK, Pushed, Held

\* The configurations in the registries.
Served == [b \in Registry |-> registry[b][Tag(Configuration)]]

\* Nobody but a job changes a configuration.
LEMMA ClientSpares ==
  ASSUME TypeOK,
         \/ ClientNext \/ Move
         \/ \E b \in Registry, r \in Ref \ {Configuration}, v \in Value :
              PushByOthers(b, r, v)
  PROVE  Served' = Served
<1>1. Configuration \in Ref /\ Configuration \notin Owned
  BY ConfigurationAssumption
<1>2. ASSUME NEW b \in Registry, NEW r \in Ref, r # Configuration, NEW v \in Value,
             Pushed(b, r, v)
      PROVE  Served' = Served
  BY <1>1, <1>2, PushedAnywhere DEF Served
<1>3. CASE UNCHANGED registry
  BY <1>3 DEF Served
<1>4. CASE \E b \in Registry, r \in Ref \ {Configuration}, v \in Value :
             PushByOthers(b, r, v)
  BY <1>2, <1>4 DEF PushByOthers
<1>5. CASE Restart \/ Move
  BY <1>3, <1>5 DEF Restart, Move, SetBackend
<1>6. ASSUME NEW c \in Call, NEW r \in Ref, Fetch(c, r) PROVE Served' = Served
  BY <1>3, <1>6 DEF Fetch
<1>7. ASSUME NEW c \in Call,
             DigestMatches(c) \/ DigestDiffers(c) \/ Pull(c) \/ PullFails(c)
      PROVE  Served' = Served
  BY <1>3, <1>7 DEF DigestMatches, DigestDiffers, Pull, PullFails
<1>8. ASSUME NEW r \in Owned, NEW v \in Value, PublishCached(r, v) \/ Publish(r, v)
      PROVE  Served' = Served
  <2>1. r \in Ref /\ r # Configuration /\ baseUrl \in Registry
    BY <1>1, OwnedRefs DEF TypeOK
  <2> QED
    BY <1>2, <1>3, <1>8, <2>1 DEF PublishCached, Publish
<1>9. ASSUME NEW r \in Owned, NEW v \in Value, NEW how \in FailedPush,
             PublishFails(r, v, how)
      PROVE  Served' = Served
  <2>1. r \in Ref /\ r # Configuration /\ baseUrl \in Registry
    BY <1>1, OwnedRefs DEF TypeOK
  <2> QED
    BY <1>2, <1>3, <1>9, <2>1 DEF PublishFails
<1> QED
  BY <1>4, <1>5, <1>6, <1>7, <1>8, <1>9 DEF ClientNext

\* A step that leaves the jobs and the configurations alone.
LEMMA SparedStep ==
  ASSUME JobsOK, OutcomesOK, ProgressIsServed, ConfigurationsAtHome,
         UNCHANGED jobs, Served' = Served
  PROVE  JobsOK' /\ OutcomesOK' /\ ProgressIsServed' /\ ConfigurationsAtHome'
<1>1. pending' = pending /\ outcome' = outcome /\ alone' = alone
  BY DEF jobs
<1>2. \A b \in Registry : registry'[b][Tag(Configuration)] = registry[b][Tag(Configuration)]
  BY DEF Served
<1>3. JobsOK' /\ OutcomesOK'
  BY <1>1 DEF JobsOK, OutcomesOK
<1>4. ProgressIsServed'
  BY <1>1, <1>2 DEF ProgressIsServed, Done
<1>5. ConfigurationsAtHome'
  BY <1>2 DEF ConfigurationsAtHome
<1> QED
  BY <1>3, <1>4, <1>5

-----------------------------------------------------------------------------
(***************************************************************************)
(* The steps of a job.                                                     *)
(***************************************************************************)

\* The next file of a running job, pushed to its backend.
LEMMA NextFilePushed ==
  ASSUME TypeOK, JobsOK, NEW j \in Job, outcome[j] = "running"
  PROVE  LET f == Head(pending[j])
         IN  /\ Done(j) + 1 \in 1..Len(Repo[j]) /\ f = Repo[j][Done(j) + 1]
             /\ f.backend \in BaseUrl /\ f.config \in Value
             /\ Supported(f.backend) => f.backend \in Registry
             /\ Supported(f.backend) /\ Pushed(f.backend, Configuration, f.config) =>
                  /\ registry' \in [Registry -> [Tags -> Held]]
                  /\ \A b \in Registry :
                       registry'[b][Tag(Configuration)] =
                         IF b = f.backend THEN f.config ELSE registry[b][Tag(Configuration)]
<1> DEFINE f == Head(pending[j])
<1>1. pending[j] # <<>>
  BY DEF JobsOK
<1>2. Done(j) + 1 \in 1..Len(Repo[j]) /\ f = Repo[j][Done(j) + 1]
  BY <1>1, NotDone
<1>3. f \in File
  BY <1>2, PendingFiles
<1>4. f.backend \in BaseUrl /\ f.config \in Value
  BY <1>3 DEF File
<1>5. Supported(f.backend) => f.backend \in Registry
  BY <1>4 DEF Registry
<1>6. ASSUME Supported(f.backend), Pushed(f.backend, Configuration, f.config)
      PROVE  /\ registry' \in [Registry -> [Tags -> Held]]
             /\ \A b \in Registry :
                  registry'[b][Tag(Configuration)] =
                    IF b = f.backend THEN f.config ELSE registry[b][Tag(Configuration)]
  BY <1>4, <1>5, <1>6, PushedAnywhere, ConfigurationAssumption
<1> QED
  BY <1>2, <1>4, <1>5, <1>6

\* Every step of a job keeps the types of the client's state.
LEMMA JobKeepsTypes ==
  ASSUME TypeOK, FetchesOK, JobsOK, JobNext
  PROVE  TypeOK' /\ FetchesOK'
<1>1. registry' \in [Registry -> [Tags -> Held]]
  <2>1. CASE UNCHANGED registry
    BY <2>1 DEF TypeOK
  <2>2. ASSUME NEW j \in Job, PublishConfig(j) PROVE registry' \in [Registry -> [Tags -> Held]]
    BY <2>2, NextFilePushed DEF PublishConfig
  <2>3. ASSUME NEW j \in Job, NEW how \in {"invalid"} \cup FailedPush,
               PublishConfigFails(j, how)
        PROVE  registry' \in [Registry -> [Tags -> Held]]
    BY <2>1, <2>3, NextFilePushed DEF PublishConfigFails
  <2>4. ASSUME NEW j \in Job, FindConfigs(j) \/ FindConfigsFails(j) \/ RunAgain(j)
        PROVE  registry' \in [Registry -> [Tags -> Held]]
    BY <2>1, <2>4 DEF FindConfigs, FindConfigsFails, RunAgain, vars
  <2> QED
    BY <2>2, <2>3, <2>4 DEF JobNext
<1>2. UNCHANGED <<baseUrl, caches, fetches, acknowledged>>
  BY DEF JobNext, FindConfigs, FindConfigsFails, PublishConfig, PublishConfigFails,
     RunAgain, vars
<1> QED
  BY <1>1, <1>2 DEF TypeOK, FetchesOK, caches, fetches

\* A job goes through its files in order.
LEMMA JobsStep ==
  ASSUME JobsOK, OutcomesOK, NEW j \in Job,
         \/ FindConfigs(j) \/ FindConfigsFails(j) \/ PublishConfig(j) \/ RunAgain(j)
         \/ \E how \in {"invalid"} \cup FailedPush : PublishConfigFails(j, how)
  PROVE  JobsOK' /\ OutcomesOK'
<1> DEFINE Goal == JobsOK' /\ OutcomesOK'
<1>1. CASE FindConfigs(j)
  BY <1>1 DEF FindConfigs, JobsOK, OutcomesOK, vars
<1>2. CASE FindConfigsFails(j)
  BY <1>2 DEF FindConfigsFails, JobsOK, OutcomesOK
<1>3. CASE PublishConfig(j)
  <2>1. /\ pending' = [pending EXCEPT ![j] = Tail(pending[j])]
        /\ outcome' = [outcome EXCEPT ![j] = IF Len(pending[j]) = 1 THEN "ok" ELSE "running"]
        /\ alone' = [i \in Job |-> alone[i] /\ i = j]
    BY <1>3 DEF PublishConfig, NextFile, Disturbs
  <2>2. /\ Done(j) + 1 \in 0..Len(Repo[j])
        /\ Tail(pending[j]) = SubSeq(Repo[j], (Done(j) + 1) + 1, Len(Repo[j]))
        /\ Tail(pending[j]) = <<>> <=> Len(pending[j]) = 1
    <3>1. pending[j] # <<>>
      BY <1>3 DEF PublishConfig, JobsOK
    <3>2. Done(j) + 1 \in 0..Len(Repo[j]) /\ Repo[j] \in Seq(File)
      BY <3>1, NotDone, RepoAssumption
    <3>3. SubSeq(Repo[j], (Done(j) + 1) + 1, Len(Repo[j])) = <<>>
            <=> Done(j) + 1 = Len(Repo[j])
      BY <3>2, Rest
    <3>4. /\ Tail(pending[j]) = SubSeq(Repo[j], (Done(j) + 1) + 1, Len(Repo[j]))
          /\ Len(pending[j]) = 1 <=> Done(j) + 1 = Len(Repo[j])
      BY <3>1, NotDone
    <3> QED
      BY <3>2, <3>3, <3>4
  <2>3. Tail(pending[j]) \in Seq(File)
    BY <1>3, HeadTailProperties DEF PublishConfig, JobsOK
  <2>4. pending' \in [Job -> Seq(File)] /\ outcome' \in [Job -> {"new", "running", "ok", "failed"}]
    BY <2>1, <2>3 DEF JobsOK
  <2>5. \A i \in Job : i # j => pending'[i] = pending[i] /\ outcome'[i] = outcome[i]
    BY <2>1 DEF JobsOK
  <2>6. /\ pending'[j] = Tail(pending[j])
        /\ outcome'[j] = IF Len(pending[j]) = 1 THEN "ok" ELSE "running"
    BY <2>1 DEF JobsOK
  <2>7. alone' \in [Job -> BOOLEAN]
    BY <2>1, Zenon DEF JobsOK
  <2>8. \A i \in Job :
          \E n \in 0..Len(Repo[i]) : pending'[i] = SubSeq(Repo[i], n + 1, Len(Repo[i]))
    BY <2>2, <2>5, <2>6 DEF JobsOK
  <2>9. \A i \in Job : outcome'[i] = "running" => pending'[i] # <<>>
    BY <2>2, <2>5, <2>6 DEF JobsOK
  <2>10. OutcomesOK'
    BY <2>2, <2>5, <2>6 DEF OutcomesOK
  <2> QED
    BY <2>4, <2>7, <2>8, <2>9, <2>10 DEF JobsOK
<1>4. ASSUME NEW how \in {"invalid"} \cup FailedPush, PublishConfigFails(j, how) PROVE Goal
  <2>1. /\ pending' = pending
        /\ outcome' = [outcome EXCEPT ![j] = "failed"]
        /\ alone' = alone \/ alone' = [i \in Job |-> alone[i] /\ i = j]
    BY <1>4 DEF PublishConfigFails, Disturbs
  <2>2. alone' \in [Job -> BOOLEAN]
    BY <2>1, Zenon DEF JobsOK
  <2> QED
    BY <2>1, <2>2 DEF JobsOK, OutcomesOK
<1>5. CASE RunAgain(j)
  <2>1. Repo[j] \in Seq(File)
    BY RepoAssumption
  <2>2. 0 \in 0..Len(Repo[j]) /\ Repo[j] = SubSeq(Repo[j], 0 + 1, Len(Repo[j]))
    BY <2>1, LenProperties, SubSeqFull
  <2>3. /\ pending' = [pending EXCEPT ![j] = Repo[j]]
        /\ outcome' = [outcome EXCEPT ![j] = "new"]
        /\ alone' = alone
    BY <1>5 DEF RunAgain
  <2> QED
    BY <2>1, <2>2, <2>3 DEF JobsOK, OutcomesOK
<1> QED
  BY <1>1, <1>2, <1>3, <1>4, <1>5

\* What a job says of the n-th of the d files it has published.
FileServed(j, d, n) ==
  LET f == Repo[j][n]
  IN  /\ f.backend \in Registry
      /\ alone[j] /\ (\A m \in n+1..d : Repo[j][m].backend # f.backend) =>
           registry[f.backend][Tag(Configuration)] = f.config

\* A push of the next file, and nothing else, is recorded as progress; whoever
\* else is running is no longer alone.
LEMMA ProgressStep ==
  ASSUME TypeOK, JobsOK, OutcomesOK, ProgressIsServed, NEW j \in Job,
         \/ FindConfigs(j) \/ FindConfigsFails(j) \/ PublishConfig(j) \/ RunAgain(j)
         \/ \E how \in {"invalid"} \cup FailedPush : PublishConfigFails(j, how)
  PROVE  ProgressIsServed'
<1> DEFINE Live(i) == outcome[i] \in {"running", "ok"}
<1>1. \A i \in Job : \A n \in 1..Done(i) : Live(i) => FileServed(i, Done(i), n)
  BY DEF ProgressIsServed, FileServed
<1>2. SUFFICES ASSUME NEW i \in Job, NEW n \in 1..Done(i)', Live(i)'
               PROVE  FileServed(i, Done(i), n)'
  BY DEF ProgressIsServed, FileServed
<1>3. CASE i # j /\ UNCHANGED registry
  <2>1. pending'[i] = pending[i] /\ outcome'[i] = outcome[i] /\ (alone'[i] => alone[i])
    BY <1>3 DEF FindConfigs, FindConfigsFails, PublishConfig, RunAgain, NextFile,
       PublishConfigFails, Disturbs, JobsOK, vars
  <2>2. Done(i)' = Done(i)
    BY <2>1 DEF Done
  <2> QED
    BY <1>1, <1>2, <1>3, <2>1, <2>2 DEF FileServed
<1>4. CASE i # j /\ Disturbs(j)
  <2>1. pending'[i] = pending[i] /\ outcome'[i] = outcome[i] /\ ~alone'[i]
    BY <1>4 DEF FindConfigs, FindConfigsFails, PublishConfig, RunAgain, NextFile,
       PublishConfigFails, Disturbs, JobsOK, vars
  <2>2. Done(i)' = Done(i)
    BY <2>1 DEF Done
  <2> QED
    BY <1>1, <1>2, <2>1, <2>2 DEF FileServed
<1>5. CASE i = j /\ FindConfigs(j)
  <2>1. pending' = pending /\ pending[j] = Repo[j]
    BY <1>5 DEF FindConfigs, OutcomesOK
  <2>2. Done(i)' = 0
    BY <1>5, <2>1, PendingFiles DEF Done
  <2> QED
    BY <1>2, <2>2
<1>6. CASE i = j /\ PublishConfig(j)
  <2> DEFINE f == Head(pending[j])
             d == Done(j)
  <2>1. /\ Supported(f.backend) /\ Pushed(f.backend, Configuration, f.config)
        /\ pending' = [pending EXCEPT ![j] = Tail(pending[j])]
        /\ alone' = [k \in Job |-> alone[k] /\ k = j]
        /\ Live(j) /\ pending[j] # <<>>
    BY <1>6 DEF PublishConfig, NextFile, Disturbs, JobsOK
  <2>2. /\ f = Repo[j][d + 1] /\ f.backend \in Registry
        /\ \A b \in Registry :
             registry'[b][Tag(Configuration)] =
               IF b = f.backend THEN f.config ELSE registry[b][Tag(Configuration)]
    BY <1>6, <2>1, NextFilePushed DEF PublishConfig
  <2>3. Done(j)' = d + 1 /\ d \in Nat
    <3>1. /\ pending'[j] = Tail(pending[j])
          /\ Len(Tail(pending[j])) = Len(pending[j]) - 1
      BY <2>1, NotDone DEF JobsOK
    <3>2. Len(Repo[j]) \in Nat /\ Len(pending[j]) = Len(Repo[j]) - d /\ d \in 0..Len(Repo[j])
      BY PendingFiles
    <3>3. Done(j)' = Len(Repo[j]) - Len(pending'[j])
      BY DEF Done
    <3>4. Done(j)' = Len(Repo[j]) - (Len(pending[j]) - 1)
      BY <3>1, <3>3
    <3>5. ASSUME NEW l \in Nat, NEW e \in 0..l PROVE l - ((l - e) - 1) = e + 1 /\ e \in Nat
      BY <3>5
    <3> HIDE DEF d
    <3> QED
      BY <3>2, <3>4, <3>5
  <2>4. alone'[j] = alone[j]
    BY <2>1 DEF JobsOK
  <2>5. CASE n = d + 1
    BY <1>6, <2>2, <2>3, <2>5 DEF FileServed
  <2>6. CASE n \in 1..d
    <3>1. FileServed(j, d, n)
      BY <1>1, <2>1, <2>6
    <3>2. (\A m \in n+1..d+1 : Repo[j][m].backend # Repo[j][n].backend) =>
            /\ \A m \in n+1..d : Repo[j][m].backend # Repo[j][n].backend
            /\ f.backend # Repo[j][n].backend
      BY <2>2, <2>3, <2>6
    <3> QED
      BY <1>6, <2>2, <2>3, <2>4, <3>1, <3>2 DEF FileServed
  <2> HIDE DEF d
  <2> QED
    BY <1>2, <1>6, <2>3, <2>5, <2>6
<1>7. ASSUME i = j, NEW how \in {"invalid"} \cup FailedPush, PublishConfigFails(j, how)
      PROVE  FALSE
  BY <1>2, <1>7 DEF PublishConfigFails, JobsOK
<1>8. CASE i = j /\ (FindConfigsFails(j) \/ RunAgain(j))
  BY <1>2, <1>8 DEF FindConfigsFails, RunAgain, JobsOK
<1>9. UNCHANGED registry \/ Disturbs(j)
  BY DEF FindConfigs, FindConfigsFails, PublishConfig, RunAgain, PublishConfigFails, vars
<1> QED
  BY <1>3, <1>4, <1>5, <1>6, <1>7, <1>8, <1>9

\* A job leaves in a backend only what names it.
LEMMA AtHomeStep ==
  ASSUME TypeOK, JobsOK, ConfigurationsAtHome, NEW j \in Job,
         \/ FindConfigs(j) \/ FindConfigsFails(j) \/ PublishConfig(j) \/ RunAgain(j)
         \/ \E how \in {"invalid"} \cup FailedPush : PublishConfigFails(j, how)
  PROVE  ConfigurationsAtHome'
<1> DEFINE f == Head(pending[j])
<1>1. CASE UNCHANGED registry
  BY <1>1 DEF ConfigurationsAtHome
<1>2. CASE /\ outcome[j] = "running" /\ Supported(f.backend)
           /\ Pushed(f.backend, Configuration, f.config)
  <2>1. /\ Done(j) + 1 \in 1..Len(Repo[j]) /\ f = Repo[j][Done(j) + 1]
        /\ \A b \in Registry :
             registry'[b][Tag(Configuration)] =
               IF b = f.backend THEN f.config ELSE registry[b][Tag(Configuration)]
    BY <1>2, NextFilePushed
  <2> QED
    BY <2>1 DEF ConfigurationsAtHome
<1>3. CASE PublishConfig(j)
  BY <1>2, <1>3 DEF PublishConfig
<1>4. ASSUME NEW how \in {"invalid"} \cup FailedPush, PublishConfigFails(j, how)
      PROVE  ConfigurationsAtHome'
  BY <1>1, <1>2, <1>4 DEF PublishConfigFails
<1>5. CASE FindConfigs(j) \/ FindConfigsFails(j) \/ RunAgain(j)
  BY <1>1, <1>5 DEF FindConfigs, FindConfigsFails, RunAgain, vars
<1> QED
  BY <1>3, <1>4, <1>5

-----------------------------------------------------------------------------
(***************************************************************************)
(* The theorems.                                                           *)
(***************************************************************************)

LEMMA InitKInv == KInit => KInv
<1> SUFFICES ASSUME KInit PROVE KInv
  OBVIOUS
<1> USE DEF KInit
<1>1. TypeOK /\ FetchesOK
  BY InitTypes, InitIInv DEF IInv
<1>2. \A j \in Job : Repo[j] \in Seq(File) /\ Repo[j] = SubSeq(Repo[j], 0 + 1, Len(Repo[j]))
  BY RepoAssumption, SubSeqFull
<1>3. JobsOK /\ OutcomesOK
  <2>1. \A j \in Job : 0 \in 0..Len(Repo[j])
    BY <1>2, LenProperties
  <2>2. pending \in [Job -> Seq(File)]
    BY <1>2
  <2>3. \A j \in Job :
          \E n \in 0..Len(Repo[j]) : pending[j] = SubSeq(Repo[j], n + 1, Len(Repo[j]))
    BY <1>2, <2>1
  <2> QED
    BY <2>2, <2>3 DEF JobsOK, OutcomesOK
<1>4. ProgressIsServed
  BY DEF ProgressIsServed
<1>5. ConfigurationsAtHome
  <2>1. Tag(Configuration) \in Tags
    BY ConfigurationAssumption DEF Tags
  <2> QED
    BY <2>1 DEF Init, ConfigurationsAtHome
<1> QED
  BY <1>1, <1>3, <1>4, <1>5 DEF KInv

LEMMA StepKInv == KInv /\ [KNext]_kvars => KInv'
<1> SUFFICES ASSUME KInv, [KNext]_kvars PROVE KInv'
  OBVIOUS
<1> USE DEF KInv
<1>1. CASE JobNext
  BY <1>1, JobKeepsTypes, JobsStep, ProgressStep, AtHomeStep DEF JobNext
<1>2. CASE /\ \/ ClientNext \/ Move
              \/ \E b \in Registry, r \in Ref \ {Configuration}, v \in Value :
                   PushByOthers(b, r, v)
           /\ UNCHANGED jobs
  BY <1>2, TypesStep, FetchesStep, ClientSpares, SparedStep DEF Next
<1>3. CASE UNCHANGED kvars
  <2>1. UNCHANGED vars /\ UNCHANGED jobs /\ Served' = Served
    BY <1>3 DEF kvars, vars, Served
  <2> QED
    BY <2>1, TypesStep, FetchesStep, SparedStep
<1> QED
  BY <1>1, <1>2, <1>3 DEF KNext

THEOREM KpctlInvariant == KSpec => []KInv
<1>1. KInit => KInv
  BY InitKInv
<1> QED
  BY <1>1, StepKInv, PTL DEF KSpec

\* Jobs go through their files in order, whatever else happens.
THEOREM KpctlTypes == KSpec => []JobsOK
<1>1. KInv => JobsOK
  BY DEF KInv
<1> QED
  BY <1>1, KpctlInvariant, PTL

\* Success means that every backend serves the last file for it, unless another
\* run crossed this one.
THEOREM KpctlSuccessIsServed == KSpec => []SuccessIsServed
<1>1. KInv => SuccessIsServed
  <2> SUFFICES ASSUME KInv, NEW j \in Job, NEW n \in 1..Len(Repo[j]),
                      outcome[j] = "ok", alone[j], LastForBackend(j, n)
               PROVE  LET f == Repo[j][n]
                      IN  /\ f.backend \in Registry
                          /\ registry[f.backend][Tag(Configuration)] = f.config
    BY DEF SuccessIsServed
  <2>1. Done(j) = Len(Repo[j])
    BY PendingFiles DEF KInv, OutcomesOK
  <2> QED
    BY <2>1 DEF KInv, ProgressIsServed, LastForBackend
<1> QED
  BY <1>1, KpctlInvariant, PTL

\* A fetch of the configuration returns one that names the backend in use.
THEOREM KpctlOwnConfiguration == KSpec => OwnConfiguration
<1> DEFINE
      AtHome(c) ==
        metadata[c] = Configuration /\ metadata'[c] = None /\ answer'[c] \in Value =>
          \E j \in Job : \E n \in 1..Len(Repo[j]) :
            Repo[j][n].backend = baseUrl /\ Repo[j][n].config = answer'[c]
<1>1. ASSUME KInv, [KNext]_kvars PROVE \A c \in Call : AtHome(c)
  <2> SUFFICES ASSUME NEW c \in Call, metadata[c] = Configuration,
                      metadata'[c] = None, answer'[c] \in Value
               PROVE  \E j \in Job : \E n \in 1..Len(Repo[j]) :
                        Repo[j][n].backend = baseUrl /\ Repo[j][n].config = answer'[c]
    OBVIOUS
  <2>1. Configuration \in Ref /\ Configuration # None /\ None \notin Value /\ Error \notin Value
    BY ConfigurationAssumption, RefAssumption
  <2>2. ~UNCHANGED metadata
    BY <2>1
  <2>3. \/ Restart
        \/ \E k \in Call : \/ \E r \in Ref \ Owned : Fetch(k, r)
                           \/ DigestMatches(k) \/ Pull(k) \/ PullFails(k)
    BY <1>1, <2>2 DEF KNext, ClientNext, Move, SetBackend, PushByOthers, JobNext,
       FindConfigs, FindConfigsFails, PublishConfig, PublishConfigFails, RunAgain,
       PublishCached, Publish, PublishFails, DigestDiffers, kvars, vars, fetches
  <2>4. ~Restart
    BY <2>1 DEF Restart, NoFetch
  <2>5. ASSUME NEW k \in Call, NEW r \in Ref, Fetch(k, r) PROVE FALSE
    BY <2>1, <2>5, <1>1 DEF Fetch, Goto, Return, KInv, TypeOK, FetchesOK
  <2>6. ASSUME NEW k \in Call, DigestMatches(k) \/ Pull(k) \/ PullFails(k)
        PROVE  answer'[c] = Remote[Configuration]
    <3>1. k = c
      BY <1>1, <2>1, <2>6 DEF DigestMatches, Pull, PullFails, Return, KInv, TypeOK
    <3> QED
      BY <1>1, <2>1, <2>6, <3>1 DEF DigestMatches, Pull, PullFails, Return, KInv, TypeOK
  <2>7. /\ answer'[c] = registry[baseUrl][Tag(Configuration)]
        /\ answer'[c] # None /\ baseUrl \in Registry
    BY <1>1, <2>1, <2>3, <2>4, <2>5, <2>6 DEF Remote, KInv, TypeOK
  <2> QED
    BY <1>1, <2>7 DEF KInv, ConfigurationsAtHome
<1>2. KInv /\ [KNext]_kvars => [\A c \in Call : AtHome(c)]_kvars
  BY <1>1
<1> QED
  BY <1>2, KpctlInvariant, PTL DEF KSpec, OwnConfiguration

-----------------------------------------------------------------------------
(***************************************************************************)
(* The client beside the jobs, as a store.                                 *)
(***************************************************************************)

\* Whatever happens in the registries, and whichever of them is in use, is a
\* replacement in a store that the client does not write and in which nothing is
\* immutable.
LEMMA AnyReplace ==
  ASSUME Owned = {}, Immutable = {}, TypeOK', UNCHANGED <<metadata, answer, acknowledged>>
  PROVE  Store!Replace
<1>1. Remote' = [r \in Ref |-> registry'[baseUrl'][Tag(r)]]
  BY DEF Remote
<1>2. ASSUME NEW r \in Ref PROVE registry'[baseUrl'][Tag(r)] \in Value \cup {None}
  <2>1. Tag(r) \in Tags
    BY DEF Tags
  <2> QED
    BY <2>1 DEF TypeOK, Held
<1>3. Remote' \in [Ref -> Value \cup {None}]
  BY <1>1, <1>2
<1>4. \A r \in Ref : r \notin Owned /\ r \notin Immutable
  OBVIOUS
<1> QED
  BY <1>3, <1>4 DEF Store!Replace

\* A client that only fetches, and nothing that it would not ask about.
LEMMA FetchingIInv ==
  ASSUME Owned = {}, Immutable = {}, KInv
  PROVE  IInv
BY DEF IInv, KInv, ManifestsCurrent, PublishesCurrent, PublishedIsServed

\* Every step of KSpec is one of the store, or leaves it alone.
LEMMA StepIsAStores ==
  ASSUME Owned = {}, Immutable = {}, KInv, KInv', [KNext]_kvars
  PROVE  [Store!StoreNext]_(Store!storeVars)
<1> USE FetchingIInv DEF Store!StoreNext
<1>1. CASE UNCHANGED kvars
  <2>1. UNCHANGED <<registry, baseUrl, metadata, answer, acknowledged>>
    BY <1>1 DEF kvars, vars, fetches
  <2> QED
    BY <2>1 DEF Store!storeVars, Remote
<1>2. ASSUME UNCHANGED <<metadata, answer, acknowledged>> PROVE Store!StoreNext
  BY <1>2, AnyReplace DEF KInv
<1>3. ASSUME NEW b \in Registry, NEW r \in Ref, NEW v \in Value, PushByOthers(b, r, v)
      PROVE  Store!StoreNext
  BY <1>2, <1>3 DEF PushByOthers, fetches
<1>4. CASE JobNext
  <2>1. UNCHANGED <<metadata, answer, acknowledged>>
    BY <1>4 DEF JobNext, FindConfigs, FindConfigsFails, PublishConfig, PublishConfigFails,
       RunAgain, vars, fetches
  <2> QED
    BY <1>2, <2>1
<1>5. CASE Move
  <2>1. acknowledged = [r \in Owned |-> None]
    BY DEF KInv, TypeOK
  <2>2. UNCHANGED <<metadata, answer, acknowledged>>
    BY <1>5, <2>1 DEF Move, SetBackend, fetches
  <2> QED
    BY <1>2, <2>2
<1>6. ASSUME NEW c \in Call, NEW r \in Ref \ Owned, Fetch(c, r)
      PROVE  Store!StoreNext
  BY <1>6, FetchIsAsked
<1>7. ASSUME NEW c \in Call, DigestMatches(c) \/ Pull(c) \/ PullFails(c)
      PROVE  Store!StoreNext
  BY <1>7, FetchIsAnswered
<1>8. ASSUME NEW c \in Call, DigestDiffers(c) PROVE Store!StoreNext
  BY <1>2, <1>8 DEF DigestDiffers
<1>9. CASE Restart
  <2>1. Remote' = Remote
    BY <1>9 DEF Restart, Remote
  <2> QED
    BY <1>9, <2>1 DEF Restart, NoFetch, Store!Reset
<1> QED
  BY <1>1, <1>3, <1>4, <1>5, <1>6, <1>7, <1>8, <1>9 DEF KNext, ClientNext

\* A client that fetches what kpctl and others publish, and is moved from one
\* backend to another, still implements the store without a cache.  (It does not
\* once it publishes, see CachedBackendMoved.cfg, nor with manifests of a version,
\* which it takes from the cache without asking the new backend.)
THEOREM KpctlIsAStore ==
  ASSUME Owned = {}, Immutable = {}
  PROVE  KSpec => IsAStore
<1>1. KInit => Store!StoreInit
  BY DEF KInit, Init, Store!StoreInit, Remote, Tags
<1>2. KInv /\ KInv' /\ [KNext]_kvars => [Store!StoreNext]_(Store!storeVars)
  BY StepIsAStores
<1> QED
  BY <1>1, <1>2, KpctlInvariant, PTL DEF KSpec, IsAStore, Store!StoreSpec

=============================================================================
