-------------------------------- MODULE Kpctl --------------------------------
(***************************************************************************)
(* PublishConfigs (cmd/kpctl/cmd/publish.go): jobs that publish the        *)
(* configurations of their repositories, while the PropagationClient of    *)
(* CachedBackend fetches the configuration of its backend, the statuses of *)
(* other deployments, and may be given another backend.  A job goes        *)
(* through its files in order and ends at the first error.  Every file has *)
(* a client of its own, with caches that nothing is found in.              *)
(***************************************************************************)
EXTENDS CachedBackend, Naturals

CONSTANTS
  Job,      \* runs of the command
  Repo      \* the files under .kuberik of each job's repository, in the order
            \* of filepath.Walk; one that cannot be read or parsed counts as
            \* one whose backend is not supported

File == [backend : BaseUrl, config : Value]

ASSUME RepoAssumption == Repo \in [Job -> Seq(File)]
ASSUME ConfigurationAssumption == Configuration \in Ref \ Owned

VARIABLES
  pending,   \* the files that a job has not published yet
  outcome,   \* new, running, ok or failed
  alone      \* history: no other job has pushed since this one was started

jobs == <<pending, outcome, alone>>
kvars == <<vars, jobs>>

JobsOK ==
  /\ pending \in [Job -> Seq(File)]
  /\ \A j \in Job :
       \E n \in 0..Len(Repo[j]) : pending[j] = SubSeq(Repo[j], n + 1, Len(Repo[j]))
  /\ outcome \in [Job -> {"new", "running", "ok", "failed"}]
  /\ \A j \in Job : outcome[j] = "running" => pending[j] # <<>>
  /\ alone \in [Job -> BOOLEAN]

KInit ==
  /\ Init
  /\ pending = [j \in Job |-> Repo[j]]
  /\ outcome = [j \in Job |-> "new"]
  /\ alone = [j \in Job |-> TRUE]

-----------------------------------------------------------------------------

\* findConfigs; without files there is nothing to do.
FindConfigs(j) ==
  /\ outcome[j] = "new"
  /\ outcome' = [outcome EXCEPT ![j] = IF Repo[j] = <<>> THEN "ok" ELSE "running"]
  /\ alone' = [alone EXCEPT ![j] = TRUE]
  /\ UNCHANGED <<vars, pending>>

\* There is no repository, or no .kuberik directory in it.
FindConfigsFails(j) ==
  /\ outcome[j] = "new"
  /\ outcome' = [outcome EXCEPT ![j] = "failed"]
  /\ UNCHANGED <<vars, pending, alone>>

Disturbs(j) == alone' = [i \in Job |-> alone[i] /\ i = j]

NextFile_FaultyOneMore(j) ==
  /\ pending' = [pending EXCEPT ![j] = Tail(@)]
  /\ outcome' = [outcome EXCEPT ![j] = IF pending[j] = <<>> THEN "ok" ELSE "running"]

\* On to the next file, or the end.
NextFile(j) ==
  /\ pending' = [pending EXCEPT ![j] = Tail(@)]
  /\ outcome' = [outcome EXCEPT ![j] = IF Len(pending[j]) = 1 THEN "ok" ELSE "running"]

\* One client for all files: its publishCache does not know the backend.
PublishConfig_FaultySharedClient(j) ==
  /\ outcome[j] = "running"
  /\ LET f == Head(pending[j])
         published == SubSeq(Repo[j], 1, Len(Repo[j]) - Len(pending[j]))
     IN  /\ Supported(f.backend)
         /\ IF published # <<>> /\ published[Len(published)].config = f.config
            THEN UNCHANGED <<registry, alone>>
            ELSE Pushed(f.backend, Configuration, f.config) /\ Disturbs(j)
  /\ NextFile(j)
  /\ UNCHANGED <<baseUrl, caches, fetches, acknowledged>>

\* publishConfig: the file names the backend that its configuration goes to.
PublishConfig(j) ==
  /\ outcome[j] = "running"
  /\ LET f == Head(pending[j])
     IN  /\ Supported(f.backend)
         /\ Pushed(f.backend, Configuration, f.config)
  /\ Disturbs(j)
  /\ NextFile(j)
  /\ UNCHANGED <<baseUrl, caches, fetches, acknowledged>>

\* The file is not valid or its backend not supported, or the push fails, with
\* or without effect.  The files that are left are not looked at.
PublishConfigFails(j, how) ==
  /\ outcome[j] = "running"
  /\ LET f == Head(pending[j])
     IN  /\ how \in {"invalid"} \cup FailedPush
         /\ how = "invalid" <=> ~Supported(f.backend)
         /\ IF how = "unacknowledged"
            THEN Pushed(f.backend, Configuration, f.config) /\ Disturbs(j)
            ELSE UNCHANGED <<registry, alone>>
  /\ outcome' = [outcome EXCEPT ![j] = "failed"]
  /\ UNCHANGED <<pending, baseUrl, caches, fetches, acknowledged>>

\* The command is run again.
RunAgain(j) ==
  /\ outcome[j] = "failed"
  /\ outcome' = [outcome EXCEPT ![j] = "new"]
  /\ pending' = [pending EXCEPT ![j] = Repo[j]]
  /\ UNCHANGED <<vars, alone>>

JobNext ==
  \E j \in Job :
    \/ FindConfigs(j) \/ FindConfigsFails(j) \/ PublishConfig(j) \/ RunAgain(j)
    \/ \E how \in {"invalid"} \cup FailedPush : PublishConfigFails(j, how)

\* Nobody else publishes configurations.
KNext ==
  \/ ClientNext /\ UNCHANGED jobs
  \/ Move /\ UNCHANGED jobs
  \/ /\ \E b \in Registry, r \in Ref \ {Configuration}, v \in Value : PushByOthers(b, r, v)
     /\ UNCHANGED jobs
  \/ JobNext

KSpec == KInit /\ [][KNext]_kvars

-----------------------------------------------------------------------------
(***************************************************************************)
(* Properties.                                                             *)
(***************************************************************************)

\* The n-th file of a repository is the last one for its backend.
LastForBackend(j, n) ==
  \A m \in n+1..Len(Repo[j]) : Repo[j][m].backend # Repo[j][n].backend

\* A command that reports success, and was not crossed by another one, has left
\* in every backend that its repository names the configuration of the last file
\* for it: nothing was skipped, lost or overwritten by an earlier file, however
\* many runs failed half way before.
SuccessIsServed ==
  \A j \in Job : \A n \in 1..Len(Repo[j]) :
    outcome[j] = "ok" /\ alone[j] /\ LastForBackend(j, n) =>
      LET f == Repo[j][n]
      IN  f.backend \in Registry /\ registry[f.backend][Tag(Configuration)] = f.config

\* No backend serves the configuration of a file that names another one, and a
\* Propagation that is moved to another backend never goes on with what it has
\* cached from the old one: what a fetch returns was published for the backend
\* in use.
OwnConfiguration ==
  [][\A c \in Call :
       metadata[c] = Configuration /\ metadata'[c] = None /\ answer'[c] \in Value =>
         \E j \in Job : \E n \in 1..Len(Repo[j]) :
           Repo[j][n].backend = baseUrl /\ Repo[j][n].config = answer'[c]]_kvars

=============================================================================
