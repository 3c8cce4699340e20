------------------------------- MODULE Backend -------------------------------
(***************************************************************************)
(* What a reconciler may expect of its PropagationClient, whatever is      *)
(* cached: a store of artifacts.  A fetch answers with what the store held *)
(* at some moment between the call and the return; a publish that returns  *)
(* no error has replaced the artifact.                                     *)
(***************************************************************************)
CONSTANTS
  Ref,        \* what an ArtifactMetadata denotes
  Owned,      \* the refs that this client publishes, and nobody else
  Immutable,  \* the refs of manifests with a version: written once, by CI
  Value,      \* artifacts
  Call,       \* the goroutines that fetch
  None,       \* no artifact; no answer yet
  Error       \* the answer of a fetch that failed: no artifact, and not None

VARIABLES
  store,         \* the artifact under each ref
  waiting,       \* the ref each call is fetching
  answer,        \* what the last fetch of each call returned
  acknowledged   \* the artifact of the last publish, if it returned no error

storeVars == <<store, waiting, answer, acknowledged>>

StoreInit ==
  /\ store = [r \in Ref |-> None]
  /\ waiting = [c \in Call |-> None]
  /\ answer = [c \in Call |-> None]
  /\ acknowledged = [r \in Owned |-> None]

\* Others replace artifacts, or another store takes the place of this one.
Replace ==
  /\ store' \in [Ref -> Value \cup {None}]
  /\ \A r \in Ref :
       store'[r] # store[r] => r \notin Owned /\ (r \in Immutable => store[r] = None)
  /\ UNCHANGED <<waiting, answer, acknowledged>>

Ask(c, r) ==
  /\ waiting[c] = None
  /\ waiting' = [waiting EXCEPT ![c] = r]
  /\ answer' = [answer EXCEPT ![c] = None]
  /\ UNCHANGED <<store, acknowledged>>

Answer(c) ==
  /\ waiting[c] # None
  /\ store[waiting[c]] # None
  /\ answer' = [answer EXCEPT ![c] = store[waiting[c]]]
  /\ waiting' = [waiting EXCEPT ![c] = None]
  /\ UNCHANGED <<store, acknowledged>>

AnswerAtOnce(c, r) ==
  /\ waiting[c] = None
  /\ store[r] # None
  /\ answer' = [answer EXCEPT ![c] = store[r]]
  /\ UNCHANGED <<store, waiting, acknowledged>>

Fail(c) ==
  /\ waiting[c] # None
  /\ answer' = [answer EXCEPT ![c] = Error]
  /\ waiting' = [waiting EXCEPT ![c] = None]
  /\ UNCHANGED <<store, acknowledged>>

Put(r, v) ==
  /\ store' = [store EXCEPT ![r] = v]
  /\ acknowledged' = [acknowledged EXCEPT ![r] = v]
  /\ UNCHANGED <<waiting, answer>>

\* A publish that returns an error may or may not have replaced the artifact.
PutFails(r, v) ==
  /\ store' \in {store, [store EXCEPT ![r] = v]}
  /\ acknowledged' = [acknowledged EXCEPT ![r] = None]
  /\ UNCHANGED <<waiting, answer>>

\* The process restarts: its calls are gone.
Reset ==
  /\ waiting' = [c \in Call |-> None]
  /\ answer' = [c \in Call |-> None]
  /\ UNCHANGED <<store, acknowledged>>

StoreNext ==
  \/ Replace
  \/ \E c \in Call, r \in Ref \ Owned : Ask(c, r) \/ AnswerAtOnce(c, r)
  \/ \E c \in Call : Answer(c) \/ Fail(c)
  \/ \E r \in Owned, v \in Value : Put(r, v) \/ PutFails(r, v)
  \/ Reset

StoreSpec == StoreInit /\ [][StoreNext]_storeVars

=============================================================================
