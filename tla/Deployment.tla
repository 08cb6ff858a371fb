----------------------------- MODULE Deployment -----------------------------
(***************************************************************************)
(* What a deployment of the accessibility monitor fixes: the URLs under    *)
(* test and their queues, the processes, and the configured thresholds     *)
(* (application/container.yml).  Every other module extends this one.      *)
(*                                                                         *)
(* Durations count clock ticks; the real values are seconds.               *)
(***************************************************************************)
EXTENDS Naturals, FiniteSets

CONSTANTS
  Urls,          \* URL ids that occur in queue messages
  Ghosts,        \* ids without a row in the url table (their site was removed)
  Late,          \* URLs the front end adds while workers are running
  RootUrls,      \* URLs with is_root set
  Malformed,     \* messages that do not satisfy queue_message_schema.json
  Queues,        \* queue names
  QueueOf,       \* the queue of a URL (url.queue_name) or of a malformed message
  Rank,          \* position of a queue in the order (priority, created)
  Workers,       \* worker processes the daemon may have running at a time
  ReTesters,     \* re-tester processes that may overlap
  NoMessage,     \* "no message"
  NoQueue        \* "no queue"

CONSTANTS
  FloodingThreshold,  \* testing.flooding_threshold
  RowExpiry,          \* the 300 seconds of Storage::deleteEmptyQueues
  RetestThreshold,    \* testing.retest_threshold
  MaxFailedTestRuns,  \* testing.max_failed_test_runs
  WorkerTtl           \* worker.ttl

(* What may go wrong in a run of the deployment, and how often. *)
CONSTANTS Faults, MaxFaults

FaultKinds == {"storage",        \* the first statement of a save fails
               "result",         \* UPDATE url_result fails
               "solr",           \* Solr does not take the documents
               "read",           \* a SELECT fails
               "workerCrash",    \* a worker process dies
               "reTesterCrash"}  \* a re-tester process dies

Messages == Urls \cup Malformed

(* URLs that have a row in the url table from the start. *)
Known == Urls \ (Ghosts \cup Late)

ASSUME PopulationAssumption ==
  /\ Ghosts \subseteq Urls
  /\ Late \subseteq Urls
  /\ Ghosts \cap Late = {}
  /\ RootUrls \subseteq Urls
  /\ Malformed \cap Urls = {}
  /\ NoMessage \notin Messages
  /\ NoQueue \notin Queues
  /\ QueueOf \in [Messages -> Queues]
  /\ Rank \in [Queues -> Nat]

ASSUME SettingsAssumption ==
  /\ FloodingThreshold \in Nat
  /\ RowExpiry \in Nat
  /\ RetestThreshold \in Nat
  /\ MaxFailedTestRuns \in Nat \ {0}
  /\ WorkerTtl \in Nat \ {0}

ASSUME FaultsAssumption ==
  /\ Faults \subseteq FaultKinds
  /\ MaxFaults \in Nat

=============================================================================
