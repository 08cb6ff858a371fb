------------------------------ MODULE Monitor ------------------------------
(***************************************************************************)
(* The accessibility monitor: workers and re-testers share the storage and *)
(* the broker, the front end adds URLs, and time passes.                   *)
(***************************************************************************)
EXTENDS Worker, ReTester, Frontend

vars == <<brokerVars, storageVars, workerVars, reTesterVars, stage, faults>>

TypeOK ==
  /\ BrokerTypeOK
  /\ StorageTypeOK
  /\ FailuresTypeOK
  /\ WorkerTypeOK
  /\ ReTesterTypeOK
  /\ FrontendTypeOK

Init ==
  /\ BrokerInit
  /\ StorageInit
  /\ FailuresInit
  /\ WorkerInit
  /\ ReTesterInit
  /\ FrontendInit

(* One second, say. *)
Tick ==
  /\ Age
  /\ WorkerAge
  /\ UNCHANGED <<brokerVars, status, failed, result, indexed, rows, pc, names, queue, message, copy,
                 reTesterVars, stage, faults>>

Work(w) ==
  /\ Start(w) \/ WorkerStep(w) \/ WorkerFailure(w)
  /\ UNCHANGED <<reTesterVars, stage>>

Retest(r) ==
  /\ ReTesterStep(r) \/ ReTesterFailure(r)
  /\ UNCHANGED <<workerVars, stage>>

Front(u) == Submit(u) /\ UNCHANGED <<workerVars, reTesterVars>>

Next ==
  \/ \E w \in Workers : Work(w)
  \/ \E r \in ReTesters : Retest(r)
  \/ \E u \in Late : Front(u)
  \/ Tick

Spec == Init /\ [][Next]_vars

(***************************************************************************)
(* Fairness: the operating system schedules every running process, the     *)
(* daemon (scripts/accessibilitymonitor.conf) starts workers and           *)
(* re-testers again and again, and the clock does not stop.  Nothing is    *)
(* assumed about the outcomes of tests or about failures.                  *)
(***************************************************************************)
Fairness ==
  /\ \A w \in Workers : WF_vars((Start(w) \/ WorkerStep(w)) /\ UNCHANGED <<reTesterVars, stage>>)
  /\ \A r \in ReTesters : WF_vars(ReTesterStep(r) /\ UNCHANGED <<workerVars, stage>>)
  /\ WF_vars(Tick)

FairSpec == Spec /\ Fairness

-----------------------------------------------------------------------------
(* Who is responsible for a scheduled URL.                                 *)

(* Worker w has the message and has not yet stored an outcome. *)
Holds(w) == pc[w] \in {"register", "load", "test", "republish"}

(* Re-tester r has set the status and has not yet published. *)
HasInHand(r) == rpc[r] \in {"result", "declare", "publish"}

Carried(u) ==
  \/ ready[u] > 0
  \/ \E w \in Workers : Holds(w) /\ message[w] = u
  \/ \E r \in ReTesters : HasInHand(r) /\ hand[r].url = u
  \/ stage[u] \in {"declare", "publish"}

Settled(u) == status[u] \in {"tested", "error"}

-----------------------------------------------------------------------------
(* Safety *)

(* A URL that is to be tested now has a message or a process that will     *)
(* publish or test it: no interleaving of workers, re-tester and queue     *)
(* deletion leaves a URL scheduled that nobody will ever pick up.          *)
NoUrlStranded == \A u \in Urls : status[u] = "scheduled" => Carried(u)

(* A URL is never with two of them: no URL is tested twice at a time.      *)
NoDuplicateWork ==
  /\ \A u \in Urls :
       /\ ready[u] <= 1
       /\ \A w \in Workers : Holds(w) /\ message[w] = u => ready[u] = 0
       /\ \A r \in ReTesters : HasInHand(r) /\ hand[r].url = u =>
            /\ ready[u] = 0
            /\ \A w \in Workers : ~(Holds(w) /\ message[w] = u)
  /\ \A v, w \in Workers : v # w /\ Holds(v) /\ Holds(w) => message[v] # message[w]

(* The cleanup of table queue never removes the row of a queue whose URLs  *)
(* must still be tested: without the row no worker finds them.             *)
NoOrphanedQueue ==
  \A u \in Urls : status[u] \in {"scheduled", "scheduledForRetest"} => QueueOf[u] \in rows

(* No URL fails more test runs than configured, and it is dismissed when   *)
(* it reaches the maximum, not before.                                     *)
FailureBudget ==
  \A u \in Urls :
    /\ failed[u] <= MaxFailedTestRuns
    /\ status[u] = "error" <=> failed[u] = MaxFailedTestRuns

(* Once nobody works on a tested URL any more, its result is stored and    *)
(* the cases that were found are in Solr.                                  *)
TestedIsPublished ==
  \A u \in Urls :
    status[u] = "tested" /\ ready[u] = 0 /\ (\A w \in Workers : message[w] # u) =>
      /\ result[u] # "none"
      /\ result[u] = "cases" => indexed[u]

(* A worker whose queue is gone when it asks for a message - another one   *)
(* has deleted it since it was declared - ends with an exception nobody    *)
(* catches, but leaves nothing behind: of the URLs of that queue, none is  *)
(* waiting for a test or a re-test (Worker.php:117-118, Storage.php:495).  *)
GetFailsForDoneQueuesOnly ==
  \A w \in Workers : At(w, "get") /\ queue[w] \notin declared =>
    \A u \in Urls : QueueOf[u] = queue[w] => status[u] \notin {"scheduled", "scheduledForRetest"}

-----------------------------------------------------------------------------
(* What a step may never do *)

(* The deletion of an empty queue never throws away the message of a URL:  *)
(* a message leaves its queue only for a worker.                           *)
NoMessageDiscarded ==
  [][\A u \in Known : ready'[u] < ready[u] =>
       \E w \in Workers : message[w] = NoMessage /\ message'[w] = u]_vars

(* The processing of two messages of a queue starts more than              *)
(* FloodingThreshold apart.                                                *)
FloodingRespected ==
  [][\A w \in Workers : At(w, "register") /\ pc'[w] \in {"load", "ack"} =>
       idle[queue[w]] > FloodingThreshold]_vars

(* A test run of a URL that failed before is stored at least               *)
(* RetestThreshold after the run that failed.                              *)
RetestSpacing ==
  [][\A w \in Workers : At(w, "test") /\ pc'[w] = "result" /\ failed[message[w]] > 0 =>
       sinceTested[message[w]] = RetestThreshold]_vars

(* A URL is handed back to the workers only if its last test run lies at   *)
(* least RetestThreshold back at that moment.                              *)
RetestsAreNotTooFrequent ==
  [][\A r \in ReTesters : rpc[r] = "save" /\ rpc'[r] = "result" =>
       sinceTested[hand'[r].url] = RetestThreshold]_vars

(* "Tested" means that this run tested the URL (TesterInterface::run): it  *)
(* never rests on a Quail result that an earlier run left in the storage.  *)
(* A result with cases gives the stale one away, as its cases are not in   *)
(* the object.                                                             *)
TestedByThisRun ==
  [][\A w \in Workers :
       At(w, "test") /\ pc'[w] = "result" /\ copy'[w].status = "tested"
                     /\ copy'[w].result = "cases" => copy'[w].hasCases]_vars

-----------------------------------------------------------------------------
(* Liveness *)

(* Every URL is tested or dismissed in the end, and stays so. *)
EveryUrlSettles == \A u \in Known : <>[]Settled(u)

(* A URL that failed a test run is tested again: it succeeds or fails once *)
(* more.                                                                   *)
FailedUrlsAreRetested ==
  \A u \in Known : \A n \in 1 .. MaxFailedTestRuns :
    (status[u] = "scheduledForRetest" /\ failed[u] = n) ~> (Settled(u) \/ failed[u] > n)

(* A URL whose own message is never lost settles, whatever happens to the  *)
(* URLs of other queues.                                                   *)
KeptUrlsSettle ==
  \A u \in Known : [](status[u] = "scheduled" => Carried(u)) => <>[]Settled(u)

(* The abstract life cycle, for which the state of table url is the state. *)
Lifecycle == INSTANCE UrlLifecycle WITH status <- status, failed <- failed
ImplementsLifecycle == Lifecycle!LifecycleSpec
ImplementsFairLifecycle == Lifecycle!LifecycleFairSpec

=============================================================================
