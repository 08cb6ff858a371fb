--------------------------- MODULE MonitorProofs ----------------------------
(***************************************************************************)
(* What a test run can do, and the type correctness of the monitor, for    *)
(* every deployment and all kinds of failures; CalmInv, which holds in a   *)
(* calm deployment, and with it the promises of the monitor: invariants,   *)
(* what a step may never do, the life cycle of a URL and the owner of each  *)
(* scheduled one; what a single worker can rely on; and what becomes of the *)
(* result of a test run.                                                   *)
(***************************************************************************)
EXTENDS MonitorInvariant, TLAPS

-----------------------------------------------------------------------------
(* What a test run can do to a Url object, whatever the web page and the   *)
(* external programs do.                                                   *)

(* A Quail run keeps the status and the failed test count, finds cases     *)
(* only in this run or in the object it was given, and counts as done only *)
(* with a result; otherwise the object keeps its result or loses it.       *)
LEMMA QuailRunSound ==
  ASSUME NEW url \in UrlObjects, NEW output \in QuailOutputs
  PROVE  /\ QuailRun(url, output).url \in UrlObjects
         /\ QuailRun(url, output).url.failed = url.failed
         /\ QuailRun(url, output).url.result = "cases" =>
              QuailRun(url, output).url.hasCases \/ url.result = "cases"
         /\ QuailRun(url, output).outcome \in BOOLEAN
         /\ IF QuailRun(url, output).outcome THEN QuailRun(url, output).url.result # "none"
            ELSE QuailRun(url, output).url.result \in {"none", url.result}
<1>1. CASE output \in {"cases", "clean", "empty"}
  BY <1>1 DEF UrlObjects, QuailRun, ProcessQuailResult, Results, Url
<1>2. CASE output \in {"garbage", "timeout"}
  <2>1. ProcessQuailResult(url, output) = url
    BY <1>2 DEF ProcessQuailResult
  <2>. QED
    BY <1>2, <2>1 DEF UrlObjects, QuailRun, Results
<1>. QED
  BY <1>1, <1>2 DEF QuailOutputs

(* A test run ends with "tested" and an unchanged count, or with one more  *)
(* failed test run and the status that goes with the count.                *)
THEOREM TestRunsSound ==
  ASSUME NEW url \in UrlObjects, NEW isRoot \in BOOLEAN,
         NEW tested \in TestRuns(url, isRoot)
  PROVE  /\ tested \in UrlObjects
         /\ \/ /\ tested.status = "tested"
               /\ tested.failed = url.failed
               /\ tested.result # "none"
            \/ /\ tested.status = "error"
               /\ tested.failed = url.failed + 1
               /\ tested.failed >= MaxFailedTestRuns
            \/ /\ tested.status = "scheduledForRetest"
               /\ tested.failed = url.failed + 1
               /\ tested.failed < MaxFailedTestRuns
         /\ tested.status # "tested" => tested.result \in {"none", url.result}
         /\ tested.result = "cases" => tested.hasCases \/ url.result = "cases"
<1>1. PICK run \in GroupedRuns(url, isRoot) : tested = StorageBased(run)
  BY DEF TestRuns
<1>2. /\ run.url \in UrlObjects
      /\ run.url.failed = url.failed
      /\ run.url.result = "cases" => run.url.hasCases \/ url.result = "cases"
      /\ run.outcome \in BOOLEAN
      /\ IF run.outcome THEN run.url.result # "none" ELSE run.url.result \in {"none", url.result}
  <2>1. CASE \E output \in QuailOutputs : run = QuailRun(url, output)
    BY <2>1, QuailRunSound
  <2>2. CASE run = [url |-> url, outcome |-> FALSE]
    BY <2>2
  <2>. QED
    BY <2>1, <2>2 DEF GroupedRuns
<1>3. CASE run.outcome
  BY <1>1, <1>2, <1>3 DEF StorageBased, Url, UrlObjects, Statuses
<1>4. CASE ~run.outcome
  BY <1>1, <1>2, <1>4, SettingsAssumption DEF StorageBased, Url, UrlObjects, Statuses
<1>. QED
  BY <1>2, <1>3, <1>4

-----------------------------------------------------------------------------
USE PopulationAssumption, SettingsAssumption, FaultsAssumption
USE DEF Messages, TypeOK, BrokerTypeOK, StorageTypeOK, FailuresTypeOK, WorkerTypeOK,
        ReTesterTypeOK, FrontendTypeOK, At, Goto, Proceed, Strikes, Places, Processing

(* The initial values have their types. *)
LEMMA InitTypeOK == Init => TypeOK
  BY DEF Init, BrokerInit, StorageInit, FailuresInit, WorkerInit, ReTesterInit,
         FrontendInit, Known, Statuses, Results, NotProcessed, Never,
         IdleCap, NoUrl, Url, UrlObjects, NoHand, LoadedUrls

(* The end of a connection gives back at most one message. *)
LEMMA DisconnectType ==
  ASSUME BrokerTypeOK, NEW w \in Workers, Disconnect(w)
  PROVE  ready' \in [Messages -> Nat] /\ unacked' \in [Workers -> Messages \cup {NoMessage}]
  BY DEF Disconnect

(* The end of a worker process keeps the types. *)
LEMMA ExitType ==
  ASSUME TypeOK, NEW w \in Workers, Exit(w),
         UNCHANGED <<declared, storageVars, reTesterVars, stage>>,
         faults' \in 0 .. MaxFaults
  PROVE  TypeOK'
<1>1. BrokerTypeOK'
  BY DisconnectType DEF Exit
<1>2. WorkerTypeOK'
  BY DEF Exit, NoUrl, Url, UrlObjects, Statuses, Results
<1>. QED
  BY <1>1, <1>2 DEF storageVars, reTesterVars

(* Every step of a worker keeps the types. *)
LEMMA WorkType ==
  ASSUME TypeOK, NEW w \in Workers, Work(w)
  PROVE  TypeOK'
<1>. USE DEF brokerVars, storageVars, reTesterVars, urlVars, queueVars
<1>0. UNCHANGED <<reTesterVars, stage>>
  BY DEF Work
<1>1. CASE Start(w)
  BY <1>0, <1>1 DEF Start
<1>2. CASE Shutdown(w)
  BY <1>0, <1>2, ExitType DEF Shutdown
<1>3. CASE SelectActive(w)
  BY <1>0, <1>3 DEF SelectActive, ActiveQueues
<1>4. CASE SelectInactive(w)
  BY <1>0, <1>4 DEF SelectInactive
<1>5. CASE PurgeQueue(w)
  BY <1>0, <1>5 DEF PurgeQueue, DeleteQueue
<1>6. CASE PurgeRow(w)
  BY <1>0, <1>6 DEF PurgeRow, DeleteRow, Never, IdleCap
<1>7. CASE SelectScheduled(w)
  BY <1>0, <1>7 DEF SelectScheduled, ScheduledQueues
<1>8. CASE SelectQueue(w)
  BY <1>0, <1>8 DEF SelectQueue, Candidates
<1>9. CASE DeclareQueue(w)
  BY <1>0, <1>9 DEF DeclareQueue, Declare
<1>10. CASE GetMessage(w)
  BY <1>0, <1>10 DEF GetMessage, In, Deliver
<1>11. CASE GetNothing(w)
  BY <1>0, <1>11 DEF GetNothing
<1>12. CASE GetFails(w)
  BY <1>0, <1>12, ExitType DEF GetFails
<1>13. CASE RegisterRun(w)
  BY <1>0, <1>13 DEF RegisterRun, Touch, Never, IdleCap
<1>14. CASE RegisterFails(w)
  BY <1>0, <1>14 DEF RegisterFails
<1>15. CASE LoadUrl(w)
  <2>1. message[w] \in Urls
    BY <1>15 DEF LoadUrl
  <2>2. Load(message[w]) \in UrlObjects
    BY <2>1 DEF Load, Url, UrlObjects
  <2>. QED
    BY <1>0, <1>15, <2>1, <2>2 DEF LoadUrl
<1>16. CASE LoadFails(w)
  BY <1>0, <1>16 DEF LoadFails
<1>17. CASE TestUrl(w)
  <2>1. message[w] \in Urls /\ copy[w] \in UrlObjects /\ (message[w] \in RootUrls) \in BOOLEAN
    BY <1>17 DEF TestUrl
  <2>2. PICK url \in TestRuns(copy[w], message[w] \in RootUrls) :
          /\ UpdateUrl(message[w], url.status, url.failed, 0)
          /\ copy' = [copy EXCEPT ![w] = url]
    BY <1>17 DEF TestUrl
  <2>3. url \in UrlObjects
    BY <2>1, <2>2, TestRunsSound
  <2>. QED
    BY <1>0, <1>17, <2>1, <2>2, <2>3 DEF TestUrl, UpdateUrl, UrlObjects, NotProcessed
<1>18. CASE SaveResult(w)
  BY <1>0, <1>18 DEF SaveResult, UpdateResult, NoUrl, Url, UrlObjects, Statuses, Results
<1>19. CASE IndexCases(w)
  BY <1>0, <1>19 DEF IndexCases, SendCases, NoUrl, Url, UrlObjects, Statuses, Results
<1>20. CASE SaveUrlFails(w)
  <2>1. PICK kind \in FaultKinds : SaveFails(w, kind) /\ pc[w] \in {"test", "result", "solr"}
    BY <1>20 DEF SaveUrlFails, FaultKinds
  <2>. QED
    BY <1>0, <2>1 DEF SaveFails, NoUrl, Url, UrlObjects, Statuses, Results
<1>21. CASE Republish(w)
  BY <1>0, <1>21 DEF Republish, Publish
<1>22. CASE Ack(w)
  BY <1>0, <1>22 DEF Ack, Acknowledge
<1>23. CASE WorkerCrash(w)
  <2>1. Exit(w) /\ UNCHANGED <<declared, storageVars>>
    BY <1>23 DEF WorkerCrash
  <2>2. faults' \in 0 .. MaxFaults
    BY <1>23 DEF WorkerCrash
  <2>. QED
    BY <1>0, <2>1, <2>2, ExitType
<1>. QED
  BY <1>1, <1>2, <1>3, <1>4, <1>5, <1>6, <1>7, <1>8, <1>9, <1>10, <1>11, <1>12, <1>13,
     <1>14, <1>15, <1>16, <1>17, <1>18, <1>19, <1>20, <1>21, <1>22, <1>23
  DEF Work, WorkerStep, WorkerFailure

(* Every step of a re-tester keeps the types. *)
LEMMA RetestType ==
  ASSUME TypeOK, NEW r \in ReTesters, Retest(r)
  PROVE  TypeOK'
<1>. USE DEF brokerVars, storageVars, workerVars, urlVars, queueVars
<1>0. UNCHANGED <<workerVars, stage>>
  BY DEF Retest
<1>1. CASE Scan(r)
  <2>1. {Loaded(u) : u \in {v \in Urls : Due(v)}} \subseteq LoadedUrls
    BY DEF Loaded, LoadedUrls
  <2>. QED
    BY <1>0, <1>1, <2>1 DEF Scan
<1>2. CASE Reschedule(r)
  <2>1. PICK url \in todo[r] :
          /\ UpdateUrl(url.url, "scheduled", url.failed, url.age)
          /\ todo' = [todo EXCEPT ![r] = @ \ {url}]
          /\ hand' = [hand EXCEPT ![r] = url]
    BY <1>2 DEF Reschedule
  <2>2. /\ url \in LoadedUrls
        /\ url.url \in Urls /\ url.failed \in Nat /\ url.age \in 0 .. NotProcessed
    BY <2>1 DEF LoadedUrls
  <2>. QED
    BY <1>0, <1>2, <2>1, <2>2 DEF Reschedule, UpdateUrl, Statuses
<1>3. CASE KeepResult(r)
  <2>1. hand[r].url \in Urls /\ hand[r].result \in Results
    BY <1>3 DEF KeepResult, LoadedUrls
  <2>. QED
    BY <1>0, <1>3, <2>1 DEF KeepResult, UpdateResult
<1>4. CASE DeclareForRetest(r)
  <2>1. hand[r].url \in Urls
    BY <1>4 DEF DeclareForRetest, LoadedUrls
  <2>. QED
    BY <1>0, <1>4, <2>1 DEF DeclareForRetest, Declare
<1>5. CASE PublishForRetest(r)
  <2>1. hand[r].url \in Urls
    BY <1>5 DEF PublishForRetest, LoadedUrls
  <2>. QED
    BY <1>0, <1>5, <2>1 DEF PublishForRetest, Publish
<1>6. CASE ReTesterFailure(r)
  <2>1. faults' \in 0 .. MaxFaults
    BY <1>6 DEF ReTesterFailure, RescheduleFails, ReTesterCrash
  <2>2. Abort(r) /\ UNCHANGED <<brokerVars, storageVars>>
    BY <1>6 DEF ReTesterFailure, RescheduleFails, ReTesterCrash
  <2>. QED
    BY <1>0, <2>1, <2>2 DEF Abort
<1>. QED
  BY <1>1, <1>2, <1>3, <1>4, <1>5, <1>6 DEF Retest, ReTesterStep

(* Every step of the front end keeps the types. *)
LEMMA FrontType ==
  ASSUME TypeOK, NEW u \in Late, Front(u)
  PROVE  TypeOK'
<1>. USE DEF brokerVars, storageVars, workerVars, reTesterVars, urlVars, queueVars
<1>1. u \in Urls
  OBVIOUS
<1>2. stage' \in [Urls -> {"addQueue", "addUrl", "declare", "publish", "done"}]
  BY <1>1 DEF Front, Submit, AddQueue, AddUrl, DeclareForUrl, PublishUrl, Advance
<1>3. CASE AddQueue(u)
  BY <1>1, <1>2, <1>3 DEF Front, AddQueue
<1>4. CASE AddUrl(u)
  BY <1>1, <1>2, <1>4 DEF Front, AddUrl, Statuses
<1>5. CASE DeclareForUrl(u)
  BY <1>1, <1>2, <1>5 DEF Front, DeclareForUrl, Declare
<1>6. CASE PublishUrl(u)
  BY <1>1, <1>2, <1>6 DEF Front, PublishUrl, Publish
<1>. QED
  BY <1>3, <1>4, <1>5, <1>6 DEF Front, Submit

(* Ages and up-times stop growing at their limits. *)
LEMMA TickType == TypeOK /\ Tick => TypeOK'
<1>1. SUFFICES ASSUME TypeOK, Tick PROVE TypeOK'
  OBVIOUS
<1>2. sinceTested' \in [Urls -> 0 .. NotProcessed] /\ idle' \in [Queues -> 0 .. Never]
  BY <1>1 DEF Tick, Age, NotProcessed, Never, IdleCap
<1>3. uptime' \in [Workers -> 0 .. WorkerTtl]
  BY <1>1 DEF Tick, WorkerAge
<1>. QED
  BY <1>1, <1>2, <1>3 DEF Tick, brokerVars, reTesterVars

(* Every variable keeps its type.  For a worker and a re-tester this       *)
(* includes that what they hold fits the place they are at: no code        *)
(* handles a message, a queue or a URL it has not got.                     *)
THEOREM TypeCorrect == Spec => []TypeOK
<1>1. Init => TypeOK
  BY InitTypeOK
<1>2. TypeOK /\ [Next]_vars => TypeOK'
  <2>1. SUFFICES ASSUME TypeOK, [Next]_vars PROVE TypeOK'
    OBVIOUS
  <2>2. CASE Next
    BY <2>1, <2>2, WorkType, RetestType, FrontType, TickType DEF Next
  <2>3. CASE UNCHANGED vars
    BY <2>1, <2>3 DEF vars, brokerVars, storageVars, workerVars, reTesterVars
  <2>. QED
    BY <2>1, <2>2, <2>3
<1>. QED
  BY <1>1, <1>2, PTL DEF Spec

-----------------------------------------------------------------------------
(* The inductive invariant *)

HIDE DEF Messages, TypeOK, BrokerTypeOK, StorageTypeOK, FailuresTypeOK, WorkerTypeOK,
         ReTesterTypeOK, FrontendTypeOK, At, Goto, Proceed, Strikes, Places, Processing
USE DEF At, Goto, Proceed, Holds, HasInHand, Testable, Unsettled

(* A worker that does not hold a message after its step, and leaves the    *)
(* queues, the URLs and the other processes alone, disturbs nothing but    *)
(* what is said about the deletion of queues.                              *)
LEMMA Bystander ==
  ASSUME CalmInv, NEW w \in Workers,
         ~Holds(w)', unacked'[w] # NoMessage => pc'[w] \in {"result", "solr", "ack"},
         \A v \in Workers \ {w} :
           /\ pc'[v] = pc[v] /\ queue'[v] = queue[v] /\ message'[v] = message[v]
           /\ copy'[v] = copy[v] /\ unacked'[v] = unacked[v],
         declared \subseteq declared',
         UNCHANGED <<ready, status, failed, sinceTested, reTesterVars, stage>>
  PROVE  /\ UrlsAreFixed' /\ OneCopy' /\ MessagesAreCurrent' /\ ReTesterIsCurrent'
         /\ QueueIsThere' /\ DeliveriesHaveWorkers' /\ CountMatchesStatus' /\ RetestsAreSpaced'
<1>. USE DEF CalmInv, reTesterVars
<1>1. UrlsAreFixed' /\ CountMatchesStatus' /\ RetestsAreSpaced'
  BY DEF UrlsAreFixed, Exists, CountMatchesStatus, RetestsAreSpaced
<1>2. OneCopy'
  BY DEF OneCopy
<1>3. MessagesAreCurrent'
  BY DEF MessagesAreCurrent
<1>4. ReTesterIsCurrent'
  BY DEF ReTesterIsCurrent
<1>5. QueueIsThere'
  BY DEF QueueIsThere, Exists
<1>6. DeliveriesHaveWorkers'
  BY DEF DeliveriesHaveWorkers
<1>. QED
  BY <1>1, <1>2, <1>3, <1>4, <1>5, <1>6

(* What is said about the deletion of queues stays true when no URL        *)
(* becomes unsettled and the worker is not about to delete queues.         *)
LEMMA NotPurging ==
  ASSUME CalmInv, NEW w \in Workers,
         pc'[w] \notin {"inactive", "purge", "purgeRow"},
         \A v \in Workers \ {w} :
           pc'[v] = pc[v] /\ queue'[v] = queue[v] /\ names'[v] = names[v],
         \A u \in Urls : Unsettled(u)' => Unsettled(u)
  PROVE  PurgeIsSafe'
  BY DEF CalmInv, PurgeIsSafe

(* The step of a worker that is a bystander and leaves table queue alone.  *)
LEMMA QuietStep ==
  ASSUME CalmInv, NEW w \in Workers, TypeOK', PurgeIsSafe',
         ~Holds(w)', unacked'[w] # NoMessage => pc'[w] \in {"result", "solr", "ack"},
         \A v \in Workers \ {w} :
           /\ pc'[v] = pc[v] /\ queue'[v] = queue[v] /\ message'[v] = message[v]
           /\ copy'[v] = copy[v] /\ unacked'[v] = unacked[v],
         declared \subseteq declared',
         UNCHANGED <<ready, status, failed, sinceTested, rows, reTesterVars, stage>>
  PROVE  CalmInv'
<1>1. NoOrphanedQueue'
  BY DEF CalmInv, NoOrphanedQueue
<1>. QED
  BY <1>1, Bystander DEF CalmInv

(* The end of a process that has nothing to give back. *)
LEMMA ExitInv ==
  ASSUME CalmInv, NEW w \in Workers, TypeOK', Exit(w), unacked[w] = NoMessage,
         UNCHANGED <<declared, storageVars, reTesterVars, stage>>
  PROVE  CalmInv'
<1>. USE DEF TypeOK, WorkerTypeOK, BrokerTypeOK, storageVars
<1>1. ready' = ready /\ unacked'[w] = NoMessage /\ pc'[w] = "down"
  BY DEF Exit, Disconnect, CalmInv
<1>2. \A v \in Workers \ {w} :
        /\ pc'[v] = pc[v] /\ queue'[v] = queue[v] /\ message'[v] = message[v]
        /\ copy'[v] = copy[v] /\ unacked'[v] = unacked[v] /\ names'[v] = names[v]
  BY DEF Exit, Disconnect, CalmInv
<1>3. PurgeIsSafe'
  BY <1>1, <1>2, NotPurging
<1>. QED
  BY <1>1, <1>2, <1>3, QuietStep

(* The deletion of queues. *)
LEMMA PurgeInv ==
  ASSUME CalmInv, NEW w \in Workers, TypeOK', UNCHANGED <<reTesterVars, stage>>,
         SelectActive(w) \/ SelectInactive(w) \/ PurgeQueue(w) \/ PurgeRow(w)
  PROVE  CalmInv'
<1>. USE DEF TypeOK, WorkerTypeOK, BrokerTypeOK, storageVars, brokerVars, queueVars, urlVars, reTesterVars
<1>1. CASE SelectActive(w)
  <2>1. PurgeIsSafe'
    BY <1>1 DEF SelectActive, ActiveQueues, CalmInv, PurgeIsSafe
  <2>. QED
    BY <1>1, <2>1, QuietStep DEF SelectActive, CalmInv, DeliveriesHaveWorkers
<1>2. CASE SelectInactive(w)
  <2>1. PurgeIsSafe'
    BY <1>2 DEF SelectInactive, CalmInv, PurgeIsSafe
  <2>. QED
    BY <1>2, <2>1, QuietStep DEF SelectInactive, CalmInv, DeliveriesHaveWorkers
<1>3. CASE PurgeQueue(w)
  <2>1. PICK q \in names[w] :
          DeleteQueue(q) /\ queue' = [queue EXCEPT ![w] = q]
    BY <1>3 DEF PurgeQueue
  <2>2. \A u \in Urls : QueueOf[u] = q => ~Unsettled(u)
    BY <1>3, <2>1 DEF PurgeQueue, CalmInv, PurgeIsSafe
  <2>3. /\ \A m \in Messages : ready'[m] = IF QueueOf[m] = q THEN 0 ELSE ready[m]
        /\ declared' = declared \ {q}
        /\ \A v \in Workers : unacked'[v] \in {unacked[v], NoMessage}
    BY <2>1 DEF DeleteQueue, In, CalmInv
  <2>4. UrlsAreFixed' /\ CountMatchesStatus' /\ RetestsAreSpaced' /\ NoOrphanedQueue'
    BY <1>3 DEF PurgeQueue, CalmInv, UrlsAreFixed, Exists, CountMatchesStatus, RetestsAreSpaced, NoOrphanedQueue
  <2>5. OneCopy'
    BY <1>3, <2>1, <2>3 DEF PurgeQueue, CalmInv, OneCopy
  <2>6. MessagesAreCurrent'
    BY <1>3, <2>3 DEF PurgeQueue, CalmInv, MessagesAreCurrent, Messages
  <2>7. ReTesterIsCurrent'
    BY <1>3, <2>3 DEF PurgeQueue, CalmInv, ReTesterIsCurrent, ReTesterTypeOK, LoadedUrls, Messages
  <2>8. PurgeIsSafe'
    BY <1>3, <2>1 DEF PurgeQueue, CalmInv, PurgeIsSafe
  <2>9. QueueIsThere'
    BY <1>3, <2>1, <2>2, <2>3
    DEF PurgeQueue, CalmInv, QueueIsThere, MessagesAreCurrent, ReTesterIsCurrent, Exists,
        ReTesterTypeOK, LoadedUrls
  <2>10. DeliveriesHaveWorkers'
    BY <1>3, <2>3 DEF PurgeQueue, CalmInv, DeliveriesHaveWorkers
  <2>. QED
    BY <2>4, <2>5, <2>6, <2>7, <2>8, <2>9, <2>10 DEF CalmInv
<1>4. CASE PurgeRow(w)
  <2>1. PurgeIsSafe'
    BY <1>4 DEF PurgeRow, CalmInv, PurgeIsSafe
  <2>2. NoOrphanedQueue'
    BY <1>4 DEF PurgeRow, DeleteRow, CalmInv, PurgeIsSafe, NoOrphanedQueue
  <2>. QED
    BY <1>4, <2>1, <2>2, Bystander DEF PurgeRow, CalmInv, DeliveriesHaveWorkers
<1>. QED
  BY <1>1, <1>2, <1>3, <1>4

(* The look for a queue with URLs to be tested, and the ends of the        *)
(* process that no failure causes.                                         *)
LEMMA PollInv ==
  ASSUME CalmInv, NEW w \in Workers, TypeOK', UNCHANGED <<reTesterVars, stage>>,
         \/ Start(w) \/ Shutdown(w) \/ SelectScheduled(w) \/ SelectQueue(w)
         \/ DeclareQueue(w) \/ GetNothing(w) \/ GetFails(w)
  PROVE  CalmInv'
<1>. USE DEF TypeOK, WorkerTypeOK, BrokerTypeOK, storageVars, brokerVars, queueVars, urlVars
<1>1. CASE Shutdown(w) \/ GetFails(w)
  BY <1>1, ExitInv DEF Shutdown, GetFails, CalmInv, DeliveriesHaveWorkers
<1>2. CASE Start(w)
  BY <1>2, NotPurging, QuietStep DEF Start, CalmInv, DeliveriesHaveWorkers
<1>3. CASE SelectScheduled(w)
  BY <1>3, NotPurging, QuietStep DEF SelectScheduled, CalmInv, DeliveriesHaveWorkers
<1>4. CASE SelectQueue(w)
  BY <1>4, NotPurging, QuietStep DEF SelectQueue, CalmInv, DeliveriesHaveWorkers
<1>5. CASE DeclareQueue(w)
  BY <1>5, NotPurging, QuietStep DEF DeclareQueue, Declare, CalmInv, DeliveriesHaveWorkers
<1>6. CASE GetNothing(w)
  BY <1>6, NotPurging, QuietStep DEF GetNothing, CalmInv, DeliveriesHaveWorkers
<1>. QED
  BY <1>1, <1>2, <1>3, <1>4, <1>5, <1>6

(* A worker that keeps the message it has, and changes nothing that others *)
(* see.                                                                    *)
LEMMA Carrying ==
  ASSUME CalmInv, NEW w \in Workers, TypeOK', Holds(w), Holds(w)',
         pc'[w] = "test" => /\ status[message[w]] = "scheduled"
                            /\ copy'[w].failed = failed[message[w]],
         \A v \in Workers \ {w} : pc'[v] = pc[v] /\ copy'[v] = copy[v],
         UNCHANGED <<brokerVars, status, failed, sinceTested, rows,
                     names, queue, message, reTesterVars, stage>>
  PROVE  CalmInv'
<1>. USE DEF CalmInv, brokerVars, reTesterVars
<1>1. UrlsAreFixed' /\ CountMatchesStatus' /\ RetestsAreSpaced' /\ NoOrphanedQueue'
  BY DEF UrlsAreFixed, Exists, CountMatchesStatus, RetestsAreSpaced, NoOrphanedQueue
<1>2. OneCopy'
  BY DEF OneCopy
<1>3. MessagesAreCurrent'
  BY DEF MessagesAreCurrent
<1>4. ReTesterIsCurrent'
  BY DEF ReTesterIsCurrent
<1>5. PurgeIsSafe'
  BY NotPurging
<1>6. QueueIsThere'
  BY DEF QueueIsThere, Exists
<1>7. DeliveriesHaveWorkers'
  BY DEF DeliveriesHaveWorkers
<1>. QED
  BY <1>1, <1>2, <1>3, <1>4, <1>5, <1>6, <1>7

(* A message that a worker takes was in the queue only, and is now with   *)
(* that worker only.                                                       *)
LEMMA GetMessageInv ==
  ASSUME CalmInv, NEW w \in Workers, TypeOK', UNCHANGED <<reTesterVars, stage>>, GetMessage(w)
  PROVE  CalmInv'
<1>. USE DEF TypeOK, WorkerTypeOK, BrokerTypeOK, storageVars, queueVars, urlVars, reTesterVars
<1>1. PICK m \in In(queue[w]) : Deliver(w, m) /\ message' = [message EXCEPT ![w] = m]
  BY DEF GetMessage
<1>2. /\ m \in Messages /\ QueueOf[m] = queue[w] /\ ready[m] = 1
      /\ \A x \in Messages : ready'[x] = IF x = m THEN 0 ELSE ready[x]
  BY <1>1 DEF In, Deliver, CalmInv, OneCopy
<1>3. pc[w] = "get" /\ pc' = [pc EXCEPT ![w] = "register"] /\ UNCHANGED <<names, queue, copy, declared>>
  BY DEF GetMessage
<1>4. /\ \A v \in Workers : Holds(v) => message[v] # m /\ v # w
      /\ \A r \in ReTesters : HasInHand(r) => hand[r].url # m
  BY <1>2, <1>3 DEF CalmInv, OneCopy, ReTesterIsCurrent
<1>5. UrlsAreFixed' /\ CountMatchesStatus' /\ RetestsAreSpaced' /\ NoOrphanedQueue'
  BY DEF GetMessage, CalmInv, UrlsAreFixed, Exists, CountMatchesStatus, RetestsAreSpaced, NoOrphanedQueue
<1>6. OneCopy'
  BY <1>1, <1>2, <1>3, <1>4 DEF CalmInv, OneCopy
<1>7. MessagesAreCurrent'
  BY <1>1, <1>2, <1>3, <1>4 DEF GetMessage, CalmInv, MessagesAreCurrent, Messages
<1>8. ReTesterIsCurrent'
  BY <1>1, <1>2, <1>3, <1>4
  DEF GetMessage, CalmInv, ReTesterIsCurrent, ReTesterTypeOK, LoadedUrls, Messages
<1>9. PurgeIsSafe'
  BY <1>3, NotPurging DEF GetMessage
<1>10. QueueIsThere'
  BY <1>1, <1>2, <1>3, <1>4 DEF GetMessage, CalmInv, QueueIsThere, Exists
<1>11. DeliveriesHaveWorkers'
  BY <1>1, <1>3 DEF Deliver, CalmInv, DeliveriesHaveWorkers
<1>. QED
  BY <1>5, <1>6, <1>7, <1>8, <1>9, <1>10, <1>11 DEF CalmInv

(* The test of a URL that this worker alone has. *)
LEMMA TestUrlInv ==
  ASSUME CalmInv, NEW w \in Workers, TypeOK', UNCHANGED <<reTesterVars, stage>>, TestUrl(w)
  PROVE  CalmInv'
<1>. USE DEF TypeOK, WorkerTypeOK, BrokerTypeOK, StorageTypeOK, brokerVars, queueVars, reTesterVars
<1>. DEFINE u == message[w]
<1>1. /\ u \in Urls /\ copy[w] \in UrlObjects /\ (u \in RootUrls) \in BOOLEAN
      /\ status[u] = "scheduled" /\ copy[w].failed = failed[u]
      /\ pc[w] = "test" /\ ready[u] = 0
      /\ \A v \in Workers \ {w} : Holds(v) => message[v] # u
      /\ \A r \in ReTesters : HasInHand(r) => hand[r].url # u
  BY DEF TestUrl, CalmInv, Processing, MessagesAreCurrent, OneCopy, ReTesterIsCurrent
<1>2. PICK url \in TestRuns(copy[w], u \in RootUrls) :
        /\ UpdateUrl(u, url.status, url.failed, 0)
        /\ copy' = [copy EXCEPT ![w] = url]
  BY DEF TestUrl
<1>3. \/ url.status \in {"tested", "scheduledForRetest"} /\ url.failed < MaxFailedTestRuns
      \/ url.status = "error" /\ url.failed = MaxFailedTestRuns
  <2>1. failed[u] \in Nat /\ failed[u] < MaxFailedTestRuns
    BY <1>1 DEF CalmInv, CountMatchesStatus
  <2>2. \/ /\ url.status = "tested"
           /\ url.failed = copy[w].failed
           /\ url.result # "none"
        \/ /\ url.status = "error"
           /\ url.failed = copy[w].failed + 1
           /\ url.failed >= MaxFailedTestRuns
        \/ /\ url.status = "scheduledForRetest"
           /\ url.failed = copy[w].failed + 1
           /\ url.failed < MaxFailedTestRuns
    BY <1>1, <1>2, TestRunsSound, Zenon
  <2>. QED
    BY <1>1, <2>1, <2>2, SettingsAssumption
<1>4. /\ status'[u] = url.status /\ failed'[u] = url.failed
      /\ \A x \in Urls \ {u} : /\ status'[x] = status[x] /\ failed'[x] = failed[x]
                              /\ sinceTested'[x] = sinceTested[x]
  BY <1>1, <1>2 DEF UpdateUrl, CalmInv
<1>5. /\ pc' = [pc EXCEPT ![w] = "result"]
      /\ UNCHANGED <<brokerVars, names, queue, message, rows>>
  BY DEF TestUrl
<1>6. UrlsAreFixed' /\ NoOrphanedQueue'
  BY <1>1, <1>3, <1>4, <1>5 DEF CalmInv, UrlsAreFixed, Exists, NoOrphanedQueue
<1>7. OneCopy'
  BY <1>5 DEF CalmInv, OneCopy
<1>8. MessagesAreCurrent'
  BY <1>1, <1>2, <1>4, <1>5 DEF CalmInv, MessagesAreCurrent
<1>9. ReTesterIsCurrent'
  BY <1>1, <1>4, <1>5 DEF CalmInv, ReTesterIsCurrent, ReTesterTypeOK, LoadedUrls
<1>10. PurgeIsSafe'
  BY <1>1, <1>4, <1>5, NotPurging
<1>11. QueueIsThere'
  BY <1>1, <1>4, <1>5 DEF CalmInv, QueueIsThere, Exists
<1>12. DeliveriesHaveWorkers'
  BY <1>1, <1>5 DEF CalmInv, DeliveriesHaveWorkers
<1>13. CountMatchesStatus'
  BY <1>3, <1>4 DEF CalmInv, CountMatchesStatus
<1>14. RetestsAreSpaced'
  BY <1>3, <1>4 DEF CalmInv, RetestsAreSpaced
<1>. QED
  BY <1>6, <1>7, <1>8, <1>9, <1>10, <1>11, <1>12, <1>13, <1>14 DEF CalmInv

(* A message that is published again by the worker that has it. *)
LEMMA RepublishInv ==
  ASSUME CalmInv, NEW w \in Workers, TypeOK', UNCHANGED <<reTesterVars, stage>>, Republish(w)
  PROVE  CalmInv'
<1>. USE DEF TypeOK, WorkerTypeOK, BrokerTypeOK, storageVars, queueVars, urlVars, reTesterVars
<1>. DEFINE m == message[w]
<1>1. /\ m \in Messages /\ ready[m] = 0
      /\ \A v \in Workers \ {w} : Holds(v) => message[v] # m
      /\ \A r \in ReTesters : HasInHand(r) => hand[r].url # m
  BY DEF Republish, CalmInv, OneCopy, ReTesterIsCurrent
<1>2. /\ \A x \in Messages \ {m} : ready'[x] = ready[x]
      /\ ready'[m] \in {0, 1} /\ (ready'[m] > 0 => QueueOf[m] \in declared)
  BY <1>1 DEF Republish, Publish, CalmInv
<1>3. /\ pc[w] = "republish" /\ pc' = [pc EXCEPT ![w] = "ack"]
      /\ UNCHANGED <<names, queue, message, copy, declared, unacked, storageVars>>
  BY DEF Republish
<1>4. UrlsAreFixed' /\ CountMatchesStatus' /\ RetestsAreSpaced' /\ NoOrphanedQueue'
  BY <1>3 DEF CalmInv, UrlsAreFixed, Exists, CountMatchesStatus, RetestsAreSpaced, NoOrphanedQueue
<1>5. OneCopy'
  BY <1>1, <1>2, <1>3 DEF CalmInv, OneCopy
<1>6. MessagesAreCurrent'
  BY <1>1, <1>2, <1>3 DEF CalmInv, MessagesAreCurrent, Messages
<1>7. ReTesterIsCurrent'
  BY <1>1, <1>2, <1>3 DEF CalmInv, ReTesterIsCurrent, ReTesterTypeOK, LoadedUrls, Messages
<1>8. PurgeIsSafe'
  BY <1>3, NotPurging
<1>9. QueueIsThere'
  BY <1>1, <1>2, <1>3 DEF CalmInv, QueueIsThere, Exists
<1>10. DeliveriesHaveWorkers'
  BY <1>3 DEF CalmInv, DeliveriesHaveWorkers
<1>. QED
  BY <1>4, <1>5, <1>6, <1>7, <1>8, <1>9, <1>10 DEF CalmInv

(* The other steps of processMessage() and its failures. *)
LEMMA ProcessInv ==
  ASSUME CalmDeployment, CalmInv, NEW w \in Workers, TypeOK', UNCHANGED <<reTesterVars, stage>>,
         \/ RegisterRun(w) \/ RegisterFails(w) \/ LoadUrl(w) \/ LoadFails(w)
         \/ SaveResult(w) \/ IndexCases(w) \/ SaveUrlFails(w) \/ Ack(w) \/ WorkerCrash(w)
  PROVE  CalmInv'
<1>. USE DEF TypeOK, WorkerTypeOK, BrokerTypeOK, storageVars, brokerVars, queueVars, urlVars
<1>1. CASE RegisterRun(w) /\ message[w] \notin Malformed
  BY <1>1, Carrying DEF RegisterRun, Touch, CalmInv
<1>2. CASE RegisterRun(w) /\ message[w] \in Malformed
  BY <1>2, NotPurging, QuietStep DEF RegisterRun, Touch, CalmInv
<1>3. CASE RegisterFails(w)
  BY <1>3, Carrying DEF RegisterFails, CalmInv
<1>4. CASE LoadUrl(w) /\ Exists(message[w])
  <2>1. message[w] \in Urls /\ status[message[w]] = "scheduled"
    BY <1>4 DEF LoadUrl, CalmInv, Processing, MessagesAreCurrent, Exists
  <2>2. Load(message[w]).failed = failed[message[w]]
    BY DEF Load, Url
  <2>. QED
    BY <1>4, <2>1, <2>2, Carrying DEF LoadUrl, CalmInv
<1>5. CASE (LoadUrl(w) /\ ~Exists(message[w])) \/ LoadFails(w)
  BY <1>5, NotPurging, QuietStep DEF LoadUrl, LoadFails, CalmInv
<1>6. CASE SaveResult(w)
  BY <1>6, NotPurging, QuietStep DEF SaveResult, CalmInv
<1>7. CASE IndexCases(w)
  BY <1>7, NotPurging, QuietStep DEF IndexCases, CalmInv
<1>8. CASE SaveUrlFails(w)
  <2>1. At(w, "test") /\ SaveFails(w, "storage")
    BY <1>8 DEF SaveUrlFails, SaveFails, Strikes, CalmDeployment
  <2>. QED
    BY <2>1, Carrying DEF SaveFails, CalmInv
<1>9. CASE Ack(w)
  BY <1>9, NotPurging, QuietStep DEF Ack, Acknowledge, CalmInv
<1>10. CASE WorkerCrash(w)
  BY <1>10 DEF WorkerCrash, Strikes, CalmDeployment
<1>. QED
  BY <1>1, <1>2, <1>3, <1>4, <1>5, <1>6, <1>7, <1>8, <1>9, <1>10

(* A worker keeps the invariant. *)
LEMMA WorkInv ==
  ASSUME CalmDeployment, CalmInv, NEW w \in Workers, Work(w)
  PROVE  CalmInv'
<1>1. TypeOK' /\ UNCHANGED <<reTesterVars, stage>>
  BY WorkType DEF Work, CalmInv
<1>. QED
  BY <1>1, PollInv, PurgeInv, GetMessageInv, ProcessInv, TestUrlInv, RepublishInv
  DEF Work, WorkerStep, WorkerFailure

-----------------------------------------------------------------------------
(* The re-tester *)

(* A re-tester that changes no URL and publishes nothing, and has declared *)
(* the queue it is about to publish to.                                    *)
LEMMA ReTesterQuiet ==
  ASSUME CalmDeployment, CalmInv, NEW r \in ReTesters, TypeOK', ReTesterIsCurrent',
         rpc'[r] = "publish" => QueueOf[hand'[r].url] \in declared', declared \subseteq declared',
         UNCHANGED <<ready, unacked, status, failed, sinceTested, rows, workerVars, stage>>
  PROVE  CalmInv'
<1>. USE DEF CalmInv, workerVars
<1>1. UrlsAreFixed' /\ CountMatchesStatus' /\ RetestsAreSpaced' /\ NoOrphanedQueue'
  BY DEF UrlsAreFixed, Exists, CountMatchesStatus, RetestsAreSpaced, NoOrphanedQueue
<1>2. OneCopy' /\ DeliveriesHaveWorkers' /\ PurgeIsSafe'
  BY DEF OneCopy, DeliveriesHaveWorkers, PurgeIsSafe
<1>3. MessagesAreCurrent'
  BY DEF MessagesAreCurrent
<1>4. QueueIsThere'
  BY DEF QueueIsThere, Exists, CalmDeployment
<1>. QED
  BY <1>1, <1>2, <1>3, <1>4

(* The URL that is handed back to the workers: until now no one had it. *)
LEMMA RescheduleInv ==
  ASSUME CalmDeployment, CalmInv, NEW r \in ReTesters, TypeOK',
         UNCHANGED <<workerVars, stage>>, Reschedule(r)
  PROVE  CalmInv'
<1>. USE DEF TypeOK, ReTesterTypeOK, StorageTypeOK, brokerVars, queueVars, workerVars
<1>1. PICK url \in todo[r] :
        /\ UpdateUrl(url.url, "scheduled", url.failed, url.age)
        /\ todo' = [todo EXCEPT ![r] = @ \ {url}]
        /\ hand' = [hand EXCEPT ![r] = url]
  BY DEF Reschedule
<1>. DEFINE u == url.url
<1>2. /\ u \in Urls /\ status[u] = "scheduledForRetest"
      /\ url.failed = failed[u] /\ url.age = RetestThreshold
  BY <1>1 DEF CalmInv, ReTesterIsCurrent, LoadedUrls
<1>3. /\ status'[u] = "scheduled" /\ failed' = failed /\ sinceTested'[u] = RetestThreshold
      /\ \A x \in Urls \ {u} : status'[x] = status[x] /\ sinceTested'[x] = sinceTested[x]
  BY <1>1, <1>2 DEF UpdateUrl, CalmInv
<1>4. \A x \in todo[r] \ {url} : x.url # u
  BY <1>1 DEF CalmInv, ReTesterIsCurrent
<1>5. /\ rpc[r] = "save" /\ rpc' = [rpc EXCEPT ![r] = "result"]
      /\ UNCHANGED <<brokerVars, rows>>
  BY DEF Reschedule
<1>6. ready[u] = 0 /\ \A w \in Workers : Holds(w) => message[w] # u
  BY <1>2 DEF CalmInv, MessagesAreCurrent, BrokerTypeOK, Messages
<1>7. UrlsAreFixed' /\ CountMatchesStatus' /\ RetestsAreSpaced' /\ NoOrphanedQueue'
  BY <1>2, <1>3, <1>5
  DEF CalmInv, UrlsAreFixed, Exists, CountMatchesStatus, RetestsAreSpaced, NoOrphanedQueue
<1>8. OneCopy' /\ DeliveriesHaveWorkers' /\ PurgeIsSafe'
  BY <1>2, <1>3, <1>5 DEF CalmInv, OneCopy, DeliveriesHaveWorkers, PurgeIsSafe
<1>9. MessagesAreCurrent'
  BY <1>2, <1>3, <1>5 DEF CalmInv, MessagesAreCurrent, WorkerTypeOK
<1>10. ReTesterIsCurrent'
  <2>1. r \in ReTesters /\ \A s \in ReTesters : s = r
    BY DEF CalmDeployment
  <2>2. hand'[r].url = u /\ todo'[r] = todo[r] \ {url} /\ rpc'[r] = "result"
    BY <1>1, <1>5 DEF CalmInv
  <2>3. /\ status'[u] = "scheduled" /\ ready'[u] = 0
        /\ \A w \in Workers : Holds(w)' => message'[w] # u
    BY <1>3, <1>5, <1>6
  <2>4. \A x \in todo'[r] :
          /\ x.url \in Urls \ {u} /\ status'[x.url] = "scheduledForRetest"
          /\ x.failed = failed'[x.url] /\ x.age = RetestThreshold
          /\ sinceTested'[x.url] = RetestThreshold
          /\ \A y \in todo'[r] : y.url = x.url => y = x
    BY <1>3, <1>4, <2>2 DEF CalmInv, ReTesterIsCurrent, LoadedUrls
  <2>. QED
    BY <2>1, <2>2, <2>3, <2>4 DEF ReTesterIsCurrent
<1>11. QueueIsThere'
  BY <1>2, <1>3, <1>5, <1>6 DEF CalmInv, CalmDeployment, QueueIsThere, Exists
<1>. QED
  BY <1>7, <1>8, <1>9, <1>10, <1>11 DEF CalmInv

(* The message of the URL the re-tester has in hand is the only one. *)
LEMMA PublishForRetestInv ==
  ASSUME CalmDeployment, CalmInv, NEW r \in ReTesters, TypeOK',
         UNCHANGED <<workerVars, stage>>, PublishForRetest(r)
  PROVE  CalmInv'
<1>. USE DEF TypeOK, ReTesterTypeOK, BrokerTypeOK, storageVars, urlVars, queueVars, workerVars
<1>. DEFINE u == hand[r].url
<1>1. /\ u \in Urls /\ status[u] = "scheduled" /\ ready[u] = 0 /\ QueueOf[u] \in declared
      /\ \A w \in Workers : Holds(w) => message[w] # u
      /\ rpc[r] = "publish"
  BY DEF PublishForRetest, CalmInv, ReTesterIsCurrent, QueueIsThere, LoadedUrls
<1>2. /\ ready'[u] = 1
      /\ \A m \in Messages \ {u} : ready'[m] = ready[m]
  BY <1>1 DEF PublishForRetest, Publish, CalmInv, Messages
<1>3. /\ rpc' = [rpc EXCEPT ![r] = IF todo[r] = {} THEN "idle" ELSE "save"]
      /\ UNCHANGED <<todo, declared, unacked, storageVars>>
  BY DEF PublishForRetest
<1>4. UrlsAreFixed' /\ CountMatchesStatus' /\ RetestsAreSpaced' /\ NoOrphanedQueue'
  BY <1>3 DEF CalmInv, UrlsAreFixed, Exists, CountMatchesStatus, RetestsAreSpaced, NoOrphanedQueue
<1>5. OneCopy'
  BY <1>1, <1>2, <1>3 DEF CalmInv, OneCopy
<1>6. MessagesAreCurrent'
  BY <1>1, <1>2, <1>3 DEF CalmInv, MessagesAreCurrent, Messages
<1>7. ReTesterIsCurrent'
  BY <1>3 DEF CalmInv, CalmDeployment, ReTesterIsCurrent
<1>8. DeliveriesHaveWorkers' /\ PurgeIsSafe'
  BY <1>3 DEF CalmInv, DeliveriesHaveWorkers, PurgeIsSafe
<1>9. QueueIsThere'
  BY <1>1, <1>2, <1>3 DEF CalmInv, CalmDeployment, QueueIsThere, Exists
<1>. QED
  BY <1>4, <1>5, <1>6, <1>7, <1>8, <1>9 DEF CalmInv

(* A re-tester keeps the invariant. *)
LEMMA RetestInv ==
  ASSUME CalmDeployment, CalmInv, NEW r \in ReTesters, Retest(r)
  PROVE  CalmInv'
<1>1. TypeOK' /\ UNCHANGED <<workerVars, stage>>
  BY RetestType DEF Retest, CalmInv
<1>. USE DEF TypeOK, ReTesterTypeOK, BrokerTypeOK, storageVars, brokerVars, urlVars, queueVars
<1>2. CASE Scan(r)
  <2>1. \A x \in todo'[r] :
          /\ status[x.url] = "scheduledForRetest" /\ x.failed = failed[x.url]
          /\ x.age = RetestThreshold /\ sinceTested[x.url] = RetestThreshold
          /\ \A y \in todo'[r] : y.url = x.url => y = x
    BY <1>2 DEF Scan, Loaded, Due, CalmInv
  <2>2. ReTesterIsCurrent'
    BY <1>2, <2>1 DEF Scan, CalmInv, CalmDeployment, ReTesterIsCurrent
  <2>. QED
    BY <1>1, <1>2, <2>2, ReTesterQuiet DEF Scan, CalmInv
<1>3. CASE KeepResult(r)
  <2>1. ReTesterIsCurrent'
    BY <1>1, <1>3 DEF KeepResult, CalmInv, ReTesterIsCurrent, workerVars
  <2>. QED
    BY <1>1, <1>3, <2>1, ReTesterQuiet DEF KeepResult, CalmInv
<1>4. CASE DeclareForRetest(r)
  <2>1. ReTesterIsCurrent'
    BY <1>1, <1>4 DEF DeclareForRetest, CalmInv, ReTesterIsCurrent, workerVars
  <2>. QED
    BY <1>1, <1>4, <2>1, ReTesterQuiet DEF DeclareForRetest, Declare, CalmInv
<1>5. CASE ReTesterFailure(r)
  <2>1. Abort(r) /\ UNCHANGED <<brokerVars, storageVars>>
    BY <1>5 DEF ReTesterFailure, RescheduleFails, ReTesterCrash
  <2>2. ReTesterIsCurrent'
    BY <1>1, <2>1 DEF Abort, CalmInv, CalmDeployment, ReTesterIsCurrent, workerVars
  <2>. QED
    BY <1>1, <2>1, <2>2, ReTesterQuiet DEF Abort, CalmInv
<1>. QED
  BY <1>1, <1>2, <1>3, <1>4, <1>5, RescheduleInv, PublishForRetestInv DEF Retest, ReTesterStep

(* The clock keeps the invariant: an age that was due stays due. *)
LEMMA TickInv == CalmInv /\ Tick => CalmInv'
<1>1. SUFFICES ASSUME CalmInv, Tick PROVE CalmInv'
  OBVIOUS
<1>. USE DEF brokerVars, reTesterVars
<1>2. UNCHANGED <<declared, ready, unacked, status, failed, rows, pc, names, queue, message, copy,
                  rpc, todo, hand, stage>>
  BY <1>1 DEF Tick
<1>3. \A u \in Urls : sinceTested[u] = RetestThreshold => sinceTested'[u] = RetestThreshold
  BY <1>1, SettingsAssumption DEF Tick, Age
<1>4. TypeOK' /\ UrlsAreFixed' /\ CountMatchesStatus' /\ RetestsAreSpaced' /\ NoOrphanedQueue'
  BY <1>1, <1>2, <1>3, TickType
  DEF CalmInv, UrlsAreFixed, Exists, CountMatchesStatus, RetestsAreSpaced, NoOrphanedQueue
<1>5. OneCopy' /\ DeliveriesHaveWorkers' /\ PurgeIsSafe' /\ MessagesAreCurrent'
  BY <1>1, <1>2
  DEF CalmInv, OneCopy, DeliveriesHaveWorkers, PurgeIsSafe, MessagesAreCurrent
<1>6. ReTesterIsCurrent' /\ QueueIsThere'
  BY <1>1, <1>2, <1>3
  DEF CalmInv, ReTesterIsCurrent, QueueIsThere, Exists, TypeOK, ReTesterTypeOK, LoadedUrls
<1>. QED
  BY <1>4, <1>5, <1>6 DEF CalmInv

(* A step that changes nothing keeps the invariant. *)
LEMMA StutterInv == CalmInv /\ UNCHANGED vars => CalmInv'
<1>1. SUFFICES ASSUME CalmInv, UNCHANGED vars PROVE CalmInv'
  OBVIOUS
<1>. USE DEF vars, brokerVars, storageVars, workerVars, reTesterVars
<1>2. TypeOK'
  BY <1>1 DEF CalmInv, TypeOK, BrokerTypeOK, StorageTypeOK, FailuresTypeOK, WorkerTypeOK,
              ReTesterTypeOK, FrontendTypeOK
<1>3. UrlsAreFixed' /\ CountMatchesStatus' /\ RetestsAreSpaced' /\ NoOrphanedQueue'
  BY <1>1 DEF CalmInv, UrlsAreFixed, Exists, CountMatchesStatus, RetestsAreSpaced, NoOrphanedQueue
<1>4. OneCopy' /\ DeliveriesHaveWorkers' /\ PurgeIsSafe' /\ MessagesAreCurrent'
  BY <1>1 DEF CalmInv, OneCopy, DeliveriesHaveWorkers, PurgeIsSafe, MessagesAreCurrent
<1>5. ReTesterIsCurrent' /\ QueueIsThere'
  BY <1>1 DEF CalmInv, ReTesterIsCurrent, QueueIsThere, Exists
<1>. QED
  BY <1>2, <1>3, <1>4, <1>5 DEF CalmInv

(* At the start there is one message for each known URL, and no one has it. *)
LEMMA InitInv == CalmDeployment /\ Init => CalmInv
<1>1. SUFFICES ASSUME CalmDeployment, Init PROVE CalmInv
  OBVIOUS
<1>. USE PopulationAssumption, SettingsAssumption
<1>. USE DEF Init, BrokerInit, StorageInit, WorkerInit, ReTesterInit, FrontendInit, CalmDeployment
<1>2. TypeOK /\ UrlsAreFixed /\ CountMatchesStatus /\ RetestsAreSpaced
  BY <1>1, InitTypeOK DEF UrlsAreFixed, Exists, CountMatchesStatus, RetestsAreSpaced
<1>3. NoOrphanedQueue
  BY <1>1 DEF NoOrphanedQueue, Messages
<1>4. OneCopy /\ DeliveriesHaveWorkers /\ PurgeIsSafe /\ ReTesterIsCurrent
  BY <1>1 DEF OneCopy, DeliveriesHaveWorkers, PurgeIsSafe, ReTesterIsCurrent
<1>5. MessagesAreCurrent /\ QueueIsThere
  BY <1>1 DEF MessagesAreCurrent, QueueIsThere
<1>. QED
  BY <1>2, <1>3, <1>4, <1>5 DEF CalmInv

(* Every step keeps the invariant. *)
LEMMA NextInv ==
  ASSUME CalmDeployment, CalmInv, [Next]_vars
  PROVE  CalmInv'
<1>1. CASE \E u \in Late : Front(u)
  BY <1>1 DEF CalmDeployment
<1>. QED
  BY <1>1, WorkInv, RetestInv, TickInv, StutterInv DEF Next

(* In a calm deployment every scheduled URL has at most one owner, and     *)
(* what the processes remember of the tables is right when they use it.    *)
THEOREM CalmInvariance == ASSUME CalmDeployment PROVE Spec => []CalmInv
<1>1. Init => CalmInv
  BY InitInv
<1>2. CalmInv /\ [Next]_vars => CalmInv'
  BY NextInv
<1>. QED
  BY <1>1, <1>2, PTL DEF Spec


-----------------------------------------------------------------------------
(* Invariants *)

HIDE DEF Messages, TypeOK, BrokerTypeOK, StorageTypeOK, FailuresTypeOK, WorkerTypeOK,
         ReTesterTypeOK, FrontendTypeOK, Strikes, Places, Processing, Testable, Unsettled

(* No two parties have the same URL: Worker::processMessage never tests a  *)
(* URL while another worker does, and ReTester::retest never publishes one *)
(* that is still in a queue or with a worker.                              *)
THEOREM WorkIsNotDuplicated == ASSUME CalmDeployment PROVE Spec => []NoDuplicateWork
<1>1. CalmInv => NoDuplicateWork
  <2>1. SUFFICES ASSUME CalmInv PROVE NoDuplicateWork
    OBVIOUS
  <2>2. \A u \in Urls :
          /\ ready[u] <= 1
          /\ \A w \in Workers : Holds(w) /\ message[w] = u => ready[u] = 0
          /\ \A r \in ReTesters : HasInHand(r) /\ hand[r].url = u =>
               ready[u] = 0 /\ \A w \in Workers : ~(Holds(w) /\ message[w] = u)
    BY <2>1 DEF CalmInv, OneCopy, ReTesterIsCurrent, Messages
  <2>3. \A v, w \in Workers : v # w /\ Holds(v) /\ Holds(w) => message[v] # message[w]
    BY <2>1 DEF CalmInv, OneCopy
  <2>. QED
    BY <2>2, <2>3 DEF NoDuplicateWork
<1>. QED
  BY <1>1, CalmInvariance, PTL

(* Storage::deleteEmptyQueues never removes the row of a queue with URLs   *)
(* that must still be tested.                                              *)
THEOREM QueuesAreNotOrphaned == ASSUME CalmDeployment PROVE Spec => []NoOrphanedQueue
<1>1. CalmInv => NoOrphanedQueue
  BY DEF CalmInv
<1>. QED
  BY <1>1, CalmInvariance, PTL

(* StorageBasedTester::run dismisses a URL with its last failed test run,  *)
(* and no URL has more.                                                    *)
THEOREM BudgetIsKept == ASSUME CalmDeployment PROVE Spec => []FailureBudget
<1>1. CalmInv => FailureBudget
  <2>1. SUFFICES ASSUME CalmInv PROVE FailureBudget
    OBVIOUS
  <2>2. \A u \in Urls : failed[u] \in Nat
    BY <2>1 DEF CalmInv, TypeOK, StorageTypeOK
  <2>. QED
    BY <2>1, <2>2, SettingsAssumption DEF CalmInv, CountMatchesStatus, FailureBudget
<1>. QED
  BY <1>1, CalmInvariance, PTL

-----------------------------------------------------------------------------
(* What a step may never do *)

(* A URL that failed before is not tested again before the re-test         *)
(* threshold has passed.                                                   *)
THEOREM RetestsKeepTheirDistance == ASSUME CalmDeployment PROVE Spec => RetestSpacing
<1>1. CalmInv => \A w \in Workers : At(w, "test") /\ failed[message[w]] > 0 =>
                   sinceTested[message[w]] = RetestThreshold
  <2>1. SUFFICES ASSUME CalmInv, NEW w \in Workers, At(w, "test"), failed[message[w]] > 0
                 PROVE  sinceTested[message[w]] = RetestThreshold
    OBVIOUS
  <2>2. message[w] \in Urls /\ status[message[w]] = "scheduled"
    BY <2>1 DEF CalmInv, TypeOK, WorkerTypeOK, MessagesAreCurrent
  <2>. QED
    BY <2>1, <2>2 DEF CalmInv, RetestsAreSpaced
<1>2. CalmInv => [\A w \in Workers :
                    At(w, "test") /\ pc'[w] = "result" /\ failed[message[w]] > 0 =>
                      sinceTested[message[w]] = RetestThreshold]_vars
  BY <1>1
<1>. QED
  BY <1>2, CalmInvariance, PTL DEF RetestSpacing

(* ReTester::retest hands a URL back only when its last test run lies the  *)
(* threshold back.                                                         *)
THEOREM RetestsAreDue == ASSUME CalmDeployment PROVE Spec => RetestsAreNotTooFrequent
<1>1. ASSUME CalmInv, [Next]_vars, NEW r \in ReTesters, rpc[r] = "save", rpc'[r] = "result"
      PROVE  sinceTested[hand'[r].url] = RetestThreshold
  <2>1. Reschedule(r)
    <3>1. CASE \E w \in Workers : Work(w)
      BY <1>1, <3>1 DEF Work, reTesterVars
    <3>2. CASE \E s \in ReTesters : Retest(s)
      <4>1. PICK s \in ReTesters : Retest(s)
        BY <3>2
      <4>2. s = r
        BY <1>1, <4>1 DEF CalmInv, TypeOK, ReTesterTypeOK, Retest, ReTesterStep, ReTesterFailure,
          Scan, Reschedule, KeepResult, DeclareForRetest, PublishForRetest, RescheduleFails,
          ReTesterCrash, Abort
      <4>. QED
        BY <1>1, <4>1, <4>2 DEF CalmInv, TypeOK, ReTesterTypeOK, Retest, ReTesterStep,
          ReTesterFailure, Scan, KeepResult, DeclareForRetest, PublishForRetest, RescheduleFails,
          ReTesterCrash, Abort
    <3>3. CASE \E u \in Late : Front(u)
      BY <1>1, <3>3 DEF Front, reTesterVars
    <3>4. CASE Tick
      BY <1>1, <3>4 DEF Tick, reTesterVars
    <3>5. CASE UNCHANGED vars
      BY <1>1, <3>5 DEF vars, reTesterVars
    <3>. QED
      BY <1>1, <3>1, <3>2, <3>3, <3>4, <3>5 DEF Next
  <2>2. hand'[r] \in todo[r]
    BY <1>1, <2>1 DEF Reschedule, CalmInv, TypeOK, ReTesterTypeOK
  <2>. QED
    BY <1>1, <2>2 DEF CalmInv, ReTesterIsCurrent
<1>2. CalmInv /\ [Next]_vars =>
        [\A r \in ReTesters : rpc[r] = "save" /\ rpc'[r] = "result" =>
           sinceTested[hand'[r].url] = RetestThreshold]_vars
  BY <1>1
<1>. QED
  BY <1>2, CalmInvariance, PTL DEF RetestsAreNotTooFrequent, Spec

(* The broker's queues lose a message only to a worker: what               *)
(* Storage::deleteEmptyQueues deletes is really empty, but for messages    *)
(* that no known URL needs.                                                *)
THEOREM MessagesAreKept == ASSUME CalmDeployment PROVE Spec => NoMessageDiscarded
<1>1. ASSUME CalmInv, NEW w \in Workers, Work(w), NEW u \in Known, ready'[u] < ready[u]
      PROVE  message[w] = NoMessage /\ message'[w] = u
  <2>. USE DEF TypeOK, WorkerTypeOK, BrokerTypeOK, brokerVars
  <2>1. /\ u \in Urls /\ u \in Messages /\ ready \in [Messages -> Nat] /\ ready[u] \in Nat
        /\ unacked \in [Workers -> Messages \cup {NoMessage}]
    BY <1>1, PopulationAssumption DEF CalmInv, Known, Messages
  <2>2. PurgeQueue(w) \/ GetMessage(w) \/ Republish(w) \/ Exit(w)
    BY <1>1, <2>1
    DEF Work, WorkerStep, WorkerFailure, Start, Shutdown, SelectActive, SelectInactive, PurgeRow,
        SelectScheduled, SelectQueue, DeclareQueue, GetNothing, GetFails, RegisterRun,
        RegisterFails, LoadUrl, LoadFails, TestUrl, SaveResult, IndexCases, SaveUrlFails,
        SaveFails, Ack, WorkerCrash
  <2>3. ~Exit(w) /\ ~Republish(w)
    <3>1. ASSUME Exit(w) PROVE FALSE
      BY <1>1, <2>1, <3>1 DEF Exit, Disconnect
    <3>2. ASSUME Republish(w) PROVE FALSE
      BY <1>1, <2>1, <3>2 DEF Republish, Publish
    <3>. QED
      BY <3>1, <3>2
  <2>4. ~PurgeQueue(w)
    <3>1. SUFFICES ASSUME PurgeQueue(w) PROVE FALSE
      OBVIOUS
    <3>2. PICK q \in names[w] : DeleteQueue(q)
      BY <3>1 DEF PurgeQueue
    <3>3. QueueOf[u] = q
      BY <1>1, <2>1, <3>2 DEF DeleteQueue, In
    <3>4. ~Unsettled(u)
      BY <1>1, <2>1, <3>1, <3>2, <3>3 DEF PurgeQueue, CalmInv, PurgeIsSafe
    <3>5. ready[u] > 0 /\ status[u] \in {"scheduled", "absent"}
      BY <1>1, <2>1, <3>2, <3>3 DEF DeleteQueue, In, CalmInv, MessagesAreCurrent, Testable
    <3>. QED
      BY <1>1, <2>1, <3>4, <3>5 DEF CalmInv, UrlsAreFixed, Exists, Unsettled
  <2>5. PICK m \in In(queue[w]) : Deliver(w, m) /\ message' = [message EXCEPT ![w] = m]
    BY <2>2, <2>3, <2>4 DEF GetMessage
  <2>6. m = u
    BY <1>1, <2>1, <2>5 DEF Deliver, In
  <2>. QED
    BY <1>1, <2>2, <2>3, <2>4, <2>5, <2>6 DEF GetMessage, CalmInv, Processing
<1>2. ASSUME CalmInv, NEW r \in ReTesters, Retest(r), NEW u \in Known
      PROVE  ~(ready'[u] < ready[u])
  <2>1. u \in Messages /\ ready \in [Messages -> Nat]
    BY <1>2 DEF CalmInv, Known, Messages, TypeOK, BrokerTypeOK
  <2>. QED
    BY <1>2, <2>1
    DEF Retest, ReTesterStep, ReTesterFailure, Scan, Reschedule, KeepResult, DeclareForRetest,
        PublishForRetest, Publish, RescheduleFails, ReTesterCrash, brokerVars
<1>3. ASSUME CalmDeployment, CalmInv, [Next]_vars, NEW u \in Known, ready'[u] < ready[u]
      PROVE  \E w \in Workers : message[w] = NoMessage /\ message'[w] = u
  <2>1. ready[u] \in Nat
    BY <1>3 DEF CalmInv, Known, Messages, TypeOK, BrokerTypeOK
  <2>2. ready' # ready
    BY <1>3, <2>1
  <2>3. \E w \in Workers : Work(w)
    BY <1>2, <1>3, <2>2 DEF Next, CalmDeployment, Tick, brokerVars, vars
  <2>. QED
    BY <1>1, <1>3, <2>3
<1>4. CalmInv /\ [Next]_vars =>
        [\A u \in Known : ready'[u] < ready[u] =>
           \E w \in Workers : message[w] = NoMessage /\ message'[w] = u]_vars
  BY <1>3
<1>. QED
  BY <1>4, CalmInvariance, PTL DEF NoMessageDiscarded, Spec

-----------------------------------------------------------------------------
(* The life cycle *)

(* The step of the worker that tests a URL is a test of that URL. *)
LEMMA TestUrlRefines ==
  ASSUME CalmInv, NEW w \in Workers, TestUrl(w)
  PROVE  \E u \in Urls : Lifecycle!Test(u)
<1>. USE DEF CalmInv, TypeOK, WorkerTypeOK, StorageTypeOK
<1>. DEFINE u == message[w]
<1>1. /\ u \in Urls /\ copy[w] \in UrlObjects /\ (u \in RootUrls) \in BOOLEAN
      /\ status[u] = "scheduled" /\ copy[w].failed = failed[u]
      /\ failed[u] \in Nat /\ failed[u] < MaxFailedTestRuns
  BY DEF TestUrl, MessagesAreCurrent, CountMatchesStatus
<1>2. PICK url \in TestRuns(copy[w], u \in RootUrls) : UpdateUrl(u, url.status, url.failed, 0)
  BY DEF TestUrl
<1>3. \/ /\ url.status = "tested"
         /\ url.failed = copy[w].failed
         /\ url.result # "none"
      \/ /\ url.status = "error"
         /\ url.failed = copy[w].failed + 1
         /\ url.failed >= MaxFailedTestRuns
      \/ /\ url.status = "scheduledForRetest"
         /\ url.failed = copy[w].failed + 1
         /\ url.failed < MaxFailedTestRuns
  BY <1>1, <1>2, TestRunsSound, Zenon
<1>4. CASE url.status = "tested"
  BY <1>1, <1>2, <1>3, <1>4 DEF UpdateUrl, Lifecycle!Test, Lifecycle!Succeed
<1>5. CASE url.status = "error"
  <2>1. failed[u] + 1 = MaxFailedTestRuns
    BY <1>1, <1>3, <1>5, SettingsAssumption
  <2>. QED
    BY <1>1, <1>2, <1>3, <1>5, <2>1 DEF UpdateUrl, Lifecycle!Test, Lifecycle!Dismiss
<1>6. CASE url.status = "scheduledForRetest"
  <2>1. failed[u] + 1 < MaxFailedTestRuns
    BY <1>1, <1>3, <1>6
  <2>2. /\ status' = [status EXCEPT ![u] = "scheduledForRetest"]
        /\ failed' = [failed EXCEPT ![u] = @ + 1]
    BY <1>1, <1>2, <1>3, <1>6 DEF UpdateUrl
  <2>3. Lifecycle!FailOnce(u)
    BY <1>1, <2>1, <2>2 DEF Lifecycle!FailOnce
  <2>. QED
    BY <1>1, <2>3 DEF Lifecycle!Test
<1>. QED
  BY <1>3, <1>4, <1>5, <1>6

(* The re-tester that hands a URL back retries it. *)
LEMMA RescheduleRefines ==
  ASSUME CalmInv, NEW r \in ReTesters, Reschedule(r)
  PROVE  \E u \in Urls : Lifecycle!Retry(u)
<1>1. PICK url \in todo[r] : UpdateUrl(url.url, "scheduled", url.failed, url.age)
  BY DEF Reschedule
<1>2. url.url \in Urls /\ status[url.url] = "scheduledForRetest" /\ url.failed = failed[url.url]
  BY <1>1 DEF CalmInv, ReTesterIsCurrent, TypeOK, ReTesterTypeOK, LoadedUrls
<1>3. Lifecycle!Retry(url.url)
  BY <1>1, <1>2 DEF UpdateUrl, Lifecycle!Retry, CalmInv, TypeOK, StorageTypeOK
<1>. QED
  BY <1>2, <1>3

(* Workers and re-testers move a URL through its life cycle as             *)
(* Documentation/TD_retest.md describes it, and in no other way: every     *)
(* step of the monitor is a step of the life cycle or leaves it alone.     *)
THEOREM LifecycleIsImplemented == ASSUME CalmDeployment PROVE Spec => ImplementsLifecycle
<1>1. Init => Lifecycle!LifecycleInit
  BY DEF Init, StorageInit, Lifecycle!LifecycleInit
<1>2. CalmInv /\ [Next]_vars => [Lifecycle!LifecycleNext]_(Lifecycle!lifecycleVars)
  <2>1. SUFFICES ASSUME CalmInv, [Next]_vars, ~UNCHANGED <<status, failed>>
                 PROVE  Lifecycle!LifecycleNext
    BY DEF Lifecycle!lifecycleVars
  <2>. USE DEF storageVars, queueVars, urlVars
  <2>2. CASE \E w \in Workers : Work(w)
    <3>1. PICK w \in Workers : Work(w)
      BY <2>2
    <3>2. TestUrl(w)
      BY <2>1, <3>1
      DEF Work, WorkerStep, WorkerFailure, Start, Shutdown, SelectActive, SelectInactive,
          PurgeQueue, PurgeRow, SelectScheduled, SelectQueue, DeclareQueue, GetMessage,
          GetNothing, GetFails, RegisterRun, RegisterFails, LoadUrl, LoadFails, SaveResult,
          IndexCases, SaveUrlFails, SaveFails, Republish, Ack, WorkerCrash
    <3>. QED
      BY <2>1, <3>2, TestUrlRefines DEF Lifecycle!LifecycleNext
  <2>3. CASE \E r \in ReTesters : Retest(r)
    <3>1. PICK r \in ReTesters : Retest(r)
      BY <2>3
    <3>2. Reschedule(r)
      BY <2>1, <3>1
      DEF Retest, ReTesterStep, ReTesterFailure, Scan, KeepResult, DeclareForRetest,
          PublishForRetest, RescheduleFails, ReTesterCrash
    <3>. QED
      BY <2>1, <3>2, RescheduleRefines DEF Lifecycle!LifecycleNext
  <2>4. CASE \E u \in Late : Front(u)
    BY <2>4 DEF CalmDeployment
  <2>5. CASE Tick \/ UNCHANGED vars
    BY <2>1, <2>5 DEF Tick, vars
  <2>. QED
    BY <2>1, <2>2, <2>3, <2>4, <2>5 DEF Next
<1>. QED
  BY <1>1, <1>2, CalmInvariance, PTL DEF Spec, ImplementsLifecycle, Lifecycle!LifecycleSpec

-----------------------------------------------------------------------------
(* Who has a URL.  In a safe deployment, where of all failures only those  *)
(* of the first statement of a save happen, every scheduled URL has an     *)
(* owner: a queue that holds its message, a worker that has taken it, or   *)
(* the re-tester that is about to publish it.                              *)

(* A worker that leaves the messages and the URL alone, and does not give  *)
(* up a URL that can be tested, leaves the URL with its owner.             *)
LEMMA OwnerStays ==
  ASSUME NEW w \in Workers, NEW u \in Urls, Carried(u),
         UNCHANGED <<reTesterVars, stage>>, ready'[u] = ready[u],
         Holds(w) /\ message[w] = u => Holds(w)' /\ message'[w] = u,
         \A v \in Workers \ {w} : pc'[v] = pc[v] /\ message'[v] = message[v]
  PROVE  Carried(u)'
  BY DEF Carried, reTesterVars

(* A step of a worker leaves every scheduled URL with an owner. *)
LEMMA WorkOwner ==
  ASSUME SafeDeployment, SafeInv, NEW w \in Workers, Work(w),
         NEW u \in Urls, status'[u] = "scheduled"
  PROVE  Carried(u)'
<1>. USE DEF TypeOK, WorkerTypeOK, BrokerTypeOK, StorageTypeOK, storageVars, brokerVars,
             queueVars, urlVars
<1>1. /\ CalmInv /\ CalmDeployment /\ TypeOK
      /\ UNCHANGED <<reTesterVars, stage>>
  BY DEF SafeInv, SafeDeployment, CalmInv, Work
<1>2. CASE Shutdown(w) \/ GetFails(w)
  <2>1. unacked[w] = NoMessage
    BY <1>1, <1>2 DEF Shutdown, GetFails, CalmInv, DeliveriesHaveWorkers
  <2>2. Carried(u)
    BY <1>2 DEF Shutdown, GetFails, SafeInv, NoUrlStranded
  <2>. QED
    BY <1>1, <1>2, <2>1, <2>2, OwnerStays DEF Shutdown, GetFails, Exit, Disconnect
<1>3. CASE \/ Start(w) \/ SelectActive(w) \/ SelectInactive(w) \/ PurgeRow(w) \/ SelectScheduled(w)
           \/ SelectQueue(w) \/ DeclareQueue(w) \/ GetNothing(w) \/ SaveResult(w) \/ IndexCases(w)
           \/ Ack(w)
  <2>1. Carried(u)
    BY <1>3
    DEF Start, SelectActive, SelectInactive, PurgeRow, SelectScheduled, SelectQueue, DeclareQueue,
        GetNothing, SaveResult, IndexCases, Ack, SafeInv, NoUrlStranded
  <2>. QED
    BY <1>1, <1>3, <2>1, OwnerStays
    DEF Start, SelectActive, SelectInactive, PurgeRow, SelectScheduled, SelectQueue, DeclareQueue,
        GetNothing, SaveResult, IndexCases, Ack
<1>4. CASE PurgeQueue(w)
  <2>1. PICK q \in names[w] : DeleteQueue(q)
    BY <1>4 DEF PurgeQueue
  <2>2. status[u] = "scheduled" /\ Carried(u)
    BY <1>4 DEF PurgeQueue, SafeInv, NoUrlStranded
  <2>3. QueueOf[u] # q
    BY <1>1, <1>4, <2>1, <2>2 DEF PurgeQueue, CalmInv, PurgeIsSafe, Unsettled
  <2>4. ready'[u] = ready[u]
    BY <2>1, <2>3 DEF DeleteQueue, In, Messages
  <2>. QED
    BY <1>1, <1>4, <2>2, <2>4, OwnerStays DEF PurgeQueue
<1>5. CASE GetMessage(w)
  <2>1. PICK m \in In(queue[w]) : Deliver(w, m) /\ message' = [message EXCEPT ![w] = m]
    BY <1>5 DEF GetMessage
  <2>2. Carried(u)
    BY <1>5 DEF GetMessage, SafeInv, NoUrlStranded
  <2>3. CASE m = u
    BY <1>1, <1>5, <2>1, <2>3 DEF GetMessage, Carried
  <2>4. CASE m # u
    BY <1>1, <1>5, <2>1, <2>2, <2>4, OwnerStays DEF GetMessage, Deliver, Messages
  <2>. QED
    BY <2>3, <2>4
<1>6. CASE RegisterRun(w) \/ RegisterFails(w)
  <2>1. Carried(u)
    BY <1>6 DEF RegisterRun, RegisterFails, SafeInv, NoUrlStranded
  <2>. QED
    BY <1>1, <1>6, <2>1, OwnerStays, PopulationAssumption DEF RegisterRun, RegisterFails
<1>7. CASE LoadUrl(w)
  <2>1. Carried(u) /\ Exists(u)
    BY <1>7 DEF LoadUrl, SafeInv, NoUrlStranded, Exists
  <2>. QED
    BY <1>1, <1>7, <2>1, OwnerStays DEF LoadUrl
<1>8. CASE LoadFails(w) \/ WorkerCrash(w)
  BY <1>8 DEF LoadFails, WorkerCrash, Strikes, SafeDeployment
<1>9. CASE TestUrl(w)
  <2>. DEFINE x == message[w]
  <2>1. x \in Urls /\ copy[w] \in UrlObjects /\ (x \in RootUrls) \in BOOLEAN
    BY <1>1, <1>9 DEF TestUrl
  <2>2. PICK url \in TestRuns(copy[w], x \in RootUrls) : UpdateUrl(x, url.status, url.failed, 0)
    BY <1>9 DEF TestUrl
  <2>3. /\ url \in UrlObjects
        /\ \/ /\ url.status = "tested"
              /\ url.failed = copy[w].failed
              /\ url.result # "none"
           \/ /\ url.status = "error"
              /\ url.failed = copy[w].failed + 1
              /\ url.failed >= MaxFailedTestRuns
           \/ /\ url.status = "scheduledForRetest"
              /\ url.failed = copy[w].failed + 1
              /\ url.failed < MaxFailedTestRuns
    BY <2>1, <2>2, TestRunsSound, Zenon
  <2>4. u # x /\ status[u] = "scheduled"
    BY <1>1, <2>1, <2>2, <2>3 DEF UpdateUrl
  <2>. QED
    BY <1>1, <1>9, <2>4, OwnerStays DEF TestUrl, SafeInv, NoUrlStranded
<1>10. CASE SaveUrlFails(w)
  <2>1. At(w, "test") /\ SaveFails(w, "storage") /\ Carried(u)
    BY <1>10 DEF SaveUrlFails, SaveFails, Strikes, SafeDeployment, SafeInv, NoUrlStranded
  <2>. QED
    BY <1>1, <2>1, OwnerStays DEF SaveFails
<1>11. CASE Republish(w)
  <2>1. Carried(u) /\ status[u] = "scheduled"
    BY <1>11 DEF Republish, SafeInv, NoUrlStranded
  <2>2. CASE message[w] = u
    <3>1. QueueOf[u] \in declared
      BY <1>1, <1>11, <2>1, <2>2 DEF Republish, CalmInv, QueueIsThere, Exists
    <3>. QED
      BY <1>1, <1>11, <2>2, <3>1 DEF Republish, Publish, Carried, Messages
  <2>3. CASE message[w] # u
    BY <1>1, <1>11, <2>1, <2>3, OwnerStays DEF Republish, Publish, Messages
  <2>. QED
    BY <2>2, <2>3
<1>. QED
  BY <1>2, <1>3, <1>4, <1>5, <1>6, <1>7, <1>8, <1>9, <1>10, <1>11 DEF Work, WorkerStep, WorkerFailure

(* A step of a re-tester leaves every scheduled URL with an owner. *)
LEMMA RetestOwner ==
  ASSUME SafeDeployment, SafeInv, NEW r \in ReTesters, Retest(r),
         NEW u \in Urls, status'[u] = "scheduled"
  PROVE  Carried(u)'
<1>. USE DEF TypeOK, ReTesterTypeOK, BrokerTypeOK, StorageTypeOK, storageVars, brokerVars,
             queueVars, urlVars, workerVars
<1>1. /\ CalmInv /\ CalmDeployment /\ TypeOK
      /\ UNCHANGED <<workerVars, stage>>
      /\ \A s \in ReTesters : s = r
  BY DEF SafeInv, SafeDeployment, CalmDeployment, CalmInv, Retest
<1>2. CASE Scan(r) \/ KeepResult(r) \/ DeclareForRetest(r)
  BY <1>1, <1>2 DEF Scan, KeepResult, DeclareForRetest, SafeInv, NoUrlStranded, Carried
<1>3. CASE Reschedule(r)
  <2>1. PICK url \in todo[r] : /\ UpdateUrl(url.url, "scheduled", url.failed, url.age)
                               /\ hand' = [hand EXCEPT ![r] = url]
    BY <1>3 DEF Reschedule
  <2>2. rpc[r] = "save" /\ rpc'[r] = "result" /\ hand'[r] = url /\ UNCHANGED ready
    BY <1>1, <1>3, <2>1 DEF Reschedule
  <2>3. CASE url.url = u
    BY <2>2, <2>3 DEF Carried
  <2>4. CASE url.url # u
    BY <1>1, <2>1, <2>2, <2>4 DEF UpdateUrl, SafeInv, NoUrlStranded, Carried
  <2>. QED
    BY <2>3, <2>4
<1>4. CASE PublishForRetest(r)
  <2>1. Carried(u)
    BY <1>4 DEF PublishForRetest, SafeInv, NoUrlStranded
  <2>2. QueueOf[hand[r].url] \in declared /\ hand[r].url \in Urls
    BY <1>1, <1>4 DEF PublishForRetest, CalmInv, QueueIsThere, LoadedUrls
  <2>3. ready' = [ready EXCEPT ![hand[r].url] = @ + 1]
    BY <1>4, <2>2 DEF PublishForRetest, Publish
  <2>4. CASE hand[r].url = u
    BY <1>1, <2>3, <2>4 DEF Carried, Messages
  <2>5. CASE hand[r].url # u
    BY <1>1, <1>4, <2>1, <2>3, <2>5 DEF PublishForRetest, Carried, Messages
  <2>. QED
    BY <2>4, <2>5
<1>5. CASE ReTesterFailure(r)
  <2>1. rpc[r] = "save" /\ Abort(r) /\ UNCHANGED <<brokerVars, storageVars>>
    BY <1>5 DEF ReTesterFailure, RescheduleFails, ReTesterCrash, Strikes, SafeDeployment
  <2>. QED
    BY <1>1, <2>1 DEF Abort, SafeInv, NoUrlStranded, Carried
<1>. QED
  BY <1>2, <1>3, <1>4, <1>5 DEF Retest, ReTesterStep

(* As long as no failure but that of the first statement of a save         *)
(* happens, no URL is left scheduled without a party that will test or     *)
(* publish it, whatever the interleaving of workers, re-tester and the     *)
(* deletion of queues (Storage::deleteEmptyQueues, Worker::processMessage, *)
(* ReTester::retest).                                                      *)
THEOREM NoUrlIsStranded == ASSUME SafeDeployment PROVE Spec => []NoUrlStranded
<1>1. Init => SafeInv
  <2>1. SUFFICES ASSUME Init PROVE SafeInv
    OBVIOUS
  <2>2. CalmInv
    BY <2>1, InitInv DEF SafeDeployment
  <2>3. NoUrlStranded
    BY <2>1, PopulationAssumption
    DEF Init, BrokerInit, StorageInit, Known, NoUrlStranded, Carried, Messages, SafeDeployment,
        CalmDeployment
  <2>. QED
    BY <2>2, <2>3 DEF SafeInv
<1>2. SafeInv /\ [Next]_vars => SafeInv'
  <2>1. SUFFICES ASSUME SafeInv, [Next]_vars PROVE SafeInv'
    OBVIOUS
  <2>2. CalmInv'
    BY <2>1, NextInv DEF SafeDeployment, SafeInv
  <2>3. ASSUME NEW u \in Urls, status'[u] = "scheduled" PROVE Carried(u)'
    <3>1. CASE Tick \/ UNCHANGED vars
      BY <2>1, <2>3, <3>1
      DEF Tick, vars, brokerVars, storageVars, workerVars, reTesterVars, SafeInv, NoUrlStranded,
          Carried
    <3>2. CASE \E x \in Late : Front(x)
      BY <3>2 DEF SafeDeployment, CalmDeployment
    <3>. QED
      BY <2>1, <2>3, <3>1, <3>2, WorkOwner, RetestOwner DEF Next
  <2>. QED
    BY <2>2, <2>3 DEF SafeInv, NoUrlStranded
<1>3. SafeInv => NoUrlStranded
  BY DEF SafeInv
<1>. QED
  BY <1>1, <1>2, <1>3, PTL DEF Spec

-----------------------------------------------------------------------------
(* The choice of a queue, whatever fails and however many workers,         *)
(* re-testers and front ends there are.                                    *)

(* The steps of a worker, as far as they concern the choice of a queue: it *)
(* moves no other worker, and only saveQueue() makes a queue less rested.  *)
LEMMA ChoiceCases ==
  ASSUME TypeOK, NEW w \in Workers, Work(w)
  PROVE  /\ \A v \in Workers \ {w} : pc'[v] = pc[v] /\ queue'[v] = queue[v]
         /\ ~RegisterRun(w) => \A q \in Queues : Rested(q) => Rested(q)'
         /\ pc'[w] \in {"declare", "get", "register"} =>
              SelectQueue(w) \/ DeclareQueue(w) \/ GetMessage(w)
<1>. USE DEF TypeOK, WorkerTypeOK, StorageTypeOK, brokerVars, storageVars, urlVars, queueVars, Rested
<1>1. CASE Exit(w) /\ UNCHANGED storageVars
  BY <1>1 DEF Exit
<1>2. CASE PurgeRow(w)
  BY <1>2, SettingsAssumption DEF PurgeRow, DeleteRow, Never, IdleCap
<1>3. CASE SelectQueue(w) \/ DeclareQueue(w) \/ GetMessage(w)
  BY <1>3 DEF SelectQueue, DeclareQueue, GetMessage
<1>4. CASE RegisterRun(w)
  BY <1>4 DEF RegisterRun
<1>5. CASE \/ Start(w) \/ SelectActive(w) \/ SelectInactive(w) \/ PurgeQueue(w)
           \/ SelectScheduled(w) \/ GetNothing(w) \/ RegisterFails(w)
           \/ LoadUrl(w) \/ LoadFails(w) \/ Republish(w) \/ Ack(w)
  BY <1>5
  DEF Start, SelectActive, SelectInactive, PurgeQueue, SelectScheduled, GetNothing,
      RegisterFails, LoadUrl, LoadFails, Republish, Ack
<1>6. CASE TestUrl(w) \/ SaveResult(w) \/ IndexCases(w) \/ SaveUrlFails(w)
  BY <1>6 DEF TestUrl, SaveResult, IndexCases, SaveUrlFails, SaveFails
<1>. QED
  BY <1>1, <1>2, <1>3, <1>4, <1>5, <1>6
  DEF Work, WorkerStep, WorkerFailure, Shutdown, GetFails, WorkerCrash

(* No worker spoils the choice of another, unless they share it. *)
LEMMA WorkKeepsChoice ==
  ASSUME TypeOK, TypeOK', ChoiceIsCurrent, ~SharedChoice, NEW w \in Workers, Work(w)
  PROVE  ChoiceIsCurrent'
<1>. USE DEF TypeOK, WorkerTypeOK, StorageTypeOK, Processing
<1>1. SUFFICES ASSUME NEW v \in Workers, pc'[v] \in {"declare", "get", "register"}
               PROVE  Rested(queue[v])'
  BY DEF ChoiceIsCurrent, Rested
<1>2. CASE v = w
  <2>1. SelectQueue(w) \/ DeclareQueue(w) \/ GetMessage(w)
    BY <1>1, <1>2, ChoiceCases
  <2>2. CASE SelectQueue(w)
    BY <1>1, <1>2, <2>2 DEF SelectQueue, Candidates, Rested, storageVars
  <2>3. CASE DeclareQueue(w) \/ GetMessage(w)
    <3>1. pc[w] \in {"declare", "get"} /\ UNCHANGED <<queue, idle>>
      BY <2>3 DEF DeclareQueue, GetMessage, storageVars
    <3>. QED
      BY <1>2, <3>1 DEF ChoiceIsCurrent, Rested
  <2>. QED
    BY <2>1, <2>2, <2>3
<1>3. CASE v # w
  <2>1. pc'[v] = pc[v] /\ queue'[v] = queue[v] /\ queue[v] \in Queues /\ Rested(queue[v])
    BY <1>1, <1>3, ChoiceCases DEF ChoiceIsCurrent
  <2>2. CASE RegisterRun(w)
    <3>1. queue[w] # queue[v]
      BY <1>1, <1>3, <2>1, <2>2 DEF RegisterRun, SharedChoice
    <3>. QED
      BY <2>1, <2>2, <3>1 DEF RegisterRun, Touch, Rested
  <2>3. CASE ~RegisterRun(w)
    BY <2>1, <2>3, ChoiceCases
  <2>. QED
    BY <2>2, <2>3
<1>. QED
  BY <1>2, <1>3

(* Nor does any other process, and the clock only adds to the rest. *)
LEMMA NextKeepsChoice ==
  ASSUME TypeOK, TypeOK', ChoiceIsCurrent, ~SharedChoice, [Next]_vars
  PROVE  ChoiceIsCurrent'
<1>. USE DEF TypeOK, WorkerTypeOK, brokerVars, storageVars, workerVars, urlVars, queueVars
<1>1. CASE \E r \in ReTesters : Retest(r)
  BY <1>1
  DEF Retest, ReTesterStep, ReTesterFailure, Scan, Reschedule, KeepResult, DeclareForRetest,
      Declare, PublishForRetest, RescheduleFails, ReTesterCrash, ChoiceIsCurrent, Rested
<1>2. CASE \E u \in Late : Front(u)
  BY <1>2
  DEF Front, Submit, AddQueue, AddUrl, DeclareForUrl, Declare, PublishUrl, ChoiceIsCurrent, Rested
<1>3. CASE Tick
  <2>1. ASSUME NEW q \in Queues, Rested(q) PROVE Rested(q)'
    BY <1>3, <2>1, SettingsAssumption DEF Tick, Age, Rested, IdleCap, Never, StorageTypeOK
  <2>2. UNCHANGED <<pc, queue>>
    BY <1>3 DEF Tick
  <2>. QED
    BY <2>1, <2>2, Zenon DEF ChoiceIsCurrent, Processing
<1>4. CASE UNCHANGED vars
  BY <1>4 DEF vars, ChoiceIsCurrent, Rested
<1>. QED
  BY <1>1, <1>2, <1>3, <1>4, WorkKeepsChoice DEF Next

(* The flooding threshold of Storage::getQueueToSubscribeTo is lost in one *)
(* way only: two workers are between the choice of a queue and saveQueue() *)
(* with the same queue.  As long as this does not happen it is kept, by    *)
(* any number of workers, re-testers and front ends, whatever fails.       *)
THEOREM FloodingNeedsARace == Spec /\ []~SharedChoice => FloodingRespected
<1>1. Init => ChoiceIsCurrent
  BY DEF Init, WorkerInit, ChoiceIsCurrent
<1>2. TypeOK /\ TypeOK' /\ ChoiceIsCurrent /\ ~SharedChoice /\ [Next]_vars => ChoiceIsCurrent'
  BY NextKeepsChoice
<1>3. ChoiceIsCurrent =>
        [\A w \in Workers : At(w, "register") /\ pc'[w] \in {"load", "ack"} =>
           idle[queue[w]] > FloodingThreshold]_vars
  BY DEF ChoiceIsCurrent, Rested
<1>. QED
  BY <1>1, <1>2, <1>3, TypeCorrect, PTL DEF Spec, FloodingRespected

-----------------------------------------------------------------------------
(* The queues that are needed. *)

(* Neither deleting a queue nor changing a status leaves a URL that must   *)
(* still be tested without a queue at the broker.                          *)
LEMMA NextKeepsQueues ==
  ASSUME CalmDeployment, CalmInv, NeededQueuesExist, [Next]_vars
  PROVE  NeededQueuesExist'
<1>. USE DEF NeededQueuesExist, Unsettled
<1>0. /\ TypeOK /\ MessagesAreCurrent /\ ReTesterIsCurrent /\ PurgeIsSafe
      /\ Late = {}
  BY DEF CalmInv, CalmDeployment
<1>1. ASSUME NEW w \in Workers, PurgeQueue(w) PROVE NeededQueuesExist'
  BY <1>0, <1>1 DEF PurgeQueue, DeleteQueue, PurgeIsSafe, storageVars
<1>2. ASSUME NEW w \in Workers, TestUrl(w) PROVE NeededQueuesExist'
  <2>1. message[w] \in Urls /\ status[message[w]] = "scheduled" /\ declared' = declared
    BY <1>0, <1>2 DEF TestUrl, TypeOK, WorkerTypeOK, MessagesAreCurrent, brokerVars
  <2>2. \A u \in Urls \ {message[w]} : status'[u] = status[u]
    BY <1>2 DEF TestUrl, UpdateUrl
  <2>. QED
    BY <2>1, <2>2
<1>3. ASSUME NEW r \in ReTesters, Reschedule(r) PROVE NeededQueuesExist'
  <2>1. PICK url \in todo[r] : UpdateUrl(url.url, "scheduled", url.failed, url.age)
    BY <1>3 DEF Reschedule
  <2>2. url.url \in Urls /\ status[url.url] = "scheduledForRetest" /\ declared' = declared
    BY <1>0, <1>3, <2>1 DEF Reschedule, TypeOK, ReTesterTypeOK, LoadedUrls, ReTesterIsCurrent, brokerVars
  <2>3. \A u \in Urls \ {url.url} : status'[u] = status[u]
    BY <2>1 DEF UpdateUrl
  <2>. QED
    BY <2>2, <2>3
<1>4. ASSUME NEW w \in Workers, Work(w), ~PurgeQueue(w), ~TestUrl(w)
      PROVE  UNCHANGED status /\ declared \subseteq declared'
  BY <1>4
  DEF Work, Start, WorkerStep, WorkerFailure, Shutdown, SelectActive, SelectInactive, PurgeRow,
      SelectScheduled, SelectQueue, DeclareQueue, Declare, GetMessage, GetNothing, GetFails, RegisterRun,
      RegisterFails, LoadUrl, LoadFails, SaveResult, IndexCases, SaveUrlFails, SaveFails, Republish, Ack,
      WorkerCrash, brokerVars, storageVars, urlVars
<1>5. ASSUME NEW r \in ReTesters, Retest(r), ~Reschedule(r)
      PROVE  UNCHANGED status /\ declared \subseteq declared'
  BY <1>5
  DEF Retest, ReTesterStep, ReTesterFailure, Scan, KeepResult, DeclareForRetest, Declare,
      PublishForRetest, RescheduleFails, ReTesterCrash, brokerVars, storageVars, urlVars
<1>6. CASE Tick \/ UNCHANGED vars
  BY <1>6 DEF Tick, vars, brokerVars, storageVars
<1>. QED
  BY <1>0, <1>1, <1>2, <1>3, <1>4, <1>5, <1>6 DEF Next

(* In a calm deployment with any number of workers, basic_get finds no     *)
(* queue (Worker::run, GetFails) only if all URLs of the queue are done.   *)
THEOREM GetFailsHarmlessly == ASSUME CalmDeployment PROVE Spec => []GetFailsForDoneQueuesOnly
<1>1. Init => NeededQueuesExist
  BY DEF Init, BrokerInit, StorageInit, NeededQueuesExist, Unsettled, Messages, Known
<1>2. CalmInv /\ NeededQueuesExist /\ [Next]_vars => NeededQueuesExist'
  BY NextKeepsQueues
<1>3. NeededQueuesExist => GetFailsForDoneQueuesOnly
  BY DEF NeededQueuesExist, GetFailsForDoneQueuesOnly, Unsettled
<1>. QED
  BY <1>1, <1>2, <1>3, CalmInvariance, PTL DEF Spec

-----------------------------------------------------------------------------
(* The results of test runs *)

(* A step of a worker that neither starts nor ends a test run, nor stores  *)
(* anything of one.                                                        *)
QuietWork(w) ==
  /\ pc'[w] \notin {"test", "result", "solr"}
  /\ pc[w] \notin {"result", "solr"}
  /\ \A v \in Workers \ {w} : pc'[v] = pc[v] /\ copy'[v] = copy[v] /\ message'[v] = message[v]
  /\ UNCHANGED <<status, result, indexed, reTesterVars>>

(* The steps of a worker, as far as they concern results. *)
LEMMA WorkCases ==
  ASSUME CalmDeployment, TypeOK, NEW w \in Workers, Work(w)
  PROVE  QuietWork(w) \/ LoadUrl(w) \/ TestUrl(w) \/ SaveResult(w) \/ IndexCases(w)
<1>. USE DEF TypeOK, WorkerTypeOK, brokerVars, storageVars, urlVars, queueVars, QuietWork
<1>1. UNCHANGED reTesterVars
  BY DEF Work
<1>2. ~WorkerCrash(w) /\ ~SaveFails(w, "result") /\ ~SaveFails(w, "solr")
  BY DEF CalmDeployment, WorkerCrash, SaveFails, Strikes
<1>3. CASE Shutdown(w) \/ GetFails(w)
  BY <1>1, <1>3 DEF Shutdown, GetFails, Exit
<1>4. CASE \/ Start(w) \/ SelectActive(w) \/ SelectInactive(w) \/ PurgeQueue(w) \/ PurgeRow(w)
           \/ SelectScheduled(w) \/ SelectQueue(w) \/ DeclareQueue(w) \/ GetMessage(w) \/ GetNothing(w)
  BY <1>1, <1>4
  DEF Start, SelectActive, SelectInactive, PurgeQueue, PurgeRow, SelectScheduled, SelectQueue,
      DeclareQueue, GetMessage, GetNothing
<1>5. CASE RegisterRun(w) \/ RegisterFails(w) \/ LoadFails(w) \/ Republish(w) \/ Ack(w)
  BY <1>1, <1>5 DEF RegisterRun, RegisterFails, LoadFails, Republish, Ack
<1>6. CASE SaveUrlFails(w)
  BY <1>1, <1>2, <1>6 DEF SaveUrlFails, SaveFails
<1>. QED
  BY <1>2, <1>3, <1>4, <1>5, <1>6 DEF Work, WorkerStep, WorkerFailure

(* Who has a URL that can be tested has one without a result. *)
LEMMA WorkKeepsFresh ==
  ASSUME CalmDeployment, FreshInv, NEW w \in Workers, Work(w)
  PROVE  ResultsAreFresh'
<1>. USE DEF TypeOK, WorkerTypeOK, StorageTypeOK, ReTesterTypeOK, queueVars, reTesterVars
<1>0. TypeOK /\ CalmInv /\ ResultsAreFresh /\ UNCHANGED reTesterVars
  BY DEF FreshInv, CalmInv, Work
<1>1. CASE QuietWork(w)
  BY <1>0, <1>1 DEF QuietWork, ResultsAreFresh
<1>2. CASE LoadUrl(w)
  <2>1. message[w] \in Urls /\ (Exists(message[w]) => status[message[w]] = "scheduled")
    BY <1>0, <1>2 DEF LoadUrl, CalmInv, MessagesAreCurrent, Testable, Exists
  <2>2. Exists(message[w]) => Load(message[w]).result = "none"
    BY <1>0, <2>1 DEF Load, Url, ResultsAreFresh
  <2>. QED
    BY <1>0, <1>2, <2>2 DEF LoadUrl, ResultsAreFresh, storageVars
<1>3. CASE TestUrl(w)
  <2>1. message[w] \in Urls /\ copy[w] \in UrlObjects /\ copy[w].result = "none"
        /\ (message[w] \in RootUrls) \in BOOLEAN /\ status[message[w]] = "scheduled"
    BY <1>0, <1>3 DEF TestUrl, ResultsAreFresh, CalmInv, MessagesAreCurrent
  <2>2. PICK url \in TestRuns(copy[w], message[w] \in RootUrls) :
          /\ UpdateUrl(message[w], url.status, url.failed, 0)
          /\ copy' = [copy EXCEPT ![w] = url]
    BY <1>3 DEF TestUrl
  <2>3. url.status # "tested" => url.result = "none"
    BY <2>1, <2>2, TestRunsSound
  <2>4. status' = [status EXCEPT ![message[w]] = url.status] /\ result' = result
        /\ pc' = [pc EXCEPT ![w] = "result"] /\ message' = message
    BY <1>3, <2>2 DEF TestUrl, UpdateUrl
  <2>5. \A v \in Workers : At(v, "result") /\ copy[v].result # "none" => message[v] # message[w]
    BY <1>0, <2>1 DEF ResultsAreFresh
  <2>6. \A u \in Urls : status'[u] # "tested" => result'[u] = "none"
    BY <1>0, <2>1, <2>4 DEF ResultsAreFresh
  <2>7. ASSUME NEW v \in Workers
        PROVE  /\ pc'[v] = "test" => copy'[v].result = "none"
               /\ pc'[v] = "result" /\ copy'[v].result # "none" => status'[message'[v]] = "tested"
    <3>1. CASE v = w
      BY <1>0, <2>1, <2>2, <2>3, <2>4, <3>1
    <3>2. CASE v # w
      <4>1. pc'[v] = pc[v] /\ copy'[v] = copy[v]
        BY <1>0, <2>2, <2>4, <3>2
      <4>. QED
        BY <1>0, <2>1, <2>4, <2>5, <4>1 DEF ResultsAreFresh
    <3>. QED
      BY <3>1, <3>2
  <2>. QED
    BY <1>0, <2>6, <2>7 DEF ResultsAreFresh
<1>4. CASE SaveResult(w)
  <2>1. message[w] \in Urls /\ (copy[w].result # "none" => status[message[w]] = "tested")
    BY <1>0, <1>4 DEF SaveResult, ResultsAreFresh
  <2>. QED
    BY <1>0, <1>4, <2>1 DEF SaveResult, UpdateResult, ResultsAreFresh
<1>5. CASE IndexCases(w)
  BY <1>0, <1>5 DEF IndexCases, SendCases, ResultsAreFresh
<1>. QED
  BY <1>0, <1>1, <1>2, <1>3, <1>4, <1>5, WorkCases

(* So has the re-tester, which writes back what it loaded. *)
LEMMA RetestKeepsFresh ==
  ASSUME CalmDeployment, FreshInv, NEW r \in ReTesters, Retest(r)
  PROVE  ResultsAreFresh'
<1>. USE DEF TypeOK, WorkerTypeOK, StorageTypeOK, ReTesterTypeOK, queueVars, workerVars, brokerVars
<1>0. TypeOK /\ CalmInv /\ ResultsAreFresh /\ UNCHANGED workerVars /\ \A s \in ReTesters : s = r
  BY DEF FreshInv, CalmInv, Retest, CalmDeployment
<1>1. CASE Scan(r)
  <2>1. \A x \in todo'[r] : x.result = "none"
    BY <1>0, <1>1 DEF Scan, Due, Loaded, ResultsAreFresh
  <2>. QED
    BY <1>0, <1>1, <2>1 DEF Scan, ResultsAreFresh, storageVars, urlVars
<1>2. CASE Reschedule(r)
  <2>1. PICK url \in todo[r] :
          /\ UpdateUrl(url.url, "scheduled", url.failed, url.age)
          /\ todo' = [todo EXCEPT ![r] = @ \ {url}]
          /\ hand' = [hand EXCEPT ![r] = url]
    BY <1>2 DEF Reschedule
  <2>2. /\ url.url \in Urls /\ url.result = "none" /\ status[url.url] = "scheduledForRetest"
        /\ result[url.url] = "none"
    BY <1>0, <2>1 DEF LoadedUrls, CalmInv, ReTesterIsCurrent, ResultsAreFresh
  <2>3. status' = [status EXCEPT ![url.url] = "scheduled"] /\ result' = result
    BY <1>2, <2>1 DEF Reschedule, UpdateUrl
  <2>4. \A v \in Workers : At(v, "result") /\ copy[v].result # "none" => message[v] # url.url
    BY <1>0, <2>2 DEF ResultsAreFresh
  <2>5. UNCHANGED <<pc, copy, message>> /\ \A v \in Workers : At(v, "result") => message[v] \in Urls
    BY <1>0
  <2>6. /\ \A u \in Urls : status'[u] # "tested" => result'[u] = "none"
        /\ \A v \in Workers : At(v, "result") /\ copy[v].result # "none" => status'[message[v]] = "tested"
    BY <1>0, <2>2, <2>3, <2>4, <2>5 DEF ResultsAreFresh
  <2>7. hand'[r].result = "none" /\ todo'[r] \subseteq todo[r]
    BY <1>0, <2>1, <2>2
  <2>. QED
    BY <1>0, <2>5, <2>6, <2>7 DEF ResultsAreFresh
<1>3. CASE KeepResult(r)
  <2>1. hand[r].url \in Urls /\ hand[r].result = "none"
    BY <1>0, <1>3 DEF KeepResult, LoadedUrls, ResultsAreFresh
  <2>. QED
    BY <1>0, <1>3, <2>1 DEF KeepResult, UpdateResult, ResultsAreFresh
<1>4. CASE DeclareForRetest(r)
  BY <1>0, <1>4 DEF DeclareForRetest, ResultsAreFresh, storageVars, urlVars
<1>5. CASE PublishForRetest(r)
  BY <1>0, <1>5 DEF PublishForRetest, ResultsAreFresh, storageVars, urlVars
<1>6. CASE RescheduleFails(r) \/ ReTesterCrash(r)
  BY <1>0, <1>6 DEF RescheduleFails, ReTesterCrash, Abort, ResultsAreFresh, storageVars, urlVars
<1>. QED
  BY <1>1, <1>2, <1>3, <1>4, <1>5, <1>6 DEF Retest, ReTesterStep, ReTesterFailure

(* The clock and the front end leave results alone. *)
LEMMA RestKeepsFresh ==
  ASSUME CalmDeployment, ResultsAreFresh, (\E u \in Late : Front(u)) \/ Tick \/ UNCHANGED vars
  PROVE  ResultsAreFresh'
<1>1. ~ \E u \in Late : Front(u)
  BY DEF CalmDeployment
<1>. QED
  BY <1>1 DEF Tick, vars, ResultsAreFresh, storageVars, workerVars, reTesterVars

(* In a calm deployment a URL that is not tested has no stored result, and *)
(* no worker or re-tester is about to write one it loaded earlier          *)
(* (Storage::createUrlFromStorageRecord, ReTester::retest).                *)
THEOREM FreshInvariance == ASSUME CalmDeployment PROVE Spec => []FreshInv
<1>1. Init => ResultsAreFresh
  BY DEF Init, StorageInit, WorkerInit, ReTesterInit, ResultsAreFresh
<1>2. FreshInv /\ [Next]_vars => ResultsAreFresh'
  BY WorkKeepsFresh, RetestKeepsFresh, RestKeepsFresh DEF Next, FreshInv
<1>. QED
  BY <1>1, <1>2, CalmInvariance, PTL DEF Spec, FreshInv

(* A tested URL with cases has them from this run of the testers           *)
(* (QuailTester::run, Storage::saveUrl): in a calm deployment the result   *)
(* of an earlier run never makes a later one succeed.                      *)
THEOREM TestedBecauseOfThisRun == ASSUME CalmDeployment PROVE Spec => TestedByThisRun
<1>1. ASSUME FreshInv, [Next]_vars, NEW w \in Workers, At(w, "test"), pc'[w] = "result",
             copy'[w].result = "cases"
      PROVE  copy'[w].hasCases
  <2>. USE DEF TypeOK, WorkerTypeOK, StorageTypeOK
  <2>0. TypeOK /\ CalmInv /\ ResultsAreFresh
    BY <1>1 DEF FreshInv, CalmInv
  <2>1. TestUrl(w)
    <3>1. CASE \E v \in Workers : Work(v)
      <4>1. PICK v \in Workers : Work(v)
        BY <3>1
      <4>2. \/ QuietWork(v) \/ LoadUrl(v) \/ TestUrl(v) \/ SaveResult(v) \/ IndexCases(v)
        BY <2>0, <4>1, WorkCases
      <4>3. v = w
        BY <1>1, <2>0, <4>2 DEF QuietWork, LoadUrl, TestUrl, SaveResult, IndexCases
      <4>. QED
        BY <1>1, <2>0, <4>2, <4>3 DEF QuietWork, LoadUrl, SaveResult, IndexCases
    <3>. QED
      BY <1>1, <3>1 DEF Next, Retest, Front, Tick, vars, workerVars
  <2>2. copy[w] \in UrlObjects /\ copy[w].result = "none" /\ (message[w] \in RootUrls) \in BOOLEAN
    BY <1>1, <2>0 DEF ResultsAreFresh
  <2>3. PICK url \in TestRuns(copy[w], message[w] \in RootUrls) : copy' = [copy EXCEPT ![w] = url]
    BY <2>1 DEF TestUrl
  <2>4. copy'[w] = url
    BY <2>0, <2>3
  <2>5. PICK object, isRoot : object = copy[w] /\ isRoot = (message[w] \in RootUrls)
    OBVIOUS
  <2>6. object \in UrlObjects /\ isRoot \in BOOLEAN /\ url \in TestRuns(object, isRoot) /\ object.result = "none"
    BY <2>2, <2>3, <2>5
  <2>7. url.result = "cases" => url.hasCases
    BY <2>6, TestRunsSound
  <2>. QED
    BY <1>1, <2>4, <2>7
<1>2. FreshInv /\ [Next]_vars =>
        [\A w \in Workers :
           At(w, "test") /\ pc'[w] = "result" /\ copy'[w].status = "tested"
                         /\ copy'[w].result = "cases" => copy'[w].hasCases]_vars
  BY <1>1
<1>. QED
  BY <1>2, FreshInvariance, PTL DEF TestedByThisRun, Spec

-----------------------------------------------------------------------------
(* What is tested is stored and indexed in the end, unless a worker is so  *)
(* slow that the URL is handed out again before its save is complete.      *)

(* A step that changes neither a result nor what a worker will store. *)
LEMMA ArriveStays ==
  ASSUME ResultsArrive,
         \A v \in Workers : pc'[v] \in {"result", "solr"} <=> pc[v] \in {"result", "solr"},
         \A v \in Workers : pc[v] \in {"result", "solr"} =>
            pc'[v] = pc[v] /\ message'[v] = message[v] /\ copy'[v] = copy[v] /\ message[v] \in Urls,
         \A u \in Urls : status'[u] = "tested" <=> status[u] = "tested",
         \A u \in Urls : status[u] = "tested" => result'[u] = result[u],
         indexed' = indexed
  PROVE  ResultsArrive'
<1>1. ASSUME NEW u \in Urls, status'[u] = "tested"
      PROVE  \/ \E w \in Workers : pc'[w] = "result" /\ message'[w] = u
             \/ /\ result'[u] # "none"
                /\ result'[u] = "cases" => indexed'[u] \/ \E w \in Workers : pc'[w] = "solr" /\ message'[w] = u
  BY <1>1 DEF ResultsArrive
<1>2. ASSUME NEW w \in Workers
      PROVE  /\ pc'[w] = "result" /\ status'[message'[w]] = "tested" =>
                  /\ copy'[w].result # "none"
                  /\ copy'[w].result = "cases" => copy'[w].hasCases
             /\ pc'[w] = "solr" => copy'[w].hasCases
  BY <1>2 DEF ResultsArrive
<1>3. ASSUME NEW v \in Workers, NEW w \in Workers, {pc'[v], pc'[w]} \subseteq {"result", "solr"},
             message'[v] = message'[w]
      PROVE  v = w
  BY <1>3 DEF ResultsArrive
<1>. QED
  BY <1>1, <1>2, <1>3 DEF ResultsArrive

(* What a worker tests or saves is with no other worker that saves. *)
LEMMA SavesAlone ==
  ASSUME FreshInv, ResultsArrive, ~LateSave, NEW w \in Workers, pc[w] \in {"test", "result", "solr"},
         NEW v \in Workers, v # w, pc[v] \in {"result", "solr"}
  PROVE  message[v] # message[w]
<1>1. CASE pc[w] = "test"
  <2>1. status[message[w]] = "scheduled"
    BY <1>1 DEF FreshInv, CalmInv, MessagesAreCurrent
  <2>. QED
    BY <2>1 DEF LateSave
<1>2. CASE pc[w] \in {"result", "solr"}
  BY <1>2 DEF ResultsArrive
<1>. QED
  BY <1>1, <1>2

LEMMA WorkArrives ==
  ASSUME CalmDeployment, FreshInv, ResultsArrive, ~LateSave, NEW w \in Workers, Work(w)
  PROVE  ResultsArrive'
<1>. USE DEF TypeOK, WorkerTypeOK, StorageTypeOK, ReTesterTypeOK, queueVars, reTesterVars
<1>0. TypeOK /\ CalmInv /\ ResultsAreFresh
  BY DEF FreshInv, CalmInv
<1>1. CASE QuietWork(w)
  BY <1>0, <1>1, ArriveStays DEF QuietWork
<1>2. CASE LoadUrl(w)
  <2>1. /\ pc[w] = "load" /\ pc'[w] \in {"test", "ack"} /\ UNCHANGED <<status, result, indexed, message>>
        /\ \A v \in Workers \ {w} : pc'[v] = pc[v] /\ copy'[v] = copy[v]
    BY <1>0, <1>2 DEF LoadUrl, storageVars
  <2>. QED
    BY <1>0, <2>1, ArriveStays
<1>3. CASE TestUrl(w)
  <2>1. message[w] \in Urls /\ copy[w] \in UrlObjects /\ copy[w].result = "none"
        /\ (message[w] \in RootUrls) \in BOOLEAN /\ pc[w] = "test"
    BY <1>0, <1>3 DEF TestUrl, ResultsAreFresh
  <2>2. PICK url \in TestRuns(copy[w], message[w] \in RootUrls) :
          /\ UpdateUrl(message[w], url.status, url.failed, 0)
          /\ copy' = [copy EXCEPT ![w] = url]
    BY <1>3 DEF TestUrl
  <2>3. /\ url.status = "tested" => url.result # "none"
        /\ url.result = "cases" => url.hasCases
    BY <2>1, <2>2, TestRunsSound
  <2>4. /\ status' = [status EXCEPT ![message[w]] = url.status]
        /\ UNCHANGED <<result, indexed, message>>
        /\ pc'[w] = "result" /\ copy'[w] = url
        /\ \A v \in Workers \ {w} : pc'[v] = pc[v] /\ copy'[v] = copy[v]
    BY <1>0, <1>3, <2>2 DEF TestUrl, UpdateUrl
  <2>5. status'[message'[w]] = url.status
    BY <1>0, <2>1, <2>4
  <2>6. \A v \in Workers \ {w} : pc[v] \in {"result", "solr"} =>
          message[v] # message[w] /\ message[v] \in Urls
    BY <1>0, <2>1, SavesAlone
  <2>7. ASSUME NEW u \in Urls, status'[u] = "tested"
        PROVE  \/ \E v \in Workers : pc'[v] = "result" /\ message'[v] = u
               \/ /\ result'[u] # "none"
                  /\ result'[u] = "cases" => indexed'[u] \/ \E v \in Workers : pc'[v] = "solr" /\ message'[v] = u
    <3>1. CASE u = message[w]
      BY <2>4, <3>1
    <3>2. CASE u # message[w]
      <4>1. status[u] = "tested"
        BY <1>0, <2>1, <2>4, <2>7, <3>2
      <4>2. \A v \in Workers : pc[v] \in {"result", "solr"} => pc'[v] = pc[v]
        BY <2>1, <2>4
      <4>. QED
        BY <2>4, <4>1, <4>2 DEF ResultsArrive
    <3>. QED
      BY <3>1, <3>2
  <2>8. ASSUME NEW v \in Workers
        PROVE  /\ pc'[v] = "result" /\ status'[message'[v]] = "tested" =>
                    /\ copy'[v].result # "none"
                    /\ copy'[v].result = "cases" => copy'[v].hasCases
               /\ pc'[v] = "solr" => copy'[v].hasCases
    <3>1. CASE v = w
      BY <2>3, <2>4, <2>5, <3>1
    <3>2. CASE v # w
      BY <1>0, <2>1, <2>4, <2>6, <3>2 DEF ResultsArrive
    <3>. QED
      BY <3>1, <3>2
  <2>9. ASSUME NEW v \in Workers, NEW x \in Workers, {pc'[v], pc'[x]} \subseteq {"result", "solr"},
               message'[v] = message'[x]
        PROVE  v = x
    BY <2>4, <2>6, <2>9 DEF ResultsArrive
  <2>. QED
    BY <2>7, <2>8, <2>9 DEF ResultsArrive
<1>4. CASE SaveResult(w)
  <2>1. /\ message[w] \in Urls /\ copy[w] \in UrlObjects /\ pc[w] = "result"
        /\ UNCHANGED <<status, indexed, message>>
        /\ result' = [result EXCEPT ![message[w]] = copy[w].result]
        /\ pc'[w] = IF copy[w].hasCases THEN "solr" ELSE "ack"
        /\ copy[w].hasCases => copy'[w] = copy[w]
        /\ \A v \in Workers \ {w} : pc'[v] = pc[v] /\ copy'[v] = copy[v]
    BY <1>0, <1>4 DEF SaveResult, UpdateResult
  <2>2. ASSUME NEW u \in Urls, status'[u] = "tested"
        PROVE  \/ \E v \in Workers : pc'[v] = "result" /\ message'[v] = u
               \/ /\ result'[u] # "none"
                  /\ result'[u] = "cases" => indexed'[u] \/ \E v \in Workers : pc'[v] = "solr" /\ message'[v] = u
    <3>1. CASE u = message[w]
      BY <1>0, <2>1, <2>2, <3>1 DEF ResultsArrive
    <3>2. CASE u # message[w]
      BY <1>0, <2>1, <2>2, <3>2 DEF ResultsArrive
    <3>. QED
      BY <3>1, <3>2
  <2>3. ASSUME NEW v \in Workers
        PROVE  /\ pc'[v] = "result" /\ status'[message'[v]] = "tested" =>
                    /\ copy'[v].result # "none"
                    /\ copy'[v].result = "cases" => copy'[v].hasCases
               /\ pc'[v] = "solr" => copy'[v].hasCases
    BY <2>1, <2>3 DEF ResultsArrive
  <2>4. ASSUME NEW v \in Workers, NEW x \in Workers, {pc'[v], pc'[x]} \subseteq {"result", "solr"},
               message'[v] = message'[x]
        PROVE  v = x
    BY <2>1, <2>4 DEF ResultsArrive
  <2>. QED
    BY <2>2, <2>3, <2>4 DEF ResultsArrive
<1>5. CASE IndexCases(w)
  <2>1. /\ message[w] \in Urls /\ pc[w] = "solr" /\ pc'[w] = "ack" /\ UNCHANGED <<status, result, message>>
        /\ indexed' = [indexed EXCEPT ![message[w]] = @ \/ copy[w].hasCases]
        /\ \A v \in Workers \ {w} : pc'[v] = pc[v] /\ copy'[v] = copy[v]
    BY <1>0, <1>5 DEF IndexCases, SendCases
  <2>2. copy[w].hasCases = TRUE /\ indexed \in [Urls -> BOOLEAN]
    BY <1>0, <2>1 DEF ResultsArrive, UrlObjects
  <2>3. indexed'[message[w]] /\ \A u \in Urls : indexed[u] => indexed'[u]
    BY <2>1, <2>2, Zenon
  <2>4. ASSUME NEW u \in Urls, status'[u] = "tested"
        PROVE  \/ \E v \in Workers : pc'[v] = "result" /\ message'[v] = u
               \/ /\ result'[u] # "none"
                  /\ result'[u] = "cases" => indexed'[u] \/ \E v \in Workers : pc'[v] = "solr" /\ message'[v] = u
    BY <2>1, <2>3, <2>4 DEF ResultsArrive
  <2>5. ASSUME NEW v \in Workers
        PROVE  /\ pc'[v] = "result" /\ status'[message'[v]] = "tested" =>
                    /\ copy'[v].result # "none"
                    /\ copy'[v].result = "cases" => copy'[v].hasCases
               /\ pc'[v] = "solr" => copy'[v].hasCases
    BY <2>1, <2>5 DEF ResultsArrive
  <2>6. ASSUME NEW v \in Workers, NEW x \in Workers, {pc'[v], pc'[x]} \subseteq {"result", "solr"},
               message'[v] = message'[x]
        PROVE  v = x
    BY <2>1, <2>6 DEF ResultsArrive
  <2>. QED
    BY <2>4, <2>5, <2>6 DEF ResultsArrive
<1>. QED
  BY <1>0, <1>1, <1>2, <1>3, <1>4, <1>5, WorkCases

(* A re-tester works on URLs that have not been tested. *)
LEMMA RetestArrives ==
  ASSUME CalmDeployment, FreshInv, ResultsArrive, NEW r \in ReTesters, Retest(r)
  PROVE  ResultsArrive'
<1>. USE DEF TypeOK, WorkerTypeOK, StorageTypeOK, ReTesterTypeOK, queueVars, workerVars
<1>0. TypeOK /\ CalmInv /\ ResultsAreFresh /\ UNCHANGED workerVars
  BY DEF FreshInv, CalmInv, Retest
<1>1. CASE Reschedule(r)
  <2>1. PICK url \in todo[r] : UpdateUrl(url.url, "scheduled", url.failed, url.age)
    BY <1>1 DEF Reschedule
  <2>2. url.url \in Urls /\ status[url.url] = "scheduledForRetest"
    BY <1>0, <2>1 DEF LoadedUrls, CalmInv, ReTesterIsCurrent
  <2>3. status' = [status EXCEPT ![url.url] = "scheduled"] /\ UNCHANGED <<result, indexed>>
    BY <1>1, <2>1 DEF Reschedule, UpdateUrl
  <2>. QED
    BY <1>0, <2>2, <2>3, ArriveStays
<1>2. CASE KeepResult(r)
  <2>1. hand[r].url \in Urls /\ status[hand[r].url] = "scheduled"
    BY <1>0, <1>2 DEF KeepResult, LoadedUrls, CalmInv, ReTesterIsCurrent
  <2>2. UNCHANGED <<status, indexed>> /\ result' = [result EXCEPT ![hand[r].url] = hand[r].result]
    BY <1>2 DEF KeepResult, UpdateResult
  <2>. QED
    BY <1>0, <2>1, <2>2, ArriveStays
<1>3. CASE UNCHANGED <<status, result, indexed>>
  BY <1>0, <1>3, ArriveStays
<1>. QED
  BY <1>1, <1>2, <1>3
  DEF Retest, ReTesterStep, ReTesterFailure, Scan, DeclareForRetest, PublishForRetest,
      RescheduleFails, ReTesterCrash, storageVars, urlVars

(* In a calm deployment, with any number of workers, a tested URL that     *)
(* nobody works on any more has its result in the storage and its cases in *)
(* Solr (Storage::saveUrl), unless a worker was so slow that the URL was   *)
(* handed out again between its UPDATE url and the end of its save.        *)
THEOREM TestedReachesStorage ==
  ASSUME CalmDeployment PROVE Spec /\ []~LateSave => []TestedIsPublished
<1>1. Init => ResultsArrive
  BY DEF Init, StorageInit, WorkerInit, ResultsArrive
<1>2. FreshInv /\ ResultsArrive /\ ~LateSave /\ [Next]_vars => ResultsArrive'
  <2>1. ASSUME FreshInv, ResultsArrive, (\E u \in Late : Front(u)) \/ Tick \/ UNCHANGED vars
        PROVE  ResultsArrive'
    <3>1. UNCHANGED <<status, result, indexed, pc, message, copy>>
      BY <2>1 DEF CalmDeployment, Tick, vars, storageVars, workerVars
    <3>. QED
      BY <2>1, <3>1 DEF ResultsArrive
  <2>. QED
    BY <2>1, WorkArrives, RetestArrives DEF Next
<1>3. ResultsArrive => TestedIsPublished
  BY DEF ResultsArrive, TestedIsPublished
<1>. QED
  BY <1>1, <1>2, <1>3, FreshInvariance, PTL DEF Spec

=============================================================================
