------------------------------- MODULE Worker -------------------------------
(***************************************************************************)
(* A worker process (application/src/Worker.php): run() polls the storage  *)
(* for a queue and the broker for a message, processMessage() tests the    *)
(* URL of the message and stores the outcome.                              *)
(*                                                                         *)
(* One action per statement that another process can observe: an SQL       *)
(* statement, a broker call, the request to Solr.  Local computation is    *)
(* part of the action before or after it.                                  *)
(***************************************************************************)
EXTENDS Broker, Testers, Failures

VARIABLES
  pc,       \* where each worker is
  uptime,   \* time() - $workerStart, up to WorkerTtl
  names,    \* the queue names the last SELECT returned
  queue,    \* $queueName in deleteEmptyQueues, $this->queue afterwards
  message,  \* $message
  copy      \* $url

workerVars == <<pc, uptime, names, queue, message, copy>>

(* No Url object is loaded. *)
NoUrl == Url("absent", 0, "none", FALSE)

Places == {"down", "poll", "loop", "inactive", "purge", "purgeRow", "select",
           "declare", "get", "register", "load", "test", "result", "solr",
           "republish", "ack"}

(* The places of processMessage() before the final acknowledgement. *)
Processing == {"register", "load", "test", "result", "solr", "republish"}

WorkerTypeOK ==
  /\ pc \in [Workers -> Places]
  /\ uptime \in [Workers -> 0 .. WorkerTtl]
  /\ names \in [Workers -> SUBSET Queues]
  /\ queue \in [Workers -> Queues \cup {NoQueue}]
  /\ message \in [Workers -> Messages \cup {NoMessage}]
  /\ copy \in [Workers -> UrlObjects]
  /\ \A w \in Workers :
       /\ pc[w] \in {"purgeRow", "declare", "get"} \cup Processing => queue[w] \in Queues
       /\ pc[w] \in Processing => message[w] \in Messages
       /\ pc[w] \notin Processing \cup {"ack"} => message[w] = NoMessage
       /\ pc[w] \in {"load", "test", "result", "solr"} => message[w] \in Urls

WorkerInit ==
  /\ pc = [w \in Workers |-> "down"]
  /\ uptime = [w \in Workers |-> 0]
  /\ names = [w \in Workers |-> {}]
  /\ queue = [w \in Workers |-> NoQueue]
  /\ message = [w \in Workers |-> NoMessage]
  /\ copy = [w \in Workers |-> NoUrl]

At(w, place) == pc[w] = place
Goto(w, place) == pc' = [pc EXCEPT ![w] = place]

(* The end of the process, whatever the cause. *)
Exit(w) ==
  /\ Goto(w, "down")
  /\ uptime' = [uptime EXCEPT ![w] = 0]
  /\ names' = [names EXCEPT ![w] = {}]
  /\ queue' = [queue EXCEPT ![w] = NoQueue]
  /\ message' = [message EXCEPT ![w] = NoMessage]
  /\ copy' = [copy EXCEPT ![w] = NoUrl]
  /\ Disconnect(w)

-----------------------------------------------------------------------------
(* run(): the process and its loop. *)

(* The daemon starts the process; the first test of the loop condition     *)
(* follows within the second and succeeds.                                 *)
Start(w) ==
  /\ At(w, "down")
  /\ Goto(w, "poll")
  /\ UNCHANGED <<uptime, names, queue, message, copy, brokerVars, storageVars, faults>>

(* The loop condition fails: the time to live has been reached. *)
Shutdown(w) ==
  /\ At(w, "loop")
  /\ uptime[w] >= WorkerTtl
  /\ Exit(w)
  /\ UNCHANGED <<declared, storageVars, faults>>

-----------------------------------------------------------------------------
(* getQueueToSubscribeTo() and deleteEmptyQueues(). *)

(* The names of the queues for which URLs must still be tested. *)
SelectActive(w) ==
  /\ At(w, "poll") \/ (At(w, "loop") /\ uptime[w] < WorkerTtl)
  /\ Goto(w, "inactive")
  /\ names' = [names EXCEPT ![w] = ActiveQueues]
  /\ UNCHANGED <<uptime, queue, message, copy, brokerVars, storageVars, faults>>

(* The names of all other queues. *)
SelectInactive(w) ==
  /\ At(w, "inactive")
  /\ Goto(w, "purge")
  /\ names' = [names EXCEPT ![w] = rows \ @]
  /\ UNCHANGED <<uptime, queue, message, copy, brokerVars, storageVars, faults>>

(* One pass of the foreach: first the queue at the broker ... *)
PurgeQueue(w) ==
  /\ At(w, "purge")
  /\ \E q \in names[w] :
       /\ DeleteQueue(q)
       /\ queue' = [queue EXCEPT ![w] = q]
  /\ Goto(w, "purgeRow")
  /\ UNCHANGED <<uptime, names, message, copy, storageVars, faults>>

(* ... then its row. *)
PurgeRow(w) ==
  /\ At(w, "purgeRow")
  /\ DeleteRow(queue[w])
  /\ Goto(w, "purge")
  /\ names' = [names EXCEPT ![w] = @ \ {queue[w]}]
  /\ queue' = [queue EXCEPT ![w] = NoQueue]
  /\ UNCHANGED <<uptime, message, copy, brokerVars, urlVars, faults>>

(* The names of the queues with scheduled URLs. *)
SelectScheduled(w) ==
  /\ At(w, "purge")
  /\ names[w] = {}
  /\ Goto(w, IF ScheduledQueues = {} THEN "loop" ELSE "select")
  /\ names' = [names EXCEPT ![w] = ScheduledQueues]
  /\ UNCHANGED <<uptime, queue, message, copy, brokerVars, storageVars, faults>>

(* Of those, the available queue that has rested longest. *)
SelectQueue(w) ==
  /\ At(w, "select")
  /\ names' = [names EXCEPT ![w] = {}]
  /\ \/ /\ Candidates(names[w]) = {}
        /\ Goto(w, "loop")
        /\ UNCHANGED queue
     \/ /\ Goto(w, "declare")
        /\ \E q \in Candidates(names[w]) : queue' = [queue EXCEPT ![w] = q]
  /\ UNCHANGED <<uptime, message, copy, brokerVars, storageVars, faults>>

-----------------------------------------------------------------------------
(* run(): the message. *)

DeclareQueue(w) ==
  /\ At(w, "declare")
  /\ Declare(queue[w])
  /\ Goto(w, "get")
  /\ UNCHANGED <<uptime, names, queue, message, copy, ready, unacked, storageVars, faults>>

(* A mutant of GetMessage: basic_get with no_ack. *)
GetMessageNoAck(w) ==
  /\ At(w, "get")
  /\ \E m \in In(queue[w]) :
       /\ ready[m] > 0
       /\ ready' = [ready EXCEPT ![m] = @ - 1]
       /\ message' = [message EXCEPT ![w] = m]
  /\ Goto(w, "register")
  /\ UNCHANGED <<uptime, names, queue, copy, declared, unacked, storageVars, faults>>

GetMessage(w) ==
  /\ At(w, "get")
  /\ \E m \in In(queue[w]) :
       /\ Deliver(w, m)
       /\ message' = [message EXCEPT ![w] = m]
  /\ Goto(w, "register")
  /\ UNCHANGED <<uptime, names, queue, copy, declared, storageVars, faults>>

GetNothing(w) ==
  /\ At(w, "get")
  /\ queue[w] \in declared
  /\ Empty(queue[w])
  /\ Goto(w, "loop")
  /\ queue' = [queue EXCEPT ![w] = NoQueue]
  /\ UNCHANGED <<uptime, names, message, copy, brokerVars, storageVars, faults>>

(* Another worker deleted the queue since it was declared: the broker      *)
(* answers 404 and closes the channel, and no code catches the exception.  *)
GetFails(w) ==
  /\ At(w, "get")
  /\ queue[w] \notin declared
  /\ Exit(w)
  /\ UNCHANGED <<declared, storageVars, faults>>

-----------------------------------------------------------------------------
(* processMessage() *)

(* A mutant of RegisterRun that does not validate the message. *)
RegisterRunUnvalidated(w) ==
  /\ At(w, "register")
  /\ Touch(queue[w])
  /\ Goto(w, "load")
  /\ UNCHANGED <<uptime, names, queue, message, copy, brokerVars, urlVars, rows, faults>>

(* saveQueue(), then validateMessage(): a malformed message is only        *)
(* acknowledged.                                                           *)
RegisterRun(w) ==
  /\ At(w, "register")
  /\ Touch(queue[w])
  /\ Goto(w, IF message[w] \in Malformed THEN "ack" ELSE "load")
  /\ UNCHANGED <<uptime, names, queue, message, copy, brokerVars, urlVars, rows, faults>>

(* saveQueue() fails: StorageException. *)
RegisterFails(w) ==
  /\ At(w, "register")
  /\ Strikes("storage")
  /\ Goto(w, "republish")
  /\ UNCHANGED <<uptime, names, queue, message, copy, brokerVars, storageVars>>

(* getUrlById(): a message for an unknown URL is only acknowledged. *)
LoadUrl(w) ==
  /\ At(w, "load")
  /\ IF Exists(message[w])
     THEN Goto(w, "test") /\ copy' = [copy EXCEPT ![w] = Load(message[w])]
     ELSE Goto(w, "ack") /\ UNCHANGED copy
  /\ UNCHANGED <<uptime, names, queue, message, brokerVars, storageVars, faults>>

(* getUrlById() fails with a PDOException, which is not a StorageException: *)
(* it is logged and the message is acknowledged.                           *)
LoadFails(w) ==
  /\ At(w, "load")
  /\ Strikes("read")
  /\ Goto(w, "ack")
  /\ UNCHANGED <<uptime, names, queue, message, copy, brokerVars, storageVars>>

(* $this->tester->run($url) up to saveUrl()'s UPDATE url. *)
TestUrl(w) ==
  /\ At(w, "test")
  /\ \E url \in TestRuns(copy[w], message[w] \in RootUrls) :
       /\ UpdateUrl(message[w], url.status, url.failed, 0)
       /\ copy' = [copy EXCEPT ![w] = url]
  /\ Goto(w, "result")
  /\ UNCHANGED <<uptime, names, queue, message, brokerVars, result, indexed, queueVars, faults>>

(* A mutant of SaveFails: the exception is logged like any other. *)
SaveFailsSilently(w, kind) ==
  /\ Strikes(kind)
  /\ Goto(w, "ack")
  /\ copy' = [copy EXCEPT ![w] = NoUrl]
  /\ UNCHANGED <<uptime, names, queue, message, brokerVars, storageVars>>

(* saveUrl() gives up with a StorageException. *)
SaveFails(w, kind) ==
  /\ Strikes(kind)
  /\ Goto(w, "republish")
  /\ copy' = [copy EXCEPT ![w] = NoUrl]
  /\ UNCHANGED <<uptime, names, queue, message, brokerVars, storageVars>>

(* A mutant of SaveResult: saveUrl() does not call sendCaseResultsToSolr(). *)
SaveResultOnly(w) ==
  /\ At(w, "result")
  /\ UpdateResult(message[w], copy[w].result)
  /\ Goto(w, "ack")
  /\ copy' = [copy EXCEPT ![w] = NoUrl]
  /\ UNCHANGED <<uptime, names, queue, message, brokerVars,
                 status, failed, sinceTested, indexed, queueVars, faults>>

(* UPDATE url_result; Solr is called only if there are cases. *)
SaveResult(w) ==
  /\ At(w, "result")
  /\ UpdateResult(message[w], copy[w].result)
  /\ Goto(w, IF copy[w].hasCases THEN "solr" ELSE "ack")
  /\ copy' = [copy EXCEPT ![w] = IF @.hasCases THEN @ ELSE NoUrl]
  /\ UNCHANGED <<uptime, names, queue, message, brokerVars,
                 status, failed, sinceTested, indexed, queueVars, faults>>

IndexCases(w) ==
  /\ At(w, "solr")
  /\ SendCases(message[w], copy[w].hasCases)
  /\ Goto(w, "ack")
  /\ copy' = [copy EXCEPT ![w] = NoUrl]
  /\ UNCHANGED <<uptime, names, queue, message, brokerVars,
                 status, failed, sinceTested, result, queueVars, faults>>

SaveUrlFails(w) ==
  \/ At(w, "test") /\ SaveFails(w, "storage")
  \/ At(w, "result") /\ SaveFails(w, "result")
  \/ At(w, "solr") /\ SaveFails(w, "solr")

(* catch (StorageException $e) *)
Republish(w) ==
  /\ At(w, "republish")
  /\ Publish(message[w])
  /\ Goto(w, "ack")
  /\ UNCHANGED <<uptime, names, queue, message, copy, declared, unacked, storageVars, faults>>

(* A mutant of Ack that does not acknowledge the message. *)
AckForgotten(w) ==
  /\ At(w, "ack")
  /\ Goto(w, "loop")
  /\ message' = [message EXCEPT ![w] = NoMessage]
  /\ queue' = [queue EXCEPT ![w] = NoQueue]
  /\ UNCHANGED <<uptime, names, copy, brokerVars, storageVars, faults>>

Ack(w) ==
  /\ At(w, "ack")
  /\ Acknowledge(w)
  /\ Goto(w, "loop")
  /\ message' = [message EXCEPT ![w] = NoMessage]
  /\ queue' = [queue EXCEPT ![w] = NoQueue]
  /\ UNCHANGED <<uptime, names, copy, declared, ready, storageVars, faults>>

-----------------------------------------------------------------------------
(* The process is killed, or an exception outside processMessage() ends it. *)
WorkerCrash(w) ==
  /\ ~At(w, "down")
  /\ Strikes("workerCrash")
  /\ Exit(w)
  /\ UNCHANGED <<declared, storageVars>>

(* What a running worker does as long as the services answer. *)
WorkerStep(w) ==
  \/ Shutdown(w)
  \/ SelectActive(w) \/ SelectInactive(w) \/ PurgeQueue(w) \/ PurgeRow(w)
  \/ SelectScheduled(w) \/ SelectQueue(w)
  \/ DeclareQueue(w) \/ GetMessage(w) \/ GetNothing(w) \/ GetFails(w)
  \/ RegisterRun(w) \/ LoadUrl(w)
  \/ TestUrl(w) \/ SaveResult(w) \/ IndexCases(w)
  \/ Republish(w) \/ Ack(w)

WorkerFailure(w) ==
  \/ RegisterFails(w) \/ LoadFails(w) \/ SaveUrlFails(w) \/ WorkerCrash(w)

(* uptime at the next tick. *)
WorkerAge ==
  uptime' = [w \in Workers |-> IF pc[w] # "down" /\ uptime[w] < WorkerTtl
                               THEN uptime[w] + 1 ELSE uptime[w]]

=============================================================================
