-------------------------- MODULE MonitorInvariant --------------------------
(***************************************************************************)
(* The deployments in which the monitor keeps its promises, and the        *)
(* inductive invariant that shows why.  Its core is that a URL is owned:   *)
(* while it is scheduled, exactly one party has it - its queue, a worker   *)
(* or the re-tester - and otherwise no one.                                *)
(***************************************************************************)
EXTENDS Monitor

(* All URLs are known from the start, re-testers do not overlap, and       *)
(* nothing fails but the first statement of a save, the loading of a URL,  *)
(* and re-tester processes.                                                *)
CalmDeployment ==
  /\ Late = {}
  /\ Faults \subseteq {"storage", "read", "reTesterCrash"}
  /\ \A r, s \in ReTesters : r = s

(* Only the first statement of a save may fail. *)
SafeDeployment == CalmDeployment /\ Faults \subseteq {"storage"}

(* The URL must still be tested. *)
Unsettled(u) == status[u] \in {"scheduled", "scheduledForRetest"}

(* The URL can be tested now, or its id has no row. *)
Testable(u) == status[u] \in {"scheduled", "absent"}

-----------------------------------------------------------------------------
(* There is at most one copy of a message, in the queue or with a worker. *)
OneCopy ==
  /\ \A m \in Messages : ready[m] <= 1
  /\ \A w \in Workers : Holds(w) =>
       /\ message[w] \in Messages
       /\ queue[w] = QueueOf[message[w]]
       /\ ready[message[w]] = 0
       /\ \A v \in Workers : Holds(v) /\ message[v] = message[w] => v = w

(* Where there is a message, the URL can be tested, and the count the      *)
(* worker loaded is the count in the table.                                *)
MessagesAreCurrent ==
  /\ \A u \in Urls : ready[u] > 0 => Testable(u)
  /\ \A w \in Workers : Holds(w) /\ message[w] \in Urls => Testable(message[w])
  /\ \A w \in Workers : At(w, "test") =>
       /\ status[message[w]] = "scheduled"
       /\ copy[w].failed = failed[message[w]]

(* The URL the re-tester has in hand is with no one else, and those it has *)
(* loaded but not reached are as they were.                                *)
ReTesterIsCurrent ==
  \A r \in ReTesters :
    /\ HasInHand(r) =>
         /\ status[hand[r].url] = "scheduled"
         /\ ready[hand[r].url] = 0
         /\ \A w \in Workers : Holds(w) => message[w] # hand[r].url
    /\ \A x \in todo[r] :
         /\ status[x.url] = "scheduledForRetest"
         /\ x.failed = failed[x.url]
         /\ x.age = RetestThreshold
         /\ sinceTested[x.url] = RetestThreshold
         /\ \A y \in todo[r] : y.url = x.url => y = x
    /\ rpc[r] = "idle" => todo[r] = {}

(* A worker deletes only queues that are done with for good. *)
PurgeIsSafe ==
  \A w \in Workers :
    /\ At(w, "inactive") => \A u \in Urls : Unsettled(u) => QueueOf[u] \in names[w]
    /\ pc[w] \in {"purge", "purgeRow"} =>
         \A u \in Urls : QueueOf[u] \in names[w] => ~Unsettled(u)
    /\ At(w, "purgeRow") => queue[w] \in names[w]

(* A message, and the URL a worker or re-tester is about to publish, has a *)
(* queue to go to.                                                         *)
QueueIsThere ==
  /\ \A m \in Messages : ready[m] > 0 => QueueOf[m] \in declared
  /\ \A w \in Workers : Holds(w) /\ message[w] \in Urls /\ Exists(message[w]) =>
       QueueOf[message[w]] \in declared
  /\ \A r \in ReTesters : rpc[r] = "publish" => QueueOf[hand[r].url] \in declared

(* Only a worker that processes a message has an unacknowledged delivery. *)
DeliveriesHaveWorkers ==
  \A w \in Workers : unacked[w] # NoMessage =>
    pc[w] \in {"register", "load", "test", "result", "solr", "republish", "ack"}

(* The failed test count steers the status. *)
CountMatchesStatus ==
  \A u \in Urls : IF status[u] = "error" THEN failed[u] = MaxFailedTestRuns
                                         ELSE failed[u] < MaxFailedTestRuns

(* A queue exists as long as one of its URLs must still be tested. *)
NeededQueuesExist == \A u \in Urls : Unsettled(u) => QueueOf[u] \in declared

(* A URL that failed is only scheduled after the re-test threshold. *)
RetestsAreSpaced ==
  \A u \in Urls : status[u] = "scheduled" /\ failed[u] > 0 => sinceTested[u] = RetestThreshold

(* No URL is added or removed. *)
UrlsAreFixed == \A u \in Urls : stage[u] = "done" /\ (u \in Known => Exists(u))

CalmInv ==
  /\ TypeOK
  /\ UrlsAreFixed
  /\ OneCopy
  /\ MessagesAreCurrent
  /\ ReTesterIsCurrent
  /\ PurgeIsSafe
  /\ QueueIsThere
  /\ DeliveriesHaveWorkers
  /\ CountMatchesStatus
  /\ RetestsAreSpaced
  /\ NoOrphanedQueue

(* Every scheduled URL has an owner (in a safe deployment). *)
SafeInv == CalmInv /\ NoUrlStranded

(* A URL that was not tested has no result, so the one a test run finds is *)
(* its own.                                                                *)
ResultsAreFresh ==
  /\ \A u \in Urls : status[u] # "tested" => result[u] = "none"
  /\ \A w \in Workers :
       /\ At(w, "test") => copy[w].result = "none"
       /\ At(w, "result") /\ copy[w].result # "none" => status[message[w]] = "tested"
  /\ \A r \in ReTesters :
       /\ HasInHand(r) => hand[r].result = "none"
       /\ \A x \in todo[r] : x.result = "none"

FreshInv == CalmInv /\ ResultsAreFresh

-----------------------------------------------------------------------------
(* The race in which the flooding threshold is lost: two workers are       *)
(* between the choice of a queue and saveQueue() with the same queue.      *)
SharedChoice ==
  \E v, w \in Workers :
    /\ v # w
    /\ {pc[v], pc[w]} \subseteq {"declare", "get", "register"}
    /\ queue[v] = queue[w]

(* Without it, what a worker found when it chose its queue is still so     *)
(* when it relies on it.                                                   *)
ChoiceIsCurrent ==
  \A w \in Workers : pc[w] \in {"declare", "get", "register"} => Rested(queue[w])

(* The race in which a result is lost: a worker is still between UPDATE    *)
(* url and the end of its save when the URL has been handed out again.     *)
LateSave ==
  \E w \in Workers : pc[w] \in {"result", "solr"} /\ status[message[w]] = "scheduled"

(* Without it, one worker at a time saves the outcome of a URL, and it is  *)
(* still about to store what a tested URL lacks.                           *)
ResultsArrive ==
  /\ \A v, w \in Workers :
       {pc[v], pc[w]} \subseteq {"result", "solr"} /\ message[v] = message[w] => v = w
  /\ \A u \in Urls : status[u] = "tested" =>
       \/ \E w \in Workers : At(w, "result") /\ message[w] = u
       \/ /\ result[u] # "none"
          /\ result[u] = "cases" => indexed[u] \/ \E w \in Workers : At(w, "solr") /\ message[w] = u
  /\ \A w \in Workers :
       /\ At(w, "result") /\ status[message[w]] = "tested" =>
            /\ copy[w].result # "none"
            /\ copy[w].result = "cases" => copy[w].hasCases
       /\ At(w, "solr") => copy[w].hasCases

=============================================================================
