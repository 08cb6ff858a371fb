------------------------------ MODULE Storage ------------------------------
(***************************************************************************)
(* The result storage (application/src/Storage.php): the MySQL tables url, *)
(* url_result and queue, and the Solr index of test cases.  An operator    *)
(* stands for one statement; the callers decide what happens between two   *)
(* statements, as PDO runs in autocommit mode and no code opens a          *)
(* transaction.                                                            *)
(*                                                                         *)
(* Time stamps are kept as ages, which the clock increases and which stop  *)
(* growing once no comparison can tell them apart.                         *)
(***************************************************************************)
EXTENDS Deployment

VARIABLES
  status,       \* url.status
  failed,       \* url.failed_test_count
  sinceTested,  \* the age of url.last_processed
  result,       \* what url_result.quail_result holds
  indexed,      \* whether Solr holds cases of the URL
  rows,         \* the names in table queue
  idle          \* the age of queue.last_request

urlVars == <<status, failed, sinceTested, result, indexed>>
queueVars == <<rows, idle>>
storageVars == <<status, failed, sinceTested, result, indexed, rows, idle>>

(* TestingStatusInterface; "absent" is a URL id without a row. *)
Statuses == {"scheduled", "tested", "error", "scheduledForRetest", "absent"}

(* Quail results: none (NULL or an empty list), or a non-empty result of a *)
(* page without or with cases to be indexed.                               *)
Results == {"none", "clean", "cases"}

(* last_processed is NULL. *)
NotProcessed == RetestThreshold + 1

(* Ages of last_request: IdleCap is "longer than every threshold" and      *)
(* Never is a last_request of 0, the default of a new row.                 *)
IdleCap == 1 + IF FloodingThreshold > RowExpiry THEN FloodingThreshold ELSE RowExpiry
Never == IdleCap + 1

StorageTypeOK ==
  /\ status \in [Urls -> Statuses]
  /\ failed \in [Urls -> Nat]
  /\ sinceTested \in [Urls -> 0 .. NotProcessed]
  /\ result \in [Urls -> Results]
  /\ indexed \in [Urls -> BOOLEAN]
  /\ rows \subseteq Queues
  /\ idle \in [Queues -> 0 .. Never]

StorageInit ==
  /\ status = [u \in Urls |-> IF u \in Known THEN "scheduled" ELSE "absent"]
  /\ failed = [u \in Urls |-> 0]
  /\ sinceTested = [u \in Urls |-> NotProcessed]
  /\ result = [u \in Urls |-> "none"]
  /\ indexed = [u \in Urls |-> FALSE]
  /\ rows = {QueueOf[m] : m \in Messages \ Late}
  /\ idle = [q \in Queues |-> Never]

-----------------------------------------------------------------------------
(* Table url, table url_result and the Solr index. *)

(* getUrlById: NULL for an id without a row. *)
Exists(u) == status[u] # "absent"

(* Mutants of Due: the threshold is forgotten, or compared the wrong way.  *)
DueAtOnce(u) == status[u] = "scheduledForRetest"
DueTooLate(u) == status[u] = "scheduledForRetest" /\ sinceTested[u] = NotProcessed

(* getUrlsByStatusAndLastProcessedDateTime as ReTester::retest calls it:   *)
(* to be re-tested and processed at least RetestThreshold ago; NULL does   *)
(* not compare.                                                            *)
Due(u) == status[u] = "scheduledForRetest" /\ sinceTested[u] = RetestThreshold

(* saveUrl, first statement: UPDATE url. *)
UpdateUrl(u, newStatus, newFailed, age) ==
  /\ status' = [status EXCEPT ![u] = newStatus]
  /\ failed' = [failed EXCEPT ![u] = newFailed]
  /\ sinceTested' = [sinceTested EXCEPT ![u] = age]

(* saveUrl, second statement: UPDATE url_result. *)
UpdateResult(u, newResult) == result' = [result EXCEPT ![u] = newResult]

(* sendCaseResultsToSolr: sends nothing when there are no cases, and never *)
(* removes the documents of an earlier run.                                *)
SendCases(u, hasCases) == indexed' = [indexed EXCEPT ![u] = @ \/ hasCases]

-----------------------------------------------------------------------------
(* Table queue. *)

(* A mutant of ActiveQueues that forgets the URLs that wait for a re-test. *)
ActiveQueuesScheduledOnly == {QueueOf[u] : u \in {v \in Urls : status[v] = "scheduled"}}

(* deleteEmptyQueues: the queues with URLs that must still be tested. *)
ActiveQueues ==
  {QueueOf[u] : u \in {v \in Urls : status[v] \in {"scheduled", "scheduledForRetest"}}}

(* getQueueToSubscribeTo: the queues with URLs that can be tested now. *)
ScheduledQueues == {QueueOf[u] : u \in {v \in Urls : status[v] = "scheduled"}}

(* A mutant of Rested with <= for <. *)
RestedInclusive(q) == idle[q] >= FloodingThreshold

(* last_request < time() - flooding threshold *)
Rested(q) == idle[q] > FloodingThreshold

(* ORDER BY last_request ASC, priority ASC, created ASC.  Two ages at      *)
(* IdleCap may differ either way.                                          *)
Precedes(p, q) ==
  \/ idle[p] > idle[q]
  \/ idle[p] = idle[q] /\ idle[p] # IdleCap /\ Rank[p] < Rank[q]

(* The rows the second SELECT of getQueueToSubscribeTo may return. *)
Candidates(active) ==
  LET available == {q \in rows \cap active : Rested(q)}
  IN  {q \in available : \A p \in available : ~Precedes(p, q)}

(* saveQueue after setLastRequest(time()); the UPDATE of a row that was    *)
(* deleted in the meantime matches nothing and is no error.                *)
Touch(q) == idle' = IF q \in rows THEN [idle EXCEPT ![q] = 0] ELSE idle

(* deleteEmptyQueues: the DELETE and its condition on last_request. *)
DeleteRow(q) ==
  LET stale == q \in rows /\ idle[q] # Never /\ idle[q] > RowExpiry
  IN  /\ rows' = IF stale THEN rows \ {q} ELSE rows
      /\ idle' = IF stale THEN [idle EXCEPT ![q] = Never] ELSE idle

-----------------------------------------------------------------------------
(* One tick of the clock. *)
Age ==
  /\ sinceTested' = [u \in Urls |-> IF sinceTested[u] < RetestThreshold
                                    THEN sinceTested[u] + 1 ELSE sinceTested[u]]
  /\ idle' = [q \in Queues |-> IF idle[q] < IdleCap THEN idle[q] + 1 ELSE idle[q]]

=============================================================================
