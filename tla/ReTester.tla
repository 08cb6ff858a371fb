------------------------------ MODULE ReTester ------------------------------
(***************************************************************************)
(* The re-tester (application/src/Testing/ReTester.php): a short-lived     *)
(* process that hands the URLs that are due for another test run back to   *)
(* the workers.  The daemon spawns one every few seconds without waiting   *)
(* for the one before.                                                     *)
(***************************************************************************)
EXTENDS Broker, Testers, Failures

VARIABLES
  rpc,   \* where each re-tester is
  todo,  \* the loaded Url objects the foreach has not reached yet
  hand   \* $url

reTesterVars == <<rpc, todo, hand>>

(* A loaded Url object; its status is about to be overwritten.  The age of *)
(* its last_processed does not grow while the object is in memory: what is *)
(* loaded is due, so that the age has stopped growing.                     *)
Loaded(u) == [url |-> u, failed |-> failed[u], age |-> sinceTested[u], result |-> result[u]]

LoadedUrls == [url : Urls, failed : Nat, age : 0 .. NotProcessed, result : Results]

NoHand == [url |-> NoMessage, failed |-> 0, age |-> NotProcessed, result |-> "none"]

ReTesterTypeOK ==
  /\ rpc \in [ReTesters -> {"idle", "save", "result", "declare", "publish"}]
  /\ todo \in [ReTesters -> SUBSET LoadedUrls]
  /\ hand \in [ReTesters -> LoadedUrls \cup {NoHand}]
  /\ \A r \in ReTesters : rpc[r] \in {"result", "declare", "publish"} => hand[r] \in LoadedUrls

ReTesterInit ==
  /\ rpc = [r \in ReTesters |-> "idle"]
  /\ todo = [r \in ReTesters |-> {}]
  /\ hand = [r \in ReTesters |-> NoHand]

Proceed(r, place) == rpc' = [rpc EXCEPT ![r] = place]

(* The end of the process, whatever the cause. *)
Abort(r) ==
  /\ Proceed(r, "idle")
  /\ todo' = [todo EXCEPT ![r] = {}]
  /\ hand' = [hand EXCEPT ![r] = NoHand]

-----------------------------------------------------------------------------
(* getUrlsByStatusAndLastProcessedDateTime(); without a URL that is due    *)
(* the process ends without a trace.                                       *)
Scan(r) ==
  LET due == {u \in Urls : Due(u)}
  IN  /\ rpc[r] = "idle"
      /\ due # {}
      /\ Proceed(r, "save")
      /\ todo' = [todo EXCEPT ![r] = {Loaded(u) : u \in due}]
      /\ UNCHANGED <<hand, brokerVars, storageVars, faults>>

(* A mutant of Reschedule that forgets setTestingStatus(). *)
RescheduleKeepsStatus(r) ==
  /\ rpc[r] = "save"
  /\ \E url \in todo[r] :
       /\ UpdateUrl(url.url, "scheduledForRetest", url.failed, url.age)
       /\ todo' = [todo EXCEPT ![r] = @ \ {url}]
       /\ hand' = [hand EXCEPT ![r] = url]
  /\ Proceed(r, "result")
  /\ UNCHANGED <<brokerVars, result, indexed, queueVars, faults>>

(* saveUrl(): UPDATE url.  Everything but the status is written back as it *)
(* was loaded.                                                             *)
Reschedule(r) ==
  /\ rpc[r] = "save"
  /\ \E url \in todo[r] :
       /\ UpdateUrl(url.url, "scheduled", url.failed, url.age)
       /\ todo' = [todo EXCEPT ![r] = @ \ {url}]
       /\ hand' = [hand EXCEPT ![r] = url]
  /\ Proceed(r, "result")
  /\ UNCHANGED <<brokerVars, result, indexed, queueVars, faults>>

(* saveUrl(): UPDATE url_result; there are no cases for Solr. *)
KeepResult(r) ==
  /\ rpc[r] = "result"
  /\ UpdateResult(hand[r].url, hand[r].result)
  /\ Proceed(r, "declare")
  /\ UNCHANGED <<todo, hand, brokerVars, status, failed, sinceTested, indexed, queueVars, faults>>

DeclareForRetest(r) ==
  /\ rpc[r] = "declare"
  /\ Declare(QueueOf[hand[r].url])
  /\ Proceed(r, "publish")
  /\ UNCHANGED <<todo, hand, ready, unacked, storageVars, faults>>

(* A mutant of PublishForRetest that only changes the status. *)
PublishForRetestSkipped(r) ==
  /\ rpc[r] = "publish"
  /\ Proceed(r, IF todo[r] = {} THEN "idle" ELSE "save")
  /\ hand' = [hand EXCEPT ![r] = NoHand]
  /\ UNCHANGED <<todo, brokerVars, storageVars, faults>>

PublishForRetest(r) ==
  /\ rpc[r] = "publish"
  /\ Publish(hand[r].url)
  /\ Proceed(r, IF todo[r] = {} THEN "idle" ELSE "save")
  /\ hand' = [hand EXCEPT ![r] = NoHand]
  /\ UNCHANGED <<todo, declared, unacked, storageVars, faults>>

(* saveUrl() throws: nothing in retest() or its command catches it. *)
RescheduleFails(r) ==
  /\ \/ rpc[r] = "save" /\ Strikes("storage")
     \/ rpc[r] = "result" /\ Strikes("result")
  /\ Abort(r)
  /\ UNCHANGED <<brokerVars, storageVars>>

(* The process is killed. *)
ReTesterCrash(r) ==
  /\ rpc[r] # "idle"
  /\ Strikes("reTesterCrash")
  /\ Abort(r)
  /\ UNCHANGED <<brokerVars, storageVars>>

ReTesterStep(r) ==
  \/ Scan(r) \/ Reschedule(r) \/ KeepResult(r) \/ DeclareForRetest(r) \/ PublishForRetest(r)

ReTesterFailure(r) == RescheduleFails(r) \/ ReTesterCrash(r)

=============================================================================
