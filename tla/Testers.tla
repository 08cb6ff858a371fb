------------------------------ MODULE Testers ------------------------------
(***************************************************************************)
(* What a test run does to the Url object it is given:                     *)
(* StorageBasedTester around GroupedTester around WappalyzerTester,        *)
(* GooglePageSpeedTester and QuailTester, in the order container.yml adds  *)
(* them.  The web page and the external programs decide the outcome, so a  *)
(* run is a choice from a set of possible Url objects.                     *)
(*                                                                         *)
(* A Url object is reduced to the fields that steer the program: its       *)
(* status, its failed test count, its Quail result, and whether Quail      *)
(* found cases to index in this run (quailResultCases, which is not        *)
(* stored and therefore empty in a freshly loaded object).                 *)
(***************************************************************************)
EXTENDS Storage

Url(aStatus, aFailed, aResult, hasCases) ==
  [status |-> aStatus, failed |-> aFailed, result |-> aResult, hasCases |-> hasCases]

UrlObjects == [status : Statuses, failed : Nat, result : Results, hasCases : BOOLEAN]

(* createUrlFromStorageRecord *)
Load(u) == Url(status[u], failed[u], result[u], FALSE)

(* What PhantomJs::getQuailResult gives: an object of criteria with or     *)
(* without failed cases, an object without criteria, something that is not *)
(* a JSON object, or an exception because of the time-out.                 *)
QuailOutputs == {"cases", "clean", "empty", "garbage", "timeout"}

(* A mutant of ProcessQuailResult that forgets setQuailResultCases(). *)
ProcessQuailResultNoCases(url, output) ==
  IF output \in {"cases", "clean", "empty"}
  THEN Url(url.status, url.failed, IF output = "empty" THEN "none" ELSE output, url.hasCases)
  ELSE url

(* processQuailResult replaces the result by what an object says and       *)
(* leaves the Url object alone otherwise.                                  *)
ProcessQuailResult(url, output) ==
  IF output \in {"cases", "clean", "empty"}
  THEN Url(url.status, url.failed, IF output = "empty" THEN "none" ELSE output, output = "cases")
  ELSE url

(* QuailTester::run: the outcome is whether the object now has a result,   *)
(* and FALSE after an exception.                                           *)
QuailRun(url, output) ==
  LET processed == ProcessQuailResult(url, output)
  IN  [url |-> processed, outcome |-> output # "timeout" /\ processed.result # "none"]

(* GroupedTester::run: for a root URL Wappalyzer or Google PageSpeed may   *)
(* throw before Quail runs; otherwise Quail decides.                       *)
GroupedRuns(url, isRoot) ==
  {QuailRun(url, output) : output \in QuailOutputs}
    \cup (IF isRoot THEN {[url |-> url, outcome |-> FALSE]} ELSE {})

(* Mutants of StorageBased: > for >= at the maximum, or no new count. *)
StorageBasedOneMore(run) ==
  LET attempts == run.url.failed + 1
  IN  IF run.outcome
      THEN Url("tested", run.url.failed, run.url.result, run.url.hasCases)
      ELSE Url(IF attempts > MaxFailedTestRuns THEN "error" ELSE "scheduledForRetest",
               attempts, run.url.result, run.url.hasCases)

StorageBasedNoCount(run) ==
  IF run.outcome
  THEN Url("tested", run.url.failed, run.url.result, run.url.hasCases)
  ELSE Url(IF run.url.failed >= MaxFailedTestRuns THEN "error" ELSE "scheduledForRetest",
           run.url.failed, run.url.result, run.url.hasCases)

(* StorageBasedTester::run up to the save. *)
StorageBased(run) ==
  LET attempts == run.url.failed + 1
  IN  IF run.outcome
      THEN Url("tested", run.url.failed, run.url.result, run.url.hasCases)
      ELSE Url(IF attempts >= MaxFailedTestRuns THEN "error" ELSE "scheduledForRetest",
               attempts, run.url.result, run.url.hasCases)

TestRuns(url, isRoot) == {StorageBased(run) : run \in GroupedRuns(url, isRoot)}

=============================================================================
