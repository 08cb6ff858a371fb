---------------------------- MODULE UrlLifecycle ----------------------------
(***************************************************************************)
(* What the monitor promises about each URL, without queues, messages or   *)
(* processes (Documentation/TD_retest.md): a URL that is scheduled is      *)
(* tested; it succeeds, or its failed test count goes up by one and it is  *)
(* scheduled for another test, until the count reaches the maximum.        *)
(***************************************************************************)
EXTENDS Naturals

CONSTANTS Urls, MaxFailedTestRuns

VARIABLES status, failed

lifecycleVars == <<status, failed>>

LifecycleInit ==
  /\ status \in [Urls -> {"scheduled", "absent"}]
  /\ failed = [u \in Urls |-> 0]

(* The front end adds the URL. *)
Add(u) ==
  /\ status[u] = "absent"
  /\ status' = [status EXCEPT ![u] = "scheduled"]
  /\ UNCHANGED failed

Succeed(u) ==
  /\ status[u] = "scheduled"
  /\ status' = [status EXCEPT ![u] = "tested"]
  /\ UNCHANGED failed

FailOnce(u) ==
  /\ status[u] = "scheduled"
  /\ failed[u] + 1 < MaxFailedTestRuns
  /\ status' = [status EXCEPT ![u] = "scheduledForRetest"]
  /\ failed' = [failed EXCEPT ![u] = @ + 1]

Dismiss(u) ==
  /\ status[u] = "scheduled"
  /\ failed[u] + 1 = MaxFailedTestRuns
  /\ status' = [status EXCEPT ![u] = "error"]
  /\ failed' = [failed EXCEPT ![u] = @ + 1]

Retry(u) ==
  /\ status[u] = "scheduledForRetest"
  /\ status' = [status EXCEPT ![u] = "scheduled"]
  /\ UNCHANGED failed

Test(u) == Succeed(u) \/ FailOnce(u) \/ Dismiss(u)

LifecycleNext == \E u \in Urls : Add(u) \/ Test(u) \/ Retry(u)

LifecycleSpec == LifecycleInit /\ [][LifecycleNext]_lifecycleVars

LifecycleFairSpec ==
  /\ LifecycleSpec
  /\ \A u \in Urls : WF_lifecycleVars(Test(u)) /\ WF_lifecycleVars(Retry(u))

=============================================================================
