----------------------------- MODULE PhantomJs -----------------------------
(***************************************************************************)
(* The worker processes of one machine and the browsers (phantomjs) they   *)
(* start: PhantomJs::getDetectedApps waits for its browser without a       *)
(* limit, getQuailResult waits for the length of the time-out and then     *)
(* leaves the browser behind, and each of them begins with killing the     *)
(* browsers of the machine that have become too old.                       *)
(*                                                                         *)
(* A worker is "absent" or in its loop between two tests, waits for the    *)
(* browser of getDetectedApps ("apps"), has its answer ("detected"), or    *)
(* waits for the browser of getQuailResult ("quail").  Time is counted in  *)
(* ticks; an age stops growing when it exceeds every threshold.            *)
(***************************************************************************)
EXTENDS Integers, FiniteSets

CONSTANTS
  Slots,        \* the worker processes that may exist at a time
  WorkerTtl,    \* worker.ttl
  Timeout,      \* phantomjs.timeout
  StallLimit,   \* killall --older-than 2m
  MaxDeaths     \* bound: processes that die before their time

ASSUME MachineAssumption ==
  /\ IsFiniteSet(Slots)
  /\ WorkerTtl \in Nat \ {0}
  /\ Timeout \in Nat \ {0}
  /\ StallLimit \in Nat
  /\ Timeout <= StallLimit
  /\ MaxDeaths \in Nat

VARIABLES
  pc,      \* what each worker does
  uptime,  \* the age of each worker
  age,     \* the age of the browser each worker waits for
  left,    \* how many browsers of each age nobody waits for any more
  deaths   \* how many processes have died

jobVars == <<pc, age, left>>
processVars == <<pc, uptime, age, left, deaths>>

Ages == 0 .. StallLimit + 1
Older(a) == IF a > StallLimit THEN a ELSE a + 1

Waiting == {"apps", "quail"}
Running == {w \in Slots : pc[w] # "absent"}
Browsing == {w \in Slots : pc[w] \in Waiting}

PhantomTypeOK ==
  /\ pc \in [Slots -> {"absent", "loop", "detected"} \cup Waiting]
  /\ uptime \in [Slots -> 0 .. WorkerTtl]
  /\ age \in [Slots -> Ages]
  /\ left \in [Ages -> Nat]
  /\ deaths \in 0 .. MaxDeaths

PhantomInit ==
  /\ pc = [w \in Slots |-> "absent"]
  /\ uptime = [w \in Slots |-> 0]
  /\ age = [w \in Slots |-> 0]
  /\ left = [a \in Ages |-> 0]
  /\ deaths = 0

(* Where a worker goes on when its browser has ended. *)
Resumed(state) == IF state = "apps" THEN "detected" ELSE "loop"

(* Mutants of killStalledProcesses: it only reaches the browsers somebody  *)
(* waits for, or only those nobody waits for.                              *)
KillStalledWaited(w, next) ==
  /\ pc' = [v \in Slots |->
              IF v = w THEN next
              ELSE IF v \in Browsing /\ age[v] > StallLimit THEN Resumed(pc[v]) ELSE pc[v]]
  /\ age' = [v \in Slots |-> IF v = w \/ age[v] > StallLimit THEN 0 ELSE age[v]]
  /\ UNCHANGED left

KillStalledLeft(w, next) ==
  /\ pc' = [pc EXCEPT ![w] = next]
  /\ age' = [age EXCEPT ![w] = 0]
  /\ left' = [left EXCEPT ![StallLimit + 1] = 0]

(* killStalledProcesses by worker w, which goes on with next: the browsers *)
(* that are too old end, whoever started them, and wake who waits for them.*)
KillStalled(w, next) ==
  /\ pc' = [v \in Slots |->
              IF v = w THEN next
              ELSE IF v \in Browsing /\ age[v] > StallLimit THEN Resumed(pc[v]) ELSE pc[v]]
  /\ age' = [v \in Slots |-> IF v = w \/ age[v] > StallLimit THEN 0 ELSE age[v]]
  /\ left' = [left EXCEPT ![StallLimit + 1] = 0]

(* getDetectedApps up to shell_exec, for a root URL. *)
DetectApps(w) ==
  /\ pc[w] = "loop"
  /\ uptime[w] < WorkerTtl
  /\ KillStalled(w, "apps")
  /\ UNCHANGED <<uptime, deaths>>

(* A mutant that does not go on after mkdir has failed. *)
StartQuailUnhandled(w) ==
  /\ pc[w] = "detected" \/ (pc[w] = "loop" /\ uptime[w] < WorkerTtl)
  /\ \E next \in {"quail", "failed"} : KillStalled(w, next)
  /\ UNCHANGED <<uptime, deaths>>

(* getQuailResult up to proc_open, or up to the failure of mkdir, which    *)
(* gives an empty result without a browser.                                *)
StartQuail(w) ==
  /\ pc[w] = "detected" \/ (pc[w] = "loop" /\ uptime[w] < WorkerTtl)
  /\ \E next \in {"quail", "loop"} : KillStalled(w, next)
  /\ UNCHANGED <<uptime, deaths>>

(* Google PageSpeed or Wappalyzer throws before Quail runs. *)
GiveUp(w) ==
  /\ pc[w] = "detected"
  /\ pc' = [pc EXCEPT ![w] = "loop"]
  /\ UNCHANGED <<uptime, age, left, deaths>>

(* The browser ends by itself, and shell_exec or the loop of execTimeout   *)
(* returns.                                                                *)
BrowserEnds(w) ==
  /\ w \in Browsing
  /\ pc' = [pc EXCEPT ![w] = Resumed(@)]
  /\ age' = [age EXCEPT ![w] = 0]
  /\ UNCHANGED <<uptime, left, deaths>>

(* execTimeout throws before it comes to proc_terminate, and the browser   *)
(* goes on without anyone who waits for it.                                *)
QuailTimesOut(w) ==
  /\ pc[w] = "quail"
  /\ age[w] >= Timeout
  /\ pc' = [pc EXCEPT ![w] = "loop"]
  /\ age' = [age EXCEPT ![w] = 0]
  /\ left' = [left EXCEPT ![age[w]] = @ + 1]
  /\ UNCHANGED <<uptime, deaths>>

LeftBrowserEnds(a) ==
  /\ left[a] > 0
  /\ left' = [left EXCEPT ![a] = @ - 1]
  /\ UNCHANGED <<pc, uptime, age, deaths>>

(* The worker leaves its loop at its TTL. *)
WorkerEnds(w) ==
  /\ pc[w] = "loop"
  /\ uptime[w] = WorkerTtl
  /\ pc' = [pc EXCEPT ![w] = "absent"]
  /\ uptime' = [uptime EXCEPT ![w] = 0]
  /\ UNCHANGED <<age, left, deaths>>

(* A worker process dies; its browser, if it has one, goes on. *)
WorkerDies(w) ==
  /\ w \in Running
  /\ deaths < MaxDeaths
  /\ pc' = [pc EXCEPT ![w] = "absent"]
  /\ uptime' = [uptime EXCEPT ![w] = 0]
  /\ age' = [age EXCEPT ![w] = 0]
  /\ left' = IF w \in Browsing THEN [left EXCEPT ![age[w]] = @ + 1] ELSE left
  /\ deaths' = deaths + 1

(* execTimeout wakes up when its time is over, so that time does not pass  *)
(* a browser of Quail by.                                                  *)
MachineTick ==
  /\ \A w \in Slots : pc[w] = "quail" => age[w] < Timeout
  /\ uptime' = [w \in Slots |-> IF w \in Running /\ uptime[w] < WorkerTtl THEN uptime[w] + 1 ELSE uptime[w]]
  /\ age' = [w \in Slots |-> IF w \in Browsing THEN Older(age[w]) ELSE age[w]]
  /\ left' = [a \in Ages |->
                IF a = 0 THEN 0
                ELSE left[a - 1] + (IF a = StallLimit + 1 THEN left[a] ELSE 0)]
  /\ UNCHANGED <<pc, deaths>>

StartTest(w) == DetectApps(w) \/ StartQuail(w)

Work(w) == StartTest(w) \/ GiveUp(w) \/ QuailTimesOut(w) \/ WorkerEnds(w)

=============================================================================
