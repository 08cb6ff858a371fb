------------------------------ MODULE Machine ------------------------------
(***************************************************************************)
(* One machine: the daemon (scripts/accessibilitymonitor.conf), the        *)
(* workers it starts, and their browsers.                                  *)
(***************************************************************************)
EXTENDS PhantomJs

CONSTANT MaxWorkers  \* /etc/accessibilitymonitor/max_worker_count

ASSUME DaemonAssumption == MaxWorkers \in Nat \ {0}

VARIABLES
  dpc,   \* what the daemon does next: "count", "decide" or "sleep"
  count  \* CURRENT_WORKER_COUNT

daemonVars == <<dpc, count>>
machineVars == <<pc, uptime, age, left, deaths, dpc, count>>

DaemonTypeOK ==
  /\ dpc \in {"count", "decide", "sleep"}
  /\ count \in Int

MachineInit ==
  /\ PhantomInit
  /\ dpc = "count"
  /\ count = 0

(* ps aux | grep -c, minus one.  The shell starts both at once, so that ps *)
(* lists the grep process or is too early for it.                          *)
Count ==
  /\ dpc = "count"
  /\ \E grep \in {0, 1} : count' = Cardinality(Running) + grep - 1
  /\ dpc' = "decide"
  /\ UNCHANGED processVars

(* A mutant of Decide with -le for -lt. *)
DecideInclusive ==
  /\ dpc = "decide"
  /\ dpc' = "sleep"
  /\ \/ /\ count <= MaxWorkers
        /\ count' = count + 1
        /\ \E w \in Slots \ Running : pc' = [pc EXCEPT ![w] = "loop"]
        /\ UNCHANGED <<uptime, age, left, deaths>>
     \/ count > MaxWorkers /\ UNCHANGED <<count, processVars>>

(* Start a worker if too few were counted. *)
Decide ==
  /\ dpc = "decide"
  /\ dpc' = "sleep"
  /\ \/ /\ count < MaxWorkers
        /\ count' = count + 1
        /\ \E w \in Slots \ Running : pc' = [pc EXCEPT ![w] = "loop"]
        /\ UNCHANGED <<uptime, age, left, deaths>>
     \/ count >= MaxWorkers /\ UNCHANGED <<count, processVars>>

(* The sleep is over; a worker that was started is in the process list. *)
WakeUp ==
  /\ dpc = "sleep"
  /\ dpc' = "count"
  /\ UNCHANGED <<count, processVars>>

(* The script dies and upstart starts it again; the workers go on. *)
Respawn ==
  /\ deaths < MaxDeaths
  /\ deaths' = deaths + 1
  /\ dpc' = "count"
  /\ count' = 0
  /\ UNCHANGED <<pc, uptime, age, left>>

Loop == Count \/ Decide \/ WakeUp

MachineNext ==
  \/ Loop \/ Respawn
  \/ \E w \in Slots : Work(w) /\ UNCHANGED daemonVars
  \/ \E w \in Slots : BrowserEnds(w) /\ UNCHANGED daemonVars
  \/ \E w \in Slots : WorkerDies(w) /\ UNCHANGED daemonVars
  \/ \E a \in Ages : LeftBrowserEnds(a) /\ UNCHANGED daemonVars
  \/ MachineTick /\ UNCHANGED daemonVars

MachineSpec == MachineInit /\ [][MachineNext]_machineVars

(* The processes are scheduled and the clock runs.  Idle workers find URLs *)
(* to test again and again.  Nothing makes a browser end.                  *)
BusyMachine ==
  /\ MachineSpec
  /\ WF_machineVars(Loop)
  /\ WF_machineVars(MachineTick /\ UNCHANGED daemonVars)
  /\ WF_machineVars(\E w \in Slots : Work(w) /\ UNCHANGED daemonVars)
  /\ SF_machineVars(\E w \in Slots : StartTest(w) /\ UNCHANGED daemonVars)

-----------------------------------------------------------------------------
MachineTypeOK == PhantomTypeOK /\ DaemonTypeOK

(* The count of the daemon may be one too small, when grep was too early,  *)
(* but the workers only become fewer until the daemon decides.             *)
CountIsRecent == dpc = "decide" => count + 1 >= Cardinality(Running)

(* However ps, grep, the ends of workers and restarts of the daemon fall,  *)
(* no more than one worker beyond max_worker_count runs: the error of the  *)
(* count is a missing grep, and it does not add up over the rounds         *)
(* (accessibilitymonitor.conf:27-41).                                      *)
WorkersBounded == Cardinality(Running) <= MaxWorkers + 1

(* What the documentation says of max_worker_count: it is "the maximum     *)
(* number of concurrent workers for the machine" (../README.md:56-57).     *)
WorkersWithinMaximum == Cardinality(Running) <= MaxWorkers

(* How many there are up to each age. *)
UpTo(f) ==
  LET sum[a \in Ages] == f[a] + (IF a = 0 THEN 0 ELSE sum[a - 1])
  IN  sum
LeftBrowsers == UpTo(left)[StallLimit + 1]

(* The browsers execTimeout leaves behind do not pile up: between two      *)
(* calls of killStalledProcesses a worker can leave no more of them than   *)
(* time-outs fit into the limit for stalled processes                      *)
(* (PhantomJs.php:80,112-120,228-242).                                     *)
BrowsersBounded ==
  Cardinality(Browsing) + LeftBrowsers
    <= (MaxWorkers + 1) * ((StallLimit \div Timeout) + 1) + deaths

AllWait == Cardinality({w \in Slots : pc[w] = "apps"}) >= MaxWorkers

(* Browsers that hang, waited for or left behind, are all gone again and   *)
(* again, because every test begins with killing them; unless              *)
(* max_worker_count workers themselves hang in shell_exec: then no worker  *)
(* is left, and none is started, that would call killStalledProcesses      *)
(* (PhantomJs.php:87,112, accessibilitymonitor.conf:36).                   *)
NoneStalled ==
  /\ left[StallLimit + 1] = 0
  /\ \A w \in Browsing : age[w] <= StallLimit
HangsAreCleared == []<>(NoneStalled \/ AllWait)

=============================================================================
