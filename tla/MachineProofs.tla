--------------------------- MODULE MachineProofs ---------------------------
(***************************************************************************)
(* The daemon's bound on the number of workers, the worker pool it         *)
(* implements, and the bound on the number of browsers, for every number   *)
(* of slots, every setting and every number of deaths.                     *)
(***************************************************************************)
EXTENDS Machine, FiniteSetTheorems, WellFoundedInduction, TLAPS

MachineInv == MachineTypeOK /\ CountIsRecent /\ WorkersBounded

(* The number of running workers is a number. *)
LEMMA RunningIsFinite ==
  /\ IsFiniteSet(Running)
  /\ Cardinality(Running) \in Nat
<1>1. Running \subseteq Slots
  BY DEF Running
<1>2. IsFiniteSet(Running)
  BY <1>1, MachineAssumption, FS_Subset
<1> QED
  BY <1>2, FS_CardinalityType

(* A kill wakes workers, but neither starts nor ends one. *)
LEMMA KillKeepsWorkers ==
  ASSUME PhantomTypeOK, NEW w \in Slots, w \in Running,
         NEW next \in {"loop", "quail", "apps"}, KillStalled(w, next)
  PROVE  /\ Running' = Running
         /\ pc' \in [Slots -> {"absent", "loop", "detected"} \cup Waiting]
         /\ age' \in [Slots -> Ages]
         /\ left' \in [Ages -> Nat]
<1> USE DEF PhantomTypeOK, KillStalled, Running, Waiting
<1>1. \A v \in Slots : Resumed(pc[v]) \in {"detected", "loop"}
  BY DEF Resumed
<1>2. pc' \in [Slots -> {"absent", "loop", "detected"} \cup Waiting]
  BY <1>1
<1>3. \A v \in Slots : pc'[v] = "absent" <=> pc[v] = "absent"
  BY <1>1 DEF Browsing
<1>4. 0 \in Ages
  BY MachineAssumption DEF Ages
<1>5. age' \in [Slots -> Ages]
  BY <1>4
<1>6. left' \in [Ages -> Nat]
  OBVIOUS
<1> QED
  BY <1>2, <1>3, <1>5, <1>6

(* What one step of a worker, a browser or the clock does to the workers.  *)
LEMMA WorkersOnlyEnd ==
  ASSUME MachineTypeOK,
         \/ \E w \in Slots : Work(w)
         \/ \E w \in Slots : BrowserEnds(w)
         \/ \E w \in Slots : WorkerDies(w)
         \/ \E a \in Ages : LeftBrowserEnds(a)
         \/ MachineTick
  PROVE  /\ PhantomTypeOK'
         /\ Running' = Running \/ \E w \in Running : Running' = Running \ {w}
<1> USE MachineAssumption DEF MachineTypeOK, PhantomTypeOK, Waiting
<1>1. CASE \E w \in Slots : DetectApps(w)
  <2>1. PICK w \in Slots : DetectApps(w)
    BY <1>1
  <2>2. w \in Running /\ KillStalled(w, "apps") /\ UNCHANGED <<uptime, deaths>>
    BY <2>1 DEF DetectApps, Running
  <2> QED
    BY <2>2, KillKeepsWorkers
<1>2. CASE \E w \in Slots : StartQuail(w)
  <2>1. PICK w \in Slots : StartQuail(w)
    BY <1>2
  <2>2. PICK next \in {"quail", "loop"} : KillStalled(w, next)
    BY <2>1 DEF StartQuail
  <2>3. w \in Running /\ UNCHANGED <<uptime, deaths>>
    BY <2>1 DEF StartQuail, Running
  <2> QED
    BY <2>2, <2>3, KillKeepsWorkers
<1>3. CASE \E w \in Slots : GiveUp(w)
  BY <1>3 DEF GiveUp, Running
<1>4. CASE \E w \in Slots : QuailTimesOut(w)
  <2>1. PICK w \in Slots : QuailTimesOut(w)
    BY <1>4
  <2>2. 0 \in Ages /\ age[w] \in Ages
    BY DEF Ages
  <2>3. pc' \in [Slots -> {"absent", "loop", "detected", "apps", "quail"}] /\ Running' = Running
    BY <2>1 DEF QuailTimesOut, Running
  <2>4. age' \in [Slots -> Ages] /\ left' \in [Ages -> Nat]
    BY <2>1, <2>2 DEF QuailTimesOut
  <2> QED
    BY <2>1, <2>3, <2>4 DEF QuailTimesOut
<1>5. CASE \E w \in Slots : WorkerEnds(w)
  <2>1. PICK w \in Slots : WorkerEnds(w)
    BY <1>5
  <2>2. Running' = Running \ {w} /\ w \in Running
    BY <2>1 DEF WorkerEnds, Running
  <2> QED
    BY <2>1, <2>2 DEF WorkerEnds
<1>6. CASE \E w \in Slots : BrowserEnds(w)
  <2>1. PICK w \in Slots : BrowserEnds(w)
    BY <1>6
  <2>2. 0 \in Ages /\ Resumed(pc[w]) \in {"detected", "loop"}
    BY DEF Ages, Resumed
  <2>3. pc' \in [Slots -> {"absent", "loop", "detected", "apps", "quail"}] /\ Running' = Running
    BY <2>1, <2>2 DEF BrowserEnds, Browsing, Running
  <2> QED
    BY <2>1, <2>2, <2>3 DEF BrowserEnds
<1>7. CASE \E w \in Slots : WorkerDies(w)
  <2>1. PICK w \in Slots : WorkerDies(w)
    BY <1>7
  <2>2. Running' = Running \ {w} /\ w \in Running
    BY <2>1 DEF WorkerDies, Running
  <2>3. 0 \in Ages /\ age[w] \in Ages
    BY DEF Ages
  <2>4. left' \in [Ages -> Nat] /\ age' \in [Slots -> Ages]
    BY <2>1, <2>3 DEF WorkerDies
  <2>5. deaths' \in 0 .. MaxDeaths
    BY <2>1 DEF WorkerDies
  <2>6. pc' \in [Slots -> {"absent", "loop", "detected", "apps", "quail"}]
    BY <2>1 DEF WorkerDies
  <2>7. uptime' \in [Slots -> 0 .. WorkerTtl]
    BY <2>1 DEF WorkerDies
  <2> QED
    BY <2>2, <2>4, <2>5, <2>6, <2>7
<1>8. CASE \E a \in Ages : LeftBrowserEnds(a)
  <2>1. PICK a \in Ages : LeftBrowserEnds(a)
    BY <1>8
  <2>2. left' \in [Ages -> Nat]
    BY <2>1 DEF LeftBrowserEnds
  <2> QED
    BY <2>1, <2>2 DEF LeftBrowserEnds, Running
<1>9. CASE MachineTick
  <2>1. uptime' \in [Slots -> 0 .. WorkerTtl]
    BY <1>9 DEF MachineTick
  <2>2. age' \in [Slots -> Ages]
    BY <1>9 DEF MachineTick, Older, Ages
  <2>3. \A a \in Ages : a # 0 => a - 1 \in Ages /\ left[a - 1] \in Nat /\ left[a] \in Nat
    BY DEF Ages
  <2>4. left' \in [Ages -> Nat]
    BY <1>9, <2>3 DEF MachineTick
  <2> QED
    BY <1>9, <2>1, <2>2, <2>4 DEF MachineTick, Running
<1> QED
  BY <1>1, <1>2, <1>3, <1>4, <1>5, <1>6, <1>7, <1>8, <1>9 DEF Work, StartTest

(* The daemon starts one worker, and only into a pool with room for it. *)
LEMMA DecideStartsOne ==
  ASSUME MachineInv, Decide
  PROVE  /\ MachineTypeOK'
         /\ dpc' = "sleep"
         /\ \/ Running' = Running
            \/ /\ Cardinality(Running) <= MaxWorkers
               /\ Cardinality(Running') = Cardinality(Running) + 1
<1> USE DEF MachineInv, MachineTypeOK, PhantomTypeOK, DaemonTypeOK
<1>1. CASE count >= MaxWorkers /\ UNCHANGED <<count, processVars>>
  BY <1>1 DEF Decide, processVars, Running
<1>2. CASE /\ count < MaxWorkers
           /\ count' = count + 1
           /\ \E w \in Slots \ Running : pc' = [pc EXCEPT ![w] = "loop"]
           /\ UNCHANGED <<uptime, age, left, deaths>>
  <2>1. PICK w \in Slots \ Running : pc' = [pc EXCEPT ![w] = "loop"]
    BY <1>2
  <2>2. Running' = Running \cup {w}
    BY <2>1 DEF Running
  <2>3. Cardinality(Running') = Cardinality(Running) + 1
    BY <2>1, <2>2, RunningIsFinite, FS_AddElement
  <2>4. Cardinality(Running) <= MaxWorkers
    BY <1>2, DaemonAssumption, RunningIsFinite DEF Decide, CountIsRecent
  <2> QED
    BY <1>2, <2>1, <2>3, <2>4 DEF Decide
<1> QED
  BY <1>1, <1>2 DEF Decide

(* What a step of the machine does to the number of workers. *)
LEMMA MachineStep ==
  ASSUME MachineInv, MachineNext
  PROVE  /\ MachineInv'
         /\ \/ Cardinality(Running') = Cardinality(Running)
            \/ /\ Cardinality(Running) <= MaxWorkers
               /\ Cardinality(Running') = Cardinality(Running) + 1
            \/ /\ Cardinality(Running) > 0
               /\ Cardinality(Running') = Cardinality(Running) - 1
<1> USE RunningIsFinite, DaemonAssumption
<1>1. CASE Count
  <2>1. Running' = Running
    BY <1>1 DEF Count, processVars, Running
  <2> QED
    BY <1>1, <2>1 DEF Count, processVars, MachineInv, MachineTypeOK, PhantomTypeOK,
                      DaemonTypeOK, CountIsRecent, WorkersBounded
<1>2. CASE Decide
  <2>1. /\ MachineTypeOK' /\ dpc' = "sleep"
        /\ \/ Running' = Running
           \/ /\ Cardinality(Running) <= MaxWorkers
              /\ Cardinality(Running') = Cardinality(Running) + 1
    BY <1>2, DecideStartsOne
  <2> QED
    BY <2>1 DEF MachineInv, CountIsRecent, WorkersBounded
<1>3. CASE WakeUp \/ Respawn
  <2>1. Running' = Running /\ dpc' = "count"
    BY <1>3 DEF WakeUp, Respawn, processVars, Running
  <2>2. MachineTypeOK'
    BY <1>3, MachineAssumption DEF WakeUp, Respawn, processVars, MachineInv, MachineTypeOK,
                                   PhantomTypeOK, DaemonTypeOK
  <2> QED
    BY <2>1, <2>2 DEF MachineInv, CountIsRecent, WorkersBounded
<1>4. CASE UNCHANGED daemonVars /\ ~Loop /\ ~Respawn
  <2>1. /\ PhantomTypeOK'
        /\ Running' = Running \/ \E w \in Running : Running' = Running \ {w}
    BY <1>4, WorkersOnlyEnd DEF MachineNext, MachineInv
  <2>2. \/ Cardinality(Running') = Cardinality(Running)
        \/ /\ Cardinality(Running) > 0
           /\ Cardinality(Running') = Cardinality(Running) - 1
    <3>1. CASE Running' = Running
      BY <3>1
    <3>2. CASE \E w \in Running : Running' = Running \ {w}
      <4>1. PICK w \in Running : Running' = Running \ {w}
        BY <3>2
      <4>2. Cardinality(Running') = Cardinality(Running) - 1
        BY <4>1, FS_RemoveElement
      <4>3. Cardinality(Running) # 0
        BY <4>1, FS_EmptySet
      <4> QED
        BY <4>2, <4>3
    <3> QED
      BY <2>1, <3>1, <3>2
  <2>3. dpc' = dpc /\ count' = count
    BY <1>4 DEF daemonVars
  <2>4. Cardinality(Running') <= Cardinality(Running)
    BY <2>2
  <2> QED
    BY <2>1, <2>2, <2>3, <2>4 DEF MachineInv, MachineTypeOK, DaemonTypeOK, CountIsRecent, WorkersBounded
<1> QED
  BY <1>1, <1>2, <1>3, <1>4 DEF MachineNext, Loop

LEMMA MachineStutters ==
  ASSUME MachineInv, UNCHANGED machineVars
  PROVE  MachineInv' /\ Running' = Running
BY DEF MachineInv, machineVars, MachineTypeOK, PhantomTypeOK, DaemonTypeOK, CountIsRecent,
       WorkersBounded, Running

LEMMA MachineStarts ==
  ASSUME MachineInit
  PROVE  MachineInv /\ Cardinality(Running) = 0
<1>1. Running = {}
  BY DEF MachineInit, PhantomInit, Running
<1>2. Cardinality(Running) = 0
  BY <1>1, FS_EmptySet
<1> QED
  BY <1>2, MachineAssumption, DaemonAssumption
  DEF MachineInit, PhantomInit, MachineInv, MachineTypeOK, PhantomTypeOK, DaemonTypeOK,
      CountIsRecent, WorkersBounded, Ages, Waiting

(* The inductive invariant: the daemon's count is at most one too small    *)
(* until it has decided (accessibilitymonitor.conf:27-41).                 *)
THEOREM MachineInvariance == MachineSpec => []MachineInv
<1>1. MachineInit => MachineInv
  BY MachineStarts
<1>2. MachineInv /\ [MachineNext]_machineVars => MachineInv'
  BY MachineStep, MachineStutters
<1> QED
  BY <1>1, <1>2, PTL DEF MachineSpec

(* No value of a machine's state leaves its type. *)
THEOREM MachineTypeCorrect == MachineSpec => []MachineTypeOK
<1>1. MachineInv => MachineTypeOK
  BY DEF MachineInv
<1> QED
  BY <1>1, MachineInvariance, PTL

(* However many workers are configured and whatever ps and grep list, at   *)
(* most one worker more than max_worker_count runs                         *)
(* (accessibilitymonitor.conf:36-37).                                      *)
THEOREM WorkersAreBounded == MachineSpec => []WorkersBounded
<1>1. MachineInv => WorkersBounded
  BY DEF MachineInv
<1> QED
  BY <1>1, MachineInvariance, PTL

-----------------------------------------------------------------------------

(* The least number of a set. *)
LEMMA LeastNumber ==
  ASSUME NEW T, T \subseteq Nat, T # {}
  PROVE  \E x \in T : \A y \in T : x <= y
<1> DEFINE R == OpToRel(<, Nat)
<1>1. IsWellFoundedOn(R, Nat)
  BY NatLessThanWellFounded
<1>2. \A x, y \in Nat : y < x => <<y, x>> \in R
  BY DEF OpToRel
<1> HIDE DEF R
<1>3. PICK x \in T : \A y \in T : ~ (<<y, x>> \in R)
  BY <1>1, WFMin
<1>4. \A y \in T : x <= y
  <2> SUFFICES ASSUME NEW y \in T PROVE x <= y
    OBVIOUS
  <2>1. x \in Nat /\ y \in Nat
    OBVIOUS
  <2>2. ~ (y < x)
    BY <1>2, <1>3, <2>1
  <2> QED
    BY <2>1, <2>2
<1> QED
  BY <1>4

(* Induction over the ages, for the set of those for which a fact holds. *)
LEMMA AgeInduction ==
  ASSUME NEW S, 0 \in S, \A a \in Ages : a # 0 /\ a - 1 \in S => a \in S
  PROVE  Ages \subseteq S
<1> USE MachineAssumption DEF Ages
<1> SUFFICES ASSUME Ages \ S # {} PROVE FALSE
  OBVIOUS
<1>1. Ages \ S \subseteq Nat
  OBVIOUS
<1>2. PICK a \in Ages \ S : \A b \in Ages \ S : a <= b
  BY <1>1, LeastNumber
<1>3. a # 0 /\ a - 1 \in Ages
  OBVIOUS
<1>4. a - 1 \in S
  BY <1>2, <1>3
<1> QED
  BY <1>3, <1>4

(* UpTo is what its definition says. *)
LEMMA UpToDef ==
  ASSUME NEW f \in [Ages -> Nat]
  PROVE  /\ UpTo(f) \in [Ages -> Nat]
         /\ UpTo(f)[0] = f[0]
         /\ \A a \in Ages : a # 0 => a - 1 \in Ages /\ UpTo(f)[a] = f[a] + UpTo(f)[a - 1]
<1> USE MachineAssumption
<1> DEFINE Sums(g, n) == \A a \in 0 .. n : g[a] = f[a] + (IF a = 0 THEN 0 ELSE g[a - 1])
           S == {n \in Ages : \E g \in [0 .. n -> Nat] : Sums(g, n)}
<1>0. 0 \in Ages /\ StallLimit + 1 \in Ages /\ Ages \subseteq Nat /\ \A a \in Ages : 0 .. a \subseteq Ages
  BY DEF Ages
<1>1. 0 \in S
  <2>1. [a \in 0 .. 0 |-> f[0]] \in [0 .. 0 -> Nat]
    BY <1>0
  <2>2. Sums([a \in 0 .. 0 |-> f[0]], 0)
    BY <1>0
  <2> QED
    BY <1>0, <2>1, <2>2
<1>2. \A n \in Ages : n # 0 /\ n - 1 \in S => n \in S
  <2> SUFFICES ASSUME NEW n \in Ages, n # 0, n - 1 \in S PROVE n \in S
    OBVIOUS
  <2>1. PICK g \in [0 .. n - 1 -> Nat] : Sums(g, n - 1)
    OBVIOUS
  <2>2. n \in Nat /\ n - 1 \in Nat
    BY <1>0
  <2> DEFINE h == [a \in 0 .. n |-> IF a = n THEN f[n] + g[n - 1] ELSE g[a]]
  <2>3. h \in [0 .. n -> Nat]
    <3> SUFFICES ASSUME NEW a \in 0 .. n PROVE h[a] \in Nat
      OBVIOUS
    <3>1. CASE a = n
      BY <2>2, <3>1
    <3>2. CASE a # n
      <4>1. a \in 0 .. n - 1
        BY <2>2, <3>2
      <4> QED
        BY <3>2, <4>1
    <3> QED
      BY <3>1, <3>2
  <2>4. Sums(h, n)
    <3> SUFFICES ASSUME NEW a \in 0 .. n PROVE h[a] = f[a] + (IF a = 0 THEN 0 ELSE h[a - 1])
      OBVIOUS
    <3>1. CASE a = n
      BY <2>2, <3>1
    <3>2. CASE a # n
      <4>1. a \in 0 .. n - 1 /\ (a # 0 => a - 1 \in 0 .. n - 1)
        BY <2>2, <3>2
      <4>2. h[a] = g[a] /\ (a # 0 => h[a - 1] = g[a - 1])
        BY <2>2, <3>2, <4>1
      <4> QED
        BY <2>1, <4>1, <4>2
    <3> QED
      BY <3>1, <3>2
  <2> QED
    BY <2>3, <2>4
<1>3. StallLimit + 1 \in S
  <2> HIDE DEF S
  <2> QED
    BY <1>0, <1>1, <1>2, AgeInduction
<1>4. PICK g \in [Ages -> Nat] : Sums(g, StallLimit + 1)
  BY <1>3 DEF Ages
<1>5. g = [a \in Ages |-> f[a] + (IF a = 0 THEN 0 ELSE g[a - 1])]
  BY <1>4 DEF Ages
<1>6. UpTo(f) = [a \in Ages |-> f[a] + (IF a = 0 THEN 0 ELSE UpTo(f)[a - 1])]
  BY <1>5 DEF UpTo
<1> HIDE DEF S
<1> DEFINE T == {a \in Ages : UpTo(f)[a] \in Nat}
<1>7. 0 \in T
  BY <1>0, <1>6
<1>8. \A a \in Ages : a # 0 /\ a - 1 \in T => a \in T
  BY <1>0, <1>6
<1>9. \A a \in Ages : UpTo(f)[a] \in Nat
  <2> HIDE DEF T
  <2>1. Ages \subseteq T
    BY <1>7, <1>8, AgeInduction
  <2> QED
    BY <2>1 DEF T
<1>10. \A a \in Ages : a # 0 => a - 1 \in Ages
  BY DEF Ages
<1> QED
  BY <1>0, <1>6, <1>9, <1>10

(* A change at one age is a change of the sums from there on. *)
LEMMA UpToChange ==
  ASSUME NEW f \in [Ages -> Nat], NEW g \in [Ages -> Nat], NEW b \in Ages, NEW d \in Int,
         \A a \in Ages : g[a] = f[a] + (IF a = b THEN d ELSE 0)
  PROVE  \A n \in Ages : UpTo(g)[n] = UpTo(f)[n] + (IF n < b THEN 0 ELSE d)
<1> DEFINE S == {n \in Ages : UpTo(g)[n] = UpTo(f)[n] + (IF n < b THEN 0 ELSE d)}
<1>1. Ages \subseteq Nat /\ 0 \in Ages
  BY MachineAssumption DEF Ages
<1>2. 0 \in S
  <2>1. UpTo(g)[0] = g[0] /\ UpTo(f)[0] = f[0] /\ g[0] = f[0] + (IF 0 = b THEN d ELSE 0) /\ f[0] \in Nat
    BY <1>1, UpToDef
  <2>2. 0 < b <=> 0 # b
    BY <1>1
  <2> QED
    BY <1>1, <2>1, <2>2
<1>3. \A n \in Ages : n # 0 /\ n - 1 \in S => n \in S
  <2> SUFFICES ASSUME NEW n \in Ages, n # 0, n - 1 \in S PROVE n \in S
    OBVIOUS
  <2>1. /\ UpTo(g)[n] = g[n] + UpTo(g)[n - 1]
        /\ UpTo(f)[n] = f[n] + UpTo(f)[n - 1]
        /\ UpTo(g)[n - 1] = UpTo(f)[n - 1] + (IF n - 1 < b THEN 0 ELSE d)
        /\ UpTo(f)[n - 1] \in Nat /\ f[n] \in Nat
    BY UpToDef
  <2>2. g[n] = f[n] + (IF n = b THEN d ELSE 0)
    OBVIOUS
  <2>3. n \in Nat /\ b \in Nat
    BY <1>1
  <2> QED
    BY <2>1, <2>2, <2>3
<1> HIDE DEF S
<1>4. Ages \subseteq S
  BY <1>2, <1>3, AgeInduction
<1> QED
  BY <1>4 DEF S

LEMMA UpToMore ==
  ASSUME NEW f \in [Ages -> Nat], NEW g \in [Ages -> Nat], NEW b \in Ages,
         \A a \in Ages : g[a] = f[a] + (IF a = b THEN 1 ELSE 0)
  PROVE  \A n \in Ages : UpTo(g)[n] = UpTo(f)[n] + (IF n < b THEN 0 ELSE 1)
<1>1. PICK d \in Int : d = 1
  OBVIOUS
<1>2. \A a \in Ages : g[a] = f[a] + (IF a = b THEN d ELSE 0)
  BY <1>1
<1>3. \A n \in Ages : UpTo(g)[n] = UpTo(f)[n] + (IF n < b THEN 0 ELSE d)
  BY <1>2, UpToChange, Zenon
<1> QED
  BY <1>1, <1>3

LEMMA UpToLess ==
  ASSUME NEW f \in [Ages -> Nat], NEW g \in [Ages -> Nat], NEW b \in Ages,
         \A a \in Ages : g[a] = f[a] + (IF a = b THEN -1 ELSE 0)
  PROVE  \A n \in Ages : UpTo(g)[n] = UpTo(f)[n] + (IF n < b THEN 0 ELSE -1)
<1>1. PICK d \in Int : d = -1
  OBVIOUS
<1>2. \A a \in Ages : g[a] = f[a] + (IF a = b THEN d ELSE 0)
  BY <1>1
<1>3. \A n \in Ages : UpTo(g)[n] = UpTo(f)[n] + (IF n < b THEN 0 ELSE d)
  BY <1>2, UpToChange, Zenon
<1> QED
  BY <1>1, <1>3

(* When everything becomes older, so do the sums; the last is the same. *)
Aged(f) == [a \in Ages |-> IF a = 0 THEN 0 ELSE f[a - 1] + (IF a = StallLimit + 1 THEN f[a] ELSE 0)]

LEMMA UpToAged ==
  ASSUME NEW f \in [Ages -> Nat]
  PROVE  /\ Aged(f) \in [Ages -> Nat]
         /\ \A n \in Ages : n <= StallLimit => UpTo(Aged(f))[n] = IF n = 0 THEN 0 ELSE UpTo(f)[n - 1]
         /\ UpTo(Aged(f))[StallLimit + 1] = UpTo(f)[StallLimit + 1]
<1>1. /\ Ages \subseteq Nat /\ 0 \in Ages /\ StallLimit \in Ages /\ StallLimit + 1 \in Ages
      /\ StallLimit \in Nat /\ \A a \in Ages : a # 0 => a - 1 \in Ages
  BY MachineAssumption DEF Ages
<1>2. \A a \in Ages : Aged(f)[a] = IF a = 0 THEN 0 ELSE f[a - 1] + (IF a = StallLimit + 1 THEN f[a] ELSE 0)
  BY DEF Aged
<1>3. \A a \in Ages : Aged(f)[a] \in Nat
  BY <1>1, <1>2
<1>4. Aged(f) \in [Ages -> Nat]
  BY <1>3 DEF Aged
<1> DEFINE S == {n \in Ages : n <= StallLimit => UpTo(Aged(f))[n] = IF n = 0 THEN 0 ELSE UpTo(f)[n - 1]}
<1>5. 0 \in S
  BY <1>1, <1>2, <1>4, UpToDef
<1>6. \A n \in Ages : n # 0 /\ n - 1 \in S => n \in S
  <2> SUFFICES ASSUME NEW n \in Ages, n # 0, n - 1 \in S, n <= StallLimit
               PROVE  UpTo(Aged(f))[n] = UpTo(f)[n - 1]
    OBVIOUS
  <2>1. UpTo(Aged(f))[n] = Aged(f)[n] + UpTo(Aged(f))[n - 1]
    BY <1>4, UpToDef
  <2>2. Aged(f)[n] = f[n - 1] /\ f[n - 1] \in Nat /\ n - 1 \in Ages /\ n \in Nat
    BY <1>1, <1>2
  <2>3. UpTo(Aged(f))[n - 1] = IF n - 1 = 0 THEN 0 ELSE UpTo(f)[n - 1 - 1]
    BY <1>1, <2>2
  <2>4. UpTo(f)[n - 1] = f[n - 1] + (IF n - 1 = 0 THEN 0 ELSE UpTo(f)[n - 1 - 1])
    BY <2>2, UpToDef
  <2> QED
    BY <2>1, <2>2, <2>3, <2>4
<1> HIDE DEF S
<1>7. Ages \subseteq S
  BY <1>5, <1>6, AgeInduction
<1>8. \A n \in Ages : n <= StallLimit => UpTo(Aged(f))[n] = IF n = 0 THEN 0 ELSE UpTo(f)[n - 1]
  BY <1>7 DEF S
<1>9. UpTo(Aged(f))[StallLimit + 1] = UpTo(f)[StallLimit + 1]
  <2>1. /\ UpTo(Aged(f))[StallLimit + 1] = Aged(f)[StallLimit + 1] + UpTo(Aged(f))[StallLimit]
        /\ UpTo(f)[StallLimit + 1] = f[StallLimit + 1] + UpTo(f)[StallLimit]
        /\ UpTo(f)[StallLimit] = f[StallLimit] + (IF StallLimit = 0 THEN 0 ELSE UpTo(f)[StallLimit - 1])
    BY <1>1, <1>4, UpToDef
  <2>2. /\ Aged(f)[StallLimit + 1] = f[StallLimit] + f[StallLimit + 1]
        /\ UpTo(Aged(f))[StallLimit] = IF StallLimit = 0 THEN 0 ELSE UpTo(f)[StallLimit - 1]
    BY <1>1, <1>2, <1>8
  <2>3. /\ f[StallLimit] \in Nat /\ f[StallLimit + 1] \in Nat
        /\ StallLimit # 0 => UpTo(f)[StallLimit - 1] \in Nat
    BY <1>1, UpToDef
  <2> QED
    BY <2>1, <2>2, <2>3
<1> QED
  BY <1>4, <1>8, <1>9

(* Sums depend on what they sum, and grow. *)
LEMMA UpToSame ==
  ASSUME NEW f \in [Ages -> Nat], NEW g \in [Ages -> Nat], NEW m \in Nat, \A a \in Ages : a < m => f[a] = g[a]
  PROVE  \A n \in Ages : n < m => UpTo(f)[n] = UpTo(g)[n]
<1> DEFINE S == {n \in Ages : n < m => UpTo(f)[n] = UpTo(g)[n]}
<1>1. Ages \subseteq Nat /\ 0 \in Ages
  BY MachineAssumption DEF Ages
<1>2. 0 \in S
  BY <1>1, UpToDef
<1>3. \A n \in Ages : n # 0 /\ n - 1 \in S => n \in S
  <2> SUFFICES ASSUME NEW n \in Ages, n # 0, n - 1 \in S, n < m PROVE UpTo(f)[n] = UpTo(g)[n]
    OBVIOUS
  <2>1. UpTo(f)[n - 1] = UpTo(g)[n - 1]
    BY <1>1
  <2> QED
    BY <2>1, UpToDef
<1> HIDE DEF S
<1>4. Ages \subseteq S
  BY <1>2, <1>3, AgeInduction
<1> QED
  BY <1>4 DEF S

LEMMA UpToBefore ==
  ASSUME NEW f \in [Ages -> Nat], NEW g \in [Ages -> Nat], \A a \in Ages : a <= StallLimit => f[a] = g[a]
  PROVE  \A n \in Ages : n <= StallLimit => UpTo(f)[n] = UpTo(g)[n]
<1>1. PICK m \in Nat : m = StallLimit + 1
  BY MachineAssumption
<1>2. \A a \in Ages : a < m <=> a <= StallLimit
  BY <1>1, MachineAssumption DEF Ages
<1>3. \A a \in Ages : a < m => f[a] = g[a]
  BY <1>2
<1> QED
  BY <1>2, <1>3, UpToSame

LEMMA UpToLast ==
  ASSUME NEW f \in [Ages -> Nat]
  PROVE  UpTo(f)[StallLimit + 1] = f[StallLimit + 1] + UpTo(f)[StallLimit]
<1>1. PICK m \in Ages : m = StallLimit + 1
  BY MachineAssumption DEF Ages
<1>2. m # 0 /\ m - 1 = StallLimit
  BY <1>1, MachineAssumption
<1>3. UpTo(f)[m] = f[m] + UpTo(f)[m - 1]
  BY <1>2, UpToDef
<1> QED
  BY <1>1, <1>2, <1>3

LEMMA UpToZero == \A n \in Ages : UpTo([a \in Ages |-> 0])[n] = 0
<1> DEFINE z == [a \in Ages |-> 0]
           S == {n \in Ages : UpTo(z)[n] = 0}
<1>1. z \in [Ages -> Nat] /\ \A a \in Ages : z[a] = 0
  OBVIOUS
<1>2. 0 \in Ages
  BY MachineAssumption DEF Ages
<1> HIDE DEF z
<1>3. 0 \in S
  BY <1>1, <1>2, UpToDef
<1>4. \A n \in Ages : n # 0 /\ n - 1 \in S => n \in S
  BY <1>1, UpToDef
<1> HIDE DEF S
<1>5. Ages \subseteq S
  BY <1>3, <1>4, AgeInduction
<1> QED
  BY <1>5 DEF S, z

-----------------------------------------------------------------------------
(* The browsers somebody waits for, up to an age; and with them those left *)
(* behind that are not orphans of a worker that died.                      *)
Young(n) == {w \in Browsing : age[w] <= n}
Known(dead, n) == Cardinality(Young(n)) + UpTo(left)[n] - UpTo(dead)[n]

(* Among those left behind, dead are orphans.  The others have timed out,  *)
(* and as many ticks before as a time-out is long, each had its worker.    *)
Orphans(dead) ==
  /\ dead \in [Ages -> Nat]
  /\ \A a \in Ages : dead[a] <= left[a]
  /\ \A a \in Ages : a < Timeout => dead[a] = left[a]
  /\ UpTo(dead)[StallLimit + 1] <= deaths
  /\ \A n \in Ages : n + Timeout <= StallLimit => Known(dead, n + Timeout) - Known(dead, n) <= MaxWorkers + 1

BrowsersInv == MachineInv /\ BrowsersBounded /\ \E dead : Orphans(dead)

LEMMA AgesAreNumbers ==
  /\ Ages \subseteq Nat /\ 0 \in Ages /\ StallLimit \in Ages /\ StallLimit + 1 \in Ages
  /\ StallLimit \in Nat /\ Timeout \in Nat \ {0} /\ MaxWorkers \in Nat
  /\ \A a \in Ages : (a # 0 => a - 1 \in Ages) /\ a <= StallLimit + 1
  /\ \A a \in Ages : \A n \in Nat : n <= a => n \in Ages
BY MachineAssumption, DaemonAssumption DEF Ages

LEMMA YoungIsFinite ==
  /\ IsFiniteSet(Browsing) /\ Cardinality(Browsing) \in Nat
  /\ Cardinality(Browsing) <= Cardinality(Running)
  /\ \A n \in Ages : IsFiniteSet(Young(n)) /\ Cardinality(Young(n)) \in Nat /\ Cardinality(Young(n)) <= Cardinality(Browsing)
<1>1. Browsing \subseteq Running
  BY DEF Browsing, Running, Waiting
<1>2. IsFiniteSet(Browsing) /\ Cardinality(Browsing) <= Cardinality(Running)
  BY <1>1, RunningIsFinite, FS_Subset
<1>3. \A n \in Ages : Young(n) \subseteq Browsing
  BY DEF Young
<1>4. \A n \in Ages : IsFiniteSet(Young(n)) /\ Cardinality(Young(n)) <= Cardinality(Browsing)
  BY <1>2, <1>3, FS_Subset
<1> QED
  BY <1>2, <1>4, FS_CardinalityType

LEMMA KnownIsInteger ==
  ASSUME PhantomTypeOK, NEW dead \in [Ages -> Nat]
  PROVE  \A n \in Ages : Known(dead, n) \in Int /\ UpTo(left)[n] \in Nat /\ UpTo(dead)[n] \in Nat
BY YoungIsFinite, UpToDef DEF Known, PhantomTypeOK

(* From one time-out to the next there are at most as many as workers, and *)
(* there is room for those that will start a browser.                      *)
LEMMA WindowsAddUp ==
  ASSUME MachineInv, NEW dead, Orphans(dead), NEW e \in Nat, Cardinality(Browsing) + e <= MaxWorkers + 1
  PROVE  \A n \in Ages : n <= StallLimit => Known(dead, n) + e <= (MaxWorkers + 1) * ((n \div Timeout) + 1)
<1> USE AgesAreNumbers
<1>0. PhantomTypeOK /\ dead \in [Ages -> Nat] /\ left \in [Ages -> Nat]
  BY DEF MachineInv, MachineTypeOK, Orphans, PhantomTypeOK
<1>1. \A n \in Ages : Known(dead, n) \in Int
  BY <1>0, KnownIsInteger
<1> DEFINE W == MaxWorkers + 1
           B(n) == W * ((n \div Timeout) + 1)
<1>2. \A n \in Ages : n \div Timeout \in Nat /\ (n < Timeout => n \div Timeout = 0)
                      /\ (n >= Timeout => n \div Timeout = ((n - Timeout) \div Timeout) + 1)
  <2> SUFFICES ASSUME NEW n \in Nat, NEW t \in Nat \ {0}
               PROVE  /\ n \div t \in Nat /\ (n < t => n \div t = 0)
                      /\ n >= t => n \div t = ((n - t) \div t) + 1
    OBVIOUS
  <2> QED
    OBVIOUS
<1>3. W \in Nat /\ \A n \in Ages : B(n) \in Nat /\ (n < Timeout => B(n) = W) /\ (n >= Timeout => B(n) = B(n - Timeout) + W)
  <2>1. W \in Nat
    OBVIOUS
  <2> HIDE DEF W
  <2>2. ASSUME NEW n \in Ages PROVE B(n) \in Nat /\ (n < Timeout => B(n) = W)
    BY <1>2, <2>1
  <2>3. ASSUME NEW n \in Ages, n >= Timeout PROVE B(n) = B(n - Timeout) + W
    <3>1. n - Timeout \in Ages
      BY <2>3
    <3>2. PICK k \in Nat : k = (n - Timeout) \div Timeout
      BY <1>2, <3>1
    <3>3. n \div Timeout = k + 1
      BY <1>2, <2>3, <3>2
    <3>4. W * (k + 1 + 1) = W * (k + 1) + W
      BY <2>1
    <3> QED
      BY <3>2, <3>3, <3>4
  <2> QED
    BY <2>1, <2>2, <2>3
<1> HIDE DEF W, B
<1> DEFINE S == {n \in Ages : \A k \in Ages : k <= n /\ k <= StallLimit => Known(dead, k) + e <= B(k)}
<1>4. \A n \in Ages : n < Timeout => Known(dead, n) + e <= B(n)
  <2> SUFFICES ASSUME NEW n \in Ages, n < Timeout PROVE Known(dead, n) + e <= B(n)
    OBVIOUS
  <2>1. \A a \in Ages : a < Timeout => left[a] = dead[a]
    BY DEF Orphans
  <2>2. UpTo(left)[n] = UpTo(dead)[n]
    <3>1. Timeout \in Nat
      OBVIOUS
    <3>2. \A k \in Ages : k < Timeout => UpTo(left)[k] = UpTo(dead)[k]
      BY SMTT(30), <1>0, <2>1, <3>1, UpToSame, Zenon
    <3> QED
      BY <3>2
  <2>3. Known(dead, n) = Cardinality(Young(n))
    BY <1>0, <2>2, YoungIsFinite, KnownIsInteger DEF Known
  <2>4. Cardinality(Young(n)) + e <= W /\ Cardinality(Young(n)) \in Nat
    BY YoungIsFinite DEF W
  <2> QED
    BY <1>3, <2>3, <2>4
<1>5. 0 \in S
  <2>1. \A k \in Ages : k <= 0 => k = 0
    OBVIOUS
  <2> QED
    BY <1>4, <2>1
<1>6. \A n \in Ages : n # 0 /\ n - 1 \in S => n \in S
  <2> SUFFICES ASSUME NEW n \in Ages, n # 0, n - 1 \in S, n <= StallLimit, n >= Timeout
               PROVE  Known(dead, n) + e <= B(n)
    BY <1>4
  <2>1. n - Timeout \in Ages /\ n - Timeout <= n - 1 /\ n - Timeout <= StallLimit /\ (n - Timeout) + Timeout = n
    OBVIOUS
  <2>2. Known(dead, n - Timeout) + e <= B(n - Timeout)
    BY <2>1
  <2>3. Known(dead, n) - Known(dead, n - Timeout) <= W
    BY <2>1 DEF Orphans, W
  <2> QED
    BY <1>1, <1>3, <2>1, <2>2, <2>3
<1> HIDE DEF S
<1>7. Ages \subseteq S
  BY <1>5, <1>6, AgeInduction
<1> QED
  BY <1>7 DEF S, B, W

-----------------------------------------------------------------------------
(* A step after which there are fewer, or one more of age 0, keeps what    *)
(* the windows of a time-out hold.                                         *)
LEMMA WindowsKept ==
  ASSUME PhantomTypeOK, PhantomTypeOK', NEW dead, Orphans(dead), NEW dead2 \in [Ages -> Nat],
         NEW b \in Ages, NEW d \in {-1, 0, 1}, d = 1 => b = 0,
         \A n \in Ages : n <= StallLimit => Known(dead2, n)' = Known(dead, n) + (IF n < b THEN 0 ELSE d)
  PROVE  \A n \in Ages : n + Timeout <= StallLimit =>
           Known(dead2, n + Timeout)' - Known(dead2, n)' <= MaxWorkers + 1
<1> SUFFICES ASSUME NEW n \in Ages, n + Timeout <= StallLimit
             PROVE  Known(dead2, n + Timeout)' - Known(dead2, n)' <= MaxWorkers + 1
  OBVIOUS
<1>1. n + Timeout \in Ages /\ n <= StallLimit /\ n \in Nat /\ Timeout \in Nat /\ b \in Nat /\ MaxWorkers \in Nat
  BY AgesAreNumbers
<1>2. Known(dead, n) \in Int /\ Known(dead, n + Timeout) \in Int
  BY <1>1, KnownIsInteger DEF Orphans
<1>3. Known(dead, n + Timeout) - Known(dead, n) <= MaxWorkers + 1
  BY DEF Orphans
<1>4. /\ Known(dead2, n)' = Known(dead, n) + (IF n < b THEN 0 ELSE d)
      /\ Known(dead2, n + Timeout)' = Known(dead, n + Timeout) + (IF n + Timeout < b THEN 0 ELSE d)
  BY <1>1
<1>5. d \in {-1, 0, 1} /\ (d = 1 => b = 0)
  OBVIOUS
<1> QED
  BY <1>1, <1>2, <1>3, <1>4, <1>5

(* A browser that nobody waits for any more. *)
LEMMA YoungLeaves ==
  ASSUME PhantomTypeOK, NEW w \in Browsing, Browsing' = Browsing \ {w},
         \A v \in Slots : v # w => age'[v] = age[v]
  PROVE  /\ Cardinality(Browsing') = Cardinality(Browsing) - 1
         /\ \A n \in Ages : Cardinality(Young(n)') = Cardinality(Young(n)) + (IF n < age[w] THEN 0 ELSE -1)
<1>1. Cardinality(Browsing') = Cardinality(Browsing) - 1
  BY YoungIsFinite, FS_RemoveElement
<1>2. ASSUME NEW n \in Ages
      PROVE  Cardinality(Young(n)') = Cardinality(Young(n)) + (IF n < age[w] THEN 0 ELSE -1)
  <2>0. Browsing \subseteq Slots /\ age[w] \in Nat /\ n \in Nat /\ Cardinality(Young(n)) \in Nat
    BY AgesAreNumbers, YoungIsFinite DEF Browsing, PhantomTypeOK
  <2>1. CASE n < age[w]
    <3>1. Young(n)' = Young(n)
      BY <2>0, <2>1 DEF Young
    <3> QED
      BY <2>0, <2>1, <3>1
  <2>2. CASE ~(n < age[w])
    <3>1. Young(n)' = Young(n) \ {w} /\ w \in Young(n)
      BY <2>0, <2>2 DEF Young
    <3>2. Cardinality(Young(n)') = Cardinality(Young(n)) - 1
      BY <3>1, YoungIsFinite, FS_RemoveElement
    <3> QED
      BY <2>0, <2>2, <3>2
  <2> QED
    BY <2>1, <2>2
<1> QED
  BY <1>1, <1>2

LEMMA BrowserEndsIsFewer ==
  ASSUME MachineInv, PhantomTypeOK', NEW dead, Orphans(dead), NEW w \in Slots, BrowserEnds(w)
  PROVE  /\ Orphans(dead)'
         /\ deaths' = deaths
         /\ Cardinality(Browsing') + LeftBrowsers' <= Cardinality(Browsing) + LeftBrowsers
<1>0. PhantomTypeOK /\ dead \in [Ages -> Nat]
  BY DEF MachineInv, MachineTypeOK, Orphans
<1>1. w \in Browsing /\ UNCHANGED <<left, deaths>>
  BY DEF BrowserEnds
<1>2. Browsing' = Browsing \ {w} /\ \A v \in Slots : v # w => age'[v] = age[v]
  BY <1>0 DEF BrowserEnds, Browsing, Waiting, Resumed, PhantomTypeOK
<1>3. /\ Cardinality(Browsing') = Cardinality(Browsing) - 1
      /\ \A n \in Ages : Cardinality(Young(n)') = Cardinality(Young(n)) + (IF n < age[w] THEN 0 ELSE -1)
  BY <1>0, <1>1, <1>2, YoungLeaves
<1>4. age[w] \in Ages
  BY <1>0 DEF PhantomTypeOK
<1>5. \A n \in Ages : Known(dead, n)' = Known(dead, n) + (IF n < age[w] THEN 0 ELSE -1)
  BY <1>0, <1>1, <1>3, YoungIsFinite, KnownIsInteger DEF Known
<1>6. \A n \in Ages : n + Timeout <= StallLimit =>
        Known(dead, n + Timeout)' - Known(dead, n)' <= MaxWorkers + 1
  <2> DEFINE d == -1
  <2>1. d \in {-1, 0, 1} /\ (d = 1 => age[w] = 0)
    OBVIOUS
  <2>2. \A n \in Ages : n <= StallLimit => Known(dead, n)' = Known(dead, n) + (IF n < age[w] THEN 0 ELSE d)
    BY <1>5
  <2> HIDE DEF d
  <2> QED
    BY <1>0, <1>4, <2>1, <2>2, WindowsKept
<1>7. Orphans(dead)'
  BY <1>0, <1>1, <1>6 DEF Orphans
<1>8. LeftBrowsers \in Nat /\ Cardinality(Browsing) \in Nat
  BY <1>0, AgesAreNumbers, UpToDef, YoungIsFinite DEF LeftBrowsers, PhantomTypeOK
<1>9. LeftBrowsers' = LeftBrowsers
  BY <1>1 DEF LeftBrowsers
<1> QED
  BY <1>1, <1>3, <1>7, <1>8, <1>9

(* A browser of Quail that has timed out is left behind: it was as old as  *)
(* the time-out.                                                           *)
LEMMA TimeOutLeavesIt ==
  ASSUME MachineInv, PhantomTypeOK', NEW dead, Orphans(dead), NEW w \in Slots, QuailTimesOut(w)
  PROVE  /\ Orphans(dead)'
         /\ deaths' = deaths
         /\ Cardinality(Browsing') + LeftBrowsers' <= Cardinality(Browsing) + LeftBrowsers
<1>0. PhantomTypeOK /\ dead \in [Ages -> Nat] /\ left \in [Ages -> Nat]
  BY DEF MachineInv, MachineTypeOK, Orphans, PhantomTypeOK
<1>1. w \in Browsing /\ age[w] \in Ages /\ age[w] >= Timeout /\ left[age[w]] \in Nat
  BY <1>0 DEF QuailTimesOut, Browsing, Waiting, PhantomTypeOK
<1>2. Browsing' = Browsing \ {w} /\ \A v \in Slots : v # w => age'[v] = age[v]
  BY <1>0 DEF QuailTimesOut, Browsing, Waiting, PhantomTypeOK
<1>3. /\ Cardinality(Browsing') = Cardinality(Browsing) - 1
      /\ \A n \in Ages : Cardinality(Young(n)') = Cardinality(Young(n)) + (IF n < age[w] THEN 0 ELSE -1)
  BY <1>0, <1>1, <1>2, YoungLeaves
<1>4. left' = [left EXCEPT ![age[w]] = left[age[w]] + 1] /\ deaths' = deaths
  BY DEF QuailTimesOut
<1>5. \A n \in Ages : UpTo(left')[n] = UpTo(left)[n] + (IF n < age[w] THEN 0 ELSE 1)
  <2>1. \A a \in Ages : left'[a] = left[a] + (IF a = age[w] THEN 1 ELSE 0)
    BY <1>0, <1>4
  <2>2. left' \in [Ages -> Nat]
    BY DEF PhantomTypeOK
  <2> QED
    BY <1>0, <1>1, <2>1, <2>2, UpToMore
<1>6. \A n \in Ages : Known(dead, n)' = Known(dead, n)
  <2> SUFFICES ASSUME NEW n \in Ages PROVE Known(dead, n)' = Known(dead, n)
    OBVIOUS
  <2>1. Cardinality(Young(n)) \in Nat /\ UpTo(left)[n] \in Nat /\ UpTo(dead)[n] \in Nat
    BY <1>0, YoungIsFinite, KnownIsInteger
  <2> QED
    BY <1>3, <1>5, <2>1 DEF Known
<1>7. \A n \in Ages : n + Timeout <= StallLimit =>
        Known(dead, n + Timeout)' - Known(dead, n)' <= MaxWorkers + 1
  BY <1>6, AgesAreNumbers DEF Orphans
<1>8. \A a \in Ages : left'[a] \in Nat /\ dead[a] \in Nat /\ left'[a] >= left[a] /\ (a < Timeout => left'[a] = left[a])
  BY <1>0, <1>1, <1>4, AgesAreNumbers
<1>9. Orphans(dead)'
  <2>1. \A a \in Ages : dead[a] <= left'[a] /\ (a < Timeout => dead[a] = left'[a])
    BY <1>0, <1>8 DEF Orphans
  <2> QED
    BY <1>0, <1>4, <1>7, <2>1 DEF Orphans
<1>10. LeftBrowsers \in Nat /\ Cardinality(Browsing) \in Nat
  BY <1>0, AgesAreNumbers, UpToDef, YoungIsFinite DEF LeftBrowsers, PhantomTypeOK
<1>11. LeftBrowsers' = LeftBrowsers + 1
  <2>1. StallLimit + 1 \in Ages /\ ~(StallLimit + 1 < age[w])
    <3>1. age[w] \in Nat /\ StallLimit \in Nat /\ age[w] <= StallLimit + 1
      BY <1>1, AgesAreNumbers
    <3> QED
      BY <3>1, AgesAreNumbers
  <2> QED
    BY <1>5, <2>1 DEF LeftBrowsers
<1> QED
  BY <1>3, <1>4, <1>9, <1>10, <1>11

(* A worker that dies makes its browser an orphan. *)
LEMMA DeathLeavesOrphan ==
  ASSUME MachineInv, PhantomTypeOK', NEW dead, Orphans(dead), NEW w \in Slots, WorkerDies(w)
  PROVE  /\ \E dead2 : Orphans(dead2)'
         /\ deaths' = deaths + 1
         /\ Cardinality(Browsing') + LeftBrowsers' <= Cardinality(Browsing) + LeftBrowsers
<1>0. PhantomTypeOK /\ dead \in [Ages -> Nat] /\ left \in [Ages -> Nat] /\ deaths \in Nat /\ deaths' = deaths + 1
  BY MachineAssumption DEF MachineInv, MachineTypeOK, Orphans, PhantomTypeOK, WorkerDies
<1>1. age[w] \in Ages /\ left[age[w]] \in Nat /\ dead[age[w]] \in Nat /\ age[w] \in Nat
  BY <1>0, AgesAreNumbers DEF PhantomTypeOK
<1>2. \A v \in Slots : v # w => age'[v] = age[v] /\ pc'[v] = pc[v]
  BY <1>0 DEF WorkerDies, PhantomTypeOK
<1>3. Browsing' = Browsing \ {w}
  BY <1>0, <1>2 DEF WorkerDies, Browsing, Waiting, PhantomTypeOK
<1>4. LeftBrowsers \in Nat /\ Cardinality(Browsing) \in Nat
  BY <1>0, AgesAreNumbers, UpToDef, YoungIsFinite DEF LeftBrowsers, PhantomTypeOK
<1>5. UpTo(dead)[StallLimit + 1] <= deaths /\ UpTo(dead)[StallLimit + 1] \in Nat
  BY <1>0, AgesAreNumbers, UpToDef DEF Orphans
<1>6. CASE w \in Browsing
  <2>1. left' = [left EXCEPT ![age[w]] = left[age[w]] + 1]
    BY <1>6 DEF WorkerDies
  <2>0. PICK dead2 : dead2 = [dead EXCEPT ![age[w]] = dead[age[w]] + 1]
    OBVIOUS
  <2>3. dead2 \in [Ages -> Nat] /\ left' \in [Ages -> Nat]
    BY <1>0, <1>1, <2>0, <2>1
  <2>4. \A a \in Ages : /\ dead2[a] = dead[a] + (IF a = age[w] THEN 1 ELSE 0)
                        /\ left'[a] = left[a] + (IF a = age[w] THEN 1 ELSE 0)
                        /\ dead[a] \in Nat /\ left[a] \in Nat
    BY <1>0, <2>0, <2>1
  <2>a. \A n \in Ages : UpTo(left')[n] = UpTo(left)[n] + (IF n < age[w] THEN 0 ELSE 1)
    BY <1>0, <1>1, <2>3, <2>4, UpToMore
  <2>b. \A n \in Ages : UpTo(dead2)[n] = UpTo(dead)[n] + (IF n < age[w] THEN 0 ELSE 1)
    BY <1>0, <1>1, <2>3, <2>4, UpToMore
  <2>2. \A n \in Ages : /\ UpTo(left')[n] = UpTo(left)[n] + (IF n < age[w] THEN 0 ELSE 1)
                        /\ UpTo(dead2)[n] = UpTo(dead)[n] + (IF n < age[w] THEN 0 ELSE 1)
    BY <2>a, <2>b
  <2>5. /\ Cardinality(Browsing') = Cardinality(Browsing) - 1
        /\ \A n \in Ages : Cardinality(Young(n)') = Cardinality(Young(n)) + (IF n < age[w] THEN 0 ELSE -1)
    BY <1>0, <1>2, <1>3, <1>6, YoungLeaves
  <2>6. ASSUME NEW n \in Ages
        PROVE  Known(dead2, n)' = Known(dead, n) + (IF n < age[w] THEN 0 ELSE -1)
    <3>1. Cardinality(Young(n)) \in Nat /\ UpTo(left)[n] \in Nat /\ UpTo(dead)[n] \in Nat
      BY <1>0, YoungIsFinite, KnownIsInteger
    <3>2. CASE n < age[w]
      BY <2>2, <2>5, <3>1, <3>2 DEF Known
    <3>3. CASE ~(n < age[w])
      BY <2>2, <2>5, <3>1, <3>3 DEF Known
    <3> QED
      BY <3>2, <3>3
  <2>7. \A n \in Ages : n + Timeout <= StallLimit =>
          Known(dead2, n + Timeout)' - Known(dead2, n)' <= MaxWorkers + 1
    <3> DEFINE d == -1
    <3>1. d \in {-1, 0, 1} /\ (d = 1 => age[w] = 0)
      OBVIOUS
    <3>2. \A n \in Ages : n <= StallLimit => Known(dead2, n)' = Known(dead, n) + (IF n < age[w] THEN 0 ELSE d)
      BY <2>6
    <3> HIDE DEF d
    <3> QED
      BY <1>0, <1>1, <2>3, <3>1, <3>2, WindowsKept
  <2>8. \A a \in Ages : dead2[a] <= left'[a] /\ (a < Timeout => dead2[a] = left'[a])
    BY <2>4 DEF Orphans
  <2>9. UpTo(dead2)[StallLimit + 1] <= deaths' /\ LeftBrowsers' = LeftBrowsers + 1
    BY <1>0, <1>1, <1>5, <2>2, AgesAreNumbers DEF LeftBrowsers
  <2>10. Orphans(dead2)'
    BY <2>3, <2>7, <2>8, <2>9 DEF Orphans
  <2> QED
    BY <1>0, <1>4, <2>5, <2>9, <2>10
<1>7. CASE w \notin Browsing
  <2>1. Browsing' = Browsing /\ left' = left
    BY <1>3, <1>7 DEF WorkerDies
  <2>2. \A n : Young(n)' = Young(n)
    BY <1>2, <1>7, <2>1 DEF Young, Browsing
  <2>3. \A n : Known(dead, n)' = Known(dead, n)
    BY <2>1, <2>2 DEF Known
  <2>4. Orphans(dead)'
    BY <1>0, <1>5, <2>1, <2>3 DEF Orphans
  <2> QED
    BY <1>0, <1>4, <2>1, <2>4 DEF LeftBrowsers
<1> QED
  BY <1>6, <1>7

(* A browser that nobody waits for ends: an orphan, or another one. *)
LEMMA LeftEndsIsFewer ==
  ASSUME MachineInv, PhantomTypeOK', NEW dead, Orphans(dead), NEW b \in Ages, LeftBrowserEnds(b)
  PROVE  /\ \E dead2 : Orphans(dead2)'
         /\ deaths' = deaths
         /\ Cardinality(Browsing') + LeftBrowsers' <= Cardinality(Browsing) + LeftBrowsers
<1>0. PhantomTypeOK /\ dead \in [Ages -> Nat] /\ left \in [Ages -> Nat] /\ deaths' = deaths /\ deaths \in Nat
  BY MachineAssumption DEF MachineInv, MachineTypeOK, Orphans, PhantomTypeOK, LeftBrowserEnds
<1>1. left[b] \in Nat /\ left[b] > 0 /\ dead[b] \in Nat /\ dead[b] <= left[b] /\ b \in Nat
  BY <1>0, AgesAreNumbers DEF LeftBrowserEnds, Orphans
<1>2. left' = [left EXCEPT ![b] = left[b] - 1]
  BY <1>1 DEF LeftBrowserEnds
<1>3. Browsing' = Browsing /\ \A n : Young(n)' = Young(n)
  BY DEF LeftBrowserEnds, Browsing, Young
<1>4. \A n \in Ages : UpTo(left')[n] = UpTo(left)[n] + (IF n < b THEN 0 ELSE -1)
  <2>1. \A a \in Ages : left'[a] = left[a] + (IF a = b THEN -1 ELSE 0)
    BY <1>0, <1>2
  <2>2. left' \in [Ages -> Nat]
    BY DEF PhantomTypeOK
  <2> QED
    BY <1>0, <2>1, <2>2, UpToLess
<1>5. LeftBrowsers \in Nat /\ Cardinality(Browsing) \in Nat
  BY <1>0, AgesAreNumbers, UpToDef, YoungIsFinite DEF LeftBrowsers, PhantomTypeOK
<1>6. LeftBrowsers' = LeftBrowsers - 1
  BY <1>1, <1>4, <1>5, AgesAreNumbers DEF LeftBrowsers
<1>7. UpTo(dead)[StallLimit + 1] <= deaths /\ UpTo(dead)[StallLimit + 1] \in Nat
  BY <1>0, AgesAreNumbers, UpToDef DEF Orphans
<1>8. \A n \in Ages : Cardinality(Young(n)) \in Nat /\ UpTo(left)[n] \in Nat /\ UpTo(dead)[n] \in Nat
  BY <1>0, YoungIsFinite, KnownIsInteger
<1>9. \A a \in Ages : dead[a] \in Nat /\ left[a] \in Nat /\ left'[a] = left[a] + (IF a = b THEN -1 ELSE 0)
  BY <1>0, <1>1, <1>2
<1>10. CASE dead[b] = left[b]
  <2> DEFINE dead2 == [dead EXCEPT ![b] = dead[b] - 1]
  <2>2. dead2 \in [Ages -> Nat] /\ \A a \in Ages : dead2[a] = dead[a] + (IF a = b THEN -1 ELSE 0)
    BY <1>0, <1>1, <1>10
  <2>1. \A n \in Ages : UpTo(dead2)[n] = UpTo(dead)[n] + (IF n < b THEN 0 ELSE -1)
    <3> HIDE DEF dead2
    <3> QED
      BY SMTT(30), <1>0, <2>2, UpToLess
  <2> HIDE DEF dead2
  <2>3. \A n \in Ages : Known(dead2, n)' = Known(dead, n)
    <3> SUFFICES ASSUME NEW n \in Ages PROVE Known(dead2, n)' = Known(dead, n)
      OBVIOUS
    <3>1. CASE n < b
      BY <1>3, <1>4, <1>8, <2>1, <3>1 DEF Known
    <3>2. CASE ~(n < b)
      BY <1>3, <1>4, <1>8, <2>1, <3>2 DEF Known
    <3> QED
      BY <3>1, <3>2
  <2>4. \A n \in Ages : n + Timeout <= StallLimit =>
          Known(dead2, n + Timeout)' - Known(dead2, n)' <= MaxWorkers + 1
    BY <2>3, AgesAreNumbers DEF Orphans
  <2>5. \A a \in Ages : dead2[a] <= left'[a] /\ (a < Timeout => dead2[a] = left'[a])
    BY <1>9, <2>2 DEF Orphans
  <2>6. UpTo(dead2)[StallLimit + 1] <= deaths'
    BY <1>0, <1>1, <1>7, <2>1, AgesAreNumbers
  <2>7. Orphans(dead2)'
    BY <2>2, <2>4, <2>5, <2>6 DEF Orphans
  <2> QED
    BY <1>0, <1>3, <1>5, <1>6, <2>7
<1>11. CASE dead[b] # left[b]
  <2>1. \A n \in Ages : Known(dead, n)' = Known(dead, n) + (IF n < b THEN 0 ELSE -1)
    <3> SUFFICES ASSUME NEW n \in Ages PROVE Known(dead, n)' = Known(dead, n) + (IF n < b THEN 0 ELSE -1)
      OBVIOUS
    <3>1. CASE n < b
      BY <1>3, <1>4, <1>8, <3>1 DEF Known
    <3>2. CASE ~(n < b)
      BY <1>3, <1>4, <1>8, <3>2 DEF Known
    <3> QED
      BY <3>1, <3>2
  <2>2. \A n \in Ages : n + Timeout <= StallLimit =>
          Known(dead, n + Timeout)' - Known(dead, n)' <= MaxWorkers + 1
    <3> DEFINE d == -1
    <3>1. d \in {-1, 0, 1} /\ (d = 1 => b = 0)
      OBVIOUS
    <3>2. \A n \in Ages : n <= StallLimit => Known(dead, n)' = Known(dead, n) + (IF n < b THEN 0 ELSE d)
      BY <2>1
    <3> HIDE DEF d
    <3> QED
      BY <1>0, <3>1, <3>2, WindowsKept
  <2>3. \A a \in Ages : dead[a] <= left'[a] /\ (a < Timeout => dead[a] = left'[a])
    BY <1>1, <1>9, <1>11 DEF Orphans
  <2>4. Orphans(dead)'
    BY <1>0, <1>7, <2>2, <2>3 DEF Orphans
  <2> QED
    BY <1>0, <1>3, <1>5, <1>6, <2>4
<1> QED
  BY <1>10, <1>11

-----------------------------------------------------------------------------
(* A kill: only browsers that are not too old are left, and perhaps the    *)
(* one that the worker starts.                                             *)
LEMMA KillIsBounded ==
  ASSUME MachineInv, PhantomTypeOK', NEW dead, Orphans(dead), NEW w \in Running, w \notin Browsing,
         NEW next \in {"loop", "quail", "apps"}, KillStalled(w, next), deaths' = deaths
  PROVE  /\ \E dead2 : Orphans(dead2)'
         /\ BrowsersBounded'
<1>0. /\ PhantomTypeOK /\ dead \in [Ages -> Nat] /\ left \in [Ages -> Nat] /\ deaths \in Nat /\ w \in Slots
      /\ age \in [Slots -> Ages]
  BY MachineAssumption DEF MachineInv, MachineTypeOK, Orphans, PhantomTypeOK, Running
<1>1. PICK e \in {0, 1} : e = IF next \in Waiting THEN 1 ELSE 0
  OBVIOUS
<1>2. left' \in [Ages -> Nat] /\ left' = [left EXCEPT ![StallLimit + 1] = 0]
  BY DEF KillStalled, PhantomTypeOK
<1>3. PICK dead2 : dead2 = [dead EXCEPT ![StallLimit + 1] = 0]
  OBVIOUS
<1>4. dead2 \in [Ages -> Nat]
  BY <1>0, <1>3
<1>5. /\ \A a \in Ages : a <= StallLimit => left'[a] = left[a] /\ dead2[a] = dead[a]
      /\ \A a \in Ages : a <= StallLimit \/ a = StallLimit + 1
      /\ left'[StallLimit + 1] = 0 /\ dead2[StallLimit + 1] = 0
  BY <1>0, <1>2, <1>3, MachineAssumption DEF Ages
<1>6. \A n \in Ages : n <= StallLimit => UpTo(left')[n] = UpTo(left)[n]
  BY <1>0, <1>2, <1>5, UpToBefore
<1>7. \A n \in Ages : n <= StallLimit => UpTo(dead2)[n] = UpTo(dead)[n]
  BY <1>0, <1>4, <1>5, UpToBefore
<1>8. /\ UpTo(left')[StallLimit + 1] = UpTo(left)[StallLimit]
      /\ UpTo(dead2)[StallLimit + 1] = UpTo(dead)[StallLimit]
      /\ UpTo(dead)[StallLimit] <= UpTo(dead)[StallLimit + 1]
  <2>1. StallLimit + 1 \in Ages /\ StallLimit \in Ages /\ StallLimit <= StallLimit
    BY AgesAreNumbers
  <2>2. UpTo(left')[StallLimit + 1] = left'[StallLimit + 1] + UpTo(left')[StallLimit]
    BY <1>2, UpToLast
  <2>3. UpTo(dead2)[StallLimit + 1] = dead2[StallLimit + 1] + UpTo(dead2)[StallLimit]
    BY <1>4, UpToLast
  <2>4. UpTo(dead)[StallLimit + 1] = dead[StallLimit + 1] + UpTo(dead)[StallLimit]
    BY <1>0, UpToLast
  <2>5. UpTo(left)[StallLimit] \in Nat /\ UpTo(dead)[StallLimit] \in Nat /\ dead[StallLimit + 1] \in Nat
    BY <1>0, <2>1, UpToDef
  <2> QED
    BY <1>5, <1>6, <1>7, <2>1, <2>2, <2>3, <2>4, <2>5
<1>9. \A v \in Slots : /\ v # w => (v \in Browsing' <=> v \in Browsing /\ age[v] <= StallLimit)
                       /\ v = w => (v \in Browsing' <=> e = 1)
                       /\ v = w => age'[v] = 0
                       /\ v # w /\ age[v] <= StallLimit => age'[v] = age[v]
  <2> SUFFICES ASSUME NEW v \in Slots
               PROVE  /\ v # w => (v \in Browsing' <=> v \in Browsing /\ age[v] <= StallLimit)
                      /\ v = w => (v \in Browsing' <=> e = 1)
                      /\ v = w => age'[v] = 0
                      /\ v # w /\ age[v] <= StallLimit => age'[v] = age[v]
    OBVIOUS
  <2>1. age[v] \in Nat /\ StallLimit \in Nat
    BY <1>0, AgesAreNumbers
  <2>2. age[v] > StallLimit <=> ~(age[v] <= StallLimit)
    BY <2>1
  <2>3. Resumed(pc[v]) \notin Waiting
    BY DEF Resumed, Waiting
  <2>4. /\ pc'[v] = IF v = w THEN next ELSE IF v \in Browsing /\ age[v] > StallLimit THEN Resumed(pc[v]) ELSE pc[v]
        /\ age'[v] = IF v = w \/ age[v] > StallLimit THEN 0 ELSE age[v]
    BY DEF KillStalled
  <2> QED
    BY <1>1, <2>2, <2>3, <2>4 DEF Browsing
<1>10. /\ Browsing' = IF e = 1 THEN Young(StallLimit) \cup {w} ELSE Young(StallLimit)
       /\ \A n \in Ages : n <= StallLimit => Young(n)' = IF e = 1 THEN Young(n) \cup {w} ELSE Young(n)
  <2>1. Browsing \subseteq Slots /\ Browsing' \subseteq Slots
    BY DEF Browsing
  <2>2. Browsing' = IF e = 1 THEN Young(StallLimit) \cup {w} ELSE Young(StallLimit)
    BY <1>0, <1>9, <2>1 DEF Young
  <2>3. ASSUME NEW n \in Ages, n <= StallLimit
        PROVE  Young(n)' = IF e = 1 THEN Young(n) \cup {w} ELSE Young(n)
    <3>0. n \in Nat /\ StallLimit \in Nat /\ 0 <= n
      BY AgesAreNumbers
    <3>1. \A v \in Slots : age[v] <= n => age[v] <= StallLimit
      <4> SUFFICES ASSUME NEW v \in Slots, age[v] <= n PROVE age[v] <= StallLimit
        OBVIOUS
      <4>1. age[v] \in Nat
        BY <1>0, AgesAreNumbers
      <4> QED
        BY <2>3, <3>0, <4>1
    <3> QED
      BY <1>0, <1>9, <2>1, <3>0, <3>1 DEF Young
  <2> QED
    BY <2>2, <2>3
<1>11. /\ Cardinality(Browsing') = Cardinality(Young(StallLimit)) + e
       /\ \A n \in Ages : n <= StallLimit => Cardinality(Young(n)') = Cardinality(Young(n)) + e
  <2>1. ASSUME NEW n \in Ages
        PROVE  /\ IsFiniteSet(Young(n)) /\ Cardinality(Young(n)) \in Nat
               /\ Cardinality(Young(n) \cup {w}) = Cardinality(Young(n)) + 1
    <3>1. w \notin Young(n)
      BY DEF Young
    <3> QED
      BY <3>1, YoungIsFinite, FS_AddElement
  <2>2. StallLimit \in Ages
    BY AgesAreNumbers
  <2>3. CASE e = 1
    <3>1. /\ Browsing' = Young(StallLimit) \cup {w}
          /\ \A n \in Ages : n <= StallLimit => Young(n)' = Young(n) \cup {w}
      BY <1>10, <2>3
    <3> QED
      BY <2>1, <2>2, <2>3, <3>1
  <2>4. CASE e = 0
    <3>1. /\ Browsing' = Young(StallLimit)
          /\ \A n \in Ages : n <= StallLimit => Young(n)' = Young(n)
      BY <1>10, <2>4
    <3>2. ASSUME NEW n \in Ages PROVE Cardinality(Young(n)) + e = Cardinality(Young(n))
      <4>1. Cardinality(Young(n)) \in Nat
        BY <2>1
      <4> QED
        BY <2>4, <4>1
    <3> QED
      BY <2>2, <3>1, <3>2
  <2> QED
    BY <2>3, <2>4
<1>12. \A n \in Ages : n <= StallLimit => Known(dead2, n)' = Known(dead, n) + (IF n < 0 THEN 0 ELSE e)
  <2> SUFFICES ASSUME NEW n \in Ages, n <= StallLimit PROVE Known(dead2, n)' = Known(dead, n) + e
    BY AgesAreNumbers
  <2>2. Cardinality(Young(n)) \in Nat /\ UpTo(left)[n] \in Nat /\ UpTo(dead)[n] \in Nat
    BY <1>0, YoungIsFinite, KnownIsInteger
  <2> QED
    BY <1>6, <1>7, <1>11, <2>2 DEF Known
<1>13. \A n \in Ages : n + Timeout <= StallLimit =>
         Known(dead2, n + Timeout)' - Known(dead2, n)' <= MaxWorkers + 1
  <2>1. e \in {-1, 0, 1} /\ 0 \in Ages
    BY AgesAreNumbers
  <2> QED
    BY <1>0, <1>4, <1>12, <2>1, WindowsKept
<1>14. Orphans(dead2)'
  <2>1. \A a \in Ages : dead2[a] <= left'[a] /\ (a < Timeout => dead2[a] = left'[a])
    BY <1>5, MachineAssumption DEF Orphans
  <2>2. UpTo(dead2)[StallLimit + 1] <= deaths'
    <3>1. /\ UpTo(dead)[StallLimit + 1] <= deaths
          /\ UpTo(dead)[StallLimit + 1] \in Nat /\ UpTo(dead)[StallLimit] \in Nat
      BY <1>0, UpToDef, AgesAreNumbers DEF Orphans
    <3> QED
      BY <1>0, <1>8, <3>1
  <2> QED
    BY <1>4, <1>13, <2>1, <2>2 DEF Orphans
<1>15. Cardinality(Browsing) + e <= MaxWorkers + 1
  <2>1. Cardinality(Browsing \cup {w}) = Cardinality(Browsing) + 1
    BY YoungIsFinite, FS_AddElement
  <2>2. Browsing \cup {w} \subseteq Running
    BY DEF Browsing, Running, Waiting
  <2>3. Cardinality(Browsing \cup {w}) <= Cardinality(Running)
    BY <2>2, RunningIsFinite, FS_Subset
  <2> QED
    BY <2>1, <2>3, RunningIsFinite, YoungIsFinite, AgesAreNumbers DEF MachineInv, WorkersBounded
<1>16. Known(dead, StallLimit) + e <= (MaxWorkers + 1) * ((StallLimit \div Timeout) + 1)
  <2>1. e \in Nat /\ StallLimit \in Ages /\ StallLimit <= StallLimit
    BY AgesAreNumbers
  <2> QED
    BY <1>15, <2>1, WindowsAddUp
<1>17. Cardinality(Browsing') + LeftBrowsers' = Known(dead, StallLimit) + e + UpTo(dead)[StallLimit]
  <2>1. /\ Cardinality(Young(StallLimit)) \in Nat
        /\ UpTo(left)[StallLimit] \in Nat /\ UpTo(dead)[StallLimit] \in Nat
    BY <1>0, YoungIsFinite, KnownIsInteger, AgesAreNumbers
  <2> QED
    BY <1>8, <1>11, <2>1 DEF LeftBrowsers, Known
<1>18. BrowsersBounded'
  <2>1. UpTo(dead)[StallLimit] <= deaths /\ UpTo(dead)[StallLimit] \in Nat /\ Known(dead, StallLimit) \in Int
    BY <1>0, <1>8, KnownIsInteger, UpToDef, AgesAreNumbers DEF Orphans
  <2>2. PICK bound : bound = (MaxWorkers + 1) * ((StallLimit \div Timeout) + 1)
    OBVIOUS
  <2>3. bound \in Int
    BY <2>2, AgesAreNumbers
  <2>4. Known(dead, StallLimit) + e + UpTo(dead)[StallLimit] <= bound + deaths
    BY <1>0, <1>16, <2>1, <2>2, <2>3
  <2> QED
    BY <1>17, <2>2, <2>4 DEF BrowsersBounded
<1> QED
  BY <1>14, <1>18

(* The clock: everything becomes older, and nothing else changes. *)
LEMMA TickKeepsBrowsers ==
  ASSUME MachineInv, PhantomTypeOK', NEW dead, Orphans(dead), MachineTick
  PROVE  /\ \E dead2 : Orphans(dead2)'
         /\ deaths' = deaths
         /\ Cardinality(Browsing') + LeftBrowsers' <= Cardinality(Browsing) + LeftBrowsers
<1>0. /\ PhantomTypeOK /\ dead \in [Ages -> Nat] /\ left \in [Ages -> Nat] /\ deaths' = deaths
      /\ age \in [Slots -> Ages] /\ left' = Aged(left)
  BY DEF MachineInv, MachineTypeOK, Orphans, PhantomTypeOK, MachineTick, Aged
<1>1. PICK dead2 : dead2 = Aged(dead)
  OBVIOUS
<1>2. /\ dead2 \in [Ages -> Nat]
      /\ \A n \in Ages : n <= StallLimit => UpTo(dead2)[n] = IF n = 0 THEN 0 ELSE UpTo(dead)[n - 1]
      /\ UpTo(dead2)[StallLimit + 1] = UpTo(dead)[StallLimit + 1]
  BY <1>0, <1>1, UpToAged
<1>3. /\ \A n \in Ages : n <= StallLimit => UpTo(left')[n] = IF n = 0 THEN 0 ELSE UpTo(left)[n - 1]
      /\ UpTo(left')[StallLimit + 1] = UpTo(left)[StallLimit + 1]
  BY <1>0, UpToAged
<1>4. Browsing' = Browsing
  BY DEF MachineTick, Browsing
<1>5. \A n \in Ages : n <= StallLimit => Young(n)' = IF n = 0 THEN {} ELSE Young(n - 1)
  <2> SUFFICES ASSUME NEW n \in Ages, n <= StallLimit PROVE Young(n)' = IF n = 0 THEN {} ELSE Young(n - 1)
    OBVIOUS
  <2>1. n \in Nat /\ StallLimit \in Nat
    BY AgesAreNumbers
  <2>2. ASSUME NEW v \in Browsing
        PROVE  /\ age'[v] <= n <=> n # 0 /\ age[v] <= n - 1
    <3>1. v \in Slots /\ age[v] \in Nat
      BY <1>0, AgesAreNumbers DEF Browsing
    <3>2. age'[v] = Older(age[v])
      BY <3>1 DEF MachineTick
    <3> QED
      BY <2>1, <3>1, <3>2 DEF Older
  <2> QED
    BY <1>4, <2>2 DEF Young
<1>6. \A n \in Ages : n <= StallLimit => Known(dead2, n)' = IF n = 0 THEN 0 ELSE Known(dead, n - 1)
  <2>1. ASSUME NEW n \in Ages, n <= StallLimit, n = 0 PROVE Known(dead2, n)' = 0
    BY <1>2, <1>3, <1>5, <2>1, FS_EmptySet DEF Known
  <2>2. ASSUME NEW n \in Ages, n <= StallLimit, n # 0 PROVE Known(dead2, n)' = Known(dead, n - 1)
    <3>1. Young(n)' = Young(n - 1) /\ UpTo(left')[n] = UpTo(left)[n - 1] /\ UpTo(dead2)[n] = UpTo(dead)[n - 1]
      BY <1>2, <1>3, <1>5, <2>2
    <3> QED
      BY <3>1 DEF Known
  <2> QED
    BY <2>1, <2>2
<1>7. \A n \in Ages : n + Timeout <= StallLimit =>
        Known(dead2, n + Timeout)' - Known(dead2, n)' <= MaxWorkers + 1
  <2> SUFFICES ASSUME NEW n \in Ages, n + Timeout <= StallLimit
               PROVE  Known(dead2, n + Timeout)' - Known(dead2, n)' <= MaxWorkers + 1
    OBVIOUS
  <2>1. /\ n \in Nat /\ Timeout \in Nat \ {0} /\ StallLimit \in Nat /\ MaxWorkers \in Nat
        /\ n + Timeout \in Ages /\ n <= StallLimit
    BY AgesAreNumbers
  <2>2. n + Timeout - 1 \in Ages
    BY <2>1, AgesAreNumbers
  <2>3. Known(dead2, n + Timeout)' = Known(dead, n + Timeout - 1)
    BY <1>6, <2>1
  <2>4. Known(dead, n + Timeout - 1) \in Int
    BY <1>0, <2>2, KnownIsInteger
  <2>5. CASE n = 0
    <3>1. Known(dead2, n)' = 0
      BY <1>6, <2>1, <2>5
    <3>2. UpTo(left)[Timeout - 1] = UpTo(dead)[Timeout - 1]
      <4>1. \A a \in Ages : a < Timeout => left[a] = dead[a]
        BY DEF Orphans
      <4>2. Timeout \in Nat
        BY <2>1
      <4>3. \A k \in Ages : k < Timeout => UpTo(left)[k] = UpTo(dead)[k]
        BY <1>0, <4>1, <4>2, UpToSame, Zenon
      <4> QED
        BY <2>1, <2>2, <2>5, <4>3
    <3>3. Known(dead, Timeout - 1) = Cardinality(Young(Timeout - 1)) /\ Timeout - 1 \in Ages
      BY <1>0, <2>1, <2>2, <2>5, <3>2, YoungIsFinite, KnownIsInteger DEF Known
    <3>4. Cardinality(Young(Timeout - 1)) <= MaxWorkers + 1
      BY <2>1, <3>3, YoungIsFinite, RunningIsFinite DEF MachineInv, WorkersBounded
    <3> QED
      BY <2>1, <2>3, <2>4, <2>5, <3>1, <3>3, <3>4
  <2>6. CASE n # 0
    <3>1. n - 1 \in Ages /\ (n - 1) + Timeout = n + Timeout - 1 /\ (n - 1) + Timeout <= StallLimit
      BY <2>1, <2>6, AgesAreNumbers
    <3>2. Known(dead, (n - 1) + Timeout) - Known(dead, n - 1) <= MaxWorkers + 1
      BY <3>1 DEF Orphans
    <3>3. Known(dead2, n)' = Known(dead, n - 1)
      BY <1>6, <2>1, <2>6
    <3> QED
      BY <2>3, <3>1, <3>2, <3>3
  <2> QED
    BY <2>5, <2>6
<1>8. \A a \in Ages : dead2[a] <= left'[a] /\ (a < Timeout => dead2[a] = left'[a])
  <2> SUFFICES ASSUME NEW a \in Ages
               PROVE  dead2[a] <= left'[a] /\ (a < Timeout => dead2[a] = left'[a])
    OBVIOUS
  <2>1. /\ dead2[a] = IF a = 0 THEN 0 ELSE dead[a - 1] + (IF a = StallLimit + 1 THEN dead[a] ELSE 0)
        /\ left'[a] = IF a = 0 THEN 0 ELSE left[a - 1] + (IF a = StallLimit + 1 THEN left[a] ELSE 0)
    BY <1>0, <1>1 DEF Aged
  <2>2. CASE a = 0
    BY <2>1, <2>2
  <2>3. CASE a # 0
    <3>1. /\ a - 1 \in Ages /\ a \in Nat /\ Timeout \in Nat /\ (a < Timeout => a - 1 < Timeout)
          /\ (a < Timeout => a # StallLimit + 1)
      BY <2>3, AgesAreNumbers, MachineAssumption
    <3>2. /\ dead[a - 1] \in Nat /\ left[a - 1] \in Nat /\ dead[a] \in Nat /\ left[a] \in Nat
          /\ dead[a - 1] <= left[a - 1] /\ dead[a] <= left[a]
          /\ (a - 1 < Timeout => dead[a - 1] = left[a - 1])
      BY <1>0, <3>1 DEF Orphans
    <3> QED
      BY <2>1, <2>3, <3>1, <3>2
  <2> QED
    BY <2>2, <2>3
<1>9. Orphans(dead2)'
  <2>1. UpTo(dead2)[StallLimit + 1] <= deaths'
    BY <1>0, <1>2 DEF Orphans
  <2> QED
    BY <1>2, <1>7, <1>8, <2>1 DEF Orphans
<1>10. LeftBrowsers' = LeftBrowsers /\ LeftBrowsers \in Nat /\ Cardinality(Browsing) \in Nat
  BY <1>0, <1>3, AgesAreNumbers, UpToDef, YoungIsFinite DEF LeftBrowsers
<1> QED
  BY <1>0, <1>4, <1>9, <1>10

(* The daemon does not touch the browsers. *)
LEMMA DaemonKeepsBrowsers ==
  ASSUME MachineInv, NEW dead, Orphans(dead), Loop \/ Respawn \/ UNCHANGED machineVars
  PROVE  /\ Orphans(dead)'
         /\ deaths' \in Nat /\ deaths' >= deaths
         /\ Cardinality(Browsing') + LeftBrowsers' <= Cardinality(Browsing) + LeftBrowsers
<1>0. PhantomTypeOK /\ dead \in [Ages -> Nat] /\ left \in [Ages -> Nat] /\ deaths \in Nat
  BY MachineAssumption DEF MachineInv, MachineTypeOK, Orphans, PhantomTypeOK
<1>1. age' = age /\ left' = left /\ deaths' \in {deaths, deaths + 1}
  BY DEF Loop, Count, Decide, WakeUp, Respawn, machineVars, processVars
<1>2. \A v \in Slots : pc'[v] = pc[v] \/ (pc[v] = "absent" /\ pc'[v] = "loop")
  BY <1>0 DEF Loop, Count, Decide, WakeUp, Respawn, machineVars, processVars, PhantomTypeOK, Running
<1>3. Browsing' = Browsing
  BY <1>2 DEF Browsing, Waiting
<1>4. \A n : Young(n)' = Young(n)
  BY <1>1, <1>3 DEF Young
<1>5. \A n : Known(dead, n)' = Known(dead, n)
  BY <1>1, <1>4 DEF Known
<1>6. deaths' \in Nat /\ deaths' >= deaths
  BY <1>0, <1>1
<1>7. UpTo(dead)[StallLimit + 1] <= deaths'
  <2>1. UpTo(dead)[StallLimit + 1] \in Nat /\ UpTo(dead)[StallLimit + 1] <= deaths
    BY <1>0, UpToDef, AgesAreNumbers DEF Orphans
  <2> QED
    BY <1>0, <1>6, <2>1
<1>8. Orphans(dead)'
  BY <1>1, <1>5, <1>7 DEF Orphans
<1>9. LeftBrowsers' = LeftBrowsers /\ LeftBrowsers \in Nat /\ Cardinality(Browsing) \in Nat
  BY <1>0, <1>1, AgesAreNumbers, UpToDef, YoungIsFinite DEF LeftBrowsers
<1> QED
  BY <1>3, <1>6, <1>8, <1>9

(* Who has not more than before is still within the bound. *)
LEMMA FewerIsBounded ==
  ASSUME MachineInv, MachineInv', BrowsersBounded, deaths' >= deaths,
         Cardinality(Browsing') + LeftBrowsers' <= Cardinality(Browsing) + LeftBrowsers
  PROVE  BrowsersBounded'
<1>1. PICK total : total = Cardinality(Browsing) + LeftBrowsers
  OBVIOUS
<1>2. PICK after : after = Cardinality(Browsing') + LeftBrowsers'
  OBVIOUS
<1>3. total \in Nat
  BY <1>1, YoungIsFinite, UpToDef, AgesAreNumbers DEF LeftBrowsers, MachineInv, MachineTypeOK, PhantomTypeOK
<1>4. after \in Int
  <2>1. LeftBrowsers' \in Nat
    BY UpToDef, AgesAreNumbers DEF LeftBrowsers, MachineInv, MachineTypeOK, PhantomTypeOK
  <2>2. Cardinality(Browsing') \in Nat
    <3>1. Browsing' \subseteq Slots
      BY DEF Browsing
    <3> QED
      BY <3>1, MachineAssumption, FS_Subset, FS_CardinalityType
  <2> QED
    BY <1>2, <2>1, <2>2
<1>5. PICK bound : bound = (MaxWorkers + 1) * ((StallLimit \div Timeout) + 1)
  OBVIOUS
<1>6. bound \in Int
  BY <1>5, AgesAreNumbers
<1>7. deaths \in Nat /\ deaths' \in Nat
  BY MachineAssumption DEF MachineInv, MachineTypeOK, PhantomTypeOK
<1>8. total <= bound + deaths
  BY <1>1, <1>5 DEF BrowsersBounded
<1>9. after <= bound + deaths'
  BY <1>1, <1>2, <1>3, <1>4, <1>6, <1>7, <1>8
<1> QED
  BY <1>2, <1>5, <1>9 DEF BrowsersBounded

LEMMA BrowsersStep ==
  ASSUME BrowsersInv, [MachineNext]_machineVars
  PROVE  BrowsersInv'
<1>0. MachineInv /\ MachineInv' /\ PhantomTypeOK' /\ BrowsersBounded /\ deaths \in Nat
  BY MachineStep, MachineStutters, MachineAssumption DEF BrowsersInv, MachineInv, MachineTypeOK, PhantomTypeOK
<1>1. PICK dead : Orphans(dead)
  BY DEF BrowsersInv
<1> SUFFICES (\E dead2 : Orphans(dead2)') /\ BrowsersBounded'
  BY <1>0 DEF BrowsersInv
<1>2. CASE Loop \/ Respawn \/ UNCHANGED machineVars
  BY <1>0, <1>1, <1>2, DaemonKeepsBrowsers, FewerIsBounded
<1>3. ASSUME NEW w \in Slots, DetectApps(w) PROVE (\E dead2 : Orphans(dead2)') /\ BrowsersBounded'
  <2>1. w \in Running /\ w \notin Browsing /\ KillStalled(w, "apps") /\ deaths' = deaths
    BY <1>3 DEF DetectApps, Running, Browsing, Waiting
  <2> QED
    BY <1>0, <1>1, <2>1, KillIsBounded
<1>4. ASSUME NEW w \in Slots, StartQuail(w) PROVE (\E dead2 : Orphans(dead2)') /\ BrowsersBounded'
  <2>1. PICK next \in {"quail", "loop"} : KillStalled(w, next)
    BY <1>4 DEF StartQuail
  <2>2. w \in Running /\ w \notin Browsing /\ deaths' = deaths
    BY <1>4 DEF StartQuail, Running, Browsing, Waiting
  <2> QED
    BY <1>0, <1>1, <2>1, <2>2, KillIsBounded
<1>5. ASSUME NEW w \in Slots, GiveUp(w) \/ WorkerEnds(w) PROVE (\E dead2 : Orphans(dead2)') /\ BrowsersBounded'
  <2>1. Browsing' = Browsing /\ age' = age /\ left' = left /\ deaths' = deaths
    BY <1>0, <1>5 DEF GiveUp, WorkerEnds, Browsing, Waiting, MachineInv, MachineTypeOK, PhantomTypeOK
  <2>2. \A n : Known(dead, n)' = Known(dead, n)
    BY <2>1 DEF Known, Young
  <2>3. Orphans(dead)'
    BY <1>1, <2>1, <2>2 DEF Orphans
  <2>4. BrowsersBounded'
    BY <1>0, <2>1 DEF BrowsersBounded, LeftBrowsers
  <2> QED
    BY <2>3, <2>4
<1>6. ASSUME NEW w \in Slots, QuailTimesOut(w) PROVE (\E dead2 : Orphans(dead2)') /\ BrowsersBounded'
  BY <1>0, <1>1, <1>6, TimeOutLeavesIt, FewerIsBounded
<1>7. ASSUME NEW w \in Slots, BrowserEnds(w) PROVE (\E dead2 : Orphans(dead2)') /\ BrowsersBounded'
  BY <1>0, <1>1, <1>7, BrowserEndsIsFewer, FewerIsBounded
<1>8. ASSUME NEW w \in Slots, WorkerDies(w) PROVE (\E dead2 : Orphans(dead2)') /\ BrowsersBounded'
  BY <1>0, <1>1, <1>8, DeathLeavesOrphan, FewerIsBounded
<1>9. ASSUME NEW a \in Ages, LeftBrowserEnds(a) PROVE (\E dead2 : Orphans(dead2)') /\ BrowsersBounded'
  BY <1>0, <1>1, <1>9, LeftEndsIsFewer, FewerIsBounded
<1>10. CASE MachineTick
  BY <1>0, <1>1, <1>10, TickKeepsBrowsers, FewerIsBounded
<1> QED
  BY <1>2, <1>3, <1>4, <1>5, <1>6, <1>7, <1>8, <1>9, <1>10 DEF MachineNext, Work, StartTest

LEMMA BrowsersStart ==
  ASSUME MachineInit
  PROVE  BrowsersInv
<1> DEFINE z == [a \in Ages |-> 0]
<1>1. MachineInv /\ left = z /\ deaths = 0 /\ Browsing = {}
  BY MachineStarts DEF MachineInit, PhantomInit, Browsing, Waiting
<1>2. z \in [Ages -> Nat] /\ \A a \in Ages : z[a] = 0
  OBVIOUS
<1>3. \A n \in Ages : UpTo(z)[n] = 0
  BY UpToZero
<1> HIDE DEF z
<1>4. \A n : Cardinality(Young(n)) = 0
  <2>1. \A n : Young(n) = {}
    BY <1>1 DEF Young
  <2> QED
    BY <2>1, FS_EmptySet
<1>5. \A n \in Ages : Known(z, n) = 0
  BY <1>1, <1>3, <1>4 DEF Known
<1>6. \A n \in Ages : n + Timeout <= StallLimit => Known(z, n + Timeout) - Known(z, n) <= MaxWorkers + 1
  BY <1>5, AgesAreNumbers
<1>7. Orphans(z)
  BY <1>1, <1>2, <1>3, <1>6, AgesAreNumbers DEF Orphans
<1>8. LeftBrowsers = 0 /\ Cardinality(Browsing) = 0
  BY <1>1, <1>3, AgesAreNumbers, FS_EmptySet DEF LeftBrowsers
<1>9. StallLimit \div Timeout \in Nat
  BY AgesAreNumbers
<1>10. (MaxWorkers + 1) * ((StallLimit \div Timeout) + 1) >= 0
  <2>1. PICK a, b \in Nat : a = MaxWorkers + 1 /\ b = (StallLimit \div Timeout) + 1
    BY <1>9, AgesAreNumbers
  <2> QED
    BY <2>1
<1>11. BrowsersBounded
  BY <1>1, <1>8, <1>10, AgesAreNumbers DEF BrowsersBounded
<1> QED
  BY <1>1, <1>7, <1>11 DEF BrowsersInv

(* The browsers of a machine, those that execTimeout left behind included, *)
(* are at most as many as its workers start in the time until a browser is *)
(* too old, however the time-outs, the kills and the clock fall; a process *)
(* that dies adds at most one (PhantomJs.php:80,112-120,228-242).          *)
THEOREM BrowsersAreBounded == MachineSpec => []BrowsersBounded
<1>1. MachineInit => BrowsersInv
  BY BrowsersStart
<1>2. BrowsersInv /\ [MachineNext]_machineVars => BrowsersInv'
  BY BrowsersStep
<1>3. BrowsersInv => BrowsersBounded
  BY DEF BrowsersInv
<1> QED
  BY <1>1, <1>2, <1>3, PTL DEF MachineSpec

=============================================================================
