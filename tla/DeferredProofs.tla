--------------------------- MODULE DeferredProofs ---------------------------
(***************************************************************************)
(* Deferreds: the outcome of one, and what then and when make of it.        *)
(***************************************************************************)
EXTENDS Deferred, CallbacksProofs

(***************************************************************************)
(* Deferreds: their lists and the stack                                    *)
(***************************************************************************)
None == <<"none", "none">>
StackIds == ListIds \cup {None}
SettlingIds == Deferreds \X {"done", "fail"}
Opposite(l) == <<l[1], Other[l[2]]>>

LEMMA Ids ==
  /\ None \notin ListIds /\ SettlingIds \subseteq ListIds
  /\ \A l \in SettlingIds : /\ l[1] \in Deferreds /\ l[2] \in {"done", "fail"}
                            /\ Opposite(l) \in SettlingIds /\ Opposite(l) # l /\ Opposite(Opposite(l)) = l
  /\ \A l, k \in SettlingIds : l[1] = k[1] => k = l \/ k = Opposite(l)
  /\ \A l \in SettlingIds : /\ FinalState[l[2]] \in {"resolved", "rejected"}
                            /\ Opposite(l)[1] = l[1] /\ FinalState[Opposite(l)[2]] # FinalState[l[2]]
  /\ \A l \in ListIds : <<l[1], "progress">> \in ListIds \ SettlingIds
BY DEF None, ListIds, SettlingIds, Deferreds, Opposite, Other, FinalState

(* What is on a list: the callbacks jQuery ties it to the others with, and  *)
(* later those of the page and of then and when.                           *)
IsPage(f) == f.name \in PageCallbacks
JQuerys == {Settles(l) : l \in ListIds} \cup {Forward(kind) : kind \in {"done", "fail", "progress"}} \cup {Update}
Late == UserCallbacks \cup JQuerys
ListCallbacks(l) ==
  Late \cup IF l \in SettlingIds THEN {SetState(l), DisableOther(l), LockProgress(l)} ELSE {}

PlainOps == {"fire", "disable", "lock", "state", "apply", "count", "discount", "ifNone"}
AllSteps == {Step(op, l) : op \in PlainOps, l \in ListIds} \cup {AddStep(l, f) : l \in ListIds, f \in JQuerys}

(* The steps of a callback of list on. *)
StepFits(on, s) ==
  /\ s.op = "state" => s.on = on /\ on \in SettlingIds
  /\ s.op = "disable" => s.on = Opposite(on) /\ on \in SettlingIds
  /\ s.op = "lock" => s.on \in ListIds \ SettlingIds
  /\ s.op = "add" => s.callback \in JQuerys

StepsFit(x) ==
  /\ x.steps \in Seq(AllSteps)
  /\ \A i \in 1 .. Len(x.steps) : StepFits(x.on, x.steps[i])
  /\ IsPage(x.calls) => x.steps = <<>>
  /\ x.calls.name \in {"setState", "disable"} => x.steps \in {<<>>, x.calls.steps}

(* A call is of the callback its list is at. *)
FrameFits(x, ls) ==
  /\ StepsFit(x)
  /\ x.on = None => x.calls.name \in {"then", "when"}
  /\ x.on \in ListIds => /\ ls[x.on].index + 1 \in 1 .. Len(ls[x.on].list)
                         /\ x.calls = ls[x.on].list[ls[x.on].index + 1]

FramesFit(ls, stack) == \A i \in 1 .. Len(stack) : FrameFits(stack[i], ls)

RunFits(l, c) ==
  /\ DOMAIN c = ListFields
  /\ c.options.memory /\ ~c.options.unique
  /\ c.list \in Seq(ListCallbacks(l))
  /\ c.index \in Nat /\ c.start \in Nat
  /\ c.fired /\ c.alive => c.memory
  /\ c.memory => c.fired
  /\ c.firing => c.alive /\ c.fired /\ c.length = Len(c.list)

ListFits(l, c) == RunFits(l, c) /\ (c.firing => c.index < c.length)

(* The lists done and fail are fired once, and then die together, the one   *)
(* called and the other emptied.                                           *)
TiedFirst(l, list) == Len(list) >= 3 /\ \A i \in 1 .. 3 : list[i] = Tied(l)[i]

SettlingFits(l, c) ==
  /\ ~c.repeat /\ c.waiting = 0 /\ c.start = 0
  /\ ~c.alive => ~c.fired /\ c.list = <<>>
  /\ c.alive /\ ~c.fired => TiedFirst(l, c.list)
  /\ c.fired /\ ~c.firing => c.list = <<>>
  /\ \A i \in 1 .. Len(c.list) : c.list[i] \in Late \/ (TiedFirst(l, c.list) /\ i <= 3)

ListsAndStackFit(ls, stack) ==
  /\ DOMAIN ls = ListIds
  /\ FiringFits(ls, stack, StackIds)
  /\ FramesFit(ls, stack)
  /\ \A l \in ListIds : ListFits(l, ls[l])
  /\ \A l \in SettlingIds : SettlingFits(l, ls[l])

LEMMA CallbackNames ==
  /\ \A f \in UserCallbacks : IsPage(f) /\ f.steps = <<>>
  /\ \A f \in JQuerys : ~IsPage(f)
  /\ \A f \in Late : f.name \notin {"setState", "disable", "lock"}
  /\ \A l : /\ SetState(l).name = "setState" /\ SetState(l).steps = <<Step("state", l)>>
            /\ DisableOther(l).name = "disable" /\ DisableOther(l).steps = <<Step("disable", Opposite(l))>>
            /\ LockProgress(l).name = "lock" /\ LockProgress(l).steps = <<Step("lock", <<l[1], "progress">>)>>
            /\ ~IsPage(SetState(l)) /\ ~IsPage(DisableOther(l)) /\ ~IsPage(LockProgress(l))
  /\ \A l : Settles(l).name = "settle" /\ Settles(l).steps = <<Step("fire", l)>>
  /\ \A kind : /\ Forward(kind).name = "forward"
               /\ Forward(kind).steps = <<Step("apply", <<"result", kind>>), Step("fire", <<"result", kind>>)>>
  /\ Update.name = "update" /\ Update.steps = <<Step("count", <<"result", "done">>)>>
  /\ \A name \in {"then", "when"} : name \notin PageCallbacks
<1>1. \A f \in UserCallbacks : f.name \in PageCallbacks /\ f.steps = <<>>
  BY DEF UserCallbacks, Callback
<1>2. \A l : /\ SetState(l).name = "setState" /\ SetState(l).steps = <<Step("state", l)>>
             /\ DisableOther(l).name = "disable" /\ DisableOther(l).steps = <<Step("disable", Opposite(l))>>
             /\ LockProgress(l).name = "lock" /\ LockProgress(l).steps = <<Step("lock", <<l[1], "progress">>)>>
  BY DEF SetState, DisableOther, LockProgress, Callback, Opposite
<1>3. \A l : Settles(l).name = "settle" /\ Settles(l).steps = <<Step("fire", l)>>
  BY DEF Settles, Callback
<1>4. \A kind : /\ Forward(kind).name = "forward"
                /\ Forward(kind).steps = <<Step("apply", <<"result", kind>>), Step("fire", <<"result", kind>>)>>
  BY DEF Forward, Callback
<1>5. Update.name = "update" /\ Update.steps = <<Step("count", <<"result", "done">>)>>
  BY DEF Update, Callback
<1>6. \A f \in JQuerys : f.name \in {"settle", "forward", "update"}
  BY <1>3, <1>4, <1>5 DEF JQuerys
<1>7. \A name \in {"setState", "disable", "lock", "settle", "forward", "update", "then", "when"} :
        name \notin PageCallbacks
  BY DeferredAssumption DEF DeferredAssumption
<1>8. \A f \in Late : f.name \notin {"setState", "disable", "lock"}
  BY <1>1, <1>6, <1>7 DEF Late
<1>9. /\ \A f \in JQuerys : ~IsPage(f)
      /\ \A l : ~IsPage(SetState(l)) /\ ~IsPage(DisableOther(l)) /\ ~IsPage(LockProgress(l))
  BY <1>2, <1>6, <1>7 DEF IsPage
<1>. QED
  BY <1>1, <1>2, <1>3, <1>4, <1>5, <1>7, <1>8, <1>9 DEF IsPage

LEMMA OneStep ==
  ASSUME NEW s \in AllSteps, NEW on, StepFits(on, s)
  PROVE  <<s>> \in Seq(AllSteps) /\ \A i \in 1 .. Len(<<s>>) : StepFits(on, <<s>>[i])
OBVIOUS

LEMMA PlainSteps ==
  \A op \in PlainOps, l \in ListIds :
    Step(op, l) \in AllSteps /\ Step(op, l).op = op /\ Step(op, l).on = l
BY DEF AllSteps, Step

(* A callback that is called has all its steps before it. *)
LEMMA CallStarts ==
  ASSUME NEW l \in ListIds, NEW f \in ListCallbacks(l), NEW x, x.on = l, x.calls = f, x.steps = f.steps
  PROVE  StepsFit(x)
<1>1. CASE f \in UserCallbacks
  <2>1. f.steps = <<>> /\ f.name \notin {"setState", "disable"}
    BY <1>1, CallbackNames DEF Late
  <2>. QED
    BY <2>1 DEF StepsFit
<1>2. CASE \E k \in ListIds : f = Settles(k)
  <2>1. PICK k \in ListIds : f = Settles(k)
    BY <1>2
  <2>2. f.steps = <<Step("fire", k)>> /\ f.name = "settle" /\ ~IsPage(f)
    BY <2>1, CallbackNames DEF JQuerys
  <2>3. Step("fire", k) \in AllSteps /\ StepFits(l, Step("fire", k))
    BY PlainSteps DEF PlainOps, StepFits
  <2>. QED
    BY <2>2, <2>3, OneStep DEF StepsFit
<1>3. CASE \E kind \in {"done", "fail", "progress"} : f = Forward(kind)
  <2>1. PICK kind \in {"done", "fail", "progress"} : f = Forward(kind)
    BY <1>3
  <2>2. <<"result", kind>> \in ListIds
    BY DEF ListIds, Deferreds
  <2>3. PICK s, t : s = Step("apply", <<"result", kind>>) /\ t = Step("fire", <<"result", kind>>)
    OBVIOUS
  <2>4. f.steps = <<s, t>> /\ f.name = "forward" /\ ~IsPage(f)
    BY <2>1, <2>3, CallbackNames DEF JQuerys
  <2>5. s \in AllSteps /\ t \in AllSteps /\ StepFits(l, s) /\ StepFits(l, t)
    BY <2>2, <2>3, PlainSteps DEF PlainOps, StepFits
  <2>6. <<s, t>> \in Seq(AllSteps) /\ \A i \in 1 .. Len(<<s, t>>) : StepFits(l, <<s, t>>[i])
    BY <2>5
  <2>. QED
    BY <2>4, <2>6 DEF StepsFit
<1>4. CASE f = Update
  <2>1. <<"result", "done">> \in ListIds
    BY DEF ListIds, Deferreds
  <2>2. f.steps = <<Step("count", <<"result", "done">>)>> /\ f.name = "update" /\ ~IsPage(f)
    BY <1>4, CallbackNames DEF JQuerys
  <2>3. Step("count", <<"result", "done">>) \in AllSteps /\ StepFits(l, Step("count", <<"result", "done">>))
    BY <2>1, PlainSteps DEF PlainOps, StepFits
  <2>. QED
    BY <2>2, <2>3, OneStep DEF StepsFit
<1>5. CASE l \in SettlingIds /\ f = SetState(l)
  <2>1. f.steps = <<Step("state", l)>> /\ ~IsPage(f)
    BY <1>5, CallbackNames
  <2>2. Step("state", l) \in AllSteps /\ StepFits(l, Step("state", l))
    BY <1>5, PlainSteps DEF PlainOps, StepFits
  <2>. QED
    BY <2>1, <2>2, OneStep DEF StepsFit
<1>6. CASE l \in SettlingIds /\ f = DisableOther(l)
  <2>1. f.steps = <<Step("disable", Opposite(l))>> /\ ~IsPage(f)
    BY <1>6, CallbackNames
  <2>2. Opposite(l) \in ListIds
    BY <1>6, Ids
  <2>3. Step("disable", Opposite(l)) \in AllSteps /\ StepFits(l, Step("disable", Opposite(l)))
    BY <1>6, <2>2, PlainSteps DEF PlainOps, StepFits
  <2>. QED
    BY <2>1, <2>3, OneStep DEF StepsFit
<1>7. CASE l \in SettlingIds /\ f = LockProgress(l)
  <2>1. PICK k : k = <<l[1], "progress">>
    OBVIOUS
  <2>2. f.steps = <<Step("lock", k)>> /\ ~IsPage(f) /\ f.name = "lock"
    BY <1>7, <2>1, CallbackNames
  <2>3. k \in ListIds \ SettlingIds
    BY <2>1, Ids
  <2>4. Step("lock", k) \in AllSteps /\ StepFits(l, Step("lock", k))
    BY <2>3, PlainSteps DEF PlainOps, StepFits
  <2>. QED
    BY <2>2, <2>4, OneStep DEF StepsFit
<1>. QED
  BY <1>1, <1>2, <1>3, <1>4, <1>5, <1>6, <1>7 DEF ListCallbacks, Late, JQuerys

(* What fire does to a list. *)
LEMMA StartedRuns ==
  ASSUME NEW l, NEW c, RunFits(l, c), c.alive
  PROVE  /\ RunFits(l, Started(c))
         /\ Started(c).list = c.list /\ Started(c).index = c.start /\ Started(c).start = 0
         /\ Started(c).length = Len(c.list)
         /\ Started(c).firing /\ Started(c).alive /\ Started(c).fired
         /\ Started(c).repeat = c.repeat /\ Started(c).waiting = c.waiting
<1>1. PICK d : d = Started(c)
  OBVIOUS
<1>2. /\ DOMAIN d = ListFields /\ d.options = c.options
      /\ d.list = c.list /\ d.index = c.start /\ d.start = 0 /\ d.length = Len(c.list)
      /\ d.firing /\ d.fired /\ d.memory = c.options.memory
      /\ d.alive = c.alive /\ d.repeat = c.repeat /\ d.waiting = c.waiting
  BY <1>1 DEF Started, RunFits, ListFields
<1>. QED
  BY <1>1, <1>2 DEF RunFits

LEMMA FinishedRuns ==
  ASSUME NEW l, NEW c, RunFits(l, c), WaitFits(c), c.firing
  PROVE  /\ RunFits(l, Finished(c))
         /\ ~c.repeat => /\ Finished(c).list = <<>> /\ ~Finished(c).firing /\ ~Finished(c).repeat
                         /\ Finished(c).alive = c.alive /\ Finished(c).fired = c.fired
                         /\ Finished(c).waiting = c.waiting /\ Finished(c).start = c.start
<1>1. PICK idle : idle = [c EXCEPT !.firing = FALSE, !.cleared = FALSE]
  OBVIOUS
<1>2. /\ DOMAIN idle = ListFields /\ idle.options = c.options /\ idle.list = c.list
      /\ idle.index = c.index /\ idle.start = c.start /\ idle.fired = c.fired /\ idle.alive = c.alive
      /\ idle.memory = c.memory /\ ~idle.firing /\ idle.repeat = c.repeat /\ idle.waiting = c.waiting
  BY <1>1 DEF RunFits, ListFields
<1>3. c.alive /\ c.memory
  BY DEF RunFits
<1>4. CASE c.repeat /\ c.waiting > 0
  <2>1. PICK next : next = [idle EXCEPT !.waiting = @ - 1, !.due = @ - 1]
    OBVIOUS
  <2>2. /\ DOMAIN next = ListFields /\ next.options = c.options /\ next.list = c.list
        /\ next.index = c.index /\ next.start = c.start /\ next.fired = c.fired /\ next.alive = c.alive
        /\ next.memory = c.memory /\ ~next.firing
    BY <1>2, <2>1 DEF ListFields
  <2>3. RunFits(l, next)
    BY <2>2 DEF RunFits
  <2>4. Finished(c) = Started(next)
    BY <1>1, <1>3, <1>4, <2>1 DEF Finished
  <2>. QED
    BY <1>3, <1>4, <2>2, <2>3, <2>4, StartedRuns
<1>5. CASE c.repeat /\ ~(c.waiting > 0)
  <2>1. Finished(c) = idle
    BY <1>1, <1>3, <1>5 DEF Finished
  <2>. QED
    BY <1>2, <1>5, <2>1 DEF RunFits
<1>6. CASE ~c.repeat
  <2>1. PICK d : d = [idle EXCEPT !.list = <<>>]
    OBVIOUS
  <2>2. Finished(c) = d
    BY <1>1, <1>3, <1>6, <2>1 DEF Finished
  <2>3. /\ DOMAIN d = ListFields /\ d.options = c.options /\ d.list = <<>>
        /\ d.index = c.index /\ d.start = c.start /\ d.fired = c.fired /\ d.alive = c.alive
        /\ d.memory = c.memory /\ ~d.firing /\ d.repeat = c.repeat /\ d.waiting = c.waiting
    BY <1>2, <2>1 DEF ListFields
  <2>4. <<>> \in Seq(ListCallbacks(l))
    OBVIOUS
  <2>. QED
    BY <1>6, <2>2, <2>3, <2>4 DEF RunFits
<1>. QED
  BY <1>4, <1>5, <1>6

LEMMA ContinuedRuns ==
  ASSUME NEW l, NEW c, RunFits(l, c), WaitFits(c)
  PROVE  ListFits(l, Continued(c))
<1>1. c.waiting \in Nat
  BY DEF WaitFits
<1>2. PICK after : /\ after[0] = c /\ Continued(c) = after[c.waiting + 1]
                   /\ \A n \in 1 .. c.waiting + 1 :
                        after[n] = IF Pauses(after[n - 1]) THEN after[n - 1] ELSE Finished(after[n - 1])
  BY <1>1, ContinuedSteps
<1>. DEFINE S == {n \in 0 .. c.waiting + 1 : RunFits(l, after[n]) /\ WaitFits(after[n])}
<1>3. 0 \in S
  BY <1>1, <1>2
<1>4. ASSUME NEW n \in 1 .. c.waiting + 1, n - 1 \in S PROVE n \in S
  <2>1. PICK x : x = after[n - 1]
    OBVIOUS
  <2>2. RunFits(l, x) /\ WaitFits(x)
    BY <1>4, <2>1
  <2>3. after[n] = IF Pauses(x) THEN x ELSE Finished(x)
    BY <1>2, <2>1
  <2>4. ~Pauses(x) => RunFits(l, Finished(x)) /\ WaitFits(Finished(x))
    BY <2>2, FinishedFits, FinishedRuns DEF Pauses
  <2>. QED
    BY <2>2, <2>3, <2>4
<1>5. c.waiting + 1 \in S
  <2>1. c.waiting + 1 \in Nat /\ c.waiting + 1 \in 0 .. c.waiting + 1
    BY <1>1
  <2>. HIDE DEF S
  <2>. QED
    BY <1>3, <1>4, <2>1, StepByStep
<1>6. RunFits(l, Continued(c)) /\ Pauses(Continued(c))
  BY <1>2, <1>5, ContinuedFits
<1>. QED
  BY <1>6 DEF ListFits, Pauses

(* When no call waits, a firing ends in one way. *)
LEMMA ContinuedOnce ==
  ASSUME NEW c, c.waiting = 0
  PROVE  Continued(c) = IF Pauses(c) THEN c ELSE Finished(c)
<1>1. c.waiting \in Nat /\ c.waiting + 1 = 1 /\ 1 \in 1 .. c.waiting + 1 /\ 1 - 1 = 0
  OBVIOUS
<1>2. PICK after : /\ after[0] = c /\ Continued(c) = after[c.waiting + 1]
                   /\ \A n \in 1 .. c.waiting + 1 :
                        after[n] = IF Pauses(after[n - 1]) THEN after[n - 1] ELSE Finished(after[n - 1])
  BY <1>1, ContinuedSteps
<1>3. after[1] = IF Pauses(after[0]) THEN after[0] ELSE Finished(after[0])
  BY <1>1, <1>2
<1>. QED
  BY <1>1, <1>2, <1>3

(* A callback more. *)
IsGrown(l, g, c, f) ==
  /\ DOMAIN g = ListFields /\ g.list \in Seq(ListCallbacks(l))
  /\ Len(g.list) = Len(c.list) + 1 /\ Len(c.list) \in Nat
  /\ g.list[Len(c.list) + 1] = f /\ \A i \in 1 .. Len(c.list) : g.list[i] = c.list[i]
  /\ g.options = c.options /\ g.alive = c.alive /\ g.waiting = c.waiting /\ g.repeat = c.repeat /\ g.due = c.due /\ g.dropped = c.dropped
  /\ g.memory = c.memory /\ g.fired = c.fired /\ g.firing = c.firing
  /\ g.index = c.index /\ g.length = c.length /\ g.start = c.start

LEMMA GrownFits ==
  ASSUME NEW l, NEW c, ListFits(l, c), NEW f \in Late, NEW g, g = Appended(c, f)
  PROVE  IsGrown(l, g, c, f)
<1>1. PICK S : S = ListCallbacks(l)
  OBVIOUS
<1>2. c.list \in Seq(S) /\ f \in S /\ ~c.options.unique /\ DOMAIN c = ListFields
  BY <1>1 DEF ListFits, RunFits, ListCallbacks
<1>3. PICK s : s = c.list
  OBVIOUS
<1>4. PICK t : t = Append(s, f)
  OBVIOUS
<1>5. /\ t \in Seq(S) /\ Len(t) = Len(s) + 1 /\ Len(s) \in Nat
      /\ t[Len(s) + 1] = f /\ \A i \in 1 .. Len(s) : t[i] = s[i]
  BY <1>2, <1>3, <1>4, AppendProperties
<1>6. g = [c EXCEPT !.list = t]
  BY <1>2, <1>3, <1>4 DEF Appended
<1>7. /\ DOMAIN g = ListFields /\ g.list = t
      /\ g.options = c.options /\ g.alive = c.alive /\ g.waiting = c.waiting /\ g.repeat = c.repeat /\ g.due = c.due /\ g.dropped = c.dropped
      /\ g.memory = c.memory /\ g.fired = c.fired /\ g.firing = c.firing
      /\ g.index = c.index /\ g.length = c.length /\ g.start = c.start
  BY <1>2, <1>6 DEF ListFields
<1>. QED
  BY <1>1, <1>3, <1>5, <1>7 DEF IsGrown

(***************************************************************************)
(* The life of a list done or fail                                         *)
(***************************************************************************)
LEMMA TiedCallbacks ==
  ASSUME NEW l \in SettlingIds
  PROVE  /\ Tied(l)[1] = SetState(l) /\ Tied(l)[2] = DisableOther(l) /\ Tied(l)[3] = LockProgress(l)
         /\ Tied(l) \in Seq(ListCallbacks(l)) /\ Len(Tied(l)) = 3
BY DEF Tied, ListCallbacks

(* It gets another callback while it is not at rest after its firing. *)
LEMMA SettlingGrows ==
  ASSUME NEW l \in SettlingIds, NEW c, ListFits(l, c), SettlingFits(l, c), c.alive, NEW f \in Late,
         c.firing \/ ~c.fired,
         NEW d, DOMAIN d = ListFields, d.list = Appended(c, f).list, d.fired = c.fired, d.alive = c.alive,
         d.firing = c.firing, d.repeat = c.repeat, d.waiting = c.waiting, d.start = c.start
  PROVE  SettlingFits(l, d)
<1>1. PICK g : g = Appended(c, f)
  OBVIOUS
<1>2. /\ Len(g.list) = Len(c.list) + 1 /\ Len(c.list) \in Nat
      /\ g.list[Len(c.list) + 1] = f /\ \A i \in 1 .. Len(c.list) : g.list[i] = c.list[i]
  BY <1>1, GrownFits DEF IsGrown
<1>3. PICK s, t : s = c.list /\ t = g.list
  OBVIOUS
<1>4. Len(t) = Len(s) + 1 /\ Len(s) \in Nat /\ t[Len(s) + 1] = f /\ \A i \in 1 .. Len(s) : t[i] = s[i]
  BY <1>2, <1>3
<1>5. TiedFirst(l, s) => TiedFirst(l, t)
  BY <1>4 DEF TiedFirst
<1>6. ASSUME NEW i \in 1 .. Len(t) PROVE t[i] \in Late \/ (TiedFirst(l, t) /\ i <= 3)
  <2>1. i \in 1 .. Len(s) \/ i = Len(s) + 1
    BY <1>4
  <2>2. CASE i \in 1 .. Len(s)
    <3>1. s[i] \in Late \/ (TiedFirst(l, s) /\ i <= 3)
      BY <1>3, <2>2 DEF SettlingFits
    <3>. QED
      BY <1>4, <1>5, <2>2, <3>1
  <2>. QED
    BY <1>4, <2>1, <2>2
<1>. QED
  BY <1>1, <1>3, <1>5, <1>6 DEF SettlingFits

(* It is fired, for the first time and the last. *)
LEMMA SettlingFires ==
  ASSUME NEW l \in SettlingIds, NEW c, ListFits(l, c), SettlingFits(l, c), WaitFits(c), c.alive, ~c.fired,
         NEW e, e = Continued(Started(c))
  PROVE  /\ SettlingFits(l, e) /\ ListFits(l, e) /\ WaitFits(e)
         /\ e.firing /\ e.alive /\ e.fired /\ e.index = 0 /\ e.list = c.list /\ e.list[1] = SetState(l)
<1>1. PICK d : d = Started(c)
  OBVIOUS
<1>2. /\ RunFits(l, d) /\ d.list = c.list /\ d.index = 0 /\ d.start = 0 /\ d.length = Len(c.list)
      /\ d.firing /\ d.alive /\ d.fired /\ ~d.repeat /\ d.waiting = 0
  BY <1>1, StartedRuns DEF ListFits, SettlingFits
<1>3. TiedFirst(l, c.list) /\ Len(c.list) >= 3 /\ Len(c.list) \in Nat
  BY DEF SettlingFits, TiedFirst, ListFits, RunFits
<1>4. Pauses(d)
  BY <1>2, <1>3 DEF Pauses
<1>5. e = d
  BY <1>1, <1>2, <1>4, ContinuedOnce
<1>6. WaitFits(d)
  BY <1>1, StartedFits DEF SettlingFits, WaitFits
<1>7. d.list[1] = SetState(l)
  BY <1>2, <1>3, TiedCallbacks DEF TiedFirst
<1>8. ListFits(l, d)
  BY <1>2, <1>3 DEF ListFits
<1>9. SettlingFits(l, d)
  BY <1>2 DEF SettlingFits
<1>. QED
  BY <1>2, <1>5, <1>6, <1>7, <1>8, <1>9

(* A callback that joins after its firing is called at once. *)
LEMMA SettlingJoined ==
  ASSUME NEW l \in SettlingIds, NEW c, ListFits(l, c), SettlingFits(l, c), WaitFits(c), c.alive, c.fired, ~c.firing,
         NEW f \in Late, NEW e, e = Continued(Started([Appended(c, f) EXCEPT !.start = Len(c.list)]))
  PROVE  /\ SettlingFits(l, e) /\ ListFits(l, e) /\ WaitFits(e)
         /\ e.firing /\ e.alive /\ e.fired /\ e.index = 0 /\ Len(e.list) = 1 /\ e.list[1] = f
         /\ c.list = <<>>
<1>0. c.list = <<>> /\ Len(c.list) = 0 /\ c.start = 0 /\ ~c.repeat /\ c.waiting = 0
  BY DEF SettlingFits
<1>1. PICK g : g = Appended(c, f)
  OBVIOUS
<1>2. /\ DOMAIN g = ListFields /\ g.list \in Seq(ListCallbacks(l))
      /\ Len(g.list) = 1 /\ g.list[1] = f
      /\ g.options = c.options /\ g.alive = c.alive /\ g.waiting = c.waiting /\ g.repeat = c.repeat /\ g.due = c.due /\ g.dropped = c.dropped
      /\ g.memory = c.memory /\ g.fired = c.fired /\ g.firing = c.firing
      /\ g.index = c.index /\ g.length = c.length /\ g.start = c.start
  <2>1. IsGrown(l, g, c, f)
    BY <1>1, GrownFits
  <2>2. PICK n : n = Len(c.list)
    OBVIOUS
  <2>3. Len(g.list) = n + 1 /\ g.list[n + 1] = f /\ n = 0 /\ n + 1 = 1
    BY <1>0, <2>1, <2>2 DEF IsGrown
  <2>4. Len(g.list) = 1 /\ g.list[1] = f
    BY <2>3
  <2>. QED
    BY <2>1, <2>4 DEF IsGrown
<1>3. PICK h : h = [g EXCEPT !.start = Len(c.list)]
  OBVIOUS
<1>4. /\ DOMAIN h = ListFields /\ h.list = g.list
      /\ h.options = c.options /\ h.alive = c.alive /\ h.waiting = c.waiting /\ h.repeat = c.repeat /\ h.due = c.due /\ h.dropped = c.dropped
      /\ h.memory = c.memory /\ h.fired = c.fired /\ h.firing = c.firing
      /\ h.index = c.index /\ h.length = c.length /\ h.start = 0
  BY <1>0, <1>2, <1>3 DEF ListFields
<1>5. RunFits(l, h)
  BY <1>2, <1>4 DEF ListFits, RunFits
<1>6. PICK d : d = Started(h)
  OBVIOUS
<1>7. /\ RunFits(l, d) /\ d.list = g.list /\ d.index = 0 /\ d.start = 0 /\ d.length = 1
      /\ d.firing /\ d.alive /\ d.fired /\ ~d.repeat /\ d.waiting = 0
  <2>1. h.alive /\ h.start = 0 /\ h.list = g.list /\ ~h.repeat /\ h.waiting = 0 /\ Len(h.list) = 1
    BY <1>0, <1>2, <1>4
  <2>2. /\ RunFits(l, d) /\ d.list = h.list /\ d.index = h.start /\ d.start = 0 /\ d.length = Len(h.list)
        /\ d.firing /\ d.alive /\ d.fired /\ d.repeat = h.repeat /\ d.waiting = h.waiting
    BY <1>5, <1>6, <2>1, StartedRuns
  <2>. QED
    BY <2>1, <2>2
<1>8. Pauses(d)
  BY <1>7 DEF Pauses
<1>9. e = d
  BY <1>1, <1>3, <1>6, <1>7, <1>8, ContinuedOnce
<1>10. WaitFits(d)
  <2>1. h.waiting \in Nat /\ h.dropped \in Nat /\ h.due = h.waiting + h.dropped
    BY <1>0, <1>4 DEF WaitFits
  <2>. QED
    BY <1>0, <1>4, <1>6, <2>1, StartedFits
<1>11. ListFits(l, d)
  BY <1>7 DEF ListFits
<1>12. SettlingFits(l, d)
  BY <1>2, <1>7 DEF SettlingFits
<1>. QED
  BY <1>0, <1>2, <1>7, <1>9, <1>10, <1>11, <1>12

(* One of its callbacks returns. *)
LEMMA SettlingReturns ==
  ASSUME NEW l \in SettlingIds, NEW c, ListFits(l, c), SettlingFits(l, c), WaitFits(c), c.firing,
         NEW e, e = Continued([c EXCEPT !.index = @ + 1])
  PROVE  /\ SettlingFits(l, e) /\ e.alive /\ e.fired
         /\ \/ /\ e.firing /\ c.index + 1 < Len(c.list) /\ e.index = c.index + 1 /\ e.list = c.list
            \/ ~e.firing /\ c.index + 1 = Len(c.list) /\ e.list = <<>>
<1>1. PICK d : d = [c EXCEPT !.index = @ + 1]
  OBVIOUS
<1>2. c.index \in Nat /\ DOMAIN c = ListFields /\ c.alive /\ c.fired /\ c.length = Len(c.list) /\ c.index < c.length
  BY DEF ListFits, RunFits
<1>3. /\ DOMAIN d = ListFields /\ d.options = c.options /\ d.list = c.list /\ d.index = c.index + 1
      /\ d.start = c.start /\ d.fired = c.fired /\ d.alive = c.alive /\ d.memory = c.memory
      /\ d.firing = c.firing /\ d.repeat = c.repeat /\ d.waiting = c.waiting /\ d.length = c.length
      /\ d.due = c.due /\ d.dropped = c.dropped
  BY <1>1, <1>2 DEF ListFields
<1>4. RunFits(l, d) /\ WaitFits(d) /\ ~d.repeat /\ d.waiting = 0 /\ d.start = 0 /\ d.index \in Nat
  BY <1>2, <1>3 DEF ListFits, RunFits, WaitFits, SettlingFits
<1>5. e = IF Pauses(d) THEN d ELSE Finished(d)
  BY <1>1, <1>4, ContinuedOnce
<1>6. CASE Pauses(d)
  <2>1. SettlingFits(l, d)
    BY <1>2, <1>3 DEF SettlingFits
  <2>. QED
    BY <1>2, <1>3, <1>5, <1>6, <2>1 DEF Pauses
<1>7. CASE ~Pauses(d)
  <2>1. PICK g : g = Finished(d)
    OBVIOUS
  <2>2. /\ g.list = <<>> /\ ~g.firing /\ ~g.repeat /\ g.alive /\ g.fired /\ g.waiting = 0 /\ g.start = 0
    BY <1>2, <1>3, <1>4, <2>1, FinishedRuns
  <2>3. c.index + 1 = Len(c.list)
    <3>1. Len(c.list) \in Nat
      BY DEF ListFits, RunFits
    <3>. QED
      BY <1>2, <1>3, <1>7, <3>1 DEF Pauses
  <2>4. SettlingFits(l, g)
    BY <2>2 DEF SettlingFits
  <2>. QED
    BY <1>5, <1>7, <2>1, <2>2, <2>3, <2>4
<1>. QED
  BY <1>6, <1>7

(***************************************************************************)
(* What the operations do to the stack                                     *)
(***************************************************************************)
(* A list that is being fired keeps its callbacks and its place. *)
LEMMA KeptFramesFit ==
  ASSUME NEW outer, FramesFit(lists, outer), DOMAIN lists = ListIds, NEW l \in ListIds, NEW d, Keep(l, d, outer),
         \A i \in 1 .. Len(outer) : outer[i].on = l =>
           /\ d.index = lists[l].index
           /\ Len(lists[l].list) \in Nat /\ Len(d.list) \in Nat /\ Len(lists[l].list) <= Len(d.list)
           /\ \A j \in 1 .. Len(lists[l].list) : d.list[j] = lists[l].list[j]
  PROVE  FramesFit(lists', frames')
<1>1. frames' = outer /\ lists'[l] = d /\ \A k \in ListIds : k # l => lists'[k] = lists[k]
  BY DEF Keep
<1>2. ASSUME NEW i \in 1 .. Len(outer) PROVE FrameFits(outer[i], lists')
  <2>1. FrameFits(outer[i], lists)
    BY DEF FramesFit
  <2>2. CASE outer[i].on # l
    BY <1>1, <2>1, <2>2 DEF FrameFits
  <2>3. CASE outer[i].on = l
    <3>1. PICK s, t : s = lists[l].list /\ t = d.list
      OBVIOUS
    <3>2. lists[l].index + 1 \in 1 .. Len(s) /\ outer[i].calls = s[lists[l].index + 1]
      BY <2>1, <2>3, <3>1 DEF FrameFits
    <3>3. /\ d.index = lists[l].index /\ Len(s) \in Nat /\ Len(t) \in Nat /\ Len(s) <= Len(t)
          /\ \A j \in 1 .. Len(s) : t[j] = s[j]
      BY <2>3, <3>1
    <3>4. d.index + 1 \in 1 .. Len(t) /\ outer[i].calls = t[d.index + 1]
      BY <3>2, <3>3
    <3>. QED
      BY <1>1, <2>1, <2>3, <3>1, <3>4 DEF FrameFits
  <2>. QED
    BY <2>2, <2>3
<1>. QED
  BY <1>1, <1>2 DEF FramesFit

(* A list without a call is perhaps being fired from now on.  What the      *)
(* stack is then, for those who need it.                                   *)
LEMMA SettledFramesFit ==
  ASSUME NEW outer, IsStack(outer, StackIds), FramesFit(lists, outer), DOMAIN lists = ListIds,
         NEW l \in ListIds, NEW d, Settle(l, d, outer), ListFits(l, d), ~OnStack(l, outer)
  PROVE  /\ FramesFit(lists', frames')
         /\ lists'[l] = d /\ \A k \in ListIds : k # l => lists'[k] = lists[k]
         /\ ~d.firing => frames' = outer
         /\ d.firing => \E x : /\ WithOneMore(frames', x, outer)
                               /\ x.on = l /\ x.calls = d.list[d.index + 1] /\ x.steps = x.calls.steps
<1>1. lists'[l] = d /\ \A k \in ListIds : k # l => lists'[k] = lists[k]
  BY DEF Settle
<1>2. ASSUME NEW i \in 1 .. Len(outer) PROVE FrameFits(outer[i], lists')
  <2>1. FrameFits(outer[i], lists) /\ outer[i].on # l
    BY DEF FramesFit, OnStack
  <2>. QED
    BY <1>1, <2>1 DEF FrameFits
<1>3. CASE ~d.firing
  <2>1. frames' = outer
    BY <1>3 DEF Settle
  <2>. QED
    BY <1>1, <1>2, <1>3, <2>1 DEF FramesFit
<1>4. CASE d.firing
  <2>1. PICK f : f = d.list[d.index + 1]
    OBVIOUS
  <2>2. PICK x : x = [on |-> l, calls |-> f, steps |-> f.steps]
    OBVIOUS
  <2>3. frames' = <<x>> \o outer
    BY <1>4, <2>1, <2>2 DEF Settle
  <2>4. x.on = l /\ x.calls = f /\ x.steps = f.steps /\ DOMAIN x = {"on", "calls", "steps"} /\ l \in StackIds
    BY <2>2 DEF StackIds
  <2>5. WithOneMore(frames', x, outer)
    <3>1. PICK pushed : pushed = <<x>> \o outer
      OBVIOUS
    <3>2. WithOneMore(pushed, x, outer)
      BY <2>4, <3>1, Pushed
    <3>. QED
      BY <2>3, <3>1, <3>2
  <2>6. d.index + 1 \in 1 .. Len(d.list) /\ f \in ListCallbacks(l)
    <3>1. d.index \in Nat /\ d.list \in Seq(ListCallbacks(l)) /\ d.index < Len(d.list)
      BY <1>4 DEF ListFits, RunFits
    <3>. QED
      BY <2>1, <3>1
  <2>7. FrameFits(x, lists')
    <3>1. StepsFit(x)
      BY <2>4, <2>6, CallStarts
    <3>. QED
      BY <1>1, <2>1, <2>4, <2>6, <3>1, Ids DEF FrameFits
  <2>8. FramesFit(lists', frames')
    BY <1>2, <2>5, <2>7 DEF FramesFit, WithOneMore
  <2>. QED
    BY <1>1, <1>4, <2>1, <2>4, <2>5, <2>8
<1>. QED
  BY <1>3, <1>4

(***************************************************************************)
(* The operations on the lists of deferreds                                *)
(***************************************************************************)
Unchanged(l) == \A k \in ListIds : k # l => lists'[k] = lists[k]

(* No callback that settles a deferred is called. *)
CallsLate(outer) == frames' = outer \/ \E x : WithOneMore(frames', x, outer) /\ x.calls \in Late

(* The callbacks of the page a list still has to call. *)
Owed(c) == {i \in 1 .. Len(c.list) : IsPage(c.list[i]) /\ (c.firing => i > c.index)}

LEMMA OwedIsFinite ==
  ASSUME NEW l, NEW c, ListFits(l, c)
  PROVE  IsFiniteSet(Owed(c)) /\ Cardinality(Owed(c)) \in Nat
<1>1. Len(c.list) \in Nat
  BY DEF ListFits, RunFits
<1>2. IsFiniteSet(1 .. Len(c.list))
  BY <1>1, FS_Interval
<1>3. Owed(c) \subseteq 1 .. Len(c.list)
  BY DEF Owed
<1>. QED
  BY <1>2, <1>3, FS_Subset, FS_CardinalityType

(* A list that is not fired anew takes a value. *)
LEMMA KeptFits ==
  ASSUME NEW outer, ListsAndStackFit(lists, outer), NEW l \in ListIds, NEW d, Keep(l, d, outer),
         FiringFits(lists', frames', StackIds), DOMAIN lists' = ListIds,
         ListFits(l, d), l \in SettlingIds => SettlingFits(l, d),
         lists[l].firing =>
           /\ d.index = lists[l].index
           /\ Len(lists[l].list) <= Len(d.list)
           /\ \A j \in 1 .. Len(lists[l].list) : d.list[j] = lists[l].list[j]
  PROVE  ListsAndStackFit(lists', frames') /\ Unchanged(l) /\ lists'[l] = d /\ frames' = outer
<1>1. frames' = outer /\ lists'[l] = d /\ \A k \in ListIds : k # l => lists'[k] = lists[k]
  BY DEF Keep, ListsAndStackFit
<1>2. Len(lists[l].list) \in Nat /\ Len(d.list) \in Nat
  BY DEF ListsAndStackFit, ListFits, RunFits
<1>3. \A i \in 1 .. Len(outer) : outer[i].on = l => lists[l].firing
  BY DEF ListsAndStackFit, FiringFits, OnStack
<1>4. FramesFit(lists', frames')
  BY <1>2, <1>3, KeptFramesFit DEF ListsAndStackFit
<1>5. \A k \in ListIds : ListFits(k, lists'[k])
  BY <1>1 DEF ListsAndStackFit
<1>6. \A k \in SettlingIds : SettlingFits(k, lists'[k])
  BY <1>1, Ids DEF ListsAndStackFit
<1>. QED
  BY <1>1, <1>4, <1>5, <1>6 DEF ListsAndStackFit, Unchanged

(* A list that no call is of takes a value. *)
LEMMA SettledFits ==
  ASSUME NEW outer, ListsAndStackFit(lists, outer), NEW l \in ListIds, ~lists[l].firing,
         NEW d, Settle(l, d, outer), FiringFits(lists', frames', StackIds), DOMAIN lists' = ListIds,
         ListFits(l, d), l \in SettlingIds => SettlingFits(l, d)
  PROVE  /\ ListsAndStackFit(lists', frames') /\ Unchanged(l) /\ lists'[l] = d
         /\ ~d.firing => frames' = outer
         /\ d.firing => \E x : /\ WithOneMore(frames', x, outer)
                               /\ x.on = l /\ x.calls = d.list[d.index + 1] /\ x.steps = x.calls.steps
<1>1. ~OnStack(l, outer) /\ IsStack(outer, StackIds) /\ FramesFit(lists, outer) /\ DOMAIN lists = ListIds
  BY DEF ListsAndStackFit, FiringFits
<1>2. /\ FramesFit(lists', frames')
      /\ lists'[l] = d /\ \A k \in ListIds : k # l => lists'[k] = lists[k]
      /\ ~d.firing => frames' = outer
      /\ d.firing => \E x : /\ WithOneMore(frames', x, outer)
                            /\ x.on = l /\ x.calls = d.list[d.index + 1] /\ x.steps = x.calls.steps
  BY <1>1, SettledFramesFit
<1>5. \A k \in ListIds : ListFits(k, lists'[k])
  BY <1>2 DEF ListsAndStackFit
<1>6. \A k \in SettlingIds : SettlingFits(k, lists'[k])
  BY <1>2, Ids DEF ListsAndStackFit
<1>. QED
  BY <1>2, <1>5, <1>6 DEF ListsAndStackFit, Unchanged

(* What add does. *)
AddedTo(l, f, outer) ==
  /\ ListsAndStackFit(lists', frames') /\ Unchanged(l) /\ CallsLate(outer)
  /\ lists'[l].alive <=> lists[l].alive
  /\ lists'[l].fired <=> lists[l].fired
  /\ l \in SettlingIds /\ lists[l].alive =>
       Cardinality(Owed(lists'[l])) = Cardinality(Owed(lists[l])) + IF IsPage(f) THEN 1 ELSE 0

(* One more at the end is owed if it is the page's. *)
LEMMA OwedGrows ==
  ASSUME NEW l, NEW c, ListFits(l, c), NEW f, NEW d, Len(d.list) = Len(c.list) + 1, d.list[Len(c.list) + 1] = f,
         \A i \in 1 .. Len(c.list) : d.list[i] = c.list[i],
         d.firing <=> c.firing, c.firing => d.index = c.index
  PROVE  Cardinality(Owed(d)) = Cardinality(Owed(c)) + IF IsPage(f) THEN 1 ELSE 0
<1>1. PICK n : n = Len(c.list)
  OBVIOUS
<1>2. n \in Nat /\ c.index \in Nat /\ (c.firing => c.index < n)
  BY <1>1 DEF ListFits, RunFits
<1>3. n + 1 \notin Owed(c)
  BY <1>1, <1>2 DEF Owed
<1>4. CASE IsPage(f)
  <2>1. Owed(d) = Owed(c) \cup {n + 1}
    BY <1>1, <1>2, <1>4 DEF Owed
  <2>. QED
    BY <1>3, <1>4, <2>1, OwedIsFinite, FS_AddElement
<1>5. CASE ~IsPage(f)
  <2>1. Owed(d) = Owed(c)
    BY <1>1, <1>2, <1>5 DEF Owed
  <2>. QED
    BY <1>5, <2>1, OwedIsFinite
<1>. QED
  BY <1>4, <1>5

LEMMA AddFits ==
  ASSUME NEW outer, ListsAndStackFit(lists, outer), NEW l \in ListIds, NEW f \in Late, Add(l, f, outer)
  PROVE  AddedTo(l, f, outer)
<1>0. FiringFits(lists', frames', StackIds) /\ DOMAIN lists' = ListIds
  BY OperationsFit DEF ListsAndStackFit
<1>1. PICK c : c = lists[l]
  OBVIOUS
<1>2. ListFits(l, c) /\ WaitFits(c) /\ (l \in SettlingIds => SettlingFits(l, c))
  BY <1>1 DEF ListsAndStackFit, FiringFits
<1>3. PICK g : g = Appended(c, f)
  OBVIOUS
<1>4. IsGrown(l, g, c, f)
  BY <1>2, <1>3, GrownFits
<1>5. CASE ~c.alive
  <2>1. Keep(l, c, outer)
    BY <1>1, <1>5 DEF Add
  <2>2. Len(c.list) \in Nat
    BY <1>2 DEF ListFits, RunFits
  <2>3. ListsAndStackFit(lists', frames') /\ Unchanged(l) /\ lists'[l] = c /\ frames' = outer
    BY <1>0, <1>1, <1>2, <2>1, <2>2, KeptFits
  <2>. QED
    BY <1>1, <1>5, <2>3 DEF AddedTo, CallsLate
<1>6. CASE c.alive /\ c.firing
  <2>1. PICK d : d = [g EXCEPT !.length = Len(g.list)]
    OBVIOUS
  <2>2. Keep(l, d, outer)
    BY <1>1, <1>3, <1>6, <2>1 DEF Add
  <2>3. /\ DOMAIN d = ListFields /\ d.list = g.list
        /\ d.options = c.options /\ d.alive = c.alive /\ d.waiting = c.waiting /\ d.repeat = c.repeat
        /\ d.memory = c.memory /\ d.fired = c.fired /\ d.firing = c.firing
        /\ d.index = c.index /\ d.length = Len(g.list) /\ d.start = c.start
    BY <1>4, <2>1 DEF IsGrown, ListFields
  <2>4. /\ g.list \in Seq(ListCallbacks(l)) /\ Len(g.list) = Len(c.list) + 1 /\ Len(c.list) \in Nat
        /\ g.list[Len(c.list) + 1] = f /\ \A i \in 1 .. Len(c.list) : g.list[i] = c.list[i]
    BY <1>4 DEF IsGrown
  <2>5. ListFits(l, d)
    BY <1>2, <1>6, <2>3, <2>4 DEF ListFits, RunFits
  <2>6. l \in SettlingIds => SettlingFits(l, d)
    BY <1>2, <1>3, <1>6, <2>3, SettlingGrows
  <2>7. ListsAndStackFit(lists', frames') /\ Unchanged(l) /\ lists'[l] = d /\ frames' = outer
    BY <1>0, <1>1, <2>2, <2>3, <2>4, <2>5, <2>6, KeptFits
  <2>8. Cardinality(Owed(d)) = Cardinality(Owed(c)) + IF IsPage(f) THEN 1 ELSE 0
    BY <1>2, <2>3, <2>4, OwedGrows
  <2>. QED
    BY <1>1, <2>3, <2>7, <2>8 DEF AddedTo, CallsLate
<1>7. CASE c.alive /\ ~c.firing /\ c.memory
  <2>1. PICK h : h = [g EXCEPT !.start = Len(c.list)]
    OBVIOUS
  <2>2. PICK e : e = Continued(Started(h))
    OBVIOUS
  <2>3. Settle(l, e, outer)
    BY <1>1, <1>3, <1>7, <2>1, <2>2 DEF Add
  <2>4. /\ DOMAIN h = ListFields /\ h.list = g.list
        /\ h.options = c.options /\ h.alive = c.alive /\ h.waiting = c.waiting /\ h.repeat = c.repeat /\ h.due = c.due /\ h.dropped = c.dropped
        /\ h.memory = c.memory /\ h.fired = c.fired /\ h.firing = c.firing
        /\ h.index = c.index /\ h.length = c.length /\ h.start = Len(c.list)
    BY <1>4, <2>1 DEF IsGrown, ListFields
  <2>5. g.list \in Seq(ListCallbacks(l)) /\ Len(c.list) \in Nat /\ Len(g.list) = Len(c.list) + 1
    BY <1>4 DEF IsGrown
  <2>6. RunFits(l, h)
    BY <1>2, <1>7, <2>4, <2>5 DEF ListFits, RunFits
  <2>7. /\ ~(h.waiting > 0) /\ h.waiting \in Nat /\ c.fired
        /\ h.dropped \in Nat /\ h.due = h.waiting + h.dropped
    BY <1>2, <1>7, <2>4 DEF WaitFits, ListFits, RunFits
  <2>8. RunFits(l, Started(h)) /\ WaitFits(Started(h))
    BY <1>7, <2>4, <2>6, <2>7, StartedRuns, StartedFits
  <2>9. ListFits(l, e)
    BY <2>2, <2>8, ContinuedRuns
  <2>10. ASSUME l \in SettlingIds
         PROVE  /\ SettlingFits(l, e) /\ e.alive /\ e.fired /\ e.firing /\ e.index = 0
                /\ Len(e.list) = 1 /\ e.list[1] = f /\ c.list = <<>>
    BY <1>2, <1>3, <1>7, <2>1, <2>2, <2>7, <2>10, SettlingJoined
  <2>11. e.alive /\ e.fired
    <3>1. PICK d : d = Started(h)
      OBVIOUS
    <3>2. d.waiting = 0 /\ d.alive /\ d.fired /\ d.index = Len(c.list) /\ d.length = Len(c.list) + 1
      <4>1. h.alive /\ h.start = Len(c.list) /\ Len(h.list) = Len(c.list) + 1 /\ h.waiting = 0
        BY <1>7, <2>4, <2>5, <2>7
      <4>2. d.waiting = h.waiting /\ d.alive /\ d.fired /\ d.index = h.start /\ d.length = Len(h.list)
        BY <2>6, <3>1, <4>1, StartedRuns
      <4>. QED
        BY <4>1, <4>2
    <3>3. Pauses(d)
      BY <2>5, <3>2 DEF Pauses
    <3>. QED
      BY <2>2, <3>1, <3>2, <3>3, ContinuedOnce
  <2>12. /\ ListsAndStackFit(lists', frames') /\ Unchanged(l) /\ lists'[l] = e
         /\ ~e.firing => frames' = outer
         /\ e.firing => \E x : /\ WithOneMore(frames', x, outer)
                               /\ x.on = l /\ x.calls = e.list[e.index + 1] /\ x.steps = x.calls.steps
    BY <1>0, <1>1, <1>7, <2>3, <2>9, <2>10, SettledFits
  <2>13. e.firing => e.list[e.index + 1] \in Late
    <3>1. CASE l \in SettlingIds
      BY <2>10, <3>1
    <3>2. CASE l \notin SettlingIds
      <4>1. e.firing => e.list \in Seq(Late) /\ e.index \in Nat /\ e.index < Len(e.list)
        BY <2>9, <3>2 DEF ListFits, RunFits, ListCallbacks
      <4>. QED
        BY <4>1
    <3>. QED
      BY <3>1, <3>2
  <2>14. CallsLate(outer)
    BY <2>12, <2>13 DEF CallsLate
  <2>15. ASSUME l \in SettlingIds PROVE Cardinality(Owed(e)) = Cardinality(Owed(c)) + IF IsPage(f) THEN 1 ELSE 0
    <3>0. Len(c.list) = 0
      BY <2>10, <2>15
    <3>1. Owed(c) = {} /\ Cardinality(Owed(c)) = 0
      BY <3>0, FS_EmptySet DEF Owed
    <3>2. Owed(e) = IF IsPage(f) THEN {1} ELSE {}
      BY <2>10, <2>15 DEF Owed
    <3>3. Cardinality(Owed(e)) = IF IsPage(f) THEN 1 ELSE 0
      BY <3>2, FS_EmptySet, FS_Singleton
    <3>. QED
      BY <3>1, <3>3
  <2>. QED
    BY <1>1, <1>7, <2>7, <2>11, <2>12, <2>14, <2>15 DEF AddedTo
<1>8. CASE c.alive /\ ~c.firing /\ ~c.memory
  <2>1. Keep(l, g, outer)
    BY <1>1, <1>3, <1>8 DEF Add
  <2>2. /\ g.list \in Seq(ListCallbacks(l)) /\ Len(g.list) = Len(c.list) + 1 /\ Len(c.list) \in Nat
        /\ g.list[Len(c.list) + 1] = f /\ \A i \in 1 .. Len(c.list) : g.list[i] = c.list[i]
    BY <1>4 DEF IsGrown
  <2>3. ListFits(l, g)
    BY <1>2, <1>4, <1>8 DEF ListFits, RunFits, IsGrown
  <2>4. ~c.fired
    BY <1>2, <1>8 DEF ListFits, RunFits
  <2>5. l \in SettlingIds => SettlingFits(l, g)
    BY <1>2, <1>3, <1>4, <1>8, <2>4, SettlingGrows DEF IsGrown
  <2>6. ListsAndStackFit(lists', frames') /\ Unchanged(l) /\ lists'[l] = g /\ frames' = outer
    BY <1>0, <1>1, <1>8, <2>1, <2>3, <2>5, KeptFits
  <2>7. Cardinality(Owed(g)) = Cardinality(Owed(c)) + IF IsPage(f) THEN 1 ELSE 0
    BY <1>2, <1>4, <1>8, OwedGrows DEF IsGrown
  <2>. QED
    BY <1>1, <1>4, <2>6, <2>7 DEF AddedTo, CallsLate, IsGrown
<1>. QED
  BY <1>5, <1>6, <1>7, <1>8

(* What fire does to a list that was never fired, and to any other. *)
FiredAnew(l, outer) ==
  /\ l \in SettlingIds /\ lists[l].alive /\ ~lists[l].fired
  /\ ListsAndStackFit(lists', frames') /\ Unchanged(l)
  /\ lists'[l].alive /\ lists'[l].fired /\ Owed(lists'[l]) = Owed(lists[l])
  /\ \E x : /\ WithOneMore(frames', x, outer)
            /\ x.on = l /\ x.calls = SetState(l) /\ x.steps = SetState(l).steps

FiredAgain(l, outer) ==
  /\ ListsAndStackFit(lists', frames') /\ Unchanged(l) /\ CallsLate(outer)
  /\ l \in SettlingIds => lists'[l] = lists[l]

LEMMA FireFits ==
  ASSUME NEW outer, ListsAndStackFit(lists, outer), NEW l \in ListIds, FireWith(l, outer)
  PROVE  FiredAnew(l, outer) \/ FiredAgain(l, outer)
<1>0. FiringFits(lists', frames', StackIds) /\ DOMAIN lists' = ListIds
  BY OperationsFit DEF ListsAndStackFit
<1>1. PICK c : c = lists[l]
  OBVIOUS
<1>2. ListFits(l, c) /\ WaitFits(c) /\ (l \in SettlingIds => SettlingFits(l, c)) /\ Len(c.list) \in Nat
  BY <1>1 DEF ListsAndStackFit, FiringFits, ListFits, RunFits
<1>3. CASE ~c.alive \/ (c.fired /\ ~c.repeat)
  <2>1. Keep(l, c, outer)
    BY <1>1, <1>3 DEF FireWith
  <2>2. ListsAndStackFit(lists', frames') /\ Unchanged(l) /\ lists'[l] = c /\ frames' = outer
    BY <1>0, <1>1, <1>2, <2>1, KeptFits
  <2>. QED
    BY <1>1, <2>2 DEF FiredAgain, CallsLate
<1>4. CASE ~(~c.alive \/ (c.fired /\ ~c.repeat)) /\ c.firing
  <2>0. l \notin SettlingIds
    BY <1>2, <1>4 DEF SettlingFits, ListFits, RunFits
  <2>1. PICK d : d = [c EXCEPT !.waiting = @ + 1, !.due = @ + 1]
    OBVIOUS
  <2>2. Keep(l, d, outer)
    BY <1>1, <1>4, <2>1 DEF FireWith
  <2>3. /\ DOMAIN d = ListFields /\ d.list = c.list
        /\ d.options = c.options /\ d.alive = c.alive
        /\ d.memory = c.memory /\ d.fired = c.fired /\ d.firing = c.firing
        /\ d.index = c.index /\ d.length = c.length /\ d.start = c.start
    BY <1>2, <2>1 DEF ListFits, RunFits, ListFields
  <2>4. ListFits(l, d)
    BY <1>2, <2>3 DEF ListFits, RunFits
  <2>5. ListsAndStackFit(lists', frames') /\ Unchanged(l) /\ lists'[l] = d /\ frames' = outer
    BY <1>0, <1>1, <1>2, <2>0, <2>2, <2>3, <2>4, KeptFits
  <2>. QED
    BY <2>0, <2>5 DEF FiredAgain, CallsLate
<1>5. CASE ~(~c.alive \/ (c.fired /\ ~c.repeat)) /\ ~c.firing
  <2>1. PICK e : e = Continued(Started(c))
    OBVIOUS
  <2>2. Settle(l, e, outer)
    BY <1>1, <1>5, <2>1 DEF FireWith
  <2>3. RunFits(l, Started(c)) /\ WaitFits(Started(c))
    BY <1>2, <1>5, StartedRuns, StartedFits DEF ListFits, WaitFits
  <2>4. ListFits(l, e)
    BY <2>1, <2>3, ContinuedRuns
  <2>5. CASE l \in SettlingIds
    <3>1. ~c.fired /\ c.alive
      BY <1>2, <1>5, <2>5 DEF SettlingFits
    <3>2. /\ SettlingFits(l, e) /\ e.firing /\ e.alive /\ e.fired /\ e.index = 0
          /\ e.list = c.list /\ e.list[1] = SetState(l)
      BY <1>2, <2>1, <2>5, <3>1, SettlingFires
    <3>3. /\ ListsAndStackFit(lists', frames') /\ Unchanged(l) /\ lists'[l] = e
          /\ \E x : /\ WithOneMore(frames', x, outer)
                    /\ x.on = l /\ x.calls = e.list[e.index + 1] /\ x.steps = x.calls.steps
      BY <1>0, <1>1, <1>5, <2>2, <2>4, <3>2, SettledFits
    <3>4. Owed(e) = Owed(c)
      <4>1. \A i \in 1 .. Len(c.list) : i > 0
        BY <1>2
      <4>. QED
        BY <1>5, <3>2, <4>1 DEF Owed
    <3>5. e.list[e.index + 1] = SetState(l)
      BY <3>2
    <3>. QED
      BY <1>1, <2>5, <3>1, <3>2, <3>3, <3>4, <3>5 DEF FiredAnew
  <2>6. CASE l \notin SettlingIds
    <3>1. /\ ListsAndStackFit(lists', frames') /\ Unchanged(l) /\ lists'[l] = e
          /\ ~e.firing => frames' = outer
          /\ e.firing => \E x : /\ WithOneMore(frames', x, outer)
                                /\ x.on = l /\ x.calls = e.list[e.index + 1] /\ x.steps = x.calls.steps
      BY <1>0, <1>1, <1>5, <2>2, <2>4, <2>6, SettledFits
    <3>2. e.firing => e.list[e.index + 1] \in Late
      <4>1. e.firing => e.list \in Seq(Late) /\ e.index \in Nat /\ e.index < Len(e.list)
        BY <2>4, <2>6 DEF ListFits, RunFits, ListCallbacks
      <4>. QED
        BY <4>1
    <3>. QED
      BY <2>6, <3>1, <3>2 DEF FiredAgain, CallsLate
  <2>. QED
    BY <2>5, <2>6
<1>. QED
  BY <1>3, <1>4, <1>5

(* The progress list is locked. *)
LEMMA LockFits ==
  ASSUME NEW outer, ListsAndStackFit(lists, outer), NEW l \in ListIds \ SettlingIds, Lock(l, outer)
  PROVE  ListsAndStackFit(lists', frames') /\ Unchanged(l) /\ frames' = outer
<1>0. FiringFits(lists', frames', StackIds) /\ DOMAIN lists' = ListIds
  BY OperationsFit DEF ListsAndStackFit
<1>1. PICK c : c = lists[l]
  OBVIOUS
<1>2. ListFits(l, c) /\ Len(c.list) \in Nat
  BY <1>1 DEF ListsAndStackFit, ListFits, RunFits
<1>3. PICK d : d = Locked(c)
  OBVIOUS
<1>4. Keep(l, d, outer)
  BY <1>1, <1>3 DEF Lock
<1>5. CASE c.memory
  <2>1. d = StackDropped(c)
    BY <1>3, <1>5 DEF Locked
  <2>2. /\ DOMAIN d = ListFields /\ d.list = c.list
        /\ d.options = c.options /\ d.alive = c.alive
        /\ d.memory = c.memory /\ d.fired = c.fired /\ d.firing = c.firing
        /\ d.index = c.index /\ d.length = c.length /\ d.start = c.start
    BY <1>2, <2>1 DEF StackDropped, ListFits, RunFits, ListFields
  <2>3. ListFits(l, d)
    BY <1>2, <2>2 DEF ListFits, RunFits
  <2>. QED
    BY <1>0, <1>1, <1>2, <1>4, <2>2, <2>3, KeptFits
<1>6. CASE ~c.memory
  <2>1. ~c.firing
    BY <1>2, <1>6 DEF ListFits, RunFits
  <2>2. /\ DOMAIN d = ListFields /\ d.list = <<>>
        /\ d.options = c.options /\ ~d.alive /\ ~d.memory /\ d.firing = c.firing
        /\ d.index = c.index /\ d.start = c.start
    BY <1>2, <1>3, <1>6 DEF Locked, Disabled, StackDropped, ListFits, RunFits, ListFields
  <2>3. ListFits(l, d)
    <3>1. <<>> \in Seq(ListCallbacks(l))
      OBVIOUS
    <3>. QED
      BY <1>2, <2>1, <2>2, <3>1 DEF ListFits, RunFits
  <2>. QED
    BY <1>0, <1>1, <1>4, <2>1, <2>3, KeptFits
<1>. QED
  BY <1>5, <1>6

(* The opposite list is disabled, which was not fired. *)
LEMMA DisableFits ==
  ASSUME NEW outer, ListsAndStackFit(lists, outer), NEW l \in SettlingIds, ~lists[l].fired, Disable(l, outer)
  PROVE  /\ ListsAndStackFit(lists', frames') /\ Unchanged(l) /\ frames' = outer
         /\ ~lists'[l].alive /\ ~lists'[l].fired
<1>. l \in ListIds
  BY Ids
<1>0. FiringFits(lists', frames', StackIds) /\ DOMAIN lists' = ListIds
  BY OperationsFit DEF ListsAndStackFit
<1>1. PICK c : c = lists[l]
  OBVIOUS
<1>2. ListFits(l, c) /\ SettlingFits(l, c)
  BY <1>1 DEF ListsAndStackFit
<1>3. PICK d : d = Disabled(c)
  OBVIOUS
<1>4. Keep(l, d, outer)
  BY <1>1, <1>3 DEF Disable
<1>5. ~c.firing /\ ~c.fired
  BY <1>1, <1>2 DEF ListFits, RunFits
<1>6. /\ DOMAIN d = ListFields /\ d.list = <<>> /\ d.fired = c.fired /\ ~d.repeat /\ d.waiting = 0
      /\ d.options = c.options /\ ~d.alive /\ ~d.memory /\ d.firing = c.firing
      /\ d.index = c.index /\ d.start = c.start
  BY <1>2, <1>3 DEF Disabled, StackDropped, ListFits, RunFits, ListFields
<1>7. ListFits(l, d)
  <2>1. <<>> \in Seq(ListCallbacks(l))
    OBVIOUS
  <2>. QED
    BY <1>2, <1>5, <1>6, <2>1 DEF ListFits, RunFits
<1>8. SettlingFits(l, d)
  BY <1>2, <1>5, <1>6 DEF SettlingFits
<1>. QED
  BY <1>0, <1>1, <1>4, <1>5, <1>6, <1>7, <1>8, KeptFits

(***************************************************************************)
(* The innermost call                                                      *)
(***************************************************************************)
LEMMA TopFits ==
  ASSUME ListsAndStackFit(lists, frames), frames # <<>>
  PROVE  /\ Top = frames[1] /\ Len(frames) \in Nat \ {0} /\ 1 \in 1 .. Len(frames)
         /\ DOMAIN Top = {"on", "calls", "steps"} /\ Top.on \in StackIds /\ StepsFit(Top)
         /\ Top.on = None => Top.calls.name \in {"then", "when"}
         /\ Top.on \in ListIds => /\ Top.calls \in ListCallbacks(Top.on)
                                  /\ lists[Top.on].firing
                                  /\ lists[Top.on].index + 1 \in 1 .. Len(lists[Top.on].list)
                                  /\ Top.calls = lists[Top.on].list[lists[Top.on].index + 1]
<1>1. IsStack(frames, StackIds)
  BY DEF ListsAndStackFit, FiringFits
<1>2. PICK on : on = frames[1].on
  OBVIOUS
<1>3. /\ Head(frames) = frames[1] /\ DOMAIN frames[1] = {"on", "calls", "steps"} /\ on \in StackIds
      /\ Len(frames) \in Nat \ {0}
  BY <1>1, <1>2, Unstacked
<1>4. PICK x : x = frames[1]
  OBVIOUS
<1>5. Top = x /\ 1 \in 1 .. Len(frames) /\ FrameFits(x, lists)
  BY <1>3, <1>4 DEF Top, ListsAndStackFit, FramesFit
<1>6. ASSUME x.on \in ListIds
      PROVE  /\ x.calls \in ListCallbacks(x.on) /\ lists[x.on].firing
             /\ lists[x.on].index + 1 \in 1 .. Len(lists[x.on].list)
             /\ x.calls = lists[x.on].list[lists[x.on].index + 1]
  <2>1. PICK c : c = lists[x.on]
    OBVIOUS
  <2>2. c.index + 1 \in 1 .. Len(c.list) /\ x.calls = c.list[c.index + 1] /\ c.list \in Seq(ListCallbacks(x.on))
    BY <1>5, <1>6, <2>1 DEF FrameFits, ListsAndStackFit, ListFits, RunFits
  <2>3. x.calls \in ListCallbacks(x.on)
    BY <2>2
  <2>4. OnStack(x.on, frames)
    BY <1>4, <1>5 DEF OnStack
  <2>. QED
    BY <1>6, <2>1, <2>2, <2>3, <2>4 DEF ListsAndStackFit, FiringFits
<1>. QED
  BY <1>2, <1>3, <1>4, <1>5, <1>6 DEF FrameFits

LEMMA WhoSettles ==
  ASSUME NEW l, NEW f \in ListCallbacks(l)
  PROVE  /\ f.name = "setState" => l \in SettlingIds /\ f = SetState(l)
         /\ f.name = "disable" => l \in SettlingIds /\ f = DisableOther(l)
BY CallbackNames DEF ListCallbacks

(* The call has taken a step. *)
Restepped(rest, x) ==
  /\ Len(frames) \in Nat \ {0} /\ Len(rest) = Len(frames)
  /\ rest[1] = x /\ \A i \in 1 .. Len(frames) : i = 1 \/ rest[i] = frames[i]

LEMMA RestepFits ==
  ASSUME ListsAndStackFit(lists, frames), frames # <<>>,
         NEW x, DOMAIN x = {"on", "calls", "steps"}, x.on = Top.on, x.calls = Top.calls, StepsFit(x),
         NEW rest, rest = <<x>> \o Tail(frames)
  PROVE  ListsAndStackFit(lists, rest) /\ Restepped(rest, x)
<1>1. PICK t : t = Tail(frames)
  OBVIOUS
<1>2. /\ Top = frames[1] /\ Len(frames) \in Nat \ {0} /\ 1 \in 1 .. Len(frames)
      /\ Top.on \in StackIds /\ IsStack(frames, StackIds)
  BY TopFits DEF ListsAndStackFit, FiringFits
<1>3. PICK on : on = Top.on
  OBVIOUS
<1>4. /\ IsStack(t, StackIds) /\ Len(t) = Len(frames) - 1
      /\ \A i \in 1 .. Len(t) : t[i] = frames[i + 1] /\ i + 1 \in 1 .. Len(frames)
  BY <1>1, <1>2, Unstacked
<1>5. on \in StackIds /\ x.on = on
  BY <1>2, <1>3
<1>6. IsStack(rest, StackIds) /\ WithOneMore(rest, x, t)
  BY <1>1, <1>4, <1>5, Pushed
<1>7. Restepped(rest, x)
  <2>1. ASSUME NEW i \in 1 .. Len(frames), i # 1 PROVE rest[i] = frames[i]
    <3>1. i - 1 \in 1 .. Len(t) /\ rest[i] = t[i - 1] /\ (i - 1) + 1 = i
      BY <1>2, <1>4, <1>6, <2>1 DEF WithOneMore
    <3>. QED
      BY <1>4, <3>1
  <2>. QED
    BY <1>2, <1>4, <1>6, <2>1 DEF Restepped, WithOneMore
<1>8. \A i \in 1 .. Len(frames) : rest[i].on = frames[i].on /\ rest[i].calls = frames[i].calls
  BY <1>2, <1>7 DEF Restepped
<1>9. \A l : OnStack(l, rest) <=> OnStack(l, frames)
  BY <1>7, <1>8 DEF OnStack, Restepped
<1>10. Distinct(rest, lists)
  <2>1. Distinct(frames, lists)
    BY DEF ListsAndStackFit, FiringFits
  <2>. QED
    BY <1>7, <1>8, <2>1 DEF Distinct, Restepped
<1>11. FiringFits(lists, rest, StackIds)
  BY <1>6, <1>9, <1>10 DEF ListsAndStackFit, FiringFits
<1>12. FramesFit(lists, rest)
  <2>1. FrameFits(x, lists)
    <3>1. FrameFits(Top, lists)
      BY <1>2 DEF ListsAndStackFit, FramesFit
    <3>. QED
      BY <3>1 DEF FrameFits
  <2>. QED
    BY <1>7, <2>1 DEF ListsAndStackFit, FramesFit, Restepped
<1>. QED
  BY <1>7, <1>11, <1>12 DEF ListsAndStackFit

(* No deferred is being settled. *)
Calm(stack) == Len(stack) >= 1 => \A l \in SettlingIds : stack[1].calls \notin {SetState(l), DisableOther(l)}

TookAStep(rest) ==
  \E x : /\ Restepped(rest, x) /\ x.on = Top.on /\ x.calls = Top.calls
         /\ x.calls.name \in {"setState", "disable"} => x.steps = <<>>

LEMMA TakesAStep ==
  ASSUME ListsAndStackFit(lists, frames), frames # <<>>, Top.steps # <<>>
  PROVE  /\ Top.steps \in Seq(AllSteps) /\ NextStep \in AllSteps /\ StepFits(Top.on, NextStep)
         /\ NextStep.op \notin {"state", "disable"} =>
              Calm(frames) /\ Top.calls.name \notin {"setState", "disable"} /\ ~IsPage(Top.calls)
         /\ ListsAndStackFit(lists, Rest)
         /\ TookAStep(Rest)
<1>1. PICK steps : steps = Top.steps
  OBVIOUS
<1>2. /\ StepsFit(Top) /\ steps \in Seq(AllSteps) /\ steps # <<>>
      /\ \A i \in 1 .. Len(steps) : StepFits(Top.on, steps[i])
      /\ ~IsPage(Top.calls)
      /\ Top.calls.name \in {"setState", "disable"} => steps = Top.calls.steps
  BY <1>1, TopFits DEF StepsFit
<1>3. /\ Head(steps) = steps[1] /\ Head(steps) \in AllSteps /\ 1 \in 1 .. Len(steps)
      /\ Tail(steps) \in Seq(AllSteps) /\ Len(Tail(steps)) = Len(steps) - 1 /\ Len(steps) \in Nat \ {0}
      /\ \A i \in 1 .. Len(Tail(steps)) : Tail(steps)[i] = steps[i + 1] /\ i + 1 \in 1 .. Len(steps)
  <2>1. Len(steps) \in Nat \ {0}
    BY <1>2, EmptySeq
  <2>2. /\ Head(steps) \in AllSteps /\ Tail(steps) \in Seq(AllSteps) /\ Len(Tail(steps)) = Len(steps) - 1
        /\ \A i \in 1 .. Len(Tail(steps)) : Tail(steps)[i] = steps[i + 1]
    BY <1>2, HeadTailProperties
  <2>. QED
    BY <1>2, <2>1, <2>2
<1>4. NextStep = steps[1] /\ NextStep \in AllSteps /\ StepFits(Top.on, NextStep)
  BY <1>1, <1>2, <1>3 DEF NextStep
<1>5. ASSUME Top.calls.name \in {"setState", "disable"}
      PROVE  Len(steps) = 1 /\ steps[1].op \in {"state", "disable"}
  <2>1. Top.on \in ListIds /\ Top.calls \in ListCallbacks(Top.on)
    BY <1>5, TopFits DEF StackIds
  <2>2. Top.calls = SetState(Top.on) \/ Top.calls = DisableOther(Top.on)
    BY <1>5, <2>1, WhoSettles
  <2>3. steps = <<Step("state", Top.on)>> \/ steps = <<Step("disable", Opposite(Top.on))>>
    BY <1>2, <1>5, <2>2, CallbackNames
  <2>4. Step("state", Top.on).op = "state" /\ Step("disable", Opposite(Top.on)).op = "disable"
    BY DEF Step
  <2>. QED
    BY <2>3, <2>4
<1>6. NextStep.op \notin {"state", "disable"} => Calm(frames)
  <2>. SUFFICES ASSUME NextStep.op \notin {"state", "disable"}, NEW l \in SettlingIds
                PROVE  frames[1].calls \notin {SetState(l), DisableOther(l)}
    BY DEF Calm
  <2>. QED
    BY <1>4, <1>5, TopFits, CallbackNames
<1>7. PICK x : x = [Top EXCEPT !.steps = Tail(@)]
  OBVIOUS
<1>8. DOMAIN x = {"on", "calls", "steps"} /\ x.on = Top.on /\ x.calls = Top.calls /\ x.steps = Tail(steps)
  BY <1>1, <1>7, TopFits
<1>9. x.calls.name \in {"setState", "disable"} => x.steps = <<>>
  <2>1. Len(steps) = 1 => Tail(steps) = <<>>
    BY <1>3, EmptySeq
  <2>. QED
    BY <1>5, <1>8, <2>1
<1>10. StepsFit(x)
  <2>1. \A i \in 1 .. Len(x.steps) : StepFits(x.on, x.steps[i])
    BY <1>2, <1>3, <1>8
  <2>. QED
    BY <1>2, <1>3, <1>8, <1>9, <2>1 DEF StepsFit
<1>11. Rest = <<x>> \o Tail(frames)
  BY <1>7 DEF Rest
<1>12. PICK rest : rest = Rest
  OBVIOUS
<1>13. ListsAndStackFit(lists, rest) /\ Restepped(rest, x)
  BY <1>8, <1>10, <1>11, <1>12, RestepFits
<1>14. NextStep.op \notin {"state", "disable"} => Top.calls.name \notin {"setState", "disable"}
  BY <1>4, <1>5
<1>15. TookAStep(rest)
  BY <1>8, <1>9, <1>13 DEF TookAStep
<1>. QED
  BY <1>1, <1>2, <1>4, <1>6, <1>12, <1>13, <1>14, <1>15

LEMMA PageIsCalm ==
  ASSUME ListsAndStackFit(lists, frames), PageRuns
  PROVE  Calm(frames)
<1>1. CASE frames = <<>>
  BY <1>1 DEF Calm
<1>2. CASE frames # <<>>
  <2>1. IsPage(frames[1].calls)
    BY <1>2, TopFits DEF PageRuns, IsPage
  <2>. QED
    BY <2>1, CallbackNames DEF Calm
<1>. QED
  BY <1>1, <1>2

(***************************************************************************)
(* The outcome of a deferred                                               *)
(***************************************************************************)
(* The first callbacks of list l are running: the opposite list is going to *)
(* be disabled, and no code of the page runs before.                       *)
Urgent(l, stack) ==
  /\ Len(stack) >= 1 /\ stack[1].on = l
  /\ stack[1].calls = SetState(l) \/ (stack[1].calls = DisableOther(l) /\ stack[1].steps # <<>>)

ExclusiveFits(ls, stack) ==
  \A l \in SettlingIds :
    ls[l].fired => ~ls[Opposite(l)].fired /\ (ls[Opposite(l)].alive => Urgent(l, stack))

(* The state of a deferred tells which of its lists was fired. *)
StateOwed(l, stack) ==
  \E i \in 1 .. Len(stack) : stack[i].on = l /\ stack[i].calls = SetState(l) /\ stack[i].steps # <<>>

StatesFit(ls, stack, states) ==
  /\ states \in [Deferreds -> {"pending", "resolved", "rejected"}]
  /\ \A l \in SettlingIds : states[l[1]] = FinalState[l[2]] <=> ls[l].fired /\ ~StateOwed(l, stack)

(* Every callback of the page has been called or is owed. *)
CountsFit(ls, adds, calls) ==
  /\ adds \in [ListIds -> Nat] /\ calls \in [ListIds -> Nat]
  /\ \A l \in SettlingIds :
       /\ ls[l].alive => calls[l] + Cardinality(Owed(ls[l])) = adds[l]
       /\ ~ls[l].fired => calls[l] = 0

DeferredFits(ls, stack, states, adds, calls) ==
  /\ ListsAndStackFit(ls, stack)
  /\ ExclusiveFits(ls, stack)
  /\ StatesFit(ls, stack, states)
  /\ CountsFit(ls, adds, calls)

DeferredInv == threw \/ DeferredFits(lists, frames, settled, added, called)

LEMMA CalmIsExclusive ==
  ASSUME Calm(frames), ExclusiveFits(lists, frames)
  PROVE  \A l \in SettlingIds : lists[l].fired => ~lists[Opposite(l)].fired /\ ~lists[Opposite(l)].alive
BY DEF Calm, ExclusiveFits, Urgent

(* The stack the operations start from owes the same states. *)
SameOwed(stack) == \A l \in SettlingIds : StateOwed(l, stack) <=> StateOwed(l, frames)

LEMMA OthersOwe ==
  ASSUME NEW rest, NEW x, Restepped(rest, x), x.on = frames[1].on,
         \A l \in SettlingIds : x.on = l =>
           (x.calls = SetState(l) /\ x.steps # <<>> <=> frames[1].calls = SetState(l) /\ frames[1].steps # <<>>)
  PROVE  SameOwed(rest)
<1>1. 1 \in 1 .. Len(frames) /\ 1 \in 1 .. Len(rest)
  BY DEF Restepped
<1>. SUFFICES ASSUME NEW l \in SettlingIds PROVE StateOwed(l, rest) <=> StateOwed(l, frames)
  BY DEF SameOwed
<1>2. ASSUME NEW i \in 1 .. Len(frames)
      PROVE  rest[i].on = l /\ rest[i].calls = SetState(l) /\ rest[i].steps # <<>> <=>
             frames[i].on = l /\ frames[i].calls = SetState(l) /\ frames[i].steps # <<>>
  <2>1. CASE i = 1
    BY <2>1 DEF Restepped
  <2>2. CASE i # 1
    BY <2>2 DEF Restepped
  <2>. QED
    BY <2>1, <2>2
<1>. QED
  BY <1>2 DEF StateOwed, Restepped

LEMMA CalmOwes ==
  ASSUME Calm(frames), frames # <<>>, NEW x, Restepped(Rest, x), x.on = frames[1].on, x.calls = frames[1].calls
  PROVE  SameOwed(Rest)
<1>1. PICK rest : rest = Rest
  OBVIOUS
<1>2. Restepped(rest, x) /\ \A l \in SettlingIds : x.calls # SetState(l)
  BY <1>1 DEF Calm, Restepped
<1>3. SameOwed(rest)
  BY <1>2, OthersOwe
<1>. QED
  BY <1>1, <1>3

LEMMA PushOwes ==
  ASSUME NEW outer, NEW stack, NEW x, WithOneMore(stack, x, outer)
  PROVE  \A l : StateOwed(l, stack) <=> (x.on = l /\ x.calls = SetState(l) /\ x.steps # <<>>) \/ StateOwed(l, outer)
<1>1. 1 \in 1 .. Len(stack)
  BY DEF WithOneMore
<1>. SUFFICES ASSUME NEW l
              PROVE  StateOwed(l, stack) <=>
                       (x.on = l /\ x.calls = SetState(l) /\ x.steps # <<>>) \/ StateOwed(l, outer)
  OBVIOUS
<1>2. ASSUME StateOwed(l, stack)
      PROVE  (x.on = l /\ x.calls = SetState(l) /\ x.steps # <<>>) \/ StateOwed(l, outer)
  BY SMTT(30), <1>2 DEF StateOwed, WithOneMore
<1>3. ASSUME (x.on = l /\ x.calls = SetState(l) /\ x.steps # <<>>) \/ StateOwed(l, outer)
      PROVE  StateOwed(l, stack)
  BY <1>1, <1>3 DEF StateOwed, WithOneMore
<1>. QED
  BY <1>2, <1>3

LEMMA LateOwes ==
  ASSUME NEW outer, SameOwed(outer), CallsLate(outer)
  PROVE  \A l \in SettlingIds : StateOwed(l, frames') <=> StateOwed(l, frames)
<1>1. CASE frames' = outer
  BY <1>1 DEF SameOwed
<1>2. ASSUME NEW x, WithOneMore(frames', x, outer), x.calls \in Late
      PROVE  \A l \in SettlingIds : StateOwed(l, frames') <=> StateOwed(l, frames)
  <2>1. PICK stack : stack = frames'
    OBVIOUS
  <2>2. \A l : x.calls # SetState(l)
    BY <1>2, CallbackNames
  <2>3. WithOneMore(stack, x, outer)
    BY <1>2, <2>1
  <2>4. \A l \in SettlingIds : StateOwed(l, stack) <=> StateOwed(l, frames)
    BY <2>2, <2>3, PushOwes DEF SameOwed
  <2>. QED
    BY <2>1, <2>4
<1>. QED
  BY <1>1, <1>2 DEF CallsLate

(* Neither is a list fired anew nor one disabled. *)
SameFate == \A l \in SettlingIds : (lists'[l].fired <=> lists[l].fired) /\ (lists'[l].alive <=> lists[l].alive)

LEMMA SameFateFits ==
  ASSUME Calm(frames), ExclusiveFits(lists, frames), StatesFit(lists, frames, settled), SameFate, settled' = settled,
         NEW outer, SameOwed(outer), CallsLate(outer)
  PROVE  ExclusiveFits(lists', frames') /\ StatesFit(lists', frames', settled')
<1>1. \A l \in SettlingIds : Opposite(l) \in SettlingIds
  BY Ids
<1>2. ExclusiveFits(lists', frames')
  BY <1>1, CalmIsExclusive DEF SameFate, ExclusiveFits
<1>3. \A l \in SettlingIds : StateOwed(l, frames') <=> StateOwed(l, frames)
  BY LateOwes
<1>4. StatesFit(lists', frames', settled')
  BY <1>3 DEF StatesFit, SameFate
<1>. QED
  BY <1>2, <1>4

(* A step that leaves these lists alone. *)
LEMMA PlainOutcome ==
  ASSUME DeferredFits(lists, frames, settled, added, called), Calm(frames),
         NEW outer, SameOwed(outer), CallsLate(outer), ListsAndStackFit(lists', frames'),
         \A l \in SettlingIds : lists'[l] = lists[l],
         settled' = settled, added' = added, called' = called
  PROVE  DeferredFits(lists', frames', settled', added', called')
<1>1. SameFate
  BY DEF SameFate
<1>2. ExclusiveFits(lists', frames') /\ StatesFit(lists', frames', settled')
  BY <1>1, SameFateFits DEF DeferredFits
<1>3. CountsFit(lists', added', called')
  BY DEF DeferredFits, CountsFit
<1>. QED
  BY <1>2, <1>3 DEF DeferredFits

LEMMA AddOutcome ==
  ASSUME DeferredFits(lists, frames, settled, added, called), Calm(frames),
         NEW outer, SameOwed(outer), NEW l \in ListIds, NEW f \in Late, AddedTo(l, f, outer),
         settled' = settled, called' = called,
         added' = [added EXCEPT ![l] = @ + IF IsPage(f) THEN 1 ELSE 0]
  PROVE  DeferredFits(lists', frames', settled', added', called')
<1>0. \A k \in SettlingIds : k # l => lists'[k] = lists[k]
  BY Ids DEF AddedTo, Unchanged
<1>1. SameFate
  BY <1>0 DEF SameFate, AddedTo
<1>2. ExclusiveFits(lists', frames') /\ StatesFit(lists', frames', settled')
  BY <1>1, SameFateFits DEF DeferredFits, AddedTo
<1>3. PICK n : n = IF IsPage(f) THEN 1 ELSE 0
  OBVIOUS
<1>4. n \in Nat /\ added \in [ListIds -> Nat] /\ called \in [ListIds -> Nat] /\ added' = [added EXCEPT ![l] = @ + n]
  BY <1>3 DEF DeferredFits, CountsFit
<1>5. added' \in [ListIds -> Nat] /\ added'[l] = added[l] + n /\ \A k \in ListIds : k # l => added'[k] = added[k]
  BY <1>4
<1>6. ASSUME NEW k \in SettlingIds
      PROVE  /\ lists'[k].alive => called'[k] + Cardinality(Owed(lists'[k])) = added'[k]
             /\ ~lists'[k].fired => called'[k] = 0
  <2>0. k \in ListIds
    BY Ids
  <2>1. CASE k # l
    BY <1>0, <1>5, <2>0, <2>1 DEF DeferredFits, CountsFit
  <2>2. CASE k = l
    <3>1. ListFits(l, lists[l]) /\ Cardinality(Owed(lists[l])) \in Nat
      BY OwedIsFinite DEF DeferredFits, ListsAndStackFit
    <3>2. lists[l].alive => Cardinality(Owed(lists'[l])) = Cardinality(Owed(lists[l])) + n
      BY <1>3, <2>2 DEF AddedTo
    <3>3. /\ lists[l].alive => called[l] + Cardinality(Owed(lists[l])) = added[l]
          /\ ~lists[l].fired => called[l] = 0
      BY <2>2 DEF DeferredFits, CountsFit
    <3>4. called[l] \in Nat /\ added[l] \in Nat
      BY <1>4
    <3>5. lists[l].alive => called'[l] + Cardinality(Owed(lists'[l])) = added'[l]
      BY <1>4, <1>5, <3>1, <3>2, <3>3, <3>4
    <3>. QED
      BY <2>2, <3>3, <3>5 DEF AddedTo
  <2>. QED
    BY <2>1, <2>2
<1>7. CountsFit(lists', added', called')
  BY <1>4, <1>5, <1>6 DEF CountsFit
<1>. QED
  BY <1>2, <1>7 DEF DeferredFits, AddedTo

LEMMA FireOutcome ==
  ASSUME DeferredFits(lists, frames, settled, added, called), Calm(frames),
         NEW outer, SameOwed(outer), NEW l \in ListIds, FiredAnew(l, outer) \/ FiredAgain(l, outer),
         settled' = settled, called' = called, added' = added
  PROVE  DeferredFits(lists', frames', settled', added', called')
<1>1. CASE FiredAgain(l, outer)
  <2>1. \A k \in SettlingIds : lists'[k] = lists[k]
    BY <1>1, Ids DEF FiredAgain, Unchanged
  <2>. QED
    BY <1>1, <2>1, PlainOutcome DEF FiredAgain
<1>2. CASE FiredAnew(l, outer)
  <2>1. PICK x : /\ WithOneMore(frames', x, outer)
                 /\ x.on = l /\ x.calls = SetState(l) /\ x.steps = SetState(l).steps
    BY <1>2 DEF FiredAnew
  <2>2. /\ l \in SettlingIds /\ lists[l].alive /\ ~lists[l].fired /\ lists'[l].alive /\ lists'[l].fired
        /\ \A k \in SettlingIds : k # l => lists'[k] = lists[k]
    BY <1>2, Ids DEF FiredAnew, Unchanged
  <2>3. \A k \in SettlingIds : lists[k].fired => ~lists[Opposite(k)].fired /\ ~lists[Opposite(k)].alive
    BY CalmIsExclusive DEF DeferredFits
  <2>4. Urgent(l, frames')
    BY <2>1 DEF Urgent, WithOneMore
  <2>5. ASSUME NEW k \in SettlingIds, lists'[k].fired
        PROVE  ~lists'[Opposite(k)].fired /\ (lists'[Opposite(k)].alive => Urgent(k, frames'))
    <3>1. Opposite(k) \in SettlingIds /\ Opposite(k) # k /\ Opposite(Opposite(k)) = k
      BY Ids
    <3>2. CASE k = l
      <4>1. ~lists[Opposite(l)].fired
        BY <2>2, <2>3, <3>1, <3>2
      <4>. QED
        BY <2>2, <2>4, <3>1, <3>2, <4>1
    <3>3. CASE k # l
      <4>1. lists[k].fired /\ ~lists[Opposite(k)].fired /\ ~lists[Opposite(k)].alive
        BY <2>2, <2>3, <2>5, <3>3
      <4>2. Opposite(k) # l
        BY <2>2, <4>1
      <4>. QED
        BY <2>2, <3>1, <4>1, <4>2
    <3>. QED
      BY <3>2, <3>3
  <2>6. ExclusiveFits(lists', frames')
    BY <2>5 DEF ExclusiveFits
  <2>7. /\ StateOwed(l, frames')
        /\ \A k \in SettlingIds : k # l => (StateOwed(k, frames') <=> StateOwed(k, frames))
    <3>1. PICK stack : stack = frames'
      OBVIOUS
    <3>2. \A k : StateOwed(k, stack) <=>
                  (x.on = k /\ x.calls = SetState(k) /\ x.steps # <<>>) \/ StateOwed(k, outer)
      BY <2>1, <3>1, PushOwes
    <3>3. x.steps # <<>>
      BY <2>1, CallbackNames
    <3>4. /\ StateOwed(l, stack)
          /\ \A k \in SettlingIds : k # l => (StateOwed(k, stack) <=> StateOwed(k, frames))
      BY <2>1, <3>2, <3>3 DEF SameOwed
    <3>. QED
      BY <3>1, <3>4
  <2>8. StatesFit(lists', frames', settled')
    BY <2>2, <2>7 DEF StatesFit, DeferredFits
  <2>9. CountsFit(lists', added', called')
    <3>1. Owed(lists'[l]) = Owed(lists[l])
      BY <1>2 DEF FiredAnew
    <3>. QED
      BY <2>2, <3>1 DEF CountsFit, DeferredFits
  <2>. QED
    BY <1>2, <2>6, <2>8, <2>9 DEF DeferredFits, FiredAnew
<1>. QED
  BY <1>1, <1>2

(***************************************************************************)
(* A callback returns                                                      *)
(***************************************************************************)
LEMMA RestOfTheStack ==
  ASSUME ListsAndStackFit(lists, frames), frames # <<>>
  PROVE  /\ IsStack(Tail(frames), StackIds) /\ FramesFit(lists, Tail(frames))
         /\ Top.on \in DOMAIN lists => ~OnStack(Top.on, Tail(frames))
         /\ Len(frames) \in Nat \ {0} /\ Len(Tail(frames)) = Len(frames) - 1
         /\ \A i \in 1 .. Len(Tail(frames)) : Tail(frames)[i] = frames[i + 1] /\ i + 1 \in 1 .. Len(frames)
         /\ \A i \in 1 .. Len(frames) :
              i = 1 \/ (i - 1 \in 1 .. Len(Tail(frames)) /\ Tail(frames)[i - 1] = frames[i])
<1>1. PICK t : t = Tail(frames)
  OBVIOUS
<1>2. Top = frames[1] /\ IsStack(frames, StackIds) /\ 1 \in 1 .. Len(frames)
  BY TopFits DEF ListsAndStackFit, FiringFits
<1>3. PICK on : on = frames[1].on
  OBVIOUS
<1>4. /\ IsStack(t, StackIds) /\ Len(frames) \in Nat \ {0} /\ Len(t) = Len(frames) - 1
      /\ \A i \in 1 .. Len(t) : t[i] = frames[i + 1] /\ i + 1 \in 1 .. Len(frames)
      /\ \A i \in 1 .. Len(frames) : i = 1 \/ (i - 1 \in 1 .. Len(t) /\ t[i - 1] = frames[i])
  BY <1>1, <1>2, <1>3, Unstacked
<1>5. FramesFit(lists, t)
  BY <1>4 DEF ListsAndStackFit, FramesFit
<1>6. ASSUME on \in DOMAIN lists, NEW i \in 1 .. Len(t), t[i].on = on PROVE FALSE
  <2>1. i + 1 = 1
    BY <1>2, <1>3, <1>4, <1>6 DEF ListsAndStackFit, FiringFits, Distinct
  <2>. QED
    BY <2>1
<1>. QED
  BY <1>1, <1>2, <1>3, <1>4, <1>5, <1>6 DEF OnStack

(* The next callback is called, or the firing is over. *)
Returned(l) ==
  /\ ListsAndStackFit(lists', frames') /\ Unchanged(l)
  /\ frames' = Tail(frames) \/ \E x : WithOneMore(frames', x, Tail(frames)) /\ x.on = l /\ x.calls # SetState(l)
  /\ l \in SettlingIds =>
       /\ lists[l].fired /\ lists[l].alive /\ lists'[l].fired /\ lists'[l].alive
       /\ Cardinality(Owed(lists[l])) = Cardinality(Owed(lists'[l])) + IF IsPage(Top.calls) THEN 1 ELSE 0
       /\ Top.calls = SetState(l) => Urgent(l, frames')

LEMMA ReturnedFits ==
  ASSUME ListsAndStackFit(lists, frames), Return, NEW l \in ListIds, Top.on = l
  PROVE  Returned(l)
<1>1. PICK c : c = lists[l]
  OBVIOUS
<1>2. PICK d : d = [c EXCEPT !.index = @ + 1]
  OBVIOUS
<1>3. PICK e : e = Continued(d)
  OBVIOUS
<1>4. PICK t : t = Tail(frames)
  OBVIOUS
<1>5. frames # <<>> /\ Settle(l, e, t)
  BY <1>1, <1>2, <1>3, <1>4 DEF Return, TopList
<1>6. IsStack(t, StackIds) /\ FramesFit(lists, t) /\ DOMAIN lists = ListIds /\ ~OnStack(l, t)
  BY <1>4, <1>5, RestOfTheStack DEF ListsAndStackFit
<1>7. /\ ListFits(l, c) /\ WaitFits(c) /\ (l \in SettlingIds => SettlingFits(l, c))
      /\ c.firing /\ c.index + 1 \in 1 .. Len(c.list) /\ Top.calls = c.list[c.index + 1] /\ c.index \in Nat
  BY <1>1, <1>5, TopFits DEF ListsAndStackFit, FiringFits, ListFits, RunFits
<1>8. ListFits(l, e)
  <2>1. /\ DOMAIN d = ListFields /\ d.options = c.options /\ d.list = c.list /\ d.index = c.index + 1
        /\ d.start = c.start /\ d.fired = c.fired /\ d.alive = c.alive /\ d.memory = c.memory
        /\ d.firing = c.firing /\ d.repeat = c.repeat /\ d.waiting = c.waiting /\ d.length = c.length
        /\ d.due = c.due /\ d.dropped = c.dropped
    BY <1>2, <1>7 DEF ListFits, RunFits, ListFields
  <2>2. RunFits(l, d) /\ WaitFits(d)
    BY <1>7, <2>1 DEF ListFits, RunFits, WaitFits
  <2>. QED
    BY <1>3, <2>2, ContinuedRuns
<1>9. FiringFits(lists', frames', StackIds) /\ DOMAIN lists' = ListIds
  BY ReturnsFit DEF ListsAndStackFit
<1>10. /\ FramesFit(lists', frames')
       /\ lists'[l] = e /\ \A k \in ListIds : k # l => lists'[k] = lists[k]
       /\ ~e.firing => frames' = t
       /\ e.firing => \E x : /\ WithOneMore(frames', x, t)
                             /\ x.on = l /\ x.calls = e.list[e.index + 1] /\ x.steps = x.calls.steps
  BY <1>5, <1>6, <1>8, SettledFramesFit
<1>11. ASSUME l \in SettlingIds
       PROVE  /\ SettlingFits(l, e) /\ e.alive /\ e.fired
              /\ \/ /\ e.firing /\ c.index + 1 < Len(c.list) /\ e.index = c.index + 1 /\ e.list = c.list
                 \/ ~e.firing /\ c.index + 1 = Len(c.list) /\ e.list = <<>>
  BY <1>2, <1>3, <1>7, <1>11, SettlingReturns
<1>12. ListsAndStackFit(lists', frames')
  <2>1. \A k \in ListIds : ListFits(k, lists'[k])
    BY <1>8, <1>10 DEF ListsAndStackFit
  <2>2. \A k \in SettlingIds : SettlingFits(k, lists'[k])
    BY <1>10, <1>11, Ids DEF ListsAndStackFit
  <2>. QED
    BY <1>9, <1>10, <2>1, <2>2 DEF ListsAndStackFit
<1>13. ASSUME e.firing, l \in SettlingIds
       PROVE  /\ e.list[e.index + 1] # SetState(l)
              /\ Top.calls = SetState(l) => e.list[e.index + 1] = DisableOther(l)
  <2>1. PICK i : i = c.index + 1
    OBVIOUS
  <2>2. i \in Nat \ {0} /\ i + 1 \in 1 .. Len(c.list) /\ i \in 1 .. Len(c.list)
    BY <1>7, <1>11, <1>13, <2>1
  <2>3. e.list[e.index + 1] = c.list[i + 1]
    BY <1>11, <1>13, <2>1
  <2>4. /\ c.list[i] \in Late \/ (TiedFirst(l, c.list) /\ i <= 3)
        /\ c.list[i + 1] \in Late \/ (TiedFirst(l, c.list) /\ i + 1 <= 3)
    BY <1>7, <1>13, <2>2 DEF SettlingFits
  <2>5. TiedFirst(l, c.list) => /\ c.list[1] = SetState(l) /\ c.list[2] = DisableOther(l)
                                /\ c.list[3] = LockProgress(l)
    BY <1>13, TiedCallbacks DEF TiedFirst
  <2>6. /\ SetState(l) \notin Late /\ SetState(l) # DisableOther(l) /\ SetState(l) # LockProgress(l)
    BY CallbackNames
  <2>7. c.list[i + 1] # SetState(l)
    <3>1. CASE c.list[i + 1] \in Late
      BY <2>6, <3>1
    <3>2. CASE TiedFirst(l, c.list) /\ i + 1 <= 3
      <4>1. i + 1 = 2 \/ i + 1 = 3
        BY <2>2, <3>2
      <4>. QED
        BY <2>5, <2>6, <3>2, <4>1
    <3>. QED
      BY <2>4, <3>1, <3>2
  <2>8. c.list[i] = SetState(l) => c.list[i + 1] = DisableOther(l)
    <3>1. SUFFICES ASSUME c.list[i] = SetState(l) PROVE c.list[i + 1] = DisableOther(l)
      OBVIOUS
    <3>2. TiedFirst(l, c.list) /\ i <= 3
      BY <2>4, <2>6, <3>1
    <3>3. i = 1 \/ i = 2 \/ i = 3
      BY <2>2, <3>2
    <3>4. i = 1 /\ i + 1 = 2
      BY <2>5, <2>6, <3>1, <3>2, <3>3
    <3>. QED
      BY <2>5, <3>2, <3>4
  <2>. QED
    BY <1>7, <2>1, <2>3, <2>7, <2>8
<1>14. ASSUME e.firing, l \notin SettlingIds PROVE e.list[e.index + 1] # SetState(l)
  <2>1. e.list \in Seq(Late) /\ e.index \in Nat /\ e.index < Len(e.list)
    BY <1>8, <1>14 DEF ListFits, RunFits, ListCallbacks
  <2>2. e.list[e.index + 1] \in Late
    BY <2>1
  <2>. QED
    BY <2>2, CallbackNames
<1>15. frames' = Tail(frames) \/ \E x : WithOneMore(frames', x, Tail(frames)) /\ x.on = l /\ x.calls # SetState(l)
  BY <1>4, <1>10, <1>13, <1>14
<1>16. ASSUME l \in SettlingIds
       PROVE  Cardinality(Owed(c)) = Cardinality(Owed(e)) + IF IsPage(Top.calls) THEN 1 ELSE 0
  <2>1. PICK i : i = c.index + 1
    OBVIOUS
  <2>2. i \in 1 .. Len(c.list) /\ i \in Nat /\ Len(c.list) \in Nat /\ c.index \in Nat
    BY <1>7, <2>1 DEF ListFits, RunFits
  <2>3. i \in Owed(c) <=> IsPage(Top.calls)
    BY <1>7, <2>1, <2>2 DEF Owed
  <2>4. Owed(e) = Owed(c) \ {i}
    <3>1. CASE e.firing /\ e.index = i /\ e.list = c.list
      BY <1>7, <2>1, <2>2, <3>1 DEF Owed
    <3>2. CASE ~e.firing /\ i = Len(c.list) /\ e.list = <<>>
      <4>1. Len(e.list) = 0
        BY <3>2
      <4>. QED
        BY <1>7, <2>1, <2>2, <3>2, <4>1 DEF Owed
    <3>. QED
      BY <1>11, <1>16, <2>1, <3>1, <3>2
  <2>5. IsFiniteSet(Owed(c)) /\ Cardinality(Owed(c)) \in Nat
    BY <1>7, OwedIsFinite
  <2>6. Cardinality(Owed(e)) = IF i \in Owed(c) THEN Cardinality(Owed(c)) - 1 ELSE Cardinality(Owed(c))
    BY <2>4, <2>5, FS_RemoveElement
  <2>. QED
    BY <2>3, <2>5, <2>6
<1>17. ASSUME l \in SettlingIds, Top.calls = SetState(l) PROVE Urgent(l, frames')
  <2>1. e.firing
    <3>1. PICK i : i = c.index + 1
      OBVIOUS
    <3>2. c.list[i] \in Late \/ (TiedFirst(l, c.list) /\ i <= 3)
      BY <1>7, <1>17, <3>1 DEF SettlingFits
    <3>3. TiedFirst(l, c.list) /\ i <= 3 /\ c.list[i] = SetState(l)
      BY <1>7, <1>17, <3>1, <3>2, CallbackNames
    <3>4. i = 1 \/ i = 2 \/ i = 3
      BY <1>7, <3>1, <3>3
    <3>5. i = 1
      BY <1>17, <3>3, <3>4, TiedCallbacks, CallbackNames DEF TiedFirst
    <3>6. c.index + 1 # Len(c.list)
      BY <3>1, <3>3, <3>5 DEF TiedFirst
    <3>. QED
      BY <1>11, <1>17, <3>6
  <2>2. PICK x : /\ WithOneMore(frames', x, t)
                 /\ x.on = l /\ x.calls = e.list[e.index + 1] /\ x.steps = x.calls.steps
    BY <1>10, <2>1
  <2>3. x.calls = DisableOther(l) /\ x.steps # <<>>
    BY <1>13, <1>17, <2>1, <2>2, CallbackNames
  <2>. QED
    BY <2>2, <2>3 DEF Urgent, WithOneMore
<1>18. l \in SettlingIds => c.fired /\ c.alive
  BY <1>7 DEF ListFits, RunFits
<1>. QED
  BY <1>1, <1>10, <1>11, <1>12, <1>15, <1>16, <1>17, <1>18 DEF Returned, Unchanged

(* The other calls owe what they did. *)
LEMMA RestOwes ==
  ASSUME ListsAndStackFit(lists, frames), frames # <<>>, Top.steps = <<>> \/ Top.on = None
  PROVE  SameOwed(Tail(frames))
<1>1. PICK t : t = Tail(frames)
  OBVIOUS
<1>2. /\ Len(frames) \in Nat \ {0}
      /\ \A i \in 1 .. Len(t) : t[i] = frames[i + 1] /\ i + 1 \in 1 .. Len(frames)
      /\ \A i \in 1 .. Len(frames) : i = 1 \/ (i - 1 \in 1 .. Len(t) /\ t[i - 1] = frames[i])
      /\ Top = frames[1]
  BY <1>1, RestOfTheStack, TopFits
<1>. SUFFICES ASSUME NEW l \in SettlingIds PROVE StateOwed(l, t) <=> StateOwed(l, frames)
  BY <1>1 DEF SameOwed
<1>3. ~(frames[1].on = l /\ frames[1].calls = SetState(l) /\ frames[1].steps # <<>>)
  BY <1>2, Ids
<1>4. ASSUME StateOwed(l, t) PROVE StateOwed(l, frames)
  BY <1>2, <1>4 DEF StateOwed
<1>5. ASSUME StateOwed(l, frames) PROVE StateOwed(l, t)
  <2>1. PICK i \in 1 .. Len(frames) :
               frames[i].on = l /\ frames[i].calls = SetState(l) /\ frames[i].steps # <<>>
    BY <1>5 DEF StateOwed
  <2>2. i - 1 \in 1 .. Len(t) /\ t[i - 1] = frames[i]
    BY <1>2, <1>3, <2>1
  <2>. QED
    BY <2>1, <2>2 DEF StateOwed
<1>. QED
  BY <1>4, <1>5

LEMMA ReturnOutcome ==
  ASSUME DeferredFits(lists, frames, settled, added, called), Return, NEW l \in ListIds, Top.on = l, Returned(l),
         settled' = settled, added' = added, called' = IF PageRuns THEN [called EXCEPT ![l] = @ + 1] ELSE called
  PROVE  DeferredFits(lists', frames', settled', added', called')
<1>1. frames # <<>> /\ Top.steps = <<>> /\ (PageRuns <=> IsPage(Top.calls))
  BY DEF Return, PageRuns, IsPage
<1>2. Top = frames[1] /\ ListsAndStackFit(lists, frames)
  BY <1>1, TopFits DEF DeferredFits
<1>3. \A k \in SettlingIds : k # l => lists'[k] = lists[k]
  BY Ids DEF Returned, Unchanged
<1>4. SameFate
  BY <1>3 DEF SameFate, Returned
<1>5. ASSUME NEW k \in SettlingIds, Urgent(k, frames) PROVE Urgent(k, frames')
  <2>1. k = l /\ Top.calls = SetState(l)
    BY <1>1, <1>2, <1>5 DEF Urgent
  <2>. QED
    BY <1>5, <2>1 DEF Returned
<1>6. ExclusiveFits(lists', frames')
  BY <1>4, <1>5, Ids DEF ExclusiveFits, SameFate, DeferredFits
<1>7. \A k \in SettlingIds : StateOwed(k, frames') <=> StateOwed(k, frames)
  <2>1. PICK stack, t : stack = frames' /\ t = Tail(frames)
    OBVIOUS
  <2>2. SameOwed(t)
    BY <1>1, <1>2, <2>1, RestOwes
  <2>3. stack = t \/ \E x : WithOneMore(stack, x, t) /\ x.on = l /\ x.calls # SetState(l)
    BY <2>1 DEF Returned
  <2>4. ASSUME NEW x, WithOneMore(stack, x, t), x.on = l, x.calls # SetState(l), NEW k \in SettlingIds
        PROVE  StateOwed(k, stack) <=> StateOwed(k, frames)
    <3>1. StateOwed(k, stack) <=> (x.on = k /\ x.calls = SetState(k) /\ x.steps # <<>>) \/ StateOwed(k, t)
      BY <2>4, PushOwes
    <3>. QED
      BY <2>2, <2>4, <3>1 DEF SameOwed
  <2>5. \A k \in SettlingIds : StateOwed(k, stack) <=> StateOwed(k, frames)
    BY <2>2, <2>3, <2>4 DEF SameOwed
  <2>. QED
    BY <2>1, <2>5
<1>8. StatesFit(lists', frames', settled')
  BY <1>4, <1>7 DEF StatesFit, SameFate, DeferredFits
<1>9. PICK n : n = IF IsPage(Top.calls) THEN 1 ELSE 0
  OBVIOUS
<1>10. called \in [ListIds -> Nat] /\ added \in [ListIds -> Nat] /\ n \in Nat
  BY <1>9 DEF DeferredFits, CountsFit
<1>11. called' \in [ListIds -> Nat] /\ called'[l] = called[l] + n /\ \A k \in ListIds : k # l => called'[k] = called[k]
  BY <1>1, <1>9, <1>10
<1>12. ASSUME NEW k \in SettlingIds
       PROVE  /\ lists'[k].alive => called'[k] + Cardinality(Owed(lists'[k])) = added'[k]
              /\ ~lists'[k].fired => called'[k] = 0
  <2>0. k \in ListIds
    BY Ids
  <2>1. CASE k # l
    BY <1>3, <1>11, <2>0, <2>1 DEF DeferredFits, CountsFit
  <2>2. CASE k = l
    <3>1. Cardinality(Owed(lists'[l])) \in Nat
      BY OwedIsFinite DEF Returned, ListsAndStackFit
    <3>2. Cardinality(Owed(lists[l])) = Cardinality(Owed(lists'[l])) + n
      BY <1>9, <2>2 DEF Returned
    <3>3. called[l] + Cardinality(Owed(lists[l])) = added[l]
      BY <2>2 DEF Returned, DeferredFits, CountsFit
    <3>4. called[l] \in Nat /\ added[l] \in Nat
      BY <1>10
    <3>5. called'[l] + Cardinality(Owed(lists'[l])) = added'[l]
      BY <1>10, <1>11, <3>1, <3>2, <3>3, <3>4
    <3>. QED
      BY <2>2, <3>5 DEF Returned
  <2>. QED
    BY <2>1, <2>2
<1>13. CountsFit(lists', added', called')
  BY <1>10, <1>11, <1>12 DEF CountsFit
<1>. QED
  BY <1>6, <1>8, <1>13 DEF DeferredFits, Returned

(***************************************************************************)
(* A deferred is settled                                                   *)
(***************************************************************************)
LEMMA StateOutcome ==
  ASSUME DeferredFits(lists, frames, settled, added, called), StateTaken, UNCHANGED <<added, called>>
  PROVE  DeferredFits(lists', frames', settled', added', called')
<1>1. frames # <<>> /\ Top.steps # <<>> /\ NextStep.op = "state" /\ frames' = Rest /\ lists' = lists
  BY DEF StateTaken, Takes
<1>2. PICK l : l = Top.on
  OBVIOUS
<1>3. /\ StepFits(l, NextStep) /\ Top = frames[1] /\ Len(frames) \in Nat \ {0}
      /\ ListsAndStackFit(lists, Rest)
  BY <1>1, <1>2, TakesAStep, TopFits DEF DeferredFits
<1>4. PICK rest : rest = Rest
  OBVIOUS
<1>5. PICK x : /\ Restepped(rest, x) /\ x.on = l /\ x.calls = frames[1].calls
               /\ x.calls.name \in {"setState", "disable"} => x.steps = <<>>
  <2>1. PICK x : /\ Restepped(Rest, x) /\ x.on = Top.on /\ x.calls = Top.calls
                 /\ x.calls.name \in {"setState", "disable"} => x.steps = <<>>
    <3>1. TookAStep(Rest)
      BY <1>1, TakesAStep DEF DeferredFits
    <3>. QED
      BY <3>1 DEF TookAStep
  <2>. QED
    BY <1>2, <1>3, <1>4, <2>1
<1>6. l \in SettlingIds /\ NextStep.on = l /\ l \in ListIds /\ frames[1].on = l
  BY <1>1, <1>2, <1>3, Ids DEF StepFits
<1>7. lists[l].fired /\ ~lists[Opposite(l)].fired
  <2>1. lists[l].firing
    BY <1>1, <1>2, <1>6, TopFits DEF DeferredFits
  <2>2. lists[l].fired
    BY <1>6, <2>1 DEF DeferredFits, ListsAndStackFit, ListFits, RunFits
  <2>. QED
    BY <1>6, <2>2 DEF DeferredFits, ExclusiveFits
<1>8. settled' = [settled EXCEPT ![l[1]] = FinalState[l[2]]]
  BY <1>6 DEF StateTaken
<1>9. /\ l[1] \in Deferreds /\ FinalState[l[2]] \in {"resolved", "rejected"}
      /\ settled \in [Deferreds -> {"pending", "resolved", "rejected"}]
  BY <1>6, Ids DEF DeferredFits, StatesFit
<1>10. /\ settled' \in [Deferreds -> {"pending", "resolved", "rejected"}]
       /\ settled'[l[1]] = FinalState[l[2]] /\ \A d \in Deferreds : d # l[1] => settled'[d] = settled[d]
  BY <1>8, <1>9
<1>11. 1 \in 1 .. Len(rest) /\ 1 \in 1 .. Len(frames)
  BY <1>3, <1>5 DEF Restepped
<1>12. ~StateOwed(l, rest)
  <2>. SUFFICES ASSUME NEW i \in 1 .. Len(rest), rest[i].on = l, rest[i].calls = SetState(l), rest[i].steps # <<>>
                PROVE  FALSE
    BY DEF StateOwed
  <2>1. i \in 1 .. Len(frames) /\ frames[i].on = l
    <3>1. CASE i = 1
      BY <1>6, <1>11, <3>1
    <3>2. CASE i # 1
      BY <1>5, <3>2 DEF Restepped
    <3>. QED
      BY <3>1, <3>2
  <2>2. i = 1
    BY <1>6, <1>11, <2>1 DEF DeferredFits, ListsAndStackFit, FiringFits, Distinct
  <2>3. x.calls = SetState(l) /\ x.steps # <<>>
    BY <1>5, <2>2 DEF Restepped
  <2>. QED
    BY <1>5, <2>3, CallbackNames
<1>13. ASSUME NEW k \in SettlingIds, k # l PROVE StateOwed(k, rest) <=> StateOwed(k, frames)
  <2>1. \A i \in 1 .. Len(frames) : rest[i].on = k \/ frames[i].on = k => rest[i] = frames[i]
    BY <1>5, <1>6, <1>13 DEF Restepped
  <2>. QED
    BY <1>5, <2>1 DEF StateOwed, Restepped
<1>14. StatesFit(lists, rest, settled')
  <2>1. ASSUME NEW k \in SettlingIds
        PROVE  settled'[k[1]] = FinalState[k[2]] <=> lists[k].fired /\ ~StateOwed(k, rest)
    <3>1. CASE k = l
      BY <1>7, <1>10, <1>12, <3>1
    <3>2. CASE k = Opposite(l)
      BY <1>6, <1>7, <1>10, <3>2, Ids
    <3>3. CASE k # l /\ k # Opposite(l)
      <4>1. k[1] # l[1] /\ k[1] \in Deferreds
        BY <1>6, <3>3, Ids
      <4>2. settled'[k[1]] = settled[k[1]]
        BY <1>10, <4>1
      <4>. QED
        BY <1>13, <3>3, <4>2 DEF DeferredFits, StatesFit
    <3>. QED
      BY <3>1, <3>2, <3>3
  <2>. QED
    BY <1>10, <2>1 DEF StatesFit
<1>15. ExclusiveFits(lists, rest)
  <2>1. ASSUME NEW k \in SettlingIds, Urgent(k, frames) PROVE Urgent(k, rest)
    <3>1. k = l
      BY <1>6, <2>1 DEF Urgent
    <3>2. frames[1].calls = SetState(l) \/ frames[1].calls = DisableOther(l)
      BY <2>1, <3>1 DEF Urgent
    <3>3. frames[1].calls # DisableOther(l)
      <4>1. SUFFICES ASSUME frames[1].calls = DisableOther(l) PROVE FALSE
        OBVIOUS
      <4>2. Top.steps = <<Step("disable", Opposite(l))>>
        BY <1>1, <1>3, <4>1, TopFits, CallbackNames DEF DeferredFits, StepsFit
      <4>3. NextStep.op = "disable"
        BY <4>2 DEF NextStep, Step
      <4>. QED
        BY <1>1, <4>3
    <3>. QED
      BY <1>5, <1>11, <3>1, <3>2, <3>3 DEF Urgent, Restepped
  <2>. QED
    BY <2>1 DEF ExclusiveFits, DeferredFits
<1>. QED
  BY <1>1, <1>3, <1>4, <1>14, <1>15 DEF DeferredFits

LEMMA DisableOutcome ==
  ASSUME DeferredFits(lists, frames, settled, added, called), DisableTaken, UNCHANGED <<added, called>>
  PROVE  DeferredFits(lists', frames', settled', added', called')
<1>1. frames # <<>> /\ Top.steps # <<>> /\ NextStep.op = "disable" /\ Disable(NextStep.on, Rest) /\ settled' = settled
  BY DEF DisableTaken, Takes
<1>2. PICK l : l = Top.on
  OBVIOUS
<1>3. /\ StepFits(l, NextStep) /\ Top = frames[1] /\ Len(frames) \in Nat \ {0}
      /\ ListsAndStackFit(lists, Rest)
  BY <1>1, <1>2, TakesAStep, TopFits DEF DeferredFits
<1>4. PICK rest : rest = Rest
  OBVIOUS
<1>5. PICK x : /\ Restepped(rest, x) /\ x.on = l /\ x.calls = frames[1].calls
               /\ x.calls.name \in {"setState", "disable"} => x.steps = <<>>
  <2>1. PICK x : /\ Restepped(Rest, x) /\ x.on = Top.on /\ x.calls = Top.calls
                 /\ x.calls.name \in {"setState", "disable"} => x.steps = <<>>
    <3>1. TookAStep(Rest)
      BY <1>1, TakesAStep DEF DeferredFits
    <3>. QED
      BY <3>1 DEF TookAStep
  <2>. QED
    BY <1>2, <1>3, <1>4, <2>1
<1>6. PICK o : o = Opposite(l)
  OBVIOUS
<1>7. l \in SettlingIds /\ NextStep.on = o /\ frames[1].on = l /\ l \in ListIds
  BY <1>1, <1>2, <1>3, <1>6, Ids DEF StepFits
<1>8. o \in SettlingIds /\ Opposite(o) = l /\ o # l
  BY <1>6, <1>7, Ids
<1>9. lists[l].fired /\ ~lists[o].fired
  <2>1. lists[l].firing
    BY <1>1, <1>2, <1>7, TopFits DEF DeferredFits
  <2>2. lists[l].fired
    BY <1>7, <2>1 DEF DeferredFits, ListsAndStackFit, ListFits, RunFits
  <2>. QED
    BY <1>6, <1>7, <2>2 DEF DeferredFits, ExclusiveFits
<1>10. /\ ListsAndStackFit(lists', frames') /\ Unchanged(o) /\ frames' = rest
       /\ ~lists'[o].alive /\ ~lists'[o].fired
  BY <1>1, <1>3, <1>4, <1>7, <1>8, <1>9, DisableFits
<1>11. \A k \in SettlingIds : k # o => lists'[k] = lists[k]
  BY <1>10, Ids DEF Unchanged
<1>12. ExclusiveFits(lists', frames')
  <2>. SUFFICES ASSUME NEW k \in SettlingIds, lists'[k].fired
                PROVE  ~lists'[Opposite(k)].fired /\ (lists'[Opposite(k)].alive => Urgent(k, frames'))
    BY DEF ExclusiveFits
  <2>0. Opposite(k) \in SettlingIds /\ Opposite(Opposite(k)) = k
    BY Ids
  <2>1. k # o
    BY <1>10
  <2>2. CASE k = l
    BY <1>6, <1>10, <2>2
  <2>3. CASE k # l
    <3>1. Opposite(k) # o
      BY <1>8, <2>0, <2>3
    <3>2. lists[k].fired /\ lists'[Opposite(k)] = lists[Opposite(k)]
      BY <1>11, <2>0, <2>1, <3>1
    <3>3. ~lists[Opposite(k)].fired /\ (lists[Opposite(k)].alive => Urgent(k, frames))
      BY <3>2 DEF DeferredFits, ExclusiveFits
    <3>4. ~Urgent(k, frames)
      BY <1>7, <2>3 DEF Urgent
    <3>. QED
      BY <3>2, <3>3, <3>4
  <2>. QED
    BY <2>2, <2>3
<1>13. SameOwed(rest)
  <2>1. \A k \in SettlingIds : x.on = k =>
          (x.calls = SetState(k) /\ x.steps # <<>> <=> frames[1].calls = SetState(k) /\ frames[1].steps # <<>>)
    <3>. SUFFICES ASSUME NEW k \in SettlingIds, frames[1].calls = SetState(k) PROVE FALSE
      BY <1>5
    <3>1. Top.steps = <<Step("state", k)>>
      BY <1>1, <1>3, TopFits, CallbackNames DEF DeferredFits, StepsFit
    <3>2. NextStep.op = "state"
      BY <3>1 DEF NextStep, Step
    <3>. QED
      BY <1>1, <3>2
  <2>. QED
    BY <1>5, <1>7, <2>1, OthersOwe
<1>14. StatesFit(lists', frames', settled')
  <2>1. \A k \in SettlingIds : lists'[k].fired <=> lists[k].fired
    BY <1>9, <1>10, <1>11
  <2>. QED
    BY <1>1, <1>10, <1>13, <2>1 DEF StatesFit, SameOwed, DeferredFits
<1>15. CountsFit(lists', added', called')
  BY <1>9, <1>10, <1>11 DEF CountsFit, DeferredFits
<1>. QED
  BY <1>10, <1>12, <1>14, <1>15 DEF DeferredFits

(***************************************************************************)
(* then and when                                                           *)
(***************************************************************************)
(* What they do to the lists. *)
LinkSteps(steps) == steps \in Seq(AllSteps) /\ \A i \in 1 .. Len(steps) : StepFits(None, steps[i])

LEMMA ConcatLinks ==
  ASSUME NEW s, NEW t, LinkSteps(s), LinkSteps(t)
  PROVE  LinkSteps(s \o t)
<1>1. s \in Seq(AllSteps) /\ t \in Seq(AllSteps) /\ Len(s) \in Nat /\ Len(t) \in Nat
  BY DEF LinkSteps
<1>2. PICK c : c = s \o t
  OBVIOUS
<1>3. /\ c \in Seq(AllSteps) /\ Len(c) = Len(s) + Len(t)
      /\ \A i \in 1 .. Len(s) + Len(t) : c[i] = IF i <= Len(s) THEN s[i] ELSE t[i - Len(s)]
  BY <1>1, <1>2, ConcatProperties
<1>4. ASSUME NEW i \in 1 .. Len(c) PROVE StepFits(None, c[i])
  <2>1. CASE i <= Len(s)
    BY <1>1, <1>3, <2>1 DEF LinkSteps
  <2>2. CASE ~(i <= Len(s))
    <3>1. i - Len(s) \in 1 .. Len(t) /\ c[i] = t[i - Len(s)]
      BY <1>1, <1>3, <2>2
    <3>. QED
      BY <3>1 DEF LinkSteps
  <2>. QED
    BY <2>1, <2>2
<1>. QED
  BY <1>2, <1>3, <1>4 DEF LinkSteps

LEMMA AddStepFits ==
  ASSUME NEW l \in ListIds, NEW f \in JQuerys, NEW on
  PROVE  AddStep(l, f) \in AllSteps /\ StepFits(on, AddStep(l, f))
BY DEF AllSteps, AddStep, StepFits

LEMMA JQueryCallbacks ==
  /\ \A l \in ListIds : Settles(l) \in JQuerys
  /\ \A kind \in {"done", "fail", "progress"} : Forward(kind) \in JQuerys
  /\ Update \in JQuerys
BY DEF JQuerys

LEMMA KindsAre ==
  /\ \A i \in 1 .. 3 : Kinds[i] \in {"done", "fail", "progress"}
  /\ \A d \in Deferreds, kind \in {"done", "fail", "progress"} : <<d, kind>> \in ListIds
BY DEF Kinds, ListIds

LEMMA ThenLinks == LinkSteps(ThenSteps)
<1>1. ASSUME NEW i \in 1 .. 3
      PROVE  /\ AddStep(<<"first", Kinds[i]>>, Forward(Kinds[i])) \in AllSteps
             /\ StepFits(None, AddStep(<<"first", Kinds[i]>>, Forward(Kinds[i])))
  BY KindsAre, JQueryCallbacks, AddStepFits DEF Deferreds
<1>. QED
  BY <1>1 DEF ThenSteps, LinkSteps

LEMMA WhenLinks ==
  ASSUME NEW arguments \in {<<"first", "second">>, <<"first", "plain">>, <<"plain", "first">>}
  PROVE  LinkSteps(WhenSteps(arguments))
<1>0. <<"result", "done">> \in ListIds /\ <<"result", "fail">> \in ListIds /\ <<"result", "progress">> \in ListIds
  BY DEF ListIds, Deferreds
<1>1. ASSUME NEW d \in Deferreds PROVE LinkSteps(Listen(d))
  <2>1. PICK r, s, t : /\ r = AddStep(<<d, "done">>, Update)
                       /\ s = AddStep(<<d, "fail">>, Settles(<<"result", "fail">>))
                       /\ t = AddStep(<<d, "progress">>, Settles(<<"result", "progress">>))
    OBVIOUS
  <2>2. /\ r \in AllSteps /\ StepFits(None, r) /\ s \in AllSteps /\ StepFits(None, s)
        /\ t \in AllSteps /\ StepFits(None, t)
    BY <1>0, <2>1, KindsAre, JQueryCallbacks, AddStepFits
  <2>3. Listen(d) = <<r, s, t>>
    BY <2>1 DEF Listen
  <2>. QED
    BY <2>2, <2>3 DEF LinkSteps
<1>2. LinkSteps(Discount) /\ LinkSteps(IfNothingRemains)
  <2>1. ASSUME NEW op \in {"discount", "ifNone"} PROVE LinkSteps(<<Step(op, <<"result", "done">>)>>)
    <3>1. PICK s : s = Step(op, <<"result", "done">>)
      OBVIOUS
    <3>2. s \in AllSteps /\ s.op = op
      BY <1>0, <3>1, PlainSteps DEF PlainOps
    <3>3. StepFits(None, s)
      BY <3>2 DEF StepFits
    <3>. QED
      BY <3>1, <3>2, <3>3, OneStep DEF LinkSteps
  <2>. QED
    BY <2>1 DEF Discount, IfNothingRemains
<1>3. PICK a, b : /\ a = IF arguments[1] \in Deferreds THEN Listen(arguments[1]) ELSE Discount
                  /\ b = IF arguments[2] \in Deferreds THEN Listen(arguments[2]) ELSE Discount
  OBVIOUS
<1>4. LinkSteps(a) /\ LinkSteps(b)
  BY <1>1, <1>2, <1>3
<1>5. PICK c : c = a \o b
  OBVIOUS
<1>6. LinkSteps(c)
  BY <1>4, <1>5, ConcatLinks
<1>7. LinkSteps(c \o IfNothingRemains)
  BY <1>2, <1>6, ConcatLinks
<1>8. WhenSteps(arguments) = c \o IfNothingRemains
  BY <1>3, <1>5 DEF WhenSteps
<1>. QED
  BY <1>7, <1>8

(* They are called, *)
LEMMA LinksOutcome ==
  ASSUME DeferredFits(lists, frames, settled, added, called), NEW kind \in {"then", "when"}, NEW on,
         NEW steps, LinkSteps(steps), Links(kind, on, steps)
  PROVE  DeferredFits(lists', frames', settled', added', called')
<1>1. PICK x : x = [on |-> None, calls |-> Callback(kind, steps), steps |-> steps]
  OBVIOUS
<1>2. PICK stack : stack = <<x>> \o frames
  OBVIOUS
<1>3. /\ PageRuns /\ frames' = stack /\ lists' = lists
      /\ settled' = settled /\ added' = added /\ called' = called
  BY <1>1, <1>2 DEF Links, Call, None
<1>4. /\ DOMAIN x = {"on", "calls", "steps"} /\ x.on = None /\ x.calls.name = kind /\ x.steps = steps
      /\ None \in StackIds
  BY <1>1 DEF Callback, StackIds
<1>5. IsStack(frames, StackIds)
  BY DEF DeferredFits, ListsAndStackFit, FiringFits
<1>6. IsStack(stack, StackIds) /\ WithOneMore(stack, x, frames)
  BY <1>2, <1>4, <1>5, Pushed
<1>7. FrameFits(x, lists)
  <2>1. ~IsPage(x.calls)
    BY <1>4, CallbackNames DEF IsPage
  <2>2. StepsFit(x)
    BY <1>4, <2>1 DEF StepsFit, LinkSteps
  <2>. QED
    BY <1>4, <2>2, Ids DEF FrameFits
<1>8. FramesFit(lists, stack)
  BY <1>6, <1>7 DEF DeferredFits, ListsAndStackFit, FramesFit, WithOneMore
<1>9. FiringFits(lists, stack, StackIds)
  <2>1. \A l \in ListIds : OnStack(l, stack) <=> OnStack(l, frames)
    <3>. SUFFICES ASSUME NEW l \in ListIds PROVE OnStack(l, stack) <=> OnStack(l, frames)
      OBVIOUS
    <3>1. x.on # l
      BY <1>4, Ids
    <3>2. OnStack(l, stack) => OnStack(l, frames)
      BY <1>6, <3>1 DEF OnStack, WithOneMore
    <3>3. OnStack(l, frames) => OnStack(l, stack)
      BY <1>6 DEF OnStack, WithOneMore
    <3>. QED
      BY <3>2, <3>3
  <2>2. ASSUME NEW i \in 1 .. Len(stack), NEW j \in 1 .. Len(stack), stack[i].on = stack[j].on,
               stack[i].on \in ListIds
        PROVE  i = j
    <3>1. i # 1 /\ j # 1
      BY <1>4, <1>6, <2>2, Ids DEF WithOneMore
    <3>2. /\ i - 1 \in 1 .. Len(frames) /\ j - 1 \in 1 .. Len(frames)
          /\ stack[i] = frames[i - 1] /\ stack[j] = frames[j - 1]
      BY <1>6, <3>1 DEF WithOneMore
    <3>3. i - 1 = j - 1
      BY <2>2, <3>2 DEF DeferredFits, ListsAndStackFit, FiringFits, Distinct
    <3>. QED
      BY <3>3
  <2>. QED
    BY <1>6, <2>1, <2>2 DEF DeferredFits, ListsAndStackFit, FiringFits, Distinct
<1>10. ListsAndStackFit(lists', frames')
  BY <1>3, <1>8, <1>9 DEF DeferredFits, ListsAndStackFit
<1>11. Calm(frames)
  BY <1>3, PageIsCalm DEF DeferredFits
<1>12. SameOwed(stack)
  <2>1. \A l : StateOwed(l, stack) <=> (x.on = l /\ x.calls = SetState(l) /\ x.steps # <<>>) \/ StateOwed(l, frames)
    BY <1>6, PushOwes
  <2>. QED
    BY <1>4, <2>1, Ids DEF SameOwed
<1>13. CallsLate(stack)
  BY <1>3 DEF CallsLate
<1>. QED
  BY <1>3, <1>10, <1>11, <1>12, <1>13, PlainOutcome

(* and they return. *)
LEMMA LinkReturnsOutcome ==
  ASSUME DeferredFits(lists, frames, settled, added, called), LinkReturns
  PROVE  DeferredFits(lists', frames', settled', added', called')
<1>1. /\ frames # <<>> /\ Top.on = None /\ frames' = Tail(frames) /\ lists' = lists
      /\ settled' = settled /\ added' = added /\ called' = called
  BY DEF LinkReturns, None
<1>2. PICK t : t = Tail(frames)
  OBVIOUS
<1>3. /\ IsStack(t, StackIds) /\ FramesFit(lists, t)
      /\ Len(frames) \in Nat \ {0} /\ Len(t) = Len(frames) - 1
      /\ \A i \in 1 .. Len(t) : t[i] = frames[i + 1] /\ i + 1 \in 1 .. Len(frames)
      /\ \A i \in 1 .. Len(frames) : i = 1 \/ (i - 1 \in 1 .. Len(t) /\ t[i - 1] = frames[i])
      /\ Top = frames[1] /\ Top.calls.name \in {"then", "when"}
  BY <1>1, <1>2, RestOfTheStack, TopFits DEF DeferredFits
<1>4. FiringFits(lists, t, StackIds)
  <2>1. \A l \in ListIds : OnStack(l, t) <=> OnStack(l, frames)
    <3>. SUFFICES ASSUME NEW l \in ListIds PROVE OnStack(l, t) <=> OnStack(l, frames)
      OBVIOUS
    <3>1. frames[1].on # l
      BY <1>1, <1>3, Ids
    <3>2. OnStack(l, t) => OnStack(l, frames)
      BY <1>3 DEF OnStack
    <3>3. OnStack(l, frames) => OnStack(l, t)
      BY <1>3, <3>1 DEF OnStack
    <3>. QED
      BY <3>2, <3>3
  <2>2. ASSUME NEW i \in 1 .. Len(t), NEW j \in 1 .. Len(t), t[i].on = t[j].on, t[i].on \in ListIds
        PROVE  i = j
    <3>1. i + 1 = j + 1
      BY <1>3, <2>2 DEF DeferredFits, ListsAndStackFit, FiringFits, Distinct
    <3>. QED
      BY <3>1
  <2>. QED
    BY <1>3, <2>1, <2>2 DEF DeferredFits, ListsAndStackFit, FiringFits, Distinct
<1>5. ListsAndStackFit(lists', frames')
  BY <1>1, <1>2, <1>3, <1>4 DEF DeferredFits, ListsAndStackFit
<1>6. Calm(frames)
  <2>1. \A l : frames[1].calls # SetState(l) /\ frames[1].calls # DisableOther(l)
    BY <1>3, CallbackNames
  <2>. QED
    BY <2>1 DEF Calm
<1>7. SameOwed(t)
  BY <1>1, <1>2, RestOwes DEF DeferredFits
<1>8. CallsLate(t)
  BY <1>1, <1>2 DEF CallsLate
<1>. QED
  BY <1>1, <1>5, <1>6, <1>7, <1>8, PlainOutcome

(***************************************************************************)
(* The steps of jQuery's own callbacks                                     *)
(***************************************************************************)
LEMMA CalmRest ==
  ASSUME ListsAndStackFit(lists, frames), frames # <<>>, Top.steps # <<>>, NextStep.op \notin {"state", "disable"}
  PROVE  /\ Calm(frames) /\ SameOwed(Rest) /\ ListsAndStackFit(lists, Rest)
         /\ NextStep \in AllSteps /\ StepFits(Top.on, NextStep)
         /\ StepsFit(Top) /\ Top.steps \in Seq(AllSteps)
         /\ Top.calls.name \notin {"setState", "disable"} /\ ~IsPage(Top.calls)
<1>1. /\ Calm(frames) /\ ListsAndStackFit(lists, Rest) /\ NextStep \in AllSteps /\ StepFits(Top.on, NextStep)
      /\ Top.calls.name \notin {"setState", "disable"} /\ ~IsPage(Top.calls)
      /\ TookAStep(Rest) /\ Top.steps \in Seq(AllSteps)
  BY TakesAStep
<1>2. Top = frames[1] /\ StepsFit(Top)
  BY TopFits
<1>3. PICK x : Restepped(Rest, x) /\ x.on = Top.on /\ x.calls = Top.calls
  BY <1>1 DEF TookAStep
<1>4. SameOwed(Rest)
  BY <1>1, <1>2, <1>3, CalmOwes
<1>. QED
  BY <1>1, <1>2, <1>4

LEMMA StepsAre ==
  \A s \in AllSteps : s.on \in ListIds
BY DEF AllSteps, Step, AddStep

(* One that does no more than move on. *)
LEMMA MovesOn ==
  ASSUME DeferredFits(lists, frames, settled, added, called), frames # <<>>, Top.steps # <<>>,
         NextStep.op \notin {"state", "disable"}, frames' = Rest, lists' = lists,
         settled' = settled, added' = added, called' = called
  PROVE  DeferredFits(lists', frames', settled', added', called')
<1>1. Calm(frames) /\ SameOwed(Rest) /\ ListsAndStackFit(lists, Rest)
  BY CalmRest DEF DeferredFits
<1>2. CallsLate(Rest)
  BY DEF CallsLate
<1>3. ListsAndStackFit(lists', frames')
  BY <1>1
<1>. QED
  BY <1>1, <1>2, <1>3, PlainOutcome

(* One that fires a list. *)
LEMMA FiresAList ==
  ASSUME DeferredFits(lists, frames, settled, added, called), frames # <<>>, Top.steps # <<>>,
         NextStep.op \notin {"state", "disable"}, FireWith(NextStep.on, Rest),
         settled' = settled, added' = added, called' = called
  PROVE  DeferredFits(lists', frames', settled', added', called')
<1>1. /\ Calm(frames) /\ SameOwed(Rest) /\ ListsAndStackFit(lists, Rest)
      /\ NextStep \in AllSteps
  BY CalmRest DEF DeferredFits
<1>2. NextStep.on \in ListIds
  BY <1>1, StepsAre
<1>3. FiredAnew(NextStep.on, Rest) \/ FiredAgain(NextStep.on, Rest)
  BY <1>1, <1>2, FireFits
<1>. QED
  BY <1>1, <1>2, <1>3, FireOutcome

LEMMA AddTakenOutcome ==
  ASSUME DeferredFits(lists, frames, settled, added, called), AddTaken, UNCHANGED <<added, called>>
  PROVE  DeferredFits(lists', frames', settled', added', called')
<1>1. /\ frames # <<>> /\ Top.steps # <<>> /\ NextStep.op = "add" /\ Add(NextStep.on, NextStep.callback, Rest)
      /\ settled' = settled /\ added' = added /\ called' = called
  BY DEF AddTaken, Takes
<1>2. /\ Calm(frames) /\ SameOwed(Rest) /\ ListsAndStackFit(lists, Rest)
      /\ NextStep \in AllSteps /\ StepFits(Top.on, NextStep)
  BY <1>1, CalmRest DEF DeferredFits
<1>3. PICK l, f : l = NextStep.on /\ f = NextStep.callback
  OBVIOUS
<1>4. l \in ListIds /\ f \in JQuerys
  BY <1>1, <1>2, <1>3, StepsAre DEF StepFits
<1>5. f \in Late /\ ~IsPage(f)
  BY <1>4, CallbackNames DEF Late
<1>6. AddedTo(l, f, Rest)
  BY <1>1, <1>2, <1>3, <1>4, <1>5, AddFits
<1>7. added \in [ListIds -> Nat]
  BY DEF DeferredFits, CountsFit
<1>8. added' = [added EXCEPT ![l] = @ + IF IsPage(f) THEN 1 ELSE 0]
  BY <1>1, <1>4, <1>5, <1>7
<1>. QED
  BY <1>1, <1>2, <1>4, <1>5, <1>6, <1>8, AddOutcome

LEMMA LockTakenOutcome ==
  ASSUME DeferredFits(lists, frames, settled, added, called), LockTaken, UNCHANGED <<added, called>>
  PROVE  DeferredFits(lists', frames', settled', added', called')
<1>1. /\ frames # <<>> /\ Top.steps # <<>> /\ NextStep.op = "lock" /\ Lock(NextStep.on, Rest)
      /\ settled' = settled /\ added' = added /\ called' = called
  BY DEF LockTaken, Takes
<1>2. /\ Calm(frames) /\ SameOwed(Rest) /\ ListsAndStackFit(lists, Rest)
      /\ StepFits(Top.on, NextStep)
  BY <1>1, CalmRest DEF DeferredFits
<1>3. NextStep.on \in ListIds \ SettlingIds
  BY <1>1, <1>2 DEF StepFits
<1>4. ListsAndStackFit(lists', frames') /\ Unchanged(NextStep.on) /\ frames' = Rest
  BY <1>1, <1>2, <1>3, LockFits
<1>5. CallsLate(Rest)
  BY <1>4 DEF CallsLate
<1>6. \A k \in SettlingIds : lists'[k] = lists[k]
  BY <1>3, <1>4, Ids DEF Unchanged
<1>. QED
  BY <1>1, <1>2, <1>4, <1>5, <1>6, PlainOutcome

(* The callback of then has returned the promise of second. *)
LEMMA ApplyTakenOutcome ==
  ASSUME DeferredFits(lists, frames, settled, added, called), ApplyTaken, UNCHANGED <<added, called>>
  PROVE  DeferredFits(lists', frames', settled', added', called')
<1>1. /\ frames # <<>> /\ Top.steps # <<>> /\ NextStep.op = "apply"
      /\ lists' = lists /\ settled' = settled /\ added' = added /\ called' = called
  BY DEF ApplyTaken, Takes
<1>2. CASE frames' = Rest
  BY <1>1, <1>2, MovesOn
<1>3. ASSUME NEW x, x = [Top EXCEPT !.steps = [i \in 1 .. 3 |->
                          AddStep(<<"second", Kinds[i]>>, Settles(<<"result", Kinds[i]>>))]],
             frames' = <<x>> \o Tail(frames)
      PROVE  DeferredFits(lists', frames', settled', added', called')
  <2>1. /\ Calm(frames) /\ StepsFit(Top)
        /\ Top.calls.name \notin {"setState", "disable"} /\ ~IsPage(Top.calls)
        /\ Top = frames[1] /\ DOMAIN Top = {"on", "calls", "steps"}
    BY <1>1, CalmRest, TopFits DEF DeferredFits
  <2>2. PICK steps : steps = [i \in 1 .. 3 |->
                       AddStep(<<"second", Kinds[i]>>, Settles(<<"result", Kinds[i]>>))]
    OBVIOUS
  <2>3. DOMAIN x = {"on", "calls", "steps"} /\ x.on = Top.on /\ x.calls = Top.calls /\ x.steps = steps
    BY <1>3, <2>1, <2>2
  <2>4. ASSUME NEW i \in 1 .. 3
        PROVE  steps[i] \in AllSteps /\ StepFits(x.on, steps[i])
    <3>1. /\ <<"second", Kinds[i]>> \in ListIds /\ <<"result", Kinds[i]>> \in ListIds
      BY KindsAre DEF Deferreds
    <3>2. Settles(<<"result", Kinds[i]>>) \in JQuerys
      BY <3>1, JQueryCallbacks
    <3>3. steps[i] = AddStep(<<"second", Kinds[i]>>, Settles(<<"result", Kinds[i]>>))
      BY <2>2
    <3>. QED
      BY <3>1, <3>2, <3>3, AddStepFits
  <2>5. steps \in Seq(AllSteps) /\ Len(steps) = 3
    <3>1. DOMAIN steps = 1 .. 3 /\ steps = [i \in 1 .. 3 |-> steps[i]]
      BY <2>2
    <3>. QED
      BY <2>4, <3>1
  <2>6. StepsFit(x)
    BY <2>1, <2>3, <2>4, <2>5 DEF StepsFit
  <2>7. PICK rest : rest = <<x>> \o Tail(frames)
    OBVIOUS
  <2>8. ListsAndStackFit(lists, rest) /\ Restepped(rest, x)
    BY <1>1, <2>3, <2>6, <2>7, RestepFits DEF DeferredFits
  <2>9. \A l \in SettlingIds : x.calls # SetState(l)
    BY <2>1, <2>3, CallbackNames
  <2>10. SameOwed(rest)
    BY <2>1, <2>3, <2>8, <2>9, OthersOwe
  <2>11. CallsLate(rest) /\ ListsAndStackFit(lists', frames')
    BY <1>1, <1>3, <2>7, <2>8 DEF CallsLate
  <2>. QED
    BY <1>1, <2>1, <2>10, <2>11, PlainOutcome
<1>. QED
  BY <1>2, <1>3 DEF ApplyTaken

LEMMA StepOutcome ==
  ASSUME DeferredFits(lists, frames, settled, added, called), StepTaken
  PROVE  DeferredFits(lists', frames', settled', added', called')
<1>1. UNCHANGED <<added, called>> /\ added' = added /\ called' = called
  BY DEF StepTaken
<1>2. CASE AddTaken
  BY <1>1, <1>2, AddTakenOutcome
<1>3. CASE FireTaken
  <2>1. frames # <<>> /\ Top.steps # <<>> /\ NextStep.op = "fire" /\ FireWith(NextStep.on, Rest) /\ settled' = settled
    BY <1>3 DEF FireTaken, Takes
  <2>. QED
    BY <1>1, <2>1, FiresAList
<1>4. CASE DisableTaken
  BY <1>1, <1>4, DisableOutcome
<1>5. CASE LockTaken
  BY <1>1, <1>5, LockTakenOutcome
<1>6. CASE StateTaken
  BY <1>1, <1>6, StateOutcome
<1>7. CASE ApplyTaken
  BY <1>1, <1>7, ApplyTakenOutcome
<1>8. CASE CountTaken \/ IfNoneTaken
  <2>1. /\ frames # <<>> /\ Top.steps # <<>> /\ NextStep.op \in {"count", "ifNone"} /\ settled' = settled
        /\ FireWith(NextStep.on, Rest) \/ (frames' = Rest /\ lists' = lists)
    BY <1>8 DEF CountTaken, IfNoneTaken, Takes
  <2>. QED
    BY <1>1, <2>1, FiresAList, MovesOn
<1>9. CASE DiscountTaken
  <2>1. /\ frames # <<>> /\ Top.steps # <<>> /\ NextStep.op = "discount" /\ settled' = settled
        /\ frames' = Rest /\ lists' = lists
    BY <1>9 DEF DiscountTaken, Takes
  <2>. QED
    BY <1>1, <2>1, MovesOn
<1>. QED
  BY <1>2, <1>3, <1>4, <1>5, <1>6, <1>7, <1>8, <1>9 DEF StepTaken

(***************************************************************************)
(* The script and the callbacks of the page                                *)
(***************************************************************************)
LEMMA ScriptOwes == SameOwed(frames)
BY DEF SameOwed

LEMMA CallbackReturnsOutcome ==
  ASSUME DeferredFits(lists, frames, settled, added, called), CallbackReturns
  PROVE  DeferredFits(lists', frames', settled', added', called')
<1>1. PICK l : l = Top.on
  OBVIOUS
<1>2. /\ frames # <<>> /\ l # None /\ Return /\ settled' = settled /\ added' = added
      /\ called' = IF PageRuns THEN [called EXCEPT ![l] = @ + 1] ELSE called
  BY <1>1 DEF CallbackReturns, None
<1>3. ListsAndStackFit(lists, frames)
  BY DEF DeferredFits
<1>4. l \in ListIds
  BY <1>1, <1>2, <1>3, TopFits DEF StackIds
<1>5. Returned(l)
  BY <1>1, <1>2, <1>3, <1>4, ReturnedFits
<1>. QED
  BY <1>1, <1>2, <1>4, <1>5, ReturnOutcome

LEMMA PageAddsOutcome ==
  ASSUME DeferredFits(lists, frames, settled, added, called), NEW l \in ListIds, PageAdds(l)
  PROVE  DeferredFits(lists', frames', settled', added', called')
<1>1. PICK name \in PageCallbacks : Call(Add(l, Callback(name, <<>>), frames))
  BY DEF PageAdds
<1>2. PICK f : f = Callback(name, <<>>)
  OBVIOUS
<1>3. /\ f \in Late /\ IsPage(f)
  BY <1>2 DEF UserCallbacks, Late, IsPage, Callback
<1>4. PageRuns /\ Add(l, f, frames)
  BY <1>1, <1>2 DEF Call
<1>5. ListsAndStackFit(lists, frames) /\ added \in [ListIds -> Nat]
  BY DEF DeferredFits, CountsFit
<1>6. AddedTo(l, f, frames) /\ Calm(frames)
  BY <1>3, <1>4, <1>5, AddFits, PageIsCalm
<1>7. settled' = settled /\ called' = called /\ added' = [added EXCEPT ![l] = @ + IF IsPage(f) THEN 1 ELSE 0]
  BY <1>3 DEF PageAdds
<1>. QED
  BY <1>3, <1>6, <1>7, AddOutcome, ScriptOwes

LEMMA PageFiresOutcome ==
  ASSUME DeferredFits(lists, frames, settled, added, called), NEW l \in ListIds, PageFires(l)
  PROVE  DeferredFits(lists', frames', settled', added', called')
<1>1. PageRuns /\ FireWith(l, frames) /\ settled' = settled /\ added' = added /\ called' = called
  BY DEF PageFires, Call
<1>2. ListsAndStackFit(lists, frames)
  BY DEF DeferredFits
<1>3. FiredAnew(l, frames) \/ FiredAgain(l, frames)
  BY <1>1, <1>2, FireFits
<1>4. Calm(frames)
  BY <1>1, <1>2, PageIsCalm
<1>. QED
  BY <1>1, <1>3, <1>4, FireOutcome, ScriptOwes

(***************************************************************************)
(* New deferreds                                                           *)
(***************************************************************************)
LEMMA NewListsFit ==
  ASSUME NEW l \in ListIds, NEW c, c = DeferredList(l)
  PROVE  /\ ListFits(l, c) /\ WaitFits(c) /\ ~c.firing /\ ~c.fired
         /\ l \in SettlingIds => SettlingFits(l, c) /\ c.alive /\ Owed(c) = {}
<1>1. /\ Once.memory /\ ~Once.unique /\ Once.once
      /\ Repeated.memory /\ ~Repeated.unique
  BY DEF Once, Repeated
<1>2. CASE l \notin SettlingIds
  <2>1. c = NewList(Repeated)
    BY <1>2 DEF DeferredList, SettlingIds, ListIds
  <2>2. /\ DOMAIN c = ListFields /\ c.options = Repeated /\ c.list = <<>> /\ c.index = 0 /\ c.start = 0
        /\ ~c.fired /\ ~c.memory /\ ~c.firing
    BY <2>1 DEF NewList, ListFields
  <2>3. c.list \in Seq(ListCallbacks(l))
    BY <2>2
  <2>4. ListFits(l, c)
    BY <1>1, <2>2, <2>3 DEF ListFits, RunFits
  <2>. QED
    BY <1>2, <2>1, <2>2, <2>4, NewFits
<1>3. CASE l \in SettlingIds
  <2>1. c = [NewList(Once) EXCEPT !.list = Tied(l)]
    BY <1>3 DEF DeferredList, SettlingIds
  <2>2. /\ DOMAIN c = ListFields /\ c.options = Once /\ c.list = Tied(l) /\ c.index = 0 /\ c.start = 0
        /\ ~c.fired /\ ~c.memory /\ ~c.firing /\ c.alive /\ c.waiting = 0 /\ c.repeat = ~Once.once
        /\ c.due = 0 /\ c.dropped = 0
    BY <2>1 DEF NewList, ListFields
  <2>3. PICK s : s = Tied(l)
    OBVIOUS
  <2>4. /\ s[1] = SetState(l) /\ s[2] = DisableOther(l) /\ s[3] = LockProgress(l)
        /\ s \in Seq(ListCallbacks(l)) /\ Len(s) = 3
    BY <1>3, <2>3, TiedCallbacks
  <2>5. ListFits(l, c) /\ WaitFits(c)
    BY <1>1, <2>2, <2>3, <2>4 DEF ListFits, RunFits, WaitFits
  <2>6. TiedFirst(l, c.list)
    BY <2>2, <2>3, <2>4 DEF TiedFirst
  <2>7. SettlingFits(l, c)
    <3>1. ~c.repeat
      BY <1>1, <2>2
    <3>. QED
      BY <2>2, <2>3, <2>4, <2>6, <3>1 DEF SettlingFits
  <2>8. Owed(c) = {}
    <3>1. \A i \in 1 .. 3 : ~IsPage(s[i])
      BY <2>4, CallbackNames
    <3>. QED
      BY <2>2, <2>3, <2>4, <3>1 DEF Owed
  <2>. QED
    BY <2>2, <2>5, <2>7, <2>8
<1>. QED
  BY <1>2, <1>3

LEMMA NewDeferredsFit ==
  ASSUME DeferredInit
  PROVE  DeferredFits(lists, frames, settled, added, called)
<1>1. /\ frames = <<>> /\ lists = [l \in ListIds |-> DeferredList(l)]
      /\ settled = [d \in Deferreds |-> "pending"]
      /\ added = [l \in ListIds |-> 0] /\ called = [l \in ListIds |-> 0]
  BY DEF DeferredInit, NothingSettled
<1>2. \A l \in ListIds : ListFits(l, lists[l]) /\ WaitFits(lists[l]) /\ ~lists[l].firing /\ ~lists[l].fired
  BY <1>1, NewListsFit
<1>3. \A l \in SettlingIds : /\ l \in ListIds /\ SettlingFits(l, lists[l])
                             /\ lists[l].alive /\ ~lists[l].fired /\ Owed(lists[l]) = {}
  BY <1>1, NewListsFit, Ids
<1>4. Len(frames) = 0 /\ \A l : ~OnStack(l, frames) /\ ~StateOwed(l, frames)
  BY <1>1 DEF OnStack, StateOwed
<1>5. ListsAndStackFit(lists, frames)
  <2>1. DOMAIN lists = ListIds /\ IsStack(frames, StackIds)
    BY <1>1, NothingOnTheStack
  <2>2. FiringFits(lists, frames, StackIds)
    BY <1>2, <1>4, <2>1 DEF FiringFits, Distinct, StackIds
  <2>3. FramesFit(lists, frames)
    BY <1>4 DEF FramesFit
  <2>. QED
    BY <1>2, <1>3, <2>1, <2>2, <2>3 DEF ListsAndStackFit
<1>6. ExclusiveFits(lists, frames)
  BY <1>3 DEF ExclusiveFits
<1>7. StatesFit(lists, frames, settled)
  BY <1>1, <1>3, Ids DEF StatesFit
<1>8. CountsFit(lists, added, called)
  <2>1. added \in [ListIds -> Nat] /\ called \in [ListIds -> Nat]
    BY <1>1
  <2>2. \A l \in SettlingIds : Cardinality(Owed(lists[l])) = 0 /\ added[l] = 0 /\ called[l] = 0
    BY <1>1, <1>3, FS_EmptySet
  <2>. QED
    BY <2>1, <2>2 DEF CountsFit
<1>. QED
  BY <1>5, <1>6, <1>7, <1>8 DEF DeferredFits

LEMMA NothingAfterAThrow ==
  ASSUME threw, DeferredNext
  PROVE  threw'
<1>1. CASE StepTaken \/ ApplyThrows \/ LinkReturns \/ CallbackReturns \/ CallbackThrows
  BY <1>1 DEF StepTaken, ApplyThrows, LinkReturns, CallbackReturns, CallbackThrows, Return, Throw
<1>2. ASSUME NEW l \in ListIds, PageAdds(l) \/ PageFires(l) PROVE threw'
  BY <1>2 DEF PageAdds, PageFires, Call
<1>3. CASE PageCallsThen \/ PageCallsWhen
  BY <1>3 DEF PageCallsThen, PageCallsWhen, Links, Call
<1>. QED
  BY <1>1, <1>2, <1>3 DEF DeferredNext

(* Until a callback throws, the lists of a deferred and the calls that have *)
(* not returned are in step: at most one of done and fail is fired, once,   *)
(* the other is emptied before any code of the page runs, the state is that *)
(* of the list fired, and each callback of the page has been called or is   *)
(* still on its list, ahead of the firing (jquery-1.10.1.js:3248-3293).     *)
THEOREM DeferredInvariance == DeferredSpec => []DeferredInv
<1>1. DeferredInit => DeferredInv
  BY NewDeferredsFit DEF DeferredInv
<1>2. DeferredInv /\ [DeferredNext]_deferredVars => DeferredInv'
  <2>. SUFFICES ASSUME DeferredInv, [DeferredNext]_deferredVars PROVE DeferredInv'
    OBVIOUS
  <2>1. CASE UNCHANGED deferredVars
    <3>1. /\ lists' = lists /\ frames' = frames /\ threw' = threw
          /\ settled' = settled /\ added' = added /\ called' = called
      BY <2>1 DEF deferredVars, callbackVars, promiseVars
    <3>. QED
      BY <3>1 DEF DeferredInv
  <2>2. CASE threw /\ DeferredNext
    BY <2>2, NothingAfterAThrow DEF DeferredInv
  <2>3. CASE ~threw /\ DeferredNext
    <3>0. DeferredFits(lists, frames, settled, added, called)
      BY <2>3 DEF DeferredInv
    <3>. SUFFICES threw' \/ DeferredFits(lists', frames', settled', added', called')
      BY DEF DeferredInv
    <3>1. CASE StepTaken
      BY <3>0, <3>1, StepOutcome
    <3>2. CASE ApplyThrows \/ CallbackThrows
      BY <3>2 DEF ApplyThrows, CallbackThrows, Throw
    <3>3. CASE LinkReturns
      BY <3>0, <3>3, LinkReturnsOutcome
    <3>4. CASE CallbackReturns
      BY <3>0, <3>4, CallbackReturnsOutcome
    <3>5. ASSUME NEW l \in ListIds, PageAdds(l) \/ PageFires(l)
          PROVE  DeferredFits(lists', frames', settled', added', called')
      BY <3>0, <3>5, PageAddsOutcome, PageFiresOutcome
    <3>6. CASE PageCallsThen
      BY <3>0, <3>6, LinksOutcome, ThenLinks DEF PageCallsThen
    <3>7. CASE PageCallsWhen
      <4>1. PICK arguments \in {<<"first", "second">>, <<"first", "plain">>, <<"plain", "first">>} :
                   Links("when", {arguments[1], arguments[2]} \ {"plain"}, WhenSteps(arguments))
        BY <3>7 DEF PageCallsWhen
      <4>2. LinkSteps(WhenSteps(arguments))
        BY WhenLinks
      <4>. QED
        BY <3>0, <4>1, <4>2, LinksOutcome
    <3>. QED
      BY <2>3, <3>1, <3>2, <3>3, <3>4, <3>5, <3>6, <3>7 DEF DeferredNext
  <2>. QED
    BY <2>1, <2>2, <2>3
<1>. QED
  BY <1>1, <1>2, PTL DEF DeferredSpec

(* Nor is a call of fire lost among the lists of deferreds but by the lock  *)
(* and the disable of a settled one; one that notifies and then settles     *)
(* drops the notification that waits (jquery-1.10.1.js:3158-3173,3256-3263). *)
THEOREM DeferredsCarryOutCalls == DeferredSpec => []FiresAreCarriedOut
<1>1. DeferredInv => FiresAreCarriedOut
  BY QuietMeansCarriedOut DEF DeferredInv, DeferredFits, ListsAndStackFit
<1>. QED
  BY <1>1, DeferredInvariance, PTL

LEMMA QuietLists ==
  ASSUME DeferredInv, Quiet, NEW l \in SettlingIds
  PROVE  /\ lists[l].fired => /\ lists[l].alive /\ lists[l].list = <<>>
                              /\ ~lists[Opposite(l)].fired /\ ~lists[Opposite(l)].alive
         /\ settled[l[1]] = FinalState[l[2]] <=> lists[l].fired
<1>0. frames = <<>> /\ DeferredFits(lists, frames, settled, added, called) /\ l \in ListIds
  BY Ids DEF Quiet, DeferredInv
<1>1. /\ ~OnStack(l, frames) /\ ~StateOwed(l, frames) /\ Calm(frames)
  BY <1>0 DEF OnStack, StateOwed, Calm
<1>2. ~lists[l].firing /\ SettlingFits(l, lists[l])
  BY <1>0, <1>1 DEF DeferredFits, ListsAndStackFit, FiringFits
<1>. QED
  BY <1>0, <1>1, <1>2, CalmIsExclusive DEF DeferredFits, SettlingFits, StatesFit

(* Each callback the page added for the outcome of a deferred is called     *)
(* once, those for the other outcome never, however the callbacks fire, add *)
(* and settle meanwhile (jquery-1.10.1.js:3256-3279).                       *)
THEOREM CallbacksAreCalledForTheOutcome == DeferredSpec => []CalledOnceForTheOutcome
<1>1. DeferredInv => CalledOnceForTheOutcome
  <2>. SUFFICES ASSUME DeferredInv, Quiet, NEW d \in Deferreds, NEW kind \in {"done", "fail"}
                PROVE  called[<<d, kind>>] = IF settled[d] = FinalState[kind] THEN added[<<d, kind>>] ELSE 0
    BY DEF CalledOnceForTheOutcome
  <2>1. PICK l : l = <<d, kind>>
    OBVIOUS
  <2>2. l \in SettlingIds /\ l \in ListIds /\ l[1] = d /\ l[2] = kind
    BY <2>1, Ids DEF SettlingIds
  <2>3. CountsFit(lists, added, called)
    BY DEF DeferredInv, DeferredFits, Quiet
  <2>4. /\ lists[l].alive => called[l] + Cardinality(Owed(lists[l])) = added[l]
        /\ ~lists[l].fired => called[l] = 0
        /\ called[l] \in Nat /\ added[l] \in Nat
    BY <2>2, <2>3 DEF CountsFit
  <2>5. CASE lists[l].fired
    <3>1. lists[l].alive /\ lists[l].list = <<>> /\ settled[d] = FinalState[kind]
      BY <2>2, <2>5, QuietLists
    <3>2. Owed(lists[l]) = {}
      BY <3>1 DEF Owed
    <3>3. called[l] = added[l]
      BY <2>4, <3>1, <3>2, FS_EmptySet
    <3>. QED
      BY <2>1, <3>1, <3>3
  <2>6. CASE ~lists[l].fired
    BY <2>1, <2>2, <2>4, <2>6, QuietLists
  <2>. QED
    BY <2>5, <2>6
<1>. QED
  BY <1>1, DeferredInvariance, PTL

(***************************************************************************)
(* What then and when hang on the lists                                    *)
(***************************************************************************)
Result(kind) == <<"result", kind>>
Ties == [link |-> link, subjects |-> subjects, adopted |-> adopted]
TiesFit(h) ==
  /\ h.link \in {"none", "then", "when"} /\ h.adopted \in BOOLEAN
  /\ h.subjects \in SUBSET {"first", "second"}

(* The callbacks of jQuery that may be on list l, apart from those that     *)
(* tie it to the other lists of its deferred.                              *)
Hooked(h, l, f) ==
  \/ h.link = "then" /\ l[1] = "first" /\ f = Forward(l[2])
  \/ h.link = "then" /\ h.adopted /\ l[1] = "second" /\ f = Settles(Result(l[2]))
  \/ h.link = "when" /\ l[1] \in h.subjects /\ l[2] = "done" /\ f = Update
  \/ h.link = "when" /\ l[1] \in h.subjects /\ l[2] # "done" /\ f = Settles(Result(l[2]))
HookSet(h, l) == (ListCallbacks(l) \ JQuerys) \cup {f \in JQuerys : Hooked(h, l, f)}

(* The steps a call may still have to take. *)
Counts == Step("count", Result("done"))
Discounts == Step("discount", Result("done"))
Decides == Step("ifNone", Result("done"))
Settling(h, on) ==
  \/ h.link = "then" /\ (on[1] = "first" \/ (h.adopted /\ on[1] = "second"))
  \/ h.link = "when" /\ on[1] \in h.subjects /\ on[2] # "done"
StepOf(h, x, s) ==
  /\ s.op = "add" => Hooked(h, s.on, s.callback) /\ (s.callback = Update => x.on = None)
  /\ s.op = "fire" => x.on \in ListIds /\ s = Step("fire", Result(x.on[2])) /\ Settling(h, x.on)
  /\ s.op = "apply" => h.link = "then" /\ x.on \in ListIds /\ x.on[1] = "first"
  /\ s.op = "count" => /\ h.link = "when" /\ x.on \in ListIds /\ x.on[1] \in h.subjects /\ x.on[2] = "done"
                       /\ s = Counts /\ x.calls = Update
  /\ s.op = "discount" => x.on = None /\ h.link = "when" /\ s = Discounts
  /\ s.op = "ifNone" => x.on = None /\ h.link = "when" /\ s = Decides

StepsDiffer(steps) == \A m, n \in 1 .. Len(steps) : steps[m] = steps[n] => m = n
CallFits(h, x) ==
  /\ \A m \in 1 .. Len(x.steps) : StepOf(h, x, x.steps[m])
  /\ x.on = None \/ x.calls = Update => StepsDiffer(x.steps)
  /\ x.on = None /\ h.link = "when" /\ x.steps # <<>> => x.steps[Len(x.steps)] = Decides

HooksFit(h, ls, stack) ==
  /\ \A l \in ListIds : ls[l].list \in Seq(HookSet(h, l))
  /\ \A i \in 1 .. Len(stack) : CallFits(h, stack[i])
  /\ \A i, j \in 1 .. Len(stack) : stack[i].on = None /\ stack[j].on = None => i = j
  /\ h.link = "none" => \A i \in 1 .. Len(stack) : stack[i].on # None

(* A call of list on still has to take step s. *)
Owes(stack, on, s) ==
  \E i \in 1 .. Len(stack) : stack[i].on = on /\ \E m \in 1 .. Len(stack[i].steps) : stack[i].steps[m] = s

(* Callback f of a list has not been called yet. *)
Ahead(c, f) == \E i \in 1 .. Len(c.list) : c.list[i] = f /\ (c.firing => i > c.index + 1)

(***************************************************************************)
(* The steps that are owed                                                 *)
(***************************************************************************)
LEMMA OwesWhenPushed ==
  ASSUME NEW pushed, NEW x, NEW stack, WithOneMore(pushed, x, stack), NEW on, NEW s
  PROVE  Owes(pushed, on, s) <=> Owes(stack, on, s) \/ (x.on = on /\ \E m \in 1 .. Len(x.steps) : x.steps[m] = s)
<1>0. 1 \in 1 .. Len(pushed) /\ pushed[1] = x
  BY DEF WithOneMore
<1>1. ASSUME Owes(pushed, on, s)
      PROVE  Owes(stack, on, s) \/ (x.on = on /\ \E m \in 1 .. Len(x.steps) : x.steps[m] = s)
  <2>1. PICK i \in 1 .. Len(pushed) :
               pushed[i].on = on /\ \E m \in 1 .. Len(pushed[i].steps) : pushed[i].steps[m] = s
    BY <1>1 DEF Owes
  <2>2. CASE i = 1
    BY <1>0, <2>1, <2>2
  <2>3. CASE i # 1
    <3>1. PICK j \in 1 .. Len(stack) : pushed[i] = stack[j]
      BY <2>3 DEF WithOneMore
    <3>. QED
      BY <2>1, <3>1 DEF Owes
  <2>. QED
    BY <2>2, <2>3
<1>2. ASSUME Owes(stack, on, s) PROVE Owes(pushed, on, s)
  <2>1. PICK i \in 1 .. Len(stack) :
               stack[i].on = on /\ \E m \in 1 .. Len(stack[i].steps) : stack[i].steps[m] = s
    BY <1>2 DEF Owes
  <2>2. PICK j \in 1 .. Len(pushed) : pushed[j] = stack[i]
    BY DEF WithOneMore
  <2>. QED
    BY <2>1, <2>2 DEF Owes
<1>3. ASSUME x.on = on, NEW m \in 1 .. Len(x.steps), x.steps[m] = s PROVE Owes(pushed, on, s)
  BY <1>0, <1>3 DEF Owes
<1>. QED
  BY <1>1, <1>2, <1>3

LEMMA OwesWhenReturned ==
  ASSUME ListsAndStackFit(lists, frames), frames # <<>>, Top.steps = <<>>, NEW on, NEW s
  PROVE  Owes(Tail(frames), on, s) <=> Owes(frames, on, s)
<1>1. PICK t : t = Tail(frames)
  OBVIOUS
<1>2. /\ \A i \in 1 .. Len(t) : t[i] = frames[i + 1] /\ i + 1 \in 1 .. Len(frames)
      /\ \A i \in 1 .. Len(frames) : i = 1 \/ (i - 1 \in 1 .. Len(t) /\ t[i - 1] = frames[i])
  BY <1>1, RestOfTheStack
<1>3. frames[1].steps = <<>>
  BY TopFits
<1>4. ASSUME Owes(t, on, s) PROVE Owes(frames, on, s)
  <2>1. PICK i \in 1 .. Len(t) : t[i].on = on /\ \E m \in 1 .. Len(t[i].steps) : t[i].steps[m] = s
    BY <1>4 DEF Owes
  <2>2. PICK j \in 1 .. Len(frames) : frames[j] = t[i]
    BY <1>2
  <2>. QED
    BY <2>1, <2>2 DEF Owes
<1>5. ASSUME Owes(frames, on, s) PROVE Owes(t, on, s)
  <2>1. PICK i \in 1 .. Len(frames) :
               frames[i].on = on /\ \E m \in 1 .. Len(frames[i].steps) : frames[i].steps[m] = s
    BY <1>5 DEF Owes
  <2>2. i # 1
    <3>1. \A m \in 1 .. Len(<<>>) : FALSE
      OBVIOUS
    <3>. QED
      BY <1>3, <2>1, <3>1
  <2>3. PICK j \in 1 .. Len(t) : t[j] = frames[i]
    BY <1>2, <2>2
  <2>. QED
    BY <2>1, <2>3 DEF Owes
<1>. QED
  BY <1>1, <1>4, <1>5

(* The innermost call has taken its next step. *)
OneStepOn(rest) ==
  \E x : /\ Restepped(rest, x) /\ x.on = Top.on /\ x.calls = Top.calls /\ x.steps = Tail(Top.steps)
LEMMA TakesOneStep ==
  ASSUME ListsAndStackFit(lists, frames), frames # <<>>, Top.steps # <<>>
  PROVE  /\ OneStepOn(Rest) /\ ListsAndStackFit(lists, Rest) /\ Top = frames[1]
         /\ Len(Top.steps) \in Nat \ {0} /\ NextStep = Top.steps[1] /\ NextStep \in AllSteps
         /\ Len(Tail(Top.steps)) = Len(Top.steps) - 1
         /\ \A m \in 1 .. Len(Tail(Top.steps)) : m + 1 \in 1 .. Len(Top.steps) /\ Tail(Top.steps)[m] = Top.steps[m + 1]
         /\ \A m \in 1 .. Len(Top.steps) : m = 1 \/ (m - 1 \in 1 .. Len(Tail(Top.steps)) /\ Tail(Top.steps)[m - 1] = Top.steps[m])
<1>1. PICK steps : steps = Top.steps
  OBVIOUS
<1>2. /\ steps \in Seq(AllSteps) /\ steps # <<>> /\ ListsAndStackFit(lists, Rest) /\ StepFits(Top.on, NextStep)
      /\ NextStep \in AllSteps
  BY <1>1, TakesAStep
<1>3. PICK tail : tail = Tail(steps)
  OBVIOUS
<1>4. /\ Len(steps) \in Nat \ {0} /\ Head(steps) = steps[1] /\ Len(tail) = Len(steps) - 1
      /\ \A m \in 1 .. Len(tail) : tail[m] = steps[m + 1]
  <2>1. Len(steps) \in Nat \ {0}
    BY <1>2, EmptySeq
  <2>. QED
    BY <1>2, <1>3, <2>1, HeadTailProperties
<1>5. /\ \A m \in 1 .. Len(tail) : m + 1 \in 1 .. Len(steps) /\ tail[m] = steps[m + 1]
      /\ \A m \in 1 .. Len(steps) : m = 1 \/ (m - 1 \in 1 .. Len(tail) /\ tail[m - 1] = steps[m])
  <2>1. ASSUME NEW m \in 1 .. Len(steps), m # 1 PROVE m - 1 \in 1 .. Len(tail) /\ tail[m - 1] = steps[m]
    <3>1. m - 1 \in 1 .. Len(tail) /\ (m - 1) + 1 = m
      BY <1>4, <2>1
    <3>. QED
      BY <1>4, <3>1
  <2>. QED
    BY <1>4, <2>1
<1>6. PICK x : x = [Top EXCEPT !.steps = Tail(@)]
  OBVIOUS
<1>7. DOMAIN x = {"on", "calls", "steps"} /\ x.on = Top.on /\ x.calls = Top.calls /\ x.steps = tail /\ Top = frames[1]
  BY <1>1, <1>3, <1>6, TopFits
<1>8. PICK rest : rest = Rest
  OBVIOUS
<1>9. Restepped(rest, x)
  <2>1. PICK y : Restepped(rest, y)
    BY <1>8, <1>1, <1>2, TakesAStep DEF TookAStep
  <2>2. rest = <<x>> \o Tail(frames)
    BY <1>6, <1>8 DEF Rest
  <2>3. rest[1] = x
    <3>1. IsStack(frames, StackIds) /\ frames # <<>>
      BY DEF ListsAndStackFit, FiringFits
    <3>2. PICK t : t = Tail(frames)
      OBVIOUS
    <3>3. IsStack(t, StackIds)
      BY <3>2, RestOfTheStack
    <3>4. x.on \in StackIds
      BY <1>7, TopFits
    <3>5. WithOneMore(<<x>> \o t, x, t)
      BY <1>7, <3>3, <3>4, Pushed
    <3>. QED
      BY <2>2, <3>2, <3>5 DEF WithOneMore
  <2>. QED
    BY <2>1, <2>3 DEF Restepped
<1>10. OneStepOn(rest)
  BY <1>1, <1>3, <1>7, <1>9 DEF OneStepOn
<1>. QED
  BY <1>1, <1>2, <1>3, <1>4, <1>5, <1>7, <1>8, <1>10 DEF NextStep

LEMMA OwesWhenTaken ==
  ASSUME ListsAndStackFit(lists, frames), frames # <<>>, Top.steps # <<>>, NEW on, NEW s
  PROVE  /\ Owes(Rest, on, s) => Owes(frames, on, s)
         /\ Owes(frames, on, s) => Owes(Rest, on, s) \/ (on = Top.on /\ s = NextStep)
         /\ Owes(frames, Top.on, NextStep)
<1>1. PICK rest, steps, tail : rest = Rest /\ steps = Top.steps /\ tail = Tail(Top.steps)
  OBVIOUS
<1>2. /\ OneStepOn(rest) /\ Top = frames[1] /\ NextStep = steps[1] /\ Len(steps) \in Nat \ {0}
      /\ \A m \in 1 .. Len(tail) : m + 1 \in 1 .. Len(steps) /\ tail[m] = steps[m + 1]
      /\ \A m \in 1 .. Len(steps) : m = 1 \/ (m - 1 \in 1 .. Len(tail) /\ tail[m - 1] = steps[m])
  BY <1>1, TakesOneStep
<1>3. PICK x : Restepped(rest, x) /\ x.on = Top.on /\ x.steps = tail
  BY <1>1, <1>2 DEF OneStepOn
<1>4. /\ Len(frames) \in Nat \ {0} /\ Len(rest) = Len(frames) /\ rest[1] = x
      /\ \A i \in 1 .. Len(frames) : i = 1 \/ rest[i] = frames[i]
  BY <1>3 DEF Restepped
<1>5. ASSUME Owes(rest, on, s) PROVE Owes(frames, on, s)
  <2>1. PICK i \in 1 .. Len(rest) : rest[i].on = on /\ \E m \in 1 .. Len(rest[i].steps) : rest[i].steps[m] = s
    BY <1>5 DEF Owes
  <2>2. i \in 1 .. Len(frames)
    BY <1>4
  <2>3. CASE i = 1
    <3>1. x.on = on /\ \E m \in 1 .. Len(tail) : tail[m] = s
      BY <1>3, <1>4, <2>1, <2>3
    <3>2. frames[1].on = on /\ \E m \in 1 .. Len(steps) : steps[m] = s
      BY <1>2, <1>3, <3>1
    <3>. QED
      BY <1>1, <1>2, <2>2, <2>3, <3>2 DEF Owes
  <2>4. CASE i # 1
    BY <1>4, <2>1, <2>2, <2>4 DEF Owes
  <2>. QED
    BY <2>3, <2>4
<1>6. ASSUME Owes(frames, on, s) PROVE Owes(rest, on, s) \/ (on = Top.on /\ s = NextStep)
  <2>1. PICK i \in 1 .. Len(frames) :
               frames[i].on = on /\ \E m \in 1 .. Len(frames[i].steps) : frames[i].steps[m] = s
    BY <1>6 DEF Owes
  <2>2. i \in 1 .. Len(rest)
    BY <1>4
  <2>3. CASE i = 1
    <3>1. PICK m \in 1 .. Len(steps) : steps[m] = s
      BY <1>1, <1>2, <2>1, <2>3
    <3>2. CASE m = 1
      BY <1>2, <2>1, <2>3, <3>1, <3>2
    <3>3. CASE m # 1
      <4>1. \E n \in 1 .. Len(tail) : tail[n] = s
        BY <1>2, <3>1, <3>3
      <4>2. rest[1].on = on /\ rest[1].steps = tail
        BY <1>2, <1>3, <1>4, <2>1, <2>3
      <4>. QED
        BY <2>2, <2>3, <4>1, <4>2 DEF Owes
    <3>. QED
      BY <3>2, <3>3
  <2>4. CASE i # 1
    <3>1. rest[i] = frames[i]
      BY <1>4, <2>4
    <3>. QED
      BY <2>1, <2>2, <3>1 DEF Owes
  <2>. QED
    BY <2>3, <2>4
<1>7. Owes(frames, Top.on, NextStep)
  <2>1. 1 \in 1 .. Len(frames) /\ 1 \in 1 .. Len(steps)
    BY <1>2, <1>4
  <2>. QED
    BY <1>1, <1>2, <2>1 DEF Owes
<1>. QED
  BY <1>1, <1>5, <1>6, <1>7

(* A call that goes on fits. *)
WentOn(x, y) ==
  /\ y.on = x.on /\ y.calls = x.calls
  /\ Len(x.steps) \in Nat \ {0} /\ Len(y.steps) = Len(x.steps) - 1 /\ (y.steps # <<>> => Len(y.steps) # 0)
  /\ \A m \in 1 .. Len(y.steps) : m + 1 \in 1 .. Len(x.steps) /\ y.steps[m] = x.steps[m + 1]

LEMMA TailFits ==
  ASSUME NEW h, NEW x, NEW y, CallFits(h, x), WentOn(x, y)
  PROVE  CallFits(h, y)
<1>0. y.on = x.on /\ y.calls = x.calls
  BY DEF WentOn
<1>1. PICK s, t : s = x.steps /\ t = y.steps
  OBVIOUS
<1>2. /\ \A m \in 1 .. Len(t) : m + 1 \in 1 .. Len(s) /\ t[m] = s[m + 1]
      /\ Len(s) \in Nat \ {0} /\ Len(t) = Len(s) - 1
      /\ t # <<>> => Len(t) # 0
  BY <1>1 DEF WentOn
<1>3. \A m \in 1 .. Len(t) : StepOf(h, y, t[m])
  <2>1. ASSUME NEW m \in 1 .. Len(t) PROVE StepOf(h, y, t[m])
    <3>1. PICK n \in 1 .. Len(s) : t[m] = s[n]
      BY <1>2
    <3>2. StepOf(h, x, s[n])
      BY <1>1 DEF CallFits
    <3>. QED
      BY <1>0, <3>1, <3>2 DEF StepOf
  <2>. QED
    BY <2>1
<1>4. StepsDiffer(s) => StepsDiffer(t)
  <2>1. ASSUME StepsDiffer(s), NEW m \in 1 .. Len(t), NEW n \in 1 .. Len(t), t[m] = t[n] PROVE m = n
    <3>1. m + 1 = n + 1
      BY <1>2, <2>1 DEF StepsDiffer
    <3>. QED
      BY <3>1
  <2>. QED
    BY <2>1 DEF StepsDiffer
<1>5. ASSUME t # <<>>, s[Len(s)] = Decides PROVE t[Len(t)] = Decides
  <2>1. Len(t) \in 1 .. Len(t) /\ Len(t) + 1 = Len(s)
    BY <1>1, <1>2, <1>5
  <2>. QED
    BY <1>2, <1>5, <2>1
<1>6. y.steps # <<>> => x.steps # <<>>
  <2>1. s = <<>> => Len(s) = 0
    OBVIOUS
  <2>. QED
    BY <1>1, <1>2, <2>1
<1>. QED
  BY <1>0, <1>1, <1>3, <1>4, <1>5, <1>6 DEF CallFits

LEMMA RestKeepsHooks ==
  ASSUME ListsAndStackFit(lists, frames), frames # <<>>, Top.steps # <<>>, NEW h, HooksFit(h, lists, frames)
  PROVE  /\ HooksFit(h, lists, Rest) /\ StepOf(h, Top, NextStep)
         /\ Top.on = None \/ Top.calls = Update => ~Owes(Rest, Top.on, NextStep)
         /\ Top.on = None /\ h.link = "when" /\ NextStep # Decides => Owes(Rest, None, Decides)
<1>1. PICK rest, steps, tail : rest = Rest /\ steps = Top.steps /\ tail = Tail(Top.steps)
  OBVIOUS
<1>2. /\ OneStepOn(rest) /\ Top = frames[1] /\ NextStep = steps[1] /\ Len(steps) \in Nat \ {0}
      /\ Len(tail) = Len(steps) - 1
      /\ \A m \in 1 .. Len(tail) : m + 1 \in 1 .. Len(steps) /\ tail[m] = steps[m + 1]
      /\ \A m \in 1 .. Len(steps) : m = 1 \/ (m - 1 \in 1 .. Len(tail) /\ tail[m - 1] = steps[m])
      /\ ListsAndStackFit(lists, rest)
  BY <1>1, TakesOneStep
<1>3. PICK x : Restepped(rest, x) /\ x.on = Top.on /\ x.calls = Top.calls /\ x.steps = tail
  BY <1>1, <1>2 DEF OneStepOn
<1>4. /\ Len(frames) \in Nat \ {0} /\ Len(rest) = Len(frames) /\ rest[1] = x
      /\ \A i \in 1 .. Len(frames) : i = 1 \/ rest[i] = frames[i]
      /\ 1 \in 1 .. Len(frames)
  BY <1>3 DEF Restepped
<1>5. CallFits(h, Top)
  BY <1>2, <1>4 DEF HooksFit
<1>6. x.steps # <<>> => Len(x.steps) # 0
  <2>1. StepsFit(x)
    <3>1. FrameFits(rest[1], lists)
      BY <1>2, <1>4 DEF ListsAndStackFit, FramesFit
    <3>. QED
      BY <1>4, <3>1 DEF FrameFits
  <2>. QED
    BY <2>1, EmptySeq DEF StepsFit
<1>7. CallFits(h, x)
  <2>1. WentOn(Top, x)
    BY <1>1, <1>2, <1>3, <1>6 DEF WentOn
  <2>. QED
    BY <1>5, <2>1, TailFits
<1>8. \A i \in 1 .. Len(frames) : rest[i].on = frames[i].on
  BY <1>2, <1>3, <1>4
<1>9. HooksFit(h, lists, rest)
  <2>1. \A i \in 1 .. Len(rest) : CallFits(h, rest[i])
    BY <1>4, <1>7 DEF HooksFit
  <2>. QED
    BY <1>4, <1>8, <2>1 DEF HooksFit
<1>10. StepOf(h, Top, NextStep)
  BY <1>1, <1>2, <1>5 DEF CallFits
<1>11. ASSUME Top.on = None \/ Top.calls = Update, Owes(rest, Top.on, NextStep) PROVE FALSE
  <2>1. PICK i \in 1 .. Len(rest) :
               rest[i].on = Top.on /\ \E m \in 1 .. Len(rest[i].steps) : rest[i].steps[m] = NextStep
    BY <1>11 DEF Owes
  <2>2. i \in 1 .. Len(frames) /\ frames[i].on = Top.on
    BY <1>4, <1>8, <2>1
  <2>3. i = 1
    <3>1. CASE Top.on = None
      BY <1>2, <1>4, <2>2, <3>1 DEF HooksFit
    <3>2. CASE Top.on # None
      <4>1. Top.on \in DOMAIN lists
        BY <3>2, TopFits, <1>4 DEF ListsAndStackFit, StackIds
      <4>. QED
        BY <1>2, <1>4, <2>2, <4>1 DEF ListsAndStackFit, FiringFits, Distinct
    <3>. QED
      BY <3>1, <3>2
  <2>4. PICK m \in 1 .. Len(tail) : tail[m] = steps[1]
    BY <1>2, <1>3, <1>4, <2>1, <2>3
  <2>5. m + 1 \in 1 .. Len(steps) /\ steps[m + 1] = steps[1] /\ 1 \in 1 .. Len(steps) /\ m + 1 # 1
    BY <1>2, <2>4
  <2>6. StepsDiffer(steps)
    BY <1>1, <1>5, <1>11 DEF CallFits
  <2>. QED
    BY <2>5, <2>6 DEF StepsDiffer
<1>12. ASSUME Top.on = None, h.link = "when", NextStep # Decides PROVE Owes(rest, None, Decides)
  <2>1. steps[Len(steps)] = Decides
    BY <1>1, <1>5, <1>12 DEF CallFits
  <2>2. PICK m \in 1 .. Len(tail) : tail[m] = Decides
    <3>1. Len(steps) \in 1 .. Len(steps) /\ Len(steps) # 1
      BY <1>2, <1>12, <2>1
    <3>. QED
      BY <1>2, <2>1, <3>1
  <2>3. 1 \in 1 .. Len(rest) /\ rest[1].on = None /\ rest[1].steps = tail
    BY <1>3, <1>4, <1>12
  <2>. QED
    BY <2>2, <2>3 DEF Owes
<1>. QED
  BY <1>1, <1>9, <1>10, <1>11, <1>12

(***************************************************************************)
(* What an operation does to a list                                        *)
(***************************************************************************)
(* No callback comes from nowhere. *)
Holds(c, S) == DOMAIN c = ListFields /\ c.list \in Seq(S)

LEMMA StartedHolds ==
  ASSUME NEW S, NEW c, Holds(c, S)
  PROVE  Holds(Started(c), S)
<1>1. PICK d : d = Started(c)
  OBVIOUS
<1>2. DOMAIN d = ListFields /\ d.list = c.list
  BY <1>1 DEF Started, Holds, ListFields
<1>. QED
  BY <1>1, <1>2 DEF Holds

LEMMA DisabledHolds ==
  ASSUME NEW S, NEW c, Holds(c, S)
  PROVE  Holds(Disabled(c), S)
<1>1. PICK d : d = Disabled(c)
  OBVIOUS
<1>2. DOMAIN d = ListFields /\ d.list = <<>>
  BY <1>1 DEF Disabled, StackDropped, Holds, ListFields
<1>3. <<>> \in Seq(S)
  OBVIOUS
<1>. QED
  BY <1>1, <1>2, <1>3 DEF Holds

LEMMA FinishedHolds ==
  ASSUME NEW S, NEW c, Holds(c, S)
  PROVE  Holds(Finished(c), S)
<1>1. PICK idle : idle = [c EXCEPT !.firing = FALSE, !.cleared = FALSE]
  OBVIOUS
<1>2. DOMAIN idle = ListFields /\ idle.list = c.list /\ Holds(idle, S)
  BY <1>1 DEF Holds, ListFields
<1>3. PICK next : next = [idle EXCEPT !.waiting = @ - 1, !.due = @ - 1]
  OBVIOUS
<1>4. Holds(next, S)
  <2>1. DOMAIN next = ListFields /\ next.list = c.list
    BY <1>2, <1>3 DEF ListFields
  <2>. QED
    BY <2>1 DEF Holds
<1>5. PICK none : none = [idle EXCEPT !.list = <<>>]
  OBVIOUS
<1>6. Holds(none, S)
  <2>1. DOMAIN none = ListFields /\ none.list = <<>>
    BY <1>2, <1>5 DEF ListFields
  <2>2. <<>> \in Seq(S)
    OBVIOUS
  <2>. QED
    BY <2>1, <2>2 DEF Holds
<1>7. Finished(c) \in {idle, Started(next), none, Disabled(idle)}
  BY <1>1, <1>3, <1>5 DEF Finished
<1>. QED
  BY <1>2, <1>4, <1>6, <1>7, StartedHolds, DisabledHolds

LEMMA ContinuedHolds ==
  ASSUME NEW S, NEW c, Holds(c, S), c.waiting \in Nat
  PROVE  Holds(Continued(c), S)
<1>1. PICK after : /\ after[0] = c /\ Continued(c) = after[c.waiting + 1]
                   /\ \A n \in 1 .. c.waiting + 1 :
                        after[n] = IF Pauses(after[n - 1]) THEN after[n - 1] ELSE Finished(after[n - 1])
  BY ContinuedSteps
<1>. DEFINE T == {n \in 0 .. c.waiting + 1 : Holds(after[n], S)}
<1>2. 0 \in T
  BY <1>1
<1>3. ASSUME NEW n \in 1 .. c.waiting + 1, n - 1 \in T PROVE n \in T
  <2>1. PICK x : x = after[n - 1]
    OBVIOUS
  <2>2. Holds(x, S) /\ after[n] = IF Pauses(x) THEN x ELSE Finished(x)
    BY <1>1, <1>3, <2>1
  <2>. QED
    BY <2>2, FinishedHolds
<1>4. c.waiting + 1 \in T
  <2>1. c.waiting + 1 \in Nat /\ c.waiting + 1 \in 0 .. c.waiting + 1
    OBVIOUS
  <2>. HIDE DEF T
  <2>. QED
    BY <1>2, <1>3, <2>1, StepByStep
<1>. QED
  BY <1>1, <1>4

LEMMA AppendedHolds ==
  ASSUME NEW S, NEW c, Holds(c, S), NEW f \in S
  PROVE  Holds(Appended(c, f), S)
<1>1. PICK t : t = Append(c.list, f)
  OBVIOUS
<1>2. t \in Seq(S)
  BY <1>1, AppendProperties DEF Holds
<1>3. PICK d : d = [c EXCEPT !.list = t]
  OBVIOUS
<1>4. Holds(d, S)
  <2>1. DOMAIN d = ListFields /\ d.list = t
    BY <1>3 DEF Holds, ListFields
  <2>. QED
    BY <1>2, <2>1 DEF Holds
<1>. QED
  BY <1>1, <1>3, <1>4 DEF Appended

(* An operation on list l calls the callbacks C: the next one, or none. *)
NewCall(x, l, outer) == WithOneMore(frames', x, outer) /\ x.on = l /\ x.steps = x.calls.steps
Pushes(l, outer, C) ==
  \/ frames' = outer /\ C = {}
  \/ \E x : NewCall(x, l, outer) /\ C = {x.calls}

LEMMA SettlePushes ==
  ASSUME NEW outer, IsStack(outer, StackIds), NEW l \in ListIds, NEW c, Settle(l, c, outer)
  PROVE  Pushes(l, outer, IF c.firing THEN {c.list[c.index + 1]} ELSE {})
<1>1. PICK f : f = c.list[c.index + 1]
  OBVIOUS
<1>2. PICK x : x = [on |-> l, calls |-> f, steps |-> f.steps]
  OBVIOUS
<1>3. /\ DOMAIN x = {"on", "calls", "steps"} /\ x.on = l /\ x.calls = f /\ x.steps = x.calls.steps
      /\ l \in StackIds
  BY <1>2 DEF StackIds
<1>4. PICK pushed : pushed = <<x>> \o outer
  OBVIOUS
<1>5. WithOneMore(pushed, x, outer)
  BY <1>3, <1>4, Pushed
<1>6. frames' = IF c.firing THEN pushed ELSE outer
  BY <1>1, <1>2, <1>4 DEF Settle
<1>. QED
  BY <1>1, <1>3, <1>5, <1>6 DEF Pushes, NewCall

(* What becomes of the callbacks of a list, when those of F are added and   *)
(* those of C are called.                                                  *)
On(c, g) == \E i \in 1 .. Len(c.list) : c.list[i] = g
AtMostOnce(c, g) == \A i, j \in 1 .. Len(c.list) : c.list[i] = g /\ c.list[j] = g => i = j
Proceeds(c, e, F, C) ==
  /\ \A g : Ahead(c, g) \/ g \in F => ~e.alive \/ Ahead(e, g) \/ g \in C
  /\ \A g : Ahead(e, g) \/ g \in C => Ahead(c, g) \/ g \in F
  /\ \A g : On(e, g) => On(c, g) \/ g \in F
  /\ \A g : AtMostOnce(c, g) /\ ~(g \in F /\ On(c, g)) => AtMostOnce(e, g)

(* And of a list that settles a deferred. *)
Lives(op, c, e) ==
  /\ e.alive => c.alive
  /\ c.alive => e.alive \/ op = "disable"
  /\ c.fired => e.fired
  /\ e.fired => c.fired \/ op = "fire"
  /\ op = "fire" => e.fired \/ ~e.alive

Moved(op, l, F, outer) ==
  /\ l \in ListIds /\ Unchanged(l)
  /\ \A S : lists[l].list \in Seq(S) /\ F \subseteq S => lists'[l].list \in Seq(S)
  /\ \E C : /\ Pushes(l, outer, C)
            /\ l \in SettlingIds => Lives(op, lists[l], lists'[l]) /\ Proceeds(lists[l], lists'[l], F, C)

LEMMA EmptyProceeds ==
  ASSUME NEW c, NEW e, NEW F, e.list = <<>>, F = {} \/ ~e.alive, (\E g : Ahead(c, g)) => ~e.alive
  PROVE  Proceeds(c, e, F, {})
<1>1. \A i \in 1 .. Len(e.list) : FALSE
  OBVIOUS
<1>2. \A g : ~On(e, g) /\ ~Ahead(e, g) /\ AtMostOnce(e, g)
  BY <1>1 DEF On, Ahead, AtMostOnce
<1>. QED
  BY <1>2 DEF Proceeds

LEMMA SameProceeds ==
  ASSUME NEW c, NEW F, F = {} \/ ~c.alive
  PROVE  Proceeds(c, c, F, {})
BY DEF Proceeds

(* A callback more, at the end. *)
LEMMA GrownProceeds ==
  ASSUME NEW c, NEW e, NEW f, NEW n, n = Len(c.list), n \in Nat, Len(e.list) = n + 1, e.list[n + 1] = f,
         \A i \in 1 .. n : e.list[i] = c.list[i], e.firing <=> c.firing,
         e.firing => e.index = c.index /\ c.index < n /\ c.index \in Nat
  PROVE  Proceeds(c, e, {f}, {})
<1>1. PICK s, t : s = c.list /\ t = e.list
  OBVIOUS
<1>2. /\ Len(s) = n /\ Len(t) = n + 1 /\ t[n + 1] = f
      /\ \A i \in 1 .. n : t[i] = s[i]
      /\ n + 1 \in 1 .. n + 1 /\ \A i \in 1 .. n : i \in 1 .. n + 1
      /\ \A i \in 1 .. n + 1 : i \in 1 .. n \/ i = n + 1
  BY <1>1
<1>3. Ahead(e, f)
  BY <1>1, <1>2 DEF Ahead
<1>4. ASSUME NEW g, Ahead(c, g) PROVE Ahead(e, g)
  BY <1>1, <1>2, <1>4 DEF Ahead
<1>5. ASSUME NEW g, Ahead(e, g), g # f PROVE Ahead(c, g)
  BY <1>1, <1>2, <1>5 DEF Ahead
<1>6. ASSUME NEW g, On(e, g), g # f PROVE On(c, g)
  BY <1>1, <1>2, <1>6 DEF On
<1>7. ASSUME NEW g, AtMostOnce(c, g), g # f \/ ~On(c, g) PROVE AtMostOnce(e, g)
  <2>1. \A i, j \in 1 .. n : s[i] = g /\ s[j] = g => i = j
    BY <1>1, <1>2, <1>7 DEF AtMostOnce
  <2>2. g = f => \A i \in 1 .. n : s[i] # g
    BY <1>1, <1>2, <1>7 DEF On
  <2>3. ASSUME NEW i \in 1 .. n + 1, NEW j \in 1 .. n + 1, t[i] = g, t[j] = g PROVE i = j
    BY <1>2, <2>1, <2>2, <2>3
  <2>. QED
    BY <1>1, <1>2, <2>3 DEF AtMostOnce
<1>. QED
  BY <1>3, <1>4, <1>5, <1>6, <1>7 DEF Proceeds

(* One that joins a list after its firing, and is called at once. *)
LEMMA JoinedProceeds ==
  ASSUME NEW c, NEW e, NEW f, c.list = <<>>, Len(e.list) = 1, e.list[1] = f, e.firing, e.index = 0
  PROVE  Proceeds(c, e, {f}, {f})
<1>1. /\ \A i \in 1 .. Len(c.list) : FALSE
      /\ \A i \in 1 .. Len(e.list) : i = 1 /\ ~(i > e.index + 1)
      /\ 1 \in 1 .. Len(e.list)
  OBVIOUS
<1>2. \A g : ~Ahead(c, g) /\ ~Ahead(e, g) /\ (On(e, g) <=> g = f) /\ AtMostOnce(e, g)
  BY <1>1 DEF Ahead, On, AtMostOnce
<1>. QED
  BY <1>2 DEF Proceeds

(* The first callback is called, and the next one. *)
LEMMA CalledProceeds ==
  ASSUME NEW c, NEW e, NEW n, n = Len(c.list), n \in Nat, e.list = c.list, e.firing, e.index \in Nat, e.index < n,
         c.firing => c.index \in Nat /\ e.index = c.index + 1, ~c.firing => e.index = 0
  PROVE  Proceeds(c, e, {}, {e.list[e.index + 1]})
<1>1. PICK s, k : s = c.list /\ k = e.index + 1
  OBVIOUS
<1>2. k \in 1 .. n /\ (c.firing => k = c.index + 2) /\ (~c.firing => k = 1) /\ e.index = k - 1
  BY <1>1
<1>3. ASSUME NEW g, Ahead(c, g) PROVE Ahead(e, g) \/ g = s[k]
  <2>1. PICK i \in 1 .. n : s[i] = g /\ (c.firing => i > c.index + 1)
    BY <1>1, <1>3 DEF Ahead
  <2>2. i = k \/ i > k
    BY <1>2, <2>1
  <2>3. i > k => i > e.index + 1
    BY <1>1
  <2>. QED
    BY <1>1, <2>1, <2>2, <2>3 DEF Ahead
<1>4. ASSUME NEW g, Ahead(e, g) PROVE Ahead(c, g)
  <2>1. PICK i \in 1 .. n : s[i] = g /\ i > k
    BY <1>1, <1>4 DEF Ahead
  <2>2. c.firing => i > c.index + 1
    BY <1>2, <2>1
  <2>. QED
    BY <1>1, <2>1, <2>2 DEF Ahead
<1>5. Ahead(c, s[k])
  <2>1. c.firing => k > c.index + 1
    BY <1>2
  <2>. QED
    BY <1>1, <1>2, <2>1 DEF Ahead
<1>6. \A g : (On(e, g) <=> On(c, g)) /\ (AtMostOnce(e, g) <=> AtMostOnce(c, g))
  BY DEF On, AtMostOnce
<1>. QED
  BY <1>1, <1>3, <1>4, <1>5, <1>6 DEF Proceeds

LEMMA StillMoves ==
  ASSUME lists' = lists, NEW outer, frames' = outer, NEW l \in ListIds
  PROVE  Moved("none", l, {}, outer)
<1>1. Proceeds(lists[l], lists'[l], {}, {})
  BY SameProceeds
<1>2. Lives("none", lists[l], lists'[l])
  BY DEF Lives
<1>. QED
  BY <1>1, <1>2 DEF Moved, Unchanged, Pushes

LEMMA AddMoves ==
  ASSUME NEW outer, ListsAndStackFit(lists, outer), NEW l \in ListIds, NEW f \in Late, Add(l, f, outer)
  PROVE  Moved("add", l, {f}, outer)
<1>1. AddedTo(l, f, outer)
  BY AddFits
<1>2. PICK c, e : c = lists[l] /\ e = lists'[l]
  OBVIOUS
<1>3. Unchanged(l) /\ Lives("add", c, e)
  BY <1>1, <1>2 DEF AddedTo, Lives
<1>4. /\ ListFits(l, c) /\ WaitFits(c) /\ (l \in SettlingIds => SettlingFits(l, c))
      /\ DOMAIN c = ListFields /\ DOMAIN lists = ListIds /\ IsStack(outer, StackIds)
  BY <1>2 DEF ListsAndStackFit, FiringFits, ListFits, RunFits
<1>5. PICK g : g = Appended(c, f)
  OBVIOUS
<1>6. IsGrown(l, g, c, f)
  BY <1>4, <1>5, GrownFits
<1>7. ASSUME NEW S, c.list \in Seq(S), {f} \subseteq S PROVE Holds(g, S)
  BY <1>4, <1>5, <1>7, AppendedHolds DEF Holds
<1>8. ASSUME NEW d, Keep(l, d, outer) PROVE e = d /\ Pushes(l, outer, {})
  BY <1>2, <1>4, <1>8 DEF Keep, Pushes
<1>9. CASE ~c.alive
  <2>1. Keep(l, c, outer)
    BY <1>2, <1>9 DEF Add
  <2>2. e = c /\ Pushes(l, outer, {}) /\ Proceeds(c, e, {f}, {})
    BY <1>8, <1>9, <2>1, SameProceeds
  <2>. QED
    BY <1>2, <1>3, <2>2 DEF Moved
<1>10. CASE c.alive /\ c.firing
  <2>1. PICK d : d = [g EXCEPT !.length = Len(g.list)]
    OBVIOUS
  <2>2. Keep(l, d, outer)
    BY <1>2, <1>5, <1>10, <2>1 DEF Add
  <2>3. DOMAIN d = ListFields /\ d.list = g.list /\ d.firing = c.firing /\ d.index = c.index
    BY <1>6, <2>1 DEF IsGrown, ListFields
  <2>4. c.index \in Nat /\ c.index < Len(c.list)
    BY <1>4, <1>10 DEF ListFits, RunFits
  <2>5. Proceeds(c, d, {f}, {})
    <3>1. PICK n : n = Len(c.list)
      OBVIOUS
    <3>2. /\ n \in Nat /\ Len(d.list) = n + 1 /\ d.list[n + 1] = f
          /\ \A i \in 1 .. n : d.list[i] = c.list[i]
      BY <1>6, <2>3, <3>1 DEF IsGrown
    <3>. QED
      BY <2>3, <2>4, <3>1, <3>2, GrownProceeds
  <2>6. \A S : c.list \in Seq(S) /\ {f} \subseteq S => d.list \in Seq(S)
    BY <1>7, <2>3 DEF Holds
  <2>. QED
    BY <1>2, <1>3, <1>8, <2>2, <2>5, <2>6 DEF Moved
<1>11. CASE c.alive /\ ~c.firing /\ c.memory
  <2>1. PICK h : h = [g EXCEPT !.start = Len(c.list)]
    OBVIOUS
  <2>2. PICK d : d = Continued(Started(h))
    OBVIOUS
  <2>3. Settle(l, d, outer)
    BY <1>2, <1>5, <1>11, <2>1, <2>2 DEF Add
  <2>4. e = d
    BY <1>2, <1>4, <2>3 DEF Settle
  <2>5. PICK C : Pushes(l, outer, C) /\ C = IF d.firing THEN {d.list[d.index + 1]} ELSE {}
    BY <1>4, <2>3, SettlePushes
  <2>6. /\ c.fired /\ DOMAIN h = ListFields /\ h.list = g.list /\ h.waiting = c.waiting /\ h.alive
        /\ h.repeat = c.repeat /\ h.due = c.due /\ h.dropped = c.dropped
    BY <1>4, <1>6, <1>11, <2>1 DEF ListFits, RunFits, IsGrown, ListFields
  <2>7. ASSUME NEW S, c.list \in Seq(S), {f} \subseteq S PROVE d.list \in Seq(S)
    <3>1. Holds(Started(h), S)
      BY <1>7, <2>6, <2>7, StartedHolds DEF Holds
    <3>2. h.waiting \in Nat /\ h.dropped \in Nat /\ h.due = h.waiting + h.dropped /\ ~(h.waiting > 0)
      BY <1>4, <1>11, <2>6 DEF WaitFits
    <3>3. Started(h).waiting \in Nat
      BY <2>6, <3>2, StartedFits DEF WaitFits
    <3>. QED
      BY <2>2, <3>1, <3>3, ContinuedHolds DEF Holds
  <2>8. ASSUME l \in SettlingIds PROVE Proceeds(c, d, {f}, C)
    <3>1. d.firing /\ d.index = 0 /\ Len(d.list) = 1 /\ d.list[1] = f /\ c.list = <<>>
      BY <1>4, <1>5, <1>11, <2>1, <2>2, <2>6, <2>8, SettlingJoined
    <3>2. C = {f}
      BY <2>5, <3>1
    <3>. QED
      BY <3>1, <3>2, JoinedProceeds
  <2>. QED
    BY <1>2, <1>3, <2>4, <2>5, <2>7, <2>8 DEF Moved
<1>12. CASE c.alive /\ ~c.firing /\ ~c.memory
  <2>1. Keep(l, g, outer)
    BY <1>2, <1>5, <1>12 DEF Add
  <2>2. Proceeds(c, g, {f}, {})
    <3>1. PICK n : n = Len(c.list)
      OBVIOUS
    <3>2. /\ n \in Nat /\ Len(g.list) = n + 1 /\ g.list[n + 1] = f /\ g.firing = c.firing
          /\ \A i \in 1 .. n : g.list[i] = c.list[i]
      BY <1>6, <3>1 DEF IsGrown
    <3>. QED
      BY <1>12, <3>1, <3>2, GrownProceeds
  <2>3. \A S : c.list \in Seq(S) /\ {f} \subseteq S => g.list \in Seq(S)
    BY <1>7 DEF Holds
  <2>. QED
    BY <1>2, <1>3, <1>8, <2>1, <2>2, <2>3 DEF Moved
<1>. QED
  BY <1>9, <1>10, <1>11, <1>12

LEMMA FireMoves ==
  ASSUME NEW outer, ListsAndStackFit(lists, outer), NEW l \in ListIds, FireWith(l, outer)
  PROVE  Moved("fire", l, {}, outer)
<1>1. FiredAnew(l, outer) \/ FiredAgain(l, outer)
  BY FireFits
<1>2. PICK c, e : c = lists[l] /\ e = lists'[l]
  OBVIOUS
<1>3. Unchanged(l)
  BY <1>1 DEF FiredAnew, FiredAgain
<1>4. /\ ListFits(l, c) /\ WaitFits(c) /\ (l \in SettlingIds => SettlingFits(l, c))
      /\ DOMAIN c = ListFields /\ DOMAIN lists = ListIds /\ IsStack(outer, StackIds)
  BY <1>2 DEF ListsAndStackFit, FiringFits, ListFits, RunFits
<1>5. ASSUME NEW d, Keep(l, d, outer) PROVE e = d /\ Pushes(l, outer, {})
  BY <1>2, <1>4, <1>5 DEF Keep, Pushes
<1>6. CASE ~c.alive \/ (c.fired /\ ~c.repeat)
  <2>1. Keep(l, c, outer)
    BY <1>2, <1>6 DEF FireWith
  <2>2. e = c /\ Pushes(l, outer, {}) /\ Proceeds(c, e, {}, {})
    BY <1>5, <2>1, SameProceeds
  <2>3. Lives("fire", c, e)
    BY <1>6, <2>2 DEF Lives
  <2>. QED
    BY <1>2, <1>3, <2>2, <2>3 DEF Moved
<1>7. CASE ~(~c.alive \/ (c.fired /\ ~c.repeat)) /\ c.firing
  <2>1. PICK d : d = [c EXCEPT !.waiting = @ + 1, !.due = @ + 1]
    OBVIOUS
  <2>2. Keep(l, d, outer)
    BY <1>2, <1>7, <2>1 DEF FireWith
  <2>3. d.list = c.list
    BY <1>4, <2>1 DEF ListFields
  <2>4. l \notin SettlingIds
    BY <1>4, <1>7 DEF SettlingFits, ListFits, RunFits
  <2>. QED
    BY <1>2, <1>3, <1>5, <2>2, <2>3, <2>4 DEF Moved
<1>8. CASE ~(~c.alive \/ (c.fired /\ ~c.repeat)) /\ ~c.firing
  <2>1. PICK d : d = Continued(Started(c))
    OBVIOUS
  <2>2. Settle(l, d, outer)
    BY <1>2, <1>8, <2>1 DEF FireWith
  <2>3. e = d
    BY <1>2, <1>4, <2>2 DEF Settle
  <2>4. PICK C : Pushes(l, outer, C) /\ C = IF d.firing THEN {d.list[d.index + 1]} ELSE {}
    BY <1>4, <2>2, SettlePushes
  <2>5. ASSUME NEW S, c.list \in Seq(S) PROVE d.list \in Seq(S)
    <3>1. Holds(Started(c), S)
      BY <1>4, <2>5, StartedHolds DEF Holds
    <3>2. Started(c).waiting \in Nat
      BY <1>4, StartedFits DEF WaitFits
    <3>. QED
      BY <2>1, <3>1, <3>2, ContinuedHolds DEF Holds
  <2>6. ASSUME l \in SettlingIds PROVE Lives("fire", c, d) /\ Proceeds(c, d, {}, C)
    <3>1. ~c.fired /\ c.alive
      BY <1>4, <1>8, <2>6 DEF SettlingFits
    <3>2. /\ SettlingFits(l, d) /\ ListFits(l, d) /\ d.firing /\ d.alive /\ d.fired
          /\ d.index = 0 /\ d.list = c.list
      BY <1>4, <2>1, <2>6, <3>1, SettlingFires
    <3>3. Len(c.list) \in Nat /\ d.index < Len(c.list)
      BY <1>4, <3>2 DEF ListFits, RunFits
    <3>4. Proceeds(c, d, {}, {d.list[d.index + 1]})
      BY <1>8, <3>2, <3>3, CalledProceeds
    <3>. QED
      BY <2>4, <3>1, <3>2, <3>4 DEF Lives
  <2>. QED
    BY <1>2, <1>3, <2>3, <2>4, <2>5, <2>6 DEF Moved
<1>. QED
  BY <1>6, <1>7, <1>8

LEMMA LockMoves ==
  ASSUME NEW outer, ListsAndStackFit(lists, outer), NEW l \in ListIds \ SettlingIds, Lock(l, outer)
  PROVE  Moved("lock", l, {}, outer)
<1>1. Unchanged(l) /\ frames' = outer
  BY LockFits
<1>2. PICK c : c = lists[l]
  OBVIOUS
<1>3. DOMAIN c = ListFields /\ lists'[l] = Locked(c)
  BY <1>2 DEF Lock, Keep, ListsAndStackFit, ListFits, RunFits
<1>4. PICK d : d = StackDropped(c)
  OBVIOUS
<1>5. ASSUME NEW S, c.list \in Seq(S) PROVE Holds(Locked(c), S)
  <2>1. DOMAIN d = ListFields /\ d.list = c.list
    BY <1>3, <1>4 DEF StackDropped, ListFields
  <2>2. Holds(d, S) /\ Holds(Disabled(d), S)
    BY <1>5, <2>1, DisabledHolds DEF Holds
  <2>. QED
    BY <1>4, <2>2 DEF Locked
<1>6. \A S : c.list \in Seq(S) => lists'[l].list \in Seq(S)
  BY <1>3, <1>5 DEF Holds
<1>. QED
  BY <1>1, <1>2, <1>6 DEF Moved, Pushes

LEMMA DisableMoves ==
  ASSUME NEW outer, ListsAndStackFit(lists, outer), NEW l \in SettlingIds, ~lists[l].fired, Disable(l, outer)
  PROVE  Moved("disable", l, {}, outer)
<1>1. /\ Unchanged(l) /\ frames' = outer /\ ~lists'[l].alive /\ ~lists'[l].fired
  BY DisableFits
<1>2. PICK c, e : c = lists[l] /\ e = lists'[l]
  OBVIOUS
<1>3. l \in ListIds
  BY Ids
<1>4. DOMAIN c = ListFields /\ e = Disabled(c)
  BY <1>2, <1>3 DEF Disable, Keep, ListsAndStackFit, ListFits, RunFits
<1>5. e.list = <<>>
  BY <1>4 DEF Disabled, StackDropped, ListFields
<1>6. Proceeds(c, e, {}, {})
  BY <1>1, <1>2, <1>5, EmptyProceeds
<1>7. Lives("disable", c, e)
  BY <1>1, <1>2 DEF Lives
<1>8. \A S : <<>> \in Seq(S)
  OBVIOUS
<1>. QED
  BY <1>1, <1>2, <1>3, <1>5, <1>6, <1>7, <1>8 DEF Moved, Pushes

LEMMA ReturnMoves ==
  ASSUME ListsAndStackFit(lists, frames), Return, NEW l \in ListIds, Top.on = l
  PROVE  Moved("return", l, {}, Tail(frames))
<1>1. PICK c : c = lists[l]
  OBVIOUS
<1>2. PICK d : d = [c EXCEPT !.index = @ + 1]
  OBVIOUS
<1>3. PICK e : e = Continued(d)
  OBVIOUS
<1>4. PICK t : t = Tail(frames)
  OBVIOUS
<1>5. frames # <<>> /\ Settle(l, e, t)
  BY <1>1, <1>2, <1>3, <1>4 DEF Return, TopList
<1>6. /\ ListFits(l, c) /\ WaitFits(c) /\ (l \in SettlingIds => SettlingFits(l, c))
      /\ c.firing /\ c.index \in Nat /\ DOMAIN c = ListFields /\ DOMAIN lists = ListIds
  BY <1>1, <1>5, TopFits DEF ListsAndStackFit, FiringFits, ListFits, RunFits
<1>7. IsStack(t, StackIds)
  BY <1>4, <1>5, RestOfTheStack
<1>8. lists'[l] = e
  BY <1>5, <1>6 DEF Settle
<1>9. Unchanged(l)
  BY ReturnedFits DEF Returned
<1>10. PICK C : Pushes(l, t, C) /\ C = IF e.firing THEN {e.list[e.index + 1]} ELSE {}
  BY <1>5, <1>7, SettlePushes
<1>11. DOMAIN d = ListFields /\ d.list = c.list /\ d.waiting = c.waiting
  BY <1>2, <1>6 DEF ListFields
<1>12. ASSUME NEW S, c.list \in Seq(S) PROVE e.list \in Seq(S)
  <2>1. Holds(d, S) /\ d.waiting \in Nat
    BY <1>6, <1>11, <1>12 DEF Holds, WaitFits
  <2>. QED
    BY <1>3, <2>1, ContinuedHolds DEF Holds
<1>13. ASSUME l \in SettlingIds PROVE Lives("return", c, e) /\ Proceeds(c, e, {}, C)
  <2>1. /\ e.alive /\ e.fired
        /\ \/ /\ e.firing /\ c.index + 1 < Len(c.list) /\ e.index = c.index + 1 /\ e.list = c.list
           \/ ~e.firing /\ c.index + 1 = Len(c.list) /\ e.list = <<>>
    BY <1>2, <1>3, <1>6, <1>13, SettlingReturns
  <2>2. Lives("return", c, e)
    BY <1>6, <2>1 DEF Lives, ListFits, RunFits
  <2>3. CASE e.firing /\ c.index + 1 < Len(c.list) /\ e.index = c.index + 1 /\ e.list = c.list
    <3>1. Len(c.list) \in Nat /\ e.index \in Nat /\ e.index < Len(c.list)
      BY <1>6, <2>3 DEF ListFits, RunFits
    <3>2. Proceeds(c, e, {}, {e.list[e.index + 1]})
      BY <1>6, <2>3, <3>1, CalledProceeds
    <3>. QED
      BY <1>10, <2>2, <2>3, <3>2
  <2>4. CASE ~e.firing /\ c.index + 1 = Len(c.list) /\ e.list = <<>>
    <3>1. \A g : ~Ahead(c, g)
      BY <1>6, <2>4 DEF Ahead
    <3>2. Proceeds(c, e, {}, {})
      BY <2>4, <3>1, EmptyProceeds
    <3>. QED
      BY <1>10, <2>2, <2>4, <3>2
  <2>. QED
    BY <2>1, <2>3, <2>4
<1>. QED
  BY <1>1, <1>4, <1>8, <1>9, <1>10, <1>12, <1>13 DEF Moved

(***************************************************************************)
(* The hooks stay in place                                                 *)
(***************************************************************************)
LEMMA HookSteps ==
  ASSUME NEW h, NEW l \in ListIds, NEW f \in HookSet(h, l), NEW x, x.on = l, x.calls = f, x.steps = f.steps
  PROVE  CallFits(h, x)
<1>0. l # None /\ x.on \in ListIds /\ x.on # None
  BY Ids
<1>1. ASSUME NEW s, x.steps = <<s>>, StepOf(h, x, s) PROVE CallFits(h, x)
  <2>1. \A m \in 1 .. Len(<<s>>) : m = 1 /\ <<s>>[m] = s
    OBVIOUS
  <2>. QED
    BY <1>0, <1>1, <2>1 DEF CallFits, StepsDiffer
<1>2. CASE f \in UserCallbacks
  <2>1. x.steps = <<>> /\ \A m \in 1 .. Len(<<>>) : FALSE
    BY <1>2, CallbackNames
  <2>. QED
    BY <1>0, <2>1 DEF CallFits, StepsDiffer
<1>3. CASE l \in SettlingIds /\ f \in {SetState(l), DisableOther(l), LockProgress(l)}
  <2>1. PICK s : x.steps = <<s>> /\ s.op \in {"state", "disable", "lock"}
    <3>1. x.steps \in {<<Step("state", l)>>, <<Step("disable", Opposite(l))>>, <<Step("lock", <<l[1], "progress">>)>>}
      BY <1>3, CallbackNames
    <3>2. \A op, k : Step(op, k).op = op
      BY DEF Step
    <3>. QED
      BY <3>1, <3>2
  <2>2. StepOf(h, x, s)
    BY <2>1 DEF StepOf
  <2>. QED
    BY <1>1, <2>1, <2>2
<1>4. CASE Hooked(h, l, f)
  <2>1. CASE h.link = "then" /\ l[1] = "first" /\ f = Forward(l[2])
    <3>1. PICK s, t : s = Step("apply", Result(l[2])) /\ t = Step("fire", Result(l[2]))
      OBVIOUS
    <3>2. x.steps = <<s, t>> /\ x.calls # Update
      BY <2>1, <3>1, CallbackNames DEF Result
    <3>3. s.op = "apply" /\ t.op = "fire"
      BY <3>1 DEF Step
    <3>4. StepOf(h, x, s)
      BY <1>0, <2>1, <3>3 DEF StepOf
    <3>5. StepOf(h, x, t)
      BY <1>0, <2>1, <3>1, <3>3 DEF StepOf, Settling
    <3>6. \A m \in 1 .. Len(<<s, t>>) : <<s, t>>[m] \in {s, t}
      OBVIOUS
    <3>. QED
      BY <1>0, <3>2, <3>4, <3>5, <3>6 DEF CallFits
  <2>2. CASE f = Settles(Result(l[2])) /\ Settling(h, l)
    <3>1. PICK s : s = Step("fire", Result(l[2]))
      OBVIOUS
    <3>2. s.op = "fire" /\ x.steps = <<s>>
      BY <2>2, <3>1, CallbackNames DEF Step
    <3>3. StepOf(h, x, s)
      BY <1>0, <2>2, <3>1, <3>2 DEF StepOf
    <3>. QED
      BY <1>1, <3>2, <3>3
  <2>3. CASE h.link = "when" /\ l[1] \in h.subjects /\ l[2] = "done" /\ f = Update
    <3>1. x.steps = <<Counts>> /\ Counts.op = "count"
      BY <2>3, CallbackNames DEF Counts, Result, Step
    <3>2. StepOf(h, x, Counts)
      BY <1>0, <2>3, <3>1 DEF StepOf
    <3>. QED
      BY <1>1, <3>1, <3>2
  <2>. QED
    BY <1>4, <2>1, <2>2, <2>3 DEF Hooked, Settling
<1>. QED
  BY <1>2, <1>3, <1>4 DEF HookSet, ListCallbacks, Late

LEMMA MovedHooks ==
  ASSUME NEW h, NEW outer, HooksFit(h, lists, outer), ListsAndStackFit(lists', frames'),
         NEW op, NEW l, NEW F, Moved(op, l, F, outer), F \subseteq HookSet(h, l)
  PROVE  HooksFit(h, lists', frames')
<1>1. l \in ListIds /\ l # None /\ Unchanged(l)
  BY Ids DEF Moved
<1>2. ASSUME NEW k \in ListIds PROVE lists'[k].list \in Seq(HookSet(h, k))
  BY <1>1 DEF Moved, Unchanged, HooksFit
<1>3. PICK C : Pushes(l, outer, C)
  BY DEF Moved
<1>4. CASE frames' = outer
  BY <1>2, <1>4 DEF HooksFit
<1>5. ASSUME NEW x, NewCall(x, l, outer) PROVE HooksFit(h, lists', frames')
  <2>1. PICK stack, ls : stack = frames' /\ ls = lists'
    OBVIOUS
  <2>2. WithOneMore(stack, x, outer) /\ x.on = l /\ x.steps = x.calls.steps
    BY <1>5, <2>1 DEF NewCall
  <2>3. 1 \in 1 .. Len(stack) /\ stack[1] = x
    BY <2>2 DEF WithOneMore
  <2>4. FrameFits(x, ls)
    BY <2>1, <2>3 DEF ListsAndStackFit, FramesFit
  <2>5. x.calls \in HookSet(h, l)
    <3>1. PICK s, i : s = ls[l].list /\ i = ls[l].index + 1
      OBVIOUS
    <3>2. i \in 1 .. Len(s) /\ x.calls = s[i] /\ s \in Seq(HookSet(h, l))
      BY <1>1, <1>2, <2>1, <2>2, <2>4, <3>1 DEF FrameFits
    <3>. QED
      BY <3>2
  <2>6. CallFits(h, x)
    BY <1>1, <2>2, <2>5, HookSteps
  <2>7. ASSUME NEW i \in 1 .. Len(stack)
        PROVE  (i = 1 /\ stack[i] = x) \/ \E j \in 1 .. Len(outer) : j = i - 1 /\ stack[i] = outer[j]
    BY <2>2, <2>3 DEF WithOneMore
  <2>8. \A i \in 1 .. Len(stack) : CallFits(h, stack[i])
    BY <2>6, <2>7 DEF HooksFit
  <2>9. ASSUME NEW i \in 1 .. Len(stack), NEW j \in 1 .. Len(stack), stack[i].on = None, stack[j].on = None
        PROVE  i = j
    <3>1. i # 1 /\ j # 1
      BY <1>1, <2>2, <2>3, <2>9
    <3>2. i - 1 \in 1 .. Len(outer) /\ j - 1 \in 1 .. Len(outer) /\ stack[i] = outer[i - 1] /\ stack[j] = outer[j - 1]
      BY <2>7, <3>1
    <3>3. i - 1 = j - 1
      BY <2>9, <3>2 DEF HooksFit
    <3>. QED
      BY <3>3
  <2>10. ASSUME h.link = "none", NEW i \in 1 .. Len(stack) PROVE stack[i].on # None
    BY <1>1, <2>2, <2>7, <2>10 DEF HooksFit
  <2>11. HooksFit(h, ls, stack)
    BY <1>2, <2>1, <2>8, <2>9, <2>10 DEF HooksFit
  <2>. QED
    BY <2>1, <2>11
<1>. QED
  BY <1>3, <1>4, <1>5 DEF Pushes

(***************************************************************************)
(* What an operation leaves to be done                                     *)
(***************************************************************************)
Calls(k, g, outer) == \E x : NewCall(x, k, outer) /\ x.calls = g

(* The operation starts with the stack outer, which owes all but T. *)
Leaves(outer, T) ==
  \A on, s : /\ Owes(frames, on, s) => Owes(outer, on, s) \/ <<on, s>> \in T
             /\ Owes(outer, on, s) => Owes(frames, on, s)

LEMMA MovedFates ==
  ASSUME NEW op, NEW l, NEW F, NEW outer, Moved(op, l, F, outer)
  PROVE  \A k \in SettlingIds :
           /\ lists'[k].alive => lists[k].alive
           /\ lists[k].alive => lists'[k].alive \/ (op = "disable" /\ k = l)
           /\ lists[k].fired => lists'[k].fired
           /\ lists'[k].fired => lists[k].fired \/ (op = "fire" /\ k = l)
BY Ids DEF Moved, Unchanged, Lives

LEMMA MovedCalls ==
  ASSUME NEW op, NEW l, NEW F, NEW outer, Moved(op, l, F, outer), NEW k \in SettlingIds
  PROVE  /\ \A g : Ahead(lists[k], g) \/ (k = l /\ g \in F) =>
                     ~lists'[k].alive \/ Ahead(lists'[k], g) \/ Calls(k, g, outer)
         /\ \A g : Ahead(lists'[k], g) => Ahead(lists[k], g) \/ (k = l /\ g \in F)
         /\ IsStack(outer, StackIds) =>
              \A g : Calls(k, g, outer) => Ahead(lists[k], g) \/ (k = l /\ g \in F)
<1>1. PICK C : /\ Pushes(l, outer, C)
               /\ l \in SettlingIds => Proceeds(lists[l], lists'[l], F, C)
  BY DEF Moved
<1>2. ASSUME NEW g, IsStack(outer, StackIds), Calls(k, g, outer) PROVE k = l /\ g \in C
  <2>1. PICK y : NewCall(y, k, outer) /\ y.calls = g
    BY <1>2 DEF Calls
  <2>2. frames' # outer
    <3>1. PICK stack : stack = frames'
      OBVIOUS
    <3>2. Len(stack) = Len(outer) + 1 /\ Len(outer) \in Nat
      BY <1>2, <2>1, <3>1 DEF NewCall, WithOneMore, IsStack
    <3>. QED
      BY <3>1, <3>2
  <2>3. PICK x : NewCall(x, l, outer) /\ C = {x.calls}
    BY <1>1, <2>2 DEF Pushes
  <2>4. x = y
    BY <2>1, <2>3 DEF NewCall, WithOneMore
  <2>. QED
    BY <2>1, <2>3, <2>4 DEF NewCall
<1>3. \A g \in C : Calls(l, g, outer)
  BY <1>1 DEF Pushes, Calls
<1>4. CASE k = l
  BY <1>1, <1>2, <1>3, <1>4 DEF Proceeds
<1>5. CASE k # l
  <2>1. lists'[k] = lists[k]
    BY <1>5, Ids DEF Moved, Unchanged
  <2>. QED
    BY <1>2, <1>5, <2>1
<1>. QED
  BY <1>4, <1>5

LEMMA MovedOwes ==
  ASSUME NEW op, NEW l, NEW F, NEW outer, Moved(op, l, F, outer), NEW on, NEW s
  PROVE  /\ Owes(outer, on, s) => Owes(frames', on, s)
         /\ \A g : Calls(on, g, outer) /\ (\E m \in 1 .. Len(g.steps) : g.steps[m] = s) => Owes(frames', on, s)
         /\ Owes(frames', on, s) => \/ Owes(outer, on, s)
                                    \/ \E g : Calls(on, g, outer) /\ \E m \in 1 .. Len(g.steps) : g.steps[m] = s
<1>1. PICK C : Pushes(l, outer, C)
  BY DEF Moved
<1>2. ASSUME NEW x, NEW k, NewCall(x, k, outer)
      PROVE  Owes(frames', on, s) <=>
               Owes(outer, on, s) \/ (x.on = on /\ \E m \in 1 .. Len(x.steps) : x.steps[m] = s)
  <2>1. PICK stack : stack = frames'
    OBVIOUS
  <2>2. WithOneMore(stack, x, outer)
    BY <1>2, <2>1 DEF NewCall
  <2>3. Owes(stack, on, s) <=> Owes(outer, on, s) \/ (x.on = on /\ \E m \in 1 .. Len(x.steps) : x.steps[m] = s)
    BY <2>2, OwesWhenPushed
  <2>. QED
    BY <2>1, <2>3
<1>3. ASSUME NEW g, Calls(on, g, outer), \E m \in 1 .. Len(g.steps) : g.steps[m] = s PROVE Owes(frames', on, s)
  <2>1. PICK x : NewCall(x, on, outer) /\ x.calls = g
    BY <1>3 DEF Calls
  <2>. QED
    BY <1>2, <1>3, <2>1 DEF NewCall
<1>4. CASE frames' = outer
  BY <1>3, <1>4
<1>5. ASSUME NEW x, NewCall(x, l, outer)
      PROVE  /\ Owes(outer, on, s) => Owes(frames', on, s)
             /\ Owes(frames', on, s) => \/ Owes(outer, on, s)
                                        \/ \E g : Calls(on, g, outer) /\ \E m \in 1 .. Len(g.steps) : g.steps[m] = s
  <2>1. Owes(frames', on, s) <=> Owes(outer, on, s) \/ (x.on = on /\ \E m \in 1 .. Len(x.steps) : x.steps[m] = s)
    BY <1>2, <1>5
  <2>2. ASSUME x.on = on, \E m \in 1 .. Len(x.steps) : x.steps[m] = s
        PROVE  \E g : Calls(on, g, outer) /\ \E m \in 1 .. Len(g.steps) : g.steps[m] = s
    <3>1. PICK g : g = x.calls
      OBVIOUS
    <3>2. Calls(on, g, outer) /\ \E m \in 1 .. Len(g.steps) : g.steps[m] = s
      BY <1>5, <2>2, <3>1 DEF Calls, NewCall
    <3>. QED
      BY <3>2
  <2>. QED
    BY <2>1, <2>2
<1>. QED
  BY <1>1, <1>3, <1>4, <1>5 DEF Pushes

SomeOwe(stack, s) == \E on \in StackIds : Owes(stack, on, s)

(* The callback of list l that is to fire list r will be called, or r needs *)
(* it no more.                                                             *)
Reaches(ls, stack, l, f, r) ==
  ls[l].alive => \/ Ahead(ls[l], f) \/ SomeOwe(stack, AddStep(l, f)) \/ SomeOwe(stack, Step("fire", r))
                 \/ ls[r].fired \/ ~ls[r].alive

WillFire(f, r) == \E m \in 1 .. Len(f.steps) : f.steps[m] = Step("fire", r)

LEMMA MovedReaches ==
  ASSUME NEW op, NEW l, NEW F, NEW outer, Moved(op, l, F, outer), NEW T, Leaves(outer, T),
         NEW k \in SettlingIds, NEW r \in SettlingIds, NEW f, WillFire(f, r),
         \A on : <<on, AddStep(k, f)>> \in T => k = l /\ f \in F,
         \A on : <<on, Step("fire", r)>> \in T => op = "fire" /\ r = l,
         Reaches(lists, frames, k, f, r)
  PROVE  Reaches(lists', frames', k, f, r)
<1>. SUFFICES ASSUME lists'[k].alive, ~lists'[r].fired, lists'[r].alive
              PROVE  \/ Ahead(lists'[k], f) \/ SomeOwe(frames', AddStep(k, f))
                     \/ SomeOwe(frames', Step("fire", r))
  BY DEF Reaches
<1>1. lists[k].alive /\ lists[r].alive /\ ~lists[r].fired
  BY MovedFates
<1>2. ~(op = "fire" /\ r = l)
  BY DEF Moved, Lives
<1>3. \A s : SomeOwe(outer, s) => SomeOwe(frames', s)
  BY MovedOwes DEF SomeOwe
<1>4. Ahead(lists[k], f) \/ (k = l /\ f \in F) => Ahead(lists'[k], f) \/ SomeOwe(frames', Step("fire", r))
  <2>1. Calls(k, f, outer) => Owes(frames', k, Step("fire", r))
    BY MovedOwes DEF WillFire
  <2>2. k \in StackIds
    BY Ids DEF StackIds
  <2>. QED
    BY <2>1, <2>2, MovedCalls DEF SomeOwe
<1>5. SomeOwe(frames, AddStep(k, f)) => SomeOwe(outer, AddStep(k, f)) \/ (k = l /\ f \in F)
  BY DEF SomeOwe, Leaves
<1>6. SomeOwe(frames, Step("fire", r)) => SomeOwe(outer, Step("fire", r))
  BY <1>2 DEF SomeOwe, Leaves
<1>. QED
  BY <1>1, <1>3, <1>4, <1>5, <1>6 DEF Reaches

(***************************************************************************)
(* What the results of then and when owe to the lists they hang on         *)
(***************************************************************************)
Outcomes == {"done", "fail"}

(* Only the opposite list kills one. *)
DeathFits(ls) == \A l \in SettlingIds : ~ls[l].alive => ls[Opposite(l)].fired

ThenFits(h, ls, stack) ==
  h.link = "then" =>
    /\ \A kind \in Outcomes :
         ls[Result(kind)].fired => \/ ls[<<"first", kind>>].fired
                                   \/ h.adopted /\ ls[<<"second", kind>>].fired
    /\ \/ \A kind \in Outcomes : Reaches(ls, stack, <<"first", kind>>, Forward(kind), Result(kind))
       \/ /\ h.adopted
          /\ \A kind \in Outcomes : Reaches(ls, stack, <<"second", kind>>, Settles(Result(kind)), Result(kind))

(* A subject that has not been counted yet. *)
AddOwed(stack, k) == Owes(stack, None, AddStep(k, Update))
CountOwed(stack, k) == Owes(stack, k, Counts)
Awaited(ls, stack, k) == ~ls[k].alive \/ Ahead(ls[k], Update) \/ AddOwed(stack, k) \/ CountOwed(stack, k)
CountedOnce(ls, stack, k) ==
  /\ AtMostOnce(ls[k], Update)
  /\ AddOwed(stack, k) => ~On(ls[k], Update) /\ ~CountOwed(stack, k)
  /\ ~ls[k].fired => Awaited(ls, stack, k)

One(b) == IF b THEN 1 ELSE 0
Waits(h, ls, stack) ==
  One("first" \in h.subjects /\ Awaited(ls, stack, <<"first", "done">>))
    + One("second" \in h.subjects /\ Awaited(ls, stack, <<"second", "done">>))
    + One(Owes(stack, None, Discounts))
WhenFits(h, ls, stack, rest) ==
  h.link = "when" =>
    /\ ls[Result("fail")].fired => \E d \in h.subjects : ls[<<d, "fail">>].fired
    /\ ls[Result("done")].fired => \A d \in h.subjects : ls[<<d, "done">>].fired
    /\ \A d \in h.subjects : Reaches(ls, stack, <<d, "fail">>, Settles(Result("fail")), Result("fail"))
    /\ rest = Waits(h, ls, stack)
    /\ rest = 0 => \/ ls[Result("done")].fired \/ ~ls[Result("done")].alive
                   \/ Owes(stack, None, Decides)
    /\ \A d \in h.subjects : CountedOnce(ls, stack, <<d, "done">>)

(* Until then or when is called, nothing fires the result. *)
FreshFits(h, ls) == h.link = "none" => \A kind \in Outcomes : ~ls[Result(kind)].fired

LinksFit(h, ls, stack, rest) ==
  /\ HooksFit(h, ls, stack) /\ DeathFits(ls) /\ FreshFits(h, ls)
  /\ ThenFits(h, ls, stack) /\ WhenFits(h, ls, stack, rest)

LEMMA LinkIds ==
  /\ \A d \in Deferreds, kind \in Outcomes : <<d, kind>> \in SettlingIds /\ <<d, kind>> \in StackIds
  /\ \A kind \in Outcomes : Result(kind) \in SettlingIds
  /\ \A d \in {"first", "second"}, kind \in Outcomes : <<d, kind>> \in SettlingIds /\ <<d, kind>> # None
  /\ \A kind \in Outcomes : /\ Opposite(Result(kind)) = Result(Other[kind]) /\ Other[kind] \in Outcomes
                            /\ \A d : Opposite(<<d, kind>>) = <<d, Other[kind]>>
  /\ \A kind, other : Result(kind) = Result(other) => kind = other
  /\ Result("done") \in ListIds
BY DEF Deferreds, Outcomes, SettlingIds, ListIds, StackIds, Result, Opposite, Other, None

LEMMA StepsTell ==
  /\ \A op, l : Step(op, l).op = op /\ Step(op, l).on = l
  /\ \A l, f : AddStep(l, f).op = "add" /\ AddStep(l, f).on = l /\ AddStep(l, f).callback = f
  /\ Counts.op = "count" /\ Counts.on = Result("done")
  /\ Discounts.op = "discount" /\ Decides.op = "ifNone"
BY DEF Step, AddStep, Counts, Discounts, Decides

LEMMA HooksFire ==
  ASSUME NEW kind
  PROVE  WillFire(Settles(Result(kind)), Result(kind)) /\ WillFire(Forward(kind), Result(kind))
<1>1. PICK s, t, f, g : /\ s = Step("apply", Result(kind)) /\ t = Step("fire", Result(kind))
                        /\ f = Settles(Result(kind)) /\ g = Forward(kind)
  OBVIOUS
<1>2. f.steps = <<t>> /\ g.steps = <<s, t>>
  BY <1>1, CallbackNames DEF Result
<1>3. /\ 1 \in 1 .. Len(<<t>>) /\ <<t>>[1] = t
      /\ 2 \in 1 .. Len(<<s, t>>) /\ <<s, t>>[2] = t
  OBVIOUS
<1>4. WillFire(f, Result(kind)) /\ WillFire(g, Result(kind))
  BY <1>1, <1>2, <1>3 DEF WillFire
<1>. QED
  BY <1>1, <1>4

(* The steps of T are the work of the operation. *)
Fulfils(T, op, l, F) ==
  \A on, s : <<on, s>> \in T =>
    /\ s.op = "add" => s.on = l /\ s.callback \in F
    /\ s.op = "fire" => op = "fire" /\ s.on = l

LEMMA MovedHook ==
  ASSUME NEW op, NEW l, NEW F, NEW outer, Moved(op, l, F, outer), NEW T, Leaves(outer, T), Fulfils(T, op, l, F),
         NEW k \in SettlingIds, NEW r \in SettlingIds, NEW f, WillFire(f, r), Reaches(lists, frames, k, f, r)
  PROVE  Reaches(lists', frames', k, f, r)
<1>1. \A on : <<on, AddStep(k, f)>> \in T => k = l /\ f \in F
  BY StepsTell DEF Fulfils
<1>2. \A on : <<on, Step("fire", r)>> \in T => op = "fire" /\ r = l
  BY StepsTell DEF Fulfils
<1>. QED
  BY <1>1, <1>2, MovedReaches

LEMMA MovedDeath ==
  ASSUME NEW op, NEW l, NEW F, NEW outer, Moved(op, l, F, outer), DeathFits(lists),
         op = "disable" => l \in SettlingIds /\ lists[Opposite(l)].fired
  PROVE  DeathFits(lists')
BY MovedFates, Ids DEF DeathFits

LEMMA MovedThen ==
  ASSUME NEW op, NEW l, NEW F, NEW outer, Moved(op, l, F, outer), NEW T, Leaves(outer, T), Fulfils(T, op, l, F),
         NEW h, ThenFits(h, lists, frames),
         \A kind \in Outcomes : h.link = "then" /\ op = "fire" /\ l = Result(kind) =>
           lists[<<"first", kind>>].fired \/ (h.adopted /\ lists[<<"second", kind>>].fired)
  PROVE  ThenFits(h, lists', frames')
<1>. SUFFICES ASSUME h.link = "then"
              PROVE  /\ \A kind \in Outcomes :
                          lists'[Result(kind)].fired => \/ lists'[<<"first", kind>>].fired
                                                        \/ h.adopted /\ lists'[<<"second", kind>>].fired
                     /\ \/ \A kind \in Outcomes :
                             Reaches(lists', frames', <<"first", kind>>, Forward(kind), Result(kind))
                        \/ /\ h.adopted
                           /\ \A kind \in Outcomes :
                                Reaches(lists', frames', <<"second", kind>>, Settles(Result(kind)), Result(kind))
  BY DEF ThenFits
<1>1. \A kind \in Outcomes : /\ <<"first", kind>> \in SettlingIds /\ <<"second", kind>> \in SettlingIds
                             /\ Result(kind) \in SettlingIds
  BY LinkIds
<1>2. \A kind \in Outcomes :
        lists'[Result(kind)].fired => \/ lists'[<<"first", kind>>].fired
                                      \/ h.adopted /\ lists'[<<"second", kind>>].fired
  BY <1>1, MovedFates DEF ThenFits
<1>3. ASSUME NEW kind \in Outcomes, Reaches(lists, frames, <<"first", kind>>, Forward(kind), Result(kind))
      PROVE  Reaches(lists', frames', <<"first", kind>>, Forward(kind), Result(kind))
  BY <1>1, <1>3, HooksFire, MovedHook
<1>4. ASSUME NEW kind \in Outcomes, Reaches(lists, frames, <<"second", kind>>, Settles(Result(kind)), Result(kind))
      PROVE  Reaches(lists', frames', <<"second", kind>>, Settles(Result(kind)), Result(kind))
  BY <1>1, <1>4, HooksFire, MovedHook
<1>. QED
  BY <1>2, <1>3, <1>4 DEF ThenFits

(***************************************************************************)
(* What when has counted                                                   *)
(***************************************************************************)
LEMMA MovedMembers ==
  ASSUME NEW op, NEW l, NEW F, NEW outer, Moved(op, l, F, outer), NEW k \in SettlingIds
  PROVE  /\ \A g : On(lists'[k], g) => On(lists[k], g) \/ (k = l /\ g \in F)
         /\ \A g : AtMostOnce(lists[k], g) /\ ~(k = l /\ g \in F /\ On(lists[k], g)) => AtMostOnce(lists'[k], g)
<1>1. CASE k = l
  BY <1>1 DEF Moved, Proceeds
<1>2. CASE k # l
  <2>1. lists'[k] = lists[k]
    BY <1>2, Ids DEF Moved, Unchanged
  <2>. QED
    BY <2>1
<1>. QED
  BY <1>1, <1>2

LEMMA AheadIsOn == \A c, g : Ahead(c, g) => On(c, g)
BY DEF Ahead, On

(* The calls of then and when are not the operation's. *)
LEMMA MovedLinks ==
  ASSUME NEW op, NEW l, NEW F, NEW outer, Moved(op, l, F, outer), IsStack(outer, StackIds)
  PROVE  \A s : Owes(frames', None, s) <=> Owes(outer, None, s)
<1>1. ASSUME NEW g, Calls(None, g, outer) PROVE FALSE
  <2>1. PICK y : NewCall(y, None, outer)
    BY <1>1 DEF Calls
  <2>2. PICK stack : stack = frames'
    OBVIOUS
  <2>3. stack[1] = y /\ Len(stack) = Len(outer) + 1 /\ Len(outer) \in Nat /\ y.on = None
    BY <2>1, <2>2 DEF NewCall, WithOneMore, IsStack
  <2>4. stack # outer
    BY <2>3
  <2>5. PICK x : NewCall(x, l, outer)
    BY <2>2, <2>4 DEF Moved, Pushes
  <2>6. stack[1].on = l
    BY <2>2, <2>5 DEF NewCall, WithOneMore
  <2>. QED
    BY <2>3, <2>6, Ids DEF Moved
<1>. QED
  BY <1>1, MovedOwes

LEMMA UpdateCounts ==
  ASSUME NEW op, NEW l, NEW F, NEW outer, Moved(op, l, F, outer),
         NEW h, HooksFit(h, lists', frames'), NEW k
  PROVE  /\ Calls(k, Update, outer) => CountOwed(frames', k)
         /\ CountOwed(frames', k) => CountOwed(outer, k) \/ Calls(k, Update, outer)
<1>1. Update.steps = <<Counts>> /\ 1 \in 1 .. Len(<<Counts>>) /\ <<Counts>>[1] = Counts
  BY CallbackNames DEF Counts, Result
<1>2. Calls(k, Update, outer) => CountOwed(frames', k)
  BY <1>1, MovedOwes DEF CountOwed
<1>3. ASSUME NEW g, Calls(k, g, outer), \E m \in 1 .. Len(g.steps) : g.steps[m] = Counts PROVE g = Update
  <2>1. PICK stack : stack = frames'
    OBVIOUS
  <2>2. PICK x : WithOneMore(stack, x, outer) /\ x.steps = x.calls.steps /\ x.calls = g
    BY <1>3, <2>1 DEF Calls, NewCall
  <2>3. 1 \in 1 .. Len(stack) /\ stack[1] = x
    BY <2>2 DEF WithOneMore
  <2>4. CallFits(h, x)
    BY <2>1, <2>3 DEF HooksFit
  <2>5. StepOf(h, x, Counts)
    BY <1>3, <2>2, <2>4 DEF CallFits
  <2>. QED
    BY <2>2, <2>5, StepsTell DEF StepOf
<1>. QED
  BY <1>2, <1>3, MovedOwes DEF CountOwed

LEMMA MovedAwaits ==
  ASSUME NEW op, NEW l, NEW F, NEW outer, Moved(op, l, F, outer), IsStack(outer, StackIds),
         NEW T, Leaves(outer, T), Fulfils(T, op, l, F),
         NEW h, HooksFit(h, lists', frames'),
         NEW k \in SettlingIds, CountedOnce(lists, frames, k),
         Update \in F => AddOwed(frames, l) /\ ~AddOwed(outer, l),
         op = "disable" => ~lists[l].fired
  PROVE  /\ Awaited(lists', frames', k) => Awaited(lists, frames, k)
         /\ <<k, Counts>> \notin T /\ Awaited(lists, frames, k) => Awaited(lists', frames', k)
         /\ <<k, Counts>> \notin T \/ lists[k].fired => CountedOnce(lists', frames', k)
<1>1. AddOwed(frames', k) <=> AddOwed(outer, k)
  BY MovedLinks DEF AddOwed
<1>2. /\ AddOwed(outer, k) => AddOwed(frames, k)
      /\ AddOwed(frames, k) => AddOwed(outer, k) \/ (k = l /\ Update \in F)
      /\ CountOwed(outer, k) => CountOwed(frames, k)
      /\ CountOwed(frames, k) => CountOwed(outer, k) \/ <<k, Counts>> \in T
  <2>1. PICK s : s = AddStep(k, Update)
    OBVIOUS
  <2>2. s.op = "add" /\ s.on = k /\ s.callback = Update
    BY <2>1, StepsTell
  <2>3. <<None, s>> \in T => k = l /\ Update \in F
    BY <2>2 DEF Fulfils
  <2>4. /\ Owes(frames, None, s) => Owes(outer, None, s) \/ <<None, s>> \in T
        /\ Owes(outer, None, s) => Owes(frames, None, s)
    BY DEF Leaves
  <2>5. /\ Owes(frames, k, Counts) => Owes(outer, k, Counts) \/ <<k, Counts>> \in T
        /\ Owes(outer, k, Counts) => Owes(frames, k, Counts)
    BY DEF Leaves
  <2>. QED
    BY <2>1, <2>3, <2>4, <2>5 DEF AddOwed, CountOwed
<1>3. /\ Calls(k, Update, outer) => CountOwed(frames', k)
      /\ CountOwed(frames', k) => CountOwed(outer, k) \/ Calls(k, Update, outer)
  BY UpdateCounts
<1>4. CountOwed(outer, k) => CountOwed(frames', k)
  BY MovedOwes DEF CountOwed
<1>5. /\ Ahead(lists[k], Update) \/ (k = l /\ Update \in F) =>
           ~lists'[k].alive \/ Ahead(lists'[k], Update) \/ Calls(k, Update, outer)
      /\ Ahead(lists'[k], Update) => Ahead(lists[k], Update) \/ (k = l /\ Update \in F)
      /\ Calls(k, Update, outer) => Ahead(lists[k], Update) \/ (k = l /\ Update \in F)
  BY MovedCalls
<1>6. /\ lists'[k].alive => lists[k].alive
      /\ lists[k].alive => lists'[k].alive \/ (op = "disable" /\ k = l)
      /\ lists[k].fired => lists'[k].fired
  BY MovedFates
<1>7. k = l /\ Update \in F => AddOwed(frames, k) /\ ~AddOwed(outer, k)
  OBVIOUS
<1>8. ~lists[k].fired => Awaited(lists, frames, k)
  BY DEF CountedOnce
<1>9. ASSUME Awaited(lists', frames', k) PROVE Awaited(lists, frames, k)
  BY <1>1, <1>2, <1>3, <1>5, <1>6, <1>7, <1>8, <1>9 DEF Awaited
<1>10. ASSUME <<k, Counts>> \notin T, Awaited(lists, frames, k) PROVE Awaited(lists', frames', k)
  BY <1>1, <1>2, <1>3, <1>4, <1>5, <1>6, <1>10 DEF Awaited
<1>11. AtMostOnce(lists'[k], Update)
  BY <1>7, MovedMembers DEF CountedOnce
<1>12. ASSUME AddOwed(frames', k) PROVE ~On(lists'[k], Update) /\ ~CountOwed(frames', k)
  <2>1. AddOwed(frames, k) /\ ~(k = l /\ Update \in F)
    BY <1>1, <1>2, <1>7, <1>12
  <2>2. ~On(lists[k], Update) /\ ~CountOwed(frames, k) /\ ~Ahead(lists[k], Update)
    BY <2>1, AheadIsOn DEF CountedOnce
  <2>. QED
    BY <1>2, <1>3, <1>5, <2>1, <2>2, MovedMembers
<1>13. ASSUME <<k, Counts>> \notin T \/ lists[k].fired, ~lists'[k].fired PROVE Awaited(lists', frames', k)
  BY <1>6, <1>8, <1>10, <1>13
<1>. QED
  BY <1>9, <1>10, <1>11, <1>12, <1>13 DEF CountedOnce

(* The subject whose update function counts is not awaited any more. *)
LEMMA CountedAtLast ==
  ASSUME ListsAndStackFit(lists, frames), frames # <<>>, NEW k \in SettlingIds, Top.on = k, Top.calls = Update,
         CountedOnce(lists, frames, k), CountOwed(frames, k),
         NEW outer, IsStack(outer, StackIds), ~CountOwed(outer, k), Leaves(outer, {<<k, Counts>>}),
         NEW op, NEW l, Moved(op, l, {}, outer), op # "disable",
         NEW h, HooksFit(h, lists', frames')
  PROVE  ~Awaited(lists', frames', k)
<1>1. PICK c, i : c = lists[k] /\ i = lists[k].index + 1
  OBVIOUS
<1>2. k \in ListIds /\ ListFits(k, c)
  BY <1>1, Ids DEF ListsAndStackFit
<1>3. c.firing /\ c.alive /\ i \in 1 .. Len(c.list) /\ c.list[i] = Update
  BY <1>1, <1>2, TopFits DEF ListFits, RunFits
<1>4. ~Ahead(c, Update)
  <2>. SUFFICES ASSUME NEW j \in 1 .. Len(c.list), c.list[j] = Update, j > i PROVE FALSE
    BY <1>1, <1>3 DEF Ahead
  <2>1. j = i
    BY <1>1, <1>3 DEF CountedOnce, AtMostOnce
  <2>. QED
    BY <2>1
<1>5. lists'[k].alive
  BY <1>1, <1>3, MovedFates
<1>6. ~Ahead(lists'[k], Update) /\ ~Calls(k, Update, outer)
  BY <1>1, <1>4, MovedCalls
<1>7. ~CountOwed(frames', k)
  BY <1>6, UpdateCounts
<1>8. ~AddOwed(frames', k)
  <2>1. AddOwed(frames', k) => AddOwed(frames, k)
    BY MovedLinks DEF AddOwed, Leaves
  <2>. QED
    BY <2>1 DEF CountedOnce
<1>. QED
  BY <1>5, <1>6, <1>7, <1>8 DEF Awaited

LEMMA NothingWaits ==
  ASSUME NEW h, TiesFit(h), NEW ls, NEW stack, Waits(h, ls, stack) = 0
  PROVE  \A d \in h.subjects : ~Awaited(ls, stack, <<d, "done">>)
<1>1. PICK a, b, c : /\ a = ("first" \in h.subjects /\ Awaited(ls, stack, <<"first", "done">>))
                     /\ b = ("second" \in h.subjects /\ Awaited(ls, stack, <<"second", "done">>))
                     /\ c = Owes(stack, None, Discounts)
  OBVIOUS
<1>2. One(a) + One(b) + One(c) = 0
  BY <1>1 DEF Waits
<1>3. One(a) \in {0, 1} /\ One(b) \in {0, 1} /\ One(c) \in {0, 1}
  BY DEF One
<1>4. One(a) = 0 /\ One(b) = 0
  BY <1>2, <1>3
<1>5. ~a /\ ~b
  BY <1>4 DEF One
<1>. QED
  BY <1>1, <1>5 DEF TiesFit

(* A list is fired for the reason the result hangs on it. *)
FiresFor(h, op, l, rest) ==
  op = "fire" =>
    /\ \A kind \in Outcomes : l = Result(kind) => h.link # "none"
    /\ \A kind \in Outcomes : h.link = "then" /\ l = Result(kind) =>
         lists[<<"first", kind>>].fired \/ (h.adopted /\ lists[<<"second", kind>>].fired)
    /\ h.link = "when" /\ l = Result("fail") => \E d \in h.subjects : lists[<<d, "fail">>].fired
    /\ h.link = "when" /\ l = Result("done") => rest = 0

LEMMA MovedWhen ==
  ASSUME NEW op, NEW l, NEW F, NEW outer, Moved(op, l, F, outer), IsStack(outer, StackIds),
         NEW T, Leaves(outer, T), Fulfils(T, op, l, F),
         NEW h, TiesFit(h), NEW old, NEW rest, WhenFits(h, lists, frames, old), h.link = "when",
         rest = Waits(h, lists', frames'), \A d \in h.subjects : CountedOnce(lists', frames', <<d, "done">>),
         FiresFor(h, op, l, rest),
         rest = 0 => \/ op = "fire" /\ l = Result("done")
                     \/ old = 0 /\ <<None, Decides>> \notin T
                     \/ Owes(outer, None, Decides)
  PROVE  WhenFits(h, lists', frames', rest)
<1>1. \A d \in h.subjects : <<d, "done">> \in SettlingIds /\ <<d, "fail">> \in SettlingIds
  BY LinkIds DEF TiesFit, Outcomes
<1>2. Result("fail") \in SettlingIds /\ Result("done") \in SettlingIds
  BY LinkIds DEF Outcomes
<1>3. ASSUME lists'[Result("fail")].fired PROVE \E d \in h.subjects : lists'[<<d, "fail">>].fired
  <2>1. lists[Result("fail")].fired \/ (op = "fire" /\ l = Result("fail"))
    BY <1>2, <1>3, MovedFates
  <2>2. PICK d \in h.subjects : lists[<<d, "fail">>].fired
    BY <2>1 DEF WhenFits, FiresFor
  <2>3. lists'[<<d, "fail">>].fired
    BY <1>1, <2>2, MovedFates
  <2>. QED
    BY <2>3
<1>4. ASSUME lists'[Result("done")].fired, NEW d \in h.subjects PROVE lists'[<<d, "done">>].fired
  <2>1. CASE lists[Result("done")].fired
    BY <1>1, <1>4, <2>1, MovedFates DEF WhenFits
  <2>2. CASE ~lists[Result("done")].fired
    <3>1. op = "fire" /\ l = Result("done")
      BY <1>2, <1>4, <2>2, MovedFates
    <3>2. rest = 0
      BY <3>1 DEF FiresFor
    <3>3. ~Awaited(lists', frames', <<d, "done">>)
      BY <3>2, NothingWaits
    <3>. QED
      BY <3>3 DEF CountedOnce
  <2>. QED
    BY <2>1, <2>2
<1>5. ASSUME NEW d \in h.subjects
      PROVE  Reaches(lists', frames', <<d, "fail">>, Settles(Result("fail")), Result("fail"))
  BY <1>1, <1>2, HooksFire, MovedHook DEF WhenFits
<1>6. ASSUME rest = 0
      PROVE  lists'[Result("done")].fired \/ ~lists'[Result("done")].alive \/ Owes(frames', None, Decides)
  <2>1. CASE op = "fire" /\ l = Result("done")
    BY <1>2, <2>1 DEF Moved, Lives
  <2>2. CASE Owes(outer, None, Decides)
    BY <2>2, MovedLinks
  <2>3. CASE old = 0 /\ <<None, Decides>> \notin T
    <3>1. Owes(frames, None, Decides) => Owes(outer, None, Decides)
      BY <2>3 DEF Leaves
    <3>. QED
      BY <1>2, <2>3, <3>1, MovedFates, MovedLinks DEF WhenFits
  <2>. QED
    BY <1>6, <2>1, <2>2, <2>3
<1>. QED
  BY <1>3, <1>4, <1>5, <1>6 DEF WhenFits

(* A hook is added that is owed, and a list disabled whose opposite won. *)
Orderly(op, l, F, outer) ==
  /\ Update \in F => AddOwed(frames, l) /\ ~AddOwed(outer, l)
  /\ op = "disable" => l \in SettlingIds /\ ~lists[l].fired /\ lists[Opposite(l)].fired

(* An operation that counts nothing. *)
LEMMA MovedCounts ==
  ASSUME NEW op, NEW l, NEW F, NEW outer, Moved(op, l, F, outer), IsStack(outer, StackIds),
         NEW T, Leaves(outer, T), Fulfils(T, op, l, F), Orderly(op, l, F, outer),
         NEW h, HooksFit(h, lists', frames'), TiesFit(h), h.link = "when",
         \A d \in h.subjects : CountedOnce(lists, frames, <<d, "done">>),
         \A on, s : <<on, s>> \in T => s.op \notin {"count", "discount"}
  PROVE  /\ Waits(h, lists', frames') = Waits(h, lists, frames)
         /\ \A d \in h.subjects : CountedOnce(lists', frames', <<d, "done">>)
<1>1. ASSUME NEW d \in h.subjects
      PROVE  /\ Awaited(lists', frames', <<d, "done">>) <=> Awaited(lists, frames, <<d, "done">>)
             /\ CountedOnce(lists', frames', <<d, "done">>)
  <2>1. PICK k : k = <<d, "done">>
    OBVIOUS
  <2>2. k \in SettlingIds /\ CountedOnce(lists, frames, k)
    BY <2>1, LinkIds DEF TiesFit, Outcomes
  <2>3. <<k, Counts>> \notin T
    BY StepsTell
  <2>. QED
    BY <2>1, <2>2, <2>3, MovedAwaits DEF Orderly
<1>2. Owes(frames', None, Discounts) <=> Owes(frames, None, Discounts)
  <2>1. <<None, Discounts>> \notin T
    BY StepsTell
  <2>2. Owes(outer, None, Discounts) <=> Owes(frames, None, Discounts)
    BY <2>1 DEF Leaves
  <2>. QED
    BY <2>2, MovedLinks
<1>. QED
  BY <1>1, <1>2 DEF Waits, One

LEMMA MovedLinksFit ==
  ASSUME ListsAndStackFit(lists', frames'), NEW h, TiesFit(h), LinksFit(h, lists, frames, remaining),
         NEW op, NEW l, NEW F, NEW outer, Moved(op, l, F, outer), IsStack(outer, StackIds),
         HooksFit(h, lists, outer), F \subseteq HookSet(h, l),
         NEW T, Leaves(outer, T), Fulfils(T, op, l, F), Orderly(op, l, F, outer),
         \A on, s : <<on, s>> \in T => s.op \notin {"count", "discount"},
         h.link = "when" /\ <<None, Decides>> \in T /\ remaining = 0 => op = "fire" /\ l = Result("done"),
         FiresFor(h, op, l, remaining)
  PROVE  LinksFit(h, lists', frames', remaining)
<1>1. HooksFit(h, lists', frames')
  BY MovedHooks DEF LinksFit
<1>2. DeathFits(lists')
  BY MovedDeath DEF LinksFit, Orderly
<1>3. ThenFits(h, lists', frames')
  BY MovedThen DEF LinksFit, FiresFor
<1>6. FreshFits(h, lists')
  BY LinkIds, MovedFates DEF LinksFit, FiresFor, FreshFits
<1>4. ASSUME h.link = "when" PROVE WhenFits(h, lists', frames', remaining)
  <2>1. /\ WhenFits(h, lists, frames, remaining) /\ remaining = Waits(h, lists, frames)
        /\ \A d \in h.subjects : CountedOnce(lists, frames, <<d, "done">>)
    BY <1>4 DEF LinksFit, WhenFits
  <2>2. /\ Waits(h, lists', frames') = Waits(h, lists, frames)
        /\ \A d \in h.subjects : CountedOnce(lists', frames', <<d, "done">>)
    BY <1>1, <1>4, <2>1, MovedCounts
  <2>. QED
    BY <1>4, <2>1, <2>2, MovedWhen
<1>5. WhenFits(h, lists', frames', remaining)
  BY <1>4 DEF WhenFits
<1>. QED
  BY <1>1, <1>2, <1>3, <1>6, <1>5 DEF LinksFit

(***************************************************************************)
(* The steps of then, of when, and of their callbacks                      *)
(***************************************************************************)
LEMMA TakenLeaves ==
  ASSUME ListsAndStackFit(lists, frames), frames # <<>>, Top.steps # <<>>
  PROVE  Leaves(Rest, {<<Top.on, NextStep>>}) /\ IsStack(Rest, StackIds) /\ Owes(frames, Top.on, NextStep)
<1>1. \A on, s : /\ Owes(Rest, on, s) => Owes(frames, on, s)
                 /\ Owes(frames, on, s) => Owes(Rest, on, s) \/ (on = Top.on /\ s = NextStep)
  BY OwesWhenTaken
<1>2. ListsAndStackFit(lists, Rest) /\ Owes(frames, Top.on, NextStep)
  BY TakesOneStep, OwesWhenTaken
<1>. QED
  BY <1>1, <1>2 DEF Leaves, ListsAndStackFit, FiringFits

LEMMA ReturnLeaves ==
  ASSUME ListsAndStackFit(lists, frames), frames # <<>>, Top.steps = <<>>, NEW h, HooksFit(h, lists, frames)
  PROVE  /\ Leaves(Tail(frames), {}) /\ IsStack(Tail(frames), StackIds)
         /\ HooksFit(h, lists, Tail(frames))
<1>1. PICK t : t = Tail(frames)
  OBVIOUS
<1>2. Leaves(t, {})
  BY <1>1, OwesWhenReturned DEF Leaves
<1>3. IsStack(t, StackIds) /\ \A i \in 1 .. Len(t) : t[i] = frames[i + 1] /\ i + 1 \in 1 .. Len(frames)
  BY <1>1, RestOfTheStack
<1>4. ASSUME NEW i \in 1 .. Len(t), NEW j \in 1 .. Len(t), t[i].on = None, t[j].on = None PROVE i = j
  <2>1. i + 1 = j + 1
    BY <1>3, <1>4 DEF HooksFit
  <2>. QED
    BY <2>1
<1>5. HooksFit(h, lists, t)
  BY <1>3, <1>4 DEF HooksFit
<1>. QED
  BY <1>1, <1>2, <1>3, <1>5

LEMMA CallLeaves == Leaves(frames, {})
BY DEF Leaves

LEMMA MovedCount ==
  ASSUME ListsAndStackFit(lists, frames), ListsAndStackFit(lists', frames'), frames # <<>>, Top.steps # <<>>,
         NextStep.op = "count", NEW h, TiesFit(h), LinksFit(h, lists, frames, remaining),
         NEW op, NEW l, Moved(op, l, {}, Rest), op \in {"none", "fire"},
         op = "fire" => l = Result("done") /\ remaining = 1, remaining = 1 => op = "fire"
  PROVE  LinksFit(h, lists', frames', remaining - 1)
<1>1. PICK outer, k, T : outer = Rest /\ k = Top.on /\ T = {<<Top.on, NextStep>>}
  OBVIOUS
<1>2. /\ Leaves(outer, T) /\ IsStack(outer, StackIds) /\ HooksFit(h, lists, outer)
      /\ StepOf(h, Top, NextStep) /\ Owes(frames, k, NextStep)
      /\ Top.calls = Update => ~Owes(outer, k, NextStep)
  BY <1>1, TakenLeaves, RestKeepsHooks DEF LinksFit
<1>3. PICK d : d = k[1]
  OBVIOUS
<1>4. /\ h.link = "when" /\ d \in h.subjects /\ k = <<d, "done">> /\ NextStep = Counts
      /\ Top.calls = Update /\ T = {<<k, Counts>>} /\ k \in ListIds
  BY <1>1, <1>2, <1>3 DEF StepOf, ListIds
<1>5. Fulfils(T, op, l, {})
  <2>1. \A on, s : <<on, s>> \in T => s.op = "count"
    BY <1>4, StepsTell
  <2>. QED
    BY <2>1 DEF Fulfils
<1>6. k \in SettlingIds /\ lists[k].fired
  <2>1. k \in SettlingIds
    BY <1>4, LinkIds DEF TiesFit, Outcomes
  <2>2. lists[k].firing /\ ListFits(k, lists[k])
    BY <1>1, <1>4, TopFits DEF ListsAndStackFit
  <2>. QED
    BY <2>1, <2>2 DEF ListFits, RunFits
<1>7. HooksFit(h, lists', frames')
  BY <1>1, <1>2, MovedHooks
<1>8. ASSUME NEW e \in h.subjects
      PROVE  /\ CountedOnce(lists', frames', <<e, "done">>)
             /\ e # d => (Awaited(lists', frames', <<e, "done">>) <=> Awaited(lists, frames, <<e, "done">>))
  <2>1. PICK m : m = <<e, "done">>
    OBVIOUS
  <2>2. m \in SettlingIds /\ CountedOnce(lists, frames, m)
    BY <1>4, <2>1, LinkIds DEF TiesFit, Outcomes, LinksFit, WhenFits
  <2>3. e # d => <<m, Counts>> \notin T
    BY <1>4, <2>1
  <2>4. e = d => lists[m].fired
    BY <1>4, <1>6, <2>1
  <2>5. /\ Awaited(lists', frames', m) => Awaited(lists, frames, m)
        /\ <<m, Counts>> \notin T /\ Awaited(lists, frames, m) => Awaited(lists', frames', m)
        /\ <<m, Counts>> \notin T \/ lists[m].fired => CountedOnce(lists', frames', m)
    <3>1. Moved(op, l, {}, outer) /\ op # "disable" /\ Update \notin {}
      BY <1>1
    <3>. QED
      BY <1>2, <1>5, <1>7, <2>2, <3>1, MovedAwaits
  <2>. QED
    BY <2>1, <2>3, <2>4, <2>5
<1>9. Awaited(lists, frames, k) /\ ~Awaited(lists', frames', k)
  <2>1. CountedOnce(lists, frames, k)
    BY <1>4 DEF LinksFit, WhenFits
  <2>2. CountOwed(frames, k) /\ ~CountOwed(outer, k)
    BY <1>2, <1>4 DEF CountOwed
  <2>. QED
    BY <1>1, <1>2, <1>4, <1>6, <1>7, <2>1, <2>2, CountedAtLast DEF Awaited
<1>10. Owes(frames', None, Discounts) <=> Owes(frames, None, Discounts)
  <2>1. <<None, Discounts>> \notin T
    BY <1>4, StepsTell
  <2>2. Owes(outer, None, Discounts) <=> Owes(frames, None, Discounts)
    BY <1>2, <2>1 DEF Leaves
  <2>. QED
    BY <1>1, <1>2, <2>2, MovedLinks
<1>11. Waits(h, lists', frames') = remaining - 1
  <2>1. PICK a, b, c, i, j :
               /\ a = ("first" \in h.subjects /\ Awaited(lists, frames, <<"first", "done">>))
               /\ b = ("second" \in h.subjects /\ Awaited(lists, frames, <<"second", "done">>))
               /\ c = Owes(frames, None, Discounts)
               /\ i = ("first" \in h.subjects /\ Awaited(lists', frames', <<"first", "done">>))
               /\ j = ("second" \in h.subjects /\ Awaited(lists', frames', <<"second", "done">>))
    OBVIOUS
  <2>2. remaining = One(a) + One(b) + One(c) /\ Waits(h, lists', frames') = One(i) + One(j) + One(c)
    <3>1. PICK e : e = Owes(frames', None, Discounts)
      OBVIOUS
    <3>2. One(c) = One(e)
      BY <1>10, <2>1, <3>1 DEF One
    <3>3. remaining = One(a) + One(b) + One(c) /\ Waits(h, lists', frames') = One(i) + One(j) + One(e)
      BY <1>4, <2>1, <3>1 DEF LinksFit, WhenFits, Waits
    <3>. QED
      BY <3>2, <3>3
  <2>3. d \in {"first", "second"}
    BY <1>4 DEF TiesFit
  <2>4. (a /\ ~i /\ (b <=> j)) \/ (b /\ ~j /\ (a <=> i))
    BY <1>4, <1>8, <1>9, <2>1, <2>3
  <2>5. (One(a) = 1 /\ One(i) = 0 /\ One(b) = One(j)) \/ (One(b) = 1 /\ One(j) = 0 /\ One(a) = One(i))
    BY <2>4 DEF One
  <2>6. \A p : One(p) \in {0, 1}
    BY DEF One
  <2>. QED
    BY <2>2, <2>5, <2>6
<1>12. remaining \in Int
  <2>1. \A p : One(p) \in {0, 1}
    BY DEF One
  <2>. QED
    BY <1>4, <2>1 DEF LinksFit, WhenFits, Waits
<1>13. PICK rest : rest = remaining - 1 /\ (rest = 0 => remaining = 1)
  BY <1>12
<1>14. FiresFor(h, op, l, rest)
  <2>1. Result("done") # Result("fail")
    BY LinkIds
  <2>2. op = "fire" => rest = 0
    BY <1>13
  <2>. QED
    BY <1>4, <2>1, <2>2 DEF FiresFor
<1>15. WhenFits(h, lists', frames', rest)
  <2>1. WhenFits(h, lists, frames, remaining)
    BY DEF LinksFit
  <2>. QED
    BY <1>1, <1>2, <1>4, <1>5, <1>8, <1>11, <1>13, <1>14, <2>1, MovedWhen
<1>. QED
  BY <1>4, <1>7, <1>13, <1>14, <1>15, MovedDeath DEF LinksFit, ThenFits, FreshFits

LEMMA MovedDiscount ==
  ASSUME ListsAndStackFit(lists, frames), ListsAndStackFit(lists', frames'), frames # <<>>, Top.steps # <<>>,
         NextStep.op = "discount", NEW h, TiesFit(h), LinksFit(h, lists, frames, remaining),
         lists' = lists, frames' = Rest
  PROVE  LinksFit(h, lists', frames', remaining - 1)
<1>1. PICK outer, T, l : outer = Rest /\ T = {<<Top.on, NextStep>>} /\ l = Result("done")
  OBVIOUS
<1>2. /\ Leaves(outer, T) /\ IsStack(outer, StackIds) /\ HooksFit(h, lists, outer)
      /\ StepOf(h, Top, NextStep) /\ Owes(frames, Top.on, NextStep)
      /\ Top.on = None => ~Owes(outer, Top.on, NextStep)
      /\ Top.on = None /\ h.link = "when" /\ NextStep # Decides => Owes(outer, None, Decides)
  BY <1>1, TakenLeaves, RestKeepsHooks DEF LinksFit
<1>3. /\ h.link = "when" /\ Top.on = None /\ NextStep = Discounts
      /\ Owes(frames, None, Discounts) /\ ~Owes(outer, None, Discounts) /\ Owes(outer, None, Decides)
  BY <1>2, StepsTell DEF StepOf
<1>4. Moved("none", l, {}, outer)
  BY <1>1, LinkIds, StillMoves
<1>5. \A on, s : <<on, s>> \in T => s.op = "discount"
  BY <1>1
<1>6. Fulfils(T, "none", l, {})
  BY <1>5 DEF Fulfils
<1>7. HooksFit(h, lists', frames')
  BY <1>1, <1>2
<1>8. ASSUME NEW e \in h.subjects
      PROVE  /\ CountedOnce(lists', frames', <<e, "done">>)
             /\ Awaited(lists', frames', <<e, "done">>) <=> Awaited(lists, frames, <<e, "done">>)
  <2>1. PICK m : m = <<e, "done">>
    OBVIOUS
  <2>2. m \in SettlingIds /\ CountedOnce(lists, frames, m)
    BY <1>3, <2>1, LinkIds DEF TiesFit, Outcomes, LinksFit, WhenFits
  <2>3. <<m, Counts>> \notin T
    BY <1>5, StepsTell
  <2>. QED
    BY <1>2, <1>4, <1>6, <1>7, <2>1, <2>2, <2>3, MovedAwaits
<1>9. Waits(h, lists', frames') = remaining - 1
  <2>1. PICK a, b, c, e :
               /\ a = ("first" \in h.subjects /\ Awaited(lists, frames, <<"first", "done">>))
               /\ b = ("second" \in h.subjects /\ Awaited(lists, frames, <<"second", "done">>))
               /\ c = Owes(frames, None, Discounts) /\ e = Owes(frames', None, Discounts)
    OBVIOUS
  <2>2. remaining = One(a) + One(b) + One(c) /\ Waits(h, lists', frames') = One(a) + One(b) + One(e)
    BY <1>3, <1>8, <2>1 DEF LinksFit, WhenFits, Waits
  <2>3. One(c) = 1 /\ One(e) = 0
    BY <1>1, <1>3, <2>1 DEF One
  <2>4. \A p : One(p) \in {0, 1}
    BY DEF One
  <2>. QED
    BY <2>2, <2>3, <2>4
<1>10. PICK rest : rest = remaining - 1
  OBVIOUS
<1>11. FiresFor(h, "none", l, rest)
  BY DEF FiresFor
<1>12. WhenFits(h, lists', frames', rest)
  <2>1. WhenFits(h, lists, frames, remaining)
    BY DEF LinksFit
  <2>. QED
    BY <1>2, <1>3, <1>4, <1>6, <1>8, <1>9, <1>10, <1>11, <2>1, MovedWhen
<1>. QED
  BY <1>3, <1>7, <1>10, <1>12 DEF LinksFit, ThenFits, FreshFits

LEMMA MovedTaken ==
  ASSUME ListsAndStackFit(lists, frames), ListsAndStackFit(lists', frames'), frames # <<>>, Top.steps # <<>>,
         NextStep.op \notin {"count", "discount"}, NEW h, TiesFit(h), LinksFit(h, lists, frames, remaining),
         NEW op, NEW l, NEW F, Moved(op, l, F, Rest), F \subseteq HookSet(h, l),
         NextStep.op = "add" => NextStep.on = l /\ NextStep.callback \in F,
         NextStep.op = "fire" => op = "fire" /\ NextStep.on = l,
         h.link = "when" /\ NextStep = Decides /\ remaining = 0 => op = "fire" /\ l = Result("done"),
         Orderly(op, l, F, Rest), FiresFor(h, op, l, remaining)
  PROVE  LinksFit(h, lists', frames', remaining)
<1>1. PICK outer, T : outer = Rest /\ T = {<<Top.on, NextStep>>}
  OBVIOUS
<1>2. Leaves(outer, T) /\ IsStack(outer, StackIds) /\ HooksFit(h, lists, outer)
  BY <1>1, TakenLeaves, RestKeepsHooks DEF LinksFit
<1>3. \A on, s : <<on, s>> \in T => s = NextStep
  BY <1>1
<1>4. Fulfils(T, op, l, F) /\ \A on, s : <<on, s>> \in T => s.op \notin {"count", "discount"}
  BY <1>3 DEF Fulfils
<1>5. h.link = "when" /\ <<None, Decides>> \in T /\ remaining = 0 => op = "fire" /\ l = Result("done")
  BY <1>3
<1>6. Moved(op, l, F, outer) /\ Orderly(op, l, F, outer)
  BY <1>1
<1>. QED
  BY <1>2, <1>4, <1>5, <1>6, MovedLinksFit

(* One that does no more than move on. *)
LEMMA StillTaken ==
  ASSUME ListsAndStackFit(lists, frames), ListsAndStackFit(lists', frames'), frames # <<>>, Top.steps # <<>>,
         NextStep.op \notin {"count", "discount", "add", "fire"},
         NEW h, TiesFit(h), LinksFit(h, lists, frames, remaining), lists' = lists, frames' = Rest,
         NextStep = Decides => remaining # 0
  PROVE  LinksFit(h, lists', frames', remaining)
<1>1. PICK l : l = Result("done")
  OBVIOUS
<1>2. Moved("none", l, {}, Rest)
  BY <1>1, LinkIds, StillMoves
<1>3. Orderly("none", l, {}, Rest) /\ FiresFor(h, "none", l, remaining) /\ {} \subseteq HookSet(h, l)
  BY DEF Orderly, FiresFor
<1>. QED
  BY <1>2, <1>3, MovedTaken

(* One that fires a list. *)
LEMMA FireLinks ==
  ASSUME ListsAndStackFit(lists, frames), ListsAndStackFit(lists', frames'), frames # <<>>, Top.steps # <<>>,
         NextStep.op \in {"fire", "ifNone"}, FireWith(NextStep.on, Rest), NextStep.op = "ifNone" => remaining = 0,
         NEW h, TiesFit(h), LinksFit(h, lists, frames, remaining)
  PROVE  LinksFit(h, lists', frames', remaining)
<1>1. PICK l : l = NextStep.on
  OBVIOUS
<1>2. /\ StepOf(h, Top, NextStep) /\ ListsAndStackFit(lists, Rest) /\ l \in ListIds
  BY <1>1, RestKeepsHooks, TakesOneStep, StepsAre DEF LinksFit
<1>3. Moved("fire", l, {}, Rest)
  BY <1>1, <1>2, FireMoves
<1>4. CASE NextStep.op = "fire"
  <2>1. PICK k : k = Top.on
    OBVIOUS
  <2>2. k \in ListIds /\ l = Result(k[2]) /\ Settling(h, k)
    BY <1>1, <1>2, <1>4, <2>1, StepsTell DEF StepOf
  <2>3. lists[k].fired /\ k = <<k[1], k[2]>>
    <3>1. lists[k].firing /\ ListFits(k, lists[k])
      BY <2>1, <2>2, TopFits DEF ListsAndStackFit
    <3>. QED
      BY <2>2, <3>1 DEF ListFits, RunFits, ListIds
  <2>4. \A kind : l = Result(kind) => kind = k[2]
    BY <2>2, LinkIds
  <2>5. FiresFor(h, "fire", l, remaining)
    BY <2>2, <2>3, <2>4 DEF FiresFor, Settling
  <2>6. NextStep # Decides
    BY <1>4, StepsTell
  <2>7. Orderly("fire", l, {}, Rest) /\ {} \subseteq HookSet(h, l)
    BY DEF Orderly
  <2>. QED
    BY <1>1, <1>3, <1>4, <2>5, <2>6, <2>7, MovedTaken
<1>5. CASE NextStep.op = "ifNone"
  <2>1. h.link = "when" /\ l = Result("done") /\ remaining = 0
    <3>1. NextStep = Decides /\ h.link = "when"
      BY <1>2, <1>5 DEF StepOf
    <3>. QED
      BY <1>1, <1>5, <3>1 DEF Decides, Step
  <2>2. FiresFor(h, "fire", l, remaining)
    <3>1. Result("done") # Result("fail")
      BY LinkIds
    <3>. QED
      BY <2>1, <3>1 DEF FiresFor
  <2>3. Orderly("fire", l, {}, Rest) /\ {} \subseteq HookSet(h, l)
    BY DEF Orderly
  <2>. QED
    BY <1>3, <1>5, <2>1, <2>2, <2>3, MovedTaken
<1>. QED
  BY <1>4, <1>5

LEMMA AddSteps == \A s \in AllSteps : s.op = "add" => s = AddStep(s.on, s.callback)
BY DEF AllSteps, AddStep, Step, PlainOps

LEMMA AddLinks ==
  ASSUME ListsAndStackFit(lists, frames), ListsAndStackFit(lists', frames'), AddTaken,
         NEW h, TiesFit(h), LinksFit(h, lists, frames, remaining)
  PROVE  LinksFit(h, lists', frames', remaining)
<1>1. frames # <<>> /\ Top.steps # <<>> /\ NextStep.op = "add" /\ Add(NextStep.on, NextStep.callback, Rest)
  BY DEF AddTaken, Takes
<1>2. PICK l, f : l = NextStep.on /\ f = NextStep.callback
  OBVIOUS
<1>3. /\ StepOf(h, Top, NextStep) /\ ListsAndStackFit(lists, Rest)
      /\ NextStep \in AllSteps /\ StepFits(Top.on, NextStep)
      /\ Top.on = None => ~Owes(Rest, Top.on, NextStep)
      /\ Owes(frames, Top.on, NextStep)
  BY <1>1, RestKeepsHooks, TakesOneStep, TakesAStep, TakenLeaves DEF LinksFit
<1>4. l \in ListIds /\ f \in JQuerys /\ f \in Late /\ NextStep = AddStep(l, f)
  BY <1>1, <1>2, <1>3, StepsAre, AddSteps DEF StepFits, Late
<1>5. Hooked(h, l, f) /\ (f = Update => Top.on = None)
  BY <1>1, <1>2, <1>3 DEF StepOf
<1>6. Moved("add", l, {f}, Rest)
  BY <1>1, <1>2, <1>3, <1>4, AddMoves
<1>7. {f} \subseteq HookSet(h, l)
  BY <1>4, <1>5 DEF HookSet
<1>8. Orderly("add", l, {f}, Rest)
  BY <1>3, <1>4, <1>5 DEF Orderly, AddOwed
<1>9. FiresFor(h, "add", l, remaining) /\ NextStep # Decides
  BY <1>1, StepsTell DEF FiresFor
<1>. QED
  BY <1>1, <1>2, <1>6, <1>7, <1>8, <1>9, MovedTaken

LEMMA DisableLinks ==
  ASSUME ListsAndStackFit(lists, frames), ExclusiveFits(lists, frames), ListsAndStackFit(lists', frames'), DisableTaken,
         NEW h, TiesFit(h), LinksFit(h, lists, frames, remaining)
  PROVE  LinksFit(h, lists', frames', remaining)
<1>1. frames # <<>> /\ Top.steps # <<>> /\ NextStep.op = "disable" /\ Disable(NextStep.on, Rest)
  BY DEF DisableTaken, Takes
<1>2. PICK k, l : k = Top.on /\ l = NextStep.on
  OBVIOUS
<1>3. StepFits(k, NextStep) /\ ListsAndStackFit(lists, Rest)
  BY <1>1, <1>2, TakesAStep
<1>4. /\ k \in SettlingIds /\ k \in ListIds /\ l = Opposite(k)
      /\ l \in SettlingIds /\ Opposite(l) = k
  BY <1>1, <1>2, <1>3, Ids DEF StepFits
<1>5. lists[k].fired
  <2>1. lists[k].firing /\ ListFits(k, lists[k])
    BY <1>1, <1>2, <1>4, TopFits DEF ListsAndStackFit
  <2>. QED
    BY <2>1 DEF ListFits, RunFits
<1>6. ~lists[l].fired
  BY <1>4, <1>5 DEF ExclusiveFits
<1>7. Moved("disable", l, {}, Rest)
  BY <1>1, <1>2, <1>3, <1>4, <1>6, DisableMoves
<1>8. Orderly("disable", l, {}, Rest) /\ FiresFor(h, "disable", l, remaining) /\ {} \subseteq HookSet(h, l)
  BY <1>4, <1>5, <1>6 DEF Orderly, FiresFor
<1>9. NextStep # Decides
  BY <1>1, StepsTell
<1>. QED
  BY <1>1, <1>7, <1>8, <1>9, MovedTaken

LEMMA LockLinks ==
  ASSUME ListsAndStackFit(lists, frames), ListsAndStackFit(lists', frames'), LockTaken,
         NEW h, TiesFit(h), LinksFit(h, lists, frames, remaining)
  PROVE  LinksFit(h, lists', frames', remaining)
<1>1. frames # <<>> /\ Top.steps # <<>> /\ NextStep.op = "lock" /\ Lock(NextStep.on, Rest)
  BY DEF LockTaken, Takes
<1>2. PICK l : l = NextStep.on
  OBVIOUS
<1>3. StepFits(Top.on, NextStep) /\ ListsAndStackFit(lists, Rest)
  BY <1>1, TakesAStep
<1>4. Moved("lock", l, {}, Rest)
  BY <1>1, <1>2, <1>3, LockMoves DEF StepFits
<1>5. Orderly("lock", l, {}, Rest) /\ FiresFor(h, "lock", l, remaining) /\ {} \subseteq HookSet(h, l)
  BY DEF Orderly, FiresFor
<1>6. NextStep # Decides
  BY <1>1, StepsTell
<1>. QED
  BY <1>1, <1>4, <1>5, <1>6, MovedTaken

LEMMA CountLinks ==
  ASSUME ListsAndStackFit(lists, frames), ListsAndStackFit(lists', frames'), CountTaken,
         NEW h, TiesFit(h), LinksFit(h, lists, frames, remaining)
  PROVE  LinksFit(h, lists', frames', remaining')
<1>1. /\ frames # <<>> /\ Top.steps # <<>> /\ NextStep.op = "count" /\ remaining' = remaining - 1
      /\ IF remaining = 1 THEN FireWith(NextStep.on, Rest) ELSE frames' = Rest /\ lists' = lists
  BY DEF CountTaken, Takes
<1>2. PICK l : l = Result("done") /\ l \in ListIds
  BY LinkIds
<1>3. NextStep.on = l /\ ListsAndStackFit(lists, Rest)
  <2>1. StepOf(h, Top, NextStep) /\ ListsAndStackFit(lists, Rest)
    BY <1>1, RestKeepsHooks, TakesOneStep DEF LinksFit
  <2>. QED
    BY <1>1, <1>2, <2>1, StepsTell DEF StepOf
<1>4. CASE remaining = 1
  <2>1. Moved("fire", l, {}, Rest)
    BY <1>1, <1>2, <1>3, <1>4, FireMoves
  <2>. QED
    BY <1>1, <1>2, <1>4, <2>1, MovedCount
<1>5. CASE remaining # 1
  <2>1. Moved("none", l, {}, Rest)
    BY <1>1, <1>2, <1>5, StillMoves
  <2>. QED
    BY <1>1, <1>5, <2>1, MovedCount
<1>. QED
  BY <1>4, <1>5

(* The callback of then has returned the promise of second. *)
Adopts(h, e) == h.link = "then" /\ e.link = "then" /\ e.adopted /\ e.subjects = h.subjects

LEMMA AdoptedHooks ==
  ASSUME NEW h, NEW e, Adopts(h, e)
  PROVE  /\ \A l, f : Hooked(h, l, f) => Hooked(e, l, f)
         /\ \A l : HookSet(h, l) \subseteq HookSet(e, l)
         /\ \A x : CallFits(h, x) => CallFits(e, x)
<1>1. \A l, f : Hooked(h, l, f) => Hooked(e, l, f)
  BY DEF Adopts, Hooked
<1>2. \A x, s : StepOf(h, x, s) => StepOf(e, x, s)
  BY <1>1 DEF Adopts, StepOf, Settling
<1>3. ASSUME NEW x, CallFits(h, x) PROVE CallFits(e, x)
  BY <1>2, <1>3 DEF CallFits, Adopts
<1>. QED
  BY <1>1, <1>3 DEF HookSet

Adopting == [i \in 1 .. 3 |-> AddStep(<<"second", Kinds[i]>>, Settles(<<"result", Kinds[i]>>))]

LEMMA AdoptingSteps ==
  /\ Adopting \in Seq(AllSteps) /\ Len(Adopting) = 3 /\ StepsDiffer(Adopting)
  /\ \A on : \A i \in 1 .. 3 : StepFits(on, Adopting[i])
  /\ \A i \in 1 .. 3 : Adopting[i] = AddStep(<<"second", Kinds[i]>>, Settles(Result(Kinds[i])))
  /\ \A kind \in Outcomes : \E i \in 1 .. 3 : Adopting[i] = AddStep(<<"second", kind>>, Settles(Result(kind)))
<1>1. PICK steps : steps = Adopting
  OBVIOUS
<1>2. \A i \in 1 .. 3 : steps[i] = AddStep(<<"second", Kinds[i]>>, Settles(Result(Kinds[i])))
  BY <1>1 DEF Adopting, Result
<1>3. ASSUME NEW on, NEW i \in 1 .. 3 PROVE steps[i] \in AllSteps /\ StepFits(on, steps[i])
  <2>1. /\ <<"second", Kinds[i]>> \in ListIds /\ Result(Kinds[i]) \in ListIds
    BY KindsAre DEF Deferreds, Result
  <2>2. Settles(Result(Kinds[i])) \in JQuerys
    BY <2>1, JQueryCallbacks
  <2>. QED
    BY <1>2, <2>1, <2>2, AddStepFits
<1>4. steps \in Seq(AllSteps) /\ Len(steps) = 3
  <2>1. DOMAIN steps = 1 .. 3 /\ steps = [i \in 1 .. 3 |-> steps[i]]
    BY <1>1 DEF Adopting
  <2>. QED
    BY <1>3, <2>1
<1>5. StepsDiffer(steps)
  <2>1. ASSUME NEW i \in 1 .. 3, NEW j \in 1 .. 3, steps[i] = steps[j] PROVE i = j
    <3>1. steps[i].on = <<"second", Kinds[i]>> /\ steps[j].on = <<"second", Kinds[j]>>
      BY <1>2, StepsTell
    <3>2. Kinds[i] = Kinds[j]
      BY <2>1, <3>1
    <3>. QED
      BY <3>2 DEF Kinds
  <2>. QED
    BY <1>4, <2>1 DEF StepsDiffer
<1>6. ASSUME NEW kind \in Outcomes
      PROVE  \E i \in 1 .. 3 : steps[i] = AddStep(<<"second", kind>>, Settles(Result(kind)))
  <2>1. PICK i \in 1 .. 3 : Kinds[i] = kind
    <3>1. Kinds[1] = "done" /\ Kinds[2] = "fail" /\ 1 \in 1 .. 3 /\ 2 \in 1 .. 3
      BY DEF Kinds
    <3>. QED
      BY <3>1 DEF Outcomes
  <2>. QED
    BY <1>2, <2>1
<1>. QED
  BY <1>1, <1>2, <1>3, <1>4, <1>5, <1>6

LEMMA AdoptLinks ==
  ASSUME ListsAndStackFit(lists, frames), frames # <<>>, Top.steps # <<>>, NextStep.op = "apply",
         NEW h, NEW e, TiesFit(h), LinksFit(h, lists, frames, remaining),
         e.link = h.link, e.adopted, e.subjects = h.subjects,
         NEW x, x = [Top EXCEPT !.steps = Adopting],
         NEW stack, stack = <<x>> \o Tail(frames)
  PROVE  LinksFit(e, lists, stack, remaining)
<1>1. /\ Top = frames[1] /\ DOMAIN Top = {"on", "calls", "steps"}
      /\ Top.calls.name \notin {"setState", "disable"} /\ ~IsPage(Top.calls)
      /\ StepOf(h, Top, NextStep)
  BY CalmRest, TopFits, RestKeepsHooks DEF LinksFit
<1>2. Adopts(h, e) /\ Top.on \in ListIds
  BY <1>1 DEF StepOf, Adopts
<1>3. DOMAIN x = {"on", "calls", "steps"} /\ x.on = Top.on /\ x.calls = Top.calls /\ x.steps = Adopting
  BY <1>1
<1>4. StepsFit(x)
  BY <1>1, <1>3, AdoptingSteps DEF StepsFit
<1>5. Restepped(stack, x)
  BY <1>3, <1>4, RestepFits
<1>6. /\ Len(frames) \in Nat \ {0} /\ Len(stack) = Len(frames) /\ stack[1] = x
      /\ \A i \in 1 .. Len(frames) : i = 1 \/ stack[i] = frames[i]
      /\ 1 \in 1 .. Len(frames)
  BY <1>5 DEF Restepped
<1>7. CallFits(e, x)
  <2>1. ASSUME NEW i \in 1 .. 3 PROVE StepOf(e, x, Adopting[i])
    <3>1. PICK kind, s, f, l : /\ kind = Kinds[i] /\ s = Adopting[i] /\ f = Settles(Result(kind)) /\ l = <<"second", kind>>
      OBVIOUS
    <3>2. s.op = "add" /\ s.on = l /\ s.callback = f
      BY <3>1, AdoptingSteps, StepsTell
    <3>3. Hooked(e, l, f)
      <4>1. l[1] = "second" /\ l[2] = kind
        BY <3>1
      <4>. QED
        BY <1>2, <3>1, <4>1 DEF Hooked, Adopts
    <3>4. f # Update
      BY <3>1, CallbackNames
    <3>5. StepOf(e, x, s)
      BY <3>2, <3>3, <3>4 DEF StepOf
    <3>. QED
      BY <3>1, <3>5
  <2>2. x.on # None
    BY <1>2, <1>3, Ids
  <2>. QED
    BY <1>3, <2>1, <2>2, AdoptingSteps DEF CallFits
<1>8. HooksFit(e, lists, stack)
  <2>1. \A i \in 1 .. Len(frames) : stack[i].on = frames[i].on
    BY <1>1, <1>3, <1>6
  <2>2. \A i \in 1 .. Len(stack) : CallFits(e, stack[i])
    BY <1>2, <1>6, <1>7, AdoptedHooks DEF LinksFit, HooksFit
  <2>3. ASSUME NEW l \in ListIds PROVE lists[l].list \in Seq(HookSet(e, l))
    <3>1. PICK s, A, B : s = lists[l].list /\ A = HookSet(h, l) /\ B = HookSet(e, l)
      OBVIOUS
    <3>2. s \in Seq(A) /\ A \subseteq B
      BY <1>2, <3>1, AdoptedHooks DEF LinksFit, HooksFit
    <3>. QED
      BY <3>1, <3>2
  <2>4. \A i, j \in 1 .. Len(stack) : stack[i].on = None /\ stack[j].on = None => i = j
    BY <1>6, <2>1 DEF LinksFit, HooksFit
  <2>. QED
    BY <1>2, <2>2, <2>3, <2>4 DEF HooksFit, Adopts
<1>9. ThenFits(e, lists, stack)
  <2>1. ASSUME NEW kind \in Outcomes PROVE SomeOwe(stack, AddStep(<<"second", kind>>, Settles(Result(kind))))
    <3>1. PICK i \in 1 .. 3 : Adopting[i] = AddStep(<<"second", kind>>, Settles(Result(kind)))
      BY AdoptingSteps
    <3>2. x.on \in StackIds /\ Len(Adopting) = 3 /\ i \in 1 .. Len(Adopting)
      BY <1>2, <1>3, AdoptingSteps DEF StackIds
    <3>3. 1 \in 1 .. Len(stack) /\ stack[1].on = x.on /\ stack[1].steps = Adopting
      BY <1>3, <1>6
    <3>4. Owes(stack, x.on, Adopting[i])
      BY <3>2, <3>3 DEF Owes
    <3>. QED
      BY <3>1, <3>2, <3>4 DEF SomeOwe
  <2>2. \A kind \in Outcomes :
          Reaches(lists, stack, <<"second", kind>>, Settles(Result(kind)), Result(kind))
    BY <2>1 DEF Reaches
  <2>. QED
    BY <1>2, <2>2 DEF LinksFit, ThenFits, Adopts
<1>. QED
  BY <1>2, <1>8, <1>9 DEF LinksFit, FreshFits, WhenFits, Adopts

LinkInv == threw \/ (TiesFit(Ties) /\ LinksFit(Ties, lists, frames, remaining))

LEMMA StepLinks ==
  ASSUME DeferredFits(lists, frames, settled, added, called), ListsAndStackFit(lists', frames'), StepTaken,
         TiesFit(Ties), LinksFit(Ties, lists, frames, remaining)
  PROVE  TiesFit(Ties') /\ LinksFit(Ties', lists', frames', remaining')
<1>0. ListsAndStackFit(lists, frames) /\ ExclusiveFits(lists, frames) /\ link' = link /\ subjects' = subjects
  BY DEF DeferredFits, StepTaken
<1>1. PICK h : h = Ties
  OBVIOUS
<1>2. adopted' = adopted => Ties' = h
  BY <1>0, <1>1 DEF Ties
<1>3. CASE AddTaken
  BY <1>0, <1>1, <1>2, <1>3, AddLinks DEF AddTaken
<1>4. CASE FireTaken \/ (IfNoneTaken /\ remaining = 0)
  <2>1. /\ frames # <<>> /\ Top.steps # <<>> /\ NextStep.op \in {"fire", "ifNone"} /\ FireWith(NextStep.on, Rest)
        /\ NextStep.op = "ifNone" => remaining = 0
        /\ adopted' = adopted /\ remaining' = remaining
    BY <1>4 DEF FireTaken, IfNoneTaken, Takes
  <2>. QED
    BY <1>0, <1>1, <1>2, <2>1, FireLinks
<1>5. CASE DisableTaken
  BY <1>0, <1>1, <1>2, <1>5, DisableLinks DEF DisableTaken
<1>6. CASE LockTaken
  BY <1>0, <1>1, <1>2, <1>6, LockLinks DEF LockTaken
<1>7. CASE StateTaken \/ (ApplyTaken /\ frames' = Rest /\ UNCHANGED adopted) \/ (IfNoneTaken /\ remaining # 0)
  <2>1. /\ frames # <<>> /\ Top.steps # <<>> /\ NextStep.op \in {"state", "apply", "ifNone"}
        /\ lists' = lists /\ frames' = Rest /\ adopted' = adopted /\ remaining' = remaining
        /\ NextStep.op = "ifNone" => remaining # 0
    BY <1>7 DEF StateTaken, ApplyTaken, IfNoneTaken, Takes
  <2>2. NextStep = Decides => remaining # 0
    BY <2>1, StepsTell
  <2>. QED
    BY <1>0, <1>1, <1>2, <2>1, <2>2, StillTaken
<1>8. CASE ApplyTaken /\ ~(frames' = Rest /\ UNCHANGED adopted)
  <2>1. /\ frames # <<>> /\ Top.steps # <<>> /\ NextStep.op = "apply" /\ lists' = lists /\ remaining' = remaining
        /\ adopted' = TRUE /\ frames' = <<[Top EXCEPT !.steps = Adopting]>> \o Tail(frames)
    BY <1>8 DEF ApplyTaken, Takes, Adopting
  <2>2. PICK e, x, stack : e = Ties' /\ x = [Top EXCEPT !.steps = Adopting] /\ stack = frames'
    OBVIOUS
  <2>3. e.link = h.link /\ e.adopted /\ e.subjects = h.subjects /\ e.adopted \in BOOLEAN
    BY <1>0, <1>1, <2>1, <2>2 DEF Ties
  <2>4. LinksFit(e, lists, stack, remaining)
    BY <1>0, <1>1, <2>1, <2>2, <2>3, AdoptLinks
  <2>5. TiesFit(e)
    BY <1>1, <2>3 DEF TiesFit
  <2>. QED
    BY <2>1, <2>2, <2>4, <2>5
<1>9. CASE CountTaken
  BY <1>0, <1>1, <1>2, <1>9, CountLinks DEF CountTaken
<1>10. CASE DiscountTaken
  <2>1. /\ frames # <<>> /\ Top.steps # <<>> /\ NextStep.op = "discount" /\ lists' = lists /\ frames' = Rest
        /\ adopted' = adopted /\ remaining' = remaining - 1
    BY <1>10 DEF DiscountTaken, Takes
  <2>. QED
    BY <1>0, <1>1, <1>2, <2>1, MovedDiscount
<1>. QED
  BY <1>3, <1>4, <1>5, <1>6, <1>7, <1>8, <1>9, <1>10 DEF StepTaken

(***************************************************************************)
(* The calls that return, and those of the page                            *)
(***************************************************************************)
LEMMA MovedCall ==
  ASSUME ListsAndStackFit(lists', frames'), NEW h, TiesFit(h), LinksFit(h, lists, frames, remaining),
         NEW op, NEW l, NEW F, NEW outer, Moved(op, l, F, outer), IsStack(outer, StackIds),
         HooksFit(h, lists, outer), Leaves(outer, {}), F \subseteq HookSet(h, l),
         Update \notin F, op # "disable", \A kind \in Outcomes : l = Result(kind) => op # "fire"
  PROVE  LinksFit(h, lists', frames', remaining)
<1>1. Fulfils({}, op, l, F)
  BY DEF Fulfils
<1>2. Orderly(op, l, F, outer)
  BY DEF Orderly
<1>3. FiresFor(h, op, l, remaining)
  BY DEF FiresFor, Outcomes
<1>. QED
  BY <1>1, <1>2, <1>3, MovedLinksFit

LEMMA LinkReturnsLinks ==
  ASSUME ListsAndStackFit(lists, frames), ListsAndStackFit(lists', frames'), LinkReturns,
         NEW h, TiesFit(h), LinksFit(h, lists, frames, remaining)
  PROVE  LinksFit(h, lists', frames', remaining)
<1>1. frames # <<>> /\ Top.steps = <<>> /\ frames' = Tail(frames) /\ lists' = lists
  BY DEF LinkReturns
<1>2. PICK l : l = <<"result", "progress">>
  OBVIOUS
<1>3. l \in ListIds /\ Moved("none", l, {}, Tail(frames))
  BY <1>1, <1>2, KindsAre, StillMoves DEF Deferreds
<1>4. /\ Leaves(Tail(frames), {}) /\ IsStack(Tail(frames), StackIds)
      /\ HooksFit(h, lists, Tail(frames))
  BY <1>1, ReturnLeaves DEF LinksFit
<1>. QED
  BY <1>3, <1>4, MovedCall

LEMMA CallbackReturnsLinks ==
  ASSUME ListsAndStackFit(lists, frames), ListsAndStackFit(lists', frames'), CallbackReturns,
         NEW h, TiesFit(h), LinksFit(h, lists, frames, remaining)
  PROVE  LinksFit(h, lists', frames', remaining)
<1>1. frames # <<>> /\ Top.on # None /\ Return /\ Top.steps = <<>>
  BY DEF CallbackReturns, None, Return
<1>2. PICK l : l = Top.on
  OBVIOUS
<1>3. l \in ListIds
  BY <1>1, <1>2, TopFits DEF StackIds
<1>4. Moved("return", l, {}, Tail(frames))
  BY <1>1, <1>2, <1>3, ReturnMoves
<1>5. /\ Leaves(Tail(frames), {}) /\ IsStack(Tail(frames), StackIds)
      /\ HooksFit(h, lists, Tail(frames))
  BY <1>1, ReturnLeaves DEF LinksFit
<1>. QED
  BY <1>4, <1>5, MovedCall

LEMMA PageAddsLinks ==
  ASSUME ListsAndStackFit(lists, frames), ListsAndStackFit(lists', frames'), NEW l \in ListIds, PageAdds(l),
         NEW h, TiesFit(h), LinksFit(h, lists, frames, remaining)
  PROVE  LinksFit(h, lists', frames', remaining)
<1>1. PICK name \in PageCallbacks : Call(Add(l, Callback(name, <<>>), frames))
  BY DEF PageAdds
<1>2. PICK f : f = Callback(name, <<>>)
  OBVIOUS
<1>3. f \in UserCallbacks /\ f \in Late /\ Add(l, f, frames)
  BY <1>1, <1>2 DEF UserCallbacks, Late, Call
<1>4. f \notin JQuerys /\ f # Update
  BY <1>3, CallbackNames, JQueryCallbacks
<1>5. {f} \subseteq HookSet(h, l)
  BY <1>3, <1>4 DEF HookSet, ListCallbacks
<1>6. Moved("add", l, {f}, frames)
  BY <1>3, AddMoves
<1>7. IsStack(frames, StackIds) /\ HooksFit(h, lists, frames)
  BY DEF ListsAndStackFit, FiringFits, LinksFit
<1>. QED
  BY <1>4, <1>5, <1>6, <1>7, CallLeaves, MovedCall

LEMMA PageFiresLinks ==
  ASSUME ListsAndStackFit(lists, frames), ListsAndStackFit(lists', frames'), NEW l \in ListIds, PageFires(l),
         NEW h, TiesFit(h), LinksFit(h, lists, frames, remaining)
  PROVE  LinksFit(h, lists', frames', remaining)
<1>1. FireWith(l, frames) /\ l[1] # "result"
  BY DEF PageFires, Call
<1>2. Moved("fire", l, {}, frames)
  BY <1>1, FireMoves
<1>3. \A kind \in Outcomes : l # Result(kind)
  BY <1>1 DEF Result
<1>4. IsStack(frames, StackIds) /\ HooksFit(h, lists, frames)
  BY DEF ListsAndStackFit, FiringFits, LinksFit
<1>. QED
  BY <1>2, <1>3, <1>4, CallLeaves, MovedCall

(***************************************************************************)
(* The page calls then or when                                             *)
(***************************************************************************)
ListenDone(d) == AddStep(<<d, "done">>, Update)
ListenFor(d, kind) == AddStep(<<d, kind>>, Settles(Result(kind)))
Includes(steps, s) == \E m \in 1 .. Len(steps) : steps[m] = s

WhenStepsFit(on, steps) ==
  /\ Len(steps) \in Nat \ {0} /\ steps[Len(steps)] = Decides /\ StepsDiffer(steps)
  /\ \A m \in 1 .. Len(steps) :
       \/ steps[m] \in {Discounts, Decides}
       \/ \E d \in on : steps[m] \in {ListenDone(d), ListenFor(d, "fail"), ListenFor(d, "progress")}
  /\ \A d \in on : Includes(steps, ListenDone(d)) /\ Includes(steps, ListenFor(d, "fail"))
  /\ One("first" \in on) + One("second" \in on) + One(Includes(steps, Discounts)) = 2

LEMMA ListenSteps ==
  ASSUME NEW d \in {"first", "second"}, NEW s, s = Listen(d)
  PROVE  /\ s \in Seq(AllSteps) /\ Len(s) = 3
         /\ s[1] = ListenDone(d) /\ s[2] = ListenFor(d, "fail") /\ s[3] = ListenFor(d, "progress")
<1>1. PICK a, b, c : a = ListenDone(d) /\ b = ListenFor(d, "fail") /\ c = ListenFor(d, "progress")
  OBVIOUS
<1>2. /\ Result("fail") \in ListIds /\ Result("progress") \in ListIds
      /\ <<d, "done">> \in ListIds /\ <<d, "fail">> \in ListIds /\ <<d, "progress">> \in ListIds
  BY KindsAre DEF Deferreds, Result
<1>3. Update \in JQuerys /\ Settles(Result("fail")) \in JQuerys /\ Settles(Result("progress")) \in JQuerys
  BY <1>2, JQueryCallbacks
<1>4. a \in AllSteps /\ b \in AllSteps /\ c \in AllSteps
  BY <1>1, <1>2, <1>3, AddStepFits DEF ListenDone, ListenFor
<1>5. s = <<a, b, c>>
  BY <1>1 DEF Listen, ListenDone, ListenFor, Result
<1>. QED
  BY <1>1, <1>4, <1>5

LEMMA ListensDiffer ==
  /\ \A d, e : ListenDone(d) # ListenFor(e, "fail") /\ ListenDone(d) # ListenFor(e, "progress")
  /\ \A d, e : ListenFor(d, "fail") # ListenFor(e, "progress")
  /\ \A d, e, kind : d # e => ListenDone(d) # ListenDone(e) /\ ListenFor(d, kind) # ListenFor(e, kind)
  /\ \A d, kind, s : s \in {Discounts, Decides} => s # ListenDone(d) /\ s # ListenFor(d, kind)
  /\ Discounts # Decides
  /\ Discounts \in AllSteps /\ Decides \in AllSteps
<1>1. \A d : ListenDone(d).on = <<d, "done">> /\ ListenDone(d).op = "add"
  BY StepsTell DEF ListenDone
<1>2. \A d, kind : ListenFor(d, kind).on = <<d, kind>> /\ ListenFor(d, kind).op = "add"
  BY StepsTell DEF ListenFor
<1>3. /\ \A d, e, k, m : <<d, k>> = <<e, m>> => d = e /\ k = m
      /\ "done" # "fail" /\ "done" # "progress" /\ "fail" # "progress"
  OBVIOUS
<1>4. Discounts \in AllSteps /\ Decides \in AllSteps
  BY LinkIds, PlainSteps DEF PlainOps, Discounts, Decides
<1>. QED
  BY <1>1, <1>2, <1>3, <1>4, StepsTell

LEMMA SevenSteps ==
  ASSUME NEW c, NEW r, NEW s, NEW t, NEW u, NEW v, NEW x, NEW y, Len(c) = 7, c[1] = r, c[2] = s, c[3] = t, c[4] = u,
         c[5] = v, c[6] = x, c[7] = y, r \notin {s, t, u, v, x, y}, s \notin {t, u, v, x, y},
         t \notin {u, v, x, y}, u \notin {v, x, y}, v \notin {x, y}, x # y
  PROVE  /\ StepsDiffer(c) /\ \A m \in 1 .. Len(c) : c[m] \in {r, s, t, u, v, x, y}
         /\ \A z \in {r, s, t, u, v, x, y} : Includes(c, z)
<1>1. \A m \in 1 .. Len(c) : m \in {1, 2, 3, 4, 5, 6, 7}
  OBVIOUS
<1>2. 1 \in 1 .. Len(c) /\ 2 \in 1 .. Len(c) /\ 3 \in 1 .. Len(c) /\ 4 \in 1 .. Len(c)
      /\ 5 \in 1 .. Len(c) /\ 6 \in 1 .. Len(c) /\ 7 \in 1 .. Len(c)
  OBVIOUS
<1>3. \A m \in 1 .. Len(c) : c[m] \in {r, s, t, u, v, x, y}
  BY <1>1
<1>4. StepsDiffer(c)
  BY <1>1 DEF StepsDiffer
<1>5. \A z \in {r, s, t, u, v, x, y} : Includes(c, z)
  BY <1>2 DEF Includes
<1>. QED
  BY <1>3, <1>4, <1>5

LEMMA FiveSteps ==
  ASSUME NEW c, NEW r, NEW s, NEW t, NEW u, NEW v, Len(c) = 5, c[1] = r, c[2] = s, c[3] = t, c[4] = u, c[5] = v,
         r \notin {s, t, u, v}, s \notin {t, u, v}, t \notin {u, v}, u # v
  PROVE  /\ StepsDiffer(c) /\ \A m \in 1 .. Len(c) : c[m] \in {r, s, t, u, v}
         /\ \A z \in {r, s, t, u, v} : Includes(c, z)
<1>1. \A m \in 1 .. Len(c) : m \in {1, 2, 3, 4, 5}
  OBVIOUS
<1>2. 1 \in 1 .. Len(c) /\ 2 \in 1 .. Len(c) /\ 3 \in 1 .. Len(c) /\ 4 \in 1 .. Len(c) /\ 5 \in 1 .. Len(c)
  OBVIOUS
<1>3. \A m \in 1 .. Len(c) : c[m] \in {r, s, t, u, v}
  BY <1>1
<1>4. StepsDiffer(c)
  BY <1>1 DEF StepsDiffer
<1>5. \A z \in {r, s, t, u, v} : Includes(c, z)
  BY <1>2 DEF Includes
<1>. QED
  BY <1>3, <1>4, <1>5

Joins(a, b, c) ==
  /\ c \in Seq(AllSteps) /\ Len(c) = Len(a) + Len(b)
  /\ \A i \in 1 .. Len(a) + Len(b) : c[i] = IF i <= Len(a) THEN a[i] ELSE b[i - Len(a)]

LEMMA JoinedSteps ==
  ASSUME NEW a \in Seq(AllSteps), NEW b \in Seq(AllSteps), NEW c, c = a \o b
  PROVE  Joins(a, b, c)
BY ConcatProperties DEF Joins

LEMMA TwoListens ==
  ASSUME NEW steps, steps = WhenSteps(<<"first", "second">>)
  PROVE  WhenStepsFit({"first", "second"}, steps)
<1>1. PICK a, b, c, z : a = Listen("first") /\ b = Listen("second") /\ c = a \o b /\ z = <<Decides>>
  OBVIOUS
<1>2. steps = c \o z
  BY <1>1 DEF WhenSteps, IfNothingRemains, Decides, Deferreds, Result
<1>3. /\ a \in Seq(AllSteps) /\ b \in Seq(AllSteps) /\ Len(a) = 3 /\ Len(b) = 3
      /\ a[1] = ListenDone("first") /\ a[2] = ListenFor("first", "fail") /\ a[3] = ListenFor("first", "progress")
      /\ b[1] = ListenDone("second") /\ b[2] = ListenFor("second", "fail") /\ b[3] = ListenFor("second", "progress")
  BY <1>1, ListenSteps
<1>4. c \in Seq(AllSteps) /\ Len(c) = 6 /\ \A i \in 1 .. 6 : c[i] = IF i <= 3 THEN a[i] ELSE b[i - 3]
  <2>1. Joins(a, b, c)
    BY <1>1, <1>3, JoinedSteps
  <2>. QED
    BY <1>3, <2>1 DEF Joins
<1>5. z \in Seq(AllSteps) /\ Len(z) = 1 /\ z[1] = Decides
  BY <1>1, ListensDiffer
<1>6. Len(steps) = 7 /\ \A i \in 1 .. 7 : steps[i] = IF i <= 6 THEN c[i] ELSE z[i - 6]
  <2>1. Joins(c, z, steps)
    BY <1>2, <1>4, <1>5, JoinedSteps
  <2>. QED
    BY <1>4, <1>5, <2>1 DEF Joins
<1>7. PICK r, s, t, u, v, x, y :
             /\ r = ListenDone("first") /\ s = ListenFor("first", "fail") /\ t = ListenFor("first", "progress")
             /\ u = ListenDone("second") /\ v = ListenFor("second", "fail") /\ x = ListenFor("second", "progress")
             /\ y = Decides
  OBVIOUS
<1>8. /\ steps[1] = r /\ steps[2] = s /\ steps[3] = t /\ steps[4] = u
      /\ steps[5] = v /\ steps[6] = x /\ steps[7] = y
  BY <1>3, <1>4, <1>5, <1>6, <1>7
<1>9. /\ r \notin {s, t, u, v, x, y} /\ s \notin {t, u, v, x, y} /\ t \notin {u, v, x, y}
      /\ u \notin {v, x, y} /\ v \notin {x, y} /\ x # y
  BY <1>7, ListensDiffer
<1>10. /\ StepsDiffer(steps) /\ \A m \in 1 .. Len(steps) : steps[m] \in {r, s, t, u, v, x, y}
       /\ \A e \in {r, s, t, u, v, x, y} : Includes(steps, e)
  BY <1>6, <1>8, <1>9, SevenSteps
<1>11. ~Includes(steps, Discounts)
  <2>1. Discounts \notin {r, s, t, u, v, x, y}
    BY <1>7, ListensDiffer
  <2>. QED
    BY <1>10, <2>1 DEF Includes
<1>12. One("first" \in {"first", "second"}) = 1 /\ One("second" \in {"first", "second"}) = 1
       /\ One(Includes(steps, Discounts)) = 0
  BY <1>11 DEF One
<1>13. steps[Len(steps)] = Decides /\ Len(steps) \in Nat \ {0}
  BY <1>6, <1>7, <1>8
<1>. QED
  BY <1>7, <1>10, <1>12, <1>13 DEF WhenStepsFit

LEMMA OneListens ==
  ASSUME NEW arguments \in {<<"first", "plain">>, <<"plain", "first">>}, NEW steps, steps = WhenSteps(arguments)
  PROVE  WhenStepsFit({"first"}, steps)
<1>1. PICK l, b, z : l = Listen("first") /\ b = <<Discounts>> /\ z = <<Decides>>
  OBVIOUS
<1>2. PICK c, d : c = l \o b /\ d = b \o l
  OBVIOUS
<1>3. steps = c \o z \/ steps = d \o z
  <2>1. IfNothingRemains = z /\ Discount = b
    BY <1>1 DEF IfNothingRemains, Discount, Discounts, Decides, Result
  <2>2. "plain" \notin Deferreds /\ "first" \in Deferreds
    BY DEF Deferreds
  <2>3. CASE arguments = <<"first", "plain">>
    BY <1>1, <1>2, <2>1, <2>2, <2>3 DEF WhenSteps
  <2>4. CASE arguments = <<"plain", "first">>
    BY <1>1, <1>2, <2>1, <2>2, <2>4 DEF WhenSteps
  <2>. QED
    BY <2>3, <2>4
<1>4. PICK r, s, t, x, y :
             /\ r = ListenDone("first") /\ s = ListenFor("first", "fail") /\ t = ListenFor("first", "progress")
             /\ x = Discounts /\ y = Decides
  OBVIOUS
<1>5. /\ l \in Seq(AllSteps) /\ Len(l) = 3 /\ l[1] = r /\ l[2] = s /\ l[3] = t
      /\ b \in Seq(AllSteps) /\ Len(b) = 1 /\ b[1] = x
      /\ z \in Seq(AllSteps) /\ Len(z) = 1 /\ z[1] = y
  BY <1>1, <1>4, ListenSteps, ListensDiffer
<1>6. /\ c \in Seq(AllSteps) /\ Len(c) = 4 /\ \A i \in 1 .. 4 : c[i] = IF i <= 3 THEN l[i] ELSE b[i - 3]
      /\ d \in Seq(AllSteps) /\ Len(d) = 4 /\ \A i \in 1 .. 4 : d[i] = IF i <= 1 THEN b[i] ELSE l[i - 1]
  <2>1. Joins(l, b, c) /\ Joins(b, l, d)
    BY <1>2, <1>5, JoinedSteps
  <2>. QED
    BY <1>5, <2>1 DEF Joins
<1>7. PICK e \in {c, d} : steps = e \o z
  BY <1>3
<1>8. Len(steps) = 5 /\ \A i \in 1 .. 5 : steps[i] = IF i <= 4 THEN e[i] ELSE z[i - 4]
  <2>1. e \in Seq(AllSteps) /\ Len(e) = 4
    BY <1>6, <1>7
  <2>2. Joins(e, z, steps)
    BY <1>5, <1>7, <2>1, JoinedSteps
  <2>. QED
    BY <1>5, <2>1, <2>2 DEF Joins
<1>9. /\ r \notin {s, t, x, y} /\ s \notin {t, x, y} /\ t \notin {x, y} /\ x # y
  BY <1>4, ListensDiffer
<1>10. /\ StepsDiffer(steps) /\ \A m \in 1 .. Len(steps) : steps[m] \in {r, s, t, x, y}
       /\ \A f \in {r, s, t, x, y} : Includes(steps, f)
       /\ steps[5] = y
  <2>1. CASE e = c
    <3>1. steps[1] = r /\ steps[2] = s /\ steps[3] = t /\ steps[4] = x /\ steps[5] = y
      BY <1>5, <1>6, <1>8, <2>1
    <3>. QED
      BY <1>8, <1>9, <3>1, FiveSteps
  <2>2. CASE e = d
    <3>1. steps[1] = x /\ steps[2] = r /\ steps[3] = s /\ steps[4] = t /\ steps[5] = y
      BY <1>5, <1>6, <1>8, <2>2
    <3>2. x \notin {r, s, t, y} /\ r \notin {s, t, y} /\ s \notin {t, y} /\ t # y
      BY <1>9
    <3>3. /\ StepsDiffer(steps) /\ \A m \in 1 .. Len(steps) : steps[m] \in {x, r, s, t, y}
          /\ \A f \in {x, r, s, t, y} : Includes(steps, f)
      BY <1>8, <3>1, <3>2, FiveSteps
    <3>. QED
      BY <3>1, <3>3
  <2>. QED
    BY <1>7, <2>1, <2>2
<1>11. One("first" \in {"first"}) = 1 /\ One("second" \in {"first"}) = 0
       /\ One(Includes(steps, Discounts)) = 1
  BY <1>4, <1>10 DEF One
<1>12. steps[Len(steps)] = Decides /\ Len(steps) \in Nat \ {0}
  BY <1>4, <1>8, <1>10
<1>. QED
  BY <1>4, <1>10, <1>11, <1>12 DEF WhenStepsFit

(* What holds of a new call of then or when, before it takes a step. *)
NewLink(e, stack, x) ==
  /\ HooksFit(e, lists, stack) /\ DeathFits(lists)
  /\ \A kind \in Outcomes : ~lists[Result(kind)].fired
  /\ \A s : Includes(x.steps, s) => Owes(stack, None, s) /\ SomeOwe(stack, s)
  /\ \A s : Owes(stack, None, s) => Includes(x.steps, s)
  /\ \A k \in ListIds : ~On(lists[k], Update) /\ ~CountOwed(stack, k)

LEMMA NewLinkFits ==
  ASSUME ListsAndStackFit(lists, frames), NEW h, h.link = "none", LinksFit(h, lists, frames, remaining),
         NEW e, NEW x, x.on = None, CallFits(e, x), NEW stack, WithOneMore(stack, x, frames),
         e.link # "none"
  PROVE  NewLink(e, stack, x)
<1>1. \A l, f : ~Hooked(h, l, f)
  BY DEF Hooked
<1>2. \A l : HookSet(h, l) \subseteq HookSet(e, l) /\ Update \notin HookSet(h, l)
  BY <1>1, JQueryCallbacks DEF HookSet
<1>3. ASSUME NEW y, CallFits(h, y), y.on # None
      PROVE  CallFits(e, y) /\ \A m \in 1 .. Len(y.steps) : y.steps[m].op # "count"
  <2>1. \A s : StepOf(h, y, s) => s.op \notin {"add", "fire", "apply", "count", "discount", "ifNone"}
    BY <1>1 DEF StepOf, Settling
  <2>2. \A m \in 1 .. Len(y.steps) :
          y.steps[m].op \notin {"add", "fire", "apply", "count", "discount", "ifNone"}
    BY <1>3, <2>1 DEF CallFits
  <2>3. \A m \in 1 .. Len(y.steps) : StepOf(e, y, y.steps[m])
    BY <2>2 DEF StepOf
  <2>. QED
    BY <1>3, <2>2, <2>3 DEF CallFits
<1>4. \A i \in 1 .. Len(frames) : CallFits(h, frames[i]) /\ frames[i].on # None
  BY DEF LinksFit, HooksFit
<1>5. /\ 1 \in 1 .. Len(stack) /\ stack[1] = x
      /\ \A i \in 1 .. Len(stack) : i = 1 \/ \E j \in 1 .. Len(frames) : stack[i] = frames[j]
  BY DEF WithOneMore
<1>6. HooksFit(e, lists, stack)
  <2>1. \A i \in 1 .. Len(stack) : CallFits(e, stack[i])
    BY <1>3, <1>4, <1>5
  <2>2. \A i \in 1 .. Len(stack) : stack[i].on = None => i = 1
    BY <1>4, <1>5
  <2>3. ASSUME NEW l \in ListIds PROVE lists[l].list \in Seq(HookSet(e, l))
    <3>1. PICK s, A, B : s = lists[l].list /\ A = HookSet(h, l) /\ B = HookSet(e, l)
      OBVIOUS
    <3>2. s \in Seq(A) /\ A \subseteq B
      BY <1>2, <3>1 DEF LinksFit, HooksFit
    <3>. QED
      BY <3>1, <3>2
  <2>. QED
    BY <2>1, <2>2, <2>3 DEF HooksFit
<1>7. \A s : Owes(frames, None, s) <=> FALSE
  BY <1>4 DEF Owes
<1>8. \A s : Owes(stack, None, s) <=> Includes(x.steps, s)
  BY <1>7, OwesWhenPushed DEF Includes
<1>9. None \in StackIds
  BY DEF StackIds
<1>10. ASSUME NEW k \in ListIds PROVE ~On(lists[k], Update) /\ ~CountOwed(stack, k)
  <2>1. ~On(lists[k], Update)
    <3>1. PICK s, A : s = lists[k].list /\ A = HookSet(h, k)
      OBVIOUS
    <3>2. s \in Seq(A) /\ Update \notin A
      BY <1>2, <3>1 DEF LinksFit, HooksFit
    <3>3. \A i \in 1 .. Len(s) : s[i] \in A
      BY <3>2
    <3>. QED
      BY <3>1, <3>2, <3>3 DEF On
  <2>2. ~Owes(frames, k, Counts)
    BY <1>3, <1>4, StepsTell DEF Owes
  <2>3. ~Owes(stack, k, Counts)
    BY <2>2, OwesWhenPushed, Ids
  <2>. QED
    BY <2>1, <2>3 DEF CountOwed
<1>. QED
  BY <1>6, <1>8, <1>9, <1>10 DEF NewLink, LinksFit, FreshFits, SomeOwe

LEMMA ThenCallFits ==
  ASSUME NEW e, e.link = "then", NEW x, x.on = None, NEW steps, steps = ThenSteps, x.steps = steps
  PROVE  CallFits(e, x) /\ \A kind \in Outcomes : Includes(steps, AddStep(<<"first", kind>>, Forward(kind)))
<1>1. Len(steps) = 3 /\ \A i \in 1 .. 3 : steps[i] = AddStep(<<"first", Kinds[i]>>, Forward(Kinds[i]))
  BY DEF ThenSteps
<1>2. ASSUME NEW i \in 1 .. 3 PROVE StepOf(e, x, steps[i])
  <2>1. PICK kind, s, f, l : /\ kind = Kinds[i] /\ s = steps[i] /\ f = Forward(kind) /\ l = <<"first", kind>>
    OBVIOUS
  <2>2. s.op = "add" /\ s.on = l /\ s.callback = f
    BY <1>1, <2>1, StepsTell
  <2>3. Hooked(e, l, f)
    BY <2>1 DEF Hooked
  <2>4. StepOf(e, x, s)
    BY <2>2, <2>3 DEF StepOf
  <2>. QED
    BY <2>1, <2>4
<1>3. StepsDiffer(steps)
  <2>1. ASSUME NEW i \in 1 .. 3, NEW j \in 1 .. 3, steps[i] = steps[j] PROVE i = j
    <3>1. steps[i].on = <<"first", Kinds[i]>> /\ steps[j].on = <<"first", Kinds[j]>>
      BY <1>1, StepsTell
    <3>2. Kinds[i] = Kinds[j]
      BY <2>1, <3>1
    <3>. QED
      BY <3>2 DEF Kinds
  <2>. QED
    BY <1>1, <2>1 DEF StepsDiffer
<1>4. CallFits(e, x)
  BY <1>1, <1>2, <1>3 DEF CallFits
<1>5. ASSUME NEW kind \in Outcomes PROVE Includes(steps, AddStep(<<"first", kind>>, Forward(kind)))
  <2>1. PICK i \in 1 .. 3 : Kinds[i] = kind
    <3>1. Kinds[1] = "done" /\ Kinds[2] = "fail" /\ 1 \in 1 .. 3 /\ 2 \in 1 .. 3
      BY DEF Kinds
    <3>. QED
      BY <3>1 DEF Outcomes
  <2>. QED
    BY <1>1, <2>1 DEF Includes
<1>. QED
  BY <1>4, <1>5

LEMMA WhenCallFits ==
  ASSUME NEW e, e.link = "when", NEW x, x.on = None, WhenStepsFit(e.subjects, x.steps)
  PROVE  CallFits(e, x)
<1>1. ASSUME NEW m \in 1 .. Len(x.steps) PROVE StepOf(e, x, x.steps[m])
  <2>1. PICK s : s = x.steps[m]
    OBVIOUS
  <2>2. CASE s \in {Discounts, Decides}
    BY <2>1, <2>2, StepsTell DEF StepOf
  <2>3. ASSUME NEW d \in e.subjects, s = ListenDone(d) PROVE StepOf(e, x, s)
    <3>1. PICK l : l = <<d, "done">>
      OBVIOUS
    <3>2. s.op = "add" /\ s.on = l /\ s.callback = Update
      BY <2>3, <3>1, StepsTell DEF ListenDone
    <3>3. Hooked(e, l, Update)
      BY <3>1 DEF Hooked
    <3>. QED
      BY <3>2, <3>3 DEF StepOf
  <2>4. ASSUME NEW d \in e.subjects, NEW kind \in {"fail", "progress"}, s = ListenFor(d, kind) PROVE StepOf(e, x, s)
    <3>1. PICK l, f : l = <<d, kind>> /\ f = Settles(Result(kind))
      OBVIOUS
    <3>2. s.op = "add" /\ s.on = l /\ s.callback = f
      BY <2>4, <3>1, StepsTell DEF ListenFor
    <3>3. Hooked(e, l, f)
      <4>1. l[1] = d /\ l[2] = kind /\ kind # "done"
        BY <3>1
      <4>. QED
        BY <3>1, <4>1 DEF Hooked
    <3>. QED
      BY <3>2, <3>3 DEF StepOf
  <2>5. \/ s \in {Discounts, Decides}
        \/ \E d \in e.subjects : s \in {ListenDone(d), ListenFor(d, "fail"), ListenFor(d, "progress")}
    BY <2>1 DEF WhenStepsFit
  <2>. QED
    BY <2>1, <2>2, <2>3, <2>4, <2>5
<1>. QED
  BY <1>1 DEF CallFits, WhenStepsFit

LEMMA NewWhenFits ==
  ASSUME NEW e, e.link = "when", TiesFit(e), NEW stack, NEW x, NewLink(e, stack, x), WhenStepsFit(e.subjects, x.steps)
  PROVE  WhenFits(e, lists, stack, 2)
<1>1. ASSUME NEW d \in e.subjects
      PROVE  /\ Awaited(lists, stack, <<d, "done">>) /\ CountedOnce(lists, stack, <<d, "done">>)
             /\ Reaches(lists, stack, <<d, "fail">>, Settles(Result("fail")), Result("fail"))
  <2>1. PICK k : k = <<d, "done">>
    OBVIOUS
  <2>2. k \in ListIds
    BY <2>1, LinkIds, Ids DEF TiesFit, Outcomes
  <2>3. Includes(x.steps, AddStep(k, Update)) /\ Includes(x.steps, ListenFor(d, "fail"))
    BY <2>1 DEF WhenStepsFit, ListenDone
  <2>4. AddOwed(stack, k) /\ SomeOwe(stack, ListenFor(d, "fail"))
    BY <2>3 DEF NewLink, AddOwed
  <2>5. Awaited(lists, stack, k)
    BY <2>4 DEF Awaited
  <2>6. AtMostOnce(lists[k], Update)
    BY <2>2 DEF NewLink, On, AtMostOnce
  <2>7. CountedOnce(lists, stack, k)
    BY <2>2, <2>5, <2>6 DEF NewLink, CountedOnce
  <2>8. Reaches(lists, stack, <<d, "fail">>, Settles(Result("fail")), Result("fail"))
    BY <2>4 DEF Reaches, ListenFor
  <2>. QED
    BY <2>1, <2>5, <2>7, <2>8
<1>2. Waits(e, lists, stack) = 2
  <2>1. PICK a, b, c, i, j, l :
               /\ a = ("first" \in e.subjects /\ Awaited(lists, stack, <<"first", "done">>))
               /\ b = ("second" \in e.subjects /\ Awaited(lists, stack, <<"second", "done">>))
               /\ c = Owes(stack, None, Discounts)
               /\ i = ("first" \in e.subjects) /\ j = ("second" \in e.subjects) /\ l = Includes(x.steps, Discounts)
    OBVIOUS
  <2>2. (a <=> i) /\ (b <=> j) /\ (c <=> l)
    BY <1>1, <2>1 DEF NewLink
  <2>3. One(a) = One(i) /\ One(b) = One(j) /\ One(c) = One(l)
    BY <2>2 DEF One
  <2>4. Waits(e, lists, stack) = One(a) + One(b) + One(c)
    BY <2>1 DEF Waits
  <2>5. One(i) + One(j) + One(l) = 2
    BY <2>1 DEF WhenStepsFit
  <2>. QED
    BY <2>3, <2>4, <2>5
<1>3. ~lists[Result("done")].fired /\ ~lists[Result("fail")].fired
  BY DEF NewLink, Outcomes
<1>4. PICK rest : rest = 2 /\ rest # 0
  OBVIOUS
<1>5. WhenFits(e, lists, stack, rest)
  BY <1>1, <1>2, <1>3, <1>4 DEF WhenFits
<1>. QED
  BY <1>4, <1>5

LEMMA LinkedFits ==
  ASSUME ListsAndStackFit(lists, frames), TiesFit(Ties), LinksFit(Ties, lists, frames, remaining),
         NEW kind \in {"then", "when"}, NEW on \in SUBSET {"first", "second"}, NEW steps, Links(kind, on, steps),
         kind = "then" => steps = ThenSteps, kind = "when" => WhenStepsFit(on, steps)
  PROVE  TiesFit(Ties') /\ LinksFit(Ties', lists', frames', remaining')
<1>1. PICK h, e : h = Ties /\ e = Ties'
  OBVIOUS
<1>2. PICK x : x = [on |-> None, calls |-> Callback(kind, steps), steps |-> steps]
  OBVIOUS
<1>3. PICK stack : stack = <<x>> \o frames
  OBVIOUS
<1>4. /\ link = "none" /\ frames' = stack /\ lists' = lists /\ adopted' = adopted
      /\ link' = kind /\ subjects' = on /\ remaining' = IF kind = "when" THEN 2 ELSE 0
  BY <1>2, <1>3 DEF Links, Call, None
<1>5. h.link = "none" /\ e.link = kind /\ e.subjects = on /\ TiesFit(e)
  BY <1>1, <1>4 DEF Ties, TiesFit
<1>6. /\ DOMAIN x = {"on", "calls", "steps"} /\ x.on = None /\ x.steps = steps
      /\ None \in StackIds
  BY <1>2 DEF StackIds
<1>7. WithOneMore(stack, x, frames)
  <2>1. IsStack(frames, StackIds)
    BY DEF ListsAndStackFit, FiringFits
  <2>. QED
    BY <1>3, <1>6, <2>1, Pushed
<1>8. CASE kind = "then"
  <2>1. CallFits(e, x) /\ \A k \in Outcomes : Includes(steps, AddStep(<<"first", k>>, Forward(k)))
    BY <1>5, <1>6, <1>8, ThenCallFits
  <2>2. NewLink(e, stack, x)
    BY <1>1, <1>5, <1>6, <1>7, <1>8, <2>1, NewLinkFits
  <2>3. ASSUME NEW k \in Outcomes
        PROVE  Reaches(lists, stack, <<"first", k>>, Forward(k), Result(k)) /\ ~lists[Result(k)].fired
    BY <1>6, <2>1, <2>2 DEF NewLink, Reaches
  <2>4. LinksFit(e, lists, stack, remaining')
    BY <1>5, <1>8, <2>2, <2>3 DEF LinksFit, FreshFits, ThenFits, WhenFits, NewLink
  <2>. QED
    BY <1>1, <1>4, <1>5, <2>4
<1>9. CASE kind = "when"
  <2>1. CallFits(e, x)
    BY <1>5, <1>6, <1>9, WhenCallFits
  <2>2. NewLink(e, stack, x)
    BY <1>1, <1>5, <1>6, <1>7, <1>9, <2>1, NewLinkFits
  <2>3. WhenFits(e, lists, stack, remaining')
    BY <1>4, <1>5, <1>6, <1>9, <2>2, NewWhenFits
  <2>4. LinksFit(e, lists, stack, remaining')
    BY <1>5, <1>9, <2>2, <2>3 DEF LinksFit, FreshFits, ThenFits, NewLink
  <2>. QED
    BY <1>1, <1>4, <1>5, <2>4
<1>. QED
  BY <1>8, <1>9

LEMMA NewTiesFit ==
  ASSUME DeferredInit
  PROVE  LinkInv
<1>1. /\ frames = <<>> /\ lists = [l \in ListIds |-> DeferredList(l)]
      /\ link = "none" /\ subjects = {} /\ adopted = FALSE
  BY DEF DeferredInit, NothingSettled
<1>2. PICK h : h = Ties
  OBVIOUS
<1>3. h.link = "none" /\ TiesFit(h)
  BY <1>1, <1>2 DEF Ties, TiesFit
<1>4. \A l \in ListIds : ~lists[l].fired
  BY <1>1, NewListsFit
<1>5. \A l \in SettlingIds : lists[l].alive /\ ~lists[l].fired /\ l \in ListIds
  BY <1>1, NewListsFit, Ids
<1>6. ASSUME NEW l \in ListIds PROVE lists[l].list \in Seq(HookSet(h, l))
  <2>1. CASE l \in SettlingIds
    <3>1. lists[l] = [NewList(Once) EXCEPT !.list = Tied(l)]
      BY <1>1, <2>1 DEF DeferredList, SettlingIds
    <3>2. lists[l].list = Tied(l)
      BY <3>1 DEF NewList
    <3>3. PICK s, f, g, m : s = Tied(l) /\ f = SetState(l) /\ g = DisableOther(l) /\ m = LockProgress(l)
      OBVIOUS
    <3>4. s = <<f, g, m>>
      BY <3>3 DEF Tied
    <3>5. f \notin JQuerys /\ g \notin JQuerys /\ m \notin JQuerys
      <4>1. f.name = "setState" /\ g.name = "disable" /\ m.name = "lock"
        BY <3>3, CallbackNames
      <4>2. \A y \in JQuerys : y.name \notin {"setState", "disable", "lock"}
        BY CallbackNames DEF Late
      <4>. QED
        BY <4>1, <4>2
    <3>6. f \in HookSet(h, l) /\ g \in HookSet(h, l) /\ m \in HookSet(h, l)
      BY <2>1, <3>3, <3>5 DEF HookSet, ListCallbacks
    <3>. QED
      BY <3>2, <3>3, <3>4, <3>6
  <2>2. CASE l \notin SettlingIds
    <3>1. lists[l] = NewList(Repeated)
      BY <1>1, <2>2 DEF DeferredList, SettlingIds, ListIds
    <3>2. lists[l].list = <<>>
      BY <3>1 DEF NewList
    <3>. QED
      BY <3>2
  <2>. QED
    BY <2>1, <2>2
<1>7. Len(frames) = 0
  BY <1>1
<1>8. HooksFit(h, lists, frames)
  BY <1>6, <1>7 DEF HooksFit
<1>9. LinksFit(h, lists, frames, remaining)
  BY <1>3, <1>5, <1>8, LinkIds DEF LinksFit, DeathFits, FreshFits, ThenFits, WhenFits
<1>. QED
  BY <1>2, <1>3, <1>9 DEF LinkInv

LEMMA LinkStep ==
  ASSUME LinkInv, DeferredInv, DeferredInv', [DeferredNext]_deferredVars
  PROVE  LinkInv'
<1>. SUFFICES ASSUME ~threw' PROVE TiesFit(Ties') /\ LinksFit(Ties', lists', frames', remaining')
  BY DEF LinkInv
<1>1. CASE UNCHANGED deferredVars
  <2>1. /\ lists' = lists /\ frames' = frames /\ threw' = threw /\ Ties' = Ties /\ remaining' = remaining
    BY <1>1 DEF deferredVars, callbackVars, promiseVars, Ties
  <2>. QED
    BY <2>1 DEF LinkInv
<1>2. CASE DeferredNext
  <2>0. ~threw
    BY <1>2, NothingAfterAThrow
  <2>1. /\ DeferredFits(lists, frames, settled, added, called) /\ ListsAndStackFit(lists, frames)
        /\ ListsAndStackFit(lists', frames')
        /\ TiesFit(Ties) /\ LinksFit(Ties, lists, frames, remaining)
    BY <2>0 DEF DeferredInv, DeferredFits, LinkInv
  <2>2. ASSUME link' = link, subjects' = subjects, adopted' = adopted PROVE Ties' = Ties
    BY <2>2 DEF Ties
  <2>3. CASE StepTaken
    BY <2>1, <2>3, StepLinks
  <2>4. CASE LinkReturns
    <3>1. Ties' = Ties /\ remaining' = remaining
      BY <2>2, <2>4 DEF LinkReturns
    <3>. QED
      BY <2>1, <2>4, <3>1, LinkReturnsLinks
  <2>5. CASE CallbackReturns
    <3>1. Ties' = Ties /\ remaining' = remaining
      BY <2>2, <2>5 DEF CallbackReturns
    <3>. QED
      BY <2>1, <2>5, <3>1, CallbackReturnsLinks
  <2>6. ASSUME NEW l \in ListIds, PageAdds(l) PROVE TiesFit(Ties') /\ LinksFit(Ties', lists', frames', remaining')
    <3>1. Ties' = Ties /\ remaining' = remaining
      BY <2>2, <2>6 DEF PageAdds
    <3>. QED
      BY <2>1, <2>6, <3>1, PageAddsLinks
  <2>7. ASSUME NEW l \in ListIds, PageFires(l) PROVE TiesFit(Ties') /\ LinksFit(Ties', lists', frames', remaining')
    <3>1. Ties' = Ties /\ remaining' = remaining
      BY <2>2, <2>7 DEF PageFires
    <3>. QED
      BY <2>1, <2>7, <3>1, PageFiresLinks
  <2>8. CASE PageCallsThen
    <3>1. Links("then", {"first"}, ThenSteps) /\ {"first"} \in SUBSET {"first", "second"}
      BY <2>8 DEF PageCallsThen
    <3>. QED
      BY <2>1, <3>1, LinkedFits
  <2>9. CASE PageCallsWhen
    <3>1. PICK arguments \in {<<"first", "second">>, <<"first", "plain">>, <<"plain", "first">>} :
                 Links("when", {arguments[1], arguments[2]} \ {"plain"}, WhenSteps(arguments))
      BY <2>9 DEF PageCallsWhen
    <3>2. PICK on, steps : on = {arguments[1], arguments[2]} \ {"plain"} /\ steps = WhenSteps(arguments)
      OBVIOUS
    <3>3. on \in SUBSET {"first", "second"} /\ WhenStepsFit(on, steps)
      <4>1. CASE arguments = <<"first", "second">>
        <5>1. on = {"first", "second"}
          BY <3>2, <4>1
        <5>. QED
          BY <3>2, <4>1, <5>1, TwoListens
      <4>2. CASE arguments \in {<<"first", "plain">>, <<"plain", "first">>}
        <5>1. on = {"first"}
          BY <3>2, <4>2
        <5>. QED
          BY <3>2, <4>2, <5>1, OneListens
      <4>. QED
        BY <4>1, <4>2
    <3>. QED
      BY <2>1, <3>1, <3>2, <3>3, LinkedFits
  <2>10. ~ApplyThrows /\ ~CallbackThrows
    BY DEF ApplyThrows, CallbackThrows, Throw
  <2>. QED
    BY <1>2, <2>3, <2>4, <2>5, <2>6, <2>7, <2>8, <2>9, <2>10 DEF DeferredNext
<1>. QED
  BY <1>1, <1>2

(* Until a callback throws, what then and when have hung on the lists is    *)
(* there: each of their callbacks is on its list, called or about to be     *)
(* called or added; a list of done or fail dies by the firing of the other  *)
(* only; a promise nobody hung anything on is not settled; and the counter  *)
(* of when is the number of arguments that may still be counted             *)
(* (jquery-1.10.1.js:3222-3243,3294-3343).                                  *)
THEOREM LinkInvariance == DeferredSpec => []LinkInv
<1>1. DeferredInit => LinkInv
  BY NewTiesFit
<1>2. LinkInv /\ DeferredInv /\ DeferredInv' /\ [DeferredNext]_deferredVars => LinkInv'
  BY LinkStep
<1>. QED
  BY <1>1, <1>2, DeferredInvariance, PTL DEF DeferredSpec

(***************************************************************************)
(* What the page sees                                                      *)
(***************************************************************************)
LEMMA QuietStates ==
  ASSUME DeferredInv, Quiet, NEW d \in Deferreds
  PROVE  /\ settled[d] = "resolved" <=> lists[<<d, "done">>].fired
         /\ settled[d] = "rejected" <=> lists[<<d, "fail">>].fired
         /\ settled[d] \in {"pending", "resolved", "rejected"}
<1>1. \A kind \in Outcomes : <<d, kind>> \in SettlingIds
  BY LinkIds
<1>2. \A kind \in Outcomes : settled[d] = FinalState[kind] <=> lists[<<d, kind>>].fired
  BY <1>1, QuietLists
<1>3. FinalState["done"] = "resolved" /\ FinalState["fail"] = "rejected"
  BY DEF FinalState
<1>4. settled[d] \in {"pending", "resolved", "rejected"}
  BY DEF Quiet, DeferredInv, DeferredFits, StatesFit
<1>. QED
  BY <1>2, <1>3, <1>4 DEF Outcomes

LEMMA QuietHooks ==
  ASSUME DeferredInv, Quiet, LinkInv, NEW k \in SettlingIds, NEW kind \in Outcomes, NEW f,
         Reaches(lists, frames, k, f, Result(kind)), lists[k].fired
  PROVE  lists[Result(kind)].fired \/ lists[Result(Other[kind])].fired
<1>1. lists[k].alive /\ lists[k].list = <<>>
  BY QuietLists
<1>2. ~Ahead(lists[k], f)
  BY <1>1 DEF Ahead
<1>3. \A s : ~SomeOwe(frames, s)
  BY DEF Quiet, SomeOwe, Owes
<1>4. lists[Result(kind)].fired \/ ~lists[Result(kind)].alive
  BY <1>1, <1>2, <1>3 DEF Reaches
<1>5. Result(kind) \in SettlingIds /\ Opposite(Result(kind)) = Result(Other[kind])
  BY LinkIds
<1>6. DeathFits(lists)
  BY DEF LinkInv, Quiet, LinksFit
<1>. QED
  BY <1>4, <1>5, <1>6 DEF DeathFits

(* The promise of then takes the outcome of the deferred it hangs on, or of *)
(* the promise a callback returned instead, and it is settled as soon as    *)
(* these are: its callbacks are on their lists or about to be added as long *)
(* as they may be called, and nothing else settles it                      *)
(* (jquery-1.10.1.js:3222-3243).                                           *)
THEOREM ThenGivesTheOutcome == DeferredSpec => []ThenFollows
<1>1. ASSUME DeferredInv, LinkInv PROVE ThenFollows
  <2>. SUFFICES ASSUME Quiet, link = "then"
                PROVE  /\ ~adopted => settled["result"] = settled["first"]
                       /\ settled["result"] = "pending" => "pending" \in {settled["first"], settled["second"]}
                       /\ settled["result"] \in {"pending", settled["first"], settled["second"]}
    BY DEF ThenFollows
  <2>1. ThenFits(Ties, lists, frames) /\ Ties.link = "then" /\ Ties.adopted = adopted
    BY <1>1 DEF LinkInv, Quiet, LinksFit, Ties
  <2>2. /\ \A kind \in Outcomes :
             lists[Result(kind)].fired => \/ lists[<<"first", kind>>].fired
                                          \/ adopted /\ lists[<<"second", kind>>].fired
        /\ \/ \A kind \in Outcomes : Reaches(lists, frames, <<"first", kind>>, Forward(kind), Result(kind))
           \/ /\ adopted
              /\ \A kind \in Outcomes :
                   Reaches(lists, frames, <<"second", kind>>, Settles(Result(kind)), Result(kind))
    BY <2>1 DEF ThenFits
  <2>3. ASSUME NEW d \in {"first", "second"}, NEW kind \in Outcomes, NEW f,
               Reaches(lists, frames, <<d, kind>>, f, Result(kind)), lists[<<d, kind>>].fired
        PROVE  lists[Result("done")].fired \/ lists[Result("fail")].fired
    <3>1. <<d, kind>> \in SettlingIds /\ Other[kind] \in Outcomes
      BY LinkIds
    <3>. QED
      BY <1>1, <2>3, <3>1, QuietHooks DEF Outcomes
  <2>4. /\ \A d \in Deferreds : /\ settled[d] = "resolved" <=> lists[<<d, "done">>].fired
                                /\ settled[d] = "rejected" <=> lists[<<d, "fail">>].fired
                                /\ settled[d] \in {"pending", "resolved", "rejected"}
        /\ "first" \in Deferreds /\ "second" \in Deferreds /\ "result" \in Deferreds
    BY <1>1, QuietStates DEF Deferreds
  <2>5. /\ settled["result"] = "resolved" <=> lists[Result("done")].fired
        /\ settled["result"] = "rejected" <=> lists[Result("fail")].fired
    BY <2>4 DEF Result
  <2>6. ASSUME NEW d \in {"first", "second"}, settled[d] # "pending",
               \A kind \in Outcomes : \E f : Reaches(lists, frames, <<d, kind>>, f, Result(kind))
        PROVE  settled["result"] # "pending"
    <3>1. PICK kind \in Outcomes : lists[<<d, kind>>].fired
      BY <2>4, <2>6 DEF Outcomes
    <3>. QED
      BY <2>3, <2>5, <2>6, <3>1
  <2>7. settled["result"] = "pending" => settled["first"] = "pending" \/ (adopted /\ settled["second"] = "pending")
    BY <2>2, <2>6
  <2>8. /\ settled["result"] = "resolved" => settled["first"] = "resolved" \/ (adopted /\ settled["second"] = "resolved")
        /\ settled["result"] = "rejected" => settled["first"] = "rejected" \/ (adopted /\ settled["second"] = "rejected")
    BY <2>2, <2>4, <2>5 DEF Outcomes
  <2>9. settled["result"] \in {"pending", "resolved", "rejected"}
    BY <2>4
  <2>. QED
    BY <2>7, <2>8, <2>9
<1>. QED
  BY <1>1, DeferredInvariance, LinkInvariance, PTL

(* The promise of when is resolved exactly when its arguments all are, and  *)
(* rejected when one is: its counter is the number of arguments that have   *)
(* not been counted, each of which is counted once, and at zero it is       *)
(* resolved (jquery-1.10.1.js:3294-3343).                                  *)
THEOREM WhenGivesTheOutcome == DeferredSpec => []WhenCollects
<1>1. ASSUME DeferredInv, LinkInv PROVE WhenCollects
  <2>. SUFFICES ASSUME Quiet, link = "when"
                PROVE  /\ settled["result"] = "resolved" <=> \A d \in subjects : settled[d] = "resolved"
                       /\ settled["result"] = "rejected" <=> \E d \in subjects : settled[d] = "rejected"
    BY DEF WhenCollects
  <2>1. PICK h : h = Ties
    OBVIOUS
  <2>2. /\ h.link = "when" /\ h.subjects = subjects /\ TiesFit(h) /\ WhenFits(h, lists, frames, remaining)
        /\ DeathFits(lists)
    BY <1>1, <2>1 DEF LinkInv, Quiet, LinksFit, Ties
  <2>3. /\ lists[Result("fail")].fired => \E d \in subjects : lists[<<d, "fail">>].fired
        /\ lists[Result("done")].fired => \A d \in subjects : lists[<<d, "done">>].fired
        /\ \A d \in subjects :
             Reaches(lists, frames, <<d, "fail">>, Settles(Result("fail")), Result("fail"))
        /\ remaining = Waits(h, lists, frames)
        /\ remaining = 0 => \/ lists[Result("done")].fired \/ ~lists[Result("done")].alive
                            \/ Owes(frames, None, Decides)
    BY <2>2 DEF WhenFits
  <2>4. \A on, s : ~Owes(frames, on, s)
    BY DEF Quiet, Owes
  <2>5. /\ \A d \in Deferreds : /\ settled[d] = "resolved" <=> lists[<<d, "done">>].fired
                                /\ settled[d] = "rejected" <=> lists[<<d, "fail">>].fired
                                /\ settled[d] \in {"pending", "resolved", "rejected"}
        /\ "result" \in Deferreds /\ subjects \subseteq Deferreds
    BY <1>1, <2>2, QuietStates DEF Deferreds, TiesFit
  <2>6. /\ settled["result"] = "resolved" <=> lists[Result("done")].fired
        /\ settled["result"] = "rejected" <=> lists[Result("fail")].fired
    BY <2>5 DEF Result
  <2>7. \A d \in subjects, kind \in Outcomes : <<d, kind>> \in SettlingIds
    BY <2>5, LinkIds
  <2>8. Result("fail") \in SettlingIds /\ Result("done") \in SettlingIds /\ Opposite(Result("done")) = Result("fail")
        /\ "done" \in Outcomes /\ "fail" \in Outcomes /\ Other["fail"] = "done"
    BY LinkIds DEF Outcomes, Other
  <2>9. ASSUME NEW d \in subjects, settled[d] = "rejected" PROVE settled["result"] = "rejected"
    <3>1. lists[<<d, "fail">>].fired /\ ~lists[<<d, "done">>].fired
      BY <2>5, <2>9
    <3>2. lists[Result("fail")].fired \/ lists[Result("done")].fired
      BY <1>1, <2>3, <2>7, <2>8, <3>1, QuietHooks
    <3>. QED
      BY <2>3, <2>6, <3>1, <3>2
  <2>10. ASSUME \A d \in subjects : settled[d] = "resolved" PROVE settled["result"] = "resolved"
    <3>1. ASSUME NEW d \in subjects PROVE ~Awaited(lists, frames, <<d, "done">>)
      <4>1. PICK k : k = <<d, "done">>
        OBVIOUS
      <4>2. k \in SettlingIds /\ lists[k].fired
        BY <2>5, <2>7, <2>8, <2>10, <4>1
      <4>3. lists[k].alive /\ lists[k].list = <<>>
        BY <1>1, <4>2, QuietLists
      <4>4. ~Ahead(lists[k], Update)
        BY <4>3 DEF Ahead
      <4>. QED
        BY <2>4, <4>1, <4>3, <4>4 DEF Awaited, AddOwed, CountOwed
    <3>2. Waits(h, lists, frames) = 0
      BY <2>2, <2>4, <3>1 DEF Waits, One
    <3>3. lists[Result("done")].fired \/ ~lists[Result("done")].alive
      BY <2>3, <2>4, <3>2
    <3>4. lists[Result("done")].fired \/ lists[Result("fail")].fired
      BY <2>2, <2>8, <3>3 DEF DeathFits
    <3>5. ~lists[Result("fail")].fired
      <4>1. \A d \in subjects : ~lists[<<d, "fail">>].fired
        BY <2>5, <2>10
      <4>. QED
        BY <2>3, <4>1
    <3>. QED
      BY <2>6, <3>4, <3>5
  <2>11. settled["result"] = "resolved" => \A d \in subjects : settled[d] = "resolved"
    BY <2>3, <2>5, <2>6
  <2>12. settled["result"] = "rejected" => \E d \in subjects : settled[d] = "rejected"
    BY <2>3, <2>5, <2>6
  <2>. QED
    BY <2>9, <2>10, <2>11, <2>12
<1>. QED
  BY <1>1, DeferredInvariance, LinkInvariance, PTL

=============================================================================
