-------------------------- MODULE CallbacksProofs ---------------------------
(***************************************************************************)
(* Callback lists: a call of fire that waits is carried out, and a firing   *)
(* calls each callback of the list once, in order.                         *)
(***************************************************************************)
EXTENDS Callbacks, Induction, SequenceTheorems, FiniteSetTheorems

(***************************************************************************)
(* Calls of fire that have to wait                                         *)
(***************************************************************************)
ListFields == {"options", "list", "alive", "waiting", "repeat", "memory", "fired", "firing", "index", "length",
               "start", "cleared", "due", "dropped"}

(* A call of fire waits only while the list is being fired, and will be    *)
(* carried out; what is due and does not wait was dropped.                 *)
WaitFits(c) ==
  /\ DOMAIN c = ListFields
  /\ c.waiting \in Nat
  /\ c.dropped \in Nat /\ c.due = c.waiting + c.dropped
  /\ c.waiting > 0 => c.firing /\ c.alive /\ c.repeat
  /\ c.firing => c.fired

LEMMA NewFits == \A options : WaitFits(NewList(options)) /\ ~NewList(options).firing
BY DEF NewList, WaitFits, ListFields

LEMMA OthersFit ==
  ASSUME NEW c, WaitFits(c)
  PROVE  /\ WaitFits(Disabled(c)) /\ Disabled(c).firing = c.firing
         /\ WaitFits(Locked(c)) /\ Locked(c).firing = c.firing
         /\ WaitFits(Emptied(c)) /\ Emptied(c).firing = c.firing
         /\ \A f : WaitFits(Appended(c, f)) /\ Appended(c, f).firing = c.firing
         /\ \A f : WaitFits(Removed(c, f)) /\ Removed(c, f).firing = c.firing
<1>1. WaitFits(Disabled(c)) /\ Disabled(c).firing = c.firing
  BY DEF WaitFits, Disabled, StackDropped, ListFields
<1>2. WaitFits(Locked(c)) /\ Locked(c).firing = c.firing
  BY DEF WaitFits, Locked, Disabled, StackDropped, ListFields
<1>3. WaitFits(Emptied(c)) /\ Emptied(c).firing = c.firing
  BY DEF WaitFits, Emptied, ListFields
<1>4. \A f : WaitFits(Appended(c, f)) /\ Appended(c, f).firing = c.firing
  BY DEF WaitFits, Appended, ListFields
<1>5. \A f : WaitFits(Removed(c, f)) /\ Removed(c, f).firing = c.firing
  BY DEF WaitFits, Removed, ListFields
<1>. QED
  BY <1>1, <1>2, <1>3, <1>4, <1>5

LEMMA StartedFits ==
  ASSUME NEW c, DOMAIN c = ListFields, c.waiting \in Nat, c.dropped \in Nat, c.due = c.waiting + c.dropped,
         c.waiting > 0 => c.alive /\ c.repeat
  PROVE  WaitFits(Started(c)) /\ Started(c).firing /\ Started(c).waiting = c.waiting
BY DEF WaitFits, Started, ListFields

(* The end of one firing: fewer calls wait, or the list is at rest. *)
LEMMA FinishedFits ==
  ASSUME NEW c, WaitFits(c), c.firing
  PROVE  /\ WaitFits(Finished(c))
         /\ ~Finished(c).firing \/ Finished(c).waiting = c.waiting - 1
<1>. DEFINE idle == [c EXCEPT !.firing = FALSE, !.cleared = FALSE]
            next == [idle EXCEPT !.waiting = @ - 1, !.due = @ - 1]
<1>1. /\ DOMAIN idle = ListFields /\ ~idle.firing /\ idle.waiting = c.waiting
      /\ idle.due = c.due /\ idle.dropped = c.dropped /\ idle.alive = c.alive /\ idle.repeat = c.repeat /\ idle.memory = c.memory
  BY DEF WaitFits, ListFields
<1>2. /\ DOMAIN next = ListFields /\ next.waiting = c.waiting - 1
      /\ next.due = c.due - 1 /\ next.dropped = c.dropped
      /\ next.alive = c.alive /\ next.repeat = c.repeat
  BY <1>1 DEF ListFields
<1>3. CASE ~c.alive
  BY <1>1, <1>3 DEF Finished, WaitFits
<1>4. CASE c.alive /\ c.repeat /\ c.waiting > 0
  <2>1. Finished(c) = Started(next)
    BY <1>4 DEF Finished
  <2>2. next.waiting \in Nat /\ next.dropped \in Nat /\ next.due = next.waiting + next.dropped
    BY <1>2, <1>4 DEF WaitFits
  <2>. HIDE DEF next, idle
  <2>. QED
    BY <1>2, <1>4, <2>1, <2>2, StartedFits
<1>5. CASE c.alive /\ c.repeat /\ ~(c.waiting > 0)
  BY <1>1, <1>5 DEF Finished, WaitFits
<1>6. CASE c.alive /\ ~c.repeat
  <2>1. c.waiting = 0
    BY <1>6 DEF WaitFits
  <2>. QED
    BY <1>1, <1>6, <2>1 DEF Finished, WaitFits, Disabled, StackDropped, ListFields
<1>. QED
  BY <1>3, <1>4, <1>5, <1>6

(* The loop of fire is what its definition says: firing after firing, until *)
(* there is a callback to call or none waits.                              *)
LEMMA ContinuedSteps ==
  ASSUME NEW c, c.waiting \in Nat
  PROVE  \E after : /\ after[0] = c /\ Continued(c) = after[c.waiting + 1]
                    /\ \A n \in 1 .. c.waiting + 1 :
                         after[n] = IF Pauses(after[n - 1]) THEN after[n - 1] ELSE Finished(after[n - 1])
<1>. DEFINE N == c.waiting + 1
            Next(x) == IF Pauses(x) THEN x ELSE Finished(x)
            Runs(g, n) == g = [m \in 0 .. n |-> IF m = 0 THEN c ELSE Next(g[m - 1])]
            S == {n \in 0 .. N : \E g : Runs(g, n)}
<1>1. N \in Nat
  OBVIOUS
<1>2. Continued(c) = (CHOOSE g : Runs(g, N))[N]
  BY DEF Continued
<1>. HIDE DEF N, Next
<1>3. 0 \in S
  <2>. DEFINE g == [m \in 0 .. 0 |-> c]
  <2>1. Runs(g, 0)
    OBVIOUS
  <2>. HIDE DEF Runs, g
  <2>. QED
    BY <1>1, <2>1
<1>4. ASSUME NEW n \in 1 .. N, n - 1 \in S PROVE n \in S
  <2>1. PICK g : Runs(g, n - 1)
    BY <1>4
  <2>. DEFINE h == [m \in 0 .. n |-> IF m = n THEN Next(g[n - 1]) ELSE g[m]]
  <2>2. ASSUME NEW m \in 0 .. n PROVE h[m] = IF m = 0 THEN c ELSE Next(h[m - 1])
    <3>1. CASE m = n
      <4>1. h[m] = Next(g[n - 1]) /\ h[n - 1] = g[n - 1] /\ n # 0
        BY <3>1, <1>1
      <4>. QED
        BY <3>1, <4>1
    <3>2. CASE m # n
      <4>1. m \in 0 .. n - 1 /\ (m # 0 => m - 1 \in 0 .. n /\ m - 1 # n)
        BY <1>1, <3>2
      <4>2. h[m] = g[m] /\ (m # 0 => h[m - 1] = g[m - 1])
        BY <3>2, <4>1
      <4>3. g[m] = IF m = 0 THEN c ELSE Next(g[m - 1])
        BY <2>1, <4>1
      <4>. QED
        BY <4>2, <4>3
    <3>. QED
      BY <3>1, <3>2
  <2>3. Runs(h, n)
    BY <2>2
  <2>. HIDE DEF Runs, h
  <2>. QED
    BY <1>1, <2>3
<1>5. N \in S
  <2>. HIDE DEF S
  <2>. QED
    BY <1>1, <1>3, <1>4, StepByStep
<1>6. PICK after : after = (CHOOSE g : Runs(g, N))
  OBVIOUS
<1>7. Runs(after, N)
  BY <1>5, <1>6
<1>8. /\ after[0] = c
      /\ \A n \in 1 .. N : after[n] = Next(after[n - 1])
  BY <1>1, <1>7
<1>9. Continued(c) = after[c.waiting + 1]
  BY <1>2, <1>6 DEF N
<1>10. \A n \in 1 .. c.waiting + 1 :
         after[n] = IF Pauses(after[n - 1]) THEN after[n - 1] ELSE Finished(after[n - 1])
  BY <1>8 DEF N, Next
<1>. QED
  BY <1>8, <1>9, <1>10

LEMMA ContinuedFits ==
  ASSUME NEW c, WaitFits(c)
  PROVE  WaitFits(Continued(c)) /\ Pauses(Continued(c))
<1>1. c.waiting \in Nat
  BY DEF WaitFits
<1>2. PICK after : /\ after[0] = c /\ Continued(c) = after[c.waiting + 1]
                   /\ \A n \in 1 .. c.waiting + 1 :
                        after[n] = IF Pauses(after[n - 1]) THEN after[n - 1] ELSE Finished(after[n - 1])
  BY <1>1, ContinuedSteps
<1>. DEFINE S == {n \in 0 .. c.waiting + 1 : /\ WaitFits(after[n])
                                             /\ Pauses(after[n]) \/ after[n].waiting + n <= c.waiting}
<1>3. 0 \in S
  BY <1>1, <1>2
<1>4. ASSUME NEW n \in 1 .. c.waiting + 1, n - 1 \in S PROVE n \in S
  <2>1. PICK x : x = after[n - 1]
    OBVIOUS
  <2>2. WaitFits(x) /\ (Pauses(x) \/ x.waiting + (n - 1) <= c.waiting)
    BY <1>4, <2>1
  <2>3. CASE Pauses(x)
    BY <1>2, <2>1, <2>2, <2>3
  <2>4. CASE ~Pauses(x)
    <3>1. x.firing /\ x.waiting \in Nat
      BY <2>2, <2>4 DEF Pauses, WaitFits
    <3>2. after[n] = Finished(x)
      BY <1>2, <2>1, <2>4
    <3>3. WaitFits(after[n]) /\ (~after[n].firing \/ after[n].waiting = x.waiting - 1)
      BY <2>2, <3>1, <3>2, FinishedFits
    <3>. QED
      BY <1>1, <2>2, <2>4, <3>1, <3>3 DEF Pauses
  <2>. QED
    BY <2>3, <2>4
<1>5. c.waiting + 1 \in S
  <2>1. c.waiting + 1 \in Nat /\ c.waiting + 1 \in 0 .. c.waiting + 1
    BY <1>1
  <2>. HIDE DEF S
  <2>. QED
    BY <1>3, <1>4, <2>1, StepByStep
<1>6. WaitFits(after[c.waiting + 1]) /\ after[c.waiting + 1].waiting \in Nat
  BY <1>5 DEF WaitFits
<1>. QED
  BY <1>1, <1>2, <1>5, <1>6

(* A stack of calls: each is of one of these lists, no list that there is   *)
(* has two, and those that have one are being fired.                       *)
IsStack(stack, ids) ==
  /\ \E S : stack \in Seq(S)
  /\ \A i \in 1 .. Len(stack) : DOMAIN stack[i] = {"on", "calls", "steps"} /\ stack[i].on \in ids

OnStack(l, stack) == \E i \in 1 .. Len(stack) : stack[i].on = l

Distinct(stack, ls) ==
  \A i, j \in 1 .. Len(stack) : stack[i].on = stack[j].on /\ stack[i].on \in DOMAIN ls => i = j

FiringFits(ls, stack, ids) ==
  /\ \A l \in DOMAIN ls : WaitFits(ls[l])
  /\ IsStack(stack, ids) /\ DOMAIN ls \subseteq ids
  /\ Distinct(stack, ls)
  /\ \A l \in DOMAIN ls : ls[l].firing <=> OnStack(l, stack)

(* The stack with one more call on it. *)
WithOneMore(pushed, x, stack) ==
  /\ Len(stack) \in Nat /\ Len(pushed) = Len(stack) + 1
  /\ pushed[1] = x
  /\ \A i \in 1 .. Len(pushed) : i = 1 \/ (i - 1 \in 1 .. Len(stack) /\ pushed[i] = stack[i - 1])
  /\ \A i \in 1 .. Len(stack) : i + 1 \in 1 .. Len(pushed) /\ pushed[i + 1] = stack[i]

LEMMA Pushed ==
  ASSUME NEW ids, NEW stack, IsStack(stack, ids), NEW x, DOMAIN x = {"on", "calls", "steps"},
         NEW on \in ids, x.on = on, NEW pushed, pushed = <<x>> \o stack
  PROVE  IsStack(pushed, ids) /\ WithOneMore(pushed, x, stack)
<1>1. PICK S : stack \in Seq(S)
  BY DEF IsStack
<1>2. PICK T : T = S \cup {x}
  OBVIOUS
<1>3. stack \in Seq(T) /\ <<x>> \in Seq(T) /\ Len(<<x>>) = 1 /\ Len(stack) \in Nat
  BY <1>1, <1>2, SeqMonotonic
<1>5. /\ pushed \in Seq(T) /\ Len(pushed) = 1 + Len(stack)
      /\ \A i \in 1 .. 1 + Len(stack) : pushed[i] = IF i <= 1 THEN <<x>>[i] ELSE stack[i - 1]
  BY <1>3, ConcatProperties
<1>6. /\ pushed[1] = x /\ \A i \in 1 .. Len(stack) : pushed[i + 1] = stack[i] /\ i + 1 \in 1 .. Len(pushed)
      /\ 1 \in 1 .. Len(pushed)
      /\ \A i \in 1 .. Len(pushed) : i = 1 \/ (i - 1 \in 1 .. Len(stack) /\ pushed[i] = stack[i - 1])
  BY <1>3, <1>5
<1>7. IsStack(pushed, ids)
  <2>1. ASSUME NEW i \in 1 .. Len(pushed)
        PROVE  DOMAIN pushed[i] = {"on", "calls", "steps"} /\ pushed[i].on \in ids
    BY <1>6 DEF IsStack
  <2>. QED
    BY <1>5, <2>1 DEF IsStack
<1>. QED
  BY <1>3, <1>5, <1>6, <1>7 DEF WithOneMore

LEMMA Unstacked ==
  ASSUME NEW ids, NEW stack, IsStack(stack, ids), stack # <<>>, NEW on, on = stack[1].on
  PROVE  /\ Head(stack) = stack[1] /\ DOMAIN stack[1] = {"on", "calls", "steps"} /\ on \in ids
         /\ IsStack(Tail(stack), ids)
         /\ Len(stack) \in Nat \ {0} /\ Len(Tail(stack)) = Len(stack) - 1
         /\ \A i \in 1 .. Len(Tail(stack)) : Tail(stack)[i] = stack[i + 1] /\ i + 1 \in 1 .. Len(stack)
         /\ \A i \in 1 .. Len(stack) : i = 1 \/ (i - 1 \in 1 .. Len(Tail(stack)) /\ Tail(stack)[i - 1] = stack[i])
<1>1. PICK S : stack \in Seq(S)
  BY DEF IsStack
<1>2. PICK rest : rest = Tail(stack)
  OBVIOUS
<1>3. /\ rest \in Seq(S) /\ Len(rest) = Len(stack) - 1 /\ Len(stack) \in Nat \ {0}
      /\ \A i \in 1 .. Len(rest) : rest[i] = stack[i + 1]
  BY <1>1, <1>2, HeadTailProperties, EmptySeq
<1>4. \A i \in 1 .. Len(rest) : i + 1 \in 1 .. Len(stack)
  BY <1>3
<1>5. 1 \in 1 .. Len(stack) /\ \A i \in 1 .. Len(stack) : i = 1 \/ (i - 1 \in 1 .. Len(rest) /\ rest[i - 1] = stack[i])
  BY <1>3
<1>6. IsStack(rest, ids) /\ DOMAIN stack[1] = {"on", "calls", "steps"} /\ stack[1].on \in ids
  BY <1>3, <1>4, <1>5 DEF IsStack
<1>7. Head(stack) = stack[1]
  BY <1>1
<1>. QED
  BY <1>2, <1>3, <1>4, <1>5, <1>6, <1>7

(* A list that has no call takes a new value, and perhaps a call. *)
LEMMA SettleFits ==
  ASSUME NEW ids, NEW outer, NEW l \in DOMAIN lists, NEW c, WaitFits(c), Settle(l, c, outer),
         \A k \in DOMAIN lists : WaitFits(lists[k]),
         IsStack(outer, ids), DOMAIN lists \subseteq ids, Distinct(outer, lists), ~OnStack(l, outer),
         \A k \in DOMAIN lists : k # l => (lists[k].firing <=> OnStack(k, outer))
  PROVE  FiringFits(lists', frames', ids) /\ DOMAIN lists' = DOMAIN lists
<1>1. /\ DOMAIN lists' = DOMAIN lists /\ lists'[l] = c
      /\ \A k \in DOMAIN lists : k # l => lists'[k] = lists[k]
  BY DEF Settle
<1>2. CASE ~c.firing
  <2>1. frames' = outer
    BY <1>2 DEF Settle
  <2>. QED
    BY <1>1, <1>2, <2>1 DEF FiringFits, Distinct
<1>3. CASE c.firing
  <2>1. PICK x : x = [on |-> l, calls |-> c.list[c.index + 1], steps |-> c.list[c.index + 1].steps]
    OBVIOUS
  <2>2. frames' = <<x>> \o outer /\ DOMAIN x = {"on", "calls", "steps"} /\ x.on = l /\ l \in ids
    BY <1>3, <2>1 DEF Settle
  <2>3. IsStack(frames', ids) /\ WithOneMore(frames', x, outer)
    <3>1. PICK pushed : pushed = <<x>> \o outer
      OBVIOUS
    <3>2. IsStack(pushed, ids) /\ WithOneMore(pushed, x, outer)
      BY <2>2, <3>1, Pushed
    <3>. QED
      BY <2>2, <3>1, <3>2
  <2>4. ASSUME NEW i \in 1 .. Len(frames'), NEW j \in 1 .. Len(frames'), frames'[i].on = frames'[j].on,
               frames'[i].on \in DOMAIN lists
        PROVE  i = j
    <3>1. \A k \in 1 .. Len(outer) : outer[k].on # l
      BY DEF OnStack
    <3>2. CASE i # 1 /\ j # 1
      <4>1. i - 1 \in 1 .. Len(outer) /\ j - 1 \in 1 .. Len(outer) /\ frames'[i] = outer[i - 1] /\ frames'[j] = outer[j - 1]
        BY <2>3, <3>2 DEF WithOneMore
      <4>2. i - 1 = j - 1
        BY <2>4, <4>1 DEF Distinct
      <4>. QED
        BY <4>2
    <3>. QED
      BY <2>2, <2>3, <2>4, <3>1, <3>2 DEF WithOneMore
  <2>5. \A k : OnStack(k, frames') <=> k = l \/ OnStack(k, outer)
    <3>1. frames'[1].on = l /\ 1 \in 1 .. Len(frames')
      BY <2>2, <2>3 DEF WithOneMore
    <3>. QED
      BY SMTT(30), <2>3, <3>1 DEF OnStack, WithOneMore
  <2>6. Distinct(frames', lists')
    BY <1>1, <2>4 DEF Distinct
  <2>7. ASSUME NEW k \in DOMAIN lists PROVE WaitFits(lists'[k]) /\ (lists'[k].firing <=> OnStack(k, frames'))
    BY <1>1, <1>3, <2>5
  <2>. QED
    BY <1>1, <2>3, <2>6, <2>7 DEF FiringFits
<1>. QED
  BY <1>2, <1>3

(* A list that goes on being fired, or not, takes a new value.              *)
LEMMA KeepFits ==
  ASSUME NEW ids, NEW outer, NEW l \in DOMAIN lists, NEW c, WaitFits(c), c.firing = lists[l].firing,
         Keep(l, c, outer), FiringFits(lists, outer, ids)
  PROVE  FiringFits(lists', frames', ids) /\ DOMAIN lists' = DOMAIN lists
<1>1. /\ DOMAIN lists' = DOMAIN lists /\ lists'[l] = c /\ frames' = outer
      /\ \A k \in DOMAIN lists : k # l => lists'[k] = lists[k]
  BY DEF Keep
<1>. QED
  BY <1>1 DEF FiringFits, Distinct

(* The operations of a list. *)
LEMMA OperationsFit ==
  ASSUME NEW ids, NEW outer, NEW l \in DOMAIN lists, FiringFits(lists, outer, ids),
         \/ \E f : Add(l, f, outer)
         \/ \E f : RemoveFrom(l, f, outer)
         \/ FireWith(l, outer) \/ Empty(l, outer) \/ Disable(l, outer) \/ Lock(l, outer)
  PROVE  FiringFits(lists', frames', ids) /\ DOMAIN lists' = DOMAIN lists
<1>. DEFINE Goal == FiringFits(lists', frames', ids) /\ DOMAIN lists' = DOMAIN lists
<1>1. PICK c : c = lists[l]
  OBVIOUS
<1>2. WaitFits(c) /\ DOMAIN c = ListFields /\ (c.firing <=> OnStack(l, outer)) /\ c.waiting \in Nat
  BY <1>1 DEF FiringFits, WaitFits
<1>3. ASSUME NEW d, WaitFits(d), d.firing = c.firing, Keep(l, d, outer) PROVE Goal
  BY <1>1, <1>3, KeepFits
<1>4. ASSUME ~c.firing, NEW d, WaitFits(d), Settle(l, Continued(d), outer) PROVE Goal
  <2>1. WaitFits(Continued(d))
    BY <1>4, ContinuedFits
  <2>. QED
    BY <1>2, <1>4, <2>1, SettleFits DEF FiringFits
<1>. HIDE DEF Goal
<1>5. ASSUME NEW f, Add(l, f, outer) PROVE Goal
  <2>1. PICK grown : grown = Appended(c, f)
    OBVIOUS
  <2>2. WaitFits(grown) /\ grown.firing = c.firing
    BY <1>2, <2>1, OthersFit
  <2>3. CASE ~c.alive
    <3>1. Keep(l, c, outer)
      BY <1>1, <1>5, <2>3 DEF Add
    <3>. QED
      BY <1>2, <1>3, <3>1
  <2>4. CASE c.alive /\ c.firing
    <3>1. PICK d : d = [grown EXCEPT !.length = Len(grown.list)]
      OBVIOUS
    <3>2. Keep(l, d, outer)
      BY <1>1, <1>5, <2>1, <2>4, <3>1 DEF Add
    <3>3. WaitFits(d) /\ d.firing = c.firing
      BY <2>2, <3>1 DEF WaitFits, ListFields
    <3>. QED
      BY <1>3, <3>2, <3>3
  <2>5. CASE c.alive /\ ~c.firing /\ c.memory
    <3>1. PICK d : d = [grown EXCEPT !.start = Len(c.list)]
      OBVIOUS
    <3>2. Settle(l, Continued(Started(d)), outer)
      BY <1>1, <1>5, <2>1, <2>5, <3>1 DEF Add
    <3>3. DOMAIN d = ListFields /\ d.waiting \in Nat /\ ~(d.waiting > 0) /\ d.dropped \in Nat /\ d.due = d.waiting + d.dropped
      BY <2>2, <2>5, <3>1 DEF WaitFits, ListFields
    <3>4. WaitFits(Started(d))
      BY <3>3, StartedFits
    <3>. QED
      BY <1>4, <2>5, <3>2, <3>4
  <2>6. CASE c.alive /\ ~c.firing /\ ~c.memory
    <3>1. Keep(l, grown, outer)
      BY <1>1, <1>5, <2>1, <2>6 DEF Add
    <3>. QED
      BY <1>3, <2>2, <3>1
  <2>. QED
    BY <2>3, <2>4, <2>5, <2>6
<1>6. ASSUME NEW f, RemoveFrom(l, f, outer) PROVE Goal
  <2>1. PICK d : d = (IF c.alive THEN Removed(c, f) ELSE c)
    OBVIOUS
  <2>2. WaitFits(d) /\ d.firing = c.firing
    BY <1>2, <2>1, OthersFit
  <2>3. Keep(l, d, outer)
    BY <1>1, <1>6, <2>1 DEF RemoveFrom
  <2>. QED
    BY <1>3, <2>2, <2>3
<1>7. ASSUME FireWith(l, outer) PROVE Goal
  <2>1. CASE ~c.alive \/ (c.fired /\ ~c.repeat)
    <3>1. Keep(l, c, outer)
      BY <1>1, <1>7, <2>1 DEF FireWith
    <3>. QED
      BY <1>2, <1>3, <3>1
  <2>2. CASE ~(~c.alive \/ (c.fired /\ ~c.repeat)) /\ c.firing
    <3>1. PICK d : d = [c EXCEPT !.waiting = @ + 1, !.due = @ + 1]
      OBVIOUS
    <3>2. Keep(l, d, outer)
      BY <1>1, <1>7, <2>2, <3>1 DEF FireWith
    <3>3. c.alive /\ c.repeat /\ c.fired
      BY <1>2, <2>2 DEF WaitFits
    <3>4. /\ DOMAIN d = ListFields /\ d.waiting \in Nat /\ d.firing = c.firing
          /\ d.dropped \in Nat /\ d.due = d.waiting + d.dropped
          /\ d.alive = c.alive /\ d.repeat = c.repeat /\ d.fired = c.fired
      BY <1>2, <3>1 DEF WaitFits, ListFields
    <3>5. WaitFits(d)
      BY <2>2, <3>3, <3>4 DEF WaitFits
    <3>. QED
      BY <1>3, <3>2, <3>4, <3>5
  <2>3. CASE ~(~c.alive \/ (c.fired /\ ~c.repeat)) /\ ~c.firing
    <3>1. Settle(l, Continued(Started(c)), outer)
      BY <1>1, <1>7, <2>3 DEF FireWith
    <3>2. WaitFits(Started(c))
      BY <1>2, <2>3, StartedFits DEF WaitFits
    <3>. QED
      BY <1>4, <2>3, <3>1, <3>2
  <2>. QED
    BY <2>1, <2>2, <2>3
<1>8. ASSUME Empty(l, outer) \/ Disable(l, outer) \/ Lock(l, outer) PROVE Goal
  <2>1. \/ Keep(l, Emptied(c), outer) \/ Keep(l, Disabled(c), outer) \/ Keep(l, Locked(c), outer)
    BY <1>1, <1>8 DEF Empty, Disable, Lock
  <2>. QED
    BY <1>2, <1>3, <2>1, OthersFit
<1>. QED
  BY <1>5, <1>6, <1>7, <1>8 DEF Goal

(* The running call of fire goes on with a list, and may end. *)
LEMMA ReturnFits ==
  ASSUME NEW ids, FiringFits(lists, frames, ids), frames # <<>>, Top.on \in DOMAIN lists,
         NEW c, WaitFits(c), Settle(Top.on, c, Tail(frames))
  PROVE  FiringFits(lists', frames', ids) /\ DOMAIN lists' = DOMAIN lists
<1>1. PICK l : l = frames[1].on
  OBVIOUS
<1>2. IsStack(frames, ids)
  BY DEF FiringFits
<1>3. PICK rest : rest = Tail(frames)
  OBVIOUS
<1>4. /\ Head(frames) = frames[1]
      /\ IsStack(rest, ids)
      /\ Len(frames) \in Nat \ {0} /\ Len(rest) = Len(frames) - 1
      /\ \A i \in 1 .. Len(rest) : rest[i] = frames[i + 1] /\ i + 1 \in 1 .. Len(frames)
      /\ \A i \in 1 .. Len(frames) : i = 1 \/ (i - 1 \in 1 .. Len(rest) /\ rest[i - 1] = frames[i])
  BY <1>1, <1>2, <1>3, Unstacked
<1>5. Top.on = l /\ l \in DOMAIN lists /\ 1 \in 1 .. Len(frames)
  BY <1>1, <1>4 DEF Top
<1>6. ASSUME NEW i \in 1 .. Len(rest), NEW j \in 1 .. Len(rest), rest[i].on = rest[j].on, rest[i].on \in DOMAIN lists
      PROVE  i = j
  <2>1. i + 1 = j + 1
    BY <1>4, <1>6 DEF FiringFits, Distinct
  <2>. QED
    BY <2>1
<1>7. ASSUME NEW i \in 1 .. Len(rest), rest[i].on = l PROVE FALSE
  <2>1. i + 1 = 1
    BY <1>1, <1>4, <1>5, <1>7 DEF FiringFits, Distinct
  <2>. QED
    BY <2>1
<1>8. ASSUME NEW k \in DOMAIN lists, k # l PROVE lists[k].firing <=> OnStack(k, rest)
  <2>1. OnStack(k, frames) <=> OnStack(k, rest)
    BY <1>1, <1>4, <1>8 DEF OnStack
  <2>. QED
    BY <2>1 DEF FiringFits
<1>9. Settle(l, c, rest)
  BY <1>3, <1>5
<1>10. Distinct(rest, lists) /\ ~OnStack(l, rest)
  BY <1>6, <1>7 DEF Distinct, OnStack
<1>. QED
  BY <1>4, <1>5, <1>8, <1>9, <1>10, SettleFits DEF FiringFits

LEMMA ReturnsFit ==
  ASSUME NEW ids, FiringFits(lists, frames, ids), Return \/ ReturnFalse, Top.on \in DOMAIN lists
  PROVE  FiringFits(lists', frames', ids) /\ DOMAIN lists' = DOMAIN lists
<1>1. PICK c : c = TopList
  OBVIOUS
<1>2. WaitFits(c) /\ frames # <<>>
  BY <1>1 DEF FiringFits, TopList, Return, ReturnFalse
<1>3. c.firing
  <2>1. Len(frames) \in Nat \ {0} /\ Head(frames) = frames[1]
    BY <1>2, Unstacked DEF FiringFits
  <2>2. OnStack(Top.on, frames)
    BY <2>1 DEF OnStack, Top
  <2>. QED
    BY <1>1, <2>2 DEF FiringFits, TopList
<1>4. CASE Return
  <2>1. PICK d : d = [c EXCEPT !.index = @ + 1]
    OBVIOUS
  <2>2. WaitFits(d)
    BY <1>2, <2>1 DEF WaitFits, ListFields
  <2>3. Settle(Top.on, Continued(d), Tail(frames))
    BY <1>1, <1>4, <2>1 DEF Return
  <2>. QED
    BY <1>2, <2>2, <2>3, ContinuedFits, ReturnFits
<1>5. CASE ReturnFalse
  <2>1. PICK d : d = [c EXCEPT !.memory = FALSE]
    OBVIOUS
  <2>2. WaitFits(d) /\ d.firing
    BY <1>2, <1>3, <2>1 DEF WaitFits, ListFields
  <2>3. WaitFits(Continued(Finished(d)))
    BY <2>2, FinishedFits, ContinuedFits
  <2>4. Settle(Top.on, Continued(Finished(d)), Tail(frames))
    BY <1>1, <1>5, <2>1 DEF ReturnFalse
  <2>. QED
    BY <1>2, <2>3, <2>4, ReturnFits
<1>. QED
  BY <1>4, <1>5

LEMMA NothingOnTheStack == \A ids : IsStack(<<>>, ids)
BY EmptySeq DEF IsStack

LEMMA QuietMeansCarriedOut ==
  ASSUME NEW ids, threw \/ FiringFits(lists, frames, ids)
  PROVE  FiresAreCarriedOut
<1>. SUFFICES ASSUME frames = <<>>, ~threw, NEW l \in DOMAIN lists
              PROVE  ~lists[l].firing /\ lists[l].due = lists[l].dropped
  BY DEF FiresAreCarriedOut
<1>1. ~OnStack(l, frames)
  BY DEF OnStack
<1>. QED
  BY <1>1 DEF FiringFits, WaitFits

(***************************************************************************)
(* The lists of a page                                                     *)
(***************************************************************************)
ListsFit == threw \/ FiringFits(lists, frames, DOMAIN lists)

(* Until a callback throws, the lists that are being fired are those with a *)
(* call on the stack, each with one (jquery-1.10.1.js:3066-3091).          *)
THEOREM FiringInvariance == CallbacksSpec => []ListsFit
<1>1. CallbacksInit => ListsFit
  <2>. SUFFICES ASSUME CallbacksInit PROVE FiringFits(lists, frames, DOMAIN lists)
    BY DEF ListsFit
  <2>1. frames = <<>> /\ \A l \in DOMAIN lists : WaitFits(lists[l]) /\ ~lists[l].firing
    BY NewFits DEF CallbacksInit
  <2>2. \A l : ~OnStack(l, frames)
    BY <2>1 DEF OnStack
  <2>. QED
    BY <2>1, <2>2, NothingOnTheStack DEF FiringFits, Distinct
<1>2. ListsFit /\ [CallbacksNext]_callbackVars => ListsFit'
  <2>. SUFFICES ASSUME FiringFits(lists, frames, DOMAIN lists), CallbacksNext
                PROVE  threw' \/ FiringFits(lists', frames', DOMAIN lists')
    <3>1. CASE threw /\ CallbacksNext
      BY <3>1 DEF ListsFit, CallbacksNext, Return, ReturnFalse, Throw, Call
    <3>2. CASE UNCHANGED callbackVars
      BY <3>2 DEF ListsFit, callbackVars, FiringFits, Distinct
    <3>. QED
      BY <3>1, <3>2 DEF ListsFit
  <2>1. CASE Return \/ ReturnFalse
    <3>1. Top.on \in DOMAIN lists
      BY <2>1, Unstacked DEF FiringFits, Return, ReturnFalse, Top
    <3>. QED
      BY <2>1, <3>1, ReturnsFit
  <2>2. CASE Throw
    BY <2>2 DEF Throw
  <2>3. ASSUME NEW l \in DOMAIN lists,
               \/ \E f \in UserCallbacks : Call(Add(l, f, frames)) \/ Call(RemoveFrom(l, f, frames))
               \/ Call(FireWith(l, frames))
               \/ Call(Empty(l, frames)) \/ Call(Disable(l, frames)) \/ Call(Lock(l, frames))
        PROVE  threw' \/ FiringFits(lists', frames', DOMAIN lists')
    <3>1. \/ \E f : Add(l, f, frames)
          \/ \E f : RemoveFrom(l, f, frames)
          \/ FireWith(l, frames) \/ Empty(l, frames) \/ Disable(l, frames) \/ Lock(l, frames)
      BY <2>3 DEF Call
    <3>. QED
      BY <3>1, OperationsFit
  <2>. QED
    BY <2>1, <2>2, <2>3 DEF CallbacksNext
<1>. QED
  BY <1>1, <1>2, PTL DEF CallbacksSpec

(* When a script is over and no callback threw, each call of fire that had  *)
(* to wait has been carried out, or was dropped by lock or disable, and no  *)
(* list is left firing (jquery-1.10.1.js:3072-3084,3158-3173).             *)
THEOREM WaitingCallsAreAccountedFor == CallbacksSpec => []FiresAreCarriedOut
<1>1. ListsFit => FiresAreCarriedOut
  BY QuietMeansCarriedOut DEF ListsFit
<1>. QED
  BY <1>1, FiringInvariance, PTL

(***************************************************************************)
(* Callbacks that are taken from a list                                    *)
(***************************************************************************)
LEMMA WithoutSteps ==
  ASSUME NEW s, NEW f, Len(s) \in Nat
  PROVE  \E kept : /\ kept[0] = <<>> /\ Without(s, f) = kept[Len(s)]
                   /\ \A n \in 1 .. Len(s) :
                        kept[n] = IF s[n] = f THEN kept[n - 1] ELSE Append(kept[n - 1], s[n])
<1>. DEFINE N == Len(s)
            Next(x, n) == IF s[n] = f THEN x ELSE Append(x, s[n])
            Keeps(g, n) == g = [m \in 0 .. n |-> IF m = 0 THEN <<>> ELSE Next(g[m - 1], m)]
            S == {n \in 0 .. N : \E g : Keeps(g, n)}
<1>1. N \in Nat
  OBVIOUS
<1>2. Without(s, f) = (CHOOSE g : Keeps(g, N))[N]
  BY DEF Without
<1>. HIDE DEF N, Next
<1>3. 0 \in S
  <2>. DEFINE g == [m \in 0 .. 0 |-> <<>>]
  <2>1. Keeps(g, 0)
    OBVIOUS
  <2>. HIDE DEF Keeps, g
  <2>. QED
    BY <1>1, <2>1
<1>4. ASSUME NEW n \in 1 .. N, n - 1 \in S PROVE n \in S
  <2>1. PICK g : Keeps(g, n - 1)
    BY <1>4
  <2>. DEFINE h == [m \in 0 .. n |-> IF m = n THEN Next(g[n - 1], n) ELSE g[m]]
  <2>2. ASSUME NEW m \in 0 .. n PROVE h[m] = IF m = 0 THEN <<>> ELSE Next(h[m - 1], m)
    <3>1. CASE m = n
      <4>1. h[m] = Next(g[n - 1], n) /\ h[n - 1] = g[n - 1] /\ n # 0
        BY <3>1, <1>1
      <4>. QED
        BY <3>1, <4>1
    <3>2. CASE m # n
      <4>1. m \in 0 .. n - 1 /\ (m # 0 => m - 1 \in 0 .. n /\ m - 1 # n)
        BY <1>1, <3>2
      <4>2. h[m] = g[m] /\ (m # 0 => h[m - 1] = g[m - 1])
        BY <3>2, <4>1
      <4>3. g[m] = IF m = 0 THEN <<>> ELSE Next(g[m - 1], m)
        BY <2>1, <4>1
      <4>. QED
        BY <4>2, <4>3
    <3>. QED
      BY <3>1, <3>2
  <2>3. Keeps(h, n)
    BY <2>2
  <2>. HIDE DEF Keeps, h
  <2>. QED
    BY <1>1, <2>3
<1>5. N \in S
  <2>. HIDE DEF S
  <2>. QED
    BY <1>1, <1>3, <1>4, StepByStep
<1>6. PICK kept : kept = (CHOOSE g : Keeps(g, N))
  OBVIOUS
<1>7. Keeps(kept, N)
  BY <1>5, <1>6
<1>8. /\ kept[0] = <<>>
      /\ \A n \in 1 .. N : kept[n] = Next(kept[n - 1], n)
  BY <1>1, <1>7
<1>9. Without(s, f) = kept[Len(s)]
  BY <1>2, <1>6 DEF N
<1>10. \A n \in 1 .. Len(s) : kept[n] = IF s[n] = f THEN kept[n - 1] ELSE Append(kept[n - 1], s[n])
  BY <1>8 DEF N, Next
<1>. QED
  BY <1>8, <1>9, <1>10

(* How many of the first n callbacks of s are f. *)
Among(s, f, n) == {i \in 1 .. Len(s) : i <= n /\ s[i] = f}

LEMMA AmongGrows ==
  ASSUME NEW s, NEW f, Len(s) \in Nat
  PROVE  /\ \A n \in Int : IsFiniteSet(Among(s, f, n)) /\ Cardinality(Among(s, f, n)) \in Nat
         /\ Cardinality(Among(s, f, 0)) = 0
         /\ \A n \in 1 .. Len(s) :
              Cardinality(Among(s, f, n)) = Cardinality(Among(s, f, n - 1)) + IF s[n] = f THEN 1 ELSE 0
<1>1. \A n \in Int : IsFiniteSet(Among(s, f, n)) /\ Cardinality(Among(s, f, n)) \in Nat
  <2>1. IsFiniteSet(1 .. Len(s))
    BY FS_Interval
  <2>2. \A n \in Int : Among(s, f, n) \subseteq 1 .. Len(s)
    BY DEF Among
  <2>. QED
    BY <2>1, <2>2, FS_Subset, FS_CardinalityType
<1>2. Cardinality(Among(s, f, 0)) = 0
  <2>1. Among(s, f, 0) = {}
    BY DEF Among
  <2>. QED
    BY <2>1, FS_EmptySet
<1>3. ASSUME NEW n \in 1 .. Len(s)
      PROVE  Cardinality(Among(s, f, n)) = Cardinality(Among(s, f, n - 1)) + IF s[n] = f THEN 1 ELSE 0
  <2>1. n - 1 \in Int /\ n \notin Among(s, f, n - 1)
    BY DEF Among
  <2>2. CASE s[n] = f
    <3>1. Among(s, f, n) = Among(s, f, n - 1) \cup {n}
      BY <2>2 DEF Among
    <3>. QED
      BY <1>1, <2>1, <2>2, <3>1, FS_AddElement
  <2>3. CASE s[n] # f
    <3>1. Among(s, f, n) = Among(s, f, n - 1)
      BY <2>3 DEF Among
    <3>. QED
      BY <1>1, <2>1, <2>3, <3>1
  <2>. QED
    BY <2>2, <2>3
<1>. QED
  BY <1>1, <1>2, <1>3

(* What is kept of the first n, *)
LEMMA KeptOfTheFirst ==
  ASSUME NEW S, NEW s \in Seq(S), NEW f, NEW kept, kept[0] = <<>>,
         \A n \in 1 .. Len(s) : kept[n] = IF s[n] = f THEN kept[n - 1] ELSE Append(kept[n - 1], s[n])
  PROVE  \A n \in 0 .. Len(s) : kept[n] \in Seq(S) /\ Len(kept[n]) = n - Cardinality(Among(s, f, n))
<1>. DEFINE T == {n \in 0 .. Len(s) : kept[n] \in Seq(S) /\ Len(kept[n]) = n - Cardinality(Among(s, f, n))}
<1>1. Len(s) \in Nat
  OBVIOUS
<1>2. 0 \in T
  <2>1. Cardinality(Among(s, f, 0)) = 0
    BY <1>1, AmongGrows
  <2>2. kept[0] \in Seq(S) /\ Len(kept[0]) = 0 - Cardinality(Among(s, f, 0))
    BY <2>1
  <2>3. 0 \in 0 .. Len(s)
    BY <1>1
  <2>. QED
    BY <2>2, <2>3
<1>3. ASSUME NEW n \in 1 .. Len(s), n - 1 \in T PROVE n \in T
  <2>1. PICK k : k = kept[n - 1]
    OBVIOUS
  <2>2. k \in Seq(S) /\ Len(k) = n - 1 - Cardinality(Among(s, f, n - 1)) /\ s[n] \in S
    BY <1>3, <2>1
  <2>3. /\ Cardinality(Among(s, f, n - 1)) \in Nat
        /\ Cardinality(Among(s, f, n)) = Cardinality(Among(s, f, n - 1)) + IF s[n] = f THEN 1 ELSE 0
    <3>1. n - 1 \in Int
      BY <1>1
    <3>. QED
      BY <1>1, <3>1, AmongGrows
  <2>4. CASE s[n] = f
    BY <2>1, <2>2, <2>3, <2>4
  <2>5. CASE s[n] # f
    <3>1. kept[n] = Append(k, s[n])
      BY <2>1, <2>5
    <3>2. kept[n] \in Seq(S) /\ Len(kept[n]) = Len(k) + 1
      BY <2>2, <3>1, AppendProperties
    <3>. QED
      BY <2>2, <2>3, <2>5, <3>2
  <2>. QED
    BY <2>4, <2>5
<1>. HIDE DEF T
<1>4. 0 .. Len(s) \subseteq T
  BY <1>1, <1>2, <1>3, StepByStep
<1>. QED
  BY <1>4 DEF T

LEMMA WithoutFits ==
  ASSUME NEW S, NEW s \in Seq(S), NEW f
  PROVE  Without(s, f) \in Seq(S) /\ Len(Without(s, f)) = Len(s) - Cardinality(Among(s, f, Len(s)))
<1>1. Len(s) \in Nat
  OBVIOUS
<1>2. PICK kept : /\ kept[0] = <<>> /\ Without(s, f) = kept[Len(s)]
                  /\ \A n \in 1 .. Len(s) :
                       kept[n] = IF s[n] = f THEN kept[n - 1] ELSE Append(kept[n - 1], s[n])
  BY <1>1, WithoutSteps
<1>. QED
  BY <1>1, <1>2, KeptOfTheFirst

LEMMA NothingLess == \A f : Without(<<>>, f) = <<>>
<1> SUFFICES ASSUME NEW f PROVE Without(<<>>, f) = <<>>
  OBVIOUS
<1>1. <<>> \in Seq({}) /\ Len(<<>>) = 0
  OBVIOUS
<1>2. Without(<<>>, f) \in Seq({}) /\ Len(Without(<<>>, f)) = 0 - Cardinality(Among(<<>>, f, 0))
  BY <1>1, WithoutFits
<1>3. Cardinality(Among(<<>>, f, 0)) = 0
  BY <1>1, AmongGrows
<1>. QED
  BY <1>2, <1>3, EmptySeq

(* and of a list in two parts. *)
LEMMA WithoutInParts ==
  ASSUME NEW S, NEW s \in Seq(S), NEW t \in Seq(S), NEW f
  PROVE  Without(s \o t, f) = Without(s, f) \o Without(t, f)
<1>1. PICK c : c = s \o t
  OBVIOUS
<1>2. PICK m, n : m = Len(s) /\ n = Len(t)
  OBVIOUS
<1>3. /\ m \in Nat /\ n \in Nat /\ c \in Seq(S) /\ Len(c) = m + n
      /\ \A i \in 1 .. m + n : c[i] = IF i <= m THEN s[i] ELSE t[i - m]
  BY <1>1, <1>2, ConcatProperties
<1>4. PICK a : /\ a[0] = <<>> /\ Without(s, f) = a[m]
               /\ \A i \in 1 .. m : a[i] = IF s[i] = f THEN a[i - 1] ELSE Append(a[i - 1], s[i])
  BY SMTT(30), <1>2, <1>3, WithoutSteps
<1>5. PICK b : /\ b[0] = <<>> /\ Without(t, f) = b[n]
               /\ \A i \in 1 .. n : b[i] = IF t[i] = f THEN b[i - 1] ELSE Append(b[i - 1], t[i])
  BY <1>2, <1>3, WithoutSteps
<1>6. PICK k : /\ k[0] = <<>> /\ Without(c, f) = k[m + n]
               /\ \A i \in 1 .. m + n : k[i] = IF c[i] = f THEN k[i - 1] ELSE Append(k[i - 1], c[i])
  <2>1. Len(c) \in Nat
    BY <1>3
  <2>2. PICK k : /\ k[0] = <<>> /\ Without(c, f) = k[Len(c)]
                 /\ \A i \in 1 .. Len(c) : k[i] = IF c[i] = f THEN k[i - 1] ELSE Append(k[i - 1], c[i])
    BY <2>1, WithoutSteps
  <2>. QED
    BY <1>3, <2>2
<1>7. k[m] = a[m]
  <2>. DEFINE T == {i \in 0 .. m : k[i] = a[i]}
  <2>1. 0 \in T
    BY <1>3, <1>4, <1>6
  <2>2. ASSUME NEW i \in 1 .. m, i - 1 \in T PROVE i \in T
    <3>1. i \in 1 .. m + n /\ i \in 0 .. m /\ c[i] = s[i] /\ k[i - 1] = a[i - 1]
      BY <1>3, <2>2
    <3>. QED
      BY <1>4, <1>6, <3>1
  <2>. HIDE DEF T
  <2>3. 0 .. m \subseteq T
    BY <1>3, <2>1, <2>2, StepByStep
  <2>4. m \in T
    BY <1>3, <2>3
  <2>. QED
    BY <2>4 DEF T
<1>8. a[m] \in Seq(S) /\ \A i \in 0 .. n : b[i] \in Seq(S)
  <2>1. \A i \in 0 .. m : a[i] \in Seq(S)
    <3>1. Len(s) \in Nat /\ \A i \in 1 .. Len(s) : a[i] = IF s[i] = f THEN a[i - 1] ELSE Append(a[i - 1], s[i])
      BY <1>2, <1>4
    <3>2. \A i \in 0 .. Len(s) : a[i] \in Seq(S)
      BY <1>4, <3>1, KeptOfTheFirst
    <3>. QED
      BY <1>2, <3>2
  <2>2. \A i \in 0 .. n : b[i] \in Seq(S)
    <3>1. Len(t) \in Nat /\ \A i \in 1 .. Len(t) : b[i] = IF t[i] = f THEN b[i - 1] ELSE Append(b[i - 1], t[i])
      BY <1>2, <1>5
    <3>2. \A i \in 0 .. Len(t) : b[i] \in Seq(S)
      BY <1>5, <3>1, KeptOfTheFirst
    <3>. QED
      BY <1>2, <3>2
  <2>. QED
    BY <1>3, <2>1, <2>2
<1>9. k[m + n] = a[m] \o b[n]
  <2>. DEFINE T == {i \in 0 .. n : k[m + i] = a[m] \o b[i]}
  <2>1. 0 \in T
    <3>1. a[m] \o <<>> = a[m]
      BY <1>8, ConcatEmptySeq
    <3>2. m + 0 = m /\ 0 \in 0 .. n
      BY <1>3
    <3>3. k[m + 0] = a[m] \o b[0]
      BY <1>5, <1>7, <3>1, <3>2
    <3>. QED
      BY <3>2, <3>3
  <2>2. ASSUME NEW i \in 1 .. n, i - 1 \in T PROVE i \in T
    <3>1. PICK j : j = m + i
      OBVIOUS
    <3>2. /\ j \in 1 .. m + n /\ c[j] = t[i] /\ t[i] \in S /\ i - 1 \in 0 .. n /\ i \in 0 .. n
          /\ j - 1 = m + (i - 1)
      BY <1>2, <1>3, <3>1
    <3>3. k[j - 1] = a[m] \o b[i - 1] /\ b[i - 1] \in Seq(S)
      BY <1>8, <2>2, <3>2
    <3>4. CASE t[i] = f
      BY <1>5, <1>6, <3>1, <3>2, <3>3, <3>4
    <3>5. CASE t[i] # f
      <4>1. PICK x, y, e : x = a[m] /\ y = b[i - 1] /\ e = t[i]
        OBVIOUS
      <4>2. x \in Seq(S) /\ y \in Seq(S) /\ e \in S /\ x \o y \in Seq(S) /\ <<e>> \in Seq(S)
        BY <1>8, <3>2, <3>3, <4>1, ConcatProperties
      <4>3. Append(x \o y, e) = (x \o y) \o <<e>> /\ Append(y, e) = y \o <<e>>
        BY <4>2, AppendIsConcat
      <4>4. Append(x \o y, e) = x \o Append(y, e)
        BY SMTT(30), <4>2, <4>3, ConcatAssociative
      <4>5. k[j] = Append(x \o y, e) /\ b[i] = Append(y, e)
        BY <1>5, <1>6, <3>2, <3>3, <3>5, <4>1
      <4>. QED
        BY <3>1, <3>2, <4>1, <4>4, <4>5
    <3>. QED
      BY <3>4, <3>5
  <2>. HIDE DEF T
  <2>3. 0 .. n \subseteq T
    BY <1>3, <2>1, <2>2, StepByStep
  <2>4. n \in T
    BY <1>3, <2>3
  <2>. QED
    BY <2>4 DEF T
<1>. QED
  BY <1>1, <1>4, <1>5, <1>6, <1>9

(***************************************************************************)
(* The list of a page, and the firing of it                                *)
(***************************************************************************)
HasFields(c) ==
  /\ DOMAIN c = ListFields
  /\ c.list \in Seq(UserCallbacks)
  /\ c.index \in Int /\ c.index >= -1 /\ c.start = 0
  /\ c.firing \in BOOLEAN /\ c.cleared \in BOOLEAN
  /\ ~c.alive => c.list = <<>>

(* A firing is within the list, unless the list was emptied under it. *)
TheFits(c) ==
  /\ HasFields(c)
  /\ c.firing /\ c.alive => c.length = Len(c.list) /\ (c.cleared \/ c.index + 1 <= c.length)

(* The list with the callbacks s has been called to the end, is at rest, or *)
(* is about to call its first callback.                                    *)
AtTheEnd(s, d) == d.firing /\ ~Pauses(d) /\ d.list = s
AtRest(s, d) == ~d.firing /\ d.list \in {s, <<>>}
AtTheStart(s, d) ==
  /\ d.firing /\ d.alive /\ d.list = s /\ s # <<>>
  /\ d.index = 0 /\ d.length = Len(s) /\ d.cleared = FALSE

HandsOver(s, d) ==
  /\ HasFields(d) /\ WaitFits(d)
  /\ AtTheEnd(s, d) \/ AtRest(s, d) \/ AtTheStart(s, d)

LEMMA StartedHandsOver ==
  ASSUME NEW c, HasFields(c), c.alive, c.waiting \in Nat, c.waiting > 0 => c.repeat,
         c.dropped \in Nat, c.due = c.waiting + c.dropped
  PROVE  HandsOver(c.list, Started(c))
<1>1. PICK d, s : d = Started(c) /\ s = c.list
  OBVIOUS
<1>2. WaitFits(d)
  BY <1>1, StartedFits DEF HasFields
<1>3. /\ DOMAIN d = ListFields /\ d.list = s /\ d.alive = c.alive /\ d.firing = TRUE /\ d.index = 0
      /\ d.length = Len(s) /\ d.start = 0 /\ d.cleared = FALSE
  BY <1>1 DEF HasFields, Started, ListFields
<1>4. s \in Seq(UserCallbacks) /\ Len(s) \in Nat
  BY <1>1 DEF HasFields
<1>5. HasFields(d)
  <2>1. d.index \in Int /\ d.index >= -1
    BY <1>3
  <2>2. d.firing \in BOOLEAN /\ d.cleared \in BOOLEAN
    BY <1>3
  <2>. QED
    BY <1>3, <1>4, <2>1, <2>2 DEF HasFields
<1>6. CASE s = <<>>
  BY <1>1, <1>2, <1>3, <1>5, <1>6 DEF HandsOver, AtTheEnd, Pauses
<1>7. CASE s # <<>>
  BY <1>1, <1>2, <1>3, <1>5, <1>7 DEF HandsOver, AtTheStart
<1>. QED
  BY <1>6, <1>7

LEMMA FinishedHandsOver ==
  ASSUME NEW c, HasFields(c), WaitFits(c), c.firing
  PROVE  HandsOver(c.list, Finished(c))
<1>1. PICK s : s = c.list
  OBVIOUS
<1>2. PICK idle : idle = [c EXCEPT !.firing = FALSE, !.cleared = FALSE]
  OBVIOUS
<1>3. /\ DOMAIN idle = ListFields /\ idle.firing = FALSE /\ idle.cleared = FALSE /\ idle.list = s
      /\ idle.index = c.index /\ idle.start = c.start /\ idle.waiting = c.waiting
      /\ idle.due = c.due /\ idle.dropped = c.dropped
      /\ idle.alive = c.alive /\ idle.repeat = c.repeat /\ idle.memory = c.memory
  BY <1>1, <1>2 DEF HasFields, ListFields
<1>4. HasFields(idle)
  BY <1>1, <1>3 DEF HasFields
<1>5. WaitFits(Finished(c))
  BY FinishedFits
<1>6. PICK e : e = Finished(c)
  OBVIOUS
<1>7. CASE e = idle
  BY <1>1, <1>3, <1>4, <1>5, <1>6, <1>7 DEF HandsOver, AtRest
<1>8. CASE c.alive /\ c.repeat /\ c.waiting > 0
  <2>1. PICK next : next = [idle EXCEPT !.waiting = @ - 1, !.due = @ - 1]
    OBVIOUS
  <2>2. e = Started(next)
    BY <1>2, <1>6, <1>8, <2>1 DEF Finished
  <2>3. /\ DOMAIN next = ListFields /\ next.firing = FALSE /\ next.cleared = FALSE /\ next.list = s
        /\ next.index = c.index /\ next.start = c.start /\ next.waiting = c.waiting - 1
        /\ next.due = c.due - 1 /\ next.dropped = c.dropped
        /\ next.alive = c.alive /\ next.repeat = c.repeat
    BY <1>3, <2>1 DEF ListFields
  <2>4. HasFields(next)
    <3>1. next.index \in Int /\ next.index >= -1 /\ next.firing \in BOOLEAN /\ next.cleared \in BOOLEAN
      BY <2>3 DEF HasFields
    <3>. QED
      BY <1>1, <2>3, <3>1 DEF HasFields
  <2>5. next.waiting \in Nat /\ next.dropped \in Nat /\ next.due = next.waiting + next.dropped
    BY <1>8, <2>3 DEF WaitFits
  <2>. QED
    BY <1>1, <1>6, <1>8, <2>2, <2>3, <2>4, <2>5, StartedHandsOver
<1>9. CASE c.alive /\ ~c.repeat
  <2>1. e = [idle EXCEPT !.list = <<>>] \/ e = Disabled(idle)
    BY <1>2, <1>6, <1>9 DEF Finished
  <2>2. /\ DOMAIN e = ListFields /\ e.firing = FALSE /\ e.cleared = FALSE /\ e.list = <<>>
        /\ e.index = c.index /\ e.start = c.start
    BY <1>3, <2>1 DEF Disabled, StackDropped, ListFields
  <2>3. <<>> \in Seq(UserCallbacks)
    OBVIOUS
  <2>4. HasFields(e)
    BY <2>2, <2>3 DEF HasFields
  <2>. QED
    BY <1>5, <1>6, <2>2, <2>4 DEF HandsOver, AtRest
<1>10. ~c.alive \/ (c.alive /\ c.repeat /\ ~(c.waiting > 0)) => e = idle
  BY <1>2, <1>6 DEF Finished
<1>. QED
  BY <1>7, <1>8, <1>9, <1>10

LEMMA ContinuedHandsOver ==
  ASSUME NEW s, NEW c, HandsOver(s, c), s \in Seq(UserCallbacks)
  PROVE  /\ HandsOver(s, Continued(c)) /\ TheFits(Continued(c))
         /\ AtRest(s, Continued(c)) \/ AtTheStart(s, Continued(c))
<1>1. c.waiting \in Nat
  BY DEF HandsOver, WaitFits
<1>2. PICK after : /\ after[0] = c /\ Continued(c) = after[c.waiting + 1]
                   /\ \A n \in 1 .. c.waiting + 1 :
                        after[n] = IF Pauses(after[n - 1]) THEN after[n - 1] ELSE Finished(after[n - 1])
  BY <1>1, ContinuedSteps
<1>3. PICK N : N = c.waiting + 1
  OBVIOUS
<1>. DEFINE S == {n \in 0 .. N : HandsOver(s, after[n])}
<1>4. N \in Nat /\ 0 \in S
  BY <1>1, <1>2, <1>3
<1>5. ASSUME NEW n \in 1 .. N, n - 1 \in S PROVE n \in S
  <2>1. PICK x : x = after[n - 1]
    OBVIOUS
  <2>2. HandsOver(s, x) /\ n \in 0 .. N /\ after[n] = IF Pauses(x) THEN x ELSE Finished(x)
    BY <1>1, <1>2, <1>3, <1>5, <2>1
  <2>3. CASE Pauses(x)
    BY <2>2, <2>3
  <2>4. CASE ~Pauses(x)
    <3>1. x.firing /\ HasFields(x) /\ WaitFits(x)
      BY <2>2, <2>4 DEF HandsOver, Pauses
    <3>2. Len(s) \in Nat /\ (s # <<>> => Len(s) > 0)
      BY EmptySeq
    <3>3. x.list = s
      BY <2>2, <2>4, <3>1, <3>2 DEF HandsOver, AtTheEnd, AtRest, AtTheStart, Pauses
    <3>. QED
      BY <2>2, <2>4, <3>1, <3>3, FinishedHandsOver
  <2>. QED
    BY <2>3, <2>4
<1>. HIDE DEF S
<1>6. N \in S
  <2>1. 0 .. N \subseteq S /\ N \in 0 .. N
    BY <1>4, <1>5, StepByStep
  <2>. QED
    BY <2>1
<1>7. PICK e : e = Continued(c)
  OBVIOUS
<1>8. HandsOver(s, e)
  BY <1>2, <1>3, <1>6, <1>7 DEF S
<1>9. Pauses(e)
  BY <1>7, ContinuedFits DEF HandsOver
<1>10. AtRest(s, e) \/ AtTheStart(s, e)
  BY <1>8, <1>9 DEF HandsOver, AtTheEnd
<1>11. TheFits(e)
  <2>1. Len(s) \in Nat /\ (s # <<>> => Len(s) > 0)
    BY EmptySeq
  <2>. QED
    BY <1>8, <1>10, <2>1 DEF HandsOver, TheFits, AtRest, AtTheStart
<1>. QED
  BY <1>7, <1>8, <1>10, <1>11

(* A list that has a callback to call goes on with it. *)
LEMMA ContinuedPauses ==
  ASSUME NEW c, c.waiting \in Nat, Pauses(c)
  PROVE  Continued(c) = c
<1>2. PICK after : /\ after[0] = c /\ Continued(c) = after[c.waiting + 1]
                   /\ \A n \in 1 .. c.waiting + 1 :
                        after[n] = IF Pauses(after[n - 1]) THEN after[n - 1] ELSE Finished(after[n - 1])
  BY ContinuedSteps
<1>3. PICK N : N = c.waiting + 1
  OBVIOUS
<1>. DEFINE S == {n \in 0 .. N : after[n] = c}
<1>4. N \in Nat /\ 0 \in S
  BY <1>2, <1>3
<1>5. ASSUME NEW n \in 1 .. N, n - 1 \in S PROVE n \in S
  BY <1>2, <1>3, <1>5
<1>. HIDE DEF S
<1>6. N \in S
  <2>1. 0 .. N \subseteq S /\ N \in 0 .. N
    BY <1>4, <1>5, StepByStep
  <2>. QED
    BY <2>1
<1>. QED
  BY <1>2, <1>3, <1>6 DEF S

(***************************************************************************)
(* What the list promises                                                  *)
(***************************************************************************)
Nobody == Callback("nobody", <<>>)
CallOf(f) == [on |-> TheId, calls |-> f, steps |-> f.steps]

(* An exception leaves the list firing for ever, with nothing called. *)
TurnsFit ==
  /\ DOMAIN lists = {TheId} /\ TheFits(lists[TheId])
  /\ IF threw THEN frames = <<>> /\ lists[TheId].firing
     ELSE WaitFits(lists[TheId]) /\ (lists[TheId].firing <=> frames # <<>>)
  /\ frames # <<>> => \E f \in UserCallbacks : frames = <<CallOf(f)>>

Members == TheList.list
Owing == IF Fires /\ TheList.alive THEN SubSeq(TheList.list, TheList.index + 2, TheList.length) ELSE <<>>
Calling == IF Fires THEN Top.calls ELSE Callback("nobody", <<>>)
WasCleared == Fires /\ TheList.cleared

ToCall(c) == IF c.alive THEN SubSeq(c.list, c.index + 2, c.length) ELSE <<>>

LEMMA Views ==
  ASSUME DOMAIN lists = {TheId}, NEW c, c = lists[TheId]
  PROVE  /\ Members = c.list
         /\ Owing = IF frames # <<>> THEN ToCall(c) ELSE <<>>
         /\ Calling = IF frames # <<>> THEN Head(frames).calls ELSE Nobody
         /\ WasCleared <=> frames # <<>> /\ c.cleared
BY DEF Members, Owing, Calling, WasCleared, Fires, Observed, TheList, ToCall, Top, Nobody

LEMMA NextViews ==
  ASSUME DOMAIN lists' = {TheId}, NEW c, c = lists'[TheId]
  PROVE  /\ Members' = c.list
         /\ Owing' = IF frames' # <<>> THEN ToCall(c) ELSE <<>>
         /\ Calling' = IF frames' # <<>> THEN Head(frames').calls ELSE Nobody
         /\ WasCleared' <=> frames' # <<>> /\ c.cleared
BY DEF Members, Owing, Calling, WasCleared, Fires, Observed, TheList, ToCall, Top, Nobody

LEMMA NobodyIsNoCallback == Nobody \notin UserCallbacks
BY CallbacksAssumption DEF CallbacksAssumption, Nobody, UserCallbacks, Callback

(* What is still to be called, while a callback runs. *)
LEMMA CallsAhead ==
  ASSUME NEW c, TheFits(c), c.firing
  PROVE  /\ c.alive => c.length = Len(c.list) /\ c.index + 2 >= 1 /\ c.index + 2 \in Int
         /\ ToCall(c) \in Seq(UserCallbacks)
         /\ c.alive /\ c.index + 1 < c.length =>
              /\ ToCall(c) # <<>> /\ Head(ToCall(c)) = c.list[c.index + 2]
              /\ Tail(ToCall(c)) = SubSeq(c.list, c.index + 3, c.length)
              /\ c.list[c.index + 2] \in UserCallbacks
         /\ ~(c.alive /\ c.index + 1 < c.length) => ToCall(c) = <<>>
<1>1. PICK s, m, n : s = c.list /\ m = c.index + 2 /\ n = c.length
  OBVIOUS
<1>2. s \in Seq(UserCallbacks) /\ Len(s) \in Nat /\ m \in Int /\ m >= 1 /\ c.index + 1 = m - 1 /\ c.index + 3 = m + 1
  BY <1>1 DEF TheFits, HasFields
<1>3. c.alive => n = Len(s)
  BY <1>1 DEF TheFits
<1>4. ToCall(c) = IF c.alive THEN SubSeq(s, m, n) ELSE <<>>
  BY <1>1 DEF ToCall
<1>5. ASSUME c.alive, m - 1 < n
      PROVE  /\ ToCall(c) # <<>> /\ Head(ToCall(c)) = s[m]
             /\ Tail(ToCall(c)) = SubSeq(s, m + 1, n)
             /\ s[m] \in UserCallbacks /\ ToCall(c) \in Seq(UserCallbacks)
  <2>1. m \in 1 .. Len(s) /\ n \in m .. Len(s) /\ m \in Int /\ n \in Int
    BY <1>2, <1>3, <1>5
  <2>2. Head(SubSeq(s, m, n)) = s[m] /\ Tail(SubSeq(s, m, n)) = SubSeq(s, m + 1, n)
    BY <1>2, <2>1, HeadTailOfSubSeq
  <2>3. \A i \in m .. n : s[i] \in UserCallbacks
    BY <1>2, <2>1
  <2>4. SubSeq(s, m, n) \in Seq(UserCallbacks) /\ Len(SubSeq(s, m, n)) = n - m + 1
    BY <2>1, <2>3, SubSeqProperties
  <2>5. SubSeq(s, m, n) # <<>>
    BY <2>1, <2>4, EmptySeq
  <2>. QED
    BY <1>4, <1>5, <2>1, <2>2, <2>3, <2>4, <2>5
<1>6. ASSUME ~(c.alive /\ m - 1 < n) PROVE ToCall(c) = <<>>
  <2>1. CASE c.alive
    BY <1>2, <1>3, <1>4, <1>6, <2>1, SubSeqEmpty
  <2>. QED
    BY <1>4, <2>1
<1>7. ToCall(c) \in Seq(UserCallbacks)
  <2>1. <<>> \in Seq(UserCallbacks)
    OBVIOUS
  <2>. QED
    BY <1>5, <1>6, <2>1
<1>. QED
  BY <1>1, <1>2, <1>3, <1>5, <1>6, <1>7

(* A firing hands over. *)
Rests(s) == Members' \in {s, <<>>} /\ Owing' = <<>> /\ Calling' = Nobody /\ ~WasCleared'
Begins(s) == s # <<>> /\ Members' = s /\ Owing' = Tail(s) /\ Calling' = Head(s) /\ ~WasCleared'

LEMMA HandedOver ==
  ASSUME DOMAIN lists = {TheId}, ~threw, threw' = threw, NEW s \in Seq(UserCallbacks), NEW c, HandsOver(s, c),
         Settle(TheId, Continued(c), <<>>)
  PROVE  TurnsFit' /\ (Rests(s) \/ Begins(s))
<1>1. PICK e : e = Continued(c)
  OBVIOUS
<1>2. HandsOver(s, e) /\ TheFits(e) /\ WaitFits(e) /\ (AtRest(s, e) \/ AtTheStart(s, e))
  BY <1>1, ContinuedHandsOver DEF HandsOver
<1>3. DOMAIN lists' = {TheId} /\ lists'[TheId] = e
  BY <1>1 DEF Settle
<1>4. CASE AtRest(s, e)
  <2>1. frames' = <<>> /\ ~e.firing /\ e.list \in {s, <<>>}
    BY <1>1, <1>4 DEF Settle, AtRest
  <2>2. TurnsFit'
    BY <1>2, <1>3, <2>1 DEF TurnsFit
  <2>3. Rests(s)
    BY <1>3, <2>1, NextViews DEF Rests
  <2>. QED
    BY <2>2, <2>3
<1>5. CASE AtTheStart(s, e)
  <2>1. e.firing /\ e.alive /\ e.list = s /\ s # <<>> /\ e.index = 0 /\ e.length = Len(s) /\ ~e.cleared
    BY <1>5 DEF AtTheStart
  <2>2. Head(s) = s[1] /\ s[1] \in UserCallbacks /\ 1 \in 1 .. Len(s) /\ Len(s) \in 1 .. Len(s) /\ Len(s) \in Nat
    BY <2>1, EmptySeq
  <2>3. PICK x : x = CallOf(s[1])
    OBVIOUS
  <2>4. frames' = <<x>> \o <<>>
    BY <1>1, <2>1, <2>3 DEF Settle, CallOf
  <2>5. frames' = <<x>>
    BY <2>4
  <2>6. frames' # <<>> /\ Head(frames') = x /\ x.calls = s[1]
    BY <2>3, <2>5 DEF CallOf
  <2>7. TurnsFit'
    <3>1. \E f \in UserCallbacks : frames' = <<CallOf(f)>>
      BY <2>2, <2>3, <2>5
    <3>. QED
      BY <1>2, <1>3, <2>1, <2>6, <3>1 DEF TurnsFit
  <2>8. ToCall(e) = Tail(s)
    <3>1. ToCall(e) = SubSeq(s, 2, Len(s))
      BY <2>1 DEF ToCall
    <3>2. SubSeq(s, 1, Len(s)) = s
      BY SubSeqFull
    <3>3. Tail(SubSeq(s, 1, Len(s))) = SubSeq(s, 1 + 1, Len(s))
      BY <2>2, HeadTailOfSubSeq
    <3>. QED
      BY <3>1, <3>2, <3>3
  <2>9. Begins(s)
    BY <1>3, <2>1, <2>2, <2>6, <2>8, NextViews DEF Begins
  <2>. QED
    BY <2>7, <2>9
<1>. QED
  BY <1>2, <1>4, <1>5

(* An operation leaves the firing where it is. *)
LEMMA GoesOn ==
  ASSUME TurnsFit, NEW c, c = lists[TheId], NEW d, Keep(TheId, d, frames), threw' = threw,
         TheFits(d), ~threw => WaitFits(d), d.firing = c.firing
  PROVE  /\ TurnsFit'
         /\ Members' = d.list
         /\ Owing' = IF frames # <<>> THEN ToCall(d) ELSE <<>>
         /\ Calling' = Calling
         /\ WasCleared' <=> frames # <<>> /\ d.cleared
<1>1. DOMAIN lists' = {TheId} /\ lists'[TheId] = d /\ frames' = frames
  BY DEF Keep, TurnsFit
<1>2. TurnsFit'
  BY <1>1 DEF TurnsFit
<1>3. Calling' = Calling
  BY <1>1, Views, NextViews DEF TurnsFit
<1>. QED
  BY <1>1, <1>2, <1>3, NextViews

(* The list is being called. *)
LEMMA FiringNow ==
  ASSUME TurnsFit, frames # <<>>, NEW c, c = lists[TheId]
  PROVE  /\ ~threw /\ c.firing /\ WaitFits(c) /\ TheFits(c) /\ DOMAIN lists = {TheId}
         /\ Top.on = TheId /\ TopList = c /\ Top.steps = <<>> /\ Tail(frames) = <<>> /\ PageRuns
         /\ Members = c.list /\ Owing = ToCall(c) /\ Calling # Nobody
         /\ WasCleared <=> c.cleared
<1>1. PICK f \in UserCallbacks : frames = <<CallOf(f)>>
  BY DEF TurnsFit
<1>2. PICK x : x = CallOf(f)
  OBVIOUS
<1>3. frames = <<x>> /\ x.on = TheId /\ x.calls = f /\ x.steps = f.steps
  BY <1>1, <1>2 DEF CallOf
<1>4. Head(frames) = x /\ Tail(frames) = <<>>
  BY <1>3
<1>5. f.steps = <<>> /\ f.name \in PageCallbacks
  BY DEF UserCallbacks, Callback
<1>6. Members = c.list /\ Owing = ToCall(c) /\ Calling # Nobody /\ (WasCleared <=> c.cleared)
  BY <1>3, <1>4, Views, NobodyIsNoCallback DEF TurnsFit
<1>. QED
  BY <1>3, <1>4, <1>5, <1>6 DEF TurnsFit, Top, TopList, PageRuns

ListStep == Inner!ListNext \/ UNCHANGED Inner!listVars

LEMMA Stutters ==
  ASSUME Members' = Members, Owing' = Owing, Calling' = Calling, WasCleared' <=> WasCleared
  PROVE  ListStep
BY DEF ListStep, Inner!listVars, Members, Owing, Calling, WasCleared

LEMMA ReturnStep ==
  ASSUME TurnsFit, Return
  PROVE  TurnsFit' /\ ListStep
<1>1. PICK c : c = lists[TheId]
  OBVIOUS
<1>2. frames # <<>> /\ threw' = threw
  BY DEF Return
<1>3. /\ ~threw /\ c.firing /\ WaitFits(c) /\ TheFits(c) /\ DOMAIN lists = {TheId}
      /\ Top.on = TheId /\ TopList = c /\ Tail(frames) = <<>>
      /\ Members = c.list /\ Owing = ToCall(c) /\ Calling # Nobody
      /\ WasCleared <=> c.cleared
  BY <1>1, <1>2, FiringNow
<1>4. PICK d : d = [c EXCEPT !.index = @ + 1]
  OBVIOUS
<1>5. Settle(TheId, Continued(d), <<>>)
  BY <1>3, <1>4 DEF Return
<1>6. /\ DOMAIN d = ListFields /\ d.index = c.index + 1 /\ d.list = c.list /\ d.length = c.length
      /\ d.alive = c.alive /\ d.firing = c.firing /\ d.cleared = c.cleared /\ d.start = c.start
      /\ d.waiting = c.waiting /\ d.repeat = c.repeat /\ d.fired = c.fired
      /\ d.due = c.due /\ d.dropped = c.dropped
  BY <1>3, <1>4 DEF WaitFits, ListFields
<1>7. HasFields(d) /\ WaitFits(d)
  <2>1. d.index \in Int /\ d.index >= -1
    BY <1>3, <1>6 DEF TheFits, HasFields
  <2>. QED
    BY <1>3, <1>6, <2>1 DEF TheFits, HasFields, WaitFits
<1>8. CASE Pauses(d)
  <2>1. Continued(d) = d
    BY <1>7, <1>8, ContinuedPauses DEF WaitFits
  <2>2. c.alive /\ c.index + 1 < c.length /\ d.firing
    BY <1>3, <1>6, <1>8 DEF Pauses
  <2>3. PICK g : g = c.list[c.index + 2]
    OBVIOUS
  <2>4. /\ ToCall(c) # <<>> /\ Head(ToCall(c)) = g /\ Tail(ToCall(c)) = SubSeq(c.list, c.index + 3, c.length)
        /\ g \in UserCallbacks
    BY <1>3, <2>2, <2>3, CallsAhead
  <2>5. c.index \in Int /\ c.index + 1 + 1 = c.index + 2 /\ c.index + 1 + 2 = c.index + 3
    BY <1>3 DEF TheFits, HasFields
  <2>6. d.list[d.index + 1] = g
    BY <1>6, <2>3, <2>5
  <2>7. PICK x : x = CallOf(g)
    OBVIOUS
  <2>8. frames' = <<x>> \o <<>> /\ lists' = [lists EXCEPT ![TheId] = d]
    BY <1>5, <2>1, <2>2, <2>6, <2>7 DEF Settle, CallOf
  <2>9. frames' = <<x>>
    BY <2>8
  <2>10. frames' # <<>> /\ Head(frames') = x /\ x.calls = g
    BY <2>7, <2>9 DEF CallOf
  <2>11. TheFits(d)
    BY <1>3, <1>6, <1>7, <2>2, <2>5 DEF TheFits
  <2>12. DOMAIN lists' = {TheId} /\ lists'[TheId] = d
    BY <1>3, <2>8
  <2>13. TurnsFit'
    <3>1. \E f \in UserCallbacks : frames' = <<CallOf(f)>>
      BY <2>4, <2>7, <2>9
    <3>. QED
      BY <1>2, <1>3, <1>7, <2>2, <2>10, <2>11, <2>12, <3>1 DEF TurnsFit
  <2>14. ToCall(d) = SubSeq(c.list, c.index + 3, c.length)
    BY <1>6, <2>2, <2>5 DEF ToCall
  <2>15. Members' = Members /\ Owing' = Tail(Owing) /\ Calling' = Head(Owing) /\ (WasCleared' <=> WasCleared)
    BY <1>3, <1>6, <2>4, <2>10, <2>12, <2>14, NextViews
  <2>16. Owing # <<>>
    BY <1>3, <2>4
  <2>17. Inner!CallNext
    BY <1>3, <2>15, <2>16 DEF Inner!CallNext, Members, Owing, Calling, WasCleared, Nobody
  <2>. QED
    BY <2>13, <2>17 DEF ListStep, Inner!ListNext
<1>9. CASE ~Pauses(d)
  <2>1. PICK s : s = c.list
    OBVIOUS
  <2>2. HandsOver(s, d) /\ s \in Seq(UserCallbacks)
    BY <1>6, <1>7, <1>9, <2>1 DEF HandsOver, AtTheEnd, Pauses, HasFields
  <2>3. TurnsFit' /\ (Rests(s) \/ Begins(s))
    BY <1>2, <1>3, <1>5, <2>2, HandedOver
  <2>4. Owing = <<>>
    <3>1. ~(c.alive /\ c.index + 1 < c.length)
      BY <1>6, <1>9 DEF Pauses
    <3>. QED
      BY <1>3, <3>1, CallsAhead
  <2>5. CASE Rests(s)
    <3>1. Inner!Complete
      BY <1>3, <2>1, <2>4, <2>5 DEF Rests, Inner!Complete, Members, Owing, Calling, WasCleared, Nobody
    <3>. QED
      BY <2>3, <3>1 DEF ListStep, Inner!ListNext
  <2>6. CASE Begins(s)
    <3>1. Inner!Begin
      BY <1>3, <2>1, <2>4, <2>6 DEF Begins, Inner!Begin, Members, Owing, Calling, WasCleared, Nobody
    <3>. QED
      BY <2>3, <3>1 DEF ListStep, Inner!ListNext
  <2>. QED
    BY <2>3, <2>5, <2>6
<1>. QED
  BY <1>8, <1>9

LEMMA ReturnFalseStep ==
  ASSUME TurnsFit, ReturnFalse
  PROVE  TurnsFit' /\ ListStep
<1>1. PICK c : c = lists[TheId]
  OBVIOUS
<1>2. frames # <<>> /\ threw' = threw
  BY DEF ReturnFalse
<1>3. /\ ~threw /\ c.firing /\ WaitFits(c) /\ TheFits(c) /\ DOMAIN lists = {TheId}
      /\ Top.on = TheId /\ TopList = c /\ Tail(frames) = <<>>
      /\ Members = c.list /\ Calling # Nobody
  BY <1>1, <1>2, FiringNow
<1>4. PICK d : d = [c EXCEPT !.memory = FALSE]
  OBVIOUS
<1>5. Settle(TheId, Continued(Finished(d)), <<>>)
  BY <1>3, <1>4 DEF ReturnFalse
<1>6. PICK s : s = c.list
  OBVIOUS
<1>7. HasFields(d) /\ WaitFits(d) /\ d.firing /\ d.list = s /\ s \in Seq(UserCallbacks)
  BY <1>3, <1>4, <1>6 DEF TheFits, HasFields, WaitFits, ListFields
<1>8. HandsOver(s, Finished(d))
  BY <1>7, FinishedHandsOver
<1>9. TurnsFit' /\ (Rests(s) \/ Begins(s))
  BY <1>2, <1>3, <1>5, <1>7, <1>8, HandedOver
<1>10. CASE Rests(s)
  <2>1. Inner!Break
    BY <1>3, <1>6, <1>10 DEF Rests, Inner!Break, Members, Owing, Calling, WasCleared, Nobody
  <2>. QED
    BY <1>9, <2>1 DEF ListStep, Inner!ListNext
<1>11. CASE Begins(s)
  <2>1. Inner!BreakAndBegin
    BY <1>3, <1>6, <1>11 DEF Begins, Inner!BreakAndBegin, Members, Owing, Calling, WasCleared, Nobody
  <2>. QED
    BY <1>9, <2>1 DEF ListStep, Inner!ListNext
<1>. QED
  BY <1>9, <1>10, <1>11

LEMMA ThrowStep ==
  ASSUME TurnsFit, Throw
  PROVE  TurnsFit' /\ ListStep
<1>1. PICK c : c = lists[TheId]
  OBVIOUS
<1>2. frames # <<>> /\ frames' = <<>> /\ threw' /\ lists' = lists
  BY DEF Throw
<1>3. /\ c.firing /\ TheFits(c) /\ DOMAIN lists = {TheId} /\ Members = c.list /\ Calling # Nobody
  BY <1>1, <1>2, FiringNow
<1>4. TurnsFit'
  BY <1>1, <1>2, <1>3 DEF TurnsFit
<1>5. Members' = Members /\ Owing' = <<>> /\ Calling' = Nobody /\ ~WasCleared'
  BY <1>1, <1>2, <1>3, NextViews
<1>6. Inner!Break
  BY <1>3, <1>5 DEF Inner!Break, Members, Owing, Calling, WasCleared, Nobody
<1>. QED
  BY <1>4, <1>6 DEF ListStep, Inner!ListNext

(* Outside a firing. *)
LEMMA NotFiring ==
  ASSUME TurnsFit, NEW c, c = lists[TheId], ~c.firing
  PROVE  /\ ~threw /\ frames = <<>> /\ WaitFits(c) /\ c.waiting = 0
         /\ Members = c.list /\ Owing = <<>> /\ Calling = Nobody /\ ~WasCleared
BY Views DEF TurnsFit, WaitFits

(* One callback more at the end of the list is one more to call. *)
LEMMA OneMore ==
  ASSUME NEW s \in Seq(UserCallbacks), NEW f \in UserCallbacks, NEW n, n = Len(s), NEW t, t = Append(s, f),
         NEW m \in Int, m >= 1, m <= n + 1
  PROVE  SubSeq(t, m, n + 1) = Append(SubSeq(s, m, n), f)
<1>0. n \in Nat /\ t \in Seq(UserCallbacks) /\ Len(t) = n + 1 /\ t[n + 1] = f
  BY AppendProperties
<1>1. \A i \in 1 .. n : t[i] = s[i]
  BY <1>0, AppendProperties
<1>2. /\ SubSeq(s, m, n) \in Seq(UserCallbacks)
      /\ Len(SubSeq(s, m, n)) = IF m <= n THEN n - m + 1 ELSE 0
      /\ \A i \in 1 .. n - m + 1 : SubSeq(s, m, n)[i] = s[m + i - 1]
  <2>1. \A i \in m .. n : s[i] \in UserCallbacks
    BY <1>0
  <2>. QED
    BY <1>0, <2>1, SubSeqProperties
<1>3. /\ SubSeq(t, m, n + 1) \in Seq(UserCallbacks)
      /\ Len(SubSeq(t, m, n + 1)) = IF m <= n + 1 THEN n + 1 - m + 1 ELSE 0
      /\ \A i \in 1 .. n + 1 - m + 1 : SubSeq(t, m, n + 1)[i] = t[m + i - 1]
  <2>1. \A i \in m .. n + 1 : t[i] \in UserCallbacks
    BY <1>0
  <2>. QED
    BY <1>0, <2>1, SubSeqProperties
<1>4. PICK a, b, k : a = SubSeq(s, m, n) /\ b = SubSeq(t, m, n + 1) /\ k = n - m + 1
  OBVIOUS
<1>5. /\ a \in Seq(UserCallbacks) /\ Len(a) = k /\ k \in Nat /\ b \in Seq(UserCallbacks) /\ Len(b) = k + 1
  BY <1>0, <1>2, <1>3, <1>4
<1>6. b[k + 1] = f /\ \A i \in 1 .. k : b[i] = a[i]
  <2>1. b[k + 1] = f
    BY <1>0, <1>3, <1>4
  <2>2. ASSUME NEW i \in 1 .. k PROVE b[i] = a[i]
    <3>1. m + i - 1 \in 1 .. n /\ i \in 1 .. n + 1 - m + 1 /\ i \in 1 .. n - m + 1
      BY <1>0, <1>4
    <3>. QED
      BY <1>1, <1>2, <1>3, <1>4, <3>1
  <2>. QED
    BY <2>1, <2>2
<1>7. /\ Append(a, f) \in Seq(UserCallbacks) /\ Len(Append(a, f)) = k + 1
      /\ Append(a, f)[k + 1] = f /\ \A i \in 1 .. k : Append(a, f)[i] = a[i]
  BY <1>5, AppendProperties
<1>8. \A i \in 1 .. k + 1 : b[i] = Append(a, f)[i]
  <2>1. \A i \in 1 .. k + 1 : i = k + 1 \/ i \in 1 .. k
    BY <1>5
  <2>. QED
    BY <1>6, <1>7, <2>1
<1>9. b = Append(a, f)
  BY <1>5, <1>7, <1>8, SeqEqual
<1>. QED
  BY <1>4, <1>9

LEMMA AddsStep ==
  ASSUME TurnsFit, NEW f \in UserCallbacks, Call(Add(TheId, f, frames))
  PROVE  TurnsFit' /\ ListStep
<1>1. PICK c : c = lists[TheId]
  OBVIOUS
<1>2. threw' = threw /\ Add(TheId, f, frames)
  BY DEF Call
<1>3. TheFits(c) /\ HasFields(c) /\ DOMAIN lists = {TheId} /\ (~threw => WaitFits(c)) /\ (c.firing \in BOOLEAN)
  BY <1>1 DEF TurnsFit, TheFits, HasFields
<1>4. PICK g : g = Appended(c, f)
  OBVIOUS
<1>5. PICK s, n : s = c.list /\ n = Len(c.list)
  OBVIOUS
<1>6. s \in Seq(UserCallbacks) /\ n = Len(s) /\ n \in Nat
  BY <1>3, <1>5 DEF HasFields
<1>7. PICK t : t = Append(s, f)
  OBVIOUS
<1>8. t \in Seq(UserCallbacks) /\ Len(t) = n + 1 /\ t[n + 1] = f /\ t # <<>>
  BY <1>6, <1>7, AppendProperties
<1>9. /\ DOMAIN g = ListFields /\ g.list \in {s, t} /\ (g.list = s => g = c)
      /\ g.index = c.index /\ g.start = c.start /\ g.firing = c.firing /\ g.cleared = c.cleared
      /\ g.alive = c.alive /\ g.waiting = c.waiting /\ g.repeat = c.repeat /\ g.length = c.length
      /\ g.due = c.due /\ g.dropped = c.dropped
  <2>1. CASE g = c
    BY <1>3, <1>5, <2>1 DEF HasFields
  <2>2. CASE g = [c EXCEPT !.list = Append(@, f)]
    <3>1. s # t
      BY <1>6, <1>8
    <3>. QED
      BY <1>3, <1>5, <1>7, <2>2, <3>1 DEF HasFields, ListFields
  <2>. QED
    BY <1>4, <2>1, <2>2 DEF Appended
<1>10. c.alive => HasFields(g)
  BY <1>3, <1>6, <1>8, <1>9 DEF HasFields
<1>11. CASE ~c.alive
  <2>1. Keep(TheId, c, frames)
    BY <1>1, <1>2, <1>11 DEF Add
  <2>2. /\ TurnsFit' /\ Members' = c.list /\ Owing' = (IF frames # <<>> THEN ToCall(c) ELSE <<>>)
        /\ Calling' = Calling /\ (WasCleared' <=> frames # <<>> /\ c.cleared)
    BY <1>1, <1>2, <1>3, <2>1, GoesOn
  <2>3. Members' = Members /\ Owing' = Owing /\ (WasCleared' <=> WasCleared)
    BY <1>1, <1>3, <2>2, Views
  <2>. QED
    BY <2>2, <2>3, Stutters
<1>12. CASE c.alive /\ c.firing
  <2>1. PICK d : d = [g EXCEPT !.length = Len(g.list)]
    OBVIOUS
  <2>2. Keep(TheId, d, frames)
    BY <1>1, <1>2, <1>4, <1>12, <2>1 DEF Add
  <2>3. /\ DOMAIN d = ListFields /\ d.list = g.list /\ d.length = Len(g.list)
        /\ d.index = c.index /\ d.start = c.start /\ d.firing = c.firing /\ d.cleared = c.cleared
        /\ d.alive = c.alive
    BY <1>9, <2>1 DEF ListFields
  <2>4. ~threw => WaitFits(d)
    <3>1. ~threw => WaitFits(g)
      BY <1>3, <1>4, OthersFit
    <3>. QED
      BY <2>1, <3>1 DEF WaitFits, ListFields
  <2>5. /\ c.length = n /\ (c.cleared \/ c.index + 1 <= n) /\ c.index \in Int /\ c.index >= -1
        /\ d.length \in {n, n + 1} /\ (d.length = n + 1 <=> d.list = t) /\ (d.length = n <=> d.list = s)
    <3>1. s # t /\ n # n + 1
      BY <1>6, <1>8
    <3>. QED
      BY <1>3, <1>5, <1>6, <1>8, <1>9, <1>12, <2>3, <3>1 DEF TheFits, HasFields
  <2>6. TheFits(d)
    <3>1. HasFields(d)
      <4>1. d.index \in Int /\ d.index >= -1 /\ d.start = 0
        BY <1>3, <2>3, <2>5 DEF HasFields
      <4>2. d.firing \in BOOLEAN /\ d.cleared \in BOOLEAN /\ d.list \in Seq(UserCallbacks) /\ d.alive
        BY <1>3, <1>6, <1>8, <1>9, <1>12, <2>3 DEF HasFields
      <4>. QED
        BY <2>3, <4>1, <4>2 DEF HasFields
    <3>2. d.cleared \/ d.index + 1 <= d.length
      BY <1>6, <2>3, <2>5
    <3>. QED
      BY <2>3, <3>1, <3>2 DEF TheFits
  <2>7. /\ TurnsFit' /\ Members' = d.list /\ Owing' = (IF frames # <<>> THEN ToCall(d) ELSE <<>>)
        /\ Calling' = Calling /\ (WasCleared' <=> frames # <<>> /\ d.cleared)
    BY <1>1, <1>2, <2>2, <2>3, <2>4, <2>6, GoesOn
  <2>8. /\ Members = s /\ Owing = (IF frames # <<>> THEN ToCall(c) ELSE <<>>)
        /\ WasCleared <=> frames # <<>> /\ c.cleared
    BY <1>1, <1>3, <1>5, Views
  <2>9. WasCleared' <=> WasCleared
    BY <2>3, <2>7, <2>8
  <2>10. CASE d.list = s
    <3>1. ToCall(d) = ToCall(c)
      BY <1>5, <2>3, <2>5, <2>10 DEF ToCall
    <3>2. Members' = Members /\ Owing' = Owing
      BY <2>7, <2>8, <2>10, <3>1
    <3>. QED
      BY <2>7, <2>9, <3>2, Stutters
  <2>11. CASE d.list = t
    <3>1. Members' = Append(Members, f)
      BY <1>7, <2>7, <2>8, <2>11
    <3>2. CASE frames = <<>>
      <4>1. Calling = Nobody /\ Owing' = Owing
        BY <1>1, <1>3, <2>7, <2>8, <3>2, Views
      <4>2. Inner!Join(f)
        BY <2>7, <2>9, <3>1, <4>1 DEF Inner!Join, Members, Owing, Calling, WasCleared, Nobody
      <4>. QED
        BY <2>7, <4>2 DEF ListStep, Inner!ListNext
    <3>3. CASE frames # <<>> /\ c.index + 1 <= n
      <4>1. PICK m : m = c.index + 2
        OBVIOUS
      <4>2. m \in Int /\ m >= 1 /\ m <= n + 1
        BY <1>6, <2>5, <3>3, <4>1
      <4>3. ToCall(c) = SubSeq(s, m, n) /\ ToCall(d) = SubSeq(t, m, n + 1)
        BY <1>5, <1>12, <2>3, <2>5, <2>11, <4>1 DEF ToCall
      <4>4. SubSeq(t, m, n + 1) = Append(SubSeq(s, m, n), f)
        BY <1>6, <1>7, <4>2, OneMore
      <4>5. Owing' = Append(Owing, f)
        BY <2>7, <2>8, <3>3, <4>3, <4>4
      <4>6. Calling # Nobody
        BY <1>1, <3>3, FiringNow
      <4>7. Inner!Join(f)
        BY <2>7, <2>9, <3>1, <4>5, <4>6 DEF Inner!Join, Members, Owing, Calling, WasCleared, Nobody
      <4>. QED
        BY <2>7, <4>7 DEF ListStep, Inner!ListNext
    <3>4. CASE frames # <<>> /\ ~(c.index + 1 <= n)
      <4>1. ToCall(c) = <<>>
        <5>1. c.index + 2 \in Int /\ n < c.index + 2 /\ n \in Int
          BY <1>6, <2>5, <3>4
        <5>. QED
          BY <2>5, <5>1, SubSeqEmpty DEF ToCall
      <4>2. ToCall(d) = <<>>
        <5>1. c.index + 2 \in Int /\ n + 1 < c.index + 2 /\ n + 1 \in Int
          BY <1>6, <2>5, <3>4
        <5>. QED
          BY <1>6, <2>3, <2>5, <2>11, <5>1, SubSeqEmpty DEF ToCall
      <4>3. WasCleared /\ Owing' = Owing
        BY <2>5, <2>7, <2>8, <3>4, <4>1, <4>2
      <4>4. Inner!Join(f)
        BY <2>7, <2>9, <3>1, <4>3 DEF Inner!Join, Members, Owing, Calling, WasCleared, Nobody
      <4>. QED
        BY <2>7, <4>4 DEF ListStep, Inner!ListNext
    <3>. QED
      BY <3>2, <3>3, <3>4
  <2>. QED
    BY <1>9, <2>3, <2>10, <2>11
<1>13. CASE c.alive /\ ~c.firing /\ ~c.memory
  <2>1. Keep(TheId, g, frames)
    BY <1>1, <1>2, <1>4, <1>13 DEF Add
  <2>2. ~threw /\ WaitFits(g)
    BY <1>1, <1>3, <1>4, <1>13, NotFiring, OthersFit
  <2>3. TheFits(g)
    BY <1>9, <1>10, <1>13 DEF TheFits
  <2>4. Keep(TheId, g, frames) /\ g.firing = c.firing
    BY <1>9, <2>1
  <2>5. TurnsFit' /\ Members' = g.list /\ Calling' = Calling
    BY <1>1, <1>2, <2>2, <2>3, <2>4, GoesOn
  <2>6. frames = <<>> /\ Members = s /\ Owing = <<>> /\ Calling = Nobody /\ ~WasCleared
    BY <1>1, <1>5, <1>13, NotFiring
  <2>7. Owing' = <<>> /\ ~WasCleared'
    BY <1>1, <1>2, <2>2, <2>3, <2>4, <2>6, GoesOn
  <2>8. CASE g.list = s
    <3>1. Members' = Members /\ Owing' = Owing /\ (WasCleared' <=> WasCleared)
      BY <2>5, <2>6, <2>7, <2>8
    <3>. QED
      BY <2>5, <3>1, Stutters
  <2>9. CASE g.list = t
    <3>1. Members' = Append(Members, f) /\ Owing' = Owing /\ (WasCleared' <=> WasCleared)
      BY <1>7, <2>5, <2>6, <2>7, <2>9
    <3>2. Inner!Join(f)
      BY <2>5, <2>6, <3>1 DEF Inner!Join, Members, Owing, Calling, WasCleared, Nobody
    <3>. QED
      BY <2>5, <3>2 DEF ListStep, Inner!ListNext
  <2>. QED
    BY <1>9, <2>8, <2>9
<1>14. CASE c.alive /\ ~c.firing /\ c.memory
  <2>1. PICK h : h = [g EXCEPT !.start = n]
    OBVIOUS
  <2>2. PICK d : d = Started(h)
    OBVIOUS
  <2>3. Settle(TheId, Continued(d), frames)
    BY <1>1, <1>2, <1>4, <1>5, <1>14, <2>1, <2>2 DEF Add
  <2>4. /\ frames = <<>> /\ ~threw /\ c.waiting = 0 /\ Members = s /\ Owing = <<>> /\ Calling = Nobody
        /\ ~WasCleared
    BY <1>1, <1>5, <1>14, NotFiring
  <2>5. /\ DOMAIN h = ListFields /\ h.list = g.list /\ h.start = n /\ h.alive = c.alive /\ h.waiting = 0
        /\ h.repeat = c.repeat /\ h.due = c.due /\ h.dropped = c.dropped
    BY <1>9, <2>1, <2>4 DEF ListFields
  <2>6. /\ DOMAIN d = ListFields /\ d.list = g.list /\ d.alive = c.alive /\ d.firing = TRUE /\ d.index = n
        /\ d.length = Len(g.list) /\ d.start = 0 /\ d.cleared = FALSE /\ d.waiting = 0
    BY <2>2, <2>5 DEF Started, ListFields
  <2>7. WaitFits(d)
    <3>1. WaitFits(c)
      BY <1>3, <2>4
    <3>2. h.dropped \in Nat /\ h.due = h.waiting + h.dropped
      BY <2>4, <2>5, <3>1 DEF WaitFits
    <3>. QED
      BY <2>2, <2>5, <3>2, StartedFits
  <2>8. HasFields(d)
    <3>1. d.index \in Int /\ d.index >= -1 /\ d.start = 0
      BY <1>6, <2>6
    <3>2. d.firing \in BOOLEAN /\ d.cleared \in BOOLEAN /\ d.list \in Seq(UserCallbacks) /\ d.alive
      BY <1>6, <1>8, <1>9, <1>14, <2>6
    <3>. QED
      BY <2>6, <3>1, <3>2 DEF HasFields
  <2>9. CASE g.list = s
    <3>1. AtTheEnd(s, d)
      <4>1. ~(d.index < d.length)
        BY <1>6, <2>6, <2>9
      <4>. QED
        BY <2>6, <2>9, <4>1 DEF AtTheEnd, Pauses
    <3>2. HandsOver(s, d)
      BY <2>7, <2>8, <3>1 DEF HandsOver
    <3>3. Settle(TheId, Continued(d), <<>>)
      BY <2>3, <2>4
    <3>4. TurnsFit' /\ (Rests(s) \/ Begins(s))
      BY <1>2, <1>3, <1>6, <2>4, <3>2, <3>3, HandedOver
    <3>5. CASE Rests(s)
      <4>1. Inner!Complete
        BY <2>4, <3>5 DEF Rests, Inner!Complete, Members, Owing, Calling, WasCleared, Nobody
      <4>. QED
        BY <3>4, <4>1 DEF ListStep, Inner!ListNext
    <3>6. CASE Begins(s)
      <4>1. Inner!Begin
        BY <2>4, <3>6 DEF Begins, Inner!Begin, Members, Owing, Calling, WasCleared, Nobody
      <4>. QED
        BY <3>4, <4>1 DEF ListStep, Inner!ListNext
    <3>. QED
      BY <3>4, <3>5, <3>6
  <2>10. CASE g.list = t
    <3>1. d.index < d.length /\ d.length = n + 1 /\ d.index + 1 <= d.length /\ d.index + 1 = n + 1
      BY <1>6, <1>8, <2>6, <2>10
    <3>2. Continued(d) = d
      <4>1. Pauses(d)
        BY <1>14, <2>6, <3>1 DEF Pauses
      <4>2. d.waiting \in Nat
        BY <2>6
      <4>. QED
        BY <4>1, <4>2, ContinuedPauses
    <3>3. PICK x : x = CallOf(f)
      OBVIOUS
    <3>4. d.list[d.index + 1] = f
      BY <1>8, <2>6, <2>10, <3>1
    <3>5. frames' = <<x>> \o <<>> /\ lists' = [lists EXCEPT ![TheId] = d]
      BY <2>3, <2>4, <2>6, <3>2, <3>3, <3>4 DEF Settle, CallOf
    <3>6. frames' = <<x>>
      BY <3>5
    <3>7. frames' # <<>> /\ Head(frames') = x /\ x.calls = f
      BY <3>3, <3>6 DEF CallOf
    <3>8. DOMAIN lists' = {TheId} /\ lists'[TheId] = d
      BY <1>3, <3>5
    <3>9. TheFits(d)
      BY <1>6, <2>6, <2>8, <2>10, <3>1 DEF TheFits
    <3>10. TurnsFit'
      <4>1. \E e \in UserCallbacks : frames' = <<CallOf(e)>>
        BY <3>3, <3>6
      <4>. QED
        BY <1>2, <2>4, <2>6, <2>7, <3>7, <3>8, <3>9, <4>1 DEF TurnsFit
    <3>11. ToCall(d) = <<>>
      <4>1. d.index + 2 \in Int /\ d.length < d.index + 2 /\ d.length \in Int
        BY <1>6, <2>6, <3>1
      <4>. QED
        BY <2>6, <4>1, SubSeqEmpty DEF ToCall
    <3>12. Members' = t /\ Owing' = <<>> /\ Calling' = f /\ ~WasCleared'
      BY <2>6, <2>10, <3>7, <3>8, <3>11, NextViews
    <3>13. Inner!Join(f)
      BY <1>7, <2>4, <3>12 DEF Inner!Join, Members, Owing, Calling, WasCleared, Nobody
    <3>. QED
      BY <3>10, <3>13 DEF ListStep, Inner!ListNext
  <2>. QED
    BY <1>9, <2>9, <2>10
<1>. QED
  BY <1>3, <1>11, <1>12, <1>13, <1>14

(* The end of a list in two parts. *)
LEMMA LastPart ==
  ASSUME NEW S, NEW a \in Seq(S), NEW b \in Seq(S)
  PROVE  SubSeq(a \o b, Len(a) + 1, Len(a) + Len(b)) = b
<1>1. PICK m, n, t : m = Len(a) /\ n = Len(b) /\ t = a \o b
  OBVIOUS
<1>2. m \in Nat /\ n \in Nat
  BY <1>1
<1>3. CASE b = <<>>
  <2>1. n = 0 /\ m + n < m + 1 /\ m + 1 \in Int /\ m + n \in Int
    BY <1>1, <1>2, <1>3
  <2>2. SubSeq(t, m + 1, m + n) = <<>>
    BY <2>1, SubSeqEmpty
  <2>. QED
    BY <1>1, <1>3, <2>2
<1>4. CASE b # <<>>
  <2>1. n >= 1
    BY <1>1, <1>2, <1>4, EmptySeq
  <2>2. m + 1 \in m + 1 .. m + n /\ m + n \in m + 1 .. m + n /\ m + 1 - m = 1 /\ m + n - m = n
    BY <1>2, <2>1
  <2>3. SubSeq(t, m + 1, m + n) = SubSeq(b, m + 1 - m, m + n - m)
    BY <1>1, <2>2, SubSeqOfConcat2
  <2>4. SubSeq(b, 1, n) = b
    BY <1>1, SubSeqFull
  <2>. QED
    BY <1>1, <2>2, <2>3, <2>4
<1>. QED
  BY <1>3, <1>4

(* remove keeps the firing where it was in the list. *)
LEMMA RemovedFits ==
  ASSUME NEW c, TheFits(c), c.alive, NEW f, NEW d, d = Removed(c, f)
  PROVE  /\ TheFits(d) /\ d.list = Without(c.list, f) /\ d.firing = c.firing /\ d.cleared = c.cleared
         /\ c.firing => ToCall(d) = Without(ToCall(c), f)
<1>1. PICK s, n, p : s = c.list /\ n = Len(c.list) /\ p = c.index + 1
  OBVIOUS
<1>2. /\ s \in Seq(UserCallbacks) /\ n = Len(s) /\ n \in Nat /\ p \in Int /\ p >= 0 /\ c.index = p - 1
      /\ c.index \in Int /\ c.index >= -1
  BY <1>1 DEF TheFits, HasFields
<1>3. PICK w : w = Without(s, f)
  OBVIOUS
<1>4. w \in Seq(UserCallbacks) /\ Len(w) \in Nat /\ Len(w) = n - Cardinality(Among(s, f, n))
  BY <1>2, <1>3, WithoutFits
<1>5. \A i \in Int : Cardinality(Among(s, f, i)) \in Nat
  BY <1>2, AmongGrows
<1>6. ASSUME NEW i \in Int, i >= n PROVE Among(s, f, i) = Among(s, f, n)
  BY <1>2, <1>6 DEF Among
<1>7. /\ DOMAIN d = ListFields /\ d.list = w /\ d.firing = c.firing /\ d.cleared = c.cleared /\ d.alive = c.alive
      /\ d.start = c.start
      /\ d.length = IF c.firing THEN c.length - Before(c, f, c.length + 1) ELSE c.length
      /\ d.index = IF c.firing THEN c.index - Before(c, f, c.index + 1) ELSE c.index
  BY <1>1, <1>3 DEF Removed, TheFits, HasFields, ListFields
<1>8. HasFields(d) <=> d.index \in Int /\ d.index >= -1
  BY <1>4, <1>7 DEF TheFits, HasFields
<1>9. CASE ~c.firing
  BY <1>1, <1>2, <1>3, <1>7, <1>8, <1>9 DEF TheFits
<1>10. CASE c.firing
  <2>1. c.length = n /\ (c.cleared \/ p <= n)
    BY <1>1, <1>10 DEF TheFits
  <2>2. PICK k : k = Cardinality(Among(s, f, p))
    OBVIOUS
  <2>3. k \in Nat
    BY <1>2, <1>5, <2>2
  <2>4. d.length = Len(w)
    <3>1. Before(c, f, n + 1) = Cardinality(Among(s, f, n + 1))
      BY <1>1 DEF Before, Among
    <3>2. n + 1 \in Int /\ n + 1 >= n
      BY <1>2
    <3>3. Before(c, f, n + 1) = Cardinality(Among(s, f, n))
      BY <1>6, <3>1, <3>2
    <3>. QED
      BY <1>4, <1>7, <1>10, <2>1, <3>3
  <2>5. d.index = p - 1 - k
    <3>1. Before(c, f, p) = Cardinality(Among(s, f, p))
      BY <1>1 DEF Before, Among
    <3>. QED
      BY <1>1, <1>2, <1>7, <1>10, <2>2, <3>1
  <2>6. ToCall(c) = SubSeq(s, p + 1, n) /\ ToCall(d) = SubSeq(w, p - k + 1, Len(w))
    <3>1. c.index + 2 = p + 1 /\ d.index + 2 = p - k + 1
      BY <1>2, <2>3, <2>5
    <3>. QED
      BY <1>1, <1>7, <2>1, <2>4, <3>1 DEF ToCall
  <2>7. CASE p <= n
    <3>1. PICK u, v : u = SubSeq(s, 1, p) /\ v = SubSeq(s, p + 1, n)
      OBVIOUS
    <3>2. /\ u \in Seq(UserCallbacks) /\ Len(u) = p /\ \A i \in 1 .. p : u[i] = s[i]
      <4>1. \A i \in 1 .. p : s[i] \in UserCallbacks
        BY <1>2, <2>7
      <4>2. 1 \in Int /\ p \in Int
        BY <1>2
      <4>3. /\ SubSeq(s, 1, p) \in Seq(UserCallbacks)
            /\ Len(SubSeq(s, 1, p)) = IF 1 <= p THEN p - 1 + 1 ELSE 0
            /\ \A i \in 1 .. p - 1 + 1 : SubSeq(s, 1, p)[i] = s[1 + i - 1]
        BY <4>1, <4>2, SubSeqProperties
      <4>4. p - 1 + 1 = p /\ \A i \in 1 .. p : 1 + i - 1 = i
        BY <1>2
      <4>. QED
        BY <1>2, <3>1, <4>3, <4>4
    <3>3. v \in Seq(UserCallbacks)
      <4>1. \A i \in p + 1 .. n : s[i] \in UserCallbacks
        BY <1>2, <2>7
      <4>. QED
        BY <1>2, <3>1, <4>1, SubSeqProperties
    <3>4. u \o v = s
      <4>1. 1 \in 1 .. n + 1 /\ p \in 1 - 1 .. n /\ n \in p .. n
        BY <1>2, <2>7
      <4>2. SubSeq(s, 1, p) \o SubSeq(s, p + 1, n) = SubSeq(s, 1, n)
        BY <1>2, <4>1, ConcatAdjacentSubSeq
      <4>. QED
        BY <1>2, <3>1, <4>2, SubSeqFull
    <3>5. PICK a, b : a = Without(u, f) /\ b = Without(v, f)
      OBVIOUS
    <3>6. w = a \o b
      <4>1. Without(u \o v, f) = Without(u, f) \o Without(v, f)
        BY <3>2, <3>3, WithoutInParts
      <4>. QED
        BY <1>3, <3>4, <3>5, <4>1
    <3>7. a \in Seq(UserCallbacks) /\ b \in Seq(UserCallbacks) /\ Len(a) = p - Cardinality(Among(u, f, p))
      BY <3>2, <3>3, <3>5, WithoutFits
    <3>8. Among(u, f, p) = Among(s, f, p)
      BY <1>2, <2>7, <3>2 DEF Among
    <3>9. Len(a) = p - k /\ Len(a) \in Nat /\ Len(b) \in Nat /\ Len(w) = Len(a) + Len(b)
      <4>1. Len(a) = p - k
        BY <2>2, <3>7, <3>8
      <4>. QED
        BY <3>6, <3>7, <4>1, ConcatProperties
    <3>10. ToCall(d) = b
      <4>1. SubSeq(a \o b, Len(a) + 1, Len(a) + Len(b)) = b
        BY <3>7, LastPart
      <4>. QED
        BY <2>6, <3>6, <3>9, <4>1
    <3>11. d.index \in Int /\ d.index >= -1 /\ d.index + 1 <= d.length
      <4>1. d.index = Len(a) - 1
        BY <1>2, <2>3, <2>5, <3>9
      <4>. QED
        BY <2>4, <3>9, <4>1
    <3>12. TheFits(d)
      BY <1>7, <1>8, <2>4, <3>11 DEF TheFits
    <3>. QED
      BY <1>1, <1>3, <1>7, <2>6, <3>1, <3>5, <3>10, <3>12
  <2>8. CASE ~(p <= n)
    <3>1. Among(s, f, p) = Among(s, f, n) /\ Len(w) = n - k
      BY <1>2, <1>4, <1>6, <2>2, <2>8
    <3>2. /\ p + 1 \in Int /\ n \in Int /\ n < p + 1
          /\ p - k + 1 \in Int /\ Len(w) \in Int /\ Len(w) < p - k + 1
      BY <1>2, <1>4, <2>3, <2>8, <3>1
    <3>3. ToCall(c) = <<>> /\ ToCall(d) = <<>>
      BY <2>6, <3>2, SubSeqEmpty
    <3>4. Without(<<>>, f) = <<>>
      BY NothingLess
    <3>5. d.index \in Int /\ d.index >= -1
      BY <1>2, <1>4, <2>3, <2>5, <2>8, <3>1
    <3>6. TheFits(d)
      BY <1>7, <1>8, <2>1, <2>4, <2>8, <3>5 DEF TheFits
    <3>. QED
      BY <1>1, <1>3, <1>7, <3>3, <3>4, <3>6
  <2>. QED
    BY <2>7, <2>8
<1>. QED
  BY <1>9, <1>10

LEMMA RemoveStep ==
  ASSUME TurnsFit, NEW f \in UserCallbacks, Call(RemoveFrom(TheId, f, frames))
  PROVE  TurnsFit' /\ ListStep
<1>1. PICK c : c = lists[TheId]
  OBVIOUS
<1>2. threw' = threw /\ Keep(TheId, IF c.alive THEN Removed(c, f) ELSE c, frames)
  BY <1>1 DEF Call, RemoveFrom
<1>3. TheFits(c) /\ DOMAIN lists = {TheId} /\ (~threw => WaitFits(c))
  BY <1>1 DEF TurnsFit
<1>4. /\ Members = c.list /\ Owing = (IF frames # <<>> THEN ToCall(c) ELSE <<>>)
      /\ WasCleared <=> frames # <<>> /\ c.cleared
  BY <1>1, <1>3, Views
<1>5. CASE ~c.alive
  <2>1. /\ TurnsFit' /\ Members' = c.list /\ Owing' = (IF frames # <<>> THEN ToCall(c) ELSE <<>>)
        /\ Calling' = Calling /\ (WasCleared' <=> frames # <<>> /\ c.cleared)
    BY <1>1, <1>2, <1>3, <1>5, GoesOn
  <2>. QED
    BY <1>4, <2>1, Stutters
<1>6. CASE c.alive
  <2>1. PICK d : d = Removed(c, f)
    OBVIOUS
  <2>2. /\ TheFits(d) /\ d.list = Without(c.list, f) /\ d.firing = c.firing /\ d.cleared = c.cleared
        /\ c.firing => ToCall(d) = Without(ToCall(c), f)
    BY <1>3, <1>6, <2>1, RemovedFits
  <2>3. ~threw => WaitFits(d)
    BY <1>3, <2>1, OthersFit
  <2>4. Keep(TheId, d, frames)
    BY <1>2, <1>6, <2>1
  <2>5. /\ TurnsFit' /\ Members' = d.list /\ Owing' = (IF frames # <<>> THEN ToCall(d) ELSE <<>>)
        /\ Calling' = Calling /\ (WasCleared' <=> frames # <<>> /\ d.cleared)
    BY <1>1, <1>2, <2>2, <2>3, <2>4, GoesOn
  <2>6. Without(<<>>, f) = <<>>
    BY NothingLess
  <2>7. Members' = Without(Members, f) /\ Owing' = Without(Owing, f) /\ (WasCleared' <=> WasCleared)
    <3>1. frames # <<>> => c.firing
      BY <1>1, FiringNow
    <3>. QED
      BY <1>4, <2>2, <2>5, <2>6, <3>1
  <2>8. \A s : Inner!Without(s, f) = Without(s, f)
    BY DEF Inner!Without, Without
  <2>9. Inner!Leave(f)
    BY <2>5, <2>7, <2>8 DEF Inner!Leave, Members, Owing, Calling, WasCleared
  <2>. QED
    BY <2>5, <2>9 DEF ListStep, Inner!ListNext
<1>. QED
  BY <1>5, <1>6

LEMMA FireStep ==
  ASSUME TurnsFit, Call(FireWith(TheId, frames))
  PROVE  TurnsFit' /\ ListStep
<1>1. PICK c : c = lists[TheId]
  OBVIOUS
<1>2. threw' = threw /\ FireWith(TheId, frames)
  BY DEF Call
<1>3. TheFits(c) /\ DOMAIN lists = {TheId} /\ (~threw => WaitFits(c))
  BY <1>1 DEF TurnsFit
<1>4. /\ Members = c.list /\ Owing = (IF frames # <<>> THEN ToCall(c) ELSE <<>>)
      /\ WasCleared <=> frames # <<>> /\ c.cleared
  BY <1>1, <1>3, Views
<1>5. CASE ~c.alive \/ (c.fired /\ ~c.repeat)
  <2>1. Keep(TheId, c, frames)
    BY <1>1, <1>2, <1>5 DEF FireWith
  <2>2. /\ TurnsFit' /\ Members' = c.list /\ Owing' = (IF frames # <<>> THEN ToCall(c) ELSE <<>>)
        /\ Calling' = Calling /\ (WasCleared' <=> frames # <<>> /\ c.cleared)
    BY <1>1, <1>2, <1>3, <2>1, GoesOn
  <2>. QED
    BY <1>4, <2>2, Stutters
<1>6. CASE c.alive /\ ~(c.fired /\ ~c.repeat) /\ c.firing
  <2>1. PICK d : d = [c EXCEPT !.waiting = @ + 1, !.due = @ + 1]
    OBVIOUS
  <2>2. Keep(TheId, d, frames)
    BY <1>1, <1>2, <1>6, <2>1 DEF FireWith
  <2>3. /\ DOMAIN d = ListFields /\ d.list = c.list /\ d.index = c.index /\ d.length = c.length /\ d.start = c.start
        /\ d.alive = c.alive /\ d.firing = c.firing /\ d.cleared = c.cleared /\ d.repeat = c.repeat
        /\ d.fired = c.fired /\ d.waiting = c.waiting + 1 /\ d.due = c.due + 1 /\ d.dropped = c.dropped
    BY <1>3, <2>1 DEF TheFits, HasFields, ListFields
  <2>4. TheFits(d) /\ ToCall(d) = ToCall(c)
    BY <1>3, <2>3 DEF TheFits, HasFields, ToCall
  <2>5. ~threw => WaitFits(d)
    BY <1>3, <1>6, <2>3 DEF WaitFits
  <2>6. /\ TurnsFit' /\ Members' = d.list /\ Owing' = (IF frames # <<>> THEN ToCall(d) ELSE <<>>)
        /\ Calling' = Calling /\ (WasCleared' <=> frames # <<>> /\ d.cleared)
    BY <1>1, <1>2, <2>2, <2>3, <2>4, <2>5, GoesOn
  <2>7. Members' = Members /\ Owing' = Owing /\ (WasCleared' <=> WasCleared)
    BY <1>4, <2>3, <2>4, <2>6
  <2>. QED
    BY <2>6, <2>7, Stutters
<1>7. CASE c.alive /\ ~(c.fired /\ ~c.repeat) /\ ~c.firing
  <2>1. /\ frames = <<>> /\ ~threw /\ WaitFits(c) /\ c.waiting = 0
        /\ Members = c.list /\ Owing = <<>> /\ Calling = Nobody /\ ~WasCleared
    BY <1>1, <1>7, NotFiring
  <2>2. PICK s, d : s = c.list /\ d = Started(c)
    OBVIOUS
  <2>3. Settle(TheId, Continued(d), <<>>)
    BY <1>1, <1>2, <1>7, <2>1, <2>2 DEF FireWith
  <2>4. HandsOver(s, d) /\ s \in Seq(UserCallbacks)
    <3>1. /\ c.waiting \in Nat /\ (c.waiting > 0 => c.repeat) /\ HasFields(c)
          /\ c.dropped \in Nat /\ c.due = c.waiting + c.dropped
      BY <1>3, <2>1 DEF WaitFits, TheFits
    <3>2. HandsOver(c.list, Started(c))
      BY <1>7, <3>1, StartedHandsOver
    <3>. QED
      BY <2>2, <3>1, <3>2 DEF HasFields
  <2>5. TurnsFit' /\ (Rests(s) \/ Begins(s))
    BY <1>2, <1>3, <2>1, <2>3, <2>4, HandedOver
  <2>6. CASE Rests(s)
    <3>1. Inner!Complete
      BY <2>1, <2>2, <2>6 DEF Rests, Inner!Complete, Members, Owing, Calling, WasCleared, Nobody
    <3>. QED
      BY <2>5, <3>1 DEF ListStep, Inner!ListNext
  <2>7. CASE Begins(s)
    <3>1. Inner!Begin
      BY <2>1, <2>2, <2>7 DEF Begins, Inner!Begin, Members, Owing, Calling, WasCleared, Nobody
    <3>. QED
      BY <2>5, <3>1 DEF ListStep, Inner!ListNext
  <2>. QED
    BY <2>5, <2>6, <2>7
<1>. QED
  BY <1>5, <1>6, <1>7

(* An operation that empties the list: nothing is left to call. *)
LEMMA ClearStep ==
  ASSUME TurnsFit, threw' = threw, NEW c, c = lists[TheId], NEW d, Keep(TheId, d, frames),
         DOMAIN d = ListFields, d.list = <<>>, d.index = c.index, d.start = c.start, d.firing = c.firing,
         d.alive => d.length = 0 /\ (d.cleared \/ ~c.firing),
         d.cleared \in {c.cleared, c.firing}, ~threw => WaitFits(d)
  PROVE  TurnsFit' /\ ListStep
<1>1. TheFits(c) /\ DOMAIN lists = {TheId} /\ (~threw => WaitFits(c))
  BY DEF TurnsFit
<1>2. c.index \in Int /\ c.index >= -1 /\ c.start = 0 /\ c.firing \in BOOLEAN /\ c.cleared \in BOOLEAN
  BY <1>1 DEF TheFits, HasFields
<1>3. d.index \in Int /\ d.index >= -1 /\ d.start = 0
  BY <1>2
<1>4. d.firing \in BOOLEAN /\ d.cleared \in BOOLEAN /\ d.list \in Seq(UserCallbacks)
  BY <1>2
<1>5. TheFits(d)
  <2>1. HasFields(d)
    BY <1>3, <1>4 DEF HasFields
  <2>2. Len(<<>>) = 0
    OBVIOUS
  <2>. QED
    BY <2>1, <2>2 DEF TheFits
<1>6. ToCall(d) = <<>>
  <2>1. CASE d.alive
    <3>1. d.length < d.index + 2 /\ d.length \in Int /\ d.index + 2 \in Int
      BY <1>3, <2>1
    <3>. QED
      BY <3>1, SubSeqEmpty DEF ToCall
  <2>. QED
    BY <2>1 DEF ToCall
<1>7. /\ TurnsFit' /\ Members' = <<>> /\ Owing' = <<>> /\ Calling' = Calling
      /\ WasCleared' <=> frames # <<>> /\ d.cleared
  BY <1>5, <1>6, GoesOn
<1>8. WasCleared <=> frames # <<>> /\ c.cleared
  BY <1>1, Views
<1>9. (WasCleared' <=> WasCleared) \/ (WasCleared' <=> Calling # Nobody)
  <2>1. CASE frames = <<>>
    BY <1>7, <1>8, <2>1
  <2>2. CASE frames # <<>>
    <3>1. c.firing /\ Calling # Nobody
      BY <2>2, FiringNow
    <3>. QED
      BY <1>2, <1>7, <1>8, <2>2, <3>1
  <2>. QED
    BY <2>1, <2>2
<1>10. WasCleared' \in {WasCleared, Calling # Nobody}
  <2>1. WasCleared' \in BOOLEAN /\ WasCleared \in BOOLEAN /\ (Calling # Nobody) \in BOOLEAN
    BY <1>2, <1>4, <1>7, <1>8 DEF WasCleared
  <2>. QED
    BY <1>9, <2>1
<1>11. Inner!Clear
  BY <1>7, <1>10 DEF Inner!Clear, Members, Owing, Calling, WasCleared, Nobody
<1>. QED
  BY <1>7, <1>11 DEF ListStep, Inner!ListNext

LEMMA EmptyStep ==
  ASSUME TurnsFit, Call(Empty(TheId, frames)) \/ Call(Disable(TheId, frames)) \/ Call(Lock(TheId, frames))
  PROVE  TurnsFit' /\ ListStep
<1>1. PICK c : c = lists[TheId]
  OBVIOUS
<1>2. /\ threw' = threw
      /\ \/ Keep(TheId, Emptied(c), frames) \/ Keep(TheId, Disabled(c), frames) \/ Keep(TheId, Locked(c), frames)
  BY <1>1 DEF Call, Empty, Disable, Lock
<1>3. TheFits(c) /\ HasFields(c) /\ DOMAIN lists = {TheId} /\ (~threw => WaitFits(c))
  BY <1>1 DEF TurnsFit, TheFits
<1>4. DOMAIN c = ListFields
  BY <1>3 DEF HasFields
<1>5. CASE Keep(TheId, Emptied(c), frames)
  <2>1. PICK d : d = Emptied(c)
    OBVIOUS
  <2>2. /\ DOMAIN d = ListFields /\ d.list = <<>> /\ d.index = c.index /\ d.start = c.start /\ d.firing = c.firing
        /\ d.length = 0 /\ d.cleared = c.firing
    BY <1>4, <2>1 DEF Emptied, ListFields
  <2>3. ~threw => WaitFits(d)
    BY <1>3, <2>1, OthersFit
  <2>4. d.cleared \/ ~c.firing
    BY <1>3, <2>2 DEF HasFields
  <2>. QED
    BY <1>1, <1>2, <1>5, <2>1, <2>2, <2>3, <2>4, ClearStep
<1>6. ASSUME NEW d, d = Disabled(c) \/ (d = Locked(c) /\ ~c.memory), Keep(TheId, d, frames)
      PROVE  TurnsFit' /\ ListStep
  <2>1. /\ DOMAIN d = ListFields /\ d.list = <<>> /\ d.index = c.index /\ d.start = c.start /\ d.firing = c.firing
        /\ d.cleared = c.cleared /\ ~d.alive
    BY <1>4, <1>6 DEF Disabled, StackDropped, Locked, ListFields
  <2>2. ~threw => WaitFits(d)
    BY <1>3, <1>6, OthersFit
  <2>. QED
    BY <1>1, <1>2, <1>6, <2>1, <2>2, ClearStep
<1>7. CASE Keep(TheId, Locked(c), frames) /\ c.memory
  <2>1. PICK d : d = Locked(c)
    OBVIOUS
  <2>2. /\ DOMAIN d = ListFields /\ d.list = c.list /\ d.index = c.index /\ d.length = c.length /\ d.start = c.start
        /\ d.alive = c.alive /\ d.firing = c.firing /\ d.cleared = c.cleared
    BY <1>4, <1>7, <2>1 DEF Locked, StackDropped, ListFields
  <2>3. TheFits(d) /\ ToCall(d) = ToCall(c)
    BY <1>3, <2>2 DEF TheFits, HasFields, ToCall
  <2>4. ~threw => WaitFits(d)
    BY <1>3, <2>1, OthersFit
  <2>5. Keep(TheId, d, frames)
    BY <1>7, <2>1
  <2>6. /\ TurnsFit' /\ Members' = d.list /\ Owing' = (IF frames # <<>> THEN ToCall(d) ELSE <<>>)
        /\ Calling' = Calling /\ (WasCleared' <=> frames # <<>> /\ d.cleared)
    BY <1>1, <1>2, <2>2, <2>3, <2>4, <2>5, GoesOn
  <2>7. Members' = Members /\ Owing' = Owing /\ (WasCleared' <=> WasCleared)
    BY <1>1, <1>3, <2>2, <2>3, <2>6, Views
  <2>. QED
    BY <2>6, <2>7, Stutters
<1>. QED
  BY <1>2, <1>5, <1>6, <1>7

LEMMA TurnsStep ==
  ASSUME TurnsFit, CallbacksNext
  PROVE  TurnsFit' /\ ListStep
<1>1. DOMAIN lists = {TheId}
  BY DEF TurnsFit
<1>2. CASE Return \/ ReturnFalse \/ Throw
  BY <1>2, ReturnStep, ReturnFalseStep, ThrowStep
<1>3. ASSUME NEW f \in UserCallbacks, Call(Add(TheId, f, frames)) \/ Call(RemoveFrom(TheId, f, frames))
      PROVE  TurnsFit' /\ ListStep
  BY <1>3, AddsStep, RemoveStep
<1>4. CASE Call(FireWith(TheId, frames))
  BY <1>4, FireStep
<1>5. CASE Call(Empty(TheId, frames)) \/ Call(Disable(TheId, frames)) \/ Call(Lock(TheId, frames))
  BY <1>5, EmptyStep
<1>. QED
  BY <1>1, <1>2, <1>3, <1>4, <1>5 DEF CallbacksNext

LEMMA TurnsBegin ==
  ASSUME CallbacksInit
  PROVE  TurnsFit /\ Inner!ListInit
<1>1. PICK options \in Options : lists = [l \in {TheId} |-> NewList(options)]
  BY DEF CallbacksInit
<1>2. PICK c : c = NewList(options)
  OBVIOUS
<1>3. DOMAIN lists = {TheId} /\ lists[TheId] = c /\ frames = <<>> /\ ~threw
  BY <1>1, <1>2 DEF CallbacksInit
<1>4. /\ DOMAIN c = ListFields /\ c.list = <<>> /\ c.index = 0 /\ c.start = 0 /\ c.firing = FALSE /\ c.cleared = FALSE
      /\ c.alive /\ WaitFits(c)
  BY <1>2, NewFits DEF NewList, ListFields
<1>5. TheFits(c)
  <2>1. <<>> \in Seq(UserCallbacks)
    OBVIOUS
  <2>2. c.index \in Int /\ c.index >= -1
    BY <1>4
  <2>3. c.firing \in BOOLEAN /\ c.cleared \in BOOLEAN
    BY <1>4
  <2>4. HasFields(c)
    BY <1>4, <2>1, <2>2, <2>3 DEF HasFields
  <2>. QED
    BY <1>4, <2>4 DEF TheFits
<1>6. TurnsFit
  BY <1>3, <1>4, <1>5 DEF TurnsFit
<1>7. Members = <<>> /\ Owing = <<>> /\ Calling = Nobody /\ ~WasCleared
  BY <1>3, <1>4, Views
<1>8. WasCleared = FALSE
  BY <1>7 DEF WasCleared, Fires
<1>. QED
  BY <1>6, <1>7, <1>8 DEF Inner!ListInit, Members, Owing, Calling, WasCleared, Nobody

(* Callbacks.TurnsFit: while a callback of the list runs, the index of the *)
(* loop is within the list, unless the list was emptied under it, and the  *)
(* length it runs to is the list's (jquery-1.10.1.js:3027-3058).           *)
THEOREM TurnsInvariance == CallbacksSpec => []TurnsFit
<1>1. CallbacksInit => TurnsFit
  BY TurnsBegin
<1>2. TurnsFit /\ [CallbacksNext]_callbackVars => TurnsFit'
  <2>1. ASSUME TurnsFit, UNCHANGED callbackVars PROVE TurnsFit'
    BY <2>1 DEF callbackVars, TurnsFit
  <2>. QED
    BY <2>1, TurnsStep
<1>. QED
  BY <1>1, <1>2, PTL DEF CallbacksSpec

(* Callbacks.CallsEachInTurn: the list that the code keeps with indices     *)
(* implements the one without: whatever the callbacks do to their own      *)
(* list, each is called in its turn, once (jquery-1.10.1.js:3073-3145).    *)
THEOREM CallbackListIsImplemented == CallbacksSpec => CallsEachInTurn
<1>1. CallbacksInit => Inner!ListInit
  BY TurnsBegin
<1>2. TurnsFit /\ [CallbacksNext]_callbackVars => [Inner!ListNext]_(Inner!listVars)
  <2>1. ASSUME UNCHANGED callbackVars PROVE UNCHANGED Inner!listVars
    BY <2>1 DEF callbackVars, Inner!listVars, TheList, Observed, Fires, Top
  <2>. QED
    BY <2>1, TurnsStep DEF ListStep
<1>. QED
  BY <1>1, <1>2, TurnsInvariance, PTL DEF CallbacksSpec, CallsEachInTurn, Inner!ListSpec

=============================================================================
