--------------------------- MODULE EffectsProofs ---------------------------
(***************************************************************************)
(* Effects: each running animation is driven, the queue runs one at a time, *)
(* and a promise is resolved when nothing is left.  The first is claimed    *)
(* until stop or finish is called in a callback of stop or finish; the     *)
(* others, until a callback throws or the page does what makes jQuery lose *)
(* track of its queue (Effects, OneAtATime).                               *)
(***************************************************************************)
EXTENDS Effects, Induction, SequenceTheorems, FiniteSetTheorems

(***************************************************************************)
(* The stack of steps                                                      *)
(***************************************************************************)
Brief == {"callback", "dequeue", "uncount", "start"}
Steps ==
  {<<"callback">>, <<"dequeue">>, <<"uncount">>, <<"finished">>}
    \cup ({"start"} \X BOOLEAN \X BOOLEAN) \cup ({"stop"} \X BOOLEAN)
    \cup ({"tick", "splice"} \X (Nat \ {0})) \cup ({"ticked"} \X (Nat \ {0}) \X Nat)
    \cup ({"stopping"} \X Nat \X BOOLEAN \X BOOLEAN \X BOOLEAN)

LEMMA Shapes ==
  /\ {<<"callback">>, <<"dequeue">>, <<"uncount">>, <<"finished">>} \subseteq Steps
  /\ \A q, instant \in BOOLEAN : <<"start", q, instant>> \in Steps
  /\ \A gotoEnd \in BOOLEAN : <<"stop", gotoEnd>> \in Steps
  /\ \A i \in Nat \ {0} : <<"tick", i>> \in Steps /\ <<"splice", i>> \in Steps
  /\ \A i \in Nat \ {0}, a \in Nat : <<"ticked", i, a>> \in Steps
  /\ \A i \in Nat, g, d, q \in BOOLEAN : <<"stopping", i, g, d, q>> \in Steps
BY DEF Steps

LEMMA Parts ==
  ASSUME NEW s \in Steps
  PROVE  /\ s[1] \in Brief \cup {"finished", "stop", "tick", "ticked", "splice", "stopping"}
         /\ s[1] = "callback" => s = <<"callback">>
         /\ s[1] = "dequeue" => s = <<"dequeue">>
         /\ s[1] = "uncount" => s = <<"uncount">>
         /\ s[1] = "finished" => s = <<"finished">>
         /\ s[1] = "start" => s[2] \in BOOLEAN /\ s[3] \in BOOLEAN
         /\ s[1] = "stop" => s[2] \in BOOLEAN
         /\ s[1] \in {"tick", "splice"} => s[2] \in Nat \ {0} /\ s = <<s[1], s[2]>>
         /\ s[1] = "ticked" => s[2] \in Nat \ {0} /\ s[3] \in Nat
         /\ s[1] = "stopping" => s[2] \in Nat /\ s[3] \in BOOLEAN /\ s[4] \in BOOLEAN /\ s[5] \in BOOLEAN
BY DEF Steps, Brief

(* What becomes of the stack s when its first c steps are taken away and    *)
(* new ones are put in front.                                              *)
Restacked(t, new, s, c) ==
  /\ s \in Seq(Steps) /\ t \in Seq(Steps) /\ new \in Seq(Steps) /\ c \in {0, 1} /\ c <= Len(s)
  /\ Len(t) = Len(new) + Len(s) - c
  /\ \A j \in 1 .. Len(new) : t[j] = new[j]
  /\ \A m \in c + 1 .. Len(s) : t[m + (Len(new) - c)] = s[m]

LEMMA Pushed ==
  ASSUME NEW s \in Seq(Steps), NEW new \in Seq(Steps)
  PROVE  Restacked(new \o s, new, s, 0)
<1>1. /\ new \o s \in Seq(Steps) /\ Len(new \o s) = Len(new) + Len(s) /\ Len(new) \in Nat /\ Len(s) \in Nat
      /\ \A i \in 1 .. Len(new) + Len(s) : (new \o s)[i] = IF i <= Len(new) THEN new[i] ELSE s[i - Len(new)]
  BY ConcatProperties
<1>2. \A m \in 1 .. Len(s) : m + Len(new) \in 1 .. Len(new) + Len(s) /\ ~(m + Len(new) <= Len(new)) /\ m + Len(new) - Len(new) = m
  BY <1>1
<1>3. \A m \in 1 .. Len(s) : (new \o s)[m + Len(new)] = s[m]
  BY <1>1, <1>2
<1>4. Len(new) - 0 = Len(new) /\ 0 + 1 = 1 /\ Len(new) + Len(s) - 0 = Len(new) + Len(s)
  BY <1>1
<1>5. \A j \in 1 .. Len(new) : (new \o s)[j] = new[j]
  BY <1>1
<1>. QED
  BY <1>1, <1>3, <1>4, <1>5 DEF Restacked

LEMMA Replaced ==
  ASSUME NEW s \in Seq(Steps), NEW new \in Seq(Steps), s # <<>>
  PROVE  Restacked(new \o Tail(s), new, s, 1)
<1>1. PICK r : r = Tail(s)
  OBVIOUS
<1>2. /\ r \in Seq(Steps) /\ Len(s) \in Nat /\ Len(s) >= 1 /\ Len(r) = Len(s) - 1
      /\ \A i \in 1 .. Len(r) : r[i] = s[i + 1]
  BY <1>1, HeadTailProperties
<1>3. Restacked(new \o r, new, r, 0)
  BY <1>2, Pushed
<1>4. /\ Len(new) \in Nat /\ new \o r \in Seq(Steps) /\ Len(new \o r) = Len(new) + Len(s) - 1
      /\ \A j \in 1 .. Len(new) : (new \o r)[j] = new[j]
  BY <1>2, <1>3 DEF Restacked
<1>5. ASSUME NEW m \in 2 .. Len(s) PROVE (new \o r)[m + (Len(new) - 1)] = s[m]
  <2>1. m - 1 \in 1 .. Len(r) /\ m - 1 + 1 = m /\ m - 1 + (Len(new) - 0) = m + (Len(new) - 1)
    BY <1>2, <1>4
  <2>2. (new \o r)[m - 1 + (Len(new) - 0)] = r[m - 1]
    BY <1>3, <2>1 DEF Restacked
  <2>. QED
    BY <1>2, <2>1, <2>2
<1>. QED
  BY <1>1, <1>2, <1>4, <1>5 DEF Restacked

(* Each place of the new stack is a new one or one of the old. *)
LEMMA PlacesOf ==
  ASSUME NEW t, NEW new, NEW s, NEW c, Restacked(t, new, s, c)
  PROVE  /\ Len(s) \in Nat /\ Len(t) \in Nat /\ Len(new) \in Nat
         /\ \A k \in 1 .. Len(t) :
              \/ k \in 1 .. Len(new) /\ t[k] = new[k]
              \/ \E m \in c + 1 .. Len(s) : k = m + (Len(new) - c) /\ t[k] = s[m]
         /\ \A m \in c + 1 .. Len(s) : m + (Len(new) - c) \in 1 .. Len(t)
         /\ \A j \in 1 .. Len(new) : j \in 1 .. Len(t)
<1>1. Len(s) \in Nat /\ Len(t) \in Nat /\ Len(new) \in Nat /\ c \in {0, 1} /\ c <= Len(s) /\ Len(t) = Len(new) + Len(s) - c
  BY DEF Restacked
<1>2. ASSUME NEW k \in 1 .. Len(t), k \notin 1 .. Len(new)
      PROVE  \E m \in c + 1 .. Len(s) : k = m + (Len(new) - c) /\ t[k] = s[m]
  <2>1. PICK m \in Int : m = k - (Len(new) - c)
    BY <1>1
  <2>2. m \in c + 1 .. Len(s) /\ k = m + (Len(new) - c)
    BY <1>1, <1>2, <2>1
  <2>. QED
    BY <2>2 DEF Restacked
<1>3. \A k \in 1 .. Len(new) : k \in 1 .. Len(t) /\ t[k] = new[k]
  BY <1>1 DEF Restacked
<1>4. \A m \in c + 1 .. Len(s) : m + (Len(new) - c) \in 1 .. Len(t)
  BY <1>1
<1>. QED
  BY <1>1, <1>2, <1>3, <1>4

(* What may lie above what.  A tick and what it does is the last thing the  *)
(* script does; while timers are being stopped only short steps come in     *)
(* between, and none at all before the first timer is stopped or if none    *)
(* is brought to its end; finish ends after what it starts, and what calls  *)
(* the page in between owes a dequeue.                                      *)
IsUnqueuedStart(step) == step[1] = "start" /\ ~step[2]
CallsPage(step) == step[1] = "callback" \/ IsUnqueuedStart(step)
TakesOver(step) == step[1] = "stop" \/ (step[1] = "stopping" /\ (step[4] \/ ~step[3]))

LoopAt(s, k) ==
  /\ s[k][1] \in {"tick", "ticked"} => k = Len(s)
  /\ s[k][1] = "splice" => k < Len(s) /\ s[k + 1][1] = "stopping" /\ s[k][2] = s[k + 1][2] + 1
  /\ s[k][1] = "stopping" =>
       \A j \in 1 .. k - 1 : s[j][1] \in Brief \/ (s[j][1] = "splice" /\ j = k - 1)
StopAt(s, k, empty) ==
  /\ s[k][1] = "stopping" =>
       /\ ~s[k][3] => \A j \in 1 .. k - 1 : s[j][1] \in {"uncount", "splice"}
       /\ s[k][4] => k = 1
       /\ s[k][5] => s[k][3]
  /\ s[k][1] = "stop" => k = 1 \/ (k = 2 /\ s[1] = <<"dequeue">> /\ empty)
FinishAt(s, k) ==
  /\ s[k][1] = "start" /\ s[k][2] => k = 1 \/ \E m \in k + 1 .. Len(s) : s[m][1] = "finished"
  /\ s[k][1] = "finished" =>
       \A j \in 1 .. k - 1 :
         /\ s[j][1] \in Brief \cup {"splice", "stopping"}
         /\ s[j][1] = "stopping" => s[j][5]
         /\ CallsPage(s[j]) => \E m \in j + 1 .. k - 1 : s[m] = <<"dequeue">>
StackFits(s, empty) == \A k \in 1 .. Len(s) : LoopAt(s, k) /\ StopAt(s, k, empty) /\ FinishAt(s, k)

(* Short steps are put on the stack, in place of the first or on top. *)
BriefChange(t, new, s, c) ==
  /\ Restacked(t, new, s, c)
  /\ \A j \in 1 .. Len(new) : new[j][1] \in Brief
  /\ c = 0 => s = <<>> \/ s[1] = <<"callback">>
  /\ new = <<>> \/ \A m \in c + 1 .. Len(s) : ~TakesOver(s[m])
  /\ \A j \in 1 .. Len(new) : new[j][1] = "start" /\ new[j][2] => j = 1
  /\ \A m \in c + 1 .. Len(s), j \in 1 .. Len(new) : s[m][1] = "finished" /\ CallsPage(new[j]) =>
        \/ \E i \in j + 1 .. Len(new) : new[i] = <<"dequeue">>
        \/ \E i \in c + 1 .. m - 1 : s[i] = <<"dequeue">>

LEMMA BriefSteps ==
  ASSUME NEW t, NEW new, NEW s, NEW c, BriefChange(t, new, s, c), NEW empty, NEW emptied, StackFits(s, empty)
  PROVE  StackFits(t, emptied)
<1>h. /\ Restacked(t, new, s, c)
      /\ \A j \in 1 .. Len(new) : new[j][1] \in Brief
      /\ c = 0 => s = <<>> \/ s[1] = <<"callback">>
      /\ new = <<>> \/ \A m \in c + 1 .. Len(s) : ~TakesOver(s[m])
      /\ \A j \in 1 .. Len(new) : new[j][1] = "start" /\ new[j][2] => j = 1
      /\ \A m \in c + 1 .. Len(s), j \in 1 .. Len(new) : s[m][1] = "finished" /\ CallsPage(new[j]) =>
            \/ \E i \in j + 1 .. Len(new) : new[i] = <<"dequeue">>
            \/ \E i \in c + 1 .. m - 1 : s[i] = <<"dequeue">>
  BY DEF BriefChange
<1>. USE <1>h
<1>1. PICK n : n = Len(new)
  OBVIOUS
<1>2. PICK d : d = n - c
  OBVIOUS
<1>3. /\ n \in Nat /\ Len(s) \in Nat /\ Len(t) \in Nat /\ c \in {0, 1} /\ c <= Len(s) /\ d \in Int /\ d = n - c
      /\ Len(t) = Len(s) + d
      /\ \A j \in 1 .. n : t[j] = new[j] /\ new[j][1] \in Brief /\ j \in 1 .. Len(t)
      /\ \A m \in c + 1 .. Len(s) : t[m + d] = s[m] /\ m + d \in 1 .. Len(t)
  BY <1>1, <1>2, PlacesOf DEF Restacked
<1>0. n \in Nat /\ Len(s) \in Nat /\ Len(t) \in Nat /\ c \in Int /\ 0 <= c /\ d \in Int /\ d = n - c /\ Len(t) = Len(s) + d
  BY <1>3
<1>4. ASSUME NEW k \in 1 .. Len(t)
      PROVE  k \in 1 .. n \/ \E m \in c + 1 .. Len(s) : k = m + d /\ t[k] = s[m]
  BY <1>1, <1>2, PlacesOf
<1>. HIDE DEF StackFits
<1>5. ASSUME NEW k \in 1 .. n PROVE LoopAt(t, k) /\ StopAt(t, k, emptied) /\ FinishAt(t, k)
  <2>1. t[k] = new[k] /\ t[k][1] \in Brief
    BY <1>3
  <2>2. t[k][1] = "start" /\ t[k][2] => k = 1
    BY <1>1, <2>1
  <2>. QED
    BY <2>1, <2>2 DEF LoopAt, StopAt, FinishAt, Brief
<1>6. ASSUME NEW m \in c + 1 .. Len(s), NEW k, k = m + d PROVE LoopAt(t, k) /\ StopAt(t, k, emptied) /\ FinishAt(t, k)
  <2>0. m \in 1 .. Len(s) /\ k \in 1 .. Len(t) /\ t[k] = s[m]
    BY <1>3, <1>6
  <2>1. LoopAt(s, m) /\ StopAt(s, m, empty) /\ FinishAt(s, m)
    BY <2>0 DEF StackFits
  <2>2. ASSUME NEW j \in 1 .. k - 1
        PROVE  \/ j \in 1 .. n /\ t[j] = new[j] /\ new[j][1] \in Brief
               \/ \E i \in c + 1 .. m - 1 : i \in 1 .. m - 1 /\ j = i + d /\ t[j] = s[i]
    <3>1. j \in 1 .. Len(t)
      BY <1>3, <1>6
    <3>2. CASE j \in 1 .. n
      BY <1>3, <1>6, <3>2
    <3>3. ASSUME NEW i \in c + 1 .. Len(s), j = i + d, t[j] = s[i] PROVE i \in c + 1 .. m - 1 /\ i \in 1 .. m - 1
      BY <1>3, <1>6, <3>3
    <3>. QED
      BY <1>4, <3>1, <3>2, <3>3
  <2>3. LoopAt(t, k)
    <3>1. m = Len(s) => k = Len(t)
      BY <1>3, <1>6
    <3>2. m < Len(s) => k < Len(t) /\ t[k + 1] = s[m + 1]
      <4>1. m < Len(s) => m + 1 \in c + 1 .. Len(s) /\ m + 1 + d = k + 1 /\ k < Len(t)
        BY <1>3, <1>6
      <4>. QED
        BY <1>3, <1>6, <4>1
    <3>3. ASSUME s[m][1] = "stopping", NEW j \in 1 .. k - 1
          PROVE  t[j][1] \in Brief \/ (t[j][1] = "splice" /\ j = k - 1)
      <4>1. ASSUME NEW i \in 1 .. m - 1, j = i + d, t[j] = s[i] PROVE t[j][1] \in Brief \/ (t[j][1] = "splice" /\ j = k - 1)
        <5>1. i = m - 1 => j = k - 1
          BY <1>3, <1>6, <4>1
        <5>. QED
          BY <2>1, <3>3, <4>1, <5>1 DEF LoopAt
      <4>. QED
        BY <2>2, <4>1
    <3>4. s[m][1] \in {"tick", "ticked"} => k = Len(t)
      BY <2>1, <3>1 DEF LoopAt
    <3>5. s[m][1] = "splice" => k < Len(t) /\ t[k + 1][1] = "stopping" /\ s[m][2] = t[k + 1][2] + 1
      BY <2>1, <3>2 DEF LoopAt
    <3>6. PICK step : step = t[k]
      OBVIOUS
    <3>7. /\ step[1] \in {"tick", "ticked"} => k = Len(t)
          /\ step[1] = "splice" => k < Len(t) /\ t[k + 1][1] = "stopping" /\ step[2] = t[k + 1][2] + 1
          /\ step[1] = "stopping" => \A j \in 1 .. k - 1 : t[j][1] \in Brief \/ (t[j][1] = "splice" /\ j = k - 1)
      BY <2>0, <3>3, <3>4, <3>5, <3>6
    <3>8. LoopAt(t, k)
      BY <3>6, <3>7, Zenon DEF LoopAt
    <3>. QED
      BY <3>6, <3>8
  <2>4. StopAt(t, k, emptied)
    <3>1. CASE new = <<>>
      <4>1. n = 0
        BY <1>1, <3>1
      <4>2. CASE c = 0
        <5>1. s[1] = <<"callback">> /\ d = 0 /\ k = m
          BY <1>3, <1>6, <4>1, <4>2
        <5>2. ~TakesOver(s[m])
          <6>1. m = 1 => s[m][1] = "callback"
            BY <5>1
          <6>2. m # 1 => 1 \in 1 .. m - 1
            BY <2>0
          <6>3. s[1] # <<"dequeue">> /\ s[1][1] \notin {"uncount", "splice"}
            BY <5>1
          <6>. QED
            BY <2>1, <6>1, <6>2, <6>3 DEF TakesOver, StopAt
        <5>. QED
          BY <2>0, <2>1, <5>2 DEF TakesOver, StopAt
      <4>3. CASE c = 1
        <5>1. d = 0 - 1 /\ m # 1 /\ (m = 2 => k = 1)
          BY <1>3, <1>6, <4>1, <4>3
        <5>2. ASSUME s[m][1] = "stopping", ~s[m][3], NEW j \in 1 .. k - 1 PROVE t[j][1] \in {"uncount", "splice"}
          BY <2>1, <2>2, <4>1, <5>2 DEF StopAt
        <5>. QED
          BY <2>0, <2>1, <5>1, <5>2 DEF StopAt
      <4>. QED
        BY <1>3, <1>6, <4>2, <4>3
    <3>2. CASE ~TakesOver(s[m])
      BY <2>0, <2>1, <3>2 DEF TakesOver, StopAt
    <3>. QED
      BY <3>1, <3>2
  <2>5. FinishAt(t, k)
    <3>1. ASSUME s[m][1] = "start", s[m][2] PROVE \E i \in k + 1 .. Len(t) : t[i][1] = "finished"
      <4>1. m # 1
        <5>1. CASE m = 1
          <6>1. c = 0 /\ s # <<>>
            BY <1>3, <1>6, <5>1
          <6>. QED
            BY <3>1, <5>1, <6>1
        <5>. QED
          BY <5>1
      <4>2. PICK i \in m + 1 .. Len(s) : s[i][1] = "finished"
        BY <2>1, <3>1, <4>1 DEF FinishAt
      <4>3. i \in c + 1 .. Len(s) /\ i + d \in k + 1 .. Len(t)
        BY <1>3, <1>6
      <4>. QED
        BY <1>3, <1>6, <4>2, <4>3
    <3>2. ASSUME s[m][1] = "finished", NEW j \in 1 .. k - 1
          PROVE  /\ t[j][1] \in Brief \cup {"splice", "stopping"}
                 /\ t[j][1] = "stopping" => t[j][5]
                 /\ CallsPage(t[j]) => \E i \in j + 1 .. k - 1 : t[i] = <<"dequeue">>
      <4>0. ASSUME NEW i \in c + 1 .. m - 1 PROVE i \in 1 .. m - 1 /\ t[i + d] = s[i]
        <5>1. i \in c + 1 .. Len(s) /\ i \in 1 .. m - 1
          BY <1>0, <1>6
        <5>. QED
          BY <1>3, <1>6, <5>1
      <4>1. CASE j \in 1 .. n
        <5>1. t[j] = new[j] /\ t[j][1] \in Brief /\ t[j][1] # "stopping"
          BY <1>3, <1>6, <4>1 DEF Brief
        <5>2. ASSUME CallsPage(new[j]) PROVE \E i \in j + 1 .. k - 1 : t[i] = <<"dequeue">>
          <6>1. CASE \E i \in j + 1 .. n : new[i] = <<"dequeue">>
            <7>1. PICK i \in j + 1 .. n : new[i] = <<"dequeue">>
              BY <6>1
            <7>2. i \in 1 .. n /\ i \in j + 1 .. k - 1
              BY <1>3, <1>6, <4>1
            <7>. QED
              BY <1>3, <1>6, <7>1, <7>2
          <6>2. CASE \E i \in c + 1 .. m - 1 : s[i] = <<"dequeue">>
            <7>1. PICK i \in c + 1 .. m - 1 : s[i] = <<"dequeue">>
              BY <6>2
            <7>2. i + d \in j + 1 .. k - 1
              BY <1>3, <1>6, <4>1
            <7>. QED
              BY <4>0, <7>1, <7>2
          <6>. QED
            BY <1>1, <3>2, <4>1, <5>2, <6>1, <6>2
        <5>. QED
          BY <5>1, <5>2
      <4>2. ASSUME NEW i \in c + 1 .. m - 1, i \in 1 .. m - 1, j = i + d, t[j] = s[i]
            PROVE  /\ t[j][1] \in Brief \cup {"splice", "stopping"}
                   /\ t[j][1] = "stopping" => t[j][5]
                   /\ CallsPage(t[j]) => \E l \in j + 1 .. k - 1 : t[l] = <<"dequeue">>
        <5>1. ASSUME CallsPage(t[j]) PROVE \E l \in j + 1 .. k - 1 : t[l] = <<"dequeue">>
          <6>1. PICK l \in i + 1 .. m - 1 : s[l] = <<"dequeue">>
            BY <2>1, <3>2, <4>2, <5>1 DEF FinishAt
          <6>2. l \in Int /\ i \in Int /\ m \in Int /\ i + 1 <= l /\ l <= m - 1 /\ c + 1 <= i
            BY <1>0, <1>6
          <6>3. l \in c + 1 .. m - 1 /\ l + d \in i + d + 1 .. k - 1
            BY <1>0, <1>6, <6>2
          <6>. QED
            BY <4>0, <4>2, <6>1, <6>3
        <5>. QED
          BY <2>1, <3>2, <4>2, <5>1 DEF FinishAt
      <4>. QED
        BY <2>2, <4>1, <4>2
    <3>3. t[k][1] = s[m][1] /\ t[k][2] = s[m][2]
      BY <2>0
    <3>4. t[k][1] = "start" /\ t[k][2] => \E i \in k + 1 .. Len(t) : t[i][1] = "finished"
      BY <3>1, <3>3
    <3>5. t[k][1] = "finished" =>
            \A j \in 1 .. k - 1 :
              /\ t[j][1] \in Brief \cup {"splice", "stopping"}
              /\ t[j][1] = "stopping" => t[j][5]
              /\ CallsPage(t[j]) => \E i \in j + 1 .. k - 1 : t[i] = <<"dequeue">>
      BY <3>2, <3>3
    <3>6. PICK step : step = t[k]
      OBVIOUS
    <3>7. /\ step[1] = "start" /\ step[2] => \E i \in k + 1 .. Len(t) : t[i][1] = "finished"
          /\ step[1] = "finished" =>
               \A j \in 1 .. k - 1 :
                 /\ t[j][1] \in Brief \cup {"splice", "stopping"}
                 /\ t[j][1] = "stopping" => t[j][5]
                 /\ CallsPage(t[j]) => \E i \in j + 1 .. k - 1 : t[i] = <<"dequeue">>
      BY <3>4, <3>5, <3>6
    <3>8. FinishAt(t, k)
      BY <3>6, <3>7, Zenon DEF FinishAt
    <3>. QED
      BY <3>6, <3>8
  <2>. QED
    BY <2>3, <2>4, <2>5
<1>. QED
  BY <1>3, <1>4, <1>5, <1>6 DEF StackFits

(* Nothing below the first step is about to stop what the first step does. *)
LEMMA NoneTakesOver ==
  ASSUME NEW s \in Seq(Steps), NEW empty, StackFits(s, empty), s # <<>>,
         s[1][1] \notin {"uncount", "splice"}, s[1][1] = "dequeue" => ~empty
  PROVE  \A m \in 2 .. Len(s) : ~TakesOver(s[m])
<1>1. Len(s) \in Nat
  BY LenProperties
<1>. SUFFICES ASSUME NEW m \in 2 .. Len(s) PROVE ~TakesOver(s[m])
  OBVIOUS
<1>2. m \in 1 .. Len(s) /\ 1 \in 1 .. m - 1 /\ m # 1
  BY <1>1
<1>3. LoopAt(s, m) /\ StopAt(s, m, empty)
  BY <1>2 DEF StackFits
<1>4. s[m][1] # "stop"
  <2>1. s[1] = <<"dequeue">> => s[1][1] = "dequeue"
    OBVIOUS
  <2>. QED
    BY <1>2, <1>3, <2>1 DEF StopAt
<1>5. s[m][1] = "stopping" => s[m][3] /\ ~s[m][4]
  BY <1>2, <1>3 DEF StopAt
<1>. QED
  BY <1>4, <1>5 DEF TakesOver

LEMMA NothingStops ==
  ASSUME NEW s \in Seq(Steps), NEW empty, StackFits(s, empty), s # <<>>, s[1][1] \notin Brief \cup {"splice"}
  PROVE  \A m \in 2 .. Len(s) : s[m][1] \notin {"stop", "stopping", "splice"}
<1>1. Len(s) \in Nat
  BY LenProperties
<1>2. ASSUME NEW m \in 2 .. Len(s) PROVE s[m][1] # "stopping"
  <2>1. m \in 1 .. Len(s) /\ 1 \in 1 .. m - 1
    BY <1>1
  <2>2. LoopAt(s, m)
    BY <2>1 DEF StackFits
  <2>. QED
    BY <2>1, <2>2 DEF LoopAt
<1>3. ASSUME NEW m \in 2 .. Len(s) PROVE s[m][1] # "splice"
  <2>1. m \in 1 .. Len(s) /\ (m < Len(s) => m + 1 \in 2 .. Len(s))
    BY <1>1
  <2>2. LoopAt(s, m)
    BY <2>1 DEF StackFits
  <2>. QED
    BY <1>2, <2>1, <2>2 DEF LoopAt
<1>4. \A m \in 2 .. Len(s) : ~TakesOver(s[m])
  BY NoneTakesOver DEF Brief
<1>. QED
  BY <1>2, <1>3, <1>4 DEF TakesOver

(* Any steps are put on a stack in which nothing is being stopped. *)
StackChange(t, new, s, c, emptied) ==
  /\ Restacked(t, new, s, c) /\ StackFits(new, emptied)
  /\ \A m \in c + 1 .. Len(s) :
       s[m][1] \notin {"stop", "stopping", "splice"} /\ (s[m][1] = "start" /\ s[m][2] => m # 1)
  /\ \A j \in 1 .. Len(new) : new[j][1] \in {"tick", "ticked"} => Len(s) = c
  /\ \A m \in c + 1 .. Len(s), j \in 1 .. Len(new) : s[m][1] = "finished" =>
       /\ new[j][1] \in Brief \cup {"splice", "stopping"}
       /\ new[j][1] = "stopping" => new[j][5]
       /\ CallsPage(new[j]) => \E i \in j + 1 .. Len(new) : new[i] = <<"dequeue">>

LEMMA StackSteps ==
  ASSUME NEW t, NEW new, NEW s, NEW c, NEW empty, NEW emptied, StackChange(t, new, s, c, emptied), StackFits(s, empty)
  PROVE  StackFits(t, emptied)
<1>h. /\ Restacked(t, new, s, c) /\ StackFits(new, emptied)
      /\ \A m \in c + 1 .. Len(s) :
           s[m][1] \notin {"stop", "stopping", "splice"} /\ (s[m][1] = "start" /\ s[m][2] => m # 1)
      /\ \A j \in 1 .. Len(new) : new[j][1] \in {"tick", "ticked"} => Len(s) = c
      /\ \A m \in c + 1 .. Len(s), j \in 1 .. Len(new) : s[m][1] = "finished" =>
           /\ new[j][1] \in Brief \cup {"splice", "stopping"}
           /\ new[j][1] = "stopping" => new[j][5]
           /\ CallsPage(new[j]) => \E i \in j + 1 .. Len(new) : new[i] = <<"dequeue">>
  BY DEF StackChange
<1>. USE <1>h
<1>1. PICK n : n = Len(new)
  OBVIOUS
<1>2. PICK d : d = n - c
  OBVIOUS
<1>3. /\ n \in Nat /\ Len(s) \in Nat /\ Len(t) \in Nat /\ c \in {0, 1} /\ c <= Len(s) /\ d \in Int /\ d = n - c
      /\ Len(t) = Len(s) + d
      /\ \A j \in 1 .. n : t[j] = new[j] /\ j \in 1 .. Len(t)
      /\ \A m \in c + 1 .. Len(s) : t[m + d] = s[m] /\ m + d \in 1 .. Len(t)
  BY <1>1, <1>2, PlacesOf DEF Restacked
<1>0. n \in Nat /\ Len(s) \in Nat /\ Len(t) \in Nat /\ c \in Int /\ 0 <= c /\ d \in Int /\ d = n - c /\ Len(t) = Len(s) + d
  BY <1>3
<1>4. ASSUME NEW k \in 1 .. Len(t)
      PROVE  k \in 1 .. n \/ \E m \in c + 1 .. Len(s) : k = m + d /\ t[k] = s[m]
  BY <1>1, <1>2, PlacesOf
<1>. HIDE DEF StackFits
<1>5. ASSUME NEW k \in 1 .. n PROVE LoopAt(t, k) /\ StopAt(t, k, emptied) /\ FinishAt(t, k)
  <2>1. LoopAt(new, k) /\ StopAt(new, k, emptied) /\ FinishAt(new, k)
    BY <1>1 DEF StackFits
  <2>2. t[k] = new[k]
    BY <1>3
  <2>3. \A j \in 1 .. k - 1 : t[j] = new[j]
    BY <1>3
  <2>4. k < n => k + 1 \in 1 .. n /\ t[k + 1] = new[k + 1] /\ k < Len(t)
    BY <1>3
  <2>5. Len(s) = c => Len(t) = n
    BY <1>3
  <2>6. \A m \in k + 1 .. n : m \in k + 1 .. Len(t) /\ t[m] = new[m]
    BY <1>3
  <2>7. k # 1 => 1 \in 1 .. k - 1
    BY <1>3
  <2>8. \A j \in 1 .. k - 1 : \A m \in j + 1 .. k - 1 : t[m] = new[m]
    BY <1>3
  <2>9. LoopAt(t, k)
    <3>1. t[k][1] \in {"tick", "ticked"} => k = Len(t)
      BY <1>1, <2>1, <2>2, <2>5 DEF LoopAt
    <3>2. t[k][1] = "splice" => k < Len(t) /\ t[k + 1][1] = "stopping" /\ t[k][2] = t[k + 1][2] + 1
      BY <1>1, <2>1, <2>2, <2>4 DEF LoopAt
    <3>3. t[k][1] = "stopping" => \A j \in 1 .. k - 1 : t[j][1] \in Brief \/ (t[j][1] = "splice" /\ j = k - 1)
      BY <2>1, <2>2, <2>3 DEF LoopAt
    <3>. QED
      BY <3>1, <3>2, <3>3, Zenon DEF LoopAt
  <2>10. StopAt(t, k, emptied)
    <3>1. t[k][1] = "stop" => k = 1 \/ (k = 2 /\ t[1] = <<"dequeue">> /\ emptied)
      BY <2>1, <2>2, <2>3, <2>7 DEF StopAt
    <3>2. t[k][1] = "stopping" =>
            /\ ~t[k][3] => \A j \in 1 .. k - 1 : t[j][1] \in {"uncount", "splice"}
            /\ t[k][4] => k = 1
            /\ t[k][5] => t[k][3]
      BY <2>1, <2>2, <2>3 DEF StopAt
    <3>. QED
      BY <3>1, <3>2, Zenon DEF StopAt
  <2>11. FinishAt(t, k)
    <3>1. t[k][1] = "start" /\ t[k][2] => k = 1 \/ \E m \in k + 1 .. Len(t) : t[m][1] = "finished"
      BY <1>1, <2>1, <2>2, <2>6 DEF FinishAt
    <3>2. t[k][1] = "finished" =>
             \A j \in 1 .. k - 1 :
               /\ t[j][1] \in Brief \cup {"splice", "stopping"}
               /\ t[j][1] = "stopping" => t[j][5]
               /\ CallsPage(t[j]) => \E m \in j + 1 .. k - 1 : t[m] = <<"dequeue">>
      <4>1. ASSUME t[k][1] = "finished", NEW j \in 1 .. k - 1, CallsPage(t[j])
            PROVE  \E m \in j + 1 .. k - 1 : t[m] = <<"dequeue">>
        <5>1. PICK m \in j + 1 .. k - 1 : new[m] = <<"dequeue">>
          BY <2>1, <2>2, <2>3, <4>1 DEF FinishAt
        <5>. QED
          BY <2>8, <5>1
      <4>. QED
        BY <2>1, <2>2, <2>3, <4>1 DEF FinishAt
    <3>. QED
      BY <3>1, <3>2, Zenon DEF FinishAt
  <2>. QED
    BY <2>9, <2>10, <2>11
<1>6. ASSUME NEW m \in c + 1 .. Len(s), NEW k, k = m + d PROVE LoopAt(t, k) /\ StopAt(t, k, emptied) /\ FinishAt(t, k)
  <2>0. m \in 1 .. Len(s) /\ k \in 1 .. Len(t) /\ t[k] = s[m]
    BY <1>3, <1>6
  <2>1. LoopAt(s, m) /\ StopAt(s, m, empty) /\ FinishAt(s, m)
    BY <2>0 DEF StackFits
  <2>2. ASSUME NEW j \in 1 .. k - 1
        PROVE  \/ j \in 1 .. n /\ t[j] = new[j]
               \/ \E i \in c + 1 .. m - 1 : i \in 1 .. m - 1 /\ j = i + d /\ t[j] = s[i]
    <3>1. j \in 1 .. Len(t)
      BY <1>3, <1>6
    <3>2. CASE j \in 1 .. n
      BY <1>3, <1>6, <3>2
    <3>3. ASSUME NEW i \in c + 1 .. Len(s), j = i + d, t[j] = s[i] PROVE i \in c + 1 .. m - 1 /\ i \in 1 .. m - 1
      BY <1>3, <1>6, <3>3
    <3>. QED
      BY <1>4, <3>1, <3>2, <3>3
  <2>3. t[k][1] \notin {"stop", "stopping", "splice"} /\ (t[k][1] \in {"tick", "ticked"} => k = Len(t))
    <3>1. m = Len(s) => k = Len(t)
      BY <1>3, <1>6
    <3>. QED
      BY <2>0, <2>1, <3>1 DEF LoopAt
  <2>4. t[k][1] = "start" /\ t[k][2] => \E i \in k + 1 .. Len(t) : t[i][1] = "finished"
    <3>1. SUFFICES ASSUME s[m][1] = "start", s[m][2] PROVE \E i \in k + 1 .. Len(t) : t[i][1] = "finished"
      BY <2>0
    <3>2. PICK i \in m + 1 .. Len(s) : s[i][1] = "finished"
      BY <2>1, <3>1 DEF FinishAt
    <3>3. i \in c + 1 .. Len(s) /\ i + d \in k + 1 .. Len(t)
      BY <1>3, <1>6
    <3>4. t[i + d] = s[i]
      BY <1>3, <3>3
    <3>. QED
      BY <3>2, <3>3, <3>4
  <2>5. ASSUME t[k][1] = "finished", NEW j \in 1 .. k - 1
        PROVE  /\ t[j][1] \in Brief \cup {"splice", "stopping"}
               /\ t[j][1] = "stopping" => t[j][5]
               /\ CallsPage(t[j]) => \E i \in j + 1 .. k - 1 : t[i] = <<"dequeue">>
    <3>0. s[m][1] = "finished"
      BY <2>0, <2>5
    <3>1. CASE j \in 1 .. n
      <4>1. /\ new[j][1] \in Brief \cup {"splice", "stopping"}
            /\ new[j][1] = "stopping" => new[j][5]
            /\ CallsPage(new[j]) => \E i \in j + 1 .. n : new[i] = <<"dequeue">>
        BY <1>1, <3>0, <3>1
      <4>2. \A i \in j + 1 .. n : i \in j + 1 .. k - 1 /\ t[i] = new[i]
        BY <1>3, <1>6, <3>1
      <4>3. t[j] = new[j]
        BY <1>3, <3>1
      <4>. QED
        BY <4>1, <4>2, <4>3
    <3>2. ASSUME NEW i \in c + 1 .. m - 1, i \in 1 .. m - 1, j = i + d, t[j] = s[i]
          PROVE  /\ t[j][1] \in Brief \cup {"splice", "stopping"}
                 /\ t[j][1] = "stopping" => t[j][5]
                 /\ CallsPage(t[j]) => \E l \in j + 1 .. k - 1 : t[l] = <<"dequeue">>
      <4>1. ASSUME CallsPage(t[j]) PROVE \E l \in j + 1 .. k - 1 : t[l] = <<"dequeue">>
        <5>1. PICK l \in i + 1 .. m - 1 : s[l] = <<"dequeue">>
          BY <2>1, <3>0, <3>2, <4>1 DEF FinishAt
        <5>2. l \in Int /\ i \in Int /\ m \in Int /\ i + 1 <= l /\ l <= m - 1 /\ c + 1 <= i
          BY <1>0, <1>6
        <5>3. l \in c + 1 .. Len(s) /\ l + d \in i + d + 1 .. k - 1
          BY <1>0, <1>6, <5>2
        <5>4. t[l + d] = s[l]
          BY <1>3, <5>3
        <5>. QED
          BY <3>2, <5>1, <5>3, <5>4
      <4>. QED
        BY <2>1, <3>0, <3>2, <4>1 DEF FinishAt
    <3>. QED
      BY <2>2, <3>1, <3>2
  <2>6. PICK step : step = t[k]
    OBVIOUS
  <2>7. LoopAt(t, k) /\ StopAt(t, k, emptied)
    <3>1. step[1] \notin {"stop", "stopping", "splice"} /\ (step[1] \in {"tick", "ticked"} => k = Len(t))
      BY <2>3, <2>6
    <3>2. step[1] # "stop" /\ step[1] # "stopping" /\ step[1] # "splice"
      BY <3>1
    <3>. QED
      BY <2>6, <3>1, <3>2, Zenon DEF LoopAt, StopAt
  <2>8. FinishAt(t, k)
    BY <2>4, <2>5, Zenon DEF FinishAt
  <2>. QED
    BY <2>7, <2>8
<1>. QED
  BY <1>3, <1>4, <1>5, <1>6 DEF StackFits

HasStep(s, op) == \E k \in 1 .. Len(s) : s[k][1] = op

LEMMA StepsOf ==
  ASSUME NEW t, NEW new, NEW s, NEW c, Restacked(t, new, s, c), NEW op,
         c = 1 => s[1][1] # op
  PROVE  HasStep(t, op) <=> HasStep(s, op) \/ \E j \in 1 .. Len(new) : new[j][1] = op
<1>1. ASSUME HasStep(t, op) PROVE HasStep(s, op) \/ \E j \in 1 .. Len(new) : new[j][1] = op
  <2>1. PICK k \in 1 .. Len(t) : t[k][1] = op
    BY <1>1 DEF HasStep
  <2>2. CASE k \in 1 .. Len(new) /\ t[k] = new[k]
    BY <2>1, <2>2
  <2>3. ASSUME NEW m \in c + 1 .. Len(s), t[k] = s[m] PROVE HasStep(s, op)
    <3>1. m \in 1 .. Len(s)
      BY PlacesOf DEF Restacked
    <3>. QED
      BY <2>1, <2>3, <3>1 DEF HasStep
  <2>. QED
    BY <2>2, <2>3, PlacesOf
<1>2. ASSUME HasStep(s, op) PROVE HasStep(t, op)
  <2>1. PICK m \in 1 .. Len(s) : s[m][1] = op
    BY <1>2 DEF HasStep
  <2>2. m \in c + 1 .. Len(s)
    <3>1. c \in {0, 1} /\ Len(s) \in Nat
      BY PlacesOf DEF Restacked
    <3>2. c = 1 => m # 1
      BY <2>1
    <3>. QED
      BY <3>1, <3>2
  <2>3. PICK k : k = m + (Len(new) - c)
    OBVIOUS
  <2>4. k \in 1 .. Len(t) /\ t[k] = s[m]
    BY <2>2, <2>3, PlacesOf DEF Restacked
  <2>. QED
    BY <2>1, <2>4 DEF HasStep
<1>3. ASSUME NEW j \in 1 .. Len(new), new[j][1] = op PROVE HasStep(t, op)
  BY <1>3, PlacesOf DEF HasStep, Restacked
<1>. QED
  BY <1>1, <1>2, <1>3

(***************************************************************************)
(* Timers and animations                                                   *)
(***************************************************************************)
Animated == [queued : BOOLEAN, state : {"running", "resolved", "rejected"}]

(* The timer that is going to be removed is one of an animation that is    *)
(* over.                                                                   *)
DataAt(s, k, ts, aa) ==
  /\ s[k][1] = "ticked" => s[k][3] \in 1 .. Len(aa) /\ aa[s[k][3]].state # "running"
  /\ s[k][1] = "stopping" /\ (k = 1 \/ s[k - 1][1] # "splice") => s[k][2] <= Len(ts)
  /\ s[k][1] = "splice" => s[k][2] <= Len(ts) /\ aa[ts[s[k][2]]].state # "running"
DataFits(s, ts, aa) == \A k \in 1 .. Len(s) : DataAt(s, k, ts, aa)

TimersFit(ts, aa) ==
  /\ aa \in Seq(Animated) /\ ts \in Seq(Nat) /\ \A i \in 1 .. Len(ts) : ts[i] \in 1 .. Len(aa)
  /\ \A a \in 1 .. Len(aa) : aa[a].state = "running" => \E i \in 1 .. Len(ts) : ts[i] = a

(* Timers are added, animations too, and none that is over runs again. *)
Grown(uu, ts) == Len(ts) <= Len(uu) /\ \A i \in 1 .. Len(ts) : uu[i] = ts[i]
Settled(bb, aa) ==
  Len(aa) <= Len(bb) /\ \A a \in 1 .. Len(aa) : aa[a].state # "running" => bb[a].state # "running"

LEMMA NewData ==
  ASSUME NEW t, NEW new, NEW s, NEW c, Restacked(t, new, s, c),
         NEW ts, NEW aa, NEW uu, NEW bb, TimersFit(ts, aa), TimersFit(uu, bb),
         DataFits(s, ts, aa), Grown(uu, ts), Settled(bb, aa),
         DataFits(new, uu, bb),
         c = 1 => s[1][1] # "splice"
  PROVE  DataFits(t, uu, bb)
<1>1. PICK n : n = Len(new)
  OBVIOUS
<1>2. PICK d : d = n - c
  OBVIOUS
<1>3. /\ n \in Nat /\ Len(s) \in Nat /\ Len(t) \in Nat /\ c \in {0, 1} /\ d \in Int /\ d = n - c
      /\ \A j \in 1 .. n : t[j] = new[j]
      /\ \A m \in c + 1 .. Len(s) : t[m + d] = s[m]
  BY <1>1, <1>2, PlacesOf DEF Restacked
<1>4. ASSUME NEW k \in 1 .. Len(t)
      PROVE  k \in 1 .. n \/ \E m \in c + 1 .. Len(s) : k = m + d /\ t[k] = s[m]
  BY <1>1, <1>2, PlacesOf
<1>5. Len(ts) \in Nat /\ Len(uu) \in Nat /\ Len(aa) \in Nat /\ Len(bb) \in Nat
  BY LenProperties DEF TimersFit
<1>8. /\ \A i \in 1 .. Len(ts) : ts[i] \in 1 .. Len(aa)
      /\ Len(ts) <= Len(uu) /\ \A i \in 1 .. Len(ts) : uu[i] = ts[i]
      /\ Len(aa) <= Len(bb) /\ \A a \in 1 .. Len(aa) : aa[a].state # "running" => bb[a].state # "running"
  BY DEF TimersFit, Grown, Settled
<1>6. ASSUME NEW k \in 1 .. n PROVE DataAt(t, k, uu, bb)
  <2>1. DataAt(new, k, uu, bb)
    BY <1>1 DEF DataFits
  <2>2. t[k] = new[k]
    BY <1>3
  <2>3. k # 1 => t[k - 1] = new[k - 1]
    <3>1. k # 1 => k - 1 \in 1 .. n
      BY <1>3
    <3>. QED
      BY <1>3, <3>1
  <2>. QED
    BY <2>1, <2>2, <2>3, Zenon DEF DataAt
<1>7. ASSUME NEW m \in c + 1 .. Len(s), NEW k, k = m + d, t[k] = s[m], k \in 1 .. Len(t) PROVE DataAt(t, k, uu, bb)
  <2>1. m \in 1 .. Len(s)
    BY <1>3
  <2>2. DataAt(s, m, ts, aa) /\ s[m] \in Steps
    <3>1. s \in Seq(Steps)
      BY DEF Restacked
    <3>. QED
      BY <2>1, <3>1, ElementOfSeq DEF DataFits
  <2>3. k # 1 /\ t[k - 1][1] # "splice" => m = 1 \/ s[m - 1][1] # "splice"
    <3>1. CASE m = c + 1
      <4>1. m = 1 \/ (c = 1 /\ m - 1 = 1)
        BY <1>3, <3>1
      <4>. QED
        BY <4>1
    <3>2. CASE m # c + 1
      <4>1. m - 1 \in c + 1 .. Len(s) /\ m - 1 + d = k - 1
        BY <1>3, <1>7, <3>2
      <4>. QED
        BY <1>3, <4>1
    <3>. QED
      BY <3>1, <3>2
  <2>4. k = 1 => m = 1 \/ s[m - 1][1] # "splice"
    <3>1. CASE m = c + 1
      <4>1. m = 1 \/ (c = 1 /\ m - 1 = 1)
        BY <1>3, <3>1
      <4>. QED
        BY <4>1
    <3>2. CASE m # c + 1
      BY <1>3, <1>7, <3>2
    <3>. QED
      BY <3>1, <3>2
  <2>5. s[m][1] = "stopping" /\ (k = 1 \/ t[k - 1][1] # "splice") => s[m][2] <= Len(uu)
    <3>1. s[m][1] = "stopping" => s[m][2] \in Nat
      BY <2>2, Parts
    <3>2. s[m][1] = "stopping" /\ (m = 1 \/ s[m - 1][1] # "splice") => s[m][2] <= Len(ts)
      BY <2>2 DEF DataAt
    <3>. QED
      BY <1>5, <2>3, <2>4, <3>1, <3>2 DEF Grown
  <2>6. ASSUME s[m][1] = "ticked" PROVE s[m][3] \in 1 .. Len(bb) /\ bb[s[m][3]].state # "running"
    <3>1. PICK a : a = s[m][3]
      OBVIOUS
    <3>2. a \in 1 .. Len(aa) /\ aa[a].state # "running"
      BY <2>2, <2>6, <3>1 DEF DataAt
    <3>3. bb[a].state # "running"
      BY <1>8, <3>2, Zenon
    <3>4. a \in 1 .. Len(bb)
      <4>1. Len(aa) <= Len(bb)
        BY <1>8
      <4>2. a \in 1 .. Len(aa)
        BY <3>2
      <4>. QED
        BY <1>3, <1>5, <4>1, <4>2
    <3>. QED
      BY <3>1, <3>3, <3>4
  <2>7. ASSUME s[m][1] = "splice" PROVE s[m][2] <= Len(uu) /\ bb[uu[s[m][2]]].state # "running"
    <3>1. PICK i : i = s[m][2]
      OBVIOUS
    <3>0. i \in Nat \ {0}
      BY <2>2, <2>7, <3>1, Parts
    <3>4. i <= Len(ts) /\ aa[ts[i]].state # "running"
      BY <2>2, <2>7, <3>1 DEF DataAt
    <3>2. i \in 1 .. Len(ts)
      BY <1>5, <3>0, <3>4
    <3>5. PICK a : a = ts[i]
      OBVIOUS
    <3>3. uu[i] = a /\ a \in 1 .. Len(aa)
      BY <1>8, <3>2, <3>5, Zenon
    <3>6. bb[a].state # "running"
      BY <1>8, <3>3, <3>4, <3>5, Zenon
    <3>7. i <= Len(uu)
      BY <1>5, <1>8, <3>2
    <3>. QED
      BY <3>1, <3>3, <3>6, <3>7
  <2>. QED
    BY <1>7, <2>5, <2>6, <2>7 DEF DataAt
<1>. QED
  BY <1>4, <1>6, <1>7 DEF DataFits

(***************************************************************************)
(* What each action does to the stack and to the timers                    *)
(***************************************************************************)
Items == [kind : {"animation", "delay", "inprogress"}, id : Nat, instant : BOOLEAN]

EffectTypes ==
  /\ queue \in Seq(Items) /\ hooks \in [there : BOOLEAN, stop : Nat, unqueued : Int]
  /\ promise \in {"none", "pending", "resolved"} /\ delays \subseteq Nat /\ effects \in Nat
  /\ ticking \in BOOLEAN /\ finishing \in BOOLEAN /\ nested \in BOOLEAN /\ disturbed \in BOOLEAN

DrivenInv ==
  /\ steps \in Seq(Steps) /\ TimersFit(timers, animations)
  /\ StackFits(steps, queue = <<>>) /\ DataFits(steps, timers, animations)
  /\ timers # <<>> => ticking
  /\ disturbed \/ (finishing <=> HasStep(steps, "finished"))

LEMMA TopOf ==
  ASSUME steps \in Seq(Steps), NEW op, Does(op)
  PROVE  /\ steps # <<>> /\ Head(steps) = steps[1] /\ steps[1][1] = op /\ steps[1] \in Steps
         /\ Len(steps) \in Nat /\ Len(steps) >= 1
<1>1. steps # <<>> /\ Head(steps)[1] = op
  BY DEF Does
<1>2. Len(steps) \in Nat \ {0} /\ Head(steps) = steps[1]
  BY <1>1, EmptySeq, HeadTailProperties
<1>3. 1 \in 1 .. Len(steps)
  BY <1>2
<1>. QED
  BY <1>1, <1>2, <1>3, ElementOfSeq

LEMMA OneStep ==
  ASSUME NEW x \in Steps
  PROVE  <<x>> \in Seq(Steps) /\ Len(<<x>>) = 1 /\ <<x>>[1] = x
OBVIOUS

LEMMA TwoSteps ==
  ASSUME NEW x \in Steps, NEW y \in Steps
  PROVE  <<x, y>> \in Seq(Steps) /\ Len(<<x, y>>) = 2 /\ <<x, y>>[1] = x /\ <<x, y>>[2] = y
OBVIOUS

LEMMA NoStep == <<>> \in Seq(Steps) /\ Len(<<>>) = 0
OBVIOUS

(* Short steps while timers and animations stay. *)
LEMMA BriefDriven ==
  ASSUME DrivenInv, NEW new, NEW c, BriefChange(steps', new, steps, c), c = 1 => steps[1][1] \notin {"splice", "finished"},
         UNCHANGED <<timers, animations, ticking, finishing>>, disturbed => disturbed'
  PROVE  DrivenInv'
<1>. PICK s, t, q, u : s = steps /\ t = steps' /\ q = (queue = <<>>) /\ u = (queue' = <<>>)
  OBVIOUS
<1>0. BriefChange(t, new, s, c) /\ (c = 1 => s[1][1] \notin {"splice", "finished"})
  OBVIOUS
<1>1. Restacked(t, new, s, c) /\ (\A j \in 1 .. Len(new) : new[j][1] \in Brief) /\ StackFits(s, q)
  BY <1>0 DEF DrivenInv, BriefChange
<1>2. StackFits(t, u)
  BY <1>0, <1>1, BriefSteps
<1>3. PICK ts, aa : ts = timers /\ aa = animations
  OBVIOUS
<1>4. TimersFit(ts, aa) /\ DataFits(s, ts, aa)
  BY <1>3 DEF DrivenInv
<1>5. Grown(ts, ts) /\ Settled(aa, aa)
  <2>1. Len(ts) \in Nat /\ Len(aa) \in Nat
    BY <1>4, LenProperties DEF TimersFit
  <2>. QED
    BY <2>1 DEF Grown, Settled
<1>6. DataFits(new, ts, aa)
  BY <1>1, Zenon DEF DataFits, DataAt, Brief
<1>7. DataFits(t, ts, aa)
  BY <1>0, <1>1, <1>4, <1>5, <1>6, NewData
<1>8. HasStep(t, "finished") <=> HasStep(s, "finished")
  <2>1. \A j \in 1 .. Len(new) : new[j][1] # "finished"
    BY <1>1 DEF Brief
  <2>2. c = 1 => s[1][1] # "finished"
    BY <1>0
  <2>. QED
    BY <1>1, <2>1, <2>2, StepsOf
<1>9. t \in Seq(Steps)
  BY <1>1 DEF Restacked
<1>. QED
  BY <1>2, <1>3, <1>4, <1>7, <1>8, <1>9 DEF DrivenInv

LEMMA BriefMembers == "callback" \in Brief /\ "dequeue" \in Brief /\ "uncount" \in Brief /\ "start" \in Brief
BY DEF Brief

LEMMA CallbackOnTop ==
  ASSUME DrivenInv, PageMay
  PROVE  /\ steps \in Seq(Steps) /\ Len(steps) \in Nat
         /\ steps = <<>> \/ (steps # <<>> /\ steps[1] = <<"callback">>)
         /\ \A m \in 1 .. Len(steps) : ~TakesOver(steps[m])
         /\ \A m \in 1 .. Len(steps) : steps[m][1] = "start" /\ steps[m][2] => m # 1
         /\ \A m \in 1 .. Len(steps) : steps[m][1] = "finished" => \E i \in 1 .. m - 1 : steps[i] = <<"dequeue">>
<1>1. steps \in Seq(Steps) /\ Len(steps) \in Nat /\ StackFits(steps, queue = <<>>)
  BY LenProperties DEF DrivenInv
<1>2. CASE steps = <<>>
  BY <1>1, <1>2
<1>3. CASE Does("callback")
  <2>1. steps # <<>> /\ steps[1][1] = "callback" /\ steps[1] \in Steps
    BY <1>1, <1>3, TopOf
  <2>2. steps[1] = <<"callback">>
    BY <2>1, Parts
  <2>3. \A m \in 2 .. Len(steps) : ~TakesOver(steps[m])
    BY <1>1, <2>1, NoneTakesOver
  <2>4. ~TakesOver(steps[1]) /\ CallsPage(steps[1])
    BY <2>1 DEF TakesOver, CallsPage
  <2>5. \A m \in 1 .. Len(steps) : m = 1 \/ m \in 2 .. Len(steps)
    BY <1>1
  <2>6. ASSUME NEW m \in 1 .. Len(steps), steps[m][1] = "finished"
        PROVE  \E i \in 1 .. m - 1 : steps[i] = <<"dequeue">>
    <3>1. FinishAt(steps, m)
      BY <1>1 DEF StackFits
    <3>2. m # 1 /\ 1 \in 1 .. m - 1
      BY <1>1, <2>1, <2>6
    <3>3. PICK i \in 1 + 1 .. m - 1 : steps[i] = <<"dequeue">>
      BY <2>4, <2>6, <3>1, <3>2 DEF FinishAt
    <3>. QED
      BY <1>1, <3>3
  <2>. QED
    BY <1>1, <2>1, <2>2, <2>3, <2>4, <2>5, <2>6
<1>. QED
  BY <1>2, <1>3 DEF PageMay

LEMMA DequeueDriven ==
  ASSUME DrivenInv, EffectTypes, Dequeue
  PROVE  DrivenInv' /\ \E new : /\ Restacked(steps', new, steps, 1)
                                /\ new = <<>> \/ \E instant \in BOOLEAN : new = <<<<"start", TRUE, instant>>>>
<1>1. /\ steps \in Seq(Steps) /\ StackFits(steps, queue = <<>>) /\ steps # <<>> /\ steps[1][1] = "dequeue" /\ Later = Tail(steps)
      /\ Len(steps) \in Nat
  BY TopOf DEF DrivenInv, Dequeue, Later
<1>2. \E new : /\ steps' = new \o Tail(steps) /\ (queue = <<>> => new = <<>>)
               /\ new = <<>> \/ \E instant \in BOOLEAN : new = <<<<"start", TRUE, instant>>>>
  <2>1. PICK rest : rest = IF queue # <<>> /\ Head(queue) = Sentinel THEN Tail(queue) ELSE queue
    OBVIOUS
  <2>2. rest \in Seq(Items) /\ (queue = <<>> => rest = <<>>)
    BY <2>1, HeadTailProperties DEF EffectTypes
  <2>3. rest # <<>> => Head(rest).instant \in BOOLEAN
    <3>1. rest # <<>> => Head(rest) \in Items
      BY <2>2, HeadTailProperties
    <3>. QED
      BY <3>1 DEF Items
  <2>4. steps' = Later \/ (rest # <<>> /\ steps' = <<<<"start", TRUE, Head(rest).instant>>>> \o Later)
    BY <2>1 DEF Dequeue
  <2>5. <<>> \o Tail(steps) = Tail(steps)
    BY <1>1, HeadTailProperties, ConcatEmptySeq
  <2>6. CASE steps' = Later
    BY <1>1, <2>5, <2>6
  <2>7. CASE rest # <<>> /\ steps' = <<<<"start", TRUE, Head(rest).instant>>>> \o Later
    <3>1. PICK instant : instant = Head(rest).instant
      OBVIOUS
    <3>. QED
      BY <1>1, <2>2, <2>3, <2>7, <3>1
  <2>. QED
    BY <2>4, <2>6, <2>7
<1>3. PICK new : /\ steps' = new \o Tail(steps) /\ (queue = <<>> => new = <<>>)
                 /\ new = <<>> \/ \E instant \in BOOLEAN : new = <<<<"start", TRUE, instant>>>>
  BY <1>2
<1>4. new = <<>> \/ (Len(new) = 1 /\ new[1][1] = "start" /\ new[1][2])
  <2>1. ASSUME NEW instant \in BOOLEAN, new = <<<<"start", TRUE, instant>>>>
        PROVE  Len(new) = 1 /\ new[1][1] = "start" /\ new[1][2]
    <3>1. PICK x : x = <<"start", TRUE, instant>>
      OBVIOUS
    <3>2. x[1] = "start" /\ x[2]
      BY <3>1
    <3>3. new = <<x>>
      BY <2>1, <3>1
    <3>. QED
      BY <3>2, <3>3
  <2>. QED
    BY <1>3, <2>1
<1>5. new \in Seq(Steps)
  BY <1>3, Shapes, OneStep, NoStep
<1>6. Restacked(steps', new, steps, 1)
  BY <1>1, <1>3, <1>5, Replaced
<1>7. \A j \in 1 .. Len(new) : j = 1 /\ new[j][1] = "start" /\ new[j][2]
  <2>1. new = <<>> => 1 .. Len(new) = {}
    BY NoStep
  <2>2. Len(new) = 1 => \A j \in 1 .. Len(new) : j = 1
    OBVIOUS
  <2>. QED
    BY <1>4, <2>1, <2>2
<1>8. new = <<>> \/ \A m \in 2 .. Len(steps) : ~TakesOver(steps[m])
  BY <1>1, <1>3, NoneTakesOver
<1>9. BriefChange(steps', new, steps, 1)
  <2>1. \A j \in 1 .. Len(new) : ~CallsPage(new[j])
    BY <1>7 DEF CallsPage, IsUnqueuedStart
  <2>. QED
    BY <1>6, <1>7, <1>8, <2>1, BriefMembers DEF BriefChange
<1>10. DrivenInv'
  BY <1>1, <1>9, BriefDriven DEF Dequeue
<1>. QED
  BY <1>3, <1>6, <1>10

LEMMA UncountDriven ==
  ASSUME DrivenInv, Uncount \/ CallbackDone
  PROVE  DrivenInv' /\ Restacked(steps', <<>>, steps, 1)
<1>1. PICK op \in {"uncount", "callback"} : Does(op) /\ steps' = Later /\ UNCHANGED <<timers, animations, ticking, finishing, disturbed>>
  BY DEF Uncount, CallbackDone
<1>2. steps \in Seq(Steps) /\ steps # <<>> /\ steps[1][1] \in {"uncount", "callback"}
  BY <1>1, TopOf DEF DrivenInv
<1>3. PICK new : new = <<>>
  OBVIOUS
<1>4. new \in Seq(Steps) /\ steps' = new \o Tail(steps)
  BY <1>1, <1>2, <1>3, HeadTailProperties, ConcatEmptySeq, NoStep DEF Later
<1>5. Restacked(steps', new, steps, 1)
  BY <1>2, <1>4, Replaced
<1>6. BriefChange(steps', new, steps, 1)
  BY <1>3, <1>5, NoStep DEF BriefChange
<1>. QED
  BY <1>1, <1>2, <1>3, <1>5, <1>6, BriefDriven

(* A page that queues, clears the queue, starts an animation outside it or  *)
(* asks for a promise; and the timeout of a delay.                         *)
LEMMA PageSteps ==
  ASSUME DrivenInv, PageMay \/ steps = <<>>, NEW new,
         \/ new = <<>>
         \/ new = <<<<"dequeue">>>>
         \/ \E instant \in BOOLEAN : new = <<<<"start", FALSE, instant>>>>,
         steps' = new \o steps, UNCHANGED <<timers, animations, ticking, finishing>>, disturbed => disturbed'
  PROVE  DrivenInv' /\ Restacked(steps', new, steps, 0)
<1>1. /\ steps \in Seq(Steps) /\ Len(steps) \in Nat
      /\ steps = <<>> \/ (steps # <<>> /\ steps[1] = <<"callback">>)
      /\ \A m \in 1 .. Len(steps) : ~TakesOver(steps[m])
      /\ \A m \in 1 .. Len(steps) : steps[m][1] = "finished" => \E i \in 1 .. m - 1 : steps[i] = <<"dequeue">>
  <2>1. CASE steps = <<>>
    BY <2>1, NoStep
  <2>. QED
    BY <2>1, CallbackOnTop
<1>2. /\ new \in Seq(Steps)
      /\ \A j \in 1 .. Len(new) : new[j][1] \in Brief /\ ~(new[j][1] = "start" /\ new[j][2])
  <2>1. CASE new = <<>>
    BY <2>1, NoStep
  <2>2. CASE new = <<<<"dequeue">>>>
    <3>1. PICK x : x = <<"dequeue">>
      OBVIOUS
    <3>2. x \in Steps /\ x[1] = "dequeue"
      BY <3>1, Shapes
    <3>3. new = <<x>>
      BY <2>2, <3>1
    <3>. QED
      BY <3>2, <3>3, BriefMembers
  <2>3. ASSUME NEW instant \in BOOLEAN, new = <<<<"start", FALSE, instant>>>>
        PROVE  /\ new \in Seq(Steps)
               /\ \A j \in 1 .. Len(new) : new[j][1] \in Brief /\ ~(new[j][1] = "start" /\ new[j][2])
    <3>1. PICK x : x = <<"start", FALSE, instant>>
      OBVIOUS
    <3>2. x \in Steps
      BY <3>1, Shapes
    <3>3. x[1] = "start" /\ ~x[2]
      BY <3>1
    <3>4. new = <<x>>
      BY <2>3, <3>1
    <3>. QED
      BY <3>2, <3>3, <3>4, BriefMembers
  <2>. QED
    BY <2>1, <2>2, <2>3
<1>3. Restacked(steps', new, steps, 0)
  BY <1>1, <1>2, Pushed
<1>4. 0 + 1 = 1
  OBVIOUS
<1>5. /\ \A m \in 0 + 1 .. Len(steps) : ~TakesOver(steps[m])
      /\ \A m \in 0 + 1 .. Len(steps) : steps[m][1] = "finished" => \E i \in 0 + 1 .. m - 1 : steps[i] = <<"dequeue">>
  BY <1>1, <1>4
<1>6. BriefChange(steps', new, steps, 0)
  BY <1>1, <1>2, <1>3, <1>5, Zenon DEF BriefChange
<1>. QED
  BY <1>3, <1>6, BriefDriven

LEMMA EnqueueDriven ==
  ASSUME DrivenInv, NEW item, Enqueue(item)
  PROVE  /\ DrivenInv'
         /\ \E new : /\ Restacked(steps', new, steps, 0) /\ steps' = new \o steps
                     /\ new = IF queue = <<>> \/ Head(queue) # Sentinel THEN <<<<"dequeue">>>> ELSE <<>>
<1>1. PICK new : new = IF queue = <<>> \/ Head(queue) # Sentinel THEN <<<<"dequeue">>>> ELSE <<>>
  OBVIOUS
<1>2. steps' = new \o steps /\ PageMay /\ UNCHANGED <<timers, animations, ticking, finishing>> /\ (disturbed => disturbed')
  BY <1>1 DEF Enqueue, Called
<1>3. new = <<>> \/ new = <<<<"dequeue">>>>
  BY <1>1
<1>4. DrivenInv' /\ Restacked(steps', new, steps, 0)
  BY <1>2, <1>3, PageSteps
<1>. QED
  BY <1>1, <1>2, <1>4

LEMMA PromiseDriven ==
  ASSUME DrivenInv, GetPromise
  PROVE  DrivenInv' /\ steps' = steps
<1>1. PICK new : new = <<>>
  OBVIOUS
<1>2. PageMay /\ steps' = new \o steps /\ UNCHANGED <<timers, animations, ticking, finishing>> /\ (disturbed => disturbed')
  BY <1>1 DEF GetPromise, Called
<1>3. steps' = steps
  BY <1>1, <1>2, ConcatEmptySeq DEF DrivenInv
<1>. QED
  BY <1>1, <1>2, <1>3, PageSteps

LEMMA DequeuesDriven ==
  ASSUME DrivenInv, ClearQueue \/ TimeoutElapses
  PROVE  DrivenInv' /\ \E new : Restacked(steps', new, steps, 0) /\ new = <<<<"dequeue">>>>
<1>1. PICK new : new = <<<<"dequeue">>>>
  OBVIOUS
<1>2. /\ PageMay \/ steps = <<>>
      /\ steps' = new \o steps /\ UNCHANGED <<timers, animations, ticking, finishing>> /\ (disturbed => disturbed')
  <2>1. CASE ClearQueue
    BY <1>1, <2>1 DEF ClearQueue, Called
  <2>2. CASE TimeoutElapses
    <3>1. new \in Seq(Steps)
      BY <1>1, Shapes, OneStep
    <3>. QED
      BY <1>1, <2>2, <3>1, ConcatEmptySeq DEF TimeoutElapses
  <2>. QED
    BY <2>1, <2>2
<1>. QED
  BY <1>1, <1>2, PageSteps

LEMMA UnqueuedDriven ==
  ASSUME DrivenInv, AnimateUnqueued
  PROVE  DrivenInv' /\ \E new : /\ Restacked(steps', new, steps, 0)
                                /\ \E instant \in BOOLEAN : new = <<<<"start", FALSE, instant>>>>
<1>1. PICK instant \in BOOLEAN : Called(<<<<"start", FALSE, instant>>>>, FALSE)
  BY DEF AnimateUnqueued
<1>2. PICK new : new = <<<<"start", FALSE, instant>>>>
  OBVIOUS
<1>. QED
  BY <1>1, <1>2, PageSteps DEF AnimateUnqueued, Called

(* An animation is started. *)
LEMMA CompletedSteps ==
  ASSUME NEW queued
  PROVE  /\ Completed(queued) \in Seq(Steps) /\ Len(Completed(queued)) = 2
         /\ Completed(queued)[1] = <<"callback">>
         /\ Completed(queued)[2] = IF queued THEN <<"dequeue">> ELSE <<"uncount">>
<1>1. PICK y : y = IF queued THEN <<"dequeue">> ELSE <<"uncount">>
  OBVIOUS
<1>2. PICK x : x = <<"callback">>
  OBVIOUS
<1>3. x \in Steps /\ y \in Steps
  BY <1>1, <1>2, Shapes
<1>4. Completed(queued) = <<x>> \o <<y>>
  BY <1>1, <1>2 DEF Completed
<1>5. <<x>> \in Seq(Steps) /\ Len(<<x>>) = 1 /\ <<x>>[1] = x /\ <<y>> \in Seq(Steps) /\ Len(<<y>>) = 1 /\ <<y>>[1] = y
  BY <1>3, OneStep
<1>6. /\ <<x>> \o <<y>> \in Seq(Steps) /\ Len(<<x>> \o <<y>>) = 1 + 1
      /\ \A i \in 1 .. 1 + 1 : (<<x>> \o <<y>>)[i] = IF i <= 1 THEN <<x>>[i] ELSE <<y>>[i - 1]
  BY <1>5, ConcatProperties
<1>7. (<<x>> \o <<y>>)[1] = x /\ (<<x>> \o <<y>>)[2] = y
  BY <1>5, <1>6
<1>. QED
  BY <1>1, <1>2, <1>4, <1>6, <1>7

LEMMA OverAtOnceSteps ==
  ASSUME NEW queued
  PROVE  /\ OverAtOnce(queued) \in Seq(Steps) /\ Len(OverAtOnce(queued)) = 2
         /\ OverAtOnce(queued)[1] = IF queued THEN <<"callback">> ELSE <<"uncount">>
         /\ OverAtOnce(queued)[2] = IF queued THEN <<"dequeue">> ELSE <<"callback">>
<1>1. CASE queued
  BY <1>1, CompletedSteps DEF OverAtOnce
<1>2. CASE ~queued
  <2>1. PICK x, y : x = <<"uncount">> /\ y = <<"callback">>
    OBVIOUS
  <2>2. x \in Steps /\ y \in Steps
    BY <2>1, Shapes
  <2>3. OverAtOnce(queued) = <<x, y>>
    BY <1>2, <2>1 DEF OverAtOnce
  <2>. QED
    BY <1>2, <2>1, <2>2, <2>3, TwoSteps
<1>. QED
  BY <1>1, <1>2

(* What is done for an animation that is over when it starts: the callback  *)
(* and the count, in either order.                                         *)
Outcome(new, queued, over) ==
  IF over THEN /\ Len(new) = 2
               /\ \/ /\ new[1] = <<"callback">>
                     /\ new[2] = IF queued THEN <<"dequeue">> ELSE <<"uncount">>
                  \/ ~queued /\ new[1] = <<"uncount">> /\ new[2] = <<"callback">>
  ELSE new = <<>>

LEMMA Outcomes ==
  ASSUME NEW queued \in BOOLEAN, NEW instant \in BOOLEAN, NEW over \in BOOLEAN, instant => over, NEW new,
         new = IF instant THEN OverAtOnce(queued) ELSE IF over THEN Completed(queued) ELSE <<>>
  PROVE  new \in Seq(Steps) /\ Outcome(new, queued, over)
BY CompletedSteps, OverAtOnceSteps, NoStep DEF Outcome

Started(uu, bb, ts, aa, queued, instant, over) ==
  /\ queued \in BOOLEAN /\ instant \in BOOLEAN /\ over \in BOOLEAN /\ (instant => over)
  /\ bb = Append(aa, [queued |-> queued, state |-> IF over THEN "resolved" ELSE "running"])
  /\ uu = IF instant THEN ts ELSE Append(ts, Len(aa) + 1)

LEMMA TimersAfterStart ==
  ASSUME NEW ts, NEW aa, TimersFit(ts, aa), NEW queued, NEW instant, NEW over, NEW uu, NEW bb,
         Started(uu, bb, ts, aa, queued, instant, over)
  PROVE  TimersFit(uu, bb) /\ Grown(uu, ts) /\ Settled(bb, aa)
<1>h. /\ queued \in BOOLEAN /\ instant \in BOOLEAN /\ over \in BOOLEAN /\ (instant => over)
      /\ bb = Append(aa, [queued |-> queued, state |-> IF over THEN "resolved" ELSE "running"])
      /\ uu = IF instant THEN ts ELSE Append(ts, Len(aa) + 1)
  BY DEF Started
<1>. USE <1>h
<1>1. PICK x : x = [queued |-> queued, state |-> IF over THEN "resolved" ELSE "running"]
  OBVIOUS
<1>2. x \in Animated /\ (x.state = "running" <=> ~over)
  BY <1>1 DEF Animated
<1>3. /\ aa \in Seq(Animated) /\ ts \in Seq(Nat) /\ \A i \in 1 .. Len(ts) : ts[i] \in 1 .. Len(aa)
      /\ \A a \in 1 .. Len(aa) : aa[a].state = "running" => \E i \in 1 .. Len(ts) : ts[i] = a
  BY DEF TimersFit
<1>4. PICK p, n : p = Len(aa) /\ n = Len(ts)
  OBVIOUS
<1>5. p \in Nat /\ n \in Nat
  BY <1>3, <1>4, LenProperties
<1>6. /\ bb \in Seq(Animated) /\ Len(bb) = p + 1 /\ bb[p + 1] = x
      /\ \A a \in 1 .. p : bb[a] = aa[a]
  BY <1>1, <1>2, <1>3, <1>4, AppendProperties
<1>7. p + 1 \in Nat /\ \A a \in 1 .. p + 1 : a \in 1 .. p \/ a = p + 1
  BY <1>5
<1>8. CASE instant
  <2>1. uu = ts
    BY <1>8
  <2>2. \A i \in 1 .. n : uu[i] \in 1 .. p + 1
    BY <1>3, <1>4, <1>5, <2>1
  <2>3. \A a \in 1 .. p + 1 : bb[a].state = "running" => a \in 1 .. p /\ aa[a].state = "running"
    BY <1>2, <1>6, <1>7, <1>8
  <2>4. \A a \in 1 .. p + 1 : bb[a].state = "running" => \E i \in 1 .. Len(uu) : uu[i] = a
    BY <1>3, <1>4, <2>1, <2>3
  <2>5. TimersFit(uu, bb)
    BY <1>3, <1>4, <1>6, <2>1, <2>2, <2>4 DEF TimersFit
  <2>. QED
    BY <1>4, <1>5, <1>6, <2>1, <2>5 DEF Grown, Settled
<1>9. CASE ~instant
  <2>1. /\ uu \in Seq(Nat) /\ Len(uu) = n + 1 /\ uu[n + 1] = p + 1
        /\ \A i \in 1 .. n : uu[i] = ts[i]
    BY <1>3, <1>4, <1>5, <1>7, <1>9, AppendProperties
  <2>2. \A i \in 1 .. n + 1 : i \in 1 .. n \/ i = n + 1
    BY <1>5
  <2>3. \A i \in 1 .. n : i \in 1 .. n + 1
    BY <1>5
  <2>4. \A i \in 1 .. n + 1 : uu[i] \in 1 .. p + 1
    BY <1>3, <1>4, <1>5, <2>1, <2>2
  <2>5. ASSUME NEW a \in 1 .. p + 1, bb[a].state = "running" PROVE \E i \in 1 .. n + 1 : uu[i] = a
    <3>1. CASE a = p + 1
      BY <1>5, <2>1, <3>1
    <3>2. CASE a \in 1 .. p
      <4>1. PICK i \in 1 .. n : ts[i] = a
        BY <1>3, <1>4, <1>6, <2>5, <3>2
      <4>. QED
        BY <2>1, <2>3, <4>1
    <3>. QED
      BY <1>7, <3>1, <3>2
  <2>6. TimersFit(uu, bb)
    BY <1>6, <2>1, <2>4, <2>5 DEF TimersFit
  <2>7. Grown(uu, ts)
    BY <1>4, <1>5, <2>1 DEF Grown
  <2>. QED
    BY <1>4, <1>5, <1>6, <2>6, <2>7 DEF Settled
<1>. QED
  BY <1>8, <1>9

LEMMA StartDriven ==
  ASSUME DrivenInv, EffectTypes, StartAnimation
  PROVE  /\ DrivenInv' /\ steps[1][1] = "start" /\ steps[1][2] \in BOOLEAN /\ steps[1][3] \in BOOLEAN
         /\ \E new : Restacked(steps', new, steps, 1) /\ Outcome(new, steps[1][2], steps[1][3] \/ finishing)
<1>1. /\ steps \in Seq(Steps) /\ StackFits(steps, queue = <<>>) /\ steps # <<>> /\ steps[1][1] = "start" /\ Head(steps) = steps[1]
      /\ Len(steps) \in Nat /\ steps[1] \in Steps
  BY TopOf DEF DrivenInv, StartAnimation
<1>2. PICK queued, instant, over : queued = steps[1][2] /\ instant = steps[1][3] /\ over = (instant \/ finishing)
  OBVIOUS
<1>3. queued \in BOOLEAN /\ instant \in BOOLEAN /\ over \in BOOLEAN /\ (instant => over)
  BY <1>1, <1>2, Parts
<1>4. PICK s, ts, aa, uu, bb : s = steps /\ ts = timers /\ aa = animations /\ uu = timers' /\ bb = animations'
  OBVIOUS
<1>5. /\ bb = Append(aa, [queued |-> queued, state |-> IF over THEN "resolved" ELSE "running"])
      /\ uu = IF instant THEN ts ELSE Append(ts, Len(aa) + 1)
      /\ ticking' = (ticking \/ ~instant)
      /\ steps' = (IF instant THEN OverAtOnce(queued) ELSE IF over THEN Completed(queued) ELSE <<>>) \o Later
      /\ UNCHANGED <<finishing, disturbed>>
  BY <1>1, <1>2, <1>4 DEF StartAnimation
<1>6. PICK new : new = IF instant THEN OverAtOnce(queued) ELSE IF over THEN Completed(queued) ELSE <<>>
  OBVIOUS
<1>7. new \in Seq(Steps) /\ Outcome(new, queued, over)
  BY <1>3, <1>6, Outcomes
<1>8. PICK t : t = steps'
  OBVIOUS
<1>9. Restacked(t, new, s, 1)
  BY <1>1, <1>4, <1>5, <1>6, <1>7, <1>8, Replaced DEF Later
<1>10. \/ Len(new) = 2 /\ new[1] = <<"callback">> /\ new[2] = (IF queued THEN <<"dequeue">> ELSE <<"uncount">>)
       \/ Len(new) = 2 /\ ~queued /\ new[1] = <<"uncount">> /\ new[2] = <<"callback">>
       \/ new = <<>> /\ Len(new) = 0
  BY <1>7, NoStep DEF Outcome
<1>11. \A j \in 1 .. Len(new) :
         \/ j = 1 /\ new[j] = <<"callback">>
         \/ j = 2 /\ new[j] = IF queued THEN <<"dequeue">> ELSE <<"uncount">>
         \/ ~queued /\ new[j] \in {<<"uncount">>, <<"callback">>}
  <2>1. Len(new) = 2 => \A j \in 1 .. Len(new) : j = 1 \/ j = 2
    OBVIOUS
  <2>2. Len(new) = 0 => 1 .. Len(new) = {}
    OBVIOUS
  <2>. QED
    BY <1>10, <2>1, <2>2
<1>12. \A j \in 1 .. Len(new) : new[j][1] \in Brief /\ new[j][1] \notin {"start", "finished"}
  BY <1>11, BriefMembers
<1>13. \A m \in 2 .. Len(s) : ~TakesOver(s[m])
  BY <1>1, <1>4, NoneTakesOver
<1>14. ASSUME NEW m \in 2 .. Len(s), NEW j \in 1 .. Len(new), s[m][1] = "finished", CallsPage(new[j])
       PROVE  \/ \E i \in j + 1 .. Len(new) : new[i] = <<"dequeue">>
              \/ \E i \in 2 .. m - 1 : s[i] = <<"dequeue">>
  <2>2. CASE queued
    <3>0. Len(new) = 2 /\ j = 1
      <4>1. j = 2 => ~CallsPage(new[j])
        BY <1>10, <1>11, <2>2 DEF CallsPage, IsUnqueuedStart
      <4>. QED
        BY <1>10, <1>11, <1>14, <2>2, <4>1
    <3>1. 2 \in j + 1 .. Len(new) /\ new[2] = <<"dequeue">>
      BY <1>10, <3>0, <2>2
    <3>. QED
      BY <3>1
  <2>3. CASE ~queued
    <3>1. CallsPage(s[1])
      BY <1>1, <1>2, <1>4, <2>3 DEF CallsPage, IsUnqueuedStart
    <3>2. m \in 1 .. Len(s) /\ 1 \in 1 .. m - 1
      BY <1>1, <1>4
    <3>3. FinishAt(s, m)
      BY <1>1, <1>4, <3>2 DEF StackFits
    <3>4. PICK i \in 1 + 1 .. m - 1 : s[i] = <<"dequeue">>
      BY <1>14, <3>1, <3>2, <3>3 DEF FinishAt
    <3>. QED
      BY <3>4
  <2>. QED
    BY <1>3, <2>2, <2>3
<1>15. BriefChange(t, new, s, 1)
  <2>1. 1 + 1 = 2 /\ 1 # 0
    OBVIOUS
  <2>2. /\ \A m \in 1 + 1 .. Len(s) : ~TakesOver(s[m])
        /\ \A m \in 1 + 1 .. Len(s), j \in 1 .. Len(new) : s[m][1] = "finished" /\ CallsPage(new[j]) =>
             \/ \E i \in j + 1 .. Len(new) : new[i] = <<"dequeue">>
             \/ \E i \in 1 + 1 .. m - 1 : s[i] = <<"dequeue">>
    BY <1>13, <1>14, <2>1
  <2>. QED
    BY <1>9, <1>12, <2>1, <2>2, Zenon DEF BriefChange
<1>16. TimersFit(ts, aa) /\ DataFits(s, ts, aa)
  BY <1>4 DEF DrivenInv
<1>17. TimersFit(uu, bb) /\ Grown(uu, ts) /\ Settled(bb, aa)
  <2>1. Started(uu, bb, ts, aa, queued, instant, over)
    BY <1>3, <1>5 DEF Started
  <2>. QED
    BY <1>16, <2>1, TimersAfterStart
<1>18. DataFits(new, uu, bb)
  BY <1>12, Zenon DEF DataFits, DataAt, Brief
<1>19. DataFits(t, uu, bb)
  BY <1>1, <1>4, <1>9, <1>16, <1>17, <1>18, NewData
<1>20. PICK q, u : q = (queue = <<>>) /\ u = (queue' = <<>>)
  OBVIOUS
<1>21. StackFits(t, u)
  BY <1>1, <1>4, <1>15, <1>20, BriefSteps
<1>22. HasStep(t, "finished") <=> HasStep(s, "finished")
  BY <1>1, <1>4, <1>9, <1>12, StepsOf
<1>23. timers' # <<>> => ticking'
  <2>1. instant => timers' = timers
    BY <1>4, <1>5
  <2>. QED
    BY <1>5, <2>1 DEF DrivenInv
<1>24. t \in Seq(Steps)
  BY <1>9 DEF Restacked
<1>. QED
  BY <1>1, <1>2, <1>3, <1>4, <1>5, <1>7, <1>8, <1>9, <1>17, <1>19, <1>20, <1>21, <1>22, <1>23, <1>24 DEF DrivenInv

(* A timer is removed. *)
LEMMA Removed ==
  ASSUME NEW S, NEW s \in Seq(S), NEW i \in 1 .. Len(s)
  PROVE  /\ RemoveAt(s, i) \in Seq(S) /\ Len(RemoveAt(s, i)) = Len(s) - 1
         /\ \A j \in 1 .. Len(s) - 1 : RemoveAt(s, i)[j] = IF j < i THEN s[j] ELSE s[j + 1]
<1>1. Len(s) \in Nat /\ i \in Int /\ 1 <= i /\ i <= Len(s) /\ \A j \in 1 .. Len(s) : s[j] \in S
  BY LenProperties, ElementOfSeq
<1>2. PICK n, l, h, x, y : n = Len(s) /\ l = i - 1 /\ h = i + 1 /\ x = SubSeq(s, 1, l) /\ y = SubSeq(s, h, n)
  OBVIOUS
<1>3. n \in Nat /\ l \in Int /\ h \in Int /\ l = i - 1 /\ h = i + 1 /\ i \in Int /\ 1 <= i /\ i <= n
  BY <1>1, <1>2
<1>4. RemoveAt(s, i) = x \o y
  BY <1>2 DEF RemoveAt
<1>5. x \in Seq(S) /\ Len(x) = l /\ \A j \in 1 .. l : x[j] = s[j]
  <2>1. \A j \in 1 .. l : s[j] \in S
    BY <1>1, <1>2, <1>3
  <2>2. /\ x \in Seq(S) /\ Len(x) = IF 1 <= l THEN l - 1 + 1 ELSE 0
        /\ \A j \in 1 .. l - 1 + 1 : x[j] = s[1 + j - 1]
    BY <1>2, <1>3, <2>1, SubSeqProperties
  <2>3. l - 1 + 1 = l /\ (IF 1 <= l THEN l - 1 + 1 ELSE 0) = l /\ \A j \in 1 .. l : 1 + j - 1 = j
    BY <1>3
  <2>. QED
    BY <2>2, <2>3
<1>6. y \in Seq(S) /\ Len(y) = n - i /\ \A j \in 1 .. n - i : y[j] = s[i + j]
  <2>1. \A j \in h .. n : s[j] \in S
    BY <1>1, <1>2, <1>3
  <2>2. /\ y \in Seq(S) /\ Len(y) = IF h <= n THEN n - h + 1 ELSE 0
        /\ \A j \in 1 .. n - h + 1 : y[j] = s[h + j - 1]
    BY <1>2, <1>3, <2>1, SubSeqProperties
  <2>3. n - h + 1 = n - i /\ (IF h <= n THEN n - h + 1 ELSE 0) = n - i /\ \A j \in 1 .. n - i : h + j - 1 = i + j
    BY <1>3
  <2>. QED
    BY <2>2, <2>3
<1>7. /\ x \o y \in Seq(S) /\ Len(x \o y) = l + (n - i)
      /\ \A j \in 1 .. l + (n - i) : (x \o y)[j] = IF j <= l THEN x[j] ELSE y[j - l]
  <2>1. /\ x \o y \in Seq(S) /\ Len(x \o y) = Len(x) + Len(y)
        /\ \A j \in 1 .. Len(x) + Len(y) : (x \o y)[j] = IF j <= Len(x) THEN x[j] ELSE y[j - Len(x)]
    BY <1>5, <1>6, ConcatProperties
  <2>. QED
    BY <1>5, <1>6, <2>1
<1>8. l + (n - i) = n - 1
  BY <1>3
<1>9. ASSUME NEW j \in 1 .. n - 1 PROVE (x \o y)[j] = IF j < i THEN s[j] ELSE s[j + 1]
  <2>1. CASE j < i
    <3>1. j <= l /\ j \in 1 .. l
      BY <1>3, <2>1
    <3>. QED
      BY <1>5, <1>7, <1>8, <2>1, <3>1
  <2>2. CASE ~(j < i)
    <3>1. ~(j <= l) /\ j - l \in 1 .. n - i /\ i + (j - l) = j + 1
      BY <1>3, <2>2
    <3>. QED
      BY <1>6, <1>7, <1>8, <2>2, <3>1
  <2>. QED
    BY <2>1, <2>2
<1>. QED
  BY <1>2, <1>4, <1>7, <1>8, <1>9

LEMMA TimersAfterRemoval ==
  ASSUME NEW ts, NEW aa, TimersFit(ts, aa), NEW i \in 1 .. Len(ts), aa[ts[i]].state # "running",
         NEW uu, uu = RemoveAt(ts, i)
  PROVE  /\ TimersFit(uu, aa) /\ Len(uu) = Len(ts) - 1 /\ Len(ts) \in Nat
         /\ \A j \in 1 .. Len(ts) : j < i => uu[j] = ts[j]
<1>1. /\ aa \in Seq(Animated) /\ ts \in Seq(Nat) /\ \A j \in 1 .. Len(ts) : ts[j] \in 1 .. Len(aa)
      /\ \A a \in 1 .. Len(aa) : aa[a].state = "running" => \E j \in 1 .. Len(ts) : ts[j] = a
  BY DEF TimersFit
<1>2. PICK n : n = Len(ts)
  OBVIOUS
<1>3. n \in Nat /\ i \in Int /\ 1 <= i /\ i <= n
  BY <1>1, <1>2, LenProperties
<1>4. /\ uu \in Seq(Nat) /\ Len(uu) = n - 1
      /\ \A j \in 1 .. n - 1 : uu[j] = IF j < i THEN ts[j] ELSE ts[j + 1]
  BY <1>1, <1>2, Removed
<1>5. \A j \in 1 .. n - 1 : uu[j] \in 1 .. Len(aa)
  <2>1. \A j \in 1 .. n - 1 : j \in 1 .. n /\ j + 1 \in 1 .. n
    BY <1>3
  <2>. QED
    BY <1>1, <1>2, <1>4, <2>1
<1>6. ASSUME NEW a \in 1 .. Len(aa), aa[a].state = "running" PROVE \E j \in 1 .. n - 1 : uu[j] = a
  <2>1. PICK j \in 1 .. n : ts[j] = a
    BY <1>1, <1>2, <1>6
  <2>2. j # i
    BY <1>6, <2>1
  <2>3. CASE j < i
    <3>1. j \in 1 .. n - 1
      BY <1>3, <2>3
    <3>. QED
      BY <1>4, <2>1, <2>3, <3>1
  <2>4. CASE ~(j < i)
    <3>1. PICK l \in Int : l = j - 1
      BY <1>3
    <3>2. l \in 1 .. n - 1 /\ ~(l < i) /\ l + 1 = j
      BY <1>3, <2>2, <2>4, <3>1
    <3>. QED
      BY <1>4, <2>1, <3>2
  <2>. QED
    BY <2>3, <2>4
<1>7. \A j \in 1 .. n : j < i => uu[j] = ts[j]
  <2>1. \A j \in 1 .. n : j < i => j \in 1 .. n - 1
    BY <1>3
  <2>. QED
    BY <1>4, <2>1
<1>8. TimersFit(uu, aa)
  BY <1>1, <1>4, <1>5, <1>6 DEF TimersFit
<1>. QED
  BY <1>2, <1>3, <1>4, <1>7, <1>8

(* An animation is over. *)
Ended(aa, a, state) == [aa EXCEPT ![a].state = state]

LEMMA TimersAfterEnd ==
  ASSUME NEW ts, NEW aa, TimersFit(ts, aa), NEW a \in 1 .. Len(aa), NEW state \in {"resolved", "rejected"},
         NEW bb, bb = Ended(aa, a, state)
  PROVE  /\ TimersFit(ts, bb) /\ Settled(bb, aa) /\ Grown(ts, ts) /\ Len(bb) = Len(aa)
         /\ bb[a].state = state /\ bb[a].queued = aa[a].queued
         /\ \A b \in 1 .. Len(aa) : b # a => bb[b] = aa[b]
<1>1. /\ aa \in Seq(Animated) /\ ts \in Seq(Nat) /\ \A j \in 1 .. Len(ts) : ts[j] \in 1 .. Len(aa)
      /\ \A b \in 1 .. Len(aa) : aa[b].state = "running" => \E j \in 1 .. Len(ts) : ts[j] = b
  BY DEF TimersFit
<1>2. Len(ts) \in Nat /\ Len(aa) \in Nat /\ aa \in [1 .. Len(aa) -> Animated]
  BY <1>1, LenProperties
<1>3. PICK x : x = [aa[a] EXCEPT !.state = state]
  OBVIOUS
<1>4. x \in Animated /\ x.state = state /\ x.queued = aa[a].queued
  BY <1>2, <1>3 DEF Animated
<1>5. bb = [aa EXCEPT ![a] = x]
  BY <1>3 DEF Ended
<1>6. /\ bb \in Seq(Animated) /\ Len(bb) = Len(aa) /\ bb[a] = x
      /\ \A b \in 1 .. Len(aa) : b # a => bb[b] = aa[b]
  BY <1>1, <1>2, <1>4, <1>5, ExceptSeq
<1>7. \A b \in 1 .. Len(aa) : bb[b].state = "running" => aa[b].state = "running"
  BY <1>4, <1>6
<1>8. TimersFit(ts, bb)
  BY <1>1, <1>6, <1>7 DEF TimersFit
<1>9. Settled(bb, aa) /\ Grown(ts, ts)
  BY <1>2, <1>6, <1>7 DEF Settled, Grown
<1>. QED
  BY <1>4, <1>6, <1>8, <1>9

LEMMA EndDriven ==
  ASSUME DrivenInv, FinishEnds
  PROVE  /\ DrivenInv' /\ Restacked(steps', <<>>, steps, 1) /\ steps[1][1] = "finished"
         /\ \A m \in 2 .. Len(steps) : ~(steps[m][1] = "start" /\ steps[m][2])
<1>1. /\ steps \in Seq(Steps) /\ StackFits(steps, queue = <<>>) /\ steps # <<>> /\ steps[1][1] = "finished" /\ Len(steps) \in Nat
      /\ DataFits(steps, timers, animations) /\ TimersFit(timers, animations)
  BY TopOf DEF DrivenInv, FinishEnds
<1>2. PICK new, t, s, ts, aa : new = <<>> /\ t = steps' /\ s = steps /\ ts = timers /\ aa = animations
  OBVIOUS
<1>3. new \in Seq(Steps) /\ t = new \o Tail(s)
  BY <1>1, <1>2, HeadTailProperties, ConcatEmptySeq, NoStep DEF Later, FinishEnds
<1>4. Restacked(t, new, s, 1)
  BY <1>1, <1>2, <1>3, Replaced
<1>5. BriefChange(t, new, s, 1)
  BY <1>2, <1>4, NoStep DEF BriefChange
<1>6. PICK q : q = (queue = <<>>)
  OBVIOUS
<1>7. StackFits(t, q)
  BY <1>1, <1>2, <1>5, <1>6, BriefSteps
<1>8. DataFits(t, ts, aa)
  <2>1. Len(ts) \in Nat /\ Len(aa) \in Nat
    BY <1>1, <1>2, LenProperties DEF TimersFit
  <2>2. Grown(ts, ts) /\ Settled(aa, aa)
    BY <2>1 DEF Grown, Settled
  <2>3. DataFits(new, ts, aa)
    BY <1>2, NoStep DEF DataFits
  <2>. QED
    BY <1>1, <1>2, <1>4, <2>2, <2>3, NewData
<1>9. ASSUME NEW m \in 2 .. Len(s) PROVE s[m][1] # "finished"
  <2>1. m \in 1 .. Len(s) /\ 1 \in 1 .. m - 1
    BY <1>1, <1>2
  <2>2. FinishAt(s, m)
    BY <1>1, <1>2, <2>1 DEF StackFits
  <2>. QED
    BY <1>1, <1>2, <2>1, <2>2 DEF FinishAt, Brief
<1>10. ~HasStep(t, "finished")
  <2>1. ASSUME NEW k \in 1 .. Len(t), t[k][1] = "finished" PROVE FALSE
    <3>1. \/ k \in 1 .. Len(new)
          \/ \E m \in 1 + 1 .. Len(s) : t[k] = s[m]
      BY <1>4, PlacesOf
    <3>. QED
      BY <1>2, <1>9, <2>1, <3>1, NoStep
  <2>. QED
    BY <2>1 DEF HasStep
<1>11. ASSUME NEW m \in 2 .. Len(s), s[m][1] = "start", s[m][2] PROVE FALSE
  <2>1. m \in 1 .. Len(s) /\ m # 1
    BY <1>1, <1>2
  <2>2. FinishAt(s, m)
    BY <1>1, <1>2, <2>1 DEF StackFits
  <2>3. PICK i \in m + 1 .. Len(s) : s[i][1] = "finished"
    BY <1>11, <2>1, <2>2 DEF FinishAt
  <2>4. i \in 2 .. Len(s)
    BY <1>1, <1>2
  <2>. QED
    BY <1>9, <2>3, <2>4
<1>12. t \in Seq(Steps)
  BY <1>4 DEF Restacked
<1>13. DrivenInv'
  BY <1>1, <1>2, <1>6, <1>7, <1>8, <1>10, <1>12 DEF DrivenInv, FinishEnds
<1>. QED
  BY <1>1, <1>2, <1>4, <1>11, <1>13

(* A tick of the interval is the only thing the script does. *)
TickStack(t) ==
  /\ t \in Seq(Steps)
  /\ \A k \in 1 .. Len(t) :
       t[k][1] \in {"callback", "dequeue", "uncount"} \/ (t[k][1] \in {"tick", "ticked"} /\ k = Len(t))

LEMMA TickSteps ==
  ASSUME NEW t, TickStack(t), NEW empty
  PROVE  StackFits(t, empty) /\ ~HasStep(t, "finished")
<1>1. ASSUME NEW k \in 1 .. Len(t) PROVE LoopAt(t, k) /\ StopAt(t, k, empty) /\ FinishAt(t, k) /\ t[k][1] # "finished"
  <2>1. PICK step : step = t[k]
    OBVIOUS
  <2>2. /\ step[1] # "splice" /\ step[1] # "stopping" /\ step[1] # "stop" /\ step[1] # "start" /\ step[1] # "finished"
        /\ step[1] \in {"tick", "ticked"} => k = Len(t)
    BY <2>1 DEF TickStack
  <2>. QED
    BY <2>1, <2>2, Zenon DEF LoopAt, StopAt, FinishAt
<1>. QED
  BY <1>1 DEF StackFits, HasStep

LEMMA Alone ==
  ASSUME DrivenInv, steps # <<>>, steps[1][1] \in {"tick", "ticked"}
  PROVE  Len(steps) = 1 /\ Tail(steps) = <<>>
<1>1. steps \in Seq(Steps) /\ Len(steps) \in Nat \ {0} /\ StackFits(steps, queue = <<>>)
  BY EmptySeq DEF DrivenInv
<1>2. 1 \in 1 .. Len(steps)
  BY <1>1
<1>3. LoopAt(steps, 1)
  BY <1>1, <1>2 DEF StackFits
<1>4. Len(steps) = 1
  BY <1>3 DEF LoopAt
<1>5. Tail(steps) \in Seq(Steps) /\ Len(Tail(steps)) = 0
  BY <1>1, <1>4, HeadTailProperties
<1>. QED
  BY <1>4, <1>5, EmptySeq

AfterTick(t, new, x) ==
  /\ x \in Steps /\ x[1] = "ticked" /\ t = new \o <<x>>
  /\ new = <<>> \/ \E queued : new = Completed(queued)

LEMMA TickedShape ==
  ASSUME NEW new, NEW x, NEW t, AfterTick(t, new, x)
  PROVE  /\ TickStack(t)
         /\ Len(t) \in Nat /\ \A k \in 1 .. Len(t) : t[k][1] = "ticked" => t[k] = x
         /\ new = <<>> => Len(t) = 1 /\ t[1] = x
         /\ new # <<>> => Len(t) = 3 /\ t[1] = new[1] /\ t[2] = new[2] /\ t[3] = x
<1>h. /\ x \in Steps /\ x[1] = "ticked" /\ t = new \o <<x>>
      /\ new = <<>> \/ \E queued : new = Completed(queued)
  BY DEF AfterTick
<1>. USE <1>h
<1>1. new \in Seq(Steps) /\ <<x>> \in Seq(Steps) /\ Len(<<x>>) = 1 /\ <<x>>[1] = x
  BY NoStep, OneStep, CompletedSteps
<1>2. /\ t \in Seq(Steps) /\ Len(t) = Len(new) + 1
      /\ \A i \in 1 .. Len(new) + 1 : t[i] = IF i <= Len(new) THEN new[i] ELSE <<x>>[i - Len(new)]
  BY <1>1, ConcatProperties
<1>3. CASE new = <<>>
  <2>1. Len(t) = 1 /\ t[1] = x
    BY <1>1, <1>2, <1>3, NoStep
  <2>2. \A k \in 1 .. Len(t) : k = 1
    BY <2>1
  <2>. QED
    BY <1>2, <1>3, <2>1, <2>2 DEF TickStack
<1>4. ASSUME NEW queued, new = Completed(queued)
      PROVE  /\ TickStack(t)
             /\ Len(t) = 3 /\ \A k \in 1 .. Len(t) : t[k][1] = "ticked" => t[k] = x
             /\ t[1] = new[1] /\ t[2] = new[2] /\ t[3] = x /\ new # <<>>
  <2>1. Len(new) = 2 /\ new[1] = <<"callback">> /\ new[2] = IF queued THEN <<"dequeue">> ELSE <<"uncount">>
    BY <1>4, CompletedSteps
  <2>2. Len(t) = 3 /\ t[1] = new[1] /\ t[2] = new[2] /\ t[3] = x
    BY <1>1, <1>2, <2>1
  <2>3. t[1][1] = "callback" /\ t[2][1] \in {"dequeue", "uncount"}
    BY <2>1, <2>2
  <2>4. \A k \in 1 .. 3 : k = 1 \/ k = 2 \/ k = 3
    OBVIOUS
  <2>5. TickStack(t)
    BY <1>2, <2>2, <2>3, <2>4 DEF TickStack
  <2>6. \A k \in 1 .. Len(t) : t[k][1] = "ticked" => t[k] = x
    BY <2>2, <2>3, <2>4
  <2>. QED
    BY <2>1, <2>2, <2>5, <2>6, NoStep
<1>. QED
  BY <1>3, <1>4

Settles(t, bb, aa, a, queued) ==
  /\ a \in 1 .. Len(aa) /\ aa[a].state = "running" /\ aa[a].queued = queued /\ queued \in BOOLEAN
  /\ Len(bb) = Len(aa) /\ bb[a].state # "running" /\ \A b \in 1 .. Len(aa) : b # a => bb[b] = aa[b]
  /\ Len(t) = 3 /\ t[1] = <<"callback">> /\ t[2] = IF queued THEN <<"dequeue">> ELSE <<"uncount">>
  /\ t[3][1] = "ticked"

LEMMA TickDriven ==
  ASSUME DrivenInv, Tick
  PROVE  /\ DrivenInv' /\ TickStack(steps') /\ Len(steps) = 1 /\ steps[1][1] = "tick"
         /\ \/ animations' = animations /\ \A k \in 1 .. Len(steps') : steps'[k][1] \in {"tick", "ticked"}
            \/ \E a, queued : Settles(steps', animations', animations, a, queued)
<1>1. /\ steps # <<>> /\ Head(steps) = steps[1] /\ steps[1][1] = "tick" /\ steps[1] \in Steps
      /\ TimersFit(timers, animations) /\ (timers # <<>> => ticking)
  BY TopOf DEF DrivenInv, Tick
<1>2. Len(steps) = 1 /\ Later = <<>>
  BY <1>1, Alone DEF Later
<1>3. PICK i, ts, aa, t, bb : i = steps[1][2] /\ ts = timers /\ aa = animations /\ t = steps' /\ bb = animations'
  OBVIOUS
<1>4. i \in Nat \ {0}
  BY <1>1, <1>3, Parts
<1>5. /\ aa \in Seq(Animated) /\ ts \in Seq(Nat) /\ Len(ts) \in Nat /\ Len(aa) \in Nat
      /\ \A j \in 1 .. Len(ts) : ts[j] \in 1 .. Len(aa)
      /\ TimersFit(ts, aa)
  BY <1>1, <1>3, LenProperties DEF TimersFit
<1>6. UNCHANGED <<timers, finishing, disturbed>> /\ ~HasStep(steps, "finished")
  <2>1. UNCHANGED <<timers, finishing, disturbed>>
    BY DEF Tick
  <2>2. \A k \in 1 .. Len(steps) : k = 1
    BY <1>2
  <2>. QED
    BY <1>1, <2>1, <2>2 DEF HasStep
<1>7. /\ TickStack(t) /\ TimersFit(ts, bb) /\ DataFits(t, ts, bb) /\ (timers' # <<>> => ticking')
      /\ \/ bb = aa /\ \A k \in 1 .. Len(t) : t[k][1] \in {"tick", "ticked"}
         \/ \E a, queued : Settles(t, bb, aa, a, queued)
  <2>1. CASE i > Len(ts)
    <3>1. ticking' = (timers # <<>> /\ ticking) /\ t = <<>> /\ bb = aa
      BY <1>1, <1>2, <1>3, <2>1 DEF Tick
    <3>2. TickStack(t) /\ DataFits(t, ts, bb) /\ 1 .. Len(t) = {}
      BY <3>1, NoStep DEF TickStack, DataFits
    <3>. QED
      BY <1>1, <1>5, <1>6, <3>1, <3>2
  <2>2. CASE ~(i > Len(ts))
    <3>1. i \in 1 .. Len(ts)
      BY <1>4, <1>5, <2>2
    <3>2. PICK a : a = ts[i]
      OBVIOUS
    <3>3. a \in 1 .. Len(aa) /\ a \in Nat
      BY <1>5, <3>1, <3>2
    <3>4. aa[a] \in Animated
      BY <1>5, <3>3, ElementOfSeq
    <3>5. /\ \/ /\ IsRunning(a)
                /\ t = <<<<"tick", i + 1>>>> \o <<>>
                /\ bb = aa
             \/ /\ bb = [aa EXCEPT ![a].state = IF IsRunning(a) THEN "resolved" ELSE @]
                /\ t = (IF IsRunning(a) THEN Completed(aa[a].queued) ELSE <<>>) \o <<<<"ticked", i, a>>>> \o <<>>
          /\ ticking' = ticking
      BY <1>1, <1>2, <1>3, <2>2, <3>2 DEF Tick
    <3>6. IsRunning(a) <=> aa[a].state = "running"
      BY <1>3 DEF IsRunning
    <3>7. PICK x, y : x = <<"ticked", i, a>> /\ y = <<"tick", i + 1>>
      OBVIOUS
    <3>8. x \in Steps /\ y \in Steps
      <4>1. i + 1 \in Nat \ {0}
        BY <1>4
      <4>. QED
        BY <1>4, <3>3, <3>7, <4>1, Shapes
    <3>9. x[1] = "ticked" /\ x[3] = a /\ y[1] = "tick"
      BY <3>7
    <3>10. timers' # <<>> => ticking'
      BY <1>1, <1>6, <3>5
    <3>11. CASE IsRunning(a) /\ t = <<y>> \o <<>> /\ bb = aa
      <4>1. t = <<y>> /\ <<y>> \in Seq(Steps) /\ Len(<<y>>) = 1 /\ <<y>>[1] = y
        BY <3>8, <3>11, OneStep, ConcatEmptySeq
      <4>2. \A k \in 1 .. Len(t) : t[k] = y /\ k = Len(t)
        BY <4>1
      <4>3. TickStack(t)
        BY <3>9, <4>1, <4>2 DEF TickStack
      <4>4. DataFits(t, ts, bb)
        <5>1. y[1] # "ticked" /\ y[1] # "stopping" /\ y[1] # "splice"
          BY <3>9
        <5>. QED
          BY <4>2, <5>1, Zenon DEF DataFits, DataAt
      <4>. QED
        BY <1>5, <3>9, <3>10, <3>11, <4>2, <4>3, <4>4
    <3>12. ASSUME NEW new, new = IF IsRunning(a) THEN Completed(aa[a].queued) ELSE <<>>,
                  bb = [aa EXCEPT ![a].state = IF IsRunning(a) THEN "resolved" ELSE @], t = new \o <<x>> \o <<>>
           PROVE  /\ TickStack(t) /\ TimersFit(ts, bb) /\ DataFits(t, ts, bb)
                  /\ \/ bb = aa /\ \A k \in 1 .. Len(t) : t[k][1] \in {"tick", "ticked"}
                     \/ \E b, queued : Settles(t, bb, aa, b, queued)
      <4>1. t = new \o <<x>>
        <5>1. new \in Seq(Steps) /\ <<x>> \in Seq(Steps)
          BY <3>8, <3>12, OneStep, NoStep, CompletedSteps
        <5>2. new \o <<x>> \in Seq(Steps)
          BY <5>1, ConcatProperties
        <5>. QED
          BY <3>12, <5>2, ConcatEmptySeq
      <4>2. new = <<>> \/ \E queued : new = Completed(queued)
        BY <3>12
      <4>3. /\ TickStack(t)
            /\ Len(t) \in Nat /\ \A k \in 1 .. Len(t) : t[k][1] = "ticked" => t[k] = x
            /\ new = <<>> => Len(t) = 1 /\ t[1] = x
            /\ new # <<>> => Len(t) = 3 /\ t[1] = new[1] /\ t[2] = new[2] /\ t[3] = x
        <5>1. AfterTick(t, new, x)
          BY <3>8, <3>9, <4>1, <4>2 DEF AfterTick
        <5>. QED
          BY <5>1, TickedShape
      <4>4. TimersFit(ts, bb) /\ Len(bb) = Len(aa) /\ bb[a].state # "running"
        <5>1. CASE IsRunning(a)
          <6>1. bb = Ended(aa, a, "resolved")
            BY <3>12, <5>1 DEF Ended
          <6>. QED
            BY <1>5, <3>3, <6>1, TimersAfterEnd
        <5>2. CASE ~IsRunning(a)
          <6>1. bb = [aa EXCEPT ![a].state = aa[a].state]
            BY <3>12, <5>2
          <6>2. bb = aa
            BY <1>5, <3>3, <3>4, <6>1, LenProperties DEF Animated
          <6>. QED
            BY <1>5, <3>6, <5>2, <6>2
        <5>. QED
          BY <5>1, <5>2
      <4>5. DataFits(t, ts, bb)
        <5>1. ASSUME NEW k \in 1 .. Len(t) PROVE DataAt(t, k, ts, bb)
          <6>1. t[k][1] # "stopping" /\ t[k][1] # "splice"
            BY <4>3 DEF TickStack
          <6>2. t[k][1] = "ticked" => t[k][3] \in 1 .. Len(bb) /\ bb[t[k][3]].state # "running"
            BY <3>3, <3>9, <4>3, <4>4
          <6>. QED
            BY <6>1, <6>2, Zenon DEF DataAt
        <5>. QED
          BY <5>1 DEF DataFits
      <4>6. CASE IsRunning(a)
        <5>1. bb = Ended(aa, a, "resolved")
          BY <3>12, <4>6 DEF Ended
        <5>0. "resolved" \in {"resolved", "rejected"} /\ a \in 1 .. Len(aa) /\ TimersFit(ts, aa)
          BY <1>5, <3>3
        <5>2. \A b \in 1 .. Len(aa) : b # a => bb[b] = aa[b]
          BY <5>0, <5>1, TimersAfterEnd, SMTT(30)
        <5>3. PICK queued : queued = aa[a].queued
          OBVIOUS
        <5>4. queued \in BOOLEAN
          BY <3>4, <5>3 DEF Animated
        <5>5. Len(new) = 2 /\ new[1] = <<"callback">> /\ new[2] = IF queued THEN <<"dequeue">> ELSE <<"uncount">>
          BY <3>12, <4>6, <5>3, CompletedSteps
        <5>7. new # <<>>
          BY <5>5, NoStep
        <5>8. /\ Len(t) = 3 /\ t[1] = <<"callback">> /\ t[2] = IF queued THEN <<"dequeue">> ELSE <<"uncount">>
              /\ t[3][1] = "ticked"
          BY <3>9, <4>3, <5>5, <5>7
        <5>9. aa[a].state = "running"
          BY <3>6, <4>6
        <5>6. Settles(t, bb, aa, a, queued)
          BY <3>3, <4>4, <5>2, <5>3, <5>4, <5>8, <5>9, Zenon DEF Settles
        <5>. QED
          BY <4>3, <4>4, <4>5, <5>6
      <4>7. CASE ~IsRunning(a)
        <5>1. bb = [aa EXCEPT ![a].state = aa[a].state]
          BY <3>12, <4>7
        <5>2. bb = aa
          BY <1>5, <3>3, <3>4, <5>1, LenProperties DEF Animated
        <5>3. \A k \in 1 .. Len(t) : t[k] = x
          <6>1. Len(t) = 1 /\ t[1] = x
            BY <3>12, <4>3, <4>7
          <6>. QED
            BY <6>1
        <5>. QED
          BY <3>9, <4>3, <4>4, <4>5, <5>2, <5>3
      <4>. QED
        BY <4>6, <4>7
    <3>. QED
      <4>1. PICK new : new = IF IsRunning(a) THEN Completed(aa[a].queued) ELSE <<>>
        OBVIOUS
      <4>. QED
        BY <3>5, <3>7, <3>10, <3>11, <3>12, <4>1
  <2>. QED
    BY <2>1, <2>2
<1>8. PICK q : q = (queue' = <<>>)
  OBVIOUS
<1>9. StackFits(t, q) /\ ~HasStep(t, "finished")
  BY <1>7, TickSteps
<1>10. DrivenInv'
  BY <1>3, <1>6, <1>7, <1>8, <1>9 DEF DrivenInv, TickStack
<1>. QED
  BY <1>1, <1>2, <1>3, <1>7, <1>10

LEMMA TickAlone ==
  ASSUME NEW i \in Nat \ {0}, NEW t, t = <<<<"tick", i>>>>, NEW ts, NEW aa
  PROVE  TickStack(t) /\ DataFits(t, ts, aa) /\ \A k \in 1 .. Len(t) : t[k][1] = "tick"
<1>1. PICK y : y = <<"tick", i>>
  OBVIOUS
<1>2. y \in Steps /\ y[1] = "tick"
  BY <1>1, Shapes
<1>3. t \in Seq(Steps) /\ Len(t) = 1 /\ t[1] = y
  BY <1>1, <1>2, OneStep
<1>4. \A k \in 1 .. Len(t) : t[k] = y /\ k = Len(t)
  BY <1>3
<1>5. TickStack(t)
  BY <1>2, <1>3, <1>4 DEF TickStack
<1>6. y[1] # "ticked" /\ y[1] # "stopping" /\ y[1] # "splice"
  BY <1>2
<1>7. DataFits(t, ts, aa)
  BY <1>4, <1>6, Zenon DEF DataFits, DataAt
<1>. QED
  BY <1>2, <1>4, <1>5, <1>7

LEMMA TickedDriven ==
  ASSUME DrivenInv, Ticked \/ IntervalElapses
  PROVE  /\ DrivenInv' /\ TickStack(steps') /\ \A k \in 1 .. Len(steps') : steps'[k][1] = "tick"
         /\ steps = <<>> \/ (Len(steps) = 1 /\ steps[1][1] = "ticked")
<1>0. TimersFit(timers, animations) /\ (timers # <<>> => ticking) /\ DataFits(steps, timers, animations)
  BY DEF DrivenInv
<1>1. PICK ts, aa, t, uu : ts = timers /\ aa = animations /\ t = steps' /\ uu = timers'
  OBVIOUS
<1>2. CASE IntervalElapses
  <2>1. t = <<<<"tick", 1>>>> /\ steps = <<>> /\ UNCHANGED <<animations, timers, ticking, finishing, disturbed>>
    BY <1>1, <1>2 DEF IntervalElapses
  <2>2. TickStack(t) /\ DataFits(t, ts, aa) /\ \A k \in 1 .. Len(t) : t[k][1] = "tick"
    BY <2>1, TickAlone
  <2>3. PICK q : q = (queue' = <<>>)
    OBVIOUS
  <2>4. StackFits(t, q) /\ ~HasStep(t, "finished")
    BY <2>2, TickSteps
  <2>5. ~HasStep(steps, "finished")
    BY <2>1, NoStep DEF HasStep
  <2>6. DrivenInv'
    BY <1>0, <1>1, <2>1, <2>2, <2>3, <2>4, <2>5 DEF DrivenInv, TickStack
  <2>. QED
    BY <1>1, <2>1, <2>2, <2>6
<1>3. CASE Ticked
  <2>1. steps # <<>> /\ Head(steps) = steps[1] /\ steps[1][1] = "ticked" /\ steps[1] \in Steps
    BY <1>3, TopOf DEF DrivenInv, Ticked
  <2>2. Len(steps) = 1 /\ Later = <<>>
    BY <2>1, Alone DEF Later
  <2>3. PICK i, a : i = steps[1][2] /\ a = steps[1][3]
    OBVIOUS
  <2>4. i \in Nat \ {0} /\ i + 1 \in Nat \ {0}
    BY <2>1, <2>3, Parts
  <2>5. aa[a].state # "running"
    <3>1. 1 \in 1 .. Len(steps)
      BY <2>2
    <3>2. DataAt(steps, 1, timers, animations)
      BY <1>0, <3>1 DEF DataFits
    <3>. QED
      BY <1>1, <2>1, <2>3, <3>2 DEF DataAt
  <2>6. Len(ts) \in Nat /\ DOMAIN ts = 1 .. Len(ts)
    BY <1>0, <1>1, LenProperties DEF TimersFit
  <2>7. /\ \/ i \in 1 .. Len(ts) /\ ts[i] = a /\ uu = RemoveAt(ts, i) /\ t = <<<<"tick", i>>>> \o <<>>
           \/ uu = ts /\ t = <<<<"tick", i + 1>>>> \o <<>>
        /\ UNCHANGED <<animations, ticking, finishing, disturbed>>
    <3>1. /\ IF i \in DOMAIN ts /\ ts[i] = a
             THEN uu = RemoveAt(ts, i) /\ t = <<<<"tick", i>>>> \o <<>>
             ELSE t = <<<<"tick", i + 1>>>> \o <<>> /\ uu = ts
          /\ UNCHANGED <<animations, ticking, finishing, disturbed>>
      BY <1>1, <1>3, <2>1, <2>2, <2>3 DEF Ticked
    <3>. QED
      BY <2>6, <3>1
  <2>8. PICK j \in {i, i + 1} : t = <<<<"tick", j>>>>
    <3>1. ASSUME NEW j \in {i, i + 1} PROVE <<<<"tick", j>>>> \o <<>> = <<<<"tick", j>>>>
      <4>1. PICK y : y = <<"tick", j>>
        OBVIOUS
      <4>2. y \in Steps
        BY <2>4, <4>1, Shapes
      <4>3. <<y>> \in Seq(Steps)
        BY <4>2, OneStep
      <4>. QED
        BY <4>1, <4>3, ConcatEmptySeq
    <3>. QED
      BY <2>7, <3>1
  <2>9. TimersFit(uu, aa) /\ (uu # <<>> => ts # <<>>)
    <3>1. CASE uu = ts
      BY <1>0, <1>1, <3>1
    <3>2. CASE i \in 1 .. Len(ts) /\ ts[i] = a /\ uu = RemoveAt(ts, i)
      <4>1. TimersFit(uu, aa)
        BY <1>0, <1>1, <2>5, <3>2, TimersAfterRemoval
      <4>2. ts # <<>>
        BY <3>2, NoStep
      <4>. QED
        BY <4>1, <4>2
    <3>. QED
      BY <2>7, <3>1, <3>2
  <2>10. TickStack(t) /\ DataFits(t, uu, aa) /\ \A k \in 1 .. Len(t) : t[k][1] = "tick"
    <3>1. j \in Nat \ {0}
      BY <2>4
    <3>. QED
      BY <2>8, <3>1, TickAlone
  <2>11. PICK q : q = (queue' = <<>>)
    OBVIOUS
  <2>12. StackFits(t, q) /\ ~HasStep(t, "finished")
    BY <2>10, TickSteps
  <2>13. ~HasStep(steps, "finished")
    <3>1. \A k \in 1 .. Len(steps) : k = 1
      BY <2>2
    <3>. QED
      BY <2>1, <3>1 DEF HasStep
  <2>14. DrivenInv'
    BY <1>0, <1>1, <2>7, <2>9, <2>10, <2>11, <2>12, <2>13 DEF DrivenInv, TickStack
  <2>. QED
    BY <1>1, <2>1, <2>2, <2>10, <2>14
<1>. QED
  BY <1>2, <1>3

(* A timer is taken out by the loop of stop or finish. *)
LEMMA SpliceDriven ==
  ASSUME DrivenInv, Splice
  PROVE  /\ DrivenInv' /\ Restacked(steps', <<>>, steps, 1) /\ steps[1][1] = "splice"
         /\ \A m \in 2 .. Len(steps) : steps[m][1] = "stopping" =>
              \A j \in 1 .. Len(timers) : j <= steps[m][2] => j \in 1 .. Len(timers') /\ timers'[j] = timers[j]
<1>1. /\ steps \in Seq(Steps) /\ StackFits(steps, queue = <<>>) /\ steps # <<>> /\ steps[1][1] = "splice" /\ Len(steps) \in Nat
      /\ DataFits(steps, timers, animations) /\ TimersFit(timers, animations) /\ Head(steps) = steps[1] /\ steps[1] \in Steps
      /\ Len(steps) >= 1
  BY TopOf DEF DrivenInv, Splice
<1>2. PICK new, t, s, ts, aa, uu, i :
        new = <<>> /\ t = steps' /\ s = steps /\ ts = timers /\ aa = animations /\ uu = timers' /\ i = steps[1][2]
  OBVIOUS
<1>3. new \in Seq(Steps) /\ t = new \o Tail(s)
  BY <1>1, <1>2, HeadTailProperties, ConcatEmptySeq, NoStep DEF Later, Splice
<1>4. Restacked(t, new, s, 1)
  BY <1>1, <1>2, <1>3, Replaced
<1>5. BriefChange(t, new, s, 1)
  BY <1>2, <1>4, NoStep DEF BriefChange
<1>6. PICK q : q = (queue = <<>>)
  OBVIOUS
<1>7. StackFits(t, q)
  BY <1>1, <1>2, <1>5, <1>6, BriefSteps
<1>8. Len(ts) \in Nat /\ Len(aa) \in Nat /\ i \in Nat \ {0}
  BY <1>1, <1>2, LenProperties, Parts DEF TimersFit
<1>9. i \in 1 .. Len(ts) /\ aa[ts[i]].state # "running"
  <2>1. 1 \in 1 .. Len(s)
    BY <1>1, <1>2
  <2>2. DataAt(s, 1, ts, aa)
    BY <1>1, <1>2, <2>1 DEF DataFits
  <2>. QED
    BY <1>1, <1>2, <1>8, <2>2 DEF DataAt
<1>10. uu = RemoveAt(ts, i)
  <2>1. DOMAIN ts = 1 .. Len(ts)
    BY <1>1, <1>2, LenProperties DEF TimersFit
  <2>. QED
    BY <1>1, <1>2, <1>9, <2>1 DEF Splice
<1>11. TimersFit(uu, aa) /\ Len(uu) = Len(ts) - 1 /\ \A j \in 1 .. Len(ts) : j < i => uu[j] = ts[j]
  BY <1>1, <1>2, <1>9, <1>10, TimersAfterRemoval
<1>12. ASSUME NEW m \in 2 .. Len(s), s[m][1] = "stopping" PROVE m = 2 /\ s[m][2] \in Nat /\ i = s[m][2] + 1
  <2>1. m \in 1 .. Len(s) /\ 1 \in 1 .. m - 1 /\ 1 \in 1 .. Len(s)
    BY <1>1, <1>2
  <2>2. LoopAt(s, m) /\ LoopAt(s, 1) /\ s[m] \in Steps
    BY <1>1, <1>2, <2>1, ElementOfSeq DEF StackFits
  <2>3. s[1][1] \notin Brief
    BY <1>1, <1>2 DEF Brief
  <2>4. m = 2
    BY <1>12, <2>1, <2>2, <2>3 DEF LoopAt
  <2>5. s[1][2] = s[1 + 1][2] + 1
    BY <1>1, <1>2, <2>2 DEF LoopAt
  <2>6. s[m][2] \in Nat
    BY <1>12, <2>2, Parts
  <2>. QED
    BY <1>2, <2>4, <2>5, <2>6
<1>13. ASSUME NEW m \in 2 .. Len(s) PROVE s[m][1] # "splice"
  <2>1. m \in 1 .. Len(s) /\ (m < Len(s) => m + 1 \in 2 .. Len(s) /\ m + 1 # 2)
    BY <1>1, <1>2
  <2>2. LoopAt(s, m)
    BY <1>1, <1>2, <2>1 DEF StackFits
  <2>. QED
    BY <1>12, <2>1, <2>2 DEF LoopAt
<1>14. DataFits(t, uu, aa)
  <2>1. ASSUME NEW k \in 1 .. Len(t) PROVE DataAt(t, k, uu, aa)
    <3>0. \/ k \in 1 .. Len(new)
          \/ \E m \in 1 + 1 .. Len(s) : t[k] = s[m]
      BY <1>4, PlacesOf
    <3>1. PICK m \in 1 + 1 .. Len(s) : t[k] = s[m]
      BY <1>2, <3>0, NoStep
    <3>2. m \in 2 .. Len(s) /\ m \in 1 .. Len(s)
      BY <1>1, <1>2
    <3>3. DataAt(s, m, ts, aa)
      BY <1>1, <1>2, <3>2 DEF DataFits
    <3>4. t[k][1] = "ticked" => t[k][3] \in 1 .. Len(aa) /\ aa[t[k][3]].state # "running"
      BY <3>1, <3>3 DEF DataAt
    <3>5. t[k][1] = "stopping" => t[k][2] <= Len(uu)
      BY <1>8, <1>9, <1>11, <1>12, <3>1, <3>2
    <3>6. t[k][1] # "splice"
      BY <1>13, <3>1, <3>2
    <3>. QED
      BY <3>4, <3>5, <3>6, Zenon DEF DataAt
  <2>. QED
    BY <2>1 DEF DataFits
<1>15. HasStep(t, "finished") <=> HasStep(s, "finished")
  <2>1. s[1][1] # "finished" /\ \A j \in 1 .. Len(new) : new[j][1] # "finished"
    BY <1>1, <1>2, NoStep
  <2>. QED
    BY <1>4, <2>1, StepsOf
<1>16. t \in Seq(Steps)
  BY <1>4 DEF Restacked
<1>17. ts # <<>>
  BY <1>9, NoStep
<1>18. DrivenInv'
  BY <1>1, <1>2, <1>6, <1>7, <1>11, <1>14, <1>15, <1>16, <1>17 DEF DrivenInv, Splice
<1>19. ASSUME NEW m \in 2 .. Len(s), s[m][1] = "stopping", NEW j \in 1 .. Len(ts), j <= s[m][2]
       PROVE  j \in 1 .. Len(uu) /\ uu[j] = ts[j]
  <2>1. j < i /\ j \in 1 .. Len(uu)
    BY <1>8, <1>9, <1>11, <1>12, <1>19
  <2>. QED
    BY <1>11, <2>1
<1>. QED
  BY <1>1, <1>2, <1>4, <1>18, <1>19

(* The loop of stop and of finish goes on. *)
StopStack(new) ==
  /\ new \in Seq(Steps) /\ Len(new) \in Nat \ {0} /\ new[Len(new)][1] = "stopping"
  /\ \A j \in 1 .. Len(new) - 1 :
       \/ new[j][1] \in {"callback", "dequeue", "uncount"}
       \/ new[j][1] = "splice" /\ j = Len(new) - 1 /\ new[j][2] = new[Len(new)][2] + 1
  /\ ~new[Len(new)][3] => \A j \in 1 .. Len(new) - 1 : new[j][1] \in {"uncount", "splice"}
  /\ new[Len(new)][4] => Len(new) = 1
  /\ new[Len(new)][5] => new[Len(new)][3]

LEMMA StopperFits ==
  ASSUME NEW new, StopStack(new), NEW empty
  PROVE  StackFits(new, empty)
<1>1. PICK n : n = Len(new)
  OBVIOUS
<1>2. /\ n \in Nat \ {0} /\ new[n][1] = "stopping"
      /\ \A j \in 1 .. n - 1 :
           \/ new[j][1] \in {"callback", "dequeue", "uncount"}
           \/ new[j][1] = "splice" /\ j = n - 1 /\ new[j][2] = new[n][2] + 1
      /\ ~new[n][3] => \A j \in 1 .. n - 1 : new[j][1] \in {"uncount", "splice"}
      /\ new[n][4] => n = 1
      /\ new[n][5] => new[n][3]
  BY <1>1 DEF StopStack
<1>3. ASSUME NEW k \in 1 .. n - 1 PROVE LoopAt(new, k) /\ StopAt(new, k, empty) /\ FinishAt(new, k)
  <2>1. PICK step : step = new[k]
    OBVIOUS
  <2>2. /\ step[1] # "tick" /\ step[1] # "ticked" /\ step[1] # "stopping" /\ step[1] # "stop" /\ step[1] # "start"
        /\ step[1] # "finished"
    BY <1>2, <2>1
  <2>3. step[1] = "splice" => k = n - 1 /\ step[2] = new[n][2] + 1
    BY <1>2, <2>1
  <2>4. k = n - 1 => k < n /\ k + 1 = n
    BY <1>2
  <2>5. step[1] = "splice" => k < Len(new) /\ new[k + 1][1] = "stopping" /\ step[2] = new[k + 1][2] + 1
    BY <1>1, <1>2, <2>3, <2>4
  <2>6. step[1] \notin {"tick", "ticked"}
    BY <2>2
  <2>. QED
    BY <2>1, <2>2, <2>5, <2>6, Zenon DEF LoopAt, StopAt, FinishAt
<1>4. LoopAt(new, n) /\ StopAt(new, n, empty) /\ FinishAt(new, n)
  <2>1. PICK step : step = new[n]
    OBVIOUS
  <2>2. step[1] \notin {"tick", "ticked"} /\ step[1] # "splice" /\ step[1] # "stop" /\ step[1] # "start" /\ step[1] # "finished"
    BY <1>2, <2>1
  <2>3. \A j \in 1 .. n - 1 : new[j][1] \in Brief \/ (new[j][1] = "splice" /\ j = n - 1)
    BY <1>2, BriefMembers
  <2>4. /\ ~step[3] => \A j \in 1 .. n - 1 : new[j][1] \in {"uncount", "splice"}
        /\ step[4] => n = 1
        /\ step[5] => step[3]
    BY <1>2, <2>1
  <2>5. LoopAt(new, n)
    BY <2>1, <2>2, <2>3, Zenon DEF LoopAt
  <2>6. StopAt(new, n, empty)
    BY <2>1, <2>2, <2>4, Zenon DEF StopAt
  <2>7. FinishAt(new, n)
    BY <2>1, <2>2, Zenon DEF FinishAt
  <2>. QED
    BY <2>5, <2>6, <2>7
<1>5. \A k \in 1 .. n : k \in 1 .. n - 1 \/ k = n
  BY <1>2
<1>. QED
  BY <1>1, <1>3, <1>4, <1>5 DEF StackFits

LEMMA StopperSteps ==
  ASSUME NEW t, NEW new, NEW s, NEW empty, NEW emptied, Restacked(t, new, s, 1), StackFits(s, empty), s # <<>>,
         s[1][1] \in {"stop", "stopping"}, StopStack(new),
         s[1][1] = "stopping" /\ s[1][5] =>
           /\ new[Len(new)][5]
           /\ \A j \in 1 .. Len(new) : CallsPage(new[j]) => \E i \in j + 1 .. Len(new) : new[i] = <<"dequeue">>
  PROVE  /\ StackFits(t, emptied) /\ (HasStep(t, "finished") <=> HasStep(s, "finished"))
         /\ \A m \in 2 .. Len(s) : s[m][1] \notin {"stop", "stopping", "splice"}
<1>1. s \in Seq(Steps) /\ Len(s) \in Nat
  BY LenProperties DEF Restacked
<1>2. \A m \in 2 .. Len(s) : s[m][1] \notin {"stop", "stopping", "splice"}
  BY <1>1, NothingStops DEF Brief
<1>3. PICK n : n = Len(new)
  OBVIOUS
<1>4. /\ n \in Nat \ {0} /\ \A j \in 1 .. n : j \in 1 .. n - 1 \/ j = n
      /\ \A j \in 1 .. n - 1 : new[j][1] \in {"callback", "dequeue", "uncount", "splice"}
      /\ new[n][1] = "stopping"
  <2>1. n \in Nat \ {0}
    BY <1>3 DEF StopStack
  <2>2. \A j \in 1 .. n : j \in 1 .. n - 1 \/ j = n
    BY <2>1
  <2>3. \A j \in 1 .. n - 1 : new[j][1] \in {"callback", "dequeue", "uncount", "splice"}
    BY <1>3 DEF StopStack
  <2>. QED
    BY <1>3, <2>1, <2>2, <2>3 DEF StopStack
<1>5. ASSUME NEW m \in 2 .. Len(s), NEW j \in 1 .. n, s[m][1] = "finished"
      PROVE  /\ new[j][1] \in Brief \cup {"splice", "stopping"}
             /\ new[j][1] = "stopping" => new[j][5]
             /\ CallsPage(new[j]) => \E i \in j + 1 .. n : new[i] = <<"dequeue">>
  <2>1. m \in 1 .. Len(s) /\ 1 \in 1 .. m - 1
    BY <1>1
  <2>2. FinishAt(s, m)
    BY <2>1 DEF StackFits
  <2>3. s[1][1] \in Brief \cup {"splice", "stopping"} /\ (s[1][1] = "stopping" => s[1][5])
    BY <1>5, <2>1, <2>2 DEF FinishAt
  <2>4. s[1][1] = "stopping" /\ s[1][5]
    BY <2>3 DEF Brief
  <2>. QED
    BY <1>3, <1>4, <2>4, BriefMembers
<1>6. \A j \in 1 .. n : new[j][1] \notin {"tick", "ticked", "finished"}
  BY <1>4
<1>7. StackFits(new, emptied)
  BY StopperFits
<1>8. StackChange(t, new, s, 1, emptied)
  <2>1. 1 + 1 = 2 /\ \A m \in 2 .. Len(s) : m # 1
    BY <1>1
  <2>2. /\ \A m \in 1 + 1 .. Len(s) :
             s[m][1] \notin {"stop", "stopping", "splice"} /\ (s[m][1] = "start" /\ s[m][2] => m # 1)
        /\ \A j \in 1 .. Len(new) : new[j][1] \in {"tick", "ticked"} => Len(s) = 1
        /\ \A m \in 1 + 1 .. Len(s), j \in 1 .. Len(new) : s[m][1] = "finished" =>
             /\ new[j][1] \in Brief \cup {"splice", "stopping"}
             /\ new[j][1] = "stopping" => new[j][5]
             /\ CallsPage(new[j]) => \E i \in j + 1 .. Len(new) : new[i] = <<"dequeue">>
    BY <1>2, <1>3, <1>5, <1>6, <2>1
  <2>. QED
    BY <1>7, <2>2, Zenon DEF StackChange
<1>9. StackFits(t, emptied)
  BY <1>8, StackSteps
<1>10. HasStep(t, "finished") <=> HasStep(s, "finished")
  BY <1>3, <1>6, StepsOf
<1>. QED
  BY <1>2, <1>9, <1>10

LEMMA StopDelayDriven ==
  ASSUME DrivenInv, StopDelay
  PROVE  /\ DrivenInv' /\ steps[1][1] = "stop" /\ steps[1][2] \in BOOLEAN /\ UNCHANGED <<timers, animations>>
         /\ \A m \in 2 .. Len(steps) : steps[m][1] \notin {"stop", "stopping", "splice"}
         /\ \E new : /\ Restacked(steps', new, steps, 1) /\ Len(new) = 1
                     /\ new[1] = <<"stopping", Len(timers), steps[1][2], TRUE, FALSE>>
<1>1. /\ steps \in Seq(Steps) /\ StackFits(steps, queue = <<>>) /\ steps # <<>> /\ steps[1][1] = "stop" /\ Len(steps) \in Nat
      /\ DataFits(steps, timers, animations) /\ TimersFit(timers, animations) /\ Head(steps) = steps[1] /\ steps[1] \in Steps
      /\ Len(steps) >= 1
  BY TopOf DEF DrivenInv, StopDelay
<1>2. PICK t, s, ts, aa, g, q : t = steps' /\ s = steps /\ ts = timers /\ aa = animations /\ g = steps[1][2] /\ q = (queue = <<>>)
  OBVIOUS
<1>3. Len(ts) \in Nat /\ g \in BOOLEAN /\ Len(aa) \in Nat
  BY <1>1, <1>2, LenProperties, Parts DEF TimersFit
<1>4. PICK x, new : x = <<"stopping", Len(ts), g, TRUE, FALSE>> /\ new = <<x>>
  OBVIOUS
<1>5. x \in Steps
  BY <1>3, <1>4, Shapes
<1>6. x[1] = "stopping" /\ x[2] = Len(ts) /\ x[3] = g /\ x[4] /\ ~x[5]
  BY <1>4
<1>7. new \in Seq(Steps) /\ Len(new) = 1 /\ new[1] = x
  BY <1>4, <1>5, OneStep
<1>8. t = new \o Tail(s)
  BY <1>1, <1>2, <1>4 DEF StopDelay, Later
<1>9. Restacked(t, new, s, 1)
  BY <1>1, <1>2, <1>7, <1>8, Replaced
<1>10. StopStack(new)
  <2>1. 1 .. Len(new) - 1 = {}
    BY <1>7
  <2>. QED
    BY <1>6, <1>7, <2>1 DEF StopStack
<1>11. /\ StackFits(t, q) /\ (HasStep(t, "finished") <=> HasStep(s, "finished"))
       /\ \A m \in 2 .. Len(s) : s[m][1] \notin {"stop", "stopping", "splice"}
  <2>1. s[1][1] = "stop" /\ s[1][1] # "stopping" /\ s # <<>> /\ StackFits(s, q)
    BY <1>1, <1>2
  <2>. QED
    BY <1>9, <1>10, <2>1, StopperSteps
<1>12. DataFits(t, ts, aa)
  <2>1. Grown(ts, ts) /\ Settled(aa, aa)
    BY <1>3 DEF Grown, Settled
  <2>2. \A k \in 1 .. Len(new) : new[k] = x
    BY <1>7
  <2>3. x[2] <= Len(ts) /\ x[1] # "ticked" /\ x[1] # "splice"
    BY <1>3, <1>6
  <2>4. DataFits(new, ts, aa)
    BY <2>2, <2>3, Zenon DEF DataFits, DataAt
  <2>. QED
    BY <1>1, <1>2, <1>9, <2>1, <2>4, NewData
<1>13. t \in Seq(Steps) /\ UNCHANGED <<timers, animations, ticking, finishing, disturbed, queue>>
  BY <1>9 DEF Restacked, StopDelay
<1>14. DrivenInv'
  BY <1>1, <1>2, <1>11, <1>12, <1>13 DEF DrivenInv
<1>. QED
  BY <1>1, <1>2, <1>3, <1>4, <1>7, <1>9, <1>11, <1>13, <1>14

PassesTimer(new, top, ts, aa) ==
  LET a == ts[top[2]]
  IN  /\ top[2] \in 1 .. Len(ts) /\ ~(aa[a].state = "running" /\ (top[5] => aa[a].queued))
      /\ Len(new) = 1 /\ new[1] = <<"stopping", top[2] - 1, top[3], top[4], top[5]>>

StopsTimer(new, top, ts, bb, aa) ==
  LET a == ts[top[2]]
      n == Len(new)
  IN  /\ top[2] \in 1 .. Len(ts) /\ aa[a].state = "running" /\ (top[5] => aa[a].queued)
      /\ Len(bb) = Len(aa) /\ bb[a].state # "running" /\ \A b \in 1 .. Len(aa) : b # a => bb[b] = aa[b]
      /\ n = IF top[3] THEN 4 ELSE IF aa[a].queued THEN 2 ELSE 3
      /\ new[n] = <<"stopping", top[2] - 1, top[3], FALSE, top[5]>> /\ new[n - 1] = <<"splice", top[2]>>
      /\ top[3] => new[1] = <<"callback">> /\ new[2] = IF aa[a].queued THEN <<"dequeue">> ELSE <<"uncount">>
      /\ ~top[3] /\ ~aa[a].queued => new[1] = <<"uncount">>

(* What is done for a timer that is stopped. *)
AfterStop(new, pre, y, x, g, queued) ==
  /\ x \in Steps /\ y \in Steps /\ g \in BOOLEAN /\ queued \in BOOLEAN
  /\ pre = IF g THEN Completed(queued) ELSE IF queued THEN <<>> ELSE <<<<"uncount">>>>
  /\ new = pre \o <<y, x>>

LEMMA StoppedShape ==
  ASSUME NEW new, NEW pre, NEW y, NEW x, NEW g, NEW queued, AfterStop(new, pre, y, x, g, queued)
  PROVE  /\ new \in Seq(Steps)
         /\ Len(new) = IF g THEN 4 ELSE IF queued THEN 2 ELSE 3
         /\ new[Len(new)] = x /\ new[Len(new) - 1] = y
         /\ g => new[1] = <<"callback">> /\ new[2] = IF queued THEN <<"dequeue">> ELSE <<"uncount">>
         /\ ~g /\ ~queued => new[1] = <<"uncount">>
<1>h. /\ x \in Steps /\ y \in Steps /\ g \in BOOLEAN /\ queued \in BOOLEAN
      /\ pre = IF g THEN Completed(queued) ELSE IF queued THEN <<>> ELSE <<<<"uncount">>>>
      /\ new = pre \o <<y, x>>
  BY DEF AfterStop
<1>. USE <1>h
<1>1. <<y, x>> \in Seq(Steps) /\ Len(<<y, x>>) = 2 /\ <<y, x>>[1] = y /\ <<y, x>>[2] = x
  BY TwoSteps
<1>2. /\ pre \in Seq(Steps) /\ Len(pre) = IF g THEN 2 ELSE IF queued THEN 0 ELSE 1
      /\ g => pre[1] = <<"callback">> /\ pre[2] = IF queued THEN <<"dequeue">> ELSE <<"uncount">>
      /\ ~g /\ ~queued => pre[1] = <<"uncount">>
  <2>1. CASE g
    BY <2>1, CompletedSteps
  <2>2. CASE ~g /\ queued
    BY <2>2, NoStep
  <2>3. CASE ~g /\ ~queued
    <3>1. PICK u : u = <<"uncount">>
      OBVIOUS
    <3>2. u \in Steps
      BY <3>1, Shapes
    <3>3. pre = <<u>>
      BY <2>3, <3>1
    <3>4. pre \in Seq(Steps) /\ Len(pre) = 1 /\ pre[1] = u
      BY <3>2, <3>3, OneStep
    <3>. QED
      BY <2>3, <3>1, <3>4
  <2>. QED
    BY <2>1, <2>2, <2>3
<1>3. PICK n : n = Len(pre)
  OBVIOUS
<1>4. /\ new \in Seq(Steps) /\ Len(new) = n + 2
      /\ \A i \in 1 .. n + 2 : new[i] = IF i <= n THEN pre[i] ELSE <<y, x>>[i - n]
  <2>1. /\ pre \o <<y, x>> \in Seq(Steps) /\ Len(pre \o <<y, x>>) = Len(pre) + Len(<<y, x>>)
        /\ \A i \in 1 .. Len(pre) + Len(<<y, x>>) : (pre \o <<y, x>>)[i] = IF i <= Len(pre) THEN pre[i] ELSE <<y, x>>[i - Len(pre)]
    BY <1>1, <1>2, ConcatProperties
  <2>. QED
    BY <1>1, <1>3, <2>1
<1>5. n \in {0, 1, 2} /\ n = (IF g THEN 2 ELSE IF queued THEN 0 ELSE 1)
  BY <1>2, <1>3
<1>6. new[n + 2] = x /\ new[n + 1] = y
  <2>2. PICK z : z = <<y, x>>
    OBVIOUS
  <2>3. \A i \in 1 .. n + 2 : ~(i <= n) => new[i] = z[i - n]
    BY <1>4, <2>2
  <2>4. PICK h, l : h = n + 2 /\ l = n + 1
    OBVIOUS
  <2>5. h \in 1 .. n + 2 /\ l \in 1 .. n + 2 /\ ~(h <= n) /\ ~(l <= n) /\ h - n = 2 /\ l - n = 1
    BY <1>5, <2>4
  <2>6. new[h] = z[h - n] /\ new[l] = z[l - n]
    BY <2>3, <2>5
  <2>7. new[h] = z[2] /\ new[l] = z[1]
    BY <2>5, <2>6
  <2>. QED
    BY <1>1, <2>2, <2>4, <2>7
<1>7. \A i \in 1 .. n : i \in 1 .. n + 2 /\ i <= n
  BY <1>5
<1>8. \A i \in 1 .. n : new[i] = pre[i]
  BY <1>4, <1>7
<1>9. Len(new) - 1 = n + 1
  BY <1>4, <1>5
<1>10. g => n = 2 /\ 1 \in 1 .. n /\ 2 \in 1 .. n
  BY <1>5
<1>11. ~g /\ ~queued => 1 \in 1 .. n
  BY <1>5
<1>. QED
  BY <1>2, <1>4, <1>5, <1>6, <1>8, <1>9, <1>10, <1>11

LEMMA StopTimersDriven ==
  ASSUME DrivenInv, StopTimers
  PROVE  /\ DrivenInv' /\ steps # <<>> /\ steps[1] \in Steps /\ steps[1][1] = "stopping" /\ timers' = timers
         /\ \E new :
              /\ Restacked(steps', new, steps, 1)
              /\ \/ /\ steps[1][2] = 0 /\ animations' = animations
                    /\ new = IF steps[1][4] \/ ~steps[1][3] THEN <<<<"dequeue">>>> ELSE <<>>
                 \/ PassesTimer(new, steps[1], timers, animations) /\ animations' = animations
                 \/ StopsTimer(new, steps[1], timers, animations', animations)
<1>1. /\ steps \in Seq(Steps) /\ StackFits(steps, queue = <<>>) /\ steps # <<>> /\ steps[1][1] = "stopping" /\ Len(steps) \in Nat
      /\ DataFits(steps, timers, animations) /\ TimersFit(timers, animations) /\ Head(steps) = steps[1] /\ steps[1] \in Steps
      /\ Len(steps) >= 1
  BY TopOf DEF DrivenInv, StopTimers
<1>2. PICK t, s, ts, aa, bb, e, top :
        t = steps' /\ s = steps /\ ts = timers /\ aa = animations /\ bb = animations' /\ e = (queue = <<>>) /\ top = steps[1]
  OBVIOUS
<1>3. PICK i, g, d, q : i = top[2] /\ g = top[3] /\ d = top[4] /\ q = top[5]
  OBVIOUS
<1>4. i \in Nat /\ g \in BOOLEAN /\ d \in BOOLEAN /\ q \in BOOLEAN
  BY <1>1, <1>2, <1>3, Parts
<1>5. UNCHANGED <<timers, ticking, finishing, disturbed, queue>>
  BY DEF StopTimers
<1>6. /\ aa \in Seq(Animated) /\ Len(ts) \in Nat /\ Len(aa) \in Nat
      /\ \A j \in 1 .. Len(ts) : ts[j] \in 1 .. Len(aa)
      /\ TimersFit(ts, aa) /\ DataFits(s, ts, aa) /\ StackFits(s, e)
  BY <1>1, <1>2, LenProperties DEF TimersFit
<1>7. i <= Len(ts) /\ (q => g) /\ (~g \/ d \/ ~TakesOver(top))
  <2>1. 1 \in 1 .. Len(s)
    BY <1>1, <1>2
  <2>2. DataAt(s, 1, ts, aa) /\ StopAt(s, 1, e)
    BY <1>6, <2>1 DEF DataFits, StackFits
  <2>3. s[1][1] = "stopping" /\ s[1][2] = i /\ s[1][3] = g /\ s[1][5] = q
    BY <1>1, <1>2, <1>3
  <2>4. i <= Len(ts)
    BY <2>2, <2>3 DEF DataAt
  <2>5. q => g
    BY <2>2, <2>3 DEF StopAt
  <2>. QED
    BY <1>1, <1>2, <1>3, <1>4, <2>4, <2>5 DEF TakesOver
<1>8. /\ i = 0 => /\ t = (IF d \/ ~g THEN <<<<"dequeue">>>> ELSE <<>>) \o Tail(s)
                  /\ bb = aa
      /\ i # 0 =>
           IF IsRunning(ts[i]) /\ (q => aa[ts[i]].queued)
           THEN /\ bb = [aa EXCEPT ![ts[i]].state = IF g THEN "resolved" ELSE "rejected"]
                /\ t = (IF g THEN Completed(aa[ts[i]].queued)
                        ELSE IF aa[ts[i]].queued THEN <<>> ELSE <<<<"uncount">>>>)
                       \o <<<<"splice", i>>, <<"stopping", i - 1, g, FALSE, q>>>> \o Tail(s)
           ELSE /\ t = <<<<"stopping", i - 1, g, d, q>>>> \o Tail(s)
                /\ bb = aa
  BY <1>1, <1>2, <1>3 DEF StopTimers, Later, StartsNext
<1>9. CASE i = 0
  <2>1. PICK new : new = IF d \/ ~g THEN <<<<"dequeue">>>> ELSE <<>>
    OBVIOUS
  <2>2. new \in Seq(Steps) /\ \A j \in 1 .. Len(new) : new[j] = <<"dequeue">>
    <3>1. PICK x : x = <<"dequeue">>
      OBVIOUS
    <3>2. x \in Steps
      BY <3>1, Shapes
    <3>3. <<x>> \in Seq(Steps) /\ Len(<<x>>) = 1 /\ <<x>>[1] = x
      BY <3>2, OneStep
    <3>4. new = <<x>> \/ new = <<>>
      BY <2>1, <3>1
    <3>5. \A j \in 1 .. Len(<<x>>) : <<x>>[j] = x
      BY <3>3
    <3>6. \A j \in 1 .. Len(<<>>) : FALSE
      BY NoStep
    <3>7. \A j \in 1 .. Len(new) : new[j] = x
      BY <3>4, <3>5, <3>6, Zenon
    <3>. QED
      BY <3>1, <3>3, <3>4, <3>7, NoStep
  <2>3. Restacked(t, new, s, 1)
    BY <1>1, <1>2, <1>8, <1>9, <2>1, <2>2, Replaced
  <2>4. \A m \in 2 .. Len(s) : ~TakesOver(s[m])
    BY <1>1, <1>2, <1>6, NoneTakesOver
  <2>5. \A j \in 1 .. Len(new) : new[j][1] \in Brief /\ new[j][1] # "start" /\ ~CallsPage(new[j])
    BY <2>2, BriefMembers DEF CallsPage, IsUnqueuedStart
  <2>6. BriefChange(t, new, s, 1)
    <3>1. 1 + 1 = 2 /\ 1 # 0
      OBVIOUS
    <3>2. \A m \in 1 + 1 .. Len(s) : ~TakesOver(s[m])
      BY <2>4, <3>1
    <3>. QED
      BY <2>3, <2>5, <3>1, <3>2, Zenon DEF BriefChange
  <2>7. animations' = animations
    BY <1>2, <1>8, <1>9
  <2>8. DrivenInv'
    BY <1>1, <1>2, <1>5, <2>6, <2>7, BriefDriven
  <2>. QED
    BY <1>1, <1>2, <1>3, <1>5, <1>9, <2>1, <2>3, <2>7, <2>8
<1>10. CASE i # 0
  <2>1. i \in 1 .. Len(ts)
    BY <1>4, <1>6, <1>7, <1>10
  <2>2. PICK a : a = ts[i]
    OBVIOUS
  <2>3. a \in 1 .. Len(aa) /\ aa[a] \in Animated /\ (IsRunning(a) <=> aa[a].state = "running")
    BY <1>2, <1>6, <2>1, <2>2, ElementOfSeq DEF IsRunning
  <2>4. PICK queued : queued = aa[a].queued
    OBVIOUS
  <2>5. queued \in BOOLEAN
    BY <2>3, <2>4 DEF Animated
  <2>6. PICK l : l = i - 1
    OBVIOUS
  <2>7. l \in Nat /\ i \in Nat \ {0} /\ i = l + 1 /\ l <= Len(ts)
    BY <1>4, <1>6, <1>7, <1>10, <2>6
  <2>8. CASE ~(IsRunning(a) /\ (q => queued))
    <3>1. t = <<<<"stopping", l, g, d, q>>>> \o Tail(s) /\ bb = aa
      BY <1>8, <1>10, <2>2, <2>4, <2>6, <2>8
    <3>2. PICK x, new : x = <<"stopping", l, g, d, q>> /\ new = <<x>>
      OBVIOUS
    <3>3. x \in Steps /\ x[1] = "stopping" /\ x[2] = l /\ x[3] = g /\ x[4] = d /\ x[5] = q
      BY <1>4, <2>7, <3>2, Shapes
    <3>4. new \in Seq(Steps) /\ Len(new) = 1 /\ new[1] = x /\ \A k \in 1 .. Len(new) : new[k] = x
      BY <3>2, <3>3, OneStep
    <3>5. Restacked(t, new, s, 1)
      BY <1>1, <1>2, <3>1, <3>2, <3>4, Replaced
    <3>6. StopStack(new)
      <4>1. 1 .. Len(new) - 1 = {}
        BY <3>4
      <4>. QED
        BY <1>7, <3>3, <3>4, <4>1 DEF StopStack
    <3>7. PICK u : u = (queue' = <<>>)
      OBVIOUS
    <3>8. StackFits(t, u) /\ (HasStep(t, "finished") <=> HasStep(s, "finished"))
      <4>1. \A j \in 1 .. Len(new) : ~CallsPage(new[j])
        BY <3>3, <3>4 DEF CallsPage, IsUnqueuedStart
      <4>2. s[1][5] = q /\ new[Len(new)][5] = q /\ s[1][1] = "stopping" /\ s # <<>>
        BY <1>1, <1>2, <1>3, <3>3, <3>4
      <4>3. s[1][1] = "stopping" /\ s[1][5] =>
              /\ new[Len(new)][5]
              /\ \A j \in 1 .. Len(new) : CallsPage(new[j]) => \E n \in j + 1 .. Len(new) : new[n] = <<"dequeue">>
        BY <4>1, <4>2
      <4>. QED
        BY <1>6, <3>5, <3>6, <4>2, <4>3, StopperSteps
    <3>9. DataFits(t, ts, bb)
      <4>1. Grown(ts, ts) /\ Settled(bb, aa)
        BY <1>6, <3>1 DEF Grown, Settled
      <4>2. x[2] <= Len(ts) /\ x[1] # "ticked" /\ x[1] # "splice"
        BY <2>7, <3>3
      <4>3. DataFits(new, ts, bb)
        BY <3>4, <4>2, Zenon DEF DataFits, DataAt
      <4>4. s[1][1] # "splice"
        BY <1>1, <1>2
      <4>. QED
        BY <1>6, <3>1, <3>5, <4>1, <4>3, <4>4, NewData
    <3>10. t \in Seq(Steps)
      BY <3>5 DEF Restacked
    <3>11. DrivenInv'
      BY <1>1, <1>2, <1>5, <3>1, <3>7, <3>8, <3>9, <3>10 DEF DrivenInv
    <3>12. PassesTimer(new, top, ts, aa)
      BY <1>3, <2>1, <2>2, <2>3, <2>4, <2>6, <2>8, <3>2, <3>4 DEF PassesTimer
    <3>. QED
      BY <1>1, <1>2, <1>5, <3>1, <3>5, <3>11, <3>12
  <2>9. CASE IsRunning(a) /\ (q => queued)
    <3>1. PICK pre : pre = IF g THEN Completed(queued) ELSE IF queued THEN <<>> ELSE <<<<"uncount">>>>
      OBVIOUS
    <3>2. PICK x, y, state : /\ x = <<"stopping", l, g, FALSE, q>> /\ y = <<"splice", i>>
                             /\ state = IF g THEN "resolved" ELSE "rejected"
      OBVIOUS
    <3>3. PICK new : new = pre \o <<y, x>>
      OBVIOUS
    <3>4. bb = Ended(aa, a, state) /\ t = new \o Tail(s)
      <4>1. /\ bb = [aa EXCEPT ![ts[i]].state = IF g THEN "resolved" ELSE "rejected"]
            /\ t = (IF g THEN Completed(aa[ts[i]].queued)
                    ELSE IF aa[ts[i]].queued THEN <<>> ELSE <<<<"uncount">>>>)
                   \o <<<<"splice", i>>, <<"stopping", i - 1, g, FALSE, q>>>> \o Tail(s)
        BY <1>8, <1>10, <2>2, <2>4, <2>9
      <4>2. bb = Ended(aa, a, state)
        BY <2>2, <3>2, <4>1 DEF Ended
      <4>3. t = pre \o <<y, x>> \o Tail(s)
        BY <2>2, <2>4, <2>6, <3>1, <3>2, <4>1
      <4>. QED
        BY <3>3, <4>2, <4>3
    <3>5. x \in Steps /\ y \in Steps
      BY <1>4, <2>7, <3>2, Shapes
    <3>6. /\ x[1] = "stopping" /\ x[2] = l /\ x[3] = g /\ ~x[4] /\ x[5] = q
          /\ y[1] = "splice" /\ y[2] = i
      BY <3>2
    <3>7. PICK n : n = Len(new)
      OBVIOUS
    <3>8. /\ new \in Seq(Steps)
          /\ n = IF g THEN 4 ELSE IF queued THEN 2 ELSE 3
          /\ new[n] = x /\ new[n - 1] = y
          /\ g => new[1] = <<"callback">> /\ new[2] = IF queued THEN <<"dequeue">> ELSE <<"uncount">>
          /\ ~g /\ ~queued => new[1] = <<"uncount">>
      <4>1. AfterStop(new, pre, y, x, g, queued)
        BY <1>4, <2>5, <3>1, <3>3, <3>5 DEF AfterStop
      <4>2. /\ new \in Seq(Steps)
            /\ Len(new) = IF g THEN 4 ELSE IF queued THEN 2 ELSE 3
            /\ new[Len(new)] = x /\ new[Len(new) - 1] = y
            /\ g => new[1] = <<"callback">> /\ new[2] = IF queued THEN <<"dequeue">> ELSE <<"uncount">>
            /\ ~g /\ ~queued => new[1] = <<"uncount">>
        BY <4>1, StoppedShape
      <4>. QED
        BY <3>7, <4>2
    <3>9. Restacked(t, new, s, 1)
      BY <1>1, <1>2, <3>4, <3>8, Replaced
    <3>10. ASSUME NEW j \in 1 .. n
           PROVE  \/ j = n /\ new[j] = x
                  \/ j = n - 1 /\ new[j] = y
                  \/ j \in 1 .. n - 2 /\ g /\ j = 1 /\ new[j] = <<"callback">>
                  \/ j \in 1 .. n - 2 /\ g /\ j = 2 /\ new[j] = IF queued THEN <<"dequeue">> ELSE <<"uncount">>
                  \/ j \in 1 .. n - 2 /\ ~g /\ new[j] = <<"uncount">>
      <4>1. CASE g
        <5>1. n = 4
          BY <3>8, <4>1
        <5>2. j = 1 \/ j = 2 \/ j = 3 \/ j = 4
          BY <5>1
        <5>. QED
          BY <3>8, <4>1, <5>1, <5>2
      <4>2. CASE ~g
        <5>1. n = 2 \/ (n = 3 /\ ~queued)
          BY <2>5, <3>8, <4>2
        <5>2. j = n \/ j = n - 1 \/ (n = 3 /\ j = 1)
          BY <5>1
        <5>3. n = 3 => 1 \in 1 .. n - 2
          OBVIOUS
        <5>. QED
          BY <3>8, <4>2, <5>1, <5>2, <5>3
      <4>. QED
        BY <1>4, <4>1, <4>2
    <3>11. n \in Nat \ {0} /\ n >= 2
      BY <3>8
    <3>12. StopStack(new)
      <4>1. ASSUME NEW j \in 1 .. n - 1
            PROVE  /\ \/ new[j][1] \in {"callback", "dequeue", "uncount"}
                      \/ new[j][1] = "splice" /\ j = n - 1 /\ new[j][2] = new[n][2] + 1
                   /\ ~g => new[j][1] \in {"uncount", "splice"}
        <5>1. j \in 1 .. n /\ j # n
          BY <3>11
        <5>. QED
          BY <2>5, <2>7, <3>6, <3>8, <3>10, <5>1
      <4>. QED
        BY <1>7, <3>6, <3>7, <3>8, <3>11, <4>1 DEF StopStack
    <3>13. PICK u : u = (queue' = <<>>)
      OBVIOUS
    <3>14. StackFits(t, u) /\ (HasStep(t, "finished") <=> HasStep(s, "finished"))
      <4>1. ASSUME q, NEW j \in 1 .. n, CallsPage(new[j]) PROVE \E k \in j + 1 .. n : new[k] = <<"dequeue">>
        <5>1. g /\ queued /\ n = 4
          BY <1>4, <1>7, <2>9, <3>8, <4>1
        <5>2. new[1] = <<"callback">> /\ new[2] = <<"dequeue">> /\ new[3] = y /\ new[4] = x
          BY <3>8, <5>1
        <5>3. j = 1
          <6>1. j = 1 \/ j = 2 \/ j = 3 \/ j = 4
            BY <5>1
          <6>2. ~CallsPage(new[2]) /\ ~CallsPage(new[3]) /\ ~CallsPage(new[4])
            BY <3>6, <5>2 DEF CallsPage, IsUnqueuedStart
          <6>. QED
            BY <4>1, <6>1, <6>2
        <5>4. 2 \in j + 1 .. n
          BY <5>1, <5>3
        <5>. QED
          BY <5>2, <5>4
      <4>2. s[1][5] = q /\ new[n][5] = q /\ s[1][1] = "stopping" /\ s # <<>>
        BY <1>1, <1>2, <1>3, <3>6, <3>8
      <4>3. s[1][1] = "stopping" /\ s[1][5] =>
              /\ new[Len(new)][5]
              /\ \A j \in 1 .. Len(new) : CallsPage(new[j]) => \E k \in j + 1 .. Len(new) : new[k] = <<"dequeue">>
        BY <3>7, <4>1, <4>2
      <4>. QED
        BY <1>6, <3>9, <3>12, <4>2, <4>3, StopperSteps
    <3>15. /\ TimersFit(ts, bb) /\ Settled(bb, aa) /\ Grown(ts, ts) /\ Len(bb) = Len(aa)
           /\ bb[a].state = state /\ \A b \in 1 .. Len(aa) : b # a => bb[b] = aa[b]
      <4>1. state \in {"resolved", "rejected"}
        BY <3>2
      <4>2. TimersFit(ts, aa) /\ a \in 1 .. Len(aa) /\ bb = Ended(aa, a, state)
        BY <1>6, <2>3, <3>4
      <4>. QED
        BY <4>1, <4>2, TimersAfterEnd
    <3>16. bb[a].state # "running"
      BY <3>2, <3>15
    <3>17. DataFits(t, ts, bb)
      <4>1. ASSUME NEW j \in 1 .. n PROVE DataAt(new, j, ts, bb)
        <5>1. CASE j = n
          <6>1. new[j] = x /\ x[1] # "ticked" /\ x[1] # "splice" /\ x[2] <= Len(ts)
            BY <2>7, <3>6, <3>8, <5>1
          <6>. QED
            BY <6>1, Zenon DEF DataAt
        <5>2. CASE j = n - 1
          <6>1. new[j] = y /\ y[1] # "ticked" /\ y[1] # "stopping" /\ y[2] = i /\ i <= Len(ts)
            BY <2>1, <3>6, <3>8, <5>2
          <6>2. bb[ts[y[2]]].state # "running"
            BY <2>2, <3>16, <6>1
          <6>. QED
            BY <6>1, <6>2, Zenon DEF DataAt
        <5>3. CASE new[j][1] \in {"callback", "dequeue", "uncount"}
          <6>1. new[j][1] # "ticked" /\ new[j][1] # "stopping" /\ new[j][1] # "splice"
            BY <5>3
          <6>. QED
            BY <6>1, Zenon DEF DataAt
        <5>. QED
          BY <3>10, <5>1, <5>2, <5>3
      <4>2. DataFits(new, ts, bb)
        BY <3>7, <4>1 DEF DataFits
      <4>3. s[1][1] # "splice"
        BY <1>1, <1>2
      <4>. QED
        BY <1>6, <3>9, <3>15, <4>2, <4>3, NewData
    <3>18. t \in Seq(Steps)
      BY <3>9 DEF Restacked
    <3>19. DrivenInv'
      BY <1>1, <1>2, <1>5, <3>13, <3>14, <3>15, <3>17, <3>18 DEF DrivenInv
    <3>20. StopsTimer(new, top, ts, bb, aa)
      BY <1>3, <2>1, <2>2, <2>3, <2>4, <2>6, <2>9, <3>2, <3>7, <3>8, <3>15, <3>16 DEF StopsTimer
    <3>. QED
      BY <1>1, <1>2, <1>5, <3>9, <3>19, <3>20
  <2>. QED
    BY <2>8, <2>9
<1>. QED
  BY <1>9, <1>10

(* The page stops or finishes. *)
LEMMA StartsSteps ==
  ASSUME NEW items \in Seq(Items)
  PROVE  /\ Starts(items) \in Seq(Steps) /\ Len(Starts(items)) \in Nat
         /\ \A j \in 1 .. Len(Starts(items)) : Starts(items)[j][1] = "start" /\ Starts(items)[j][2]
<1>. DEFINE N == Len(items)
            Next(x, n) == IF items[n].kind # "animation" THEN x ELSE Append(x, <<"start", TRUE, items[n].instant>>)
            Keeps(g, n) == g = [m \in 0 .. n |-> IF m = 0 THEN <<>> ELSE Next(g[m - 1], m)]
            Good(x) == x \in Seq(Steps) /\ Len(x) \in Nat /\ \A j \in 1 .. Len(x) : x[j][1] = "start" /\ x[j][2]
            S == {n \in 0 .. N : \E g : Keeps(g, n) /\ Good(g[n])}
<1>1. N \in Nat /\ \A n \in 1 .. N : items[n].instant \in BOOLEAN
  <2>1. \A n \in 1 .. N : items[n] \in Items
    BY ElementOfSeq
  <2>. QED
    BY <2>1, LenProperties DEF Items
<1>2. Starts(items) = (CHOOSE g : Keeps(g, N))[N]
  BY DEF Starts
<1>3. ASSUME NEW x, Good(x), NEW n \in 1 .. N PROVE Good(Next(x, n))
  <2>1. CASE items[n].kind # "animation"
    BY <1>3, <2>1
  <2>2. CASE items[n].kind = "animation"
    <3>1. PICK b : b = items[n].instant
      OBVIOUS
    <3>2. PICK y : y = <<"start", TRUE, b>>
      OBVIOUS
    <3>3. y \in Steps
      BY <1>1, <3>1, <3>2, Shapes
    <3>4. y[1] = "start" /\ y[2]
      BY <3>2
    <3>5. PICK z : z = Append(x, y)
      OBVIOUS
    <3>6. z \in Seq(Steps) /\ Len(z) = Len(x) + 1 /\ z[Len(x) + 1] = y /\ \A j \in 1 .. Len(x) : z[j] = x[j]
      BY <1>3, <3>3, <3>5, AppendProperties
    <3>7. Len(z) \in Nat /\ \A j \in 1 .. Len(z) : j \in 1 .. Len(x) \/ j = Len(x) + 1
      BY <1>3, <3>6
    <3>8. Good(z)
      BY <1>3, <3>4, <3>6, <3>7
    <3>9. Next(x, n) = z
      BY <2>2, <3>1, <3>2, <3>5
    <3>. HIDE DEF Good, Next
    <3>. QED
      BY <3>8, <3>9
  <2>. QED
    BY <2>1, <2>2
<1>4. 0 \in S
  <2>. DEFINE g == [m \in 0 .. 0 |-> <<>>]
  <2>1. Keeps(g, 0) /\ g[0] = <<>>
    OBVIOUS
  <2>2. Good(<<>>)
    BY NoStep
  <2>. HIDE DEF Keeps, g, Good
  <2>. QED
    BY <1>1, <2>1, <2>2
<1>. HIDE DEF N, Next, Good
<1>5. ASSUME NEW n \in 1 .. N, n - 1 \in S PROVE n \in S
  <2>1. PICK g : Keeps(g, n - 1) /\ Good(g[n - 1])
    BY <1>5
  <2>. DEFINE h == [m \in 0 .. n |-> IF m = n THEN Next(g[n - 1], n) ELSE g[m]]
  <2>2. ASSUME NEW m \in 0 .. n PROVE h[m] = IF m = 0 THEN <<>> ELSE Next(h[m - 1], m)
    <3>1. CASE m = n
      <4>1. h[m] = Next(g[n - 1], n) /\ h[n - 1] = g[n - 1] /\ n # 0
        BY <3>1, <1>1
      <4>. QED
        BY <3>1, <4>1
    <3>2. CASE m # n
      <4>1. m \in 0 .. n - 1 /\ (m # 0 => m - 1 \in 0 .. n /\ m - 1 # n)
        BY <1>1, <3>2
      <4>2. h[m] = g[m] /\ (m # 0 => h[m - 1] = g[m - 1])
        BY <3>2, <4>1
      <4>3. g[m] = IF m = 0 THEN <<>> ELSE Next(g[m - 1], m)
        BY <2>1, <4>1
      <4>. QED
        BY <4>2, <4>3
    <3>. QED
      BY <3>1, <3>2
  <2>3. Keeps(h, n)
    BY <2>2
  <2>4. Good(h[n])
    <3>1. n \in 0 .. n
      BY <1>1
    <3>2. h[n] = Next(g[n - 1], n)
      BY <3>1
    <3>. QED
      BY <1>3, <2>1, <3>2
  <2>. HIDE DEF Keeps, h
  <2>. QED
    BY <1>1, <2>3, <2>4
<1>6. N \in S
  <2>. HIDE DEF S
  <2>1. N \in Nat /\ 0 \in S /\ \A n \in 1 .. N : n - 1 \in S => n \in S
    BY <1>1, <1>4, <1>5
  <2>2. 0 .. N \subseteq S
    BY <2>1, StepByStep
  <2>. QED
    BY <2>1, <2>2
<1>7. PICK f : f = (CHOOSE g : Keeps(g, N))
  OBVIOUS
<1>8. Keeps(f, N)
  BY <1>6, <1>7
<1>9. PICK g : Keeps(g, N) /\ Good(g[N])
  BY <1>6
<1>10. \A n \in 1 .. N : n - 1 \in 0 .. N /\ n \in 0 .. N /\ n # 0
  BY <1>1
<1>11. ASSUME NEW r, Keeps(r, N), r[0] = <<>> PROVE Good(r[N])
  <2>. DEFINE T == {n \in 0 .. N : Good(r[n])}
  <2>1. 0 \in T
    BY <1>1, <1>11, NoStep DEF Good
  <2>2. ASSUME NEW n \in 1 .. N, n - 1 \in T PROVE n \in T
    <3>1. r[n] = Next(r[n - 1], n)
      BY <1>10, <1>11
    <3>. QED
      BY <1>3, <1>10, <2>2, <3>1
  <2>. HIDE DEF T
  <2>3. N \in Nat /\ \A n \in 1 .. N : n - 1 \in T => n \in T
    BY <1>1, <2>2
  <2>4. 0 .. N \subseteq T
    BY <2>1, <2>3, StepByStep
  <2>5. N \in T
    BY <2>3, <2>4
  <2>. QED
    BY <2>5 DEF T
<1>12. f[0] = <<>>
  BY <1>1, <1>8
<1>13. Good(f[N])
  BY <1>8, <1>11, <1>12
<1>. QED
  BY <1>2, <1>7, <1>13 DEF Good

LEMMA NothingIsStopped ==
  ASSUME DrivenInv, PageMay, ~Owes("stopping"), ~Owes("finished")
  PROVE  \A m \in 1 .. Len(steps) :
           /\ steps[m][1] \notin {"stop", "stopping", "splice", "finished"}
           /\ ~(steps[m][1] = "start" /\ steps[m][2])
<1>1. /\ steps \in Seq(Steps) /\ Len(steps) \in Nat /\ StackFits(steps, queue = <<>>)
      /\ \A m \in 1 .. Len(steps) : ~TakesOver(steps[m])
      /\ \A m \in 1 .. Len(steps) : steps[m][1] = "start" /\ steps[m][2] => m # 1
  BY CallbackOnTop DEF DrivenInv
<1>2. DOMAIN steps = 1 .. Len(steps)
  BY <1>1, LenProperties
<1>3. \A m \in 1 .. Len(steps) : steps[m][1] # "stopping" /\ steps[m][1] # "finished"
  BY <1>2 DEF Owes
<1>4. ASSUME NEW m \in 1 .. Len(steps)
      PROVE  steps[m][1] # "stop" /\ steps[m][1] # "splice" /\ ~(steps[m][1] = "start" /\ steps[m][2])
  <2>1. LoopAt(steps, m) /\ FinishAt(steps, m)
    BY <1>1 DEF StackFits
  <2>2. m < Len(steps) => m + 1 \in 1 .. Len(steps)
    BY <1>1
  <2>3. steps[m][1] # "splice"
    BY <1>3, <2>1, <2>2 DEF LoopAt
  <2>4. \A i \in m + 1 .. Len(steps) : i \in 1 .. Len(steps)
    BY <1>1
  <2>5. ~(steps[m][1] = "start" /\ steps[m][2])
    BY <1>1, <1>3, <2>1, <2>4 DEF FinishAt
  <2>. QED
    BY <1>1, <2>3, <2>5 DEF TakesOver
<1>. QED
  BY <1>3, <1>4

LEMMA PutOnTop ==
  ASSUME DrivenInv, PageMay, ~Owes("stopping"), ~Owes("finished"), NEW new, NEW emptied,
         Restacked(steps', new, steps, 0), StackFits(new, emptied), emptied = (queue' = <<>>),
         \A j \in 1 .. Len(new) : new[j][1] \notin {"tick", "ticked"},
         DataFits(new, timers, animations),
         UNCHANGED <<timers, animations, ticking>>, finishing' <=> finishing \/ HasStep(new, "finished"),
         disturbed => disturbed'
  PROVE  DrivenInv'
<1>1. PICK t, s, ts, aa, e : t = steps' /\ s = steps /\ ts = timers /\ aa = animations /\ e = (queue = <<>>)
  OBVIOUS
<1>2. /\ s \in Seq(Steps) /\ Len(s) \in Nat /\ StackFits(s, e) /\ TimersFit(ts, aa) /\ DataFits(s, ts, aa)
      /\ timers # <<>> => ticking
      /\ disturbed \/ (finishing <=> HasStep(s, "finished"))
  BY <1>1, LenProperties DEF DrivenInv
<1>3. \A m \in 1 .. Len(s) :
        s[m][1] \notin {"stop", "stopping", "splice", "finished"} /\ ~(s[m][1] = "start" /\ s[m][2])
  BY <1>1, NothingIsStopped
<1>4. Restacked(t, new, s, 0)
  BY <1>1
<1>5. StackChange(t, new, s, 0, emptied)
  <2>1. 0 + 1 = 1
    OBVIOUS
  <2>2. /\ \A m \in 0 + 1 .. Len(s) :
             s[m][1] \notin {"stop", "stopping", "splice"} /\ (s[m][1] = "start" /\ s[m][2] => m # 1)
        /\ \A m \in 0 + 1 .. Len(s) : s[m][1] # "finished"
        /\ \A j \in 1 .. Len(new) : new[j][1] \in {"tick", "ticked"} => Len(s) = 0
    BY <1>3, <2>1
  <2>. QED
    BY <1>4, <2>2, Zenon DEF StackChange
<1>6. StackFits(t, emptied)
  BY <1>2, <1>5, StackSteps
<1>7. DataFits(t, ts, aa)
  <2>1. Len(ts) \in Nat /\ Len(aa) \in Nat
    BY <1>2, LenProperties DEF TimersFit
  <2>2. Grown(ts, ts) /\ Settled(aa, aa)
    BY <2>1 DEF Grown, Settled
  <2>3. DataFits(new, ts, aa)
    BY <1>1
  <2>4. 0 # 1
    OBVIOUS
  <2>. QED
    BY <1>2, <1>4, <2>2, <2>3, <2>4, NewData
<1>8. HasStep(t, "finished") <=> HasStep(s, "finished") \/ HasStep(new, "finished")
  <2>0. 0 # 1
    OBVIOUS
  <2>1. 0 = 1 => s[1][1] # "finished"
    BY <2>0, Zenon
  <2>2. HasStep(t, "finished") <=> HasStep(s, "finished") \/ \E j \in 1 .. Len(new) : new[j][1] = "finished"
    BY <1>4, <2>1, StepsOf
  <2>. QED
    BY <2>2 DEF HasStep
<1>9. t \in Seq(Steps)
  BY <1>4 DEF Restacked
<1>. QED
  BY <1>1, <1>2, <1>6, <1>7, <1>8, <1>9 DEF DrivenInv

LEMMA StopDriven ==
  ASSUME DrivenInv, Stop, ~nested'
  PROVE  /\ DrivenInv' /\ PageMay /\ ~Owes("stopping") /\ ~Owes("finished")
         /\ \E new, clearQueue, gotoEnd :
              /\ Restacked(steps', new, steps, 0) /\ clearQueue \in BOOLEAN /\ gotoEnd \in BOOLEAN
              /\ IF clearQueue
                 THEN Len(new) = 2 /\ new[1] = <<"dequeue">> /\ new[2] = <<"stop", gotoEnd>> /\ queue' = <<>>
                 ELSE Len(new) = 1 /\ new[1] = <<"stop", gotoEnd>> /\ queue' = queue
              /\ disturbed' = (disturbed \/ (FromACallback /\ ~clearQueue) \/ (DelayPending /\ (clearQueue \/ gotoEnd)))
<1>1. PICK clearQueue \in BOOLEAN, gotoEnd \in BOOLEAN :
        /\ Called((IF clearQueue THEN <<<<"dequeue">>>> ELSE <<>>) \o <<<<"stop", gotoEnd>>>>,
                  Stopping \/ (FromACallback /\ ~clearQueue) \/ (DelayPending /\ (clearQueue \/ gotoEnd)))
        /\ queue' = IF clearQueue THEN <<>> ELSE queue
  BY DEF Stop
<1>2. ~Owes("stopping") /\ ~Owes("finished") /\ ~Stopping /\ UNCHANGED <<timers, animations, ticking, finishing>>
  BY DEF Stop, Stopping
<1>3. PICK x, y : x = <<"stop", gotoEnd>> /\ y = <<"dequeue">>
  OBVIOUS
<1>4. x \in Steps /\ y \in Steps /\ x[1] = "stop" /\ y[1] = "dequeue"
  BY <1>3, Shapes
<1>5. PICK pre : pre = IF clearQueue THEN <<y>> ELSE <<>>
  OBVIOUS
<1>6. PICK new : new = pre \o <<x>>
  OBVIOUS
<1>7. /\ <<x>> \in Seq(Steps) /\ Len(<<x>>) = 1 /\ <<x>>[1] = x
      /\ <<y>> \in Seq(Steps) /\ Len(<<y>>) = 1 /\ <<y>>[1] = y
  BY <1>4, OneStep
<1>8. /\ new \in Seq(Steps)
      /\ clearQueue => Len(new) = 2 /\ new[1] = y /\ new[2] = x
      /\ ~clearQueue => Len(new) = 1 /\ new[1] = x
  <2>1. CASE clearQueue
    <3>1. /\ <<y>> \o <<x>> \in Seq(Steps) /\ Len(<<y>> \o <<x>>) = 1 + 1
          /\ \A i \in 1 .. 1 + 1 : (<<y>> \o <<x>>)[i] = IF i <= 1 THEN <<y>>[i] ELSE <<x>>[i - 1]
      BY <1>7, ConcatProperties
    <3>2. (<<y>> \o <<x>>)[1] = y /\ (<<y>> \o <<x>>)[2] = x
      BY <1>7, <3>1
    <3>3. new = <<y>> \o <<x>>
      BY <1>5, <1>6, <2>1
    <3>. QED
      BY <2>1, <3>1, <3>2, <3>3
  <2>2. CASE ~clearQueue
    <3>1. new = <<x>>
      BY <1>5, <1>6, <1>7, <2>2, ConcatEmptySeq
    <3>. QED
      BY <1>7, <2>2, <3>1
  <2>. QED
    BY <2>1, <2>2
<1>9. PageMay /\ steps' = new \o steps
  BY <1>1, <1>3, <1>5, <1>6 DEF Called
<1>10. Restacked(steps', new, steps, 0)
  BY <1>8, <1>9, Pushed DEF DrivenInv
<1>11. PICK emptied : emptied = (queue' = <<>>)
  OBVIOUS
<1>12. \A k \in 1 .. Len(new) : \/ new[k] = x /\ (k = 1 \/ (k = 2 /\ new[1] = y /\ emptied))
                                \/ new[k] = y
  <2>1. CASE clearQueue
    <3>1. \A k \in 1 .. Len(new) : k = 1 \/ k = 2
      <4>1. Len(new) = 2
        BY <1>8, <2>1
      <4>2. Len(new) = 2 => \A k \in 1 .. Len(new) : k = 1 \/ k = 2
        OBVIOUS
      <4>. QED
        BY <4>1, <4>2
    <3>2. emptied
      BY <1>1, <1>11, <2>1
    <3>. QED
      BY <1>8, <2>1, <3>1, <3>2
  <2>2. CASE ~clearQueue
    <3>1. \A k \in 1 .. Len(new) : k = 1
      <4>1. Len(new) = 1
        BY <1>8, <2>2
      <4>2. Len(new) = 1 => \A k \in 1 .. Len(new) : k = 1
        OBVIOUS
      <4>. QED
        BY <4>1, <4>2
    <3>. QED
      BY <1>8, <2>2, <3>1
  <2>. QED
    BY <2>1, <2>2
<1>13. ASSUME NEW k \in 1 .. Len(new)
       PROVE  /\ LoopAt(new, k) /\ StopAt(new, k, emptied) /\ FinishAt(new, k) /\ DataAt(new, k, timers, animations)
              /\ new[k][1] \notin {"tick", "ticked", "finished"}
  <2>1. PICK step : step = new[k]
    OBVIOUS
  <2>2. /\ step[1] # "tick" /\ step[1] # "ticked" /\ step[1] # "finished" /\ step[1] # "stopping" /\ step[1] # "splice"
        /\ step[1] # "start"
        /\ step[1] = "stop" => k = 1 \/ (k = 2 /\ new[1] = <<"dequeue">> /\ emptied)
    BY <1>3, <1>4, <1>12, <2>1
  <2>3. step[1] \notin {"tick", "ticked"}
    BY <2>2
  <2>. QED
    BY <2>1, <2>2, <2>3, Zenon DEF LoopAt, StopAt, FinishAt, DataAt
<1>14. StackFits(new, emptied) /\ DataFits(new, timers, animations) /\ ~HasStep(new, "finished")
  BY <1>13 DEF StackFits, DataFits, HasStep
<1>16. disturbed' = (disturbed \/ (FromACallback /\ ~clearQueue) \/ (DelayPending /\ (clearQueue \/ gotoEnd)))
  BY <1>1, <1>2 DEF Called
<1>15. DrivenInv'
  <2>1. \A j \in 1 .. Len(new) : new[j][1] \notin {"tick", "ticked"}
    BY <1>13
  <2>2. finishing' <=> finishing \/ HasStep(new, "finished")
    BY <1>2, <1>14
  <2>. QED
    BY <1>2, <1>9, <1>10, <1>11, <1>14, <1>16, <2>1, <2>2, PutOnTop
<1>17. IF clearQueue
       THEN Len(new) = 2 /\ new[1] = <<"dequeue">> /\ new[2] = <<"stop", gotoEnd>> /\ queue' = <<>>
       ELSE Len(new) = 1 /\ new[1] = <<"stop", gotoEnd>> /\ queue' = queue
  BY <1>1, <1>3, <1>8
<1>18. clearQueue \in BOOLEAN /\ gotoEnd \in BOOLEAN
  OBVIOUS
<1>. QED
  BY <1>2, <1>9, <1>10, <1>15, <1>16, <1>17, <1>18, Zenon

LEMMA FinishDriven ==
  ASSUME DrivenInv, EffectTypes, Finish, ~nested'
  PROVE  /\ DrivenInv' /\ PageMay /\ ~Owes("stopping") /\ ~Owes("finished")
         /\ \E new, n :
              /\ Restacked(steps', new, steps, 0) /\ n \in Nat /\ Len(new) = n + 2
              /\ new[1] = <<"stopping", Len(timers), TRUE, FALSE, TRUE>> /\ new[n + 2] = <<"finished">>
              /\ \A j \in 2 .. n + 1 : new[j][1] = "start" /\ new[j][2]
<1>1. /\ PageMay /\ ~Owes("stopping") /\ ~Owes("finished")
      /\ steps' = <<<<"stopping", Len(timers), TRUE, FALSE, TRUE>>>> \o Starts(queue) \o <<<<"finished">>>> \o steps
      /\ finishing' = TRUE /\ queue' = <<>> /\ UNCHANGED <<timers, animations, ticking>> /\ (disturbed => disturbed')
  BY DEF Finish, Called, Stopping
<1>2. PICK x, z, ss, n : /\ x = <<"stopping", Len(timers), TRUE, FALSE, TRUE>> /\ z = <<"finished">>
                         /\ ss = Starts(queue) /\ n = Len(ss)
  OBVIOUS
<1>3. /\ ss \in Seq(Steps) /\ n \in Nat /\ Len(ss) = n
      /\ \A j \in 1 .. n : ss[j][1] = "start" /\ ss[j][2]
  BY <1>2, StartsSteps DEF EffectTypes
<1>4. Len(timers) \in Nat
  BY LenProperties DEF DrivenInv, TimersFit
<1>5. /\ x \in Steps /\ z \in Steps
      /\ x[1] = "stopping" /\ x[2] = Len(timers) /\ x[3] /\ ~x[4] /\ x[5] /\ z[1] = "finished"
  BY <1>2, <1>4, Shapes
<1>6. /\ <<x>> \in Seq(Steps) /\ Len(<<x>>) = 1 /\ <<x>>[1] = x
      /\ <<z>> \in Seq(Steps) /\ Len(<<z>>) = 1 /\ <<z>>[1] = z
  BY <1>5, OneStep
<1>7. PICK xs, new : xs = <<x>> \o ss /\ new = xs \o <<z>>
  OBVIOUS
<1>8. /\ xs \in Seq(Steps) /\ Len(xs) = n + 1 /\ xs[1] = x
      /\ \A j \in 2 .. n + 1 : xs[j] = ss[j - 1] /\ j - 1 \in 1 .. n
  <2>1. /\ xs \in Seq(Steps) /\ Len(xs) = 1 + n
        /\ \A i \in 1 .. 1 + n : xs[i] = IF i <= 1 THEN <<x>>[i] ELSE ss[i - 1]
    BY <1>3, <1>6, <1>7, ConcatProperties
  <2>. QED
    BY <1>3, <1>6, <2>1
<1>9. /\ new \in Seq(Steps) /\ Len(new) = n + 2 /\ new[1] = x /\ new[n + 2] = z
      /\ \A j \in 2 .. n + 1 : new[j][1] = "start" /\ new[j][2]
  <2>1. /\ new \in Seq(Steps) /\ Len(new) = (n + 1) + 1
        /\ \A i \in 1 .. (n + 1) + 1 : new[i] = IF i <= n + 1 THEN xs[i] ELSE <<z>>[i - (n + 1)]
    BY <1>6, <1>7, <1>8, ConcatProperties
  <2>2. \A j \in 1 .. n + 1 : new[j] = xs[j]
    BY <1>3, <2>1
  <2>3. new[n + 2] = z /\ Len(new) = n + 2
    BY <1>3, <1>6, <2>1
  <2>4. \A j \in 2 .. n + 1 : new[j] = ss[j - 1] /\ j - 1 \in 1 .. n
    BY <1>3, <1>8, <2>2
  <2>5. new[1] = x
    BY <1>3, <1>8, <2>2
  <2>. QED
    BY <1>3, <2>1, <2>3, <2>4, <2>5
<1>10. \A j \in 1 .. Len(new) : \/ j = 1 /\ new[j] = x
                                \/ j \in 2 .. n + 1 /\ new[j][1] = "start" /\ new[j][2]
                                \/ j = n + 2 /\ new[j] = z
  BY <1>3, <1>9
<1>11. Restacked(steps', new, steps, 0)
  <2>1. steps' = new \o steps
    <3>1. PICK zs : zs = <<z>> \o steps
      OBVIOUS
    <3>2. steps' = <<x>> \o ss \o <<z>> \o steps
      BY <1>1, <1>2
    <3>. QED
      BY <1>7, <3>2
  <2>. QED
    BY <1>9, <2>1, Pushed DEF DrivenInv
<1>12. PICK emptied : emptied = (queue' = <<>>)
  OBVIOUS
<1>13. ASSUME NEW k \in 1 .. Len(new)
       PROVE  /\ LoopAt(new, k) /\ StopAt(new, k, emptied) /\ FinishAt(new, k) /\ DataAt(new, k, timers, animations)
              /\ new[k][1] \notin {"tick", "ticked"}
  <2>1. CASE k = 1 /\ new[k] = x
    <3>1. /\ new[k][1] = "stopping" /\ new[k][2] = Len(timers) /\ new[k][3] /\ ~new[k][4] /\ new[k][5]
          /\ new[k][2] <= Len(timers)
      BY <1>4, <1>5, <2>1
    <3>2. \A j \in 1 .. k - 1 : FALSE
      BY <2>1
    <3>. QED
      BY <3>1, <3>2 DEF LoopAt, StopAt, FinishAt, DataAt
  <2>2. CASE k \in 2 .. n + 1 /\ new[k][1] = "start" /\ new[k][2]
    <3>1. n + 2 \in k + 1 .. Len(new) /\ new[n + 2][1] = "finished"
      BY <1>3, <1>5, <1>9, <2>2
    <3>2. \E m \in k + 1 .. Len(new) : new[m][1] = "finished"
      BY <3>1
    <3>. QED
      BY <2>2, <3>2 DEF LoopAt, StopAt, FinishAt, DataAt
  <2>3. CASE k = n + 2 /\ new[k] = z
    <3>1. ASSUME NEW j \in 1 .. k - 1
          PROVE  /\ new[j][1] \in Brief \cup {"splice", "stopping"}
                 /\ new[j][1] = "stopping" => new[j][5]
                 /\ ~CallsPage(new[j])
      <4>1. j \in 1 .. Len(new) /\ j # n + 2
        BY <1>3, <1>9, <2>3
      <4>2. \/ new[j] = x
            \/ new[j][1] = "start" /\ new[j][2]
        BY <1>10, <4>1
      <4>. QED
        BY <1>5, <4>2 DEF Brief, CallsPage, IsUnqueuedStart
    <3>2. new[k][1] = "finished"
      BY <1>5, <2>3
    <3>. QED
      BY <3>1, <3>2 DEF LoopAt, StopAt, FinishAt, DataAt
  <2>. QED
    BY <1>10, <2>1, <2>2, <2>3
<1>14. StackFits(new, emptied) /\ DataFits(new, timers, animations)
  BY <1>13 DEF StackFits, DataFits
<1>15. HasStep(new, "finished")
  <2>1. n + 2 \in 1 .. Len(new)
    BY <1>3, <1>9
  <2>. QED
    BY <1>5, <1>9, <2>1 DEF HasStep
<1>16. DrivenInv'
  <2>1. \A j \in 1 .. Len(new) : new[j][1] \notin {"tick", "ticked"}
    BY <1>13
  <2>2. finishing' <=> finishing \/ HasStep(new, "finished")
    BY <1>1, <1>15
  <2>. QED
    BY <1>1, <1>11, <1>12, <1>14, <2>1, <2>2, PutOnTop
<1>. QED
  BY <1>1, <1>2, <1>3, <1>9, <1>11, <1>16, Zenon

(* The types are kept by every step. *)
LEMMA EmptyFiresTypes ==
  ASSUME EffectTypes, NEW h \in [there : BOOLEAN, stop : Nat, unqueued : Int], EmptyFires(h)
  PROVE  /\ queue' \in Seq(Items) /\ hooks' \in [there : BOOLEAN, stop : Nat, unqueued : Int]
         /\ promise' \in {"none", "pending", "resolved"}
<1>1. /\ queue' = <<>> /\ (hooks' = h \/ hooks' = NoHooks)
      /\ promise' = promise \/ promise' = "resolved"
  BY DEF EmptyFires
<1>2. NoHooks \in [there : BOOLEAN, stop : Nat, unqueued : Int] /\ <<>> \in Seq(Items)
  BY DEF NoHooks
<1>3. promise \in {"none", "pending", "resolved"}
  BY DEF EffectTypes
<1>. QED
  BY <1>1, <1>2, <1>3

LEMMA EffectTypesStep ==
  ASSUME EffectTypes, DrivenInv, [EffectsNext]_effectVars
  PROVE  EffectTypes'
<1>. DEFINE Hooks == [there : BOOLEAN, stop : Nat, unqueued : Int]
<1>1. hooks \in Hooks /\ queue \in Seq(Items) /\ effects \in Nat /\ delays \subseteq Nat /\ ticking \in BOOLEAN
      /\ finishing \in BOOLEAN /\ nested \in BOOLEAN /\ disturbed \in BOOLEAN /\ promise \in {"none", "pending", "resolved"}
  BY DEF EffectTypes
<1>2. CASE Dequeue
  <2>1. PICK rest : rest = IF queue # <<>> /\ Head(queue) = Sentinel THEN Tail(queue) ELSE queue
    OBVIOUS
  <2>2. rest \in Seq(Items)
    BY <1>1, <2>1, HeadTailProperties
  <2>3. PICK present : present = [hooks EXCEPT !.there = TRUE]
    OBVIOUS
  <2>4. present \in Hooks
    BY <1>1, <2>3
  <2>5. UNCHANGED <<ticking, finishing, effects, nested, disturbed>>
    BY <1>2 DEF Dequeue
  <2>6. CASE rest = <<>>
    <3>1. EmptyFires(present) /\ UNCHANGED delays
      BY <1>2, <2>1, <2>3, <2>6 DEF Dequeue
    <3>2. queue' \in Seq(Items) /\ hooks' \in Hooks /\ promise' \in {"none", "pending", "resolved"}
      BY <2>4, <3>1, EmptyFiresTypes
    <3>. QED
      BY <1>1, <2>5, <3>1, <3>2 DEF EffectTypes
  <2>7. CASE rest # <<>>
    <3>1. PICK item : item = Head(rest)
      OBVIOUS
    <3>2. item \in Items /\ Tail(rest) \in Seq(Items)
      BY <2>2, <2>7, <3>1, HeadTailProperties
    <3>3. /\ queue' = <<Sentinel>> \o Tail(rest) /\ UNCHANGED promise
          /\ hooks' = [present EXCEPT !.stop = IF item.kind = "delay" THEN item.id ELSE 0]
          /\ delays' = IF item.kind = "delay" THEN delays \cup {item.id} ELSE delays
      BY <1>2, <2>1, <2>3, <2>7, <3>1 DEF Dequeue
    <3>4. item.id \in Nat
      BY <3>2 DEF Items
    <3>5. PICK sentinels, tail : sentinels = <<Sentinel>> /\ tail = Tail(rest)
      OBVIOUS
    <3>6. sentinels \in Seq(Items) /\ tail \in Seq(Items)
      BY <3>2, <3>5 DEF Sentinel, Items
    <3>7. queue' \in Seq(Items)
      BY <3>3, <3>5, <3>6, ConcatProperties
    <3>8. hooks' \in Hooks
      <4>1. PICK id : id = IF item.kind = "delay" THEN item.id ELSE 0
        OBVIOUS
      <4>2. id \in Nat /\ hooks' = [present EXCEPT !.stop = id]
        BY <3>3, <3>4, <4>1
      <4>. QED
        BY <2>4, <4>2
    <3>9. delays' \subseteq Nat
      BY <1>1, <3>3, <3>4
    <3>. QED
      BY <1>1, <2>5, <3>3, <3>7, <3>8, <3>9 DEF EffectTypes
  <2>. QED
    BY <2>6, <2>7
<1>3. CASE StartAnimation
  <2>1. hooks' \in Hooks
    <3>1. hooks' = hooks \/ hooks' = [hooks EXCEPT !.there = TRUE, !.unqueued = @ + 1]
      BY <1>3 DEF StartAnimation
    <3>2. PICK u : u = hooks.unqueued + 1
      OBVIOUS
    <3>3. hooks.unqueued \in Int /\ u \in Int
      BY <1>1, <3>2
    <3>4. hooks' = hooks \/ hooks' = [hooks EXCEPT !.there = TRUE, !.unqueued = u]
      BY <3>1, <3>2
    <3>5. [hooks EXCEPT !.there = TRUE, !.unqueued = u] \in Hooks
      BY <1>1, <3>3
    <3>. HIDE DEF Hooks
    <3>. QED
      BY <1>1, <3>4, <3>5
  <2>2. /\ ticking' = (ticking \/ ~Head(steps)[3])
        /\ UNCHANGED <<queue, promise, delays, finishing, effects, nested, disturbed>>
    BY <1>3 DEF StartAnimation
  <2>3. ticking' \in BOOLEAN
    BY <2>2
  <2>. QED
    BY <1>1, <2>1, <2>2, <2>3 DEF EffectTypes
<1>4. CASE Uncount
  <2>1. PICK counted : counted = [hooks EXCEPT !.unqueued = @ - 1]
    OBVIOUS
  <2>2. counted \in Hooks
    BY <1>1, <2>1
  <2>3. IF queue = <<>> THEN EmptyFires(counted) ELSE hooks' = counted /\ UNCHANGED <<queue, promise>>
    BY <1>4, <2>1 DEF Uncount
  <2>4. UNCHANGED <<ticking, delays, finishing, effects, nested, disturbed>>
    BY <1>4 DEF Uncount
  <2>5. queue' \in Seq(Items) /\ hooks' \in Hooks /\ promise' \in {"none", "pending", "resolved"}
    BY <1>1, <2>2, <2>3, EmptyFiresTypes
  <2>. QED
    BY <1>1, <2>4, <2>5 DEF EffectTypes
<1>5. CASE CallbackDone \/ Ticked \/ StopTimers \/ Splice
  BY <1>1, <1>5 DEF CallbackDone, Ticked, StopTimers, Splice, EffectTypes
<1>6. CASE Tick
  <2>1. UNCHANGED <<queue, hooks, promise, delays, finishing, effects, nested, disturbed>>
    BY <1>6 DEF Tick
  <2>2. ticking' = ticking \/ ticking' = (timers # <<>> /\ ticking)
    BY <1>6 DEF Tick
  <2>3. ticking' \in BOOLEAN
    BY <1>1, <2>2
  <2>. QED
    BY <1>1, <2>1, <2>3 DEF EffectTypes
<1>7. CASE StopDelay
  <2>1. delays' \subseteq delays /\ hooks' = [hooks EXCEPT !.stop = 0]
        /\ UNCHANGED <<queue, promise, ticking, finishing, effects, nested, disturbed>>
    BY <1>7 DEF StopDelay
  <2>2. hooks' \in Hooks
    BY <1>1, <2>1
  <2>. QED
    BY <1>1, <2>1, <2>2 DEF EffectTypes
<1>8. CASE FinishEnds
  BY <1>1, <1>8 DEF FinishEnds, EffectTypes
<1>9. ASSUME NEW item \in Items, Enqueue(item) PROVE EffectTypes'
  <2>1. effects' = effects + 1 /\ disturbed' \in BOOLEAN /\ nested' \in BOOLEAN
    BY <1>1, <1>9 DEF Enqueue, Called
  <2>2. queue' \in Seq(Items)
    BY <1>1, <1>9, AppendProperties DEF Enqueue
  <2>3. hooks' \in Hooks
    BY <1>1, <1>9 DEF Enqueue
  <2>4. UNCHANGED <<promise, ticking, delays, finishing>>
    BY <1>9 DEF Enqueue
  <2>. QED
    BY <1>1, <2>1, <2>2, <2>3, <2>4 DEF EffectTypes
<1>10. CASE Animate \/ Delay
  <2>1. /\ \A instant \in BOOLEAN : [kind |-> "animation", id |-> 0, instant |-> instant] \in Items
        /\ \A id \in Nat : [kind |-> "delay", id |-> id, instant |-> FALSE] \in Items
    BY DEF Items
  <2>2. effects + 1 \in Nat
    BY <1>1
  <2>3. \E item \in Items : Enqueue(item)
    BY <1>10, <2>1, <2>2, Zenon DEF Animate, Delay
  <2>. QED
    BY <1>9, <2>3
<1>11. CASE AnimateUnqueued \/ ClearQueue \/ Stop \/ Finish \/ GetPromise
  <2>1. effects' = effects + 1 /\ disturbed' \in BOOLEAN /\ nested' \in BOOLEAN
    BY <1>1, <1>11 DEF AnimateUnqueued, ClearQueue, Stop, Finish, GetPromise, Called
  <2>2. hooks' = hooks /\ ticking' = ticking
    BY <1>11 DEF AnimateUnqueued, ClearQueue, Stop, Finish, GetPromise
  <2>3. queue' = queue \/ queue' = <<>>
    BY <1>11 DEF AnimateUnqueued, ClearQueue, Stop, Finish, GetPromise
  <2>4. promise' = promise \/ promise' \in {"pending", "resolved"}
    BY <1>11 DEF AnimateUnqueued, ClearQueue, Stop, Finish, GetPromise
  <2>5. delays' \subseteq delays /\ finishing' \in BOOLEAN
    BY <1>1, <1>11 DEF AnimateUnqueued, ClearQueue, Stop, Finish, GetPromise
  <2>6. queue' \in Seq(Items) /\ effects' \in Nat /\ delays' \subseteq Nat
    <3>1. <<>> \in Seq(Items)
      OBVIOUS
    <3>2. queue' \in Seq(Items)
      BY <1>1, <2>3, <3>1
    <3>. QED
      BY <1>1, <2>1, <2>5, <3>2
  <2>7. promise' \in {"none", "pending", "resolved"}
    BY <1>1, <2>4
  <2>. QED
    BY <1>1, <2>1, <2>2, <2>5, <2>6, <2>7 DEF EffectTypes
<1>12. CASE IntervalElapses \/ TimeoutElapses
  BY <1>1, <1>12 DEF IntervalElapses, TimeoutElapses, EffectTypes
<1>13. CASE UNCHANGED effectVars
  BY <1>1, <1>13 DEF effectVars, EffectTypes
<1>14. CASE CompleteThrows \/ NoTimerToStop
  BY <1>1, <1>14 DEF CompleteThrows, NoTimerToStop, ScriptEnds, EffectTypes
<1>. QED
  BY <1>2, <1>3, <1>4, <1>5, <1>6, <1>7, <1>8, <1>10, <1>11, <1>12, <1>13, <1>14 DEF EffectsNext

(* An exception takes all the steps away. *)
LEMMA ThrowDriven ==
  ASSUME DrivenInv, CompleteThrows \/ NoTimerToStop
  PROVE  DrivenInv' /\ steps' = <<>> /\ disturbed'
<1>1. steps' = <<>> /\ disturbed' /\ UNCHANGED <<timers, animations, ticking>>
  BY DEF CompleteThrows, NoTimerToStop, ScriptEnds
<1>2. <<>> \in Seq(Steps) /\ 1 .. Len(<<>>) = {}
  BY NoStep
<1>3. TimersFit(timers', animations') /\ (timers' # <<>> => ticking')
  BY <1>1 DEF DrivenInv
<1>4. StackFits(steps', queue' = <<>>) /\ DataFits(steps', timers', animations')
  BY <1>1, <1>2 DEF StackFits, DataFits
<1>. QED
  BY <1>1, <1>2, <1>3, <1>4 DEF DrivenInv

LEMMA DrivenStep ==
  ASSUME EffectTypes, DrivenInv, [EffectsNext]_effectVars, ~nested'
  PROVE  DrivenInv'
<1>1. CASE UNCHANGED effectVars
  BY <1>1 DEF effectVars, DrivenInv
<1>5. CASE CompleteThrows \/ NoTimerToStop
  BY <1>5, ThrowDriven
<1>2. CASE Dequeue \/ StartAnimation \/ Uncount \/ CallbackDone \/ Tick \/ Ticked \/ StopTimers \/ Splice
  BY <1>2, DequeueDriven, StartDriven, UncountDriven, TickDriven, TickedDriven, StopTimersDriven, SpliceDriven
<1>3. CASE StopDelay \/ FinishEnds \/ AnimateUnqueued \/ ClearQueue \/ Stop \/ Finish \/ GetPromise
  BY <1>3, StopDelayDriven, EndDriven, UnqueuedDriven, DequeuesDriven, StopDriven, FinishDriven, PromiseDriven
<1>4. CASE Animate \/ Delay \/ IntervalElapses \/ TimeoutElapses
  BY <1>4, EnqueueDriven, TickedDriven, DequeuesDriven DEF Animate, Delay
<1>. QED
  BY <1>1, <1>2, <1>3, <1>4, <1>5 DEF EffectsNext

(* Once a callback of stop or finish has stopped or finished, nothing more  *)
(* is claimed.                                                             *)
LEMMA NestedStays ==
  ASSUME [EffectsNext]_effectVars, nested
  PROVE  nested'
BY DEF EffectsNext, effectVars, Dequeue, StartAnimation, Uncount, CallbackDone, CompleteThrows, ScriptEnds, Tick, Ticked,
       StopTimers, NoTimerToStop, Splice, StopDelay, FinishEnds, Animate, AnimateUnqueued, Delay, Enqueue, ClearQueue,
       Stop, Finish, GetPromise, IntervalElapses, TimeoutElapses

LEMMA DrivenStarts ==
  ASSUME EffectsInit
  PROVE  EffectTypes /\ DrivenInv
<1>1. EffectTypes
  <2>1. NoHooks \in [there : BOOLEAN, stop : Nat, unqueued : Int] /\ <<>> \in Seq(Items) /\ {} \subseteq Nat
    BY DEF NoHooks
  <2>. QED
    BY <2>1 DEF EffectsInit, EffectTypes
<1>2. /\ steps = <<>> /\ timers = <<>> /\ animations = <<>> /\ finishing = FALSE
      /\ <<>> \in Seq(Steps) /\ <<>> \in Seq(Nat) /\ <<>> \in Seq(Animated) /\ Len(<<>>) = 0
      /\ \A i \in 1 .. 0 : FALSE
  BY DEF EffectsInit
<1>3. DrivenInv
  BY <1>2 DEF DrivenInv, TimersFit, StackFits, DataFits, HasStep
<1>. QED
  BY <1>1, <1>3

(* Each running animation keeps its timer whatever callbacks start and stop *)
(* while jQuery.timers is gone through, and also when one throws            *)
(* (jquery-1.10.1.js:9507-9545); until a callback that stop or finish is   *)
(* calling calls one of them itself.                                       *)
THEOREM EffectsKeepDriving == EffectsSpec => []AnimationsAreDriven
<1>. DEFINE Driven == nested \/ (EffectTypes /\ DrivenInv)
<1>1. EffectsInit => Driven
  BY DrivenStarts
<1>2. Driven /\ [EffectsNext]_effectVars => Driven'
  BY EffectTypesStep, DrivenStep, NestedStays
<1>3. Driven => AnimationsAreDriven
  BY LenProperties DEF DrivenInv, TimersFit, AnimationsAreDriven, IsRunning
<1>. QED
  BY <1>1, <1>2, <1>3, PTL DEF EffectsSpec

(***************************************************************************)
(* The queue of an element nobody disturbs                                 *)
(***************************************************************************)
(* A token is a step that starts the next of the queue. *)
IsToken(step) == step[1] = "dequeue" \/ (step[1] = "start" /\ step[2])
IsSpecial(step) == IsToken(step) \/ TakesOver(step)
Reaches(step, ts, a) == \E i \in 1 .. Len(ts) : i <= step[2] /\ ts[i] = a
Stopper(step, ts, a) == step[1] = "stop" \/ (step[1] = "stopping" /\ Reaches(step, ts, a))
Running(aa) == {a \in 1 .. Len(aa) : aa[a].state = "running" /\ aa[a].queued}

(* Nothing is queued: what still runs is about to be stopped. *)
EmptyFits(s, ts, prog, dl, fin) ==
  /\ dl = {}
  /\ \A a \in prog : \E k \in 1 .. Len(s) : Stopper(s[k], ts, a)
  /\ \A k \in 1 .. Len(s) : s[k][1] = "start" /\ s[k][2] => fin

(* Something is queued: exactly one animation or delay is in progress, or   *)
(* one step will start the next.                                           *)
QueueFits(q, s) ==
  /\ q \in Seq(Items) /\ q # <<>>
  /\ q[1] = Sentinel \/ (q[1].kind # "inprogress" /\ s # <<>> /\ s[1][1] = "dequeue")
  /\ \A i \in 2 .. Len(q) : q[i].kind # "inprogress"
OneFits(s, ts, prog, dl, stop, fin) ==
  /\ ~fin
  /\ \A j, k \in 1 .. Len(s) : IsToken(s[j]) /\ IsToken(s[k]) => j = k
  /\ \A j, k \in 1 .. Len(s) : IsToken(s[j]) => prog = {} /\ dl = {} /\ ~TakesOver(s[k])
  /\ prog # {} => dl = {}
  /\ \A a, b \in prog : a = b
  /\ dl \subseteq {stop}
  /\ prog = {} /\ dl = {} => \E k \in 1 .. Len(s) : IsToken(s[k]) \/ (s[k][1] = "stopping" /\ ~s[k][3])
  /\ \A k \in 1 .. Len(s) : s[k][1] = "stop" /\ s[k][2] => dl = {}
  /\ \A k \in 1 .. Len(s) : s[k][1] = "stopping" /\ (s[k][4] \/ ~s[k][3]) =>
       dl = {} /\ \A a \in prog : Reaches(s[k], ts, a)
QueueInv ==
  ~disturbed => IF queue = <<>> THEN EmptyFits(steps, timers, Running(animations), delays, finishing)
                ELSE /\ QueueFits(queue, steps)
                     /\ OneFits(steps, timers, Running(animations), delays, hooks.stop, finishing)

(* Nothing special is among the steps of a stack, apart from some. *)
LEMMA EmptyMoved ==
  ASSUME NEW t, NEW new, NEW s, NEW c, Restacked(t, new, s, c), NEW ts, NEW prog, NEW fin,
         \A a \in prog : \/ \E j \in 1 .. Len(new) : Stopper(new[j], ts, a)
                         \/ \E m \in c + 1 .. Len(s) : Stopper(s[m], ts, a),
         \A j \in 1 .. Len(new) : new[j][1] = "start" /\ new[j][2] => fin,
         \A m \in c + 1 .. Len(s) : s[m][1] = "start" /\ s[m][2] => fin
  PROVE  EmptyFits(t, ts, prog, {}, fin)
<1>1. ASSUME NEW a \in prog PROVE \E k \in 1 .. Len(t) : Stopper(t[k], ts, a)
  <2>1. CASE \E j \in 1 .. Len(new) : Stopper(new[j], ts, a)
    <3>1. PICK j \in 1 .. Len(new) : Stopper(new[j], ts, a)
      BY <2>1
    <3>2. j \in 1 .. Len(t) /\ t[j] = new[j]
      BY PlacesOf DEF Restacked
    <3>. QED
      BY <3>1, <3>2
  <2>2. CASE \E m \in c + 1 .. Len(s) : Stopper(s[m], ts, a)
    <3>1. PICK m \in c + 1 .. Len(s) : Stopper(s[m], ts, a)
      BY <2>2
    <3>2. PICK k : k = m + (Len(new) - c)
      OBVIOUS
    <3>3. k \in 1 .. Len(t) /\ t[k] = s[m]
      BY <3>2, PlacesOf DEF Restacked
    <3>. QED
      BY <3>1, <3>3
  <2>. QED
    BY <1>1, <2>1, <2>2
<1>2. ASSUME NEW k \in 1 .. Len(t), t[k][1] = "start", t[k][2] PROVE fin
  <2>1. \/ k \in 1 .. Len(new) /\ t[k] = new[k]
        \/ \E m \in c + 1 .. Len(s) : t[k] = s[m]
    BY PlacesOf
  <2>. QED
    BY <1>2, <2>1
<1>. QED
  BY <1>1, <1>2 DEF EmptyFits

(* The steps that stay keep what is said of them. *)
EmptyStays(t, new, s, c, ts, uu) ==
  /\ Restacked(t, new, s, c)
  /\ \A j \in 1 .. Len(new) : ~(new[j][1] = "start" /\ new[j][2])
  /\ c = 1 => s[1][1] # "stop" /\ s[1][1] # "stopping"
  /\ \A m \in c + 1 .. Len(s) : \A a : s[m][1] = "stopping" /\ Reaches(s[m], ts, a) => Reaches(s[m], uu, a)

LEMMA EmptyKept ==
  ASSUME NEW t, NEW new, NEW s, NEW c, NEW ts, NEW uu, EmptyStays(t, new, s, c, ts, uu),
         NEW prog, NEW dl, NEW fin, EmptyFits(s, ts, prog, dl, fin)
  PROVE  EmptyFits(t, uu, prog, dl, fin)
<1>1. /\ Restacked(t, new, s, c) /\ Len(s) \in Nat /\ c \in {0, 1} /\ c <= Len(s)
      /\ \A j \in 1 .. Len(new) : ~(new[j][1] = "start" /\ new[j][2])
      /\ c = 1 => s[1][1] # "stop" /\ s[1][1] # "stopping"
      /\ \A m \in c + 1 .. Len(s) : \A a : s[m][1] = "stopping" /\ Reaches(s[m], ts, a) => Reaches(s[m], uu, a)
  BY PlacesOf DEF EmptyStays, Restacked
<1>2. \A m \in 1 .. Len(s) : m \in c + 1 .. Len(s) \/ (c = 1 /\ m = 1)
  BY <1>1
<1>3. \A m \in c + 1 .. Len(s) : m \in 1 .. Len(s)
  BY <1>1
<1>4. ASSUME NEW a \in prog PROVE \E m \in c + 1 .. Len(s) : Stopper(s[m], uu, a)
  <2>1. PICK m \in 1 .. Len(s) : Stopper(s[m], ts, a)
    BY DEF EmptyFits
  <2>2. s[m][1] = "stop" \/ (s[m][1] = "stopping" /\ Reaches(s[m], ts, a))
    BY <2>1 DEF Stopper
  <2>3. m \in c + 1 .. Len(s)
    BY <1>1, <1>2, <2>2
  <2>. QED
    BY <1>1, <2>2, <2>3 DEF Stopper
<1>5. \A m \in c + 1 .. Len(s) : s[m][1] = "start" /\ s[m][2] => fin
  BY <1>3 DEF EmptyFits
<1>6. \A j \in 1 .. Len(new) : new[j][1] = "start" /\ new[j][2] => fin
  BY <1>1
<1>7. EmptyFits(t, uu, prog, {}, fin)
  BY <1>1, <1>4, <1>5, <1>6, EmptyMoved
<1>. QED
  BY <1>7 DEF EmptyFits

(* The special steps of t are those of s, so much further. *)
Carried(t, uu, s, ts, prog, d) ==
  /\ \A k \in 1 .. Len(t) : IsToken(t[k]) => k - d \in 1 .. Len(s) /\ IsToken(s[k - d])
  /\ \A k \in 1 .. Len(t) : t[k][1] = "stop" => \E m \in 1 .. Len(s) : s[m] = t[k]
  /\ \A k \in 1 .. Len(t) : t[k][1] = "stopping" /\ (t[k][4] \/ ~t[k][3]) =>
       \E m \in 1 .. Len(s) : /\ s[m][1] = "stopping" /\ (s[m][4] \/ ~s[m][3])
                              /\ \A a \in prog : Reaches(s[m], ts, a) => Reaches(t[k], uu, a)
  /\ (\E m \in 1 .. Len(s) : IsToken(s[m]) \/ (s[m][1] = "stopping" /\ ~s[m][3])) =>
       \E k \in 1 .. Len(t) : IsToken(t[k]) \/ (t[k][1] = "stopping" /\ ~t[k][3])

LEMMA OneKept ==
  ASSUME NEW s, NEW ts, NEW prog, NEW dl, NEW stop, NEW fin, OneFits(s, ts, prog, dl, stop, fin),
         NEW t, NEW uu, NEW d \in Int, Carried(t, uu, s, ts, prog, d), Len(t) \in Nat
  PROVE  OneFits(t, uu, prog, dl, stop, fin)
<1>1. \A k \in 1 .. Len(t) : IsToken(t[k]) => k - d \in 1 .. Len(s) /\ IsToken(s[k - d])
  BY DEF Carried
<1>2. ASSUME NEW j \in 1 .. Len(t), NEW k \in 1 .. Len(t), IsToken(t[j]), IsToken(t[k]) PROVE j = k
  <2>1. j - d \in 1 .. Len(s) /\ IsToken(s[j - d]) /\ k - d \in 1 .. Len(s) /\ IsToken(s[k - d])
    BY <1>1, <1>2
  <2>2. PICK x, y : x = j - d /\ y = k - d
    OBVIOUS
  <2>3. x = y
    BY <2>1, <2>2, Zenon DEF OneFits
  <2>. QED
    BY <2>2, <2>3
<1>3. ASSUME NEW j \in 1 .. Len(t), NEW k \in 1 .. Len(t), IsToken(t[j])
      PROVE  prog = {} /\ dl = {} /\ ~TakesOver(t[k])
  <2>1. PICK x : x = j - d
    OBVIOUS
  <2>2. x \in 1 .. Len(s) /\ IsToken(s[x])
    BY <1>1, <1>3, <2>1
  <2>3. prog = {} /\ dl = {} /\ \A m \in 1 .. Len(s) : ~TakesOver(s[m])
    BY <2>2, Zenon DEF OneFits
  <2>4. ASSUME TakesOver(t[k]) PROVE \E m \in 1 .. Len(s) : TakesOver(s[m])
    <3>1. CASE t[k][1] = "stop"
      BY <3>1, Zenon DEF Carried, TakesOver
    <3>2. CASE t[k][1] = "stopping" /\ (t[k][4] \/ ~t[k][3])
      BY <3>2, Zenon DEF Carried, TakesOver
    <3>. QED
      BY <2>4, <3>1, <3>2, Zenon DEF TakesOver
  <2>. QED
    BY <2>3, <2>4
<1>4. ASSUME prog = {}, dl = {}
      PROVE  \E k \in 1 .. Len(t) : IsToken(t[k]) \/ (t[k][1] = "stopping" /\ ~t[k][3])
  BY <1>4, Zenon DEF OneFits, Carried
<1>5. ASSUME NEW k \in 1 .. Len(t), t[k][1] = "stop", t[k][2] PROVE dl = {}
  <2>1. PICK m \in 1 .. Len(s) : s[m] = t[k]
    BY <1>5, Zenon DEF Carried
  <2>. QED
    BY <1>5, <2>1, Zenon DEF OneFits
<1>6. ASSUME NEW k \in 1 .. Len(t), t[k][1] = "stopping", t[k][4] \/ ~t[k][3]
      PROVE  dl = {} /\ \A a \in prog : Reaches(t[k], uu, a)
  <2>1. PICK m \in 1 .. Len(s) : /\ s[m][1] = "stopping" /\ (s[m][4] \/ ~s[m][3])
                                 /\ \A a \in prog : Reaches(s[m], ts, a) => Reaches(t[k], uu, a)
    BY <1>6, Zenon DEF Carried
  <2>. QED
    BY <2>1, Zenon DEF OneFits
<1>7. ~fin /\ (prog # {} => dl = {}) /\ (\A a, b \in prog : a = b) /\ dl \subseteq {stop}
  BY DEF OneFits
<1>. QED
  BY <1>2, <1>3, <1>4, <1>5, <1>6, <1>7, Zenon DEF OneFits

(* Nothing special is put on the stack or taken from it. *)
OneStays(t, new, s, c, ts, uu) ==
  /\ Restacked(t, new, s, c)
  /\ \A j \in 1 .. Len(new) : ~IsSpecial(new[j])
  /\ c = 1 => ~IsToken(s[1]) /\ ~(s[1][1] = "stopping" /\ ~s[1][3])
  /\ \A m \in c + 1 .. Len(s) : \A a : s[m][1] = "stopping" /\ Reaches(s[m], ts, a) => Reaches(s[m], uu, a)

LEMMA OneCarried ==
  ASSUME NEW t, NEW new, NEW s, NEW c, NEW ts, NEW uu, OneStays(t, new, s, c, ts, uu), NEW prog
  PROVE  Carried(t, uu, s, ts, prog, Len(new) - c) /\ Len(t) \in Nat /\ Len(new) - c \in Int
<1>1. PICK d : d = Len(new) - c
  OBVIOUS
<1>2. /\ Len(s) \in Nat /\ Len(t) \in Nat /\ Len(new) \in Nat /\ c \in {0, 1} /\ c <= Len(s) /\ d \in Int
      /\ \A k \in 1 .. Len(t) : \/ k \in 1 .. Len(new) /\ t[k] = new[k]
                                \/ \E m \in c + 1 .. Len(s) : k = m + d /\ t[k] = s[m]
      /\ \A m \in c + 1 .. Len(s) : m + d \in 1 .. Len(t) /\ t[m + d] = s[m]
  <2>1. Restacked(t, new, s, c)
    BY DEF OneStays
  <2>2. /\ Len(s) \in Nat /\ Len(t) \in Nat /\ Len(new) \in Nat
        /\ \A k \in 1 .. Len(t) : \/ k \in 1 .. Len(new) /\ t[k] = new[k]
                                  \/ \E m \in c + 1 .. Len(s) : k = m + (Len(new) - c) /\ t[k] = s[m]
        /\ \A m \in c + 1 .. Len(s) : m + (Len(new) - c) \in 1 .. Len(t)
    BY <2>1, PlacesOf
  <2>3. c \in {0, 1} /\ c <= Len(s) /\ \A m \in c + 1 .. Len(s) : t[m + (Len(new) - c)] = s[m]
    BY <2>1 DEF Restacked
  <2>4. d \in Int
    BY <1>1, <2>2, <2>3
  <2>. QED
    BY <1>1, <2>2, <2>3, <2>4
<1>0. /\ \A j \in 1 .. Len(new) : ~IsSpecial(new[j])
      /\ c = 1 => ~IsToken(s[1]) /\ ~(s[1][1] = "stopping" /\ ~s[1][3])
      /\ \A m \in c + 1 .. Len(s) : \A a : s[m][1] = "stopping" /\ Reaches(s[m], ts, a) => Reaches(s[m], uu, a)
  BY DEF OneStays
<1>3. \A m \in c + 1 .. Len(s) : m \in 1 .. Len(s) /\ m + d - d = m
  BY <1>2
<1>4. ASSUME NEW k \in 1 .. Len(t), IsSpecial(t[k])
      PROVE  \E m \in c + 1 .. Len(s) : m \in 1 .. Len(s) /\ k - d = m /\ t[k] = s[m]
  BY <1>0, <1>2, <1>3, <1>4
<1>5. ASSUME NEW k \in 1 .. Len(t), IsToken(t[k]) PROVE k - d \in 1 .. Len(s) /\ IsToken(s[k - d])
  BY <1>4, <1>5 DEF IsSpecial
<1>6. ASSUME NEW k \in 1 .. Len(t), t[k][1] = "stop" PROVE \E m \in 1 .. Len(s) : s[m] = t[k]
  BY <1>4, <1>6 DEF IsSpecial, TakesOver
<1>7. ASSUME NEW k \in 1 .. Len(t), t[k][1] = "stopping", t[k][4] \/ ~t[k][3]
      PROVE  \E m \in 1 .. Len(s) : /\ s[m][1] = "stopping" /\ (s[m][4] \/ ~s[m][3])
                                    /\ \A a \in prog : Reaches(s[m], ts, a) => Reaches(t[k], uu, a)
  <2>1. PICK m \in c + 1 .. Len(s) : m \in 1 .. Len(s) /\ t[k] = s[m]
    BY <1>4, <1>7 DEF IsSpecial, TakesOver
  <2>2. \A a \in prog : Reaches(s[m], ts, a) => Reaches(t[k], uu, a)
    BY <1>0, <1>7, <2>1, Zenon
  <2>. QED
    BY <1>7, <2>1, <2>2
<1>8. ASSUME NEW m \in 1 .. Len(s), IsToken(s[m]) \/ (s[m][1] = "stopping" /\ ~s[m][3])
      PROVE  \E k \in 1 .. Len(t) : IsToken(t[k]) \/ (t[k][1] = "stopping" /\ ~t[k][3])
  <2>1. m \in c + 1 .. Len(s) \/ (c = 1 /\ m = 1)
    BY <1>2
  <2>2. m \in c + 1 .. Len(s)
    BY <1>0, <1>8, <2>1
  <2>3. PICK k : k = m + d
    OBVIOUS
  <2>4. k \in 1 .. Len(t) /\ t[k] = s[m]
    BY <1>2, <2>2, <2>3
  <2>. QED
    BY <1>8, <2>4
<1>9. Carried(t, uu, s, ts, prog, d)
  BY <1>5, <1>6, <1>7, <1>8 DEF Carried
<1>. QED
  BY <1>1, <1>2, <1>9

(* A token rules out every other special step. *)
LEMMA TokenAlone ==
  ASSUME NEW s, NEW ts, NEW prog, NEW dl, NEW stop, NEW fin, OneFits(s, ts, prog, dl, stop, fin),
         NEW k \in 1 .. Len(s), IsToken(s[k])
  PROVE  prog = {} /\ dl = {} /\ ~fin /\ \A m \in 1 .. Len(s) : m # k => ~IsSpecial(s[m])
BY Zenon DEF OneFits, IsSpecial

LEMMA OneToken ==
  ASSUME NEW t, NEW k \in 1 .. Len(t), IsToken(t[k]), ~TakesOver(t[k]),
         \A m \in 1 .. Len(t) : m # k => ~IsSpecial(t[m]), NEW ts, NEW stop
  PROVE  OneFits(t, ts, {}, {}, stop, FALSE)
<1>1. \A m \in 1 .. Len(t) : ~TakesOver(t[m]) /\ (IsToken(t[m]) => m = k)
  BY DEF IsSpecial
<1>2. \A m \in 1 .. Len(t) : t[m][1] # "stop" /\ ~(t[m][1] = "stopping" /\ (t[m][4] \/ ~t[m][3]))
  BY <1>1 DEF TakesOver
<1>. QED
  BY <1>1, <1>2 DEF OneFits

(* One token is put on the stack, and nothing special was there. *)
OneTokenPut(t, new, s, c) ==
  /\ Restacked(t, new, s, c)
  /\ \A m \in c + 1 .. Len(s) : ~IsSpecial(s[m])
  /\ \E i \in 1 .. Len(new) : IsToken(new[i]) /\ ~TakesOver(new[i]) /\ \A j \in 1 .. Len(new) : j # i => ~IsSpecial(new[j])

LEMMA TokenPut ==
  ASSUME NEW t, NEW new, NEW s, NEW c, OneTokenPut(t, new, s, c), NEW ts, NEW stop
  PROVE  OneFits(t, ts, {}, {}, stop, FALSE)
<1>1. Restacked(t, new, s, c) /\ \A m \in c + 1 .. Len(s) : ~IsSpecial(s[m])
  BY DEF OneTokenPut
<1>2. PICK i \in 1 .. Len(new) : IsToken(new[i]) /\ ~TakesOver(new[i]) /\ \A j \in 1 .. Len(new) : j # i => ~IsSpecial(new[j])
  BY DEF OneTokenPut
<1>3. /\ \A k \in 1 .. Len(t) : \/ k \in 1 .. Len(new) /\ t[k] = new[k]
                                \/ \E m \in c + 1 .. Len(s) : t[k] = s[m]
      /\ i \in 1 .. Len(t)
  BY <1>1, PlacesOf
<1>4. t[i] = new[i]
  BY <1>1 DEF Restacked
<1>5. \A k \in 1 .. Len(t) : k # i => ~IsSpecial(t[k])
  BY <1>1, <1>2, <1>3
<1>. QED
  BY <1>2, <1>3, <1>4, <1>5, OneToken

(* No step is special: an animation or a delay is in progress. *)
LEMMA NoToken ==
  ASSUME NEW t, \A m \in 1 .. Len(t) : ~IsSpecial(t[m]), NEW ts, NEW prog, NEW dl, NEW stop,
         \/ dl = {} /\ \E a : prog = {a}
         \/ prog = {} /\ dl = {stop}
  PROVE  OneFits(t, ts, prog, dl, stop, FALSE)
<1>1. \A m \in 1 .. Len(t) : ~IsToken(t[m]) /\ t[m][1] # "stop" /\ ~(t[m][1] = "stopping" /\ (t[m][4] \/ ~t[m][3]))
  BY DEF IsSpecial, TakesOver
<1>2. ~(prog = {} /\ dl = {}) /\ (prog # {} => dl = {}) /\ (\A a, b \in prog : a = b) /\ dl \subseteq {stop}
  OBVIOUS
<1>. QED
  BY <1>1, <1>2 DEF OneFits

(* The only special step stops what runs. *)
LEMMA OneStopper ==
  ASSUME NEW t, NEW k \in 1 .. Len(t), \A m \in 1 .. Len(t) : m # k => ~IsSpecial(t[m]),
         t[k][1] = "stopping", NEW ts, NEW prog, NEW stop,
         \A a, b \in prog : a = b, \A a \in prog : Reaches(t[k], ts, a),
         prog = {} => ~t[k][3]
  PROVE  OneFits(t, ts, prog, {}, stop, FALSE)
<1>1. \A m \in 1 .. Len(t) : m # k => ~IsToken(t[m]) /\ t[m][1] # "stop" /\ ~(t[m][1] = "stopping" /\ (t[m][4] \/ ~t[m][3]))
  BY DEF IsSpecial, TakesOver
<1>2. ~IsToken(t[k]) /\ t[k][1] # "stop"
  BY DEF IsToken
<1>3. \A m \in 1 .. Len(t) : ~IsToken(t[m]) /\ t[m][1] # "stop"
  BY <1>1, <1>2
<1>4. \A m \in 1 .. Len(t) : t[m][1] = "stopping" /\ (t[m][4] \/ ~t[m][3]) => m = k
  BY <1>1
<1>5. {} \subseteq {stop}
  OBVIOUS
<1>. QED
  BY <1>3, <1>4, <1>5, Zenon DEF OneFits

(* A step that neither starts nor stops what is queued. *)
Quiet(t, new, s, c, ts, uu) ==
  /\ Restacked(t, new, s, c)
  /\ \A j \in 1 .. Len(new) : ~IsSpecial(new[j])
  /\ c = 1 => ~IsToken(s[1]) /\ s[1][1] # "stop" /\ s[1][1] # "stopping"
  /\ \A m \in c + 1 .. Len(s) : \A a : s[m][1] = "stopping" /\ Reaches(s[m], ts, a) => Reaches(s[m], uu, a)

LEMMA QuietStays ==
  ASSUME NEW t, NEW new, NEW s, NEW c, NEW ts, NEW uu, Quiet(t, new, s, c, ts, uu)
  PROVE  EmptyStays(t, new, s, c, ts, uu) /\ OneStays(t, new, s, c, ts, uu)
BY Zenon DEF Quiet, EmptyStays, OneStays, IsSpecial, IsToken

LEMMA QuietQueue ==
  ASSUME QueueInv, NEW new, NEW c, Quiet(steps', new, steps, c, timers, timers'),
         queue = <<>> <=> queue' = <<>>, disturbed => disturbed',
         ~disturbed /\ queue # <<>> => QueueFits(queue', steps') /\ hooks'.stop = hooks.stop,
         delays' = delays, finishing' = finishing, Running(animations') = Running(animations)
  PROVE  QueueInv'
<1>1. EmptyStays(steps', new, steps, c, timers, timers') /\ OneStays(steps', new, steps, c, timers, timers')
  BY QuietStays
<1>2. CASE disturbed'
  BY <1>2 DEF QueueInv
<1>3. CASE ~disturbed' /\ queue = <<>>
  <2>1. EmptyFits(steps, timers, Running(animations), delays, finishing)
    BY <1>3 DEF QueueInv
  <2>2. EmptyFits(steps', timers', Running(animations), delays, finishing)
    BY <1>1, <2>1, EmptyKept
  <2>. QED
    BY <1>3, <2>2 DEF QueueInv
<1>4. CASE ~disturbed' /\ queue # <<>>
  <2>1. OneFits(steps, timers, Running(animations), delays, hooks.stop, finishing)
    BY <1>4 DEF QueueInv
  <2>2. PICK d : d = Len(new) - c
    OBVIOUS
  <2>3. Carried(steps', timers', steps, timers, Running(animations), d) /\ Len(steps') \in Nat /\ d \in Int
    BY <1>1, <2>2, OneCarried
  <2>4. OneFits(steps', timers', Running(animations), delays, hooks.stop, finishing)
    BY <2>1, <2>3, OneKept
  <2>5. QueueFits(queue', steps') /\ hooks'.stop = hooks.stop /\ queue' # <<>>
    BY <1>4
  <2>. QED
    BY <1>4, <2>4, <2>5 DEF QueueInv
<1>. QED
  BY <1>2, <1>3, <1>4

(* The first of the queue does not depend on the steps, unless one is due. *)
LEMMA QueueStays ==
  ASSUME NEW q, NEW s, QueueFits(q, s), s = <<>> \/ s[1][1] # "dequeue", NEW t
  PROVE  QueueFits(q, t)
BY DEF QueueFits

LEMMA NoneSpecial ==
  ASSUME NEW s, NEW ts, NEW prog, NEW dl, NEW stop, NEW fin, OneFits(s, ts, prog, dl, stop, fin),
         \A m \in 1 .. Len(s) : ~IsSpecial(s[m])
  PROVE  \/ dl = {} /\ \E a : prog = {a}
         \/ prog = {} /\ dl = {stop}
<1>1. \A m \in 1 .. Len(s) : ~IsToken(s[m]) /\ ~(s[m][1] = "stopping" /\ ~s[m][3])
  BY DEF IsSpecial, TakesOver
<1>2. ~fin /\ ~(prog = {} /\ dl = {})
  BY <1>1, Zenon DEF OneFits
<1>3. (prog # {} => dl = {}) /\ (\A a, b \in prog : a = b) /\ dl \subseteq {stop}
  BY DEF OneFits
<1>. QED
  BY <1>2, <1>3

LEMMA NothingRuns ==
  ASSUME NEW s, NEW ts, NEW prog, NEW dl, NEW fin, EmptyFits(s, ts, prog, dl, fin),
         \A m \in 1 .. Len(s) : s[m][1] # "stop" /\ s[m][1] # "stopping"
  PROVE  prog = {} /\ dl = {}
BY Zenon DEF EmptyFits, Stopper

(* The interval elapses, or a timer is gone through, and the queue is as it *)
(* was.                                                                    *)
LEMMA TickingQueue ==
  ASSUME QueueInv, \A m \in 1 .. Len(steps) : steps[m][1] \in {"tick", "ticked"},
         \A m \in 1 .. Len(steps') : steps'[m][1] \in {"tick", "ticked", "callback", "uncount"},
         steps = <<>> \/ Len(steps) = 1,
         UNCHANGED <<queue, hooks, delays, finishing, disturbed>>, Running(animations') = Running(animations)
  PROVE  QueueInv'
<1>0. CASE disturbed'
  BY <1>0 DEF QueueInv
<1>. SUFFICES ASSUME ~disturbed' PROVE QueueInv'
  BY <1>0
<1>1. \A m \in 1 .. Len(steps) : ~IsSpecial(steps[m]) /\ steps[m][1] # "stop" /\ steps[m][1] # "stopping"
  BY DEF IsSpecial, IsToken, TakesOver
<1>2. \A m \in 1 .. Len(steps') : ~IsSpecial(steps'[m]) /\ steps'[m][1] # "start"
  BY DEF IsSpecial, IsToken, TakesOver
<1>3. CASE queue = <<>>
  <2>1. EmptyFits(steps, timers, Running(animations), delays, finishing)
    BY <1>3 DEF QueueInv
  <2>2. Running(animations) = {} /\ delays = {}
    BY <1>1, <2>1, NothingRuns
  <2>3. EmptyFits(steps', timers', {}, {}, finishing)
    BY <1>2 DEF EmptyFits
  <2>. QED
    BY <1>3, <2>2, <2>3 DEF QueueInv
<1>4. CASE queue # <<>>
  <2>1. OneFits(steps, timers, Running(animations), delays, hooks.stop, finishing) /\ QueueFits(queue, steps)
    BY <1>4 DEF QueueInv
  <2>2. ~finishing
    BY <2>1 DEF OneFits
  <2>3. \/ delays = {} /\ \E a : Running(animations) = {a}
        \/ Running(animations) = {} /\ delays = {hooks.stop}
    BY <1>1, <2>1, NoneSpecial
  <2>4. OneFits(steps', timers', Running(animations), delays, hooks.stop, FALSE)
    BY <1>2, <2>3, NoToken
  <2>5. OneFits(steps', timers', Running(animations), delays, hooks.stop, finishing)
    BY <2>2, <2>4 DEF OneFits
  <2>6. QueueFits(queue, steps')
    <3>1. steps = <<>> \/ steps[1][1] # "dequeue"
      <4>1. Len(steps) = 1 => 1 \in 1 .. Len(steps)
        OBVIOUS
      <4>. QED
        BY <4>1
    <3>. QED
      BY <2>1, <3>1, QueueStays
  <2>. QED
    BY <1>4, <2>5, <2>6 DEF QueueInv
<1>. QED
  BY <1>3, <1>4

LEMMA RunningEnds ==
  ASSUME NEW aa, NEW bb, Len(bb) = Len(aa), NEW a \in 1 .. Len(aa), bb[a].state # "running",
         \A b \in 1 .. Len(aa) : b # a => bb[b] = aa[b], aa[a].state = "running"
  PROVE  Running(bb) = Running(aa) \ {a} /\ (a \in Running(aa) <=> aa[a].queued)
BY DEF Running

LEMMA TickedQueue ==
  ASSUME DrivenInv, QueueInv, Ticked \/ IntervalElapses
  PROVE  QueueInv'
<1>1. /\ \A k \in 1 .. Len(steps') : steps'[k][1] = "tick"
      /\ steps = <<>> \/ (Len(steps) = 1 /\ steps[1][1] = "ticked")
  BY TickedDriven
<1>2. UNCHANGED <<queue, hooks, animations, delays, finishing, disturbed>>
  BY DEF Ticked, IntervalElapses
<1>3. \A m \in 1 .. Len(steps) : steps[m][1] \in {"tick", "ticked"}
  <2>1. CASE steps = <<>>
    <3>1. Len(steps) = 0
      BY <2>1
    <3>. QED
      BY <3>1
  <2>2. CASE Len(steps) = 1 /\ steps[1][1] = "ticked"
    BY <2>2
  <2>. QED
    BY <1>1, <2>1, <2>2
<1>. QED
  BY <1>1, <1>2, <1>3, TickingQueue

LEMMA TickQueue ==
  ASSUME DrivenInv, QueueInv, Tick
  PROVE  QueueInv'
<1>1. /\ Len(steps) = 1 /\ steps[1][1] = "tick"
      /\ \/ animations' = animations /\ \A k \in 1 .. Len(steps') : steps'[k][1] \in {"tick", "ticked"}
         \/ \E a, queued : Settles(steps', animations', animations, a, queued)
  BY TickDriven
<1>2. UNCHANGED <<queue, hooks, delays, finishing, disturbed>>
  BY DEF Tick
<1>3. \A m \in 1 .. Len(steps) : m = 1
  BY <1>1
<1>4. \A m \in 1 .. Len(steps) : steps[m][1] = "tick"
  BY <1>1, <1>3
<1>5. CASE animations' = animations /\ \A k \in 1 .. Len(steps') : steps'[k][1] \in {"tick", "ticked"}
  <2>1. /\ \A m \in 1 .. Len(steps) : steps[m][1] \in {"tick", "ticked"}
        /\ \A m \in 1 .. Len(steps') : steps'[m][1] \in {"tick", "ticked", "callback", "uncount"}
    BY <1>4, <1>5
  <2>. QED
    BY <1>1, <1>2, <1>5, <2>1, TickingQueue
<1>6. ASSUME NEW a, NEW queued, Settles(steps', animations', animations, a, queued) PROVE QueueInv'
  <2>0. PICK t, bb : t = steps' /\ bb = animations'
    OBVIOUS
  <2>1. /\ a \in 1 .. Len(animations) /\ animations[a].state = "running" /\ animations[a].queued = queued
        /\ queued \in BOOLEAN /\ Len(bb) = Len(animations) /\ bb[a].state # "running"
        /\ \A b \in 1 .. Len(animations) : b # a => bb[b] = animations[b]
    BY <1>6, <2>0 DEF Settles
  <2>2. /\ Len(t) = 3 /\ t[1] = <<"callback">> /\ t[2] = IF queued THEN <<"dequeue">> ELSE <<"uncount">>
        /\ t[3][1] = "ticked"
    BY <1>6, <2>0 DEF Settles
  <2>3. \A k \in 1 .. Len(t) : k = 1 \/ k = 2 \/ k = 3
    <3>1. Len(t) = 3
      BY <2>2
    <3>2. Len(t) = 3 => \A k \in 1 .. Len(t) : k = 1 \/ k = 2 \/ k = 3
      OBVIOUS
    <3>. QED
      BY <3>1, <3>2
  <2>4. PICK prog : prog = Running(animations)
    OBVIOUS
  <2>5. Running(bb) = prog \ {a} /\ (a \in prog <=> queued)
    BY <2>1, <2>4, RunningEnds
  <2>6. CASE ~queued
    <3>1. \A m \in 1 .. Len(t) : t[m][1] \in {"tick", "ticked", "callback", "uncount"}
      <4>1. t[2] = <<"uncount">>
        BY <2>2, <2>6
      <4>. QED
        BY <2>2, <2>3, <4>1
    <3>2. Running(bb) = prog
      BY <2>5, <2>6
    <3>3. \A m \in 1 .. Len(steps) : steps[m][1] \in {"tick", "ticked"}
      BY <1>4
    <3>. QED
      BY <1>1, <1>2, <2>0, <2>4, <3>1, <3>2, <3>3, TickingQueue
  <2>7. CASE queued
    <3>0. CASE disturbed'
      BY <3>0 DEF QueueInv
    <3>1. CASE ~disturbed' /\ queue = <<>>
      <4>1. EmptyFits(steps, timers, prog, delays, finishing)
        BY <1>2, <2>4, <3>1 DEF QueueInv
      <4>2. \A m \in 1 .. Len(steps) : steps[m][1] # "stop" /\ steps[m][1] # "stopping"
        BY <1>4
      <4>3. prog = {}
        BY <4>1, <4>2, NothingRuns
      <4>. QED
        BY <2>5, <2>7, <4>3
    <3>2. CASE ~disturbed' /\ queue # <<>>
      <4>1. OneFits(steps, timers, prog, delays, hooks.stop, finishing) /\ QueueFits(queue, steps)
        BY <1>2, <2>4, <3>2 DEF QueueInv
      <4>2. ~finishing /\ delays = {} /\ prog \ {a} = {}
        BY <2>5, <2>7, <4>1 DEF OneFits
      <4>3. t[2] = <<"dequeue">>
        BY <2>2, <2>7
      <4>4. t[1][1] = "callback" /\ t[2][1] = "dequeue" /\ t[3][1] = "ticked"
        BY <2>2, <4>3
      <4>5. ~IsSpecial(t[1]) /\ IsToken(t[2]) /\ ~TakesOver(t[2]) /\ ~IsSpecial(t[3])
        BY <4>4 DEF IsSpecial, IsToken, TakesOver
      <4>6. \A m \in 1 .. Len(t) : m # 2 => ~IsSpecial(t[m])
        BY <2>3, <4>5
      <4>7. 2 \in 1 .. Len(t)
        BY <2>2
      <4>8. OneFits(t, timers', {}, {}, hooks.stop, FALSE)
        BY <4>5, <4>6, <4>7, OneToken
      <4>9. steps[1][1] # "dequeue"
        BY <1>1
      <4>10. QueueFits(queue, t)
        BY <4>1, <4>9, QueueStays
      <4>11. OneFits(t, timers', {}, {}, hooks.stop, finishing')
        BY <4>8, <1>2, <4>2 DEF OneFits
      <4>12. Running(animations') = {}
        BY <2>0, <2>5, <4>2
      <4>. QED
        BY <1>2, <2>0, <3>2, <4>2, <4>10, <4>11, <4>12 DEF QueueInv
    <3>. QED
      BY <3>0, <3>1, <3>2
  <2>. QED
    BY <2>1, <2>6, <2>7
<1>. QED
  BY <1>1, <1>5, <1>6

LEMMA UncountQueue ==
  ASSUME EffectTypes, DrivenInv, QueueInv, Uncount \/ CallbackDone
  PROVE  QueueInv'
<1>1. Restacked(steps', <<>>, steps, 1)
  BY UncountDriven
<1>2. steps[1][1] \in {"uncount", "callback"}
  BY TopOf DEF DrivenInv, Uncount, CallbackDone
<1>3. UNCHANGED <<timers, animations, delays, finishing, disturbed>>
  BY DEF Uncount, CallbackDone
<1>4. ~IsToken(steps[1]) /\ steps[1][1] # "stop" /\ steps[1][1] # "stopping" /\ steps[1][1] # "dequeue"
  BY <1>2 DEF IsToken
<1>5. Quiet(steps', <<>>, steps, 1, timers, timers')
  <2>1. \A j \in 1 .. Len(<<>>) : FALSE
    OBVIOUS
  <2>. QED
    BY <1>1, <1>3, <1>4, <2>1 DEF Quiet
<1>6. queue = <<>> => queue' = <<>>
  BY DEF Uncount, CallbackDone, EmptyFires
<1>7. ASSUME queue # <<>> PROVE queue' = queue /\ hooks'.stop = hooks.stop
  <2>1. CASE CallbackDone
    BY <2>1 DEF CallbackDone
  <2>2. CASE Uncount
    <3>1. queue' = queue /\ hooks' = [hooks EXCEPT !.unqueued = @ - 1]
      BY <1>7, <2>2 DEF Uncount
    <3>. QED
      BY <3>1 DEF EffectTypes
  <2>. QED
    BY <2>1, <2>2
<1>8. ~disturbed /\ queue # <<>> => QueueFits(queue', steps')
  BY <1>4, <1>7, QueueStays DEF QueueInv
<1>. QED
  BY <1>3, <1>5, <1>6, <1>7, <1>8, QuietQueue

LEMMA SpliceQueue ==
  ASSUME DrivenInv, QueueInv, Splice
  PROVE  QueueInv'
<1>1. /\ Restacked(steps', <<>>, steps, 1) /\ steps[1][1] = "splice"
      /\ \A m \in 2 .. Len(steps) : steps[m][1] = "stopping" =>
           \A j \in 1 .. Len(timers) : j <= steps[m][2] => j \in 1 .. Len(timers') /\ timers'[j] = timers[j]
  BY SpliceDriven
<1>2. UNCHANGED <<queue, hooks, animations, delays, finishing, disturbed>>
  BY DEF Splice
<1>3. ~IsToken(steps[1]) /\ steps[1][1] # "stop" /\ steps[1][1] # "stopping" /\ steps[1][1] # "dequeue"
  BY <1>1 DEF IsToken
<1>4. ASSUME NEW m \in 2 .. Len(steps), NEW a, steps[m][1] = "stopping", Reaches(steps[m], timers, a)
      PROVE  Reaches(steps[m], timers', a)
  <2>1. PICK i \in 1 .. Len(timers) : i <= steps[m][2] /\ timers[i] = a
    BY <1>4 DEF Reaches
  <2>2. i \in 1 .. Len(timers') /\ timers'[i] = a
    BY <1>1, <1>4, <2>1
  <2>. QED
    BY <2>1, <2>2 DEF Reaches
<1>5. Quiet(steps', <<>>, steps, 1, timers, timers')
  <2>1. \A j \in 1 .. Len(<<>>) : FALSE
    OBVIOUS
  <2>2. \A m \in 1 + 1 .. Len(steps) : \A a : steps[m][1] = "stopping" /\ Reaches(steps[m], timers, a) => Reaches(steps[m], timers', a)
    BY <1>4
  <2>. QED
    BY <1>1, <1>3, <2>1, <2>2, Zenon DEF Quiet
<1>6. ~disturbed /\ queue # <<>> => QueueFits(queue', steps')
  BY <1>2, <1>3, QueueStays DEF QueueInv
<1>. QED
  BY <1>2, <1>5, <1>6, QuietQueue

(* What is started is put at the end of the timers. *)
LEMMA RunningStarts ==
  ASSUME NEW aa \in Seq(Animated), NEW bb, NEW queued \in BOOLEAN, NEW over \in BOOLEAN,
         bb = Append(aa, [queued |-> queued, state |-> IF over THEN "resolved" ELSE "running"])
  PROVE  Running(bb) = IF queued /\ ~over THEN Running(aa) \cup {Len(aa) + 1} ELSE Running(aa)
<1>1. PICK x : x = [queued |-> queued, state |-> IF over THEN "resolved" ELSE "running"]
  OBVIOUS
<1>2. x.queued = queued /\ (x.state = "running" <=> ~over)
  BY <1>1
<1>3. x \in Animated
  BY <1>1 DEF Animated
<1>4. Len(aa) \in Nat /\ Len(bb) = Len(aa) + 1 /\ bb[Len(aa) + 1] = x /\ \A i \in 1 .. Len(aa) : bb[i] = aa[i]
  BY <1>1, <1>3, AppendProperties
<1>5. PICK n \in Nat : n = Len(aa)
  BY <1>4
<1>6. Len(bb) = n + 1 /\ bb[n + 1] = x /\ \A i \in 1 .. n : bb[i] = aa[i]
  BY <1>4, <1>5
<1>7. Running(aa) = {a \in 1 .. n : aa[a].state = "running" /\ aa[a].queued}
  BY <1>5 DEF Running
<1>8. Running(bb) = {a \in 1 .. n + 1 : bb[a].state = "running" /\ bb[a].queued}
  BY <1>6 DEF Running
<1>9. \A a : a \in 1 .. n + 1 <=> a \in 1 .. n \/ a = n + 1
  OBVIOUS
<1>10. \A a : a \in Running(bb) <=> a \in Running(aa) \/ (a = n + 1 /\ queued /\ ~over)
  BY <1>2, <1>6, <1>7, <1>8, <1>9, n + 1 \notin 1 .. n
<1>. QED
  BY <1>5, <1>10

LEMMA StartQueue ==
  ASSUME EffectTypes, DrivenInv, QueueInv, StartAnimation
  PROVE  QueueInv'
<1>1. PICK queued, instant : queued = steps[1][2] /\ instant = steps[1][3]
  OBVIOUS
<1>2. /\ steps[1][1] = "start" /\ queued \in BOOLEAN /\ instant \in BOOLEAN
      /\ \E new : Restacked(steps', new, steps, 1) /\ Outcome(new, queued, instant \/ finishing)
  BY <1>1, StartDriven
<1>3. PICK new : Restacked(steps', new, steps, 1) /\ Outcome(new, queued, instant \/ finishing)
  BY <1>2
<1>4. steps # <<>> /\ Head(steps) = steps[1] /\ Len(steps) \in Nat /\ Len(steps) >= 1
  BY TopOf DEF DrivenInv, StartAnimation
<1>5. PICK over \in BOOLEAN : over = (instant \/ finishing)
  OBVIOUS
<1>6. /\ animations' = Append(animations, [queued |-> queued, state |-> IF over THEN "resolved" ELSE "running"])
      /\ timers' = IF instant THEN timers ELSE Append(timers, Len(animations) + 1)
      /\ UNCHANGED <<queue, delays, finishing, disturbed>>
      /\ hooks' = IF queued THEN hooks ELSE [hooks EXCEPT !.there = TRUE, !.unqueued = @ + 1]
  BY <1>1, <1>4, <1>5 DEF StartAnimation
<1>7. hooks'.stop = hooks.stop
  BY <1>6 DEF EffectTypes
<1>8. PICK prog : prog = Running(animations)
  OBVIOUS
<1>9. Running(animations') = IF queued /\ ~over THEN prog \cup {Len(animations) + 1} ELSE prog
  BY <1>2, <1>6, <1>8, RunningStarts DEF DrivenInv, TimersFit
<1>10. Grown(timers', timers)
  <2>1. Started(timers', animations', timers, animations, queued, instant, over)
    BY <1>2, <1>5, <1>6 DEF Started
  <2>. QED
    BY <2>1, TimersAfterStart DEF DrivenInv
<1>11. \A m \in 1 + 1 .. Len(steps) : \A a : steps[m][1] = "stopping" /\ Reaches(steps[m], timers, a) => Reaches(steps[m], timers', a)
  <2>1. /\ Len(timers) <= Len(timers') /\ Len(timers) \in Nat /\ Len(timers') \in Nat
        /\ \A i \in 1 .. Len(timers) : timers'[i] = timers[i]
    <3>1. timers \in Seq(Nat) /\ timers' \in Seq(Nat)
      BY StartDriven DEF DrivenInv, TimersFit
    <3>. QED
      BY <1>10, <3>1, LenProperties DEF Grown
  <2>2. \A i \in 1 .. Len(timers) : i \in 1 .. Len(timers')
    BY <2>1
  <2>. QED
    BY <2>1, <2>2 DEF Reaches
<1>12. over => /\ Len(new) = 2
               /\ queued => new[1][1] = "callback" /\ new[2][1] = "dequeue"
               /\ ~queued => new[1][1] \in {"callback", "uncount"} /\ new[2][1] \in {"callback", "uncount"}
  <2>1. over => /\ Len(new) = 2
                /\ \/ new[1] = <<"callback">> /\ new[2] = (IF queued THEN <<"dequeue">> ELSE <<"uncount">>)
                   \/ ~queued /\ new[1] = <<"uncount">> /\ new[2] = <<"callback">>
    BY <1>3, <1>5 DEF Outcome
  <2>2. CASE queued
    BY <2>1, <2>2
  <2>3. CASE ~queued
    BY <2>1, <2>3
  <2>. QED
    BY <2>2, <2>3
<1>13. ~over => new = <<>>
  BY <1>3, <1>5 DEF Outcome
<1>14. \A j \in 1 .. Len(new) : over /\ (j = 1 \/ j = 2)
  <2>1. Len(new) = 2 => \A j \in 1 .. Len(new) : j = 1 \/ j = 2
    OBVIOUS
  <2>2. new = <<>> => \A j \in 1 .. Len(new) : FALSE
    OBVIOUS
  <2>. QED
    BY <1>12, <1>13, <2>1, <2>2
<1>15. CASE disturbed'
  BY <1>15 DEF QueueInv
<1>16. CASE ~queued
  <2>1. \A j \in 1 .. Len(new) : ~IsSpecial(new[j])
    BY <1>12, <1>14, <1>16 DEF IsSpecial, IsToken, TakesOver
  <2>2. ~IsToken(steps[1]) /\ steps[1][1] # "stop" /\ steps[1][1] # "stopping" /\ steps[1][1] # "dequeue"
    BY <1>1, <1>2, <1>16 DEF IsToken
  <2>3. Quiet(steps', new, steps, 1, timers, timers')
    BY <1>3, <1>11, <2>1, <2>2, Zenon DEF Quiet
  <2>4. ~disturbed /\ queue # <<>> => QueueFits(queue', steps')
    BY <1>6, <2>2, QueueStays DEF QueueInv
  <2>5. Running(animations') = Running(animations)
    BY <1>8, <1>9, <1>16
  <2>. QED
    BY <1>6, <1>7, <2>3, <2>4, <2>5, QuietQueue
<1>17. CASE ~disturbed' /\ queued /\ queue = <<>>
  <2>1. EmptyFits(steps, timers, prog, delays, finishing)
    BY <1>6, <1>8, <1>17 DEF QueueInv
  <2>2. finishing
    <3>1. 1 \in 1 .. Len(steps)
      BY <1>4
    <3>. QED
      BY <1>1, <1>2, <1>17, <2>1, <3>1 DEF EmptyFits
  <2>3. over /\ Running(animations') = prog
    BY <1>5, <1>9, <2>2
  <2>4. \A j \in 1 .. Len(new) : ~(new[j][1] = "start" /\ new[j][2])
    BY <1>12, <1>14
  <2>5. EmptyStays(steps', new, steps, 1, timers, timers')
    BY <1>2, <1>3, <1>11, <2>4, Zenon DEF EmptyStays
  <2>6. EmptyFits(steps', timers', prog, delays, finishing)
    BY <2>1, <2>5, EmptyKept
  <2>. QED
    BY <1>6, <1>17, <2>3, <2>6 DEF QueueInv
<1>18. CASE ~disturbed' /\ queued /\ queue # <<>>
  <2>1. OneFits(steps, timers, prog, delays, hooks.stop, finishing) /\ QueueFits(queue, steps)
    BY <1>6, <1>8, <1>18 DEF QueueInv
  <2>2. 1 \in 1 .. Len(steps) /\ IsToken(steps[1])
    BY <1>1, <1>2, <1>4, <1>18 DEF IsToken
  <2>3. prog = {} /\ delays = {} /\ ~finishing /\ \A m \in 1 .. Len(steps) : m # 1 => ~IsSpecial(steps[m])
    BY <2>1, <2>2, TokenAlone
  <2>4. \A m \in 1 + 1 .. Len(steps) : ~IsSpecial(steps[m])
    BY <1>4, <2>3
  <2>5. QueueFits(queue', steps')
    BY <1>2, <1>6, <2>1, QueueStays
  <2>6. OneFits(steps', timers', Running(animations'), {}, hooks.stop, FALSE)
    <3>1. CASE over
      <4>1. 1 \in 1 .. Len(new) /\ 2 \in 1 .. Len(new) /\ \A j \in 1 .. Len(new) : j # 2 => j = 1
        BY <1>12, <1>14, <3>1
      <4>2. new[1][1] = "callback" /\ new[2][1] = "dequeue"
        BY <1>12, <1>18, <3>1
      <4>3. IsToken(new[2]) /\ ~TakesOver(new[2]) /\ ~IsSpecial(new[1])
        BY <4>2 DEF IsSpecial, IsToken, TakesOver
      <4>4. OneTokenPut(steps', new, steps, 1)
        BY <1>3, <2>4, <4>1, <4>3 DEF OneTokenPut
      <4>. QED
        BY <1>9, <2>3, <3>1, <4>4, TokenPut
    <3>2. CASE ~over
      <4>1. \A k \in 1 .. Len(steps') : ~IsSpecial(steps'[k])
        BY <1>3, <1>14, <2>4, <3>2, PlacesOf
      <4>2. Running(animations') = {Len(animations) + 1}
        BY <1>9, <1>18, <2>3, <3>2
      <4>. QED
        BY <4>1, <4>2, NoToken
    <3>. QED
      BY <3>1, <3>2
  <2>7. OneFits(steps', timers', Running(animations'), delays', hooks'.stop, finishing')
    BY <1>6, <1>7, <2>3, <2>6 DEF OneFits
  <2>. QED
    BY <1>6, <1>18, <2>5, <2>7 DEF QueueInv
<1>. QED
  BY <1>2, <1>15, <1>16, <1>17, <1>18

(* What is behind the sentinel, or behind what is due, are functions. *)
LEMMA RestOf ==
  ASSUME NEW q, NEW s, QueueFits(q, s), NEW rest,
         rest = IF q # <<>> /\ Head(q) = Sentinel THEN Tail(q) ELSE q
  PROVE  rest \in Seq(Items) /\ \A i \in 1 .. Len(rest) : rest[i].kind # "inprogress"
<1>1. /\ q \in Seq(Items) /\ q # <<>> /\ \A i \in 2 .. Len(q) : q[i].kind # "inprogress"
      /\ q[1] = Sentinel \/ q[1].kind # "inprogress"
  BY DEF QueueFits
<1>2. PICK r : r = Tail(q)
  OBVIOUS
<1>3. Head(q) = q[1] /\ r \in Seq(Items) /\ Len(q) \in Nat /\ Len(r) = Len(q) - 1 /\ \A i \in 1 .. Len(r) : r[i] = q[i + 1]
  BY <1>1, <1>2, HeadTailProperties
<1>4. \A i \in 1 .. Len(r) : i + 1 \in 2 .. Len(q)
  BY <1>3
<1>5. CASE q[1] = Sentinel
  BY <1>1, <1>2, <1>3, <1>4, <1>5
<1>6. CASE q[1] # Sentinel
  <2>1. \A i \in 1 .. Len(q) : i = 1 \/ i \in 2 .. Len(q)
    BY <1>3
  <2>2. rest = q
    BY <1>1, <1>3, <1>6
  <2>. QED
    BY <1>1, <1>6, <2>1, <2>2
<1>. QED
  BY <1>5, <1>6

LEMMA NextInProgress ==
  ASSUME NEW rest \in Seq(Items), rest # <<>>, \A i \in 1 .. Len(rest) : rest[i].kind # "inprogress",
         NEW q, q = <<Sentinel>> \o Tail(rest), NEW t
  PROVE  QueueFits(q, t)
<1>1. PICK first, tail : first = <<Sentinel>> /\ tail = Tail(rest)
  OBVIOUS
<1>2. first \in Seq(Items) /\ Len(first) = 1 /\ first[1] = Sentinel
  BY <1>1 DEF Sentinel, Items
<1>3. /\ Len(rest) \in Nat /\ tail \in Seq(Items) /\ Len(tail) = Len(rest) - 1
      /\ \A i \in 1 .. Len(tail) : tail[i] = rest[i + 1]
  BY <1>1, HeadTailProperties
<1>4. /\ q \in Seq(Items) /\ Len(q) = 1 + Len(tail)
      /\ \A i \in 1 .. 1 + Len(tail) : q[i] = IF i <= 1 THEN first[i] ELSE tail[i - 1]
  BY <1>1, <1>2, <1>3, ConcatProperties
<1>5. Len(tail) \in Nat
  BY <1>3
<1>6. q # <<>> /\ q[1] = Sentinel
  BY <1>2, <1>4, <1>5
<1>7. ASSUME NEW i \in 2 .. Len(q) PROVE q[i].kind # "inprogress"
  <2>1. q[i] = tail[i - 1] /\ i - 1 \in 1 .. Len(tail)
    BY <1>4, <1>5
  <2>2. PICK m \in 1 .. Len(tail) : m = i - 1
    BY <2>1
  <2>3. tail[m] = rest[m + 1] /\ m + 1 \in 1 .. Len(rest)
    BY <1>3
  <2>. QED
    BY <2>1, <2>2, <2>3
<1>. QED
  BY <1>4, <1>6, <1>7 DEF QueueFits

LEMMA DequeueQueue ==
  ASSUME EffectTypes, DrivenInv, QueueInv, Dequeue
  PROVE  QueueInv'
<1>1. PICK rest : rest = IF queue # <<>> /\ Head(queue) = Sentinel THEN Tail(queue) ELSE queue
  OBVIOUS
<1>2. PICK present : present = [hooks EXCEPT !.there = TRUE]
  OBVIOUS
<1>3. UNCHANGED <<animations, timers, finishing, disturbed>>
  BY DEF Dequeue
<1>4. steps # <<>> /\ steps[1][1] = "dequeue" /\ Len(steps) \in Nat /\ Len(steps) >= 1 /\ steps \in Seq(Steps)
  BY TopOf DEF DrivenInv, Dequeue
<1>5. PICK prog : prog = Running(animations)
  OBVIOUS
<1>6. rest = <<>> => EmptyFires(present) /\ steps' = Tail(steps) /\ delays' = delays
  BY <1>1, <1>2 DEF Dequeue, Later
<1>7. PICK item : item = Head(rest)
  OBVIOUS
<1>8. rest # <<>> =>
        /\ queue' = <<Sentinel>> \o Tail(rest)
        /\ hooks' = [present EXCEPT !.stop = IF item.kind = "delay" THEN item.id ELSE 0]
        /\ delays' = IF item.kind = "delay" THEN delays \cup {item.id} ELSE delays
        /\ steps' = IF item.kind = "delay" THEN Tail(steps) ELSE <<<<"start", TRUE, item.instant>>>> \o Tail(steps)
  BY <1>1, <1>2, <1>7 DEF Dequeue, Later
<1>9. PICK r : r = Tail(steps)
  OBVIOUS
<1>10. Restacked(r, <<>>, steps, 1)
  <2>1. r \in Seq(Steps)
    BY <1>4, <1>9, HeadTailProperties
  <2>2. Restacked(<<>> \o Tail(steps), <<>>, steps, 1)
    BY <1>4, NoStep, Replaced
  <2>3. <<>> \o r = r
    BY <2>1, ConcatEmptySeq
  <2>. QED
    BY <1>9, <2>2, <2>3
<1>11. \A j \in 1 .. Len(<<>>) : FALSE
  OBVIOUS
<1>12. CASE disturbed'
  BY <1>12 DEF QueueInv
<1>13. CASE ~disturbed' /\ queue = <<>>
  <2>1. rest = <<>> /\ queue' = <<>> /\ delays' = delays /\ steps' = r
    BY <1>1, <1>6, <1>9, <1>13 DEF EmptyFires
  <2>2. EmptyFits(steps, timers, prog, delays, finishing)
    BY <1>3, <1>5, <1>13 DEF QueueInv
  <2>3. EmptyStays(r, <<>>, steps, 1, timers, timers)
    BY <1>4, <1>10, <1>11 DEF EmptyStays
  <2>4. EmptyFits(r, timers, prog, delays, finishing)
    BY <2>2, <2>3, EmptyKept
  <2>. QED
    BY <1>3, <1>5, <2>1, <2>4 DEF QueueInv
<1>14. CASE ~disturbed' /\ queue # <<>>
  <2>1. OneFits(steps, timers, prog, delays, hooks.stop, finishing) /\ QueueFits(queue, steps)
    BY <1>3, <1>5, <1>14 DEF QueueInv
  <2>2. 1 \in 1 .. Len(steps) /\ IsToken(steps[1])
    BY <1>4 DEF IsToken
  <2>3. prog = {} /\ delays = {} /\ ~finishing /\ \A m \in 1 .. Len(steps) : m # 1 => ~IsSpecial(steps[m])
    BY <2>1, <2>2, TokenAlone
  <2>4. \A m \in 1 + 1 .. Len(steps) : ~IsSpecial(steps[m])
    BY <1>4, <2>3
  <2>5. \A k \in 1 .. Len(r) : ~IsSpecial(r[k])
    <3>1. \A k \in 1 .. Len(r) : k \in 1 .. Len(<<>>) \/ \E m \in 1 + 1 .. Len(steps) : r[k] = steps[m]
      BY <1>10, PlacesOf
    <3>. QED
      BY <1>11, <2>4, <3>1
  <2>6. CASE rest = <<>>
    <3>1. queue' = <<>> /\ delays' = {} /\ steps' = r
      BY <1>6, <1>9, <2>3, <2>6 DEF EmptyFires
    <3>2. EmptyFits(r, timers, {}, {}, finishing)
      BY <2>5 DEF EmptyFits, IsSpecial, IsToken
    <3>. QED
      BY <1>3, <1>5, <2>3, <3>1, <3>2 DEF QueueInv
  <2>7. CASE rest # <<>>
    <3>1. rest \in Seq(Items) /\ \A i \in 1 .. Len(rest) : rest[i].kind # "inprogress"
      BY <1>1, <2>1, RestOf
    <3>2. QueueFits(queue', steps')
      BY <1>8, <2>7, <3>1, NextInProgress
    <3>3. queue' # <<>>
      BY <3>2 DEF QueueFits
    <3>4. item \in Items
      BY <1>7, <2>7, <3>1, HeadTailProperties
    <3>5. Running(animations') = {}
      BY <1>3, <1>5, <2>3
    <3>6. OneFits(steps', timers', {}, delays', hooks'.stop, FALSE)
      <4>1. CASE item.kind = "delay"
        <5>1. PICK id : id = item.id
          OBVIOUS
        <5>2. steps' = r /\ delays' = {id} /\ hooks' = [present EXCEPT !.stop = id]
          BY <1>8, <1>9, <2>3, <2>7, <4>1, <5>1
        <5>3. hooks'.stop = id
          BY <1>2, <5>2 DEF EffectTypes
        <5>. QED
          BY <2>5, <5>2, <5>3, NoToken
      <4>2. CASE item.kind # "delay"
        <5>1. PICK x : x = <<"start", TRUE, item.instant>>
          OBVIOUS
        <5>2. x \in Steps /\ x[1] = "start" /\ x[2] = TRUE
          BY <3>4, <5>1, Shapes DEF Items
        <5>3. <<x>> \in Seq(Steps) /\ Len(<<x>>) = 1 /\ <<x>>[1] = x
          BY <5>2, OneStep
        <5>4. PICK new : new = <<x>>
          OBVIOUS
        <5>5. new \in Seq(Steps) /\ Len(new) = 1 /\ new[1] = x
          BY <5>3, <5>4
        <5>6. steps' = new \o Tail(steps) /\ delays' = {}
          BY <1>8, <2>3, <2>7, <4>2, <5>1, <5>4
        <5>7. Restacked(steps', new, steps, 1)
          BY <1>4, <5>5, <5>6, Replaced
        <5>8. IsToken(x) /\ ~TakesOver(x)
          BY <5>2 DEF IsToken, TakesOver
        <5>9. 1 \in 1 .. Len(new) /\ \A j \in 1 .. Len(new) : j = 1
          BY <5>5
        <5>10. OneTokenPut(steps', new, steps, 1)
          BY <2>4, <5>5, <5>7, <5>8, <5>9 DEF OneTokenPut
        <5>. QED
          BY <5>6, <5>10, TokenPut
      <4>. QED
        BY <4>1, <4>2
    <3>7. OneFits(steps', timers', {}, delays', hooks'.stop, finishing')
      BY <1>3, <2>3, <3>6 DEF OneFits
    <3>. QED
      BY <3>2, <3>3, <3>5, <3>7 DEF QueueInv
  <2>. QED
    BY <2>6, <2>7
<1>. QED
  BY <1>12, <1>13, <1>14

(* A loop that has gone past a timer has still to come to the others. *)
LEMMA ReachesNext ==
  ASSUME NEW ts, NEW i \in 1 .. Len(ts), NEW top, top[2] = i, NEW x, x[2] = i - 1,
         NEW a, ts[i] # a, Reaches(top, ts, a)
  PROVE  Reaches(x, ts, a)
<1>1. PICK j \in 1 .. Len(ts) : j <= i /\ ts[j] = a
  BY DEF Reaches
<1>2. j <= i - 1
  BY <1>1
<1>. QED
  BY <1>1, <1>2 DEF Reaches

LEMMA ReachesAll ==
  ASSUME NEW ts, NEW aa, TimersFit(ts, aa), NEW x, x[2] = Len(ts), NEW a \in Running(aa)
  PROVE  Reaches(x, ts, a)
<1>1. a \in 1 .. Len(aa) /\ aa[a].state = "running"
  BY DEF Running
<1>2. PICK i \in 1 .. Len(ts) : ts[i] = a
  BY <1>1 DEF TimersFit
<1>3. i <= Len(ts)
  BY LenProperties DEF TimersFit
<1>. QED
  BY <1>2, <1>3 DEF Reaches

(* The loop goes on as it was, over what the queue runs. *)
StopperMoves(new, top, ts, prog) ==
  LET n == Len(new)
  IN  /\ n \in Nat \ {0} /\ new[n][1] = "stopping" /\ new[n][3] = top[3] /\ (new[n][4] => top[4])
      /\ \A a \in prog : Reaches(top, ts, a) => Reaches(new[n], ts, a)
      /\ \A j \in 1 .. n - 1 : ~IsSpecial(new[j])

LEMMA StopperQueue ==
  ASSUME QueueInv, NEW new, Restacked(steps', new, steps, 1), steps # <<>>, steps[1][1] = "stopping",
         \A m \in 2 .. Len(steps) : steps[m][1] # "stop" /\ steps[m][1] # "stopping",
         StopperMoves(new, steps[1], timers, Running(animations)),
         UNCHANGED <<queue, hooks, timers, delays, finishing, disturbed>>, Running(animations') = Running(animations)
  PROVE  QueueInv'
<1>1. PICK prog, n, top : prog = Running(animations) /\ n = Len(new) /\ top = steps[1]
  OBVIOUS
<1>2. /\ n \in Nat \ {0} /\ new[n][1] = "stopping" /\ new[n][3] = top[3] /\ (new[n][4] => top[4])
      /\ \A a \in prog : Reaches(top, timers, a) => Reaches(new[n], timers, a)
      /\ \A j \in 1 .. n - 1 : ~IsSpecial(new[j])
  BY <1>1 DEF StopperMoves
<1>3. \A j \in 1 .. n : j = n \/ j \in 1 .. n - 1
  BY <1>2
<1>4. n \in 1 .. n
  BY <1>2
<1>5. Len(steps) \in Nat /\ Len(steps) >= 1 /\ 1 \in 1 .. Len(steps)
  <2>1. Len(steps) \in Nat
    BY PlacesOf
  <2>2. steps \in Seq(Steps)
    BY DEF Restacked
  <2>. QED
    BY <2>1, <2>2
<1>6. \A m \in 1 .. Len(steps) : m = 1 \/ m \in 2 .. Len(steps)
  BY <1>5
<1>7. \A j \in 1 .. n : ~IsToken(new[j]) /\ new[j][1] # "stop"
  <2>1. ~IsToken(new[n]) /\ new[n][1] # "stop"
    BY <1>2 DEF IsToken
  <2>. QED
    BY <1>2, <1>3, <2>1 DEF IsSpecial, TakesOver
<1>8. CASE disturbed'
  BY <1>8 DEF QueueInv
<1>9. CASE ~disturbed' /\ queue = <<>>
  <2>1. EmptyFits(steps, timers, prog, delays, finishing)
    BY <1>1, <1>9 DEF QueueInv
  <2>2. ASSUME NEW a \in prog PROVE \E j \in 1 .. Len(new) : Stopper(new[j], timers, a)
    <3>1. PICK m \in 1 .. Len(steps) : Stopper(steps[m], timers, a)
      BY <2>1 DEF EmptyFits
    <3>2. steps[m][1] = "stop" \/ (steps[m][1] = "stopping" /\ Reaches(steps[m], timers, a))
      BY <3>1 DEF Stopper
    <3>3. m = 1
      BY <1>6, <3>2
    <3>4. Reaches(top, timers, a)
      BY <1>1, <3>2, <3>3
    <3>. QED
      BY <1>1, <1>2, <1>4, <3>4 DEF Stopper
  <2>3. \A j \in 1 .. Len(new) : new[j][1] = "start" /\ new[j][2] => finishing
    BY <1>1, <1>7 DEF IsToken
  <2>4. \A m \in 1 + 1 .. Len(steps) : steps[m][1] = "start" /\ steps[m][2] => finishing
    BY <1>5, <2>1 DEF EmptyFits
  <2>5. EmptyFits(steps', timers, prog, {}, finishing)
    BY <2>2, <2>3, <2>4, EmptyMoved
  <2>6. delays = {}
    BY <2>1 DEF EmptyFits
  <2>. QED
    BY <1>1, <1>9, <2>5, <2>6 DEF QueueInv
<1>10. CASE ~disturbed' /\ queue # <<>>
  <2>1. OneFits(steps, timers, prog, delays, hooks.stop, finishing) /\ QueueFits(queue, steps)
    BY <1>1, <1>10 DEF QueueInv
  <2>2. QueueFits(queue, steps')
    BY <2>1, QueueStays
  <2>3. PICK t, d : t = steps' /\ d = n - 1
    OBVIOUS
  <2>4. d \in Int /\ Len(t) \in Nat
    BY <1>2, <2>3, PlacesOf
  <2>5. \A k \in 1 .. Len(t) : \/ k \in 1 .. n /\ t[k] = new[k]
                               \/ \E m \in 1 + 1 .. Len(steps) : k = m + d /\ t[k] = steps[m]
    <3>1. \A k \in 1 .. Len(t) : \/ k \in 1 .. Len(new) /\ t[k] = new[k]
                                 \/ \E m \in 1 + 1 .. Len(steps) : k = m + (Len(new) - 1) /\ t[k] = steps[m]
      <4>1. PICK c : c = 1
        OBVIOUS
      <4>2. Restacked(t, new, steps, c)
        BY <2>3, <4>1
      <4>3. \A k \in 1 .. Len(t) : \/ k \in 1 .. Len(new) /\ t[k] = new[k]
                                   \/ \E m \in c + 1 .. Len(steps) : k = m + (Len(new) - c) /\ t[k] = steps[m]
        BY <4>2, PlacesOf
      <4>. QED
        BY <4>1, <4>3
    <3>2. d = Len(new) - 1
      BY <1>1, <2>3
    <3>. QED
      BY <1>1, <3>1, <3>2
  <2>6. \A m \in 1 + 1 .. Len(steps) : m \in 2 .. Len(steps) /\ m \in 1 .. Len(steps) /\ m + d - d = m
    BY <1>5, <2>4
  <2>7. \A m \in 1 + 1 .. Len(steps) : m + d \in 1 .. Len(t) /\ t[m + d] = steps[m]
    BY <1>1, <2>3, PlacesOf DEF Restacked
  <2>8. n \in 1 .. Len(t) /\ t[n] = new[n]
    BY <1>1, <1>4, <2>3, PlacesOf DEF Restacked
  <2>9. ASSUME NEW k \in 1 .. Len(t), IsToken(t[k]) PROVE k - d \in 1 .. Len(steps) /\ IsToken(steps[k - d])
    <3>1. PICK m \in 1 + 1 .. Len(steps) : k = m + d /\ t[k] = steps[m]
      BY <1>7, <2>5, <2>9
    <3>2. k - d = m
      BY <1>5, <2>4, <3>1
    <3>. QED
      BY <2>6, <2>9, <3>1, <3>2
  <2>10. ASSUME NEW k \in 1 .. Len(t), t[k][1] = "stop" PROVE \E m \in 1 .. Len(steps) : steps[m] = t[k]
    BY <1>7, <2>5, <2>6, <2>10
  <2>11. ASSUME NEW k \in 1 .. Len(t), t[k][1] = "stopping", t[k][4] \/ ~t[k][3]
         PROVE  \E m \in 1 .. Len(steps) : /\ steps[m][1] = "stopping" /\ (steps[m][4] \/ ~steps[m][3])
                                           /\ \A a \in prog : Reaches(steps[m], timers, a) => Reaches(t[k], timers, a)
    <3>1. k \in 1 .. n /\ t[k] = new[k]
      BY <2>5, <2>6, <2>11
    <3>2. IsSpecial(new[k])
      BY <2>11, <3>1 DEF IsSpecial, TakesOver
    <3>3. k = n
      BY <1>2, <1>3, <3>1, <3>2
    <3>. QED
      BY <1>1, <1>2, <1>5, <2>11, <3>1, <3>3
  <2>12. ASSUME NEW m \in 1 .. Len(steps), IsToken(steps[m]) \/ (steps[m][1] = "stopping" /\ ~steps[m][3])
         PROVE  \E k \in 1 .. Len(t) : IsToken(t[k]) \/ (t[k][1] = "stopping" /\ ~t[k][3])
    <3>1. CASE m = 1
      <4>1. ~top[3]
        BY <1>1, <2>12, <3>1 DEF IsToken
      <4>. QED
        BY <1>2, <2>8, <4>1
    <3>2. CASE m # 1
      <4>1. m \in 1 + 1 .. Len(steps)
        BY <1>5, <3>2
      <4>2. m + d \in 1 .. Len(t) /\ t[m + d] = steps[m]
        BY <2>7, <4>1
      <4>. QED
        BY <2>12, <4>2
    <3>. QED
      BY <3>1, <3>2
  <2>13. Carried(t, timers, steps, timers, prog, d)
    BY <2>9, <2>10, <2>11, <2>12 DEF Carried
  <2>14. OneFits(t, timers, prog, delays, hooks.stop, finishing)
    BY <2>1, <2>4, <2>13, OneKept
  <2>. QED
    BY <1>1, <1>10, <2>2, <2>3, <2>14 DEF QueueInv
<1>. QED
  BY <1>8, <1>9, <1>10

LEMMA StopTimersQueue ==
  ASSUME EffectTypes, DrivenInv, QueueInv, StopTimers
  PROVE  QueueInv'
<1>1. PICK top, prog : top = steps[1] /\ prog = Running(animations)
  OBVIOUS
<1>2. /\ steps # <<>> /\ top \in Steps /\ top[1] = "stopping" /\ timers' = timers
      /\ \E new :
           /\ Restacked(steps', new, steps, 1)
           /\ \/ /\ top[2] = 0 /\ animations' = animations
                 /\ new = IF top[4] \/ ~top[3] THEN <<<<"dequeue">>>> ELSE <<>>
              \/ PassesTimer(new, top, timers, animations) /\ animations' = animations
              \/ StopsTimer(new, top, timers, animations', animations)
  BY <1>1, StopTimersDriven
<1>3. PICK new :
        /\ Restacked(steps', new, steps, 1)
        /\ \/ /\ top[2] = 0 /\ animations' = animations
              /\ new = IF top[4] \/ ~top[3] THEN <<<<"dequeue">>>> ELSE <<>>
           \/ PassesTimer(new, top, timers, animations) /\ animations' = animations
           \/ StopsTimer(new, top, timers, animations', animations)
  BY <1>2
<1>4. UNCHANGED <<queue, hooks, timers, delays, finishing, disturbed>>
  BY DEF StopTimers
<1>5. top[2] \in Nat /\ top[3] \in BOOLEAN /\ top[4] \in BOOLEAN /\ top[5] \in BOOLEAN
  BY <1>2, Parts
<1>6. \A m \in 2 .. Len(steps) : steps[m][1] # "stop" /\ steps[m][1] # "stopping"
  <2>1. steps[1][1] \notin Brief \cup {"splice"} /\ steps \in Seq(Steps) /\ StackFits(steps, queue = <<>>)
    BY <1>1, <1>2 DEF Brief, DrivenInv
  <2>2. \A m \in 2 .. Len(steps) : steps[m][1] \notin {"stop", "stopping", "splice"}
    BY <1>2, <2>1, NothingStops
  <2>. QED
    BY <2>2
<1>7. Len(steps) \in Nat /\ Len(steps) >= 1 /\ 1 \in 1 .. Len(steps) /\ steps[1] = top
  BY <1>1, <1>2 DEF DrivenInv
<1>8. \A m \in 1 .. Len(steps) : m = 1 \/ m \in 2 .. Len(steps)
  BY <1>7
<1>9. \A m \in 1 + 1 .. Len(steps) : m \in 2 .. Len(steps) /\ m \in 1 .. Len(steps)
  BY <1>7
<1>10. CASE disturbed'
  BY <1>10 DEF QueueInv
<1>11. ASSUME ~disturbed', queue = <<>>
       PROVE  /\ EmptyFits(steps, timers, prog, delays, finishing) /\ delays = {}
              /\ \A a \in prog : Reaches(top, timers, a)
              /\ \A m \in 1 + 1 .. Len(steps) : steps[m][1] = "start" /\ steps[m][2] => finishing
  <2>1. EmptyFits(steps, timers, prog, delays, finishing)
    BY <1>1, <1>4, <1>11 DEF QueueInv
  <2>2. ASSUME NEW a \in prog PROVE Reaches(top, timers, a)
    <3>1. PICK m \in 1 .. Len(steps) : Stopper(steps[m], timers, a)
      BY <2>1 DEF EmptyFits
    <3>2. steps[m][1] = "stop" \/ (steps[m][1] = "stopping" /\ Reaches(steps[m], timers, a))
      BY <3>1 DEF Stopper
    <3>3. m = 1
      BY <1>6, <1>8, <3>2
    <3>. QED
      BY <1>2, <1>7, <3>2, <3>3
  <2>. QED
    BY <1>9, <2>1, <2>2 DEF EmptyFits
<1>12. ASSUME ~disturbed', queue # <<>>
       PROVE  /\ OneFits(steps, timers, prog, delays, hooks.stop, finishing) /\ ~finishing
              /\ QueueFits(queue', steps') /\ queue' # <<>>
  <2>1. OneFits(steps, timers, prog, delays, hooks.stop, finishing) /\ QueueFits(queue, steps)
    BY <1>1, <1>4, <1>12 DEF QueueInv
  <2>2. QueueFits(queue', steps')
    BY <1>2, <1>4, <1>7, <2>1, QueueStays
  <2>. QED
    BY <1>4, <1>12, <2>1, <2>2 DEF OneFits
<1>13. ASSUME OneFits(steps, timers, prog, delays, hooks.stop, finishing), TakesOver(top) \/ prog # {}
       PROVE  delays = {} /\ \A m \in 1 + 1 .. Len(steps) : ~IsSpecial(steps[m])
  <2>1. \A m \in 1 .. Len(steps) : ~IsToken(steps[m])
    BY <1>7, <1>13, Zenon DEF OneFits
  <2>2. delays = {}
    BY <1>2, <1>7, <1>13, Zenon DEF OneFits, TakesOver
  <2>. QED
    BY <1>6, <1>9, <2>1, <2>2 DEF IsSpecial, TakesOver
<1>14. CASE top[2] = 0 /\ animations' = animations /\ new = IF top[4] \/ ~top[3] THEN <<<<"dequeue">>>> ELSE <<>>
  <2>1. \A a : ~Reaches(top, timers, a)
    <3>1. \A i \in 1 .. Len(timers) : ~(i <= top[2])
      BY <1>14
    <3>. QED
      BY <3>1 DEF Reaches
  <2>2. PICK x : x = <<"dequeue">>
    OBVIOUS
  <2>3. x \in Steps /\ x[1] = "dequeue"
    BY <2>2, Shapes
  <2>4. <<x>> \in Seq(Steps) /\ Len(<<x>>) = 1 /\ <<x>>[1] = x
    BY <2>3, OneStep
  <2>5. \A j \in 1 .. Len(new) : j = 1 /\ new[1] = x
    <3>1. new = <<x>> \/ new = <<>>
      BY <1>14, <2>2
    <3>2. Len(<<>>) = 0
      OBVIOUS
    <3>3. CASE new = <<x>>
      BY <2>4, <3>3
    <3>4. CASE new = <<>>
      BY <3>2, <3>4
    <3>. QED
      BY <3>1, <3>3, <3>4
  <2>6. CASE ~disturbed' /\ queue = <<>>
    <3>1. prog = {}
      BY <1>11, <2>1, <2>6
    <3>2. \A j \in 1 .. Len(new) : new[j][1] = "start" /\ new[j][2] => finishing
      BY <2>3, <2>5
    <3>3. \A m \in 1 + 1 .. Len(steps) : steps[m][1] = "start" /\ steps[m][2] => finishing
      BY <1>11, <2>6
    <3>4. EmptyFits(steps', timers, prog, {}, finishing)
      BY <1>3, <3>1, <3>2, <3>3, EmptyMoved
    <3>5. delays = {}
      BY <1>11, <2>6
    <3>. QED
      BY <1>1, <1>4, <1>14, <2>6, <3>4, <3>5 DEF QueueInv
  <2>7. CASE ~disturbed' /\ queue # <<>>
    <3>1. /\ OneFits(steps, timers, prog, delays, hooks.stop, finishing) /\ ~finishing
          /\ QueueFits(queue', steps') /\ queue' # <<>>
      BY <1>12, <2>7
    <3>2. CASE top[4] \/ ~top[3]
      <4>1. TakesOver(top)
        BY <1>2, <3>2 DEF TakesOver
      <4>2. delays = {} /\ \A m \in 1 + 1 .. Len(steps) : ~IsSpecial(steps[m])
        BY <1>13, <3>1, <4>1
      <4>3. prog = {}
        BY <1>2, <1>7, <2>1, <3>1, <3>2, Zenon DEF OneFits
      <4>4. new = <<x>>
        BY <1>14, <2>2, <3>2
      <4>5. IsToken(x) /\ ~TakesOver(x)
        BY <2>3 DEF IsToken, TakesOver
      <4>6. Len(new) = 1 /\ new[1] = x
        BY <2>4, <4>4
      <4>7. 1 \in 1 .. Len(new)
        BY <4>6
      <4>8. OneTokenPut(steps', new, steps, 1)
        BY <1>3, <2>5, <4>2, <4>5, <4>6, <4>7 DEF OneTokenPut
      <4>9. OneFits(steps', timers', {}, {}, hooks.stop, FALSE)
        BY <4>8, TokenPut
      <4>10. OneFits(steps', timers', {}, {}, hooks.stop, finishing)
        BY <3>1, <4>9 DEF OneFits
      <4>. QED
        BY <1>1, <1>4, <1>14, <2>7, <3>1, <4>2, <4>3, <4>10 DEF QueueInv
    <3>3. CASE ~(top[4] \/ ~top[3])
      <4>1. new = <<>>
        BY <1>14, <3>3
      <4>2. \A j \in 1 .. Len(new) : ~IsSpecial(new[j])
        <5>1. \A j \in 1 .. Len(<<>>) : FALSE
          OBVIOUS
        <5>. QED
          BY <4>1, <5>1
      <4>3. ~IsToken(steps[1]) /\ ~(steps[1][1] = "stopping" /\ ~steps[1][3])
        BY <1>2, <1>7, <3>3 DEF IsToken
      <4>4. OneStays(steps', new, steps, 1, timers, timers)
        BY <1>3, <4>2, <4>3, Zenon DEF OneStays
      <4>5. PICK d : d = Len(new) - 1
        OBVIOUS
      <4>6. Carried(steps', timers, steps, timers, prog, d) /\ Len(steps') \in Nat /\ d \in Int
        BY <4>4, <4>5, OneCarried
      <4>7. OneFits(steps', timers, prog, delays, hooks.stop, finishing)
        BY <3>1, <4>6, OneKept
      <4>. QED
        BY <1>1, <1>4, <1>14, <2>7, <3>1, <4>7 DEF QueueInv
    <3>. QED
      BY <3>2, <3>3
  <2>. QED
    BY <1>10, <2>6, <2>7
<1>15. CASE PassesTimer(new, top, timers, animations) /\ animations' = animations
  <2>1. PICK i, a : i = top[2] /\ a = timers[i]
    OBVIOUS
  <2>2. /\ i \in 1 .. Len(timers) /\ ~(animations[a].state = "running" /\ (top[5] => animations[a].queued))
        /\ Len(new) = 1 /\ new[1] = <<"stopping", i - 1, top[3], top[4], top[5]>>
    BY <1>15, <2>1 DEF PassesTimer
  <2>3. a \notin prog
    BY <1>1, <2>2 DEF Running
  <2>4. PICK x : x = new[1]
    OBVIOUS
  <2>5. x[1] = "stopping" /\ x[2] = i - 1 /\ x[3] = top[3] /\ x[4] = top[4]
    BY <2>2, <2>4
  <2>6. \A b \in prog : Reaches(top, timers, b) => Reaches(x, timers, b)
    BY <2>1, <2>2, <2>3, <2>5, ReachesNext
  <2>7. \A j \in 1 .. 1 - 1 : FALSE
    OBVIOUS
  <2>8. StopperMoves(new, top, timers, prog)
    BY <2>2, <2>4, <2>5, <2>6, <2>7 DEF StopperMoves
  <2>. QED
    BY <1>1, <1>2, <1>3, <1>4, <1>6, <1>15, <2>8, StopperQueue
<1>16. CASE StopsTimer(new, top, timers, animations', animations)
  <2>1. PICK i, a, n, bb : i = top[2] /\ a = timers[i] /\ n = Len(new) /\ bb = animations'
    OBVIOUS
  <2>2. /\ i \in 1 .. Len(timers) /\ animations[a].state = "running" /\ (top[5] => animations[a].queued)
        /\ Len(bb) = Len(animations) /\ bb[a].state # "running" /\ \A b \in 1 .. Len(animations) : b # a => bb[b] = animations[b]
        /\ n = IF top[3] THEN 4 ELSE IF animations[a].queued THEN 2 ELSE 3
        /\ new[n] = <<"stopping", i - 1, top[3], FALSE, top[5]>> /\ new[n - 1] = <<"splice", i>>
        /\ top[3] => new[1] = <<"callback">> /\ new[2] = IF animations[a].queued THEN <<"dequeue">> ELSE <<"uncount">>
        /\ ~top[3] /\ ~animations[a].queued => new[1] = <<"uncount">>
    BY <1>16, <2>1 DEF StopsTimer
  <2>3. a \in 1 .. Len(animations)
    BY <2>1, <2>2 DEF DrivenInv, TimersFit
  <2>4. Running(bb) = prog \ {a} /\ (a \in prog <=> animations[a].queued)
    BY <1>1, <2>2, <2>3, RunningEnds
  <2>5. PICK x, y : x = new[n] /\ y = new[n - 1]
    OBVIOUS
  <2>6. x[1] = "stopping" /\ x[2] = i - 1 /\ x[3] = top[3] /\ ~x[4] /\ y[1] = "splice"
    BY <2>2, <2>5
  <2>7. n \in {2, 3, 4} /\ n \in Nat \ {0} /\ n \in 1 .. n
    BY <2>2
  <2>8. ~IsSpecial(y) /\ ~IsToken(x) /\ (TakesOver(x) <=> ~top[3])
    BY <2>6 DEF IsSpecial, IsToken, TakesOver
  <2>9. \A b \in prog : b # a /\ Reaches(top, timers, b) => Reaches(x, timers, b)
    BY <2>1, <2>2, <2>6, ReachesNext
  <2>10. CASE ~animations[a].queued
    <3>1. PICK z, w : z = new[1] /\ w = new[2]
      OBVIOUS
    <3>2. top[3] => z[1] = "callback" /\ w[1] = "uncount"
      BY <2>2, <2>10, <3>1
    <3>3. ~top[3] => z[1] = "uncount"
      BY <2>2, <2>10, <3>1
    <3>4. ~IsSpecial(z) /\ (top[3] => ~IsSpecial(w))
      BY <1>5, <3>2, <3>3 DEF IsSpecial, IsToken, TakesOver
    <3>5. n = IF top[3] THEN 4 ELSE 3
      BY <2>2, <2>10
    <3>6. \A j \in 1 .. n - 1 : j = 1 \/ j = n - 1 \/ (j = 2 /\ top[3])
      <4>1. CASE top[3]
        <5>1. n = 4
          BY <3>5, <4>1
        <5>2. \A j \in 1 .. 4 - 1 : j = 1 \/ j = 4 - 1 \/ j = 2
          OBVIOUS
        <5>. QED
          BY <4>1, <5>1, <5>2
      <4>2. CASE ~top[3]
        <5>1. n = 3
          BY <3>5, <4>2
        <5>2. \A j \in 1 .. 3 - 1 : j = 1 \/ j = 3 - 1
          OBVIOUS
        <5>. QED
          BY <5>1, <5>2
      <4>. QED
        BY <4>1, <4>2
    <3>7. \A j \in 1 .. n - 1 : ~IsSpecial(new[j])
      BY <2>5, <2>8, <3>1, <3>4, <3>6
    <3>8. \A b \in prog : Reaches(top, timers, b) => Reaches(new[n], timers, b)
      BY <2>4, <2>5, <2>9, <2>10
    <3>9. StopperMoves(new, top, timers, prog)
      BY <2>1, <2>5, <2>6, <2>7, <3>7, <3>8 DEF StopperMoves
    <3>10. Running(animations') = prog
      BY <2>1, <2>4, <2>10
    <3>. QED
      BY <1>1, <1>2, <1>3, <1>4, <1>6, <3>9, <3>10, StopperQueue
  <2>11. CASE animations[a].queued
    <3>1. PICK z, w : z = new[1] /\ w = new[2]
      OBVIOUS
    <3>2. top[3] => n = 4 /\ z[1] = "callback" /\ w[1] = "dequeue"
      BY <2>2, <2>11, <3>1
    <3>3. ~top[3] => n = 2
      BY <2>2, <2>11
    <3>4. top[3] => ~IsSpecial(z) /\ IsToken(w) /\ ~TakesOver(w)
      BY <3>2 DEF IsSpecial, IsToken, TakesOver
    <3>5. \A j \in 1 .. n : j = n \/ j = n - 1 \/ (top[3] /\ (j = 1 \/ j = 2))
      <4>1. CASE top[3]
        <5>1. n = 4
          BY <3>2, <4>1
        <5>2. \A j \in 1 .. 4 : j = 4 \/ j = 4 - 1 \/ j = 1 \/ j = 2
          OBVIOUS
        <5>. QED
          BY <4>1, <5>1, <5>2
      <4>2. CASE ~top[3]
        <5>1. n = 2
          BY <3>3, <4>2
        <5>2. \A j \in 1 .. 2 : j = 2 \/ j = 2 - 1
          OBVIOUS
        <5>. QED
          BY <5>1, <5>2
      <4>. QED
        BY <4>1, <4>2
    <3>6. CASE ~disturbed' /\ queue = <<>>
      <4>1. \A b \in prog \ {a} : Stopper(x, timers, b)
        BY <1>11, <2>6, <2>9, <3>6 DEF Stopper
      <4>2. \A b \in prog \ {a} : \E j \in 1 .. Len(new) : Stopper(new[j], timers, b)
        BY <2>1, <2>5, <2>7, <4>1
      <4>3. \A j \in 1 .. Len(new) : new[j][1] = "start" /\ new[j][2] => finishing
        BY <2>1, <2>5, <2>6, <3>1, <3>2, <3>5
      <4>4. \A m \in 1 + 1 .. Len(steps) : steps[m][1] = "start" /\ steps[m][2] => finishing
        BY <1>11, <3>6
      <4>5. EmptyFits(steps', timers, prog \ {a}, {}, finishing)
        BY <1>3, <4>2, <4>3, <4>4, EmptyMoved
      <4>6. delays = {}
        BY <1>11, <3>6
      <4>. QED
        BY <1>4, <2>1, <2>4, <3>6, <4>5, <4>6 DEF QueueInv
    <3>7. CASE ~disturbed' /\ queue # <<>>
      <4>1. /\ OneFits(steps, timers, prog, delays, hooks.stop, finishing) /\ ~finishing
            /\ QueueFits(queue', steps') /\ queue' # <<>>
        BY <1>12, <3>7
      <4>2. a \in prog
        BY <2>4, <2>11
      <4>3. delays = {} /\ \A m \in 1 + 1 .. Len(steps) : ~IsSpecial(steps[m])
        BY <1>13, <4>1, <4>2
      <4>4. prog \ {a} = {}
        BY <4>1, <4>2 DEF OneFits
      <4>5. OneFits(steps', timers', {}, {}, hooks.stop, FALSE)
        <5>1. CASE top[3]
          <6>1. \A j \in 1 .. Len(new) : j # 2 => ~IsSpecial(new[j])
            <7>1. ~IsSpecial(x)
              BY <2>8, <5>1 DEF IsSpecial
            <7>. QED
              BY <2>1, <2>5, <2>8, <3>1, <3>4, <3>5, <5>1, <7>1
          <6>2. 2 \in 1 .. Len(new)
            <7>1. Len(new) = 4
              BY <2>1, <3>2, <5>1
            <7>. QED
              BY <7>1
          <6>3. OneTokenPut(steps', new, steps, 1)
            BY <1>3, <3>1, <3>4, <4>3, <5>1, <6>1, <6>2 DEF OneTokenPut
          <6>. QED
            BY <6>3, TokenPut
        <5>2. CASE ~top[3]
          <6>1. n = 2 /\ n \in 1 .. Len(steps') /\ steps'[n] = x
            BY <1>3, <2>1, <2>5, <2>7, <3>3, <5>2, PlacesOf DEF Restacked
          <6>2. \A k \in 1 .. Len(steps') : k # n => ~IsSpecial(steps'[k])
            <7>1. \A k \in 1 .. Len(steps') : \/ k \in 1 .. n /\ steps'[k] = new[k]
                                              \/ \E m \in 1 + 1 .. Len(steps) : steps'[k] = steps[m]
              BY <1>3, <2>1, PlacesOf
            <7>2. \A k \in 1 .. n : k # n => new[k] = y
              BY <2>5, <3>5, <5>2
            <7>. QED
              BY <2>8, <4>3, <7>1, <7>2
          <6>3. ~steps'[n][3] /\ steps'[n][1] = "stopping"
            BY <2>6, <5>2, <6>1
          <6>. QED
            BY <6>1, <6>2, <6>3, OneStopper
        <5>. QED
          BY <5>1, <5>2
      <4>6. OneFits(steps', timers', {}, {}, hooks.stop, finishing)
        BY <4>1, <4>5 DEF OneFits
      <4>. QED
        BY <1>4, <2>1, <2>4, <3>7, <4>1, <4>3, <4>4, <4>6 DEF QueueInv
    <3>. QED
      BY <1>10, <3>6, <3>7
  <2>. QED
    BY <2>10, <2>11
<1>. QED
  BY <1>3, <1>14, <1>15, <1>16

LEMMA StopDelayQueue ==
  ASSUME EffectTypes, DrivenInv, QueueInv, StopDelay
  PROVE  QueueInv'
<1>1. PICK gotoEnd, prog : gotoEnd = steps[1][2] /\ prog = Running(animations)
  OBVIOUS
<1>2. /\ steps[1][1] = "stop" /\ gotoEnd \in BOOLEAN /\ UNCHANGED <<timers, animations>>
      /\ \A m \in 2 .. Len(steps) : steps[m][1] \notin {"stop", "stopping", "splice"}
      /\ \E new : Restacked(steps', new, steps, 1) /\ Len(new) = 1 /\ new[1] = <<"stopping", Len(timers), gotoEnd, TRUE, FALSE>>
  BY <1>1, StopDelayDriven
<1>3. PICK new : Restacked(steps', new, steps, 1) /\ Len(new) = 1 /\ new[1] = <<"stopping", Len(timers), gotoEnd, TRUE, FALSE>>
  BY <1>2
<1>4. delays' = delays \ {hooks.stop} /\ UNCHANGED <<queue, finishing, disturbed>>
  BY DEF StopDelay
<1>5. Len(steps) \in Nat /\ Len(steps) >= 1 /\ 1 \in 1 .. Len(steps)
  BY TopOf DEF DrivenInv, StopDelay
<1>6. PICK x : x = new[1]
  OBVIOUS
<1>7. x[1] = "stopping" /\ x[2] = Len(timers) /\ x[3] = gotoEnd
  BY <1>3, <1>6
<1>8. \A a \in prog : Reaches(x, timers, a)
  BY <1>1, <1>7, ReachesAll DEF DrivenInv
<1>9. 1 \in 1 .. Len(new) /\ \A j \in 1 .. Len(new) : j = 1
  BY <1>3
<1>10. \A m \in 1 + 1 .. Len(steps) : m \in 2 .. Len(steps) /\ m \in 1 .. Len(steps)
  BY <1>5
<1>11. CASE disturbed'
  BY <1>11 DEF QueueInv
<1>12. CASE ~disturbed' /\ queue = <<>>
  <2>1. EmptyFits(steps, timers, prog, delays, finishing)
    BY <1>1, <1>4, <1>12 DEF QueueInv
  <2>2. delays' = {}
    BY <1>4, <2>1 DEF EmptyFits
  <2>3. \A a \in prog : \E j \in 1 .. Len(new) : Stopper(new[j], timers, a)
    BY <1>6, <1>7, <1>8, <1>9 DEF Stopper
  <2>4. \A j \in 1 .. Len(new) : new[j][1] = "start" /\ new[j][2] => finishing
    BY <1>6, <1>7, <1>9
  <2>5. \A m \in 1 + 1 .. Len(steps) : steps[m][1] = "start" /\ steps[m][2] => finishing
    BY <1>10, <2>1 DEF EmptyFits
  <2>6. EmptyFits(steps', timers, prog, {}, finishing)
    BY <1>3, <2>3, <2>4, <2>5, EmptyMoved
  <2>. QED
    BY <1>1, <1>2, <1>4, <1>12, <2>2, <2>6 DEF QueueInv
<1>13. CASE ~disturbed' /\ queue # <<>>
  <2>1. OneFits(steps, timers, prog, delays, hooks.stop, finishing) /\ QueueFits(queue, steps)
    BY <1>1, <1>4, <1>13 DEF QueueInv
  <2>2. ~finishing /\ (\A a, b \in prog : a = b) /\ delays' = {}
    BY <1>4, <2>1 DEF OneFits
  <2>3. TakesOver(steps[1])
    BY <1>2 DEF TakesOver
  <2>4. \A m \in 1 .. Len(steps) : ~IsToken(steps[m])
    BY <1>5, <2>1, <2>3, Zenon DEF OneFits
  <2>5. \A m \in 1 + 1 .. Len(steps) : ~IsSpecial(steps[m])
    BY <1>2, <1>10, <2>4 DEF IsSpecial, TakesOver
  <2>6. ASSUME prog = {} PROVE ~x[3]
    <3>1. SUFFICES ASSUME gotoEnd PROVE FALSE
      BY <1>7
    <3>2. delays = {}
      BY <1>1, <1>2, <1>5, <2>1, <3>1, Zenon DEF OneFits
    <3>3. PICK m \in 1 .. Len(steps) : IsToken(steps[m]) \/ (steps[m][1] = "stopping" /\ ~steps[m][3])
      BY <2>1, <2>6, <3>2, Zenon DEF OneFits
    <3>4. steps[m][1] = "stopping"
      BY <2>4, <3>3
    <3>5. m \in 2 .. Len(steps) \/ m = 1
      BY <1>5
    <3>. QED
      BY <1>2, <3>4, <3>5
  <2>7. 1 \in 1 .. Len(steps') /\ steps'[1] = x
    BY <1>3, <1>6, <1>9, PlacesOf DEF Restacked
  <2>8. \A k \in 1 .. Len(steps') : k # 1 => ~IsSpecial(steps'[k])
    <3>1. ASSUME NEW k \in 1 .. Len(steps')
          PROVE  \/ k \in 1 .. Len(new) /\ steps'[k] = new[k]
                 \/ \E m \in 1 + 1 .. Len(steps) : steps'[k] = steps[m]
      BY <1>3, PlacesOf
    <3>. QED
      BY <1>9, <2>5, <3>1
  <2>9. OneFits(steps', timers, prog, {}, hooks'.stop, FALSE)
    BY <1>7, <1>8, <2>2, <2>6, <2>7, <2>8, OneStopper
  <2>10. OneFits(steps', timers, prog, {}, hooks'.stop, finishing)
    BY <2>2, <2>9 DEF OneFits
  <2>11. QueueFits(queue, steps')
    BY <1>2, <2>1, QueueStays
  <2>. QED
    BY <1>1, <1>2, <1>4, <1>13, <2>2, <2>10, <2>11 DEF QueueInv
<1>. QED
  BY <1>11, <1>12, <1>13

LEMMA EndQueue ==
  ASSUME DrivenInv, QueueInv, FinishEnds, ~disturbed
  PROVE  QueueInv'
<1>1. /\ Restacked(steps', <<>>, steps, 1) /\ steps[1][1] = "finished"
      /\ \A m \in 2 .. Len(steps) : ~(steps[m][1] = "start" /\ steps[m][2])
  BY EndDriven
<1>2. UNCHANGED <<queue, hooks, animations, timers, delays, disturbed>>
  BY DEF FinishEnds
<1>3. Len(steps) \in Nat /\ 1 \in 1 .. Len(steps)
  BY TopOf DEF DrivenInv, FinishEnds
<1>4. finishing
  BY <1>1, <1>3 DEF DrivenInv, HasStep
<1>5. CASE disturbed'
  BY <1>5 DEF QueueInv
<1>6. CASE ~disturbed' /\ queue # <<>>
  BY <1>2, <1>4, <1>6 DEF QueueInv, OneFits
<1>7. CASE ~disturbed' /\ queue = <<>>
  <2>1. PICK prog : prog = Running(animations)
    OBVIOUS
  <2>2. EmptyFits(steps, timers, prog, delays, finishing)
    BY <1>2, <1>7, <2>1 DEF QueueInv
  <2>3. ASSUME NEW a \in prog PROVE \E m \in 1 + 1 .. Len(steps) : Stopper(steps[m], timers, a)
    <3>1. PICK m \in 1 .. Len(steps) : Stopper(steps[m], timers, a)
      BY <2>2 DEF EmptyFits
    <3>2. m # 1
      BY <1>1, <3>1 DEF Stopper
    <3>3. m \in 1 + 1 .. Len(steps)
      BY <1>3, <3>2
    <3>. QED
      BY <3>1, <3>3
  <2>4. \A j \in 1 .. Len(<<>>) : FALSE
    OBVIOUS
  <2>5. \A m \in 1 + 1 .. Len(steps) : ~(steps[m][1] = "start" /\ steps[m][2])
    BY <1>1
  <2>6. EmptyFits(steps', timers, prog, {}, finishing')
    BY <1>1, <2>3, <2>4, <2>5, EmptyMoved
  <2>7. delays = {}
    BY <2>2 DEF EmptyFits
  <2>. QED
    BY <1>2, <1>7, <2>1, <2>6, <2>7 DEF QueueInv
<1>. QED
  BY <1>5, <1>6, <1>7

(* What the page may call is called in a script or from a callback: nothing *)
(* above that takes over, and nothing is started out of turn.               *)
LEMMA PageCalls ==
  ASSUME DrivenInv, PageMay, ~disturbed
  PROVE  /\ steps \in Seq(Steps) /\ Len(steps) \in Nat
         /\ steps = <<>> \/ (steps # <<>> /\ steps[1][1] = "callback")
         /\ \A m \in 1 .. Len(steps) : ~TakesOver(steps[m])
         /\ \A m \in 1 .. Len(steps) : steps[m][1] = "start" /\ steps[m][2] => finishing
         /\ finishing => FromACallback
<1>1. /\ steps \in Seq(Steps) /\ Len(steps) \in Nat
      /\ steps = <<>> \/ (steps # <<>> /\ steps[1] = <<"callback">>)
      /\ \A m \in 1 .. Len(steps) : ~TakesOver(steps[m])
      /\ \A m \in 1 .. Len(steps) : steps[m][1] = "start" /\ steps[m][2] => m # 1
      /\ \A m \in 1 .. Len(steps) : steps[m][1] = "finished" => \E i \in 1 .. m - 1 : steps[i] = <<"dequeue">>
  BY CallbackOnTop
<1>2. ASSUME NEW m \in 1 .. Len(steps), steps[m][1] = "start", steps[m][2] PROVE finishing
  <2>1. m # 1 /\ FinishAt(steps, m)
    BY <1>1, <1>2 DEF DrivenInv, StackFits
  <2>2. PICK i \in m + 1 .. Len(steps) : steps[i][1] = "finished"
    BY <1>2, <2>1 DEF FinishAt
  <2>3. i \in 1 .. Len(steps)
    BY <1>1
  <2>. QED
    BY <2>2, <2>3 DEF DrivenInv, HasStep
<1>3. ASSUME finishing PROVE FromACallback
  <2>1. PICK m \in 1 .. Len(steps) : steps[m][1] = "finished"
    BY <1>3 DEF DrivenInv, HasStep
  <2>2. PICK i \in 1 .. m - 1 : steps[i] = <<"dequeue">>
    BY <1>1, <2>1
  <2>3. i \in 1 .. Len(steps) /\ steps[i][1] = "dequeue"
    BY <1>1, <2>2
  <2>4. i \in DOMAIN steps
    BY <1>1, <2>3
  <2>. QED
    BY <2>3, <2>4 DEF FromACallback, Owes
<1>. QED
  BY <1>1, <1>2, <1>3

LEMMA NoToCome ==
  ASSUME DrivenInv, PageMay, ~disturbed, ~FromACallback
  PROVE  ~finishing /\ \A m \in 1 .. Len(steps) : ~IsSpecial(steps[m])
<1>1. /\ steps \in Seq(Steps) /\ Len(steps) \in Nat /\ ~finishing
      /\ \A m \in 1 .. Len(steps) : ~TakesOver(steps[m]) /\ ~(steps[m][1] = "start" /\ steps[m][2])
  BY PageCalls
<1>2. \A m \in 1 .. Len(steps) : m \in DOMAIN steps
  BY <1>1
<1>3. \A m \in 1 .. Len(steps) : steps[m][1] # "dequeue"
  BY <1>2 DEF FromACallback, Owes
<1>. QED
  BY <1>1, <1>3 DEF IsSpecial, IsToken

LEMMA NothingQueuedRuns ==
  ASSUME DrivenInv, ~QueuedRuns
  PROVE  Running(animations) = {}
<1>1. DOMAIN animations = 1 .. Len(animations)
  BY DEF DrivenInv, TimersFit
<1>. QED
  BY <1>1 DEF QueuedRuns, IsRunning, Running

(* A call that puts nothing special on the stack. *)
LEMMA QuietCall ==
  ASSUME DrivenInv, QueueInv, PageMay, NEW new, Restacked(steps', new, steps, 0),
         \A j \in 1 .. Len(new) : ~IsSpecial(new[j]),
         UNCHANGED <<timers, animations, delays, finishing>>, disturbed => disturbed',
         queue = <<>> <=> queue' = <<>>,
         ~disturbed /\ queue # <<>> => QueueFits(queue', steps') /\ hooks'.stop = hooks.stop
  PROVE  QueueInv'
<1>1. Quiet(steps', new, steps, 0, timers, timers')
  <2>1. 0 # 1
    OBVIOUS
  <2>. QED
    BY <2>1, Zenon DEF Quiet
<1>. QED
  BY <1>1, QuietQueue

LEMMA UnqueuedQueue ==
  ASSUME DrivenInv, QueueInv, AnimateUnqueued
  PROVE  QueueInv'
<1>1. PICK new, instant : /\ instant \in BOOLEAN /\ Restacked(steps', new, steps, 0)
                          /\ new = <<<<"start", FALSE, instant>>>>
  BY UnqueuedDriven
<1>2. PageMay /\ UNCHANGED <<queue, hooks, timers, animations, delays, finishing>> /\ (disturbed => disturbed')
  BY DEF AnimateUnqueued, Called
<1>3. PICK x : x = <<"start", FALSE, instant>>
  OBVIOUS
<1>4. x \in Steps /\ x[1] = "start" /\ x[2] = FALSE
  BY <1>1, <1>3, Shapes
<1>5. Len(<<x>>) = 1 /\ <<x>>[1] = x
  BY <1>4, OneStep
<1>6. ~IsSpecial(x)
  BY <1>4 DEF IsSpecial, IsToken, TakesOver
<1>7. \A j \in 1 .. Len(new) : ~IsSpecial(new[j])
  <2>1. new = <<x>>
    BY <1>1, <1>3
  <2>2. Len(new) = 1 /\ new[1] = x
    BY <1>5, <2>1
  <2>3. \A j \in 1 .. Len(new) : j = 1
    BY <2>2
  <2>. QED
    BY <1>6, <2>2, <2>3
<1>8. ~disturbed /\ queue # <<>> => QueueFits(queue, steps')
  <2>0. steps = <<>> \/ steps[1] = <<"callback">>
    BY <1>2, CallbackOnTop
  <2>1. steps = <<>> \/ steps[1][1] # "dequeue"
    BY <2>0
  <2>. QED
    BY <2>1, QueueStays DEF QueueInv
<1>. QED
  BY <1>1, <1>2, <1>7, <1>8, QuietCall

LEMMA PromiseQueue ==
  ASSUME DrivenInv, QueueInv, GetPromise
  PROVE  QueueInv'
<1>1. steps' = steps
  BY PromiseDriven
<1>2. UNCHANGED <<queue, hooks, timers, animations, delays, finishing>> /\ (disturbed' <=> disturbed)
  BY DEF GetPromise, Called
<1>. QED
  BY <1>1, <1>2 DEF QueueInv

LEMMA ClearQueueQueue ==
  ASSUME DrivenInv, QueueInv, ClearQueue
  PROVE  QueueInv'
<1>1. PICK new : Restacked(steps', new, steps, 0) /\ new = <<<<"dequeue">>>>
  BY DequeuesDriven
<1>2. /\ PageMay /\ queue' = <<>> /\ UNCHANGED <<timers, animations, delays, finishing>>
      /\ disturbed' = (disturbed \/ DelayPending \/ QueuedRuns)
  BY DEF ClearQueue, Called
<1>3. CASE disturbed'
  BY <1>3 DEF QueueInv
<1>4. CASE ~disturbed'
  <2>0. ~disturbed
    BY <1>2, <1>4
  <2>1. Running(animations) = {} /\ delays = {}
    BY <1>2, <1>4, NothingQueuedRuns DEF DelayPending
  <2>2. PICK x : x = <<"dequeue">>
    OBVIOUS
  <2>3. x \in Steps /\ x[1] = "dequeue"
    BY <2>2, Shapes
  <2>4. Len(<<x>>) = 1 /\ <<x>>[1] = x
    BY <2>3, OneStep
  <2>5. new = <<x>>
    BY <1>1, <2>2
  <2>6. Len(new) = 1 /\ new[1][1] = "dequeue"
    BY <2>3, <2>4, <2>5
  <2>7. \A j \in 1 .. Len(new) : j = 1
    BY <2>6
  <2>8. \A j \in 1 .. Len(new) : new[j][1] = "start" /\ new[j][2] => finishing
    BY <2>6, <2>7
  <2>9. \A m \in 0 + 1 .. Len(steps) : steps[m][1] = "start" /\ steps[m][2] => finishing
    BY <1>2, <1>4, <2>0, PageCalls
  <2>10. EmptyFits(steps', timers, {}, {}, finishing)
    BY <1>1, <2>8, <2>9, EmptyMoved
  <2>. QED
    BY <1>2, <1>4, <2>1, <2>10 DEF QueueInv
<1>. QED
  BY <1>3, <1>4

LEMMA EnqueueQueue ==
  ASSUME EffectTypes, DrivenInv, QueueInv, NEW item \in Items, item.kind # "inprogress", Enqueue(item), ~disturbed
  PROVE  QueueInv'
<1>1. PICK starts : starts = (queue = <<>> \/ Head(queue) # Sentinel)
  OBVIOUS
<1>2. /\ PageMay /\ queue' = Append(queue, item) /\ hooks' = [hooks EXCEPT !.there = TRUE]
      /\ UNCHANGED <<timers, animations, delays, finishing>>
      /\ disturbed' = (disturbed \/ (starts /\ (FromACallback \/ QueuedRuns \/ DelayPending)))
  BY <1>1 DEF Enqueue, Called
<1>3. PICK new : /\ Restacked(steps', new, steps, 0) /\ steps' = new \o steps
                 /\ new = IF starts THEN <<<<"dequeue">>>> ELSE <<>>
  BY <1>1, EnqueueDriven
<1>4. hooks'.stop = hooks.stop
  BY <1>2 DEF EffectTypes
<1>5. /\ queue \in Seq(Items) /\ Len(queue) \in Nat /\ queue' \in Seq(Items) /\ Len(queue') = Len(queue) + 1
      /\ queue'[Len(queue) + 1] = item /\ \A i \in 1 .. Len(queue) : queue'[i] = queue[i]
  BY <1>2, AppendProperties, LenProperties DEF EffectTypes
<1>6. queue' # <<>>
  BY <1>5
<1>7. steps \in Seq(Steps) /\ (steps = <<>> \/ steps[1][1] = "callback")
  BY <1>2, PageCalls
<1>8. CASE disturbed'
  BY <1>8 DEF QueueInv
<1>9. CASE ~disturbed' /\ queue = <<>>
  <2>1. starts /\ ~disturbed /\ ~FromACallback /\ ~QueuedRuns /\ delays = {}
    BY <1>1, <1>2, <1>9 DEF DelayPending
  <2>2. Running(animations) = {}
    BY <2>1, NothingQueuedRuns
  <2>3. ~finishing /\ \A m \in 1 .. Len(steps) : ~IsSpecial(steps[m])
    BY <1>2, <2>1, NoToCome
  <2>4. PICK x : x = <<"dequeue">>
    OBVIOUS
  <2>5. x \in Steps /\ x[1] = "dequeue"
    BY <2>4, Shapes
  <2>6. <<x>> \in Seq(Steps) /\ Len(<<x>>) = 1 /\ <<x>>[1] = x
    BY <2>5, OneStep
  <2>7. new = <<x>>
    BY <1>3, <2>1, <2>4
  <2>8. Len(new) = 1 /\ new[1] = x
    BY <2>6, <2>7
  <2>9. 1 \in 1 .. Len(new) /\ \A j \in 1 .. Len(new) : j = 1
    BY <2>8
  <2>10. IsToken(x) /\ ~TakesOver(x)
    BY <2>5 DEF IsToken, TakesOver
  <2>11. \A m \in 0 + 1 .. Len(steps) : ~IsSpecial(steps[m])
    BY <2>3
  <2>12. OneTokenPut(steps', new, steps, 0)
    BY <1>3, <2>8, <2>9, <2>10, <2>11 DEF OneTokenPut
  <2>13. OneFits(steps', timers', {}, {}, hooks'.stop, FALSE)
    BY <2>12, TokenPut
  <2>14. OneFits(steps', timers', {}, {}, hooks'.stop, finishing')
    BY <1>2, <2>3, <2>13 DEF OneFits
  <2>15. QueueFits(queue', steps')
    <3>1. Len(queue) = 0
      BY <1>9
    <3>2. queue'[1] = item /\ Len(queue') = 1
      BY <1>5, <3>1
    <3>3. \A i \in 2 .. Len(queue') : FALSE
      BY <3>2
    <3>4. 1 \in 1 .. Len(steps') /\ steps'[1] = x
      BY <1>3, <2>8, <2>9, PlacesOf DEF Restacked
    <3>5. steps' # <<>>
      <4>1. Len(<<>>) = 0
        OBVIOUS
      <4>. QED
        BY <3>4, <4>1
    <3>. QED
      BY <1>5, <1>6, <2>5, <3>2, <3>3, <3>4, <3>5 DEF QueueFits
  <2>. QED
    BY <1>2, <1>6, <2>1, <2>2, <2>14, <2>15 DEF QueueInv
<1>10. CASE ~disturbed' /\ queue # <<>>
  <2>1. QueueFits(queue, steps)
    BY <1>2, <1>10 DEF QueueInv
  <2>2. queue[1] = Sentinel /\ Head(queue) = queue[1]
    BY <1>7, <2>1, HeadTailProperties DEF QueueFits
  <2>3. new = <<>>
    BY <1>1, <1>3, <1>10, <2>2
  <2>4. \A j \in 1 .. Len(new) : ~IsSpecial(new[j])
    <3>1. \A j \in 1 .. Len(<<>>) : FALSE
      OBVIOUS
    <3>. QED
      BY <2>3, <3>1
  <2>5. QueueFits(queue', steps')
    <3>1. Len(queue) >= 1
      BY <1>5, <1>10
    <3>2. queue'[1] = Sentinel
      BY <1>5, <2>2, <3>1
    <3>3. ASSUME NEW i \in 2 .. Len(queue') PROVE queue'[i].kind # "inprogress"
      <4>1. i \in 2 .. Len(queue) \/ i = Len(queue) + 1
        BY <1>5
      <4>2. \A j \in 2 .. Len(queue) : j \in 1 .. Len(queue)
        BY <1>5
      <4>3. \A j \in 2 .. Len(queue) : queue[j].kind # "inprogress"
        BY <2>1 DEF QueueFits
      <4>. QED
        BY <1>5, <4>1, <4>2, <4>3
    <3>. QED
      BY <1>5, <1>6, <3>2, <3>3 DEF QueueFits
  <2>6. disturbed => disturbed'
    BY <1>2
  <2>. QED
    BY <1>2, <1>3, <1>4, <1>6, <1>10, <2>4, <2>5, <2>6, QuietCall
<1>. QED
  BY <1>8, <1>9, <1>10

LEMMA TimeoutQueue ==
  ASSUME EffectTypes, DrivenInv, QueueInv, TimeoutElapses
  PROVE  QueueInv'
<1>1. PICK new : Restacked(steps', new, steps, 0) /\ new = <<<<"dequeue">>>>
  BY DequeuesDriven
<1>2. PICK d \in delays : delays' = delays \ {d}
  BY DEF TimeoutElapses
<1>3. steps = <<>> /\ UNCHANGED <<queue, hooks, animations, timers, finishing, disturbed>>
  BY DEF TimeoutElapses
<1>4. \A m \in 1 .. Len(steps) : FALSE
  <2>1. Len(steps) = 0
    BY <1>3
  <2>. QED
    BY <2>1
<1>5. CASE disturbed'
  BY <1>5 DEF QueueInv
<1>6. CASE ~disturbed' /\ queue = <<>>
  BY <1>2, <1>3, <1>6 DEF QueueInv, EmptyFits
<1>7. CASE ~disturbed' /\ queue # <<>>
  <2>1. PICK prog : prog = Running(animations)
    OBVIOUS
  <2>2. OneFits(steps, timers, prog, delays, hooks.stop, finishing) /\ QueueFits(queue, steps)
    BY <1>3, <1>7, <2>1 DEF QueueInv
  <2>3. ~finishing /\ prog = {} /\ delays' = {}
    BY <1>2, <2>2 DEF OneFits
  <2>4. PICK x : x = <<"dequeue">>
    OBVIOUS
  <2>5. x \in Steps /\ x[1] = "dequeue"
    BY <2>4, Shapes
  <2>6. <<x>> \in Seq(Steps) /\ Len(<<x>>) = 1 /\ <<x>>[1] = x
    BY <2>5, OneStep
  <2>7. new = <<x>>
    BY <1>1, <2>4
  <2>8. Len(new) = 1 /\ new[1] = x
    BY <2>6, <2>7
  <2>9. 1 \in 1 .. Len(new) /\ \A j \in 1 .. Len(new) : j = 1
    BY <2>8
  <2>10. IsToken(x) /\ ~TakesOver(x)
    BY <2>5 DEF IsToken, TakesOver
  <2>11. \A m \in 0 + 1 .. Len(steps) : ~IsSpecial(steps[m])
    BY <1>4
  <2>12. OneTokenPut(steps', new, steps, 0)
    BY <1>1, <2>8, <2>9, <2>10, <2>11 DEF OneTokenPut
  <2>13. OneFits(steps', timers', {}, {}, hooks'.stop, FALSE)
    BY <2>12, TokenPut
  <2>14. OneFits(steps', timers', {}, {}, hooks'.stop, finishing')
    BY <1>3, <2>3, <2>13 DEF OneFits
  <2>15. QueueFits(queue, steps')
    BY <1>3, <2>2, QueueStays
  <2>. QED
    BY <1>3, <1>7, <2>1, <2>3, <2>14, <2>15 DEF QueueInv
<1>. QED
  BY <1>5, <1>6, <1>7

LEMMA StopQueue ==
  ASSUME DrivenInv, QueueInv, Stop, ~nested'
  PROVE  QueueInv'
<1>1. PICK new, clearQueue, gotoEnd :
        /\ Restacked(steps', new, steps, 0) /\ clearQueue \in BOOLEAN /\ gotoEnd \in BOOLEAN
        /\ IF clearQueue
           THEN Len(new) = 2 /\ new[1] = <<"dequeue">> /\ new[2] = <<"stop", gotoEnd>> /\ queue' = <<>>
           ELSE Len(new) = 1 /\ new[1] = <<"stop", gotoEnd>> /\ queue' = queue
        /\ disturbed' = (disturbed \/ (FromACallback /\ ~clearQueue) \/ (DelayPending /\ (clearQueue \/ gotoEnd)))
  BY StopDriven
<1>2. PageMay /\ ~Owes("stopping") /\ ~Owes("finished") /\ UNCHANGED <<hooks, timers, animations, delays, finishing>>
  BY StopDriven DEF Stop
<1>3. /\ \A m \in 1 .. Len(steps) : ~(steps[m][1] = "start" /\ steps[m][2])
      /\ \A m \in 1 .. Len(steps) : steps[m][1] # "stop" /\ steps[m][1] # "stopping"
  <2>1. \A m \in 1 .. Len(steps) :
           /\ steps[m][1] \notin {"stop", "stopping", "splice", "finished"}
           /\ ~(steps[m][1] = "start" /\ steps[m][2])
    BY <1>2, NothingIsStopped
  <2>. QED
    BY <2>1
<1>4. PICK prog, x, n : prog = Running(animations) /\ n = Len(new) /\ x = new[n]
  OBVIOUS
<1>5. n \in 1 .. n /\ x[1] = "stop" /\ x[2] = gotoEnd /\ \A j \in 1 .. n : j = n \/ (clearQueue /\ new[j][1] = "dequeue")
  <2>1. CASE clearQueue
    <3>1. n = 2 /\ new[1][1] = "dequeue" /\ x[1] = "stop" /\ x[2] = gotoEnd
      BY <1>1, <1>4, <2>1
    <3>2. \A j \in 1 .. 2 : j = 2 \/ j = 1
      OBVIOUS
    <3>. QED
      BY <2>1, <3>1, <3>2
  <2>2. CASE ~clearQueue
    <3>1. n = 1 /\ x[1] = "stop" /\ x[2] = gotoEnd
      BY <1>1, <1>4, <2>2
    <3>. QED
      BY <3>1
  <2>. QED
    BY <2>1, <2>2
<1>6. CASE disturbed'
  BY <1>6 DEF QueueInv
<1>7. CASE ~disturbed' /\ queue' = <<>>
  <2>1. delays = {}
    <3>1. CASE clearQueue
      BY <1>1, <1>7, <3>1 DEF DelayPending
    <3>2. CASE ~clearQueue
      BY <1>1, <1>7, <3>2 DEF QueueInv, EmptyFits
    <3>. QED
      BY <3>1, <3>2
  <2>2. \A a \in prog : \E j \in 1 .. Len(new) : Stopper(new[j], timers, a)
    BY <1>4, <1>5 DEF Stopper
  <2>3. \A j \in 1 .. Len(new) : new[j][1] = "start" /\ new[j][2] => finishing
    BY <1>4, <1>5
  <2>4. \A m \in 0 + 1 .. Len(steps) : steps[m][1] = "start" /\ steps[m][2] => finishing
    BY <1>3
  <2>5. EmptyFits(steps', timers, prog, {}, finishing)
    BY <1>1, <2>2, <2>3, <2>4, EmptyMoved
  <2>. QED
    BY <1>2, <1>4, <1>7, <2>1, <2>5 DEF QueueInv
<1>8. CASE ~disturbed' /\ queue' # <<>>
  <2>1. ~clearQueue /\ queue' = queue /\ ~disturbed /\ ~FromACallback /\ (gotoEnd => delays = {})
    BY <1>1, <1>8 DEF DelayPending
  <2>2. OneFits(steps, timers, prog, delays, hooks.stop, finishing) /\ QueueFits(queue, steps)
    BY <1>4, <1>8, <2>1 DEF QueueInv
  <2>3. \A m \in 1 .. Len(steps) : ~IsSpecial(steps[m])
    BY <1>2, <2>1, NoToCome
  <2>4. /\ ~finishing
        /\ \/ delays = {} /\ \E a : prog = {a}
           \/ prog = {} /\ delays = {hooks.stop}
    <3>1. ~finishing
      BY <2>2 DEF OneFits
    <3>. QED
      BY <2>2, <2>3, <3>1, NoneSpecial
  <2>5. ASSUME NEW k \in 1 .. Len(steps') PROVE ~IsSpecial(steps'[k]) \/ steps'[k] = x
    <3>1. (k \in 1 .. Len(new) /\ steps'[k] = new[k]) \/ \E m \in 0 + 1 .. Len(steps) : steps'[k] = steps[m]
      BY <1>1, PlacesOf
    <3>. QED
      BY <1>4, <1>5, <2>1, <2>3, <3>1
  <2>6. ~IsToken(x)
    BY <1>5 DEF IsToken
  <2>7. \A k \in 1 .. Len(steps') : ~IsToken(steps'[k])
    BY <2>5, <2>6 DEF IsSpecial
  <2>8. \A k \in 1 .. Len(steps') : steps'[k][1] # "stopping" \/ ~(steps'[k][4] \/ ~steps'[k][3])
    BY <1>5, <2>5 DEF IsSpecial, TakesOver
  <2>9. \A k \in 1 .. Len(steps') : steps'[k][1] = "stop" /\ steps'[k][2] => delays = {}
    BY <1>5, <2>1, <2>5 DEF IsSpecial, TakesOver
  <2>10. (prog # {} => delays = {}) /\ (\A a, b \in prog : a = b) /\ delays \subseteq {hooks.stop} /\ ~(prog = {} /\ delays = {})
    BY <2>4
  <2>11. OneFits(steps', timers, prog, delays, hooks.stop, finishing)
    BY <2>4, <2>7, <2>8, <2>9, <2>10, Zenon DEF OneFits
  <2>12. QueueFits(queue, steps')
    <3>1. steps = <<>> \/ steps[1][1] = "callback"
      BY <1>2, <2>1, PageCalls
    <3>. QED
      BY <2>2, <3>1, QueueStays
  <2>. QED
    BY <1>2, <1>4, <1>8, <2>1, <2>11, <2>12 DEF QueueInv
<1>. QED
  BY <1>6, <1>7, <1>8

LEMMA FinishQueue ==
  ASSUME EffectTypes, DrivenInv, QueueInv, Finish, ~nested'
  PROVE  QueueInv'
<1>1. PICK new, n :
        /\ Restacked(steps', new, steps, 0) /\ n \in Nat /\ Len(new) = n + 2
        /\ new[1] = <<"stopping", Len(timers), TRUE, FALSE, TRUE>>
  BY FinishDriven
<1>2. /\ queue' = <<>> /\ finishing' = TRUE /\ delays' = delays \ {hooks.stop} /\ UNCHANGED <<timers, animations>>
      /\ disturbed' = (disturbed \/ DelayPending)
  BY FinishDriven DEF Finish, Called, Stopping
<1>3. CASE disturbed'
  BY <1>3 DEF QueueInv
<1>4. CASE ~disturbed'
  <2>1. delays' = {}
    BY <1>2, <1>4 DEF DelayPending
  <2>2. PICK prog, x : prog = Running(animations) /\ x = new[1]
    OBVIOUS
  <2>3. x[1] = "stopping" /\ x[2] = Len(timers)
    BY <1>1, <2>2
  <2>4. \A a \in prog : Reaches(x, timers, a)
    BY <2>2, <2>3, ReachesAll DEF DrivenInv
  <2>5. 1 \in 1 .. Len(new)
    BY <1>1
  <2>6. \A a \in prog : \E j \in 1 .. Len(new) : Stopper(new[j], timers, a)
    BY <2>2, <2>3, <2>4, <2>5 DEF Stopper
  <2>7. EmptyFits(steps', timers, prog, {}, TRUE)
    BY <1>1, <2>6, EmptyMoved
  <2>. QED
    BY <1>2, <1>4, <2>1, <2>2, <2>7 DEF QueueInv
<1>. QED
  BY <1>3, <1>4

(* What is claimed of an element nobody disturbs is claimed until somebody  *)
(* does, and stopping within a callback of stop is one way to do so.        *)
LEMMA DisturbedStays ==
  ASSUME [EffectsNext]_effectVars, ~disturbed', nested => disturbed
  PROVE  ~disturbed /\ ~nested'
<1>1. CASE Stop
  BY <1>1 DEF Stop, Called
<1>2. CASE Finish
  BY <1>2 DEF Finish, Called
<1>3. CASE Animate \/ Delay \/ AnimateUnqueued \/ ClearQueue \/ GetPromise
  <2>1. nested' = nested /\ \E next, harm : Called(next, harm)
    BY <1>3 DEF Animate, Delay, Enqueue, AnimateUnqueued, ClearQueue, GetPromise
  <2>. QED
    BY <2>1 DEF Called
<1>4. CASE CompleteThrows \/ NoTimerToStop
  BY <1>4 DEF CompleteThrows, NoTimerToStop, ScriptEnds
<1>5. CASE UNCHANGED <<nested, disturbed>>
  BY <1>5
<1>6. CASE \/ Dequeue \/ StartAnimation \/ Uncount \/ CallbackDone \/ Tick \/ Ticked \/ StopTimers \/ Splice
           \/ StopDelay \/ FinishEnds \/ IntervalElapses \/ TimeoutElapses \/ UNCHANGED effectVars
  BY <1>5, <1>6 DEF effectVars, Dequeue, StartAnimation, Uncount, CallbackDone, Tick, Ticked, StopTimers, Splice,
       StopDelay, FinishEnds, IntervalElapses, TimeoutElapses
<1>. QED
  BY <1>1, <1>2, <1>3, <1>4, <1>6 DEF EffectsNext

LEMMA NothingThrown ==
  ASSUME ~disturbed'
  PROVE  ~CompleteThrows /\ ~NoTimerToStop
BY DEF CompleteThrows, NoTimerToStop, ScriptEnds

LEMMA QueueStep ==
  ASSUME EffectTypes, DrivenInv, QueueInv, [EffectsNext]_effectVars, ~disturbed, ~disturbed', ~nested'
  PROVE  QueueInv'
<1>1. CASE UNCHANGED effectVars
  BY <1>1 DEF effectVars, QueueInv
<1>2. CASE Dequeue \/ StartAnimation \/ Uncount \/ CallbackDone \/ Tick \/ Ticked \/ StopTimers \/ Splice
  BY <1>2, DequeueQueue, StartQueue, UncountQueue, TickQueue, TickedQueue, StopTimersQueue, SpliceQueue
<1>3. CASE StopDelay \/ FinishEnds \/ AnimateUnqueued \/ ClearQueue \/ Stop \/ Finish \/ GetPromise
  BY <1>3, StopDelayQueue, EndQueue, UnqueuedQueue, ClearQueueQueue, StopQueue, FinishQueue, PromiseQueue
<1>4. CASE Animate \/ Delay
  <2>1. /\ \A instant \in BOOLEAN : [kind |-> "animation", id |-> 0, instant |-> instant] \in Items
        /\ \A id \in Nat : [kind |-> "delay", id |-> id, instant |-> FALSE] \in Items
        /\ \A instant : [kind |-> "animation", id |-> 0, instant |-> instant].kind # "inprogress"
        /\ \A id : [kind |-> "delay", id |-> id, instant |-> FALSE].kind # "inprogress"
    BY DEF Items
  <2>2. effects + 1 \in Nat
    BY DEF EffectTypes
  <2>3. \E item \in Items : item.kind # "inprogress" /\ Enqueue(item)
    BY <1>4, <2>1, <2>2, Zenon DEF Animate, Delay
  <2>. QED
    BY <2>3, EnqueueQueue
<1>5. CASE IntervalElapses \/ TimeoutElapses
  BY <1>5, TickedQueue, TimeoutQueue
<1>. QED
  BY <1>1, <1>2, <1>3, <1>4, <1>5, NothingThrown DEF EffectsNext

LEMMA QueueStarts ==
  ASSUME EffectsInit
  PROVE  QueueInv
<1>1. steps = <<>> /\ queue = <<>> /\ animations = <<>> /\ delays = {} /\ Len(<<>>) = 0
  BY DEF EffectsInit
<1>2. Running(animations) = {}
  BY <1>1 DEF Running
<1>. QED
  BY <1>1, <1>2 DEF QueueInv, EmptyFits

LEMMA QueueBetweenScripts ==
  ASSUME DrivenInv, QueueInv
  PROVE  OneAtATime
<1>1. SUFFICES ASSUME steps = <<>>, ~disturbed
               PROVE  IF queue = <<>> THEN InProgress = {} /\ delays = {}
                      ELSE Head(queue) = Sentinel /\ Cardinality(InProgress) + Cardinality(delays) = 1
  BY DEF OneAtATime
<1>2. PICK prog : prog = Running(animations)
  OBVIOUS
<1>3. InProgress = prog
  <2>1. DOMAIN animations = 1 .. Len(animations)
    BY DEF DrivenInv, TimersFit
  <2>. QED
    BY <1>2, <2>1 DEF InProgress, IsRunning, Running
<1>4. \A m \in 1 .. Len(steps) : FALSE
  <2>1. Len(steps) = 0
    BY <1>1
  <2>. QED
    BY <2>1
<1>5. CASE queue = <<>>
  <2>1. EmptyFits(steps, timers, prog, delays, finishing)
    BY <1>1, <1>2, <1>5 DEF QueueInv
  <2>2. prog = {} /\ delays = {}
    BY <1>4, <2>1, NothingRuns
  <2>. QED
    BY <1>3, <1>5, <2>2
<1>6. CASE queue # <<>>
  <2>1. OneFits(steps, timers, prog, delays, hooks.stop, finishing) /\ QueueFits(queue, steps)
    BY <1>1, <1>2, <1>6 DEF QueueInv
  <2>2. \/ delays = {} /\ \E a : prog = {a}
        \/ prog = {} /\ delays = {hooks.stop}
    BY <1>4, <2>1, NoneSpecial
  <2>3. Cardinality({}) = 0 /\ \A a : Cardinality({a}) = 1
    BY FS_EmptySet, FS_Singleton
  <2>4. Cardinality(prog) + Cardinality(delays) = 1
    <3>1. CASE delays = {} /\ \E a : prog = {a}
      <4>1. Cardinality(delays) = 0 /\ Cardinality(prog) = 1
        BY <2>3, <3>1
      <4>. QED
        BY <4>1
    <3>2. CASE prog = {} /\ delays = {hooks.stop}
      <4>1. Cardinality(delays) = 1 /\ Cardinality(prog) = 0
        BY <2>3, <3>2
      <4>. QED
        BY <4>1
    <3>. QED
      BY <2>2, <3>1, <3>2
  <2>5. Head(queue) = Sentinel
    BY <1>1, <1>6, <2>1, HeadTailProperties DEF QueueFits
  <2>. QED
    BY <1>3, <1>6, <2>4, <2>5
<1>. QED
  BY <1>5, <1>6

(* Between scripts the queue of an element is empty and idle, or exactly     *)
(* one of its functions is in progress (jquery-1.10.1.js:3947-3980,          *)
(* 9378-9426); as long as no callback throws and the page does nothing of    *)
(* what OneAtATime lists.                                                   *)
THEOREM EffectsRunOneAtATime == EffectsSpec => []OneAtATime
<1>. DEFINE Undisturbed == (nested => disturbed) /\ (disturbed \/ (EffectTypes /\ DrivenInv /\ QueueInv))
<1>1. EffectsInit => Undisturbed
  BY DrivenStarts, QueueStarts DEF EffectsInit
<1>2. ASSUME Undisturbed, [EffectsNext]_effectVars PROVE Undisturbed'
  <2>1. CASE disturbed'
    BY <2>1
  <2>2. CASE ~disturbed'
    <3>1. ~disturbed /\ ~nested'
      BY <1>2, <2>2, DisturbedStays
    <3>. QED
      BY <1>2, <2>2, <3>1, EffectTypesStep, DrivenStep, QueueStep
  <2>. QED
    BY <2>1, <2>2
<1>3. Undisturbed => OneAtATime
  BY QueueBetweenScripts DEF OneAtATime
<1>. QED
  BY <1>1, <1>2, <1>3, PTL DEF EffectsSpec

(***************************************************************************)
(* The count of what runs outside the queue                                *)
(***************************************************************************)
Aside(aa) == {a \in 1 .. Len(aa) : aa[a].state = "running" /\ ~aa[a].queued}
Pending(s) == {k \in 1 .. Len(s) : s[k][1] = "uncount"}
CountInv == hooks.unqueued = Cardinality(Aside(animations)) + Cardinality(Pending(steps))

LEMMA PendingFinite ==
  ASSUME NEW s, Len(s) \in Nat
  PROVE  IsFiniteSet(Pending(s)) /\ Cardinality(Pending(s)) \in Nat
<1>1. IsFiniteSet(1 .. Len(s))
  BY FS_Interval
<1>2. Pending(s) \in SUBSET (1 .. Len(s))
  BY DEF Pending
<1>. QED
  BY <1>1, <1>2, FS_Subset, FS_CardinalityType

LEMMA AsideFinite ==
  ASSUME NEW aa, Len(aa) \in Nat
  PROVE  IsFiniteSet(Aside(aa)) /\ Cardinality(Aside(aa)) \in Nat
<1>1. IsFiniteSet(1 .. Len(aa))
  BY FS_Interval
<1>2. Aside(aa) \in SUBSET (1 .. Len(aa))
  BY DEF Aside
<1>. QED
  BY <1>1, <1>2, FS_Subset, FS_CardinalityType

(* Steps that are pushed down still count once. *)
LEMMA Shifted ==
  ASSUME NEW M, M \subseteq Int, IsFiniteSet(M), NEW d \in Int, NEW T, T = {m + d : m \in M}
  PROVE  IsFiniteSet(T) /\ Cardinality(T) = Cardinality(M)
<1>. DEFINE f == [m \in M |-> m + d]
<1>1. f \in [M -> T] /\ \A m \in M : f[m] = m + d
  OBVIOUS
<1>2. ASSUME NEW m \in M, NEW i \in M, f[m] = f[i] PROVE m = i
  <2>1. m + d = i + d
    BY <1>1, <1>2
  <2>. QED
    BY <2>1
<1>3. ASSUME NEW x \in T PROVE \E m \in M : f[m] = x
  BY <1>1
<1>4. DOMAIN f = M
  OBVIOUS
<1>. HIDE DEF f
<1>5. f \in Bijection(M, T)
  BY <1>1, <1>2, <1>3, <1>4 DEF Bijection, Injection, Surjection, IsInjective
<1>6. ExistsBijection(M, T)
  BY <1>5 DEF ExistsBijection
<1>. QED
  BY <1>6, FS_Bijection

LEMMA PendingOf ==
  ASSUME NEW t, NEW new, NEW s, NEW c, Restacked(t, new, s, c)
  PROVE  /\ Cardinality(Pending(t)) = Cardinality(Pending(new)) + Cardinality(Pending(s))
                                        - (IF c = 1 /\ s[1][1] = "uncount" THEN 1 ELSE 0)
         /\ Cardinality(Pending(t)) \in Nat /\ Cardinality(Pending(new)) \in Nat /\ Cardinality(Pending(s)) \in Nat
<1>1. PICK n, d : n = Len(new) /\ d = n - c
  OBVIOUS
<1>2. /\ n \in Nat /\ Len(s) \in Nat /\ Len(t) \in Nat /\ c \in {0, 1} /\ c <= Len(s) /\ d \in Int /\ d = n - c
      /\ \A j \in 1 .. n : j \in 1 .. Len(t) /\ t[j] = new[j]
  BY <1>1, PlacesOf DEF Restacked
<1>3. \A m \in c + 1 .. Len(s) : m + d \in 1 .. Len(t) /\ t[m + d] = s[m]
  <2>1. /\ \A m \in c + 1 .. Len(s) : m + (Len(new) - c) \in 1 .. Len(t)
        /\ \A m \in c + 1 .. Len(s) : t[m + (Len(new) - c)] = s[m]
    BY PlacesOf DEF Restacked
  <2>. QED
    BY <1>1, <2>1
<1>4. \A k \in 1 .. Len(t) : k \in 1 .. n \/ \E m \in c + 1 .. Len(s) : k = m + d
  <2>1. \A k \in 1 .. Len(t) : k \in 1 .. Len(new) \/ \E m \in c + 1 .. Len(s) : k = m + (Len(new) - c)
    BY PlacesOf
  <2>. QED
    BY <1>1, <2>1
<1>5. PICK M : M = {m \in c + 1 .. Len(s) : s[m][1] = "uncount"}
  OBVIOUS
<1>6. PICK T : T = {m + d : m \in M}
  OBVIOUS
<1>7. /\ IsFiniteSet(Pending(s)) /\ Cardinality(Pending(s)) \in Nat
      /\ IsFiniteSet(Pending(new)) /\ Cardinality(Pending(new)) \in Nat
      /\ Cardinality(Pending(t)) \in Nat
  BY <1>1, <1>2, PendingFinite
<1>8. M = IF c = 1 /\ s[1][1] = "uncount" THEN Pending(s) \ {1} ELSE Pending(s)
  <2>1. \A m : m \in c + 1 .. Len(s) <=> m \in 1 .. Len(s) /\ ~(c = 1 /\ m = 1)
    BY <1>2
  <2>2. \A m : m \in M <=> m \in Pending(s) /\ ~(c = 1 /\ m = 1)
    BY <1>5, <2>1 DEF Pending
  <2>3. CASE c = 1 /\ s[1][1] = "uncount"
    BY <2>2, <2>3
  <2>4. CASE ~(c = 1 /\ s[1][1] = "uncount")
    <3>1. \A m : m \in M <=> m \in Pending(s)
      BY <2>2, <2>4 DEF Pending
    <3>. QED
      BY <2>4, <3>1
  <2>. QED
    BY <2>3, <2>4
<1>9. /\ IsFiniteSet(M)
      /\ Cardinality(M) = Cardinality(Pending(s)) - (IF c = 1 /\ s[1][1] = "uncount" THEN 1 ELSE 0)
  <2>1. CASE c = 1 /\ s[1][1] = "uncount"
    <3>1. 1 \in Pending(s)
      BY <1>2, <2>1 DEF Pending
    <3>. QED
      BY <1>7, <1>8, <2>1, <3>1, FS_RemoveElement
  <2>2. CASE ~(c = 1 /\ s[1][1] = "uncount")
    BY <1>7, <1>8, <2>2
  <2>. QED
    BY <2>1, <2>2
<1>10. IsFiniteSet(T) /\ Cardinality(T) = Cardinality(M)
  <2>1. M \subseteq Int
    BY <1>2, <1>5
  <2>. QED
    BY <1>2, <1>6, <1>9, <2>1, Shifted
<1>11. Pending(t) = Pending(new) \cup T
  <2>1. ASSUME NEW k \in Pending(t) PROVE k \in Pending(new) \cup T
    <3>1. k \in 1 .. Len(t) /\ t[k][1] = "uncount"
      BY <2>1 DEF Pending
    <3>2. CASE k \in 1 .. n
      BY <1>1, <1>2, <3>1, <3>2 DEF Pending
    <3>3. CASE \E m \in c + 1 .. Len(s) : k = m + d
      BY <1>3, <1>5, <1>6, <3>1, <3>3
    <3>. QED
      BY <1>4, <3>1, <3>2, <3>3
  <2>2. ASSUME NEW k \in Pending(new) PROVE k \in Pending(t)
    BY <1>1, <1>2, <2>2 DEF Pending
  <2>3. ASSUME NEW k \in T PROVE k \in Pending(t)
    BY <1>3, <1>5, <1>6, <2>3 DEF Pending
  <2>. QED
    BY <2>1, <2>2, <2>3
<1>12. Pending(new) \cap T = {}
  <2>1. \A m \in c + 1 .. Len(s) : m + d \notin 1 .. n
    BY <1>2
  <2>. QED
    BY <1>1, <1>5, <1>6, <2>1 DEF Pending
<1>13. Cardinality(Pending(t)) = Cardinality(Pending(new)) + Cardinality(T)
  <2>1. Cardinality(Pending(new) \cup T) = Cardinality(Pending(new)) + Cardinality(T) - Cardinality(Pending(new) \cap T)
    BY <1>7, <1>10, FS_Union
  <2>2. Cardinality(Pending(new) \cap T) = 0
    BY <1>12, FS_EmptySet
  <2>3. Cardinality(T) \in Nat
    BY <1>10, FS_CardinalityType
  <2>. QED
    BY <1>7, <1>11, <2>1, <2>2, <2>3
<1>. QED
  BY <1>7, <1>9, <1>10, <1>13

LEMMA NonePending ==
  ASSUME NEW s, \A k \in 1 .. Len(s) : s[k][1] # "uncount"
  PROVE  Cardinality(Pending(s)) = 0
<1>1. Pending(s) = {}
  BY DEF Pending
<1>. QED
  BY <1>1, FS_EmptySet

LEMMA OnePending ==
  ASSUME NEW s, NEW i \in 1 .. Len(s), s[i][1] = "uncount", \A k \in 1 .. Len(s) : k # i => s[k][1] # "uncount"
  PROVE  Cardinality(Pending(s)) = 1
<1>1. Pending(s) = {i}
  BY DEF Pending
<1>. QED
  BY <1>1, FS_Singleton

LEMMA SamePending ==
  ASSUME NEW t, NEW new, NEW s, NEW c, Restacked(t, new, s, c),
         \A j \in 1 .. Len(new) : new[j][1] # "uncount", c = 1 => s[1][1] # "uncount"
  PROVE  Cardinality(Pending(t)) = Cardinality(Pending(s))
<1>1. Cardinality(Pending(new)) = 0
  BY NonePending
<1>. QED
  BY <1>1, PendingOf

LEMMA MorePending ==
  ASSUME NEW t, NEW new, NEW s, NEW c, Restacked(t, new, s, c), c = 1 => s[1][1] # "uncount",
         NEW i \in 1 .. Len(new), new[i][1] = "uncount", \A j \in 1 .. Len(new) : j # i => new[j][1] # "uncount"
  PROVE  Cardinality(Pending(t)) = Cardinality(Pending(s)) + 1
<1>1. Cardinality(Pending(new)) = 1
  BY OnePending
<1>. QED
  BY <1>1, PendingOf

LEMMA AsideEnds ==
  ASSUME NEW aa, NEW bb, Len(bb) = Len(aa), Len(aa) \in Nat, NEW a \in 1 .. Len(aa), bb[a].state # "running",
         \A b \in 1 .. Len(aa) : b # a => bb[b] = aa[b], aa[a].state = "running"
  PROVE  Cardinality(Aside(bb)) = Cardinality(Aside(aa)) - (IF aa[a].queued THEN 0 ELSE 1)
<1>1. Aside(bb) = Aside(aa) \ {a} /\ (a \in Aside(aa) <=> ~aa[a].queued)
  BY DEF Aside
<1>2. IsFiniteSet(Aside(aa)) /\ Cardinality(Aside(aa)) \in Nat
  BY AsideFinite
<1>3. Cardinality(Aside(aa) \ {a}) = IF a \in Aside(aa) THEN Cardinality(Aside(aa)) - 1 ELSE Cardinality(Aside(aa))
  BY <1>2, FS_RemoveElement
<1>4. CASE aa[a].queued
  BY <1>1, <1>2, <1>3, <1>4
<1>5. CASE ~aa[a].queued
  BY <1>1, <1>2, <1>3, <1>5
<1>. QED
  BY <1>4, <1>5

LEMMA AsideStarts ==
  ASSUME NEW aa \in Seq(Animated), NEW bb, NEW queued \in BOOLEAN, NEW over \in BOOLEAN,
         bb = Append(aa, [queued |-> queued, state |-> IF over THEN "resolved" ELSE "running"])
  PROVE  Cardinality(Aside(bb)) = Cardinality(Aside(aa)) + (IF ~queued /\ ~over THEN 1 ELSE 0)
<1>1. PICK x : x = [queued |-> queued, state |-> IF over THEN "resolved" ELSE "running"]
  OBVIOUS
<1>2. x.queued = queued /\ (x.state = "running" <=> ~over)
  BY <1>1
<1>3. x \in Animated
  BY <1>1 DEF Animated
<1>4. Len(aa) \in Nat /\ Len(bb) = Len(aa) + 1 /\ bb[Len(aa) + 1] = x /\ \A i \in 1 .. Len(aa) : bb[i] = aa[i]
  BY <1>1, <1>3, AppendProperties
<1>5. PICK n \in Nat : n = Len(aa)
  BY <1>4
<1>6. Len(bb) = n + 1 /\ bb[n + 1] = x /\ \A i \in 1 .. n : bb[i] = aa[i]
  BY <1>4, <1>5
<1>7. Aside(aa) = {a \in 1 .. n : aa[a].state = "running" /\ ~aa[a].queued}
  BY <1>5 DEF Aside
<1>8. Aside(bb) = {a \in 1 .. n + 1 : bb[a].state = "running" /\ ~bb[a].queued}
  BY <1>6 DEF Aside
<1>9. \A a : a \in 1 .. n + 1 <=> a \in 1 .. n \/ a = n + 1
  OBVIOUS
<1>10. \A a : a \in Aside(bb) <=> a \in Aside(aa) \/ (a = n + 1 /\ ~queued /\ ~over)
  BY <1>2, <1>6, <1>7, <1>8, <1>9, n + 1 \notin 1 .. n
<1>11. IsFiniteSet(Aside(aa)) /\ Cardinality(Aside(aa)) \in Nat
  BY <1>4, AsideFinite
<1>12. CASE ~queued /\ ~over
  <2>1. Aside(bb) = Aside(aa) \cup {n + 1}
    BY <1>10, <1>12
  <2>2. n + 1 \notin Aside(aa)
    BY <1>7
  <2>. QED
    BY <1>11, <1>12, <2>1, <2>2, FS_AddElement
<1>13. CASE ~(~queued /\ ~over)
  <2>1. Aside(bb) = Aside(aa)
    BY <1>10, <1>13
  <2>. QED
    BY <1>11, <1>13, <2>1
<1>. QED
  BY <1>12, <1>13

(***************************************************************************)
(* The hooks of the element, and who waits for them                        *)
(***************************************************************************)
IsMark(step) == IsToken(step) \/ (step[1] = "stopping" /\ ~step[3])
Marked(s) == \E k \in 1 .. Len(s) : IsMark(s[k])

(* The hooks are there while a promise is pending; and once the queue is    *)
(* empty they are there only as long as somebody will still remove them.    *)
HooksFit ==
  /\ promise = "pending" => hooks.there
  /\ ~disturbed /\ queue = <<>> /\ hooks.there =>
       hooks.unqueued > 0 \/ Running(animations) # {} \/ Marked(steps)
PromiseInv == CountInv /\ HooksFit

LEMMA MarkStays ==
  ASSUME NEW t, NEW new, NEW s, NEW c, Restacked(t, new, s, c), c = 1 => ~IsMark(s[1]), Marked(s)
  PROVE  Marked(t)
<1>1. PICK m \in 1 .. Len(s) : IsMark(s[m])
  BY DEF Marked
<1>2. c \in {0, 1} /\ Len(s) \in Nat
  BY PlacesOf DEF Restacked
<1>3. m \in c + 1 .. Len(s)
  <2>1. ~(c = 1 /\ m = 1)
    BY <1>1
  <2>. QED
    BY <1>2, <2>1
<1>4. PICK k : k = m + (Len(new) - c)
  OBVIOUS
<1>5. k \in 1 .. Len(t) /\ t[k] = s[m]
  BY <1>3, <1>4, PlacesOf DEF Restacked
<1>. QED
  BY <1>1, <1>5 DEF Marked

LEMMA MarkPut ==
  ASSUME NEW t, NEW new, NEW s, NEW c, Restacked(t, new, s, c), NEW j \in 1 .. Len(new), IsMark(new[j])
  PROVE  Marked(t)
<1>1. j \in 1 .. Len(t) /\ t[j] = new[j]
  BY PlacesOf DEF Restacked
<1>. QED
  BY <1>1 DEF Marked

LEMMA Unmarked ==
  ASSUME NEW s, \A m \in 1 .. Len(s) : ~IsToken(s[m]) /\ s[m][1] # "stopping"
  PROVE  ~Marked(s)
BY DEF Marked, IsMark

LEMMA CountIsNatural ==
  ASSUME DrivenInv, CountInv
  PROVE  /\ Cardinality(Aside(animations)) \in Nat /\ Cardinality(Pending(steps)) \in Nat
         /\ hooks.unqueued \in Nat /\ Len(animations) \in Nat
<1>1. Len(animations) \in Nat /\ Len(steps) \in Nat
  BY LenProperties DEF DrivenInv, TimersFit
<1>. QED
  BY <1>1, AsideFinite, PendingFinite DEF CountInv

LEMMA HooksSame ==
  ASSUME HooksFit, UNCHANGED <<queue, promise>>, disturbed => disturbed', hooks'.there = hooks.there,
         hooks'.unqueued = hooks.unqueued, Running(animations') = Running(animations), Marked(steps) => Marked(steps')
  PROVE  HooksFit'
BY DEF HooksFit

(* The count is as it was, and so is what is counted. *)
LEMMA CountSame ==
  ASSUME CountInv, hooks'.unqueued = hooks.unqueued, animations' = animations,
         NEW new, NEW c, Restacked(steps', new, steps, c),
         \A j \in 1 .. Len(new) : new[j][1] # "uncount", c = 1 => steps[1][1] # "uncount"
  PROVE  CountInv'
<1>1. Cardinality(Pending(steps')) = Cardinality(Pending(steps))
  BY SamePending
<1>. QED
  BY <1>1 DEF CountInv

LEMMA EmptyFiresFits ==
  ASSUME NEW h, EmptyFires(h), h.unqueued \in Nat
  PROVE  /\ hooks'.unqueued = h.unqueued /\ queue' = <<>>
         /\ hooks'.there => hooks'.unqueued > 0
         /\ promise' = "pending" => promise = "pending" /\ hooks' = h
<1>1. CASE h.unqueued > 0
  BY <1>1 DEF EmptyFires
<1>2. CASE ~(h.unqueued > 0)
  BY <1>2 DEF EmptyFires, NoHooks
<1>. QED
  BY <1>1, <1>2

LEMMA DequeuePromise ==
  ASSUME EffectTypes, DrivenInv, PromiseInv, Dequeue
  PROVE  PromiseInv'
<1>1. PICK new : /\ Restacked(steps', new, steps, 1)
                 /\ new = <<>> \/ \E instant \in BOOLEAN : new = <<<<"start", TRUE, instant>>>>
  BY DequeueDriven
<1>2. steps[1][1] = "dequeue"
  BY TopOf DEF DrivenInv, Dequeue
<1>3. \A j \in 1 .. Len(new) : new[j][1] # "uncount"
  <2>1. CASE new = <<>>
    <3>1. \A j \in 1 .. Len(<<>>) : FALSE
      OBVIOUS
    <3>. QED
      BY <2>1, <3>1
  <2>2. CASE \E instant \in BOOLEAN : new = <<<<"start", TRUE, instant>>>>
    <3>1. PICK instant \in BOOLEAN : new = <<<<"start", TRUE, instant>>>>
      BY <2>2
    <3>2. PICK x : x = <<"start", TRUE, instant>>
      OBVIOUS
    <3>3. x \in Steps /\ x[1] = "start"
      BY <3>2, Shapes
    <3>4. new = <<x>> /\ Len(<<x>>) = 1 /\ <<x>>[1] = x
      BY <3>1, <3>2, <3>3, OneStep
    <3>5. Len(new) = 1 /\ new[1] = x
      BY <3>4
    <3>6. \A j \in 1 .. Len(new) : j = 1
      BY <3>5
    <3>. QED
      BY <3>3, <3>5, <3>6
  <2>. QED
    BY <1>1, <2>1, <2>2
<1>4. hooks.unqueued \in Nat /\ CountInv /\ HooksFit
  BY CountIsNatural DEF PromiseInv
<1>5. PICK rest, present : /\ rest = IF queue # <<>> /\ Head(queue) = Sentinel THEN Tail(queue) ELSE queue
                           /\ present = [hooks EXCEPT !.there = TRUE]
  OBVIOUS
<1>6. present.unqueued = hooks.unqueued /\ present.there = TRUE /\ present \in [there : BOOLEAN, stop : Nat, unqueued : Int]
  BY <1>5 DEF EffectTypes
<1>7. animations' = animations
  BY DEF Dequeue
<1>8. CASE rest = <<>>
  <2>1. EmptyFires(present)
    BY <1>5, <1>8 DEF Dequeue
  <2>2. /\ hooks'.unqueued = hooks.unqueued /\ queue' = <<>>
        /\ hooks'.there => hooks'.unqueued > 0
        /\ promise' = "pending" => promise = "pending" /\ hooks' = present
    BY <1>4, <1>6, <2>1, EmptyFiresFits
  <2>3. HooksFit'
    BY <1>6, <2>2 DEF HooksFit
  <2>. QED
    BY <1>1, <1>2, <1>3, <1>4, <1>7, <2>2, <2>3, CountSame DEF PromiseInv
<1>9. CASE rest # <<>>
  <2>1. PICK item : item = Head(rest)
    OBVIOUS
  <2>2. /\ queue' = <<Sentinel>> \o Tail(rest)
        /\ hooks' = [present EXCEPT !.stop = IF item.kind = "delay" THEN item.id ELSE 0]
    BY <1>5, <1>9, <2>1 DEF Dequeue
  <2>3. hooks'.there = TRUE /\ hooks'.unqueued = hooks.unqueued
    BY <1>6, <2>2
  <2>4. queue' # <<>>
    <3>1. queue \in Seq(Items)
      BY DEF EffectTypes
    <3>2. rest \in Seq(Items)
      BY <1>5, <3>1, HeadTailProperties
    <3>3. Tail(rest) \in Seq(Items)
      BY <1>9, <3>2, HeadTailProperties
    <3>4. PICK first, tail : first = <<Sentinel>> /\ tail = Tail(rest)
      OBVIOUS
    <3>5. first \in Seq(Items) /\ Len(first) = 1 /\ tail \in Seq(Items) /\ Len(tail) \in Nat
      BY <3>3, <3>4 DEF Sentinel, Items
    <3>6. Len(first \o tail) = Len(first) + Len(tail)
      BY <3>5, ConcatProperties
    <3>7. Len(queue') = 1 + Len(tail)
      BY <2>2, <3>4, <3>5, <3>6
    <3>8. Len(<<>>) = 0
      OBVIOUS
    <3>. QED
      BY <3>5, <3>7, <3>8
  <2>5. HooksFit'
    BY <2>3, <2>4 DEF HooksFit
  <2>. QED
    BY <1>1, <1>2, <1>3, <1>4, <1>7, <2>3, <2>5, CountSame DEF PromiseInv
<1>. QED
  BY <1>8, <1>9

LEMMA UncountPromise ==
  ASSUME EffectTypes, DrivenInv, PromiseInv, Uncount \/ CallbackDone
  PROVE  PromiseInv'
<1>1. Restacked(steps', <<>>, steps, 1)
  BY UncountDriven
<1>2. animations' = animations /\ disturbed' = disturbed
  BY DEF Uncount, CallbackDone
<1>3. CountInv /\ HooksFit
  BY DEF PromiseInv
<1>4. \A j \in 1 .. Len(<<>>) : FALSE
  OBVIOUS
<1>5. CASE CallbackDone
  <2>1. steps[1][1] = "callback" /\ UNCHANGED <<queue, hooks, promise>>
    BY <1>5, TopOf DEF DrivenInv, CallbackDone
  <2>2. CountInv'
    BY <1>1, <1>2, <1>3, <1>4, <2>1, CountSame
  <2>3. ~IsMark(steps[1])
    BY <2>1 DEF IsMark, IsToken
  <2>4. Marked(steps) => Marked(steps')
    BY <1>1, <2>3, MarkStays
  <2>5. HooksFit'
    BY <1>2, <1>3, <2>1, <2>4, HooksSame
  <2>. QED
    BY <2>2, <2>5 DEF PromiseInv
<1>6. CASE Uncount
  <2>1. steps[1][1] = "uncount"
    BY <1>6, TopOf DEF DrivenInv, Uncount
  <2>2. PICK counted : counted = [hooks EXCEPT !.unqueued = @ - 1]
    OBVIOUS
  <2>3. counted.unqueued = hooks.unqueued - 1 /\ counted.there = hooks.there
    BY <2>2 DEF EffectTypes
  <2>4. Cardinality(Pending(steps')) = Cardinality(Pending(steps)) - 1
        /\ Cardinality(Pending(steps')) \in Nat /\ Cardinality(Pending(steps)) \in Nat
    <3>1. Cardinality(Pending(<<>>)) = 0
      BY <1>4, NonePending
    <3>2. /\ Cardinality(Pending(steps')) = Cardinality(Pending(<<>>)) + Cardinality(Pending(steps))
                                              - (IF 1 = 1 /\ steps[1][1] = "uncount" THEN 1 ELSE 0)
          /\ Cardinality(Pending(steps')) \in Nat /\ Cardinality(Pending(steps)) \in Nat
      BY <1>1, PendingOf
    <3>. QED
      BY <2>1, <3>1, <3>2
  <2>5. Cardinality(Aside(animations)) \in Nat /\ hooks.unqueued = Cardinality(Aside(animations)) + Cardinality(Pending(steps))
    BY <1>3, CountIsNatural DEF CountInv
  <2>6. counted.unqueued \in Nat /\ counted.unqueued = Cardinality(Aside(animations)) + Cardinality(Pending(steps'))
    BY <2>3, <2>4, <2>5
  <2>7. IF queue = <<>> THEN EmptyFires(counted) ELSE hooks' = counted /\ UNCHANGED <<queue, promise>>
    BY <1>6, <2>2 DEF Uncount
  <2>8. CASE queue = <<>>
    <3>1. /\ hooks'.unqueued = counted.unqueued /\ queue' = <<>>
          /\ hooks'.there => hooks'.unqueued > 0
          /\ promise' = "pending" => promise = "pending" /\ hooks' = counted
      BY <2>6, <2>7, <2>8, EmptyFiresFits
    <3>2. HooksFit'
      BY <1>3, <2>3, <3>1 DEF HooksFit
    <3>3. CountInv'
      BY <1>2, <2>6, <3>1 DEF CountInv
    <3>. QED
      BY <3>2, <3>3 DEF PromiseInv
  <2>9. CASE queue # <<>>
    <3>1. hooks' = counted /\ queue' # <<>> /\ promise' = promise
      BY <2>7, <2>9
    <3>2. HooksFit'
      BY <1>3, <2>3, <3>1 DEF HooksFit
    <3>3. CountInv'
      BY <1>2, <2>6, <3>1 DEF CountInv
    <3>. QED
      BY <3>2, <3>3 DEF PromiseInv
  <2>. QED
    BY <2>8, <2>9
<1>. QED
  BY <1>5, <1>6

LEMMA StartPromise ==
  ASSUME EffectTypes, DrivenInv, QueueInv, PromiseInv, StartAnimation
  PROVE  PromiseInv'
<1>1. PICK queued, instant : queued = steps[1][2] /\ instant = steps[1][3]
  OBVIOUS
<1>2. /\ steps[1][1] = "start" /\ queued \in BOOLEAN /\ instant \in BOOLEAN
      /\ \E new : Restacked(steps', new, steps, 1) /\ Outcome(new, queued, instant \/ finishing)
  BY <1>1, StartDriven
<1>3. PICK new : Restacked(steps', new, steps, 1) /\ Outcome(new, queued, instant \/ finishing)
  BY <1>2
<1>4. steps # <<>> /\ Head(steps) = steps[1] /\ Len(steps) \in Nat /\ Len(steps) >= 1
  BY TopOf DEF DrivenInv, StartAnimation
<1>5. PICK over \in BOOLEAN : over = (instant \/ finishing)
  OBVIOUS
<1>6. /\ animations' = Append(animations, [queued |-> queued, state |-> IF over THEN "resolved" ELSE "running"])
      /\ UNCHANGED <<queue, promise, disturbed>>
      /\ hooks' = IF queued THEN hooks ELSE [hooks EXCEPT !.there = TRUE, !.unqueued = @ + 1]
  BY <1>1, <1>4, <1>5 DEF StartAnimation
<1>7. over => /\ Len(new) = 2
              /\ queued => new[1][1] = "callback" /\ new[2][1] = "dequeue"
              /\ ~queued => \/ new[1][1] = "callback" /\ new[2][1] = "uncount"
                            \/ new[1][1] = "uncount" /\ new[2][1] = "callback"
  <2>1. over => /\ Len(new) = 2
                /\ \/ new[1] = <<"callback">> /\ new[2] = (IF queued THEN <<"dequeue">> ELSE <<"uncount">>)
                   \/ ~queued /\ new[1] = <<"uncount">> /\ new[2] = <<"callback">>
    BY <1>3, <1>5 DEF Outcome
  <2>2. CASE queued
    BY <2>1, <2>2
  <2>3. CASE ~queued
    BY <2>1, <2>3
  <2>. QED
    BY <2>2, <2>3
<1>8. \A j \in 1 .. Len(new) : over /\ (j = 1 \/ j = 2)
  <2>1. ~over => new = <<>>
    BY <1>3, <1>5 DEF Outcome
  <2>2. Len(new) = 2 => \A j \in 1 .. Len(new) : j = 1 \/ j = 2
    OBVIOUS
  <2>3. new = <<>> => \A j \in 1 .. Len(new) : FALSE
    OBVIOUS
  <2>. QED
    BY <1>7, <2>1, <2>2, <2>3
<1>9. over => 1 \in 1 .. Len(new) /\ 2 \in 1 .. Len(new)
  <2>1. Len(new) = 2 => 1 \in 1 .. Len(new) /\ 2 \in 1 .. Len(new)
    OBVIOUS
  <2>. QED
    BY <1>7, <2>1
<1>10. /\ Cardinality(Aside(animations)) \in Nat /\ Cardinality(Pending(steps)) \in Nat /\ hooks.unqueued \in Nat
       /\ hooks.unqueued = Cardinality(Aside(animations)) + Cardinality(Pending(steps))
  BY CountIsNatural DEF PromiseInv, CountInv
<1>11. Cardinality(Aside(animations')) = Cardinality(Aside(animations)) + (IF ~queued /\ ~over THEN 1 ELSE 0)
  BY <1>2, <1>6, AsideStarts DEF DrivenInv, TimersFit
<1>12. steps[1][1] # "uncount"
  BY <1>2
<1>13. CASE queued
  <2>1. \A j \in 1 .. Len(new) : new[j][1] # "uncount"
    BY <1>7, <1>8, <1>13
  <2>2. Cardinality(Pending(steps')) = Cardinality(Pending(steps))
    BY <1>3, <1>12, <2>1, SamePending
  <2>3. CountInv'
    BY <1>6, <1>10, <1>11, <1>13, <2>2 DEF CountInv
  <2>4. ASSUME ~disturbed, queue = <<>> PROVE Marked(steps')
    <3>1. EmptyFits(steps, timers, Running(animations), delays, finishing)
      BY <2>4 DEF QueueInv
    <3>2. 1 \in 1 .. Len(steps)
      BY <1>4
    <3>3. over
      BY <1>1, <1>2, <1>5, <1>13, <3>1, <3>2 DEF EmptyFits
    <3>4. IsMark(new[2])
      BY <1>7, <1>13, <3>3 DEF IsMark, IsToken
    <3>. QED
      BY <1>3, <1>9, <3>3, <3>4, MarkPut
  <2>5. HooksFit'
    BY <1>6, <1>13, <2>4 DEF HooksFit, PromiseInv
  <2>. QED
    BY <2>3, <2>5 DEF PromiseInv
<1>14. CASE ~queued
  <2>1. hooks'.there = TRUE /\ hooks'.unqueued = hooks.unqueued + 1
    BY <1>6, <1>14 DEF EffectTypes
  <2>2. Cardinality(Pending(steps')) = Cardinality(Pending(steps)) + IF over THEN 1 ELSE 0
    <3>1. CASE over
      <4>1. PICK i \in 1 .. Len(new) : new[i][1] = "uncount" /\ \A j \in 1 .. Len(new) : j # i => new[j][1] # "uncount"
        <5>1. CASE new[1][1] = "uncount" /\ new[2][1] = "callback"
          BY <1>8, <1>9, <3>1, <5>1
        <5>2. CASE new[1][1] = "callback" /\ new[2][1] = "uncount"
          BY <1>8, <1>9, <3>1, <5>2
        <5>. QED
          BY <1>7, <1>14, <3>1, <5>1, <5>2
      <4>2. Cardinality(Pending(steps')) = Cardinality(Pending(steps)) + 1
        BY <1>3, <1>9, <1>12, <3>1, <4>1, MorePending
      <4>. QED
        BY <3>1, <4>2
    <3>2. CASE ~over
      <4>1. \A j \in 1 .. Len(new) : new[j][1] # "uncount"
        BY <1>8, <3>2
      <4>2. Cardinality(Pending(steps')) = Cardinality(Pending(steps))
        BY <1>3, <1>12, <4>1, SamePending
      <4>. QED
        BY <1>10, <3>2, <4>2
    <3>. QED
      BY <3>1, <3>2
  <2>3. CountInv'
    <3>1. CASE over
      <4>1. Cardinality(Aside(animations')) = Cardinality(Aside(animations))
        BY <1>10, <1>11, <3>1
      <4>. QED
        BY <1>10, <2>1, <2>2, <3>1, <4>1 DEF CountInv
    <3>2. CASE ~over
      <4>1. Cardinality(Aside(animations')) = Cardinality(Aside(animations)) + 1
        BY <1>10, <1>11, <1>14, <3>2
      <4>. QED
        BY <1>10, <2>1, <2>2, <3>2, <4>1 DEF CountInv
    <3>. QED
      BY <3>1, <3>2
  <2>4. hooks'.unqueued > 0
    BY <1>10, <2>1
  <2>5. HooksFit'
    BY <2>1, <2>4 DEF HooksFit
  <2>. QED
    BY <2>3, <2>5 DEF PromiseInv
<1>. QED
  BY <1>2, <1>13, <1>14

LEMMA TickingPromise ==
  ASSUME PromiseInv, \A m \in 1 .. Len(steps) : steps[m][1] \in {"tick", "ticked"},
         \A m \in 1 .. Len(steps') : steps'[m][1] \in {"tick", "ticked"},
         UNCHANGED <<queue, hooks, promise, animations, disturbed>>
  PROVE  PromiseInv'
<1>1. Cardinality(Pending(steps)) = 0 /\ Cardinality(Pending(steps')) = 0
  <2>1. \A m \in 1 .. Len(steps) : steps[m][1] # "uncount"
    OBVIOUS
  <2>2. \A m \in 1 .. Len(steps') : steps'[m][1] # "uncount"
    OBVIOUS
  <2>3. Cardinality(Pending(steps)) = 0
    BY <2>1, NonePending
  <2>4. PICK t : t = steps'
    OBVIOUS
  <2>5. Cardinality(Pending(t)) = 0
    BY <2>2, <2>4, NonePending
  <2>. QED
    BY <2>3, <2>4, <2>5
<1>2. CountInv'
  BY <1>1 DEF CountInv, PromiseInv
<1>3. ~Marked(steps)
  <2>1. \A m \in 1 .. Len(steps) : ~IsToken(steps[m]) /\ steps[m][1] # "stopping"
    BY DEF IsToken
  <2>. QED
    BY <2>1, Unmarked
<1>4. HooksFit'
  BY <1>3, HooksSame DEF PromiseInv
<1>. QED
  BY <1>2, <1>4 DEF PromiseInv

LEMMA TickedPromise ==
  ASSUME DrivenInv, PromiseInv, Ticked \/ IntervalElapses
  PROVE  PromiseInv'
<1>1. /\ \A k \in 1 .. Len(steps') : steps'[k][1] = "tick"
      /\ steps = <<>> \/ (Len(steps) = 1 /\ steps[1][1] = "ticked")
  BY TickedDriven
<1>2. UNCHANGED <<queue, hooks, promise, animations, disturbed>>
  BY DEF Ticked, IntervalElapses
<1>3. \A m \in 1 .. Len(steps) : steps[m][1] \in {"tick", "ticked"}
  <2>1. CASE steps = <<>>
    <3>1. Len(steps) = 0
      BY <2>1
    <3>. QED
      BY <3>1
  <2>2. CASE Len(steps) = 1 /\ steps[1][1] = "ticked"
    BY <2>2
  <2>. QED
    BY <1>1, <2>1, <2>2
<1>4. \A m \in 1 .. Len(steps') : steps'[m][1] \in {"tick", "ticked"}
  BY <1>1
<1>. QED
  BY <1>2, <1>3, <1>4, TickingPromise

LEMMA TickPromise ==
  ASSUME DrivenInv, PromiseInv, Tick
  PROVE  PromiseInv'
<1>1. /\ Len(steps) = 1 /\ steps[1][1] = "tick"
      /\ \/ animations' = animations /\ \A k \in 1 .. Len(steps') : steps'[k][1] \in {"tick", "ticked"}
         \/ \E a, queued : Settles(steps', animations', animations, a, queued)
  BY TickDriven
<1>2. UNCHANGED <<queue, hooks, promise, disturbed>>
  BY DEF Tick
<1>3. \A m \in 1 .. Len(steps) : m = 1
  BY <1>1
<1>4. \A m \in 1 .. Len(steps) : steps[m][1] = "tick"
  BY <1>1, <1>3
<1>5. CASE animations' = animations /\ \A k \in 1 .. Len(steps') : steps'[k][1] \in {"tick", "ticked"}
  <2>1. \A m \in 1 .. Len(steps) : steps[m][1] \in {"tick", "ticked"}
    BY <1>4
  <2>. QED
    BY <1>2, <1>5, <2>1, TickingPromise
<1>6. ASSUME NEW a, NEW queued, Settles(steps', animations', animations, a, queued) PROVE PromiseInv'
  <2>0. PICK t, aa, bb : t = steps' /\ aa = animations /\ bb = animations'
    OBVIOUS
  <2>1. /\ a \in 1 .. Len(aa) /\ aa[a].state = "running" /\ aa[a].queued = queued
        /\ queued \in BOOLEAN /\ Len(bb) = Len(aa) /\ bb[a].state # "running"
        /\ \A b \in 1 .. Len(aa) : b # a => bb[b] = aa[b]
    BY <1>6, <2>0 DEF Settles
  <2>2. /\ Len(t) = 3 /\ t[1] = <<"callback">> /\ t[2] = IF queued THEN <<"dequeue">> ELSE <<"uncount">>
        /\ t[3][1] = "ticked"
    BY <1>6, <2>0 DEF Settles
  <2>3. \A k \in 1 .. Len(t) : k = 1 \/ k = 2 \/ k = 3
    <3>1. Len(t) = 3
      BY <2>2
    <3>2. Len(t) = 3 => \A k \in 1 .. Len(t) : k = 1 \/ k = 2 \/ k = 3
      OBVIOUS
    <3>. QED
      BY <3>1, <3>2
  <2>4. 2 \in 1 .. Len(t)
    BY <2>2
  <2>5. /\ Cardinality(Aside(aa)) \in Nat /\ Cardinality(Pending(steps)) \in Nat /\ hooks.unqueued \in Nat
        /\ hooks.unqueued = Cardinality(Aside(aa)) + Cardinality(Pending(steps)) /\ Len(aa) \in Nat
    BY <2>0, CountIsNatural DEF PromiseInv, CountInv
  <2>6. Cardinality(Pending(steps)) = 0
    <3>1. \A m \in 1 .. Len(steps) : steps[m][1] # "uncount"
      BY <1>4
    <3>. QED
      BY <3>1, NonePending
  <2>7. Cardinality(Aside(bb)) = Cardinality(Aside(aa)) - (IF aa[a].queued THEN 0 ELSE 1)
    BY <2>1, <2>5, AsideEnds
  <2>8. CASE ~queued
    <3>1. t[2][1] = "uncount" /\ t[1][1] # "uncount" /\ t[3][1] # "uncount"
      <4>1. t[2] = <<"uncount">>
        BY <2>2, <2>8
      <4>. QED
        BY <2>2, <4>1
    <3>2. \A k \in 1 .. Len(t) : k # 2 => t[k][1] # "uncount"
      BY <2>3, <3>1
    <3>3. Cardinality(Pending(t)) = 1
      BY <2>4, <3>1, <3>2, OnePending
    <3>4. Cardinality(Aside(bb)) = Cardinality(Aside(aa)) - 1
      BY <2>1, <2>7, <2>8
    <3>5. hooks.unqueued = Cardinality(Aside(bb)) + Cardinality(Pending(t))
      BY <2>5, <2>6, <3>3, <3>4
    <3>6. hooks.unqueued > 0
      <4>1. hooks.unqueued = Cardinality(Aside(bb)) + 1 /\ Cardinality(Aside(bb)) \in Nat
        BY <2>1, <2>5, <3>3, <3>5, AsideFinite
      <4>. QED
        BY <4>1
    <3>7. CountInv'
      BY <1>2, <2>0, <3>5 DEF CountInv
    <3>8. HooksFit'
      BY <1>2, <3>6 DEF HooksFit, PromiseInv
    <3>. QED
      BY <3>7, <3>8 DEF PromiseInv
  <2>9. CASE queued
    <3>1. t[2] = <<"dequeue">>
      BY <2>2, <2>9
    <3>2. t[1][1] # "uncount" /\ t[2][1] = "dequeue" /\ t[3][1] # "uncount"
      BY <2>2, <3>1
    <3>3. \A k \in 1 .. Len(t) : t[k][1] # "uncount"
      BY <2>3, <3>2
    <3>4. Cardinality(Pending(t)) = 0
      BY <3>3, NonePending
    <3>5. Cardinality(Aside(bb)) = Cardinality(Aside(aa))
      BY <2>1, <2>5, <2>7, <2>9
    <3>6. CountInv'
      BY <1>2, <2>0, <2>5, <2>6, <3>4, <3>5 DEF CountInv
    <3>7. Marked(t)
      BY <2>4, <3>2 DEF Marked, IsMark, IsToken
    <3>8. HooksFit'
      BY <1>2, <2>0, <3>7 DEF HooksFit, PromiseInv
    <3>. QED
      BY <3>6, <3>8 DEF PromiseInv
  <2>. QED
    BY <2>1, <2>8, <2>9
<1>. QED
  BY <1>1, <1>5, <1>6

LEMMA StopTimersPromise ==
  ASSUME DrivenInv, PromiseInv, StopTimers
  PROVE  PromiseInv'
<1>1. PICK top, aa, bb : top = steps[1] /\ aa = animations /\ bb = animations'
  OBVIOUS
<1>2. /\ steps # <<>> /\ top \in Steps /\ top[1] = "stopping"
      /\ \E new :
           /\ Restacked(steps', new, steps, 1)
           /\ \/ /\ top[2] = 0 /\ bb = aa
                 /\ new = IF top[4] \/ ~top[3] THEN <<<<"dequeue">>>> ELSE <<>>
              \/ PassesTimer(new, top, timers, aa) /\ bb = aa
              \/ StopsTimer(new, top, timers, bb, aa)
  BY <1>1, StopTimersDriven
<1>3. PICK new :
        /\ Restacked(steps', new, steps, 1)
        /\ \/ /\ top[2] = 0 /\ bb = aa
              /\ new = IF top[4] \/ ~top[3] THEN <<<<"dequeue">>>> ELSE <<>>
           \/ PassesTimer(new, top, timers, aa) /\ bb = aa
           \/ StopsTimer(new, top, timers, bb, aa)
  BY <1>2
<1>4. UNCHANGED <<queue, hooks, promise, disturbed>>
  BY DEF StopTimers
<1>5. top[2] \in Nat /\ top[3] \in BOOLEAN /\ top[4] \in BOOLEAN /\ top[5] \in BOOLEAN
  BY <1>2, Parts
<1>6. CountInv /\ HooksFit /\ steps[1][1] # "uncount"
  BY <1>1, <1>2 DEF PromiseInv
<1>7. /\ Cardinality(Aside(aa)) \in Nat /\ Cardinality(Pending(steps)) \in Nat /\ hooks.unqueued \in Nat
      /\ hooks.unqueued = Cardinality(Aside(aa)) + Cardinality(Pending(steps)) /\ Len(aa) \in Nat
  BY <1>1, CountIsNatural DEF PromiseInv, CountInv
<1>8. top[3] => ~IsMark(steps[1])
  BY <1>1, <1>2 DEF IsMark, IsToken
<1>9. ASSUME bb = aa, \A j \in 1 .. Len(new) : new[j][1] # "uncount",
             top[3] \/ \E j \in 1 .. Len(new) : IsMark(new[j])
      PROVE  PromiseInv'
  <2>1. Marked(steps) => Marked(steps')
    <3>1. CASE top[3]
      BY <1>3, <1>8, <3>1, MarkStays
    <3>2. CASE \E j \in 1 .. Len(new) : IsMark(new[j])
      BY <1>3, <3>2, MarkPut
    <3>. QED
      BY <1>9, <3>1, <3>2
  <2>2. CountInv'
    BY <1>1, <1>3, <1>4, <1>6, <1>9, CountSame
  <2>3. HooksFit'
    BY <1>1, <1>4, <1>6, <1>9, <2>1, HooksSame
  <2>. QED
    BY <2>2, <2>3 DEF PromiseInv
<1>10. CASE top[2] = 0 /\ bb = aa /\ new = IF top[4] \/ ~top[3] THEN <<<<"dequeue">>>> ELSE <<>>
  <2>1. CASE top[4] \/ ~top[3]
    <3>1. PICK x : x = <<"dequeue">>
      OBVIOUS
    <3>2. x \in Steps /\ x[1] = "dequeue"
      BY <3>1, Shapes
    <3>3. new = <<x>>
      BY <1>10, <2>1, <3>1
    <3>4. Len(new) = 1 /\ new[1] = x
      BY <3>2, <3>3, OneStep
    <3>5. 1 \in 1 .. Len(new) /\ \A j \in 1 .. Len(new) : j = 1
      BY <3>4
    <3>6. IsMark(new[1]) /\ \A j \in 1 .. Len(new) : new[j][1] # "uncount"
      BY <3>2, <3>4, <3>5 DEF IsMark, IsToken
    <3>. QED
      BY <1>9, <1>10, <3>5, <3>6
  <2>2. CASE ~(top[4] \/ ~top[3])
    <3>1. \A j \in 1 .. Len(<<>>) : FALSE
      OBVIOUS
    <3>2. \A j \in 1 .. Len(new) : FALSE
      BY <1>10, <2>2, <3>1
    <3>3. top[3]
      BY <1>5, <2>2
    <3>. QED
      BY <1>9, <1>10, <3>2, <3>3
  <2>. QED
    BY <2>1, <2>2
<1>11. CASE PassesTimer(new, top, timers, aa) /\ bb = aa
  <2>1. Len(new) = 1 /\ new[1] = <<"stopping", top[2] - 1, top[3], top[4], top[5]>>
    BY <1>11 DEF PassesTimer
  <2>2. new[1][1] = "stopping" /\ new[1][3] = top[3]
    BY <2>1
  <2>3. 1 \in 1 .. Len(new) /\ \A j \in 1 .. Len(new) : j = 1
    BY <2>1
  <2>4. ~top[3] => IsMark(new[1])
    BY <2>2 DEF IsMark
  <2>5. \A j \in 1 .. Len(new) : new[j][1] # "uncount"
    BY <2>2, <2>3
  <2>. QED
    BY <1>5, <1>9, <1>11, <2>3, <2>4, <2>5
<1>12. CASE StopsTimer(new, top, timers, bb, aa)
  <2>1. PICK a, n, queued : a = timers[top[2]] /\ n = Len(new) /\ queued = aa[a].queued
    OBVIOUS
  <2>2. /\ top[2] \in 1 .. Len(timers) /\ aa[a].state = "running"
        /\ Len(bb) = Len(aa) /\ bb[a].state # "running" /\ \A b \in 1 .. Len(aa) : b # a => bb[b] = aa[b]
    BY <1>12, <2>1 DEF StopsTimer
  <2>3. /\ n = IF top[3] THEN 4 ELSE IF queued THEN 2 ELSE 3
        /\ new[n] = <<"stopping", top[2] - 1, top[3], FALSE, top[5]>> /\ new[n - 1] = <<"splice", top[2]>>
        /\ top[3] => new[1] = <<"callback">> /\ new[2] = IF queued THEN <<"dequeue">> ELSE <<"uncount">>
        /\ ~top[3] /\ ~queued => new[1] = <<"uncount">>
    BY <1>12, <2>1 DEF StopsTimer
  <2>4. a \in 1 .. Len(aa)
    BY <1>1, <2>1, <2>2 DEF DrivenInv, TimersFit
  <2>5. queued \in BOOLEAN
    <3>1. aa \in Seq(Animated)
      BY <1>1 DEF DrivenInv, TimersFit
    <3>2. aa[a] \in Animated
      BY <2>4, <3>1, ElementOfSeq
    <3>. QED
      BY <2>1, <3>2 DEF Animated
  <2>6. new[n][1] = "stopping" /\ new[n][3] = top[3] /\ new[n - 1][1] = "splice"
    BY <2>3
  <2>7. /\ top[3] => new[1][1] = "callback" /\ new[2][1] = IF queued THEN "dequeue" ELSE "uncount"
        /\ ~top[3] /\ ~queued => new[1][1] = "uncount"
    <3>1. top[3] => new[1][1] = "callback"
      BY <2>3
    <3>2. top[3] /\ queued => new[2][1] = "dequeue"
      BY <2>3
    <3>3. top[3] /\ ~queued => new[2][1] = "uncount"
      BY <2>3
    <3>4. ~top[3] /\ ~queued => new[1][1] = "uncount"
      BY <2>3
    <3>. QED
      BY <2>5, <3>1, <3>2, <3>3, <3>4
  <2>8. Cardinality(Aside(bb)) = Cardinality(Aside(aa)) - (IF aa[a].queued THEN 0 ELSE 1)
    BY <1>7, <2>2, <2>4, AsideEnds
  <2>9. CASE queued
    <3>1. \E j \in 1 .. Len(new) : IsMark(new[j])
      <4>1. CASE top[3]
        <5>1. 2 \in 1 .. Len(new) /\ new[2][1] = "dequeue"
          BY <2>1, <2>3, <2>7, <2>9, <4>1
        <5>. QED
          BY <5>1 DEF IsMark, IsToken
      <4>2. CASE ~top[3]
        <5>1. n \in 1 .. Len(new)
          BY <2>1, <2>3, <2>9, <4>2
        <5>. QED
          BY <2>6, <4>2, <5>1 DEF IsMark
      <4>. QED
        BY <1>5, <4>1, <4>2
    <3>2. \A j \in 1 .. Len(new) : new[j][1] # "uncount"
      <4>1. CASE top[3]
        <5>1. n = 4 /\ Len(new) = 4
          BY <2>1, <2>3, <4>1
        <5>2. \A j \in 1 .. Len(new) : j = 1 \/ j = 2 \/ j = 3 \/ j = 4
          BY <5>1
        <5>3. new[1][1] # "uncount" /\ new[2][1] # "uncount" /\ new[3][1] # "uncount" /\ new[4][1] # "uncount"
          <6>1. 4 - 1 = 3
            OBVIOUS
          <6>. QED
            BY <2>6, <2>7, <2>9, <4>1, <5>1, <6>1
        <5>. QED
          BY <5>2, <5>3
      <4>2. CASE ~top[3]
        <5>1. n = 2 /\ Len(new) = 2
          BY <2>1, <2>3, <2>9, <4>2
        <5>2. \A j \in 1 .. Len(new) : j = 1 \/ j = 2
          BY <5>1
        <5>3. new[1][1] # "uncount" /\ new[2][1] # "uncount"
          <6>1. 2 - 1 = 1
            OBVIOUS
          <6>. QED
            BY <2>6, <5>1, <6>1
        <5>. QED
          BY <5>2, <5>3
      <4>. QED
        BY <1>5, <4>1, <4>2
    <3>3. Cardinality(Pending(steps')) = Cardinality(Pending(steps))
      BY <1>3, <1>6, <3>2, SamePending
    <3>4. Cardinality(Aside(bb)) = Cardinality(Aside(aa))
      BY <1>7, <2>1, <2>8, <2>9
    <3>5. CountInv'
      BY <1>1, <1>4, <1>7, <3>3, <3>4 DEF CountInv
    <3>6. Marked(steps')
      BY <1>3, <3>1, MarkPut
    <3>7. HooksFit'
      BY <1>4, <1>6, <3>6 DEF HooksFit
    <3>. QED
      BY <3>5, <3>7 DEF PromiseInv
  <2>10. CASE ~queued
    <3>1. PICK i : i = IF top[3] THEN 2 ELSE 1
      OBVIOUS
    <3>2. i \in 1 .. Len(new) /\ new[i][1] = "uncount"
      <4>1. CASE top[3]
        BY <2>1, <2>3, <2>7, <2>10, <3>1, <4>1
      <4>2. CASE ~top[3]
        BY <2>1, <2>3, <2>7, <2>10, <3>1, <4>2
      <4>. QED
        BY <1>5, <4>1, <4>2
    <3>3. \A j \in 1 .. Len(new) : j # i => new[j][1] # "uncount"
      <4>1. CASE top[3]
        <5>1. n = 4 /\ Len(new) = 4 /\ i = 2
          BY <2>1, <2>3, <3>1, <4>1
        <5>2. \A j \in 1 .. Len(new) : j = 1 \/ j = 2 \/ j = 3 \/ j = 4
          BY <5>1
        <5>3. new[1][1] # "uncount" /\ new[3][1] # "uncount" /\ new[4][1] # "uncount"
          <6>1. 4 - 1 = 3
            OBVIOUS
          <6>. QED
            BY <2>6, <2>7, <4>1, <5>1, <6>1
        <5>. QED
          BY <5>1, <5>2, <5>3
      <4>2. CASE ~top[3]
        <5>1. n = 3 /\ Len(new) = 3 /\ i = 1
          BY <2>1, <2>3, <2>10, <3>1, <4>2
        <5>2. \A j \in 1 .. Len(new) : j = 1 \/ j = 2 \/ j = 3
          BY <5>1
        <5>3. new[2][1] # "uncount" /\ new[3][1] # "uncount"
          <6>1. 3 - 1 = 2
            OBVIOUS
          <6>. QED
            BY <2>6, <5>1, <6>1
        <5>. QED
          BY <5>1, <5>2, <5>3
      <4>. QED
        BY <1>5, <4>1, <4>2
    <3>4. Cardinality(Pending(steps')) = Cardinality(Pending(steps)) + 1
      BY <1>3, <1>6, <3>2, <3>3, MorePending
    <3>5. Cardinality(Aside(bb)) = Cardinality(Aside(aa)) - 1
      BY <2>1, <2>8, <2>10
    <3>6. hooks.unqueued = Cardinality(Aside(bb)) + Cardinality(Pending(steps'))
      BY <1>7, <3>4, <3>5
    <3>7. hooks.unqueued > 0
      <4>1. Cardinality(Aside(bb)) \in Nat
        BY <1>7, <2>2, AsideFinite
      <4>. QED
        BY <1>7, <3>5, <4>1
    <3>8. CountInv'
      BY <1>1, <1>4, <3>6 DEF CountInv
    <3>9. HooksFit'
      BY <1>4, <1>6, <3>7 DEF HooksFit
    <3>. QED
      BY <3>8, <3>9 DEF PromiseInv
  <2>. QED
    BY <2>5, <2>9, <2>10
<1>. QED
  BY <1>3, <1>10, <1>11, <1>12

(* The animations and their count are as they were. *)
LEMMA PromiseKept ==
  ASSUME PromiseInv, NEW new, NEW c, Restacked(steps', new, steps, c),
         \A j \in 1 .. Len(new) : new[j][1] # "uncount", c = 1 => steps[1][1] # "uncount",
         animations' = animations, hooks'.unqueued = hooks.unqueued, promise' = "pending" => hooks'.there,
         ~disturbed' /\ queue' = <<>> /\ hooks'.there =>
           hooks.unqueued > 0 \/ Running(animations) # {} \/ Marked(steps')
  PROVE  PromiseInv'
<1>1. CountInv'
  BY CountSame DEF PromiseInv
<1>2. HooksFit'
  BY DEF HooksFit
<1>. QED
  BY <1>1, <1>2 DEF PromiseInv

LEMMA PopsPromise ==
  ASSUME EffectTypes, DrivenInv, PromiseInv, Splice \/ StopDelay \/ FinishEnds
  PROVE  PromiseInv'
<1>1. PICK new : /\ Restacked(steps', new, steps, 1) /\ steps[1][1] \in {"splice", "stop", "finished"}
                 /\ \A j \in 1 .. Len(new) : new[j][1] # "uncount"
  <2>1. \A j \in 1 .. Len(<<>>) : FALSE
    OBVIOUS
  <2>2. CASE Splice
    <3>1. Restacked(steps', <<>>, steps, 1) /\ steps[1][1] = "splice"
      BY <2>2, SpliceDriven
    <3>. QED
      BY <2>1, <3>1
  <2>3. CASE FinishEnds
    <3>1. Restacked(steps', <<>>, steps, 1) /\ steps[1][1] = "finished"
      BY <2>3, EndDriven
    <3>. QED
      BY <2>1, <3>1
  <2>4. CASE StopDelay
    <3>1. PICK new : Restacked(steps', new, steps, 1) /\ Len(new) = 1 /\ new[1] = <<"stopping", Len(timers), steps[1][2], TRUE, FALSE>>
      BY <2>4, StopDelayDriven
    <3>2. new[1][1] = "stopping" /\ \A j \in 1 .. Len(new) : j = 1
      BY <3>1
    <3>3. steps[1][1] = "stop"
      BY <2>4, StopDelayDriven
    <3>. QED
      BY <3>1, <3>2, <3>3
  <2>. QED
    BY <2>2, <2>3, <2>4
<1>2. /\ UNCHANGED <<queue, promise, animations, disturbed>>
      /\ hooks' = hooks \/ hooks' = [hooks EXCEPT !.stop = 0]
  BY DEF Splice, StopDelay, FinishEnds
<1>3. hooks'.unqueued = hooks.unqueued /\ hooks'.there = hooks.there
  BY <1>2 DEF EffectTypes
<1>4. ~IsMark(steps[1])
  BY <1>1 DEF IsMark, IsToken
<1>5. Marked(steps) => Marked(steps')
  BY <1>1, <1>4, MarkStays
<1>6. /\ promise' = "pending" => hooks'.there
      /\ ~disturbed' /\ queue' = <<>> /\ hooks'.there =>
           hooks.unqueued > 0 \/ Running(animations) # {} \/ Marked(steps')
  BY <1>2, <1>3, <1>5 DEF PromiseInv, HooksFit
<1>7. 1 = 1 => steps[1][1] # "uncount"
  BY <1>1
<1>. QED
  BY <1>1, <1>2, <1>3, <1>6, <1>7, PromiseKept

LEMMA DequeuesPromise ==
  ASSUME DrivenInv, PromiseInv, ClearQueue \/ TimeoutElapses
  PROVE  PromiseInv'
<1>1. PICK new : Restacked(steps', new, steps, 0) /\ new = <<<<"dequeue">>>>
  BY DequeuesDriven
<1>2. UNCHANGED <<hooks, promise, animations>>
  BY DEF ClearQueue, TimeoutElapses
<1>3. PICK x : x = <<"dequeue">>
  OBVIOUS
<1>4. x \in Steps /\ x[1] = "dequeue"
  BY <1>3, Shapes
<1>5. new = <<x>>
  BY <1>1, <1>3
<1>6. Len(new) = 1 /\ new[1] = x
  BY <1>4, <1>5, OneStep
<1>7. 1 \in 1 .. Len(new) /\ \A j \in 1 .. Len(new) : j = 1
  BY <1>6
<1>8. IsMark(new[1]) /\ \A j \in 1 .. Len(new) : new[j][1] # "uncount"
  BY <1>4, <1>6, <1>7 DEF IsMark, IsToken
<1>9. Marked(steps')
  BY <1>1, <1>7, <1>8, MarkPut
<1>10. promise' = "pending" => hooks'.there
  BY <1>2 DEF PromiseInv, HooksFit
<1>11. 0 = 1 => steps[1][1] # "uncount"
  OBVIOUS
<1>. QED
  BY <1>1, <1>2, <1>8, <1>9, <1>10, <1>11, PromiseKept

LEMMA EnqueuePromise ==
  ASSUME EffectTypes, DrivenInv, PromiseInv, NEW item \in Items, Enqueue(item)
  PROVE  PromiseInv'
<1>1. PICK new : /\ Restacked(steps', new, steps, 0)
                 /\ new = IF queue = <<>> \/ Head(queue) # Sentinel THEN <<<<"dequeue">>>> ELSE <<>>
  BY EnqueueDriven
<1>2. /\ queue' = Append(queue, item) /\ hooks' = [hooks EXCEPT !.there = TRUE] /\ UNCHANGED <<promise, animations>>
  BY DEF Enqueue
<1>3. hooks'.there = TRUE /\ hooks'.unqueued = hooks.unqueued
  BY <1>2 DEF EffectTypes
<1>4. queue' # <<>>
  BY <1>2, AppendProperties DEF EffectTypes
<1>5. \A j \in 1 .. Len(new) : new[j][1] # "uncount"
  <2>1. PICK x : x = <<"dequeue">>
    OBVIOUS
  <2>2. x \in Steps /\ x[1] = "dequeue"
    BY <2>1, Shapes
  <2>3. <<x>> \in Seq(Steps) /\ Len(<<x>>) = 1 /\ <<x>>[1] = x
    BY <2>2, OneStep
  <2>4. CASE new = <<x>>
    BY <2>2, <2>3, <2>4
  <2>5. CASE new = <<>>
    <3>1. \A j \in 1 .. Len(<<>>) : FALSE
      OBVIOUS
    <3>. QED
      BY <2>5, <3>1
  <2>. QED
    BY <1>1, <2>1, <2>4, <2>5
<1>6. 0 = 1 => steps[1][1] # "uncount"
  OBVIOUS
<1>. QED
  BY <1>1, <1>2, <1>3, <1>4, <1>5, <1>6, PromiseKept

LEMMA UnqueuedPromise ==
  ASSUME DrivenInv, PromiseInv, AnimateUnqueued
  PROVE  PromiseInv'
<1>1. PICK new, instant : /\ instant \in BOOLEAN /\ Restacked(steps', new, steps, 0)
                          /\ new = <<<<"start", FALSE, instant>>>>
  BY UnqueuedDriven
<1>2. UNCHANGED <<queue, hooks, promise, animations>> /\ (disturbed => disturbed')
  BY DEF AnimateUnqueued, Called
<1>3. PICK x : x = <<"start", FALSE, instant>>
  OBVIOUS
<1>4. x \in Steps /\ x[1] = "start"
  BY <1>1, <1>3, Shapes
<1>5. new = <<x>>
  BY <1>1, <1>3
<1>6. Len(new) = 1 /\ new[1] = x
  BY <1>4, <1>5, OneStep
<1>7. \A j \in 1 .. Len(new) : j = 1
  BY <1>6
<1>8. \A j \in 1 .. Len(new) : new[j][1] # "uncount"
  BY <1>4, <1>6, <1>7
<1>10. 0 = 1 => ~IsMark(steps[1]) /\ steps[1][1] # "uncount"
  OBVIOUS
<1>11. Marked(steps) => Marked(steps')
  BY <1>1, <1>10, MarkStays
<1>12. /\ promise' = "pending" => hooks'.there
       /\ ~disturbed' /\ queue' = <<>> /\ hooks'.there =>
            hooks.unqueued > 0 \/ Running(animations) # {} \/ Marked(steps')
  BY <1>2, <1>11 DEF PromiseInv, HooksFit
<1>. QED
  BY <1>1, <1>2, <1>8, <1>10, <1>12, PromiseKept

LEMMA GetPromisePromise ==
  ASSUME DrivenInv, PromiseInv, GetPromise
  PROVE  PromiseInv'
<1>1. steps' = steps
  BY PromiseDriven
<1>2. UNCHANGED <<queue, hooks, animations>> /\ (disturbed => disturbed') /\ promise' = IF hooks.there THEN "pending" ELSE "resolved"
  BY DEF GetPromise, Called
<1>3. CountInv'
  BY <1>1, <1>2 DEF PromiseInv, CountInv
<1>4. HooksFit'
  BY <1>1, <1>2 DEF PromiseInv, HooksFit
<1>. QED
  BY <1>3, <1>4 DEF PromiseInv

LEMMA StopPromise ==
  ASSUME DrivenInv, PromiseInv, Stop, ~nested'
  PROVE  PromiseInv'
<1>1. PICK new, clearQueue, gotoEnd :
        /\ Restacked(steps', new, steps, 0) /\ clearQueue \in BOOLEAN /\ gotoEnd \in BOOLEAN
        /\ IF clearQueue
           THEN Len(new) = 2 /\ new[1] = <<"dequeue">> /\ new[2] = <<"stop", gotoEnd>> /\ queue' = <<>>
           ELSE Len(new) = 1 /\ new[1] = <<"stop", gotoEnd>> /\ queue' = queue
  BY StopDriven
<1>2. UNCHANGED <<hooks, promise, animations>> /\ (disturbed => disturbed')
  BY DEF Stop, Called
<1>3. 0 = 1 => ~IsMark(steps[1]) /\ steps[1][1] # "uncount"
  OBVIOUS
<1>4. promise' = "pending" => hooks'.there
  BY <1>2 DEF PromiseInv, HooksFit
<1>5. CASE clearQueue
  <2>1. Len(new) = 2 /\ new[1][1] = "dequeue" /\ new[2][1] = "stop"
    BY <1>1, <1>5
  <2>2. 1 \in 1 .. Len(new) /\ \A j \in 1 .. Len(new) : j = 1 \/ j = 2
    BY <2>1
  <2>3. IsMark(new[1]) /\ \A j \in 1 .. Len(new) : new[j][1] # "uncount"
    BY <2>1, <2>2 DEF IsMark, IsToken
  <2>4. Marked(steps')
    BY <1>1, <2>2, <2>3, MarkPut
  <2>. QED
    BY <1>1, <1>2, <1>3, <1>4, <2>3, <2>4, PromiseKept
<1>6. CASE ~clearQueue
  <2>1. Len(new) = 1 /\ new[1][1] = "stop" /\ queue' = queue
    BY <1>1, <1>6
  <2>2. \A j \in 1 .. Len(new) : j = 1
    BY <2>1
  <2>3. \A j \in 1 .. Len(new) : new[j][1] # "uncount"
    BY <2>1, <2>2
  <2>4. Marked(steps) => Marked(steps')
    BY <1>1, <1>3, MarkStays
  <2>5. ~disturbed' /\ queue' = <<>> /\ hooks'.there =>
           hooks.unqueued > 0 \/ Running(animations) # {} \/ Marked(steps')
    BY <1>2, <2>1, <2>4 DEF PromiseInv, HooksFit
  <2>. QED
    BY <1>1, <1>2, <1>3, <1>4, <2>3, <2>5, PromiseKept
<1>. QED
  BY <1>1, <1>5, <1>6

LEMMA FinishPromise ==
  ASSUME EffectTypes, DrivenInv, QueueInv, PromiseInv, Finish, ~nested'
  PROVE  PromiseInv'
<1>1. PICK new, n :
        /\ Restacked(steps', new, steps, 0) /\ n \in Nat /\ Len(new) = n + 2
        /\ new[1] = <<"stopping", Len(timers), TRUE, FALSE, TRUE>> /\ new[n + 2] = <<"finished">>
        /\ \A j \in 2 .. n + 1 : new[j][1] = "start" /\ new[j][2]
  BY FinishDriven
<1>2. UNCHANGED <<hooks, promise, animations>> /\ disturbed' = (disturbed \/ DelayPending)
  BY FinishDriven DEF Finish, Called, Stopping
<1>3. 0 = 1 => ~IsMark(steps[1]) /\ steps[1][1] # "uncount"
  OBVIOUS
<1>4. promise' = "pending" => hooks'.there
  BY <1>2 DEF PromiseInv, HooksFit
<1>5. \A j \in 1 .. Len(new) : new[j][1] # "uncount"
  <2>1. new[1][1] = "stopping" /\ new[n + 2][1] = "finished"
    BY <1>1
  <2>2. \A j \in 1 .. n + 2 : j = 1 \/ j = n + 2 \/ j \in 2 .. n + 1
    BY <1>1
  <2>. QED
    BY <1>1, <2>1, <2>2
<1>6. Marked(steps) => Marked(steps')
  BY <1>1, <1>3, MarkStays
<1>7. ASSUME ~disturbed', hooks.there
      PROVE  hooks.unqueued > 0 \/ Running(animations) # {} \/ Marked(steps)
  <2>1. ~disturbed /\ delays = {}
    BY <1>2, <1>7 DEF DelayPending
  <2>2. CASE queue = <<>>
    BY <1>7, <2>1, <2>2 DEF PromiseInv, HooksFit
  <2>3. CASE queue # <<>>
    <3>1. OneFits(steps, timers, Running(animations), delays, hooks.stop, finishing)
      BY <2>1, <2>3 DEF QueueInv
    <3>2. Running(animations) = {} => \E k \in 1 .. Len(steps) : IsMark(steps[k])
      BY <2>1, <3>1, Zenon DEF OneFits, IsMark
    <3>. QED
      BY <3>2 DEF Marked
  <2>. QED
    BY <2>2, <2>3
<1>. QED
  BY <1>1, <1>2, <1>3, <1>4, <1>5, <1>6, <1>7, PromiseKept

LEMMA PromiseStep ==
  ASSUME EffectTypes, DrivenInv, QueueInv, PromiseInv, [EffectsNext]_effectVars, ~disturbed', ~nested'
  PROVE  PromiseInv'
<1>1. CASE UNCHANGED effectVars
  BY <1>1 DEF effectVars, PromiseInv, CountInv, HooksFit
<1>2. CASE Dequeue \/ StartAnimation \/ Uncount \/ CallbackDone \/ Tick \/ Ticked \/ StopTimers \/ Splice
  BY <1>2, DequeuePromise, StartPromise, UncountPromise, TickPromise, TickedPromise, StopTimersPromise, PopsPromise
<1>3. CASE StopDelay \/ FinishEnds \/ AnimateUnqueued \/ ClearQueue \/ Stop \/ Finish \/ GetPromise
  BY <1>3, PopsPromise, UnqueuedPromise, DequeuesPromise, StopPromise, FinishPromise, GetPromisePromise
<1>4. CASE Animate \/ Delay
  <2>1. /\ \A instant \in BOOLEAN : [kind |-> "animation", id |-> 0, instant |-> instant] \in Items
        /\ \A id \in Nat : [kind |-> "delay", id |-> id, instant |-> FALSE] \in Items
    BY DEF Items
  <2>2. effects + 1 \in Nat
    BY DEF EffectTypes
  <2>3. \E item \in Items : Enqueue(item)
    BY <1>4, <2>1, <2>2, Zenon DEF Animate, Delay
  <2>. QED
    BY <2>3, EnqueuePromise
<1>5. CASE IntervalElapses \/ TimeoutElapses
  BY <1>5, TickedPromise, DequeuesPromise
<1>. QED
  BY <1>1, <1>2, <1>3, <1>4, <1>5, NothingThrown DEF EffectsNext

LEMMA PromiseStarts ==
  ASSUME EffectsInit
  PROVE  PromiseInv
<1>1. steps = <<>> /\ animations = <<>> /\ hooks = NoHooks /\ promise = "none" /\ Len(<<>>) = 0
  BY DEF EffectsInit
<1>2. Aside(animations) = {} /\ Pending(steps) = {}
  BY <1>1 DEF Aside, Pending
<1>3. hooks.unqueued = 0 /\ hooks.there = FALSE
  BY <1>1 DEF NoHooks
<1>4. CountInv
  BY <1>2, <1>3, FS_EmptySet DEF CountInv
<1>5. HooksFit
  BY <1>1, <1>3 DEF HooksFit
<1>. QED
  BY <1>4, <1>5 DEF PromiseInv

LEMMA SameSets ==
  ASSUME DrivenInv
  PROVE  Unqueued = Aside(animations) /\ InProgress = Running(animations)
<1>1. DOMAIN animations = 1 .. Len(animations)
  BY DEF DrivenInv, TimersFit
<1>. QED
  BY <1>1 DEF Unqueued, InProgress, IsRunning, Running, Aside

LEMMA EmptyAside ==
  ASSUME NEW aa, Len(aa) \in Nat, ~(Cardinality(Aside(aa)) > 0)
  PROVE  Aside(aa) = {}
<1>1. IsFiniteSet(Aside(aa)) /\ Cardinality(Aside(aa)) = 0
  BY AsideFinite
<1>. QED
  BY <1>1, FS_EmptySet

(* A promise is resolved by the two that may remove the hooks, and only if  *)
(* nothing runs outside the queue.                                         *)
LEMMA WhoResolves ==
  ASSUME EffectTypes, [EffectsNext]_effectVars, promise = "pending", promise' = "resolved"
  PROVE  \/ Dequeue /\ ~(hooks.unqueued > 0)
         \/ Uncount /\ queue = <<>> /\ ~(hooks.unqueued - 1 > 0)
<1>1. promise' # promise
  OBVIOUS
<1>2. ~UNCHANGED effectVars
  BY <1>1 DEF effectVars
<1>3. ~StartAnimation /\ ~CallbackDone /\ ~Tick /\ ~Ticked /\ ~StopTimers /\ ~Splice /\ ~StopDelay /\ ~FinishEnds
      /\ ~CompleteThrows /\ ~NoTimerToStop
  BY <1>1 DEF StartAnimation, CallbackDone, Tick, Ticked, StopTimers, Splice, StopDelay, FinishEnds, CompleteThrows,
       NoTimerToStop, ScriptEnds
<1>4. ~Animate /\ ~AnimateUnqueued /\ ~Delay /\ ~ClearQueue /\ ~Stop /\ ~Finish /\ ~GetPromise /\ ~IntervalElapses /\ ~TimeoutElapses
  BY <1>1 DEF Animate, AnimateUnqueued, Delay, Enqueue, ClearQueue, Stop, Finish, GetPromise, IntervalElapses, TimeoutElapses
<1>5. Dequeue \/ Uncount
  BY <1>2, <1>3, <1>4 DEF EffectsNext
<1>6. ASSUME NEW h, EmptyFires(h) PROVE ~(h.unqueued > 0)
  BY <1>1, <1>6 DEF EmptyFires
<1>7. CASE Dequeue
  <2>3. PICK present : present = [hooks EXCEPT !.there = TRUE]
    OBVIOUS
  <2>4. EmptyFires(present)
    BY <1>1, <1>7, <2>3 DEF Dequeue
  <2>5. present.unqueued = hooks.unqueued
    BY <2>3 DEF EffectTypes
  <2>. QED
    BY <1>6, <1>7, <2>4, <2>5
<1>8. CASE Uncount
  <2>2. PICK counted : counted = [hooks EXCEPT !.unqueued = @ - 1]
    OBVIOUS
  <2>3. queue = <<>> /\ EmptyFires(counted)
    BY <1>1, <1>8, <2>2 DEF Uncount
  <2>4. counted.unqueued = hooks.unqueued - 1
    BY <2>2 DEF EffectTypes
  <2>. QED
    BY <1>6, <1>8, <2>3, <2>4
<1>. QED
  BY <1>5, <1>7, <1>8

(* When the promise is resolved by dequeue or by the count, nothing runs    *)
(* any more.                                                               *)
LEMMA NothingLeft ==
  ASSUME EffectTypes, DrivenInv, QueueInv, PromiseInv, [EffectsNext]_effectVars,
         ~disturbed', promise = "pending", promise' = "resolved", ~Owes("stop"), ~Owes("stopping")
  PROVE  Aside(animations) = {} /\ Running(animations) = {} /\ delays = {}
<1>1. \/ Dequeue /\ ~(hooks.unqueued > 0)
      \/ Uncount /\ queue = <<>> /\ ~(hooks.unqueued - 1 > 0)
  BY WhoResolves
<1>2. /\ Cardinality(Aside(animations)) \in Nat /\ Cardinality(Pending(steps)) \in Nat /\ hooks.unqueued \in Nat
      /\ hooks.unqueued = Cardinality(Aside(animations)) + Cardinality(Pending(steps)) /\ Len(animations) \in Nat
  BY CountIsNatural DEF PromiseInv, CountInv
<1>3. \A m \in 1 .. Len(steps) : steps[m][1] # "stop" /\ steps[m][1] # "stopping"
  <2>1. DOMAIN steps = 1 .. Len(steps)
    BY DEF DrivenInv
  <2>. QED
    BY <2>1 DEF Owes
<1>4. ~disturbed
  BY <1>1 DEF Dequeue, Uncount
<1>5. queue = <<>> => Running(animations) = {} /\ delays = {}
  <2>1. queue = <<>> => EmptyFits(steps, timers, Running(animations), delays, finishing)
    BY <1>4 DEF QueueInv
  <2>. QED
    BY <1>3, <2>1, NothingRuns
<1>6. CASE Dequeue /\ ~(hooks.unqueued > 0)
  <2>1. Aside(animations) = {}
    <3>1. ~(Cardinality(Aside(animations)) > 0)
      BY <1>2, <1>6
    <3>. QED
      BY <1>2, <3>1, EmptyAside
  <2>2. steps[1][1] = "dequeue" /\ 1 \in 1 .. Len(steps)
    <3>1. steps[1][1] = "dequeue" /\ Len(steps) \in Nat /\ Len(steps) >= 1
      BY <1>6, TopOf DEF DrivenInv, Dequeue
    <3>. QED
      BY <3>1
  <2>3. queue # <<>> => Running(animations) = {} /\ delays = {}
    <3>1. queue # <<>> => OneFits(steps, timers, Running(animations), delays, hooks.stop, finishing)
      BY <1>4 DEF QueueInv
    <3>2. IsToken(steps[1])
      BY <2>2 DEF IsToken
    <3>. QED
      BY <2>2, <3>1, <3>2, TokenAlone
  <2>. QED
    BY <1>5, <2>1, <2>3
<1>7. CASE Uncount /\ queue = <<>> /\ ~(hooks.unqueued - 1 > 0)
  <2>1. steps[1][1] = "uncount" /\ 1 \in 1 .. Len(steps) /\ Len(steps) \in Nat
    <3>1. steps[1][1] = "uncount" /\ Len(steps) \in Nat /\ Len(steps) >= 1
      BY <1>7, TopOf DEF DrivenInv, Uncount
    <3>. QED
      BY <3>1
  <2>2. Cardinality(Pending(steps)) > 0
    <3>1. 1 \in Pending(steps) /\ IsFiniteSet(Pending(steps))
      BY <2>1, PendingFinite DEF Pending
    <3>2. Cardinality(Pending(steps)) # 0
      BY <3>1, FS_EmptySet
    <3>. QED
      BY <1>2, <3>2
  <2>3. ~(Cardinality(Aside(animations)) > 0)
    BY <1>2, <1>7, <2>2
  <2>4. Aside(animations) = {}
    BY <1>2, <2>3, EmptyAside
  <2>. QED
    BY <1>5, <1>7, <2>4
<1>. QED
  BY <1>1, <1>6, <1>7

(* After a script a pending promise has something to wait for. *)
SomethingWaits == steps = <<>> /\ ~disturbed /\ promise = "pending" => queue # <<>> \/ Unqueued # {}

LEMMA SomethingLeft ==
  ASSUME DrivenInv, QueueInv, PromiseInv
  PROVE  SomethingWaits
<1>1. SUFFICES ASSUME steps = <<>>, ~disturbed, promise = "pending", queue = <<>> PROVE Unqueued # {}
  BY DEF SomethingWaits
<1>2. \A m \in 1 .. Len(steps) : FALSE
  <2>1. Len(steps) = 0
    BY <1>1
  <2>. QED
    BY <2>1
<1>3. ~Marked(steps)
  BY <1>2 DEF Marked
<1>4. Running(animations) = {}
  <2>1. EmptyFits(steps, timers, Running(animations), delays, finishing)
    BY <1>1 DEF QueueInv
  <2>. QED
    BY <1>2, <2>1, NothingRuns
<1>5. hooks.unqueued > 0
  BY <1>1, <1>3, <1>4 DEF PromiseInv, HooksFit
<1>6. Cardinality(Pending(steps)) = 0
  BY <1>2, NonePending
<1>7. Cardinality(Aside(animations)) # 0
  BY <1>5, <1>6, CountIsNatural DEF PromiseInv, CountInv
<1>8. Aside(animations) # {}
  BY <1>7, FS_EmptySet
<1>. QED
  BY <1>8, SameSets

(* A promise is resolved only when nothing of the element is in progress or *)
(* waits, unless it is about to be stopped, and after a script it is pending *)
(* only while something is left (jquery-1.10.1.js:4044-4071, 9090-9114); as  *)
(* long as no callback throws and the page does nothing of what OneAtATime   *)
(* lists.                                                                   *)
THEOREM EffectsPromisesResolve == EffectsSpec => PromisesResolve
<1>. DEFINE All == EffectTypes /\ DrivenInv /\ QueueInv /\ PromiseInv
            Undisturbed == (nested => disturbed) /\ (disturbed \/ All)
            Resolves ==
              ~disturbed' =>
                /\ promise = "pending" /\ promise' = "resolved" /\ ~Owes("stop") /\ ~Owes("stopping") =>
                     Unqueued = {} /\ InProgress = {} /\ delays = {}
                /\ steps' = <<>> /\ promise' = "pending" =>
                     queue' # <<>> \/ Unqueued' # {}
<1>1. EffectsInit => Undisturbed
  BY DrivenStarts, QueueStarts, PromiseStarts DEF EffectsInit
<1>2. ASSUME Undisturbed, [EffectsNext]_effectVars PROVE Undisturbed' /\ (~disturbed' => ~disturbed /\ All')
  <2>1. CASE disturbed'
    BY <2>1
  <2>2. CASE ~disturbed'
    <3>1. ~disturbed /\ ~nested'
      BY <1>2, <2>2, DisturbedStays
    <3>. QED
      BY <1>2, <2>2, <3>1, EffectTypesStep, DrivenStep, QueueStep, PromiseStep
  <2>. QED
    BY <2>1, <2>2
<1>3. DrivenInv' /\ QueueInv' /\ PromiseInv' => SomethingWaits'
  <2>1. DrivenInv /\ QueueInv /\ PromiseInv => SomethingWaits
    BY SomethingLeft
  <2>. QED
    BY <2>1, PTL
<1>4. ASSUME Undisturbed, [EffectsNext]_effectVars PROVE Resolves
  <2>1. SUFFICES ASSUME ~disturbed' PROVE Resolves
    OBVIOUS
  <2>2. All /\ All'
    BY <1>2, <1>4, <2>1
  <2>3. ASSUME promise = "pending", promise' = "resolved", ~Owes("stop"), ~Owes("stopping")
        PROVE  Unqueued = {} /\ InProgress = {} /\ delays = {}
    BY <1>4, <2>1, <2>2, <2>3, NothingLeft, SameSets
  <2>. QED
    BY <1>3, <2>1, <2>2, <2>3 DEF SomethingWaits
<1>5. Undisturbed /\ [EffectsNext]_effectVars => Undisturbed' /\ [Resolves]_effectVars
  BY <1>2, <1>4
<1>. QED
  BY <1>1, <1>5, PTL DEF EffectsSpec, PromisesResolve

=============================================================================
