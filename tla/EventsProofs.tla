---------------------------- MODULE EventsProofs ----------------------------
(***************************************************************************)
(* Events: the browser listens exactly where there are handlers, and a      *)
(* handler is called once for each event and element, however handlers     *)
(* come and go meanwhile.                                                  *)
(***************************************************************************)
EXTENDS Events, Induction, SequenceTheorems, FiniteSetTheorems

(***************************************************************************)
(* Handlers that are removed from a list                                   *)
(***************************************************************************)
LEMMA KeptSteps ==
  ASSUME NEW s, NEW names, NEW selector, Len(s) \in Nat
  PROVE  \E kept : /\ kept[0] = <<>> /\ Kept(s, names, selector) = kept[Len(s)]
                   /\ \A n \in 1 .. Len(s) :
                        kept[n] = IF Matches(s[n], names, selector) THEN kept[n - 1] ELSE Append(kept[n - 1], s[n])
<1>. DEFINE N == Len(s)
            Next(x, n) == IF Matches(s[n], names, selector) THEN x ELSE Append(x, s[n])
            Keeps(g, n) == g = [m \in 0 .. n |-> IF m = 0 THEN <<>> ELSE Next(g[m - 1], m)]
            S == {n \in 0 .. N : \E g : Keeps(g, n)}
<1>1. N \in Nat
  OBVIOUS
<1>2. Kept(s, names, selector) = (CHOOSE g : Keeps(g, N))[N]
  BY DEF Kept
<1>. HIDE DEF N, Next
<1>3. 0 \in S
  <2>. DEFINE g == [m \in 0 .. 0 |-> <<>>]
  <2>1. Keeps(g, 0)
    OBVIOUS
  <2>. HIDE DEF Keeps, g
  <2>. QED
    BY <1>1, <2>1
<1>4. ASSUME NEW n \in 1 .. N, n - 1 \in S PROVE n \in S
  <2>1. PICK g : Keeps(g, n - 1)
    BY <1>4
  <2>. DEFINE h == [m \in 0 .. n |-> IF m = n THEN Next(g[n - 1], n) ELSE g[m]]
  <2>2. ASSUME NEW m \in 0 .. n PROVE h[m] = IF m = 0 THEN <<>> ELSE Next(h[m - 1], m)
    <3>1. CASE m = n
      <4>1. h[m] = Next(g[n - 1], n) /\ h[n - 1] = g[n - 1] /\ n # 0
        BY <3>1, <1>1
      <4>. QED
        BY <3>1, <4>1
    <3>2. CASE m # n
      <4>1. m \in 0 .. n - 1 /\ (m # 0 => m - 1 \in 0 .. n /\ m - 1 # n)
        BY <1>1, <3>2
      <4>2. h[m] = g[m] /\ (m # 0 => h[m - 1] = g[m - 1])
        BY <3>2, <4>1
      <4>3. g[m] = IF m = 0 THEN <<>> ELSE Next(g[m - 1], m)
        BY <2>1, <4>1
      <4>. QED
        BY <4>2, <4>3
    <3>. QED
      BY <3>1, <3>2
  <2>3. Keeps(h, n)
    BY <2>2
  <2>. HIDE DEF Keeps, h
  <2>. QED
    BY <1>1, <2>3
<1>5. N \in S
  <2>. HIDE DEF S
  <2>. QED
    BY <1>1, <1>3, <1>4, StepByStep
<1>6. PICK kept : kept = (CHOOSE g : Keeps(g, N))
  OBVIOUS
<1>7. Keeps(kept, N)
  BY <1>5, <1>6
<1>8. /\ kept[0] = <<>>
      /\ \A n \in 1 .. N : kept[n] = Next(kept[n - 1], n)
  BY <1>1, <1>7
<1>9. Kept(s, names, selector) = kept[Len(s)]
  BY <1>2, <1>6 DEF N
<1>10. \A n \in 1 .. Len(s) : kept[n] = IF Matches(s[n], names, selector) THEN kept[n - 1] ELSE Append(kept[n - 1], s[n])
  BY <1>8 DEF N, Next
<1>. QED
  BY <1>8, <1>9, <1>10

(* What is kept of a list is in the order of the list. *)
Picks(t, s, g) ==
  /\ g \in [1 .. Len(t) -> 1 .. Len(s)]
  /\ \A i \in 1 .. Len(t) : t[i] = s[g[i]]
  /\ \A i, j \in 1 .. Len(t) : i < j => g[i] < g[j]

LEMMA KeptInOrder ==
  ASSUME NEW S, NEW s \in Seq(S), NEW names, NEW selector
  PROVE  /\ Kept(s, names, selector) \in Seq(S)
         /\ \E g : /\ Picks(Kept(s, names, selector), s, g)
                   /\ \A j \in 1 .. Len(s) :
                        Matches(s[j], names, selector) <=>
                          \A i \in 1 .. Len(Kept(s, names, selector)) : g[i] # j
<1>1. PICK N : N = Len(s)
  OBVIOUS
<1>2. N \in Nat /\ \A i \in 1 .. N : s[i] \in S
  BY <1>1
<1>3. PICK kept : /\ kept[0] = <<>> /\ Kept(s, names, selector) = kept[N]
                  /\ \A n \in 1 .. N :
                       kept[n] = IF Matches(s[n], names, selector) THEN kept[n - 1] ELSE Append(kept[n - 1], s[n])
  BY <1>1, <1>2, KeptSteps
<1>. DEFINE Good(t, n, g) ==
              /\ t \in Seq(S) /\ g \in [1 .. Len(t) -> 1 .. n]
              /\ \A i \in 1 .. Len(t) : t[i] = s[g[i]]
              /\ \A i, j \in 1 .. Len(t) : i < j => g[i] < g[j]
              /\ \A j \in 1 .. n : Matches(s[j], names, selector) <=> \A i \in 1 .. Len(t) : g[i] # j
            T == {n \in 0 .. N : \E g : Good(kept[n], n, g)}
<1>4. N \in Nat /\ 0 \in T
  <2>1. Good(<<>>, 0, <<>>)
    OBVIOUS
  <2>. HIDE DEF Good
  <2>. QED
    BY <1>2, <1>3, <2>1
<1>5. ASSUME NEW n \in 1 .. N, n - 1 \in T PROVE n \in T
  <2>1. PICK t, u : t = kept[n - 1] /\ u = kept[n]
    OBVIOUS
  <2>2. PICK g : Good(t, n - 1, g)
    BY <1>5, <2>1
  <2>3. PICK m : m = Len(t)
    OBVIOUS
  <2>0. n \in 0 .. N
    BY <1>2
  <2>4. m \in Nat /\ n \in Nat /\ n - 1 \in Nat /\ s[n] \in S /\ \A i \in 1 .. m : g[i] \in 1 .. n - 1 /\ g[i] # n
    BY SMTT(30), <1>2, <2>2, <2>3
  <2>5. CASE Matches(s[n], names, selector)
    <3>1. u = t
      BY <1>3, <2>1, <2>5
    <3>2. g \in [1 .. Len(t) -> 1 .. n]
      BY <2>2, <2>4
    <3>3. \A j \in 1 .. n : j \in 1 .. n - 1 \/ j = n
      BY <2>4
    <3>4. Good(t, n, g)
      BY <2>2, <2>3, <2>4, <2>5, <3>2, <3>3
    <3>. HIDE DEF Good
    <3>. QED
      BY <2>0, <2>1, <3>1, <3>4
  <2>6. CASE ~Matches(s[n], names, selector)
    <3>1. u = Append(t, s[n])
      BY <1>3, <2>1, <2>6
    <3>2. /\ u \in Seq(S) /\ Len(u) = m + 1 /\ u[m + 1] = s[n]
          /\ \A i \in 1 .. m : u[i] = t[i]
      BY <2>2, <2>3, <2>4, <3>1, AppendProperties
    <3>3. PICK h : h = [i \in 1 .. m + 1 |-> IF i = m + 1 THEN n ELSE g[i]]
      OBVIOUS
    <3>4. \A i \in 1 .. m + 1 : i = m + 1 \/ (i \in 1 .. m /\ i # m + 1)
      BY <2>4
    <3>5. h[m + 1] = n /\ \A i \in 1 .. m : h[i] = g[i] /\ i \in 1 .. m + 1
      BY <2>4, <3>3
    <3>6. h \in [1 .. m + 1 -> 1 .. n]
      <4>1. \A i \in 1 .. m + 1 : h[i] \in 1 .. n
        BY <2>4, <3>4, <3>5
      <4>. QED
        BY <3>3, <4>1
    <3>7. \A i \in 1 .. m + 1 : u[i] = s[h[i]]
      BY <2>2, <2>3, <3>2, <3>4, <3>5
    <3>8. ASSUME NEW i \in 1 .. m + 1, NEW j \in 1 .. m + 1, i < j PROVE h[i] < h[j]
      <4>1. i \in 1 .. m
        BY <2>4, <3>8
      <4>2. CASE j = m + 1
        BY <2>4, <3>5, <4>1, <4>2
      <4>3. CASE j \in 1 .. m
        BY <2>2, <2>3, <3>5, <3>8, <4>1, <4>3
      <4>. QED
        BY <3>4, <4>2, <4>3
    <3>9. ASSUME NEW j \in 1 .. n
          PROVE  Matches(s[j], names, selector) <=> \A i \in 1 .. m + 1 : h[i] # j
      <4>1. CASE j = n
        <5>1. m + 1 \in 1 .. m + 1
          BY <2>4
        <5>. QED
          BY <2>6, <3>5, <4>1, <5>1
      <4>2. CASE j \in 1 .. n - 1
        <5>1. j # n
          BY <2>4, <4>2
        <5>2. (\A i \in 1 .. m + 1 : h[i] # j) <=> \A i \in 1 .. m : g[i] # j
          BY <3>4, <3>5, <5>1
        <5>. QED
          BY <2>2, <2>3, <4>2, <5>2
      <4>3. j = n \/ j \in 1 .. n - 1
        BY <2>4
      <4>. QED
        BY <4>1, <4>2, <4>3
    <3>10. Good(u, n, h)
      BY <3>2, <3>6, <3>7, <3>8, <3>9
    <3>. HIDE DEF Good
    <3>. QED
      BY <2>0, <2>1, <3>10
  <2>. QED
    BY <2>5, <2>6
<1>. HIDE DEF Good, T
<1>6. N \in T
  <2>1. 0 .. N \subseteq T /\ N \in 0 .. N
    BY <1>4, <1>5, StepByStep
  <2>. QED
    BY <2>1
<1>7. PICK g : Good(kept[N], N, g)
  BY <1>6 DEF T
<1>. QED
  BY <1>1, <1>3, <1>7 DEF Picks, Good

(***************************************************************************)
(* The list of the handlers of a node for one type                         *)
(***************************************************************************)
Binding == [id : Nat \ {0}, name : HandlerNames, once : BOOLEAN, delegated : BOOLEAN, of : Nodes]

Listed(list) == {list[i] : i \in 1 .. Len(list)}
OneOfEach(list) == \A i, j \in 1 .. Len(list) : list[i].id = list[j].id => i = j
FrontFits(list, count) ==
  /\ count \in 0 .. Len(list)
  /\ \A i \in 1 .. Len(list) : list[i].delegated <=> i <= count
HandlersFit(list, count) == list \in Seq(Binding) /\ OneOfEach(list) /\ FrontFits(list, count)

Delegates(list) == Cardinality({i \in DOMAIN list : list[i].delegated})

LEMMA DelegatesAreCounted ==
  ASSUME NEW list \in Seq(Binding), NEW count, FrontFits(list, count)
  PROVE  Delegates(list) = count
<1>1. Len(list) \in Nat /\ count \in 0 .. Len(list) /\ DOMAIN list = 1 .. Len(list)
  BY DEF FrontFits
<1>2. {i \in DOMAIN list : list[i].delegated} = 1 .. count
  BY <1>1 DEF FrontFits
<1>3. 1 \in Int /\ count \in Int /\ 1 <= count + 1 /\ count - 1 + 1 = count
  BY <1>1
<1>4. Cardinality(1 .. count) = count
  BY <1>1, <1>3, FS_Interval
<1>. QED
  BY <1>2, <1>4 DEF Delegates

LEMMA KeptHandlers ==
  ASSUME NEW list, NEW count, HandlersFit(list, count), NEW names, NEW selector,
         NEW kept, kept = Kept(list, names, selector)
  PROVE  /\ HandlersFit(kept, count - (Delegates(list) - Delegates(kept)))
         /\ Listed(kept) = {b \in Listed(list) : ~Matches(b, names, selector)}
<1>1. PICK m, n : m = Len(kept) /\ n = Len(list)
  OBVIOUS
<1>2. list \in Seq(Binding) /\ n \in Nat /\ kept \in Seq(Binding) /\ m \in Nat
  BY <1>1, KeptInOrder DEF HandlersFit
<1>3. PICK g : /\ Picks(kept, list, g)
               /\ \A j \in 1 .. n : Matches(list[j], names, selector) <=> \A i \in 1 .. m : g[i] # j
  BY <1>1, <1>2, KeptInOrder
<1>4. /\ \A i \in 1 .. m : g[i] \in 1 .. n /\ kept[i] = list[g[i]]
      /\ \A i, j \in 1 .. m : i < j => g[i] < g[j]
  BY <1>1, <1>3 DEF Picks
<1>5. OneOfEach(kept)
  <2>. SUFFICES ASSUME NEW i \in 1 .. m, NEW j \in 1 .. m, kept[i].id = kept[j].id PROVE i = j
    BY <1>1 DEF OneOfEach
  <2>1. g[i] = g[j]
    BY <1>1, <1>4 DEF HandlersFit, OneOfEach
  <2>2. i \in Int /\ j \in Int /\ g[i] \in Int /\ g[j] \in Int
    BY <1>4
  <2>. QED
    BY <1>4, <2>1, <2>2
<1>6. Listed(kept) = {b \in Listed(list) : ~Matches(b, names, selector)}
  <2>1. ASSUME NEW b \in Listed(kept) PROVE b \in Listed(list) /\ ~Matches(b, names, selector)
    <3>1. PICK i \in 1 .. m : b = kept[i]
      BY <1>1 DEF Listed
    <3>2. PICK j : j = g[i]
      OBVIOUS
    <3>3. j \in 1 .. n /\ b = list[j]
      BY <1>4, <3>1, <3>2
    <3>4. ~Matches(list[j], names, selector)
      BY <1>3, <3>2, <3>3
    <3>. QED
      BY <1>1, <3>3, <3>4 DEF Listed
  <2>2. ASSUME NEW b \in Listed(list), ~Matches(b, names, selector) PROVE b \in Listed(kept)
    <3>1. PICK j \in 1 .. n : b = list[j]
      BY <1>1 DEF Listed
    <3>2. PICK i \in 1 .. m : g[i] = j
      BY <1>3, <2>2, <3>1
    <3>. QED
      BY <1>1, <1>4, <3>1, <3>2 DEF Listed
  <2>. QED
    BY <2>1, <2>2
<1>7. \E front \in 0 .. m : FrontFits(kept, front)
  <2>1. \A i \in 1 .. m : kept[i].delegated <=> g[i] <= count
    BY <1>1, <1>4 DEF HandlersFit, FrontFits
  <2>2. count \in Nat
    BY <1>1, <1>2 DEF HandlersFit, FrontFits
  <2>3. PICK T : T = {i \in 1 .. m : ~kept[i].delegated}
    OBVIOUS
  <2>4. CASE T = {}
    <3>1. \A i \in 1 .. m : kept[i].delegated /\ i <= m
      BY <1>2, <2>3, <2>4
    <3>2. m \in 0 .. m
      BY <1>2
    <3>. QED
      BY <1>1, <3>1, <3>2 DEF FrontFits
  <2>5. CASE T # {}
    <3>1. T \subseteq Nat
      BY <2>3
    <3>2. PICK k \in T : \A i \in T : k <= i
      BY <2>5, <3>1, SmallestNumber
    <3>3. k \in 1 .. m /\ k - 1 \in 0 .. m /\ ~kept[k].delegated
      BY <1>2, <2>3, <3>2
    <3>4. ASSUME NEW i \in 1 .. m PROVE kept[i].delegated <=> i <= k - 1
      <4>1. CASE i < k
        <5>1. i \notin T /\ i <= k - 1
          BY <3>2, <3>3, <4>1
        <5>. QED
          BY <2>3, <5>1
      <4>2. CASE i = k
        BY <3>3, <4>2
      <4>3. CASE i > k
        <5>1. g[k] < g[i] /\ g[k] \in Int /\ g[i] \in Int /\ ~(g[k] <= count)
          BY <1>4, <2>1, <3>3, <4>3
        <5>2. ~(g[i] <= count) /\ ~(i <= k - 1)
          BY <2>2, <3>3, <4>3, <5>1
        <5>. QED
          BY <2>1, <5>2
      <4>. QED
        BY <3>3, <4>1, <4>2, <4>3
    <3>. QED
      BY <1>1, <3>3, <3>4 DEF FrontFits
  <2>. QED
    BY <2>4, <2>5
<1>8. PICK front \in 0 .. m : FrontFits(kept, front)
  BY <1>7
<1>9. Delegates(kept) = front /\ Delegates(list) = count
  BY <1>2, <1>8, DelegatesAreCounted DEF HandlersFit
<1>10. count - (count - front) = front
  BY <1>1, <1>2 DEF HandlersFit, FrontFits
<1>. QED
  BY <1>2, <1>5, <1>6, <1>8, <1>9, <1>10 DEF HandlersFit

(* One handler more, at position p. *)
Inserted(new, list, p, b) ==
  /\ Len(new) = Len(list) + 1 /\ new[p] = b
  /\ \A i \in 1 .. p - 1 : new[i] = list[i]
  /\ \A i \in p + 1 .. Len(list) + 1 : new[i] = list[i - 1]

LEMMA InsertionInserts ==
  ASSUME NEW S, NEW list \in Seq(S), NEW b \in S, NEW p \in 1 .. Len(list) + 1
  PROVE  InsertAt(list, p, b) \in Seq(S) /\ Inserted(InsertAt(list, p, b), list, p, b)
<1>1. PICK n : n = Len(list)
  OBVIOUS
<1>2. n \in Nat /\ p \in Int /\ p >= 1 /\ p <= n + 1 /\ p - 1 \in Nat /\ n - p + 1 \in Nat
  BY <1>1
<1>3. PICK u, v : u = SubSeq(list, 1, p - 1) /\ v = SubSeq(list, p, n)
  OBVIOUS
<1>4. /\ u \in Seq(S) /\ Len(u) = p - 1
      /\ \A i \in 1 .. p - 1 : u[i] = list[i]
  <2>1. \A i \in 1 .. p - 1 : list[i] \in S
    BY <1>1, <1>2
  <2>2. /\ SubSeq(list, 1, p - 1) \in Seq(S)
        /\ Len(SubSeq(list, 1, p - 1)) = IF 1 <= p - 1 THEN (p - 1) - 1 + 1 ELSE 0
        /\ \A i \in 1 .. (p - 1) - 1 + 1 : SubSeq(list, 1, p - 1)[i] = list[1 + i - 1]
    BY SMTT(30), <1>2, <2>1, SubSeqProperties
  <2>3. (p - 1) - 1 + 1 = p - 1 /\ \A i \in 1 .. p - 1 : 1 + i - 1 = i
    BY <1>2
  <2>. QED
    BY SMTT(30), <1>2, <1>3, <2>2, <2>3
<1>5. /\ v \in Seq(S) /\ Len(v) = n - p + 1
      /\ \A i \in 1 .. n - p + 1 : v[i] = list[p + i - 1]
  <2>1. \A i \in p .. n : list[i] \in S
    BY <1>1, <1>2
  <2>2. /\ SubSeq(list, p, n) \in Seq(S)
        /\ Len(SubSeq(list, p, n)) = IF p <= n THEN n - p + 1 ELSE 0
        /\ \A i \in 1 .. n - p + 1 : SubSeq(list, p, n)[i] = list[p + i - 1]
    BY <1>2, <2>1, SubSeqProperties
  <2>. QED
    BY <1>2, <1>3, <2>2
<1>6. PICK x, w : x = u \o <<b>> /\ w = x \o v
  OBVIOUS
<1>7. /\ x \in Seq(S) /\ Len(x) = p /\ x[p] = b
      /\ \A i \in 1 .. p - 1 : x[i] = u[i]
  <2>1. x = Append(u, b)
    BY <1>4, <1>6, AppendIsConcat
  <2>. QED
    BY <1>2, <1>4, <2>1, AppendProperties
<1>8. /\ w \in Seq(S) /\ Len(w) = p + (n - p + 1)
      /\ \A i \in 1 .. p + (n - p + 1) : w[i] = IF i <= p THEN x[i] ELSE v[i - p]
  <2>1. /\ x \o v \in Seq(S) /\ Len(x \o v) = Len(x) + Len(v)
        /\ \A i \in 1 .. Len(x) + Len(v) : (x \o v)[i] = IF i <= Len(x) THEN x[i] ELSE v[i - Len(x)]
    BY <1>5, <1>7, ConcatProperties
  <2>2. Len(x) = p /\ Len(v) = n - p + 1 /\ w = x \o v
    BY <1>5, <1>6, <1>7
  <2>. QED
    BY <2>1, <2>2
<1>9. p + (n - p + 1) = n + 1
  BY <1>2
<1>10. w = InsertAt(list, p, b)
  BY <1>1, <1>3, <1>6 DEF InsertAt
<1>11. w[p] = b /\ \A i \in 1 .. p - 1 : w[i] = list[i]
  BY <1>2, <1>4, <1>7, <1>8, <1>9
<1>12. ASSUME NEW i \in p + 1 .. n + 1 PROVE w[i] = list[i - 1]
  <2>1. i \in 1 .. n + 1 /\ ~(i <= p) /\ i - p \in 1 .. n - p + 1 /\ p + (i - p) - 1 = i - 1
    BY <1>2
  <2>. QED
    BY <1>5, <1>8, <1>9, <2>1
<1>. QED
  BY <1>1, <1>8, <1>9, <1>10, <1>11, <1>12 DEF Inserted

LEMMA AppendInserts ==
  ASSUME NEW S, NEW list \in Seq(S), NEW b \in S
  PROVE  Append(list, b) \in Seq(S) /\ Inserted(Append(list, b), list, Len(list) + 1, b)
<1>1. PICK n : n = Len(list)
  OBVIOUS
<1>2. n \in Nat /\ n + 1 - 1 = n /\ \A i \in n + 1 + 1 .. n + 1 : FALSE
  BY <1>1
<1>. QED
  BY <1>1, <1>2, AppendProperties DEF Inserted

LEMMA BoundHandlers ==
  ASSUME NEW list, NEW count, HandlersFit(list, count), NEW b \in Binding, \A c \in Listed(list) : c.id # b.id,
         NEW new, new = IF b.delegated THEN InsertAt(list, count + 1, b) ELSE Append(list, b)
  PROVE  /\ HandlersFit(new, IF b.delegated THEN count + 1 ELSE count)
         /\ Listed(new) = Listed(list) \cup {b} /\ new # <<>>
<1>1. PICK n, p : n = Len(list) /\ p = IF b.delegated THEN count + 1 ELSE n + 1
  OBVIOUS
<1>2. list \in Seq(Binding) /\ n \in Nat /\ count \in 0 .. n /\ count \in Nat /\ b.delegated \in BOOLEAN
  BY <1>1 DEF HandlersFit, FrontFits, Binding
<1>3. p \in 1 .. n + 1 /\ p \in Int
  BY <1>1, <1>2
<1>4. new \in Seq(Binding) /\ Inserted(new, list, p, b)
  BY <1>1, <1>2, <1>3, InsertionInserts, AppendInserts
<1>5. /\ Len(new) = n + 1 /\ new[p] = b
      /\ \A i \in 1 .. p - 1 : new[i] = list[i] /\ i \in 1 .. n
      /\ \A i \in p + 1 .. n + 1 : new[i] = list[i - 1] /\ i - 1 \in 1 .. n
  BY <1>1, <1>2, <1>3, <1>4 DEF Inserted
<1>6. \A i \in 1 .. n + 1 : i = p \/ i \in 1 .. p - 1 \/ i \in p + 1 .. n + 1
  BY <1>2, <1>3
<1>7. new # <<>>
  BY <1>2, <1>4, <1>5, EmptySeq
<1>8. Listed(new) = Listed(list) \cup {b}
  <2>1. ASSUME NEW c \in Listed(new) PROVE c \in Listed(list) \cup {b}
    <3>1. PICK i \in 1 .. n + 1 : c = new[i]
      BY <1>5 DEF Listed
    <3>. QED
      BY <1>1, <1>5, <1>6, <3>1 DEF Listed
  <2>2. ASSUME NEW c \in Listed(list) PROVE c \in Listed(new)
    <3>1. PICK j \in 1 .. n : c = list[j]
      BY <1>1 DEF Listed
    <3>2. CASE j < p
      <4>1. j \in 1 .. p - 1 /\ j \in 1 .. n + 1
        BY <1>2, <1>3, <3>2
      <4>. QED
        BY <1>5, <3>1, <4>1 DEF Listed
    <3>3. CASE ~(j < p)
      <4>1. j + 1 \in p + 1 .. n + 1 /\ j + 1 \in 1 .. n + 1 /\ j + 1 - 1 = j
        BY <1>2, <1>3, <3>3
      <4>. QED
        BY <1>5, <3>1, <4>1 DEF Listed
    <3>. QED
      BY <3>2, <3>3
  <2>3. b \in Listed(new)
    BY <1>3, <1>5 DEF Listed
  <2>. QED
    BY <2>1, <2>2, <2>3
<1>9. OneOfEach(new)
  <2>. SUFFICES ASSUME NEW i \in 1 .. n + 1, NEW j \in 1 .. n + 1, new[i].id = new[j].id PROVE i = j
    BY <1>5 DEF OneOfEach
  <2>1. ASSUME NEW k \in 1 .. n + 1, k # p PROVE new[k].id # b.id
    <3>1. PICK h \in 1 .. n : new[k] = list[h]
      BY <1>5, <1>6, <2>1
    <3>2. list[h] \in Listed(list)
      BY <1>1 DEF Listed
    <3>. QED
      BY <3>1, <3>2
  <2>2. CASE i = p \/ j = p
    BY <1>5, <2>1, <2>2
  <2>3. CASE i \in 1 .. p - 1 /\ j \in 1 .. p - 1
    BY <1>1, <1>5, <2>3 DEF HandlersFit, OneOfEach
  <2>4. CASE i \in 1 .. p - 1 /\ j \in p + 1 .. n + 1
    <3>1. i = j - 1
      BY <1>1, <1>5, <2>4 DEF HandlersFit, OneOfEach
    <3>. QED
      BY <1>3, <2>4, <3>1
  <2>5. CASE i \in p + 1 .. n + 1 /\ j \in 1 .. p - 1
    <3>1. i - 1 = j
      BY <1>1, <1>5, <2>5 DEF HandlersFit, OneOfEach
    <3>. QED
      BY <1>3, <2>5, <3>1
  <2>6. CASE i \in p + 1 .. n + 1 /\ j \in p + 1 .. n + 1
    <3>1. i - 1 = j - 1
      BY SMTT(30), <1>1, <1>5, <2>6 DEF HandlersFit, OneOfEach
    <3>. QED
      BY <3>1
  <2>. QED
    BY <1>6, <2>2, <2>3, <2>4, <2>5, <2>6
<1>10. FrontFits(new, IF b.delegated THEN count + 1 ELSE count)
  <2>1. \A i \in 1 .. n : list[i].delegated <=> i <= count
    BY <1>1 DEF HandlersFit, FrontFits
  <2>2. CASE b.delegated
    <3>1. p = count + 1
      BY <1>1, <2>2
    <3>2. \A i \in 1 .. p - 1 : new[i].delegated /\ i <= count + 1
      BY SMTT(30), <1>2, <1>5, <2>1, <3>1
    <3>3. ASSUME NEW i \in p + 1 .. n + 1 PROVE ~new[i].delegated /\ ~(i <= count + 1)
      <4>1. i - 1 \in 1 .. n /\ ~(i - 1 <= count) /\ ~(i <= count + 1)
        BY <1>2, <1>5, <3>1
      <4>2. new[i] = list[i - 1]
        BY <1>5
      <4>. QED
        BY <2>1, <4>1, <4>2
    <3>4. \A i \in 1 .. n + 1 : new[i].delegated <=> i <= count + 1
      BY <1>2, <1>5, <1>6, <2>2, <3>1, <3>2, <3>3
    <3>. QED
      BY <1>2, <1>5, <2>2, <3>4 DEF FrontFits
  <2>3. CASE ~b.delegated
    <3>1. p = n + 1 /\ p - 1 = n /\ \A i \in p + 1 .. n + 1 : FALSE
      BY <1>1, <1>2, <2>3
    <3>2. \A i \in 1 .. n + 1 : new[i].delegated <=> i <= count
      BY <1>2, <1>5, <1>6, <2>1, <2>3, <3>1
    <3>. QED
      BY <1>2, <1>5, <2>3, <3>2 DEF FrontFits
  <2>. QED
    BY <2>2, <2>3
<1>. QED
  BY <1>4, <1>7, <1>8, <1>9, <1>10 DEF HandlersFit

(***************************************************************************)
(* The handlers of all nodes                                               *)
(***************************************************************************)
Has(h, n, t) == Listed(h[n][t])
Only(h, b, n, t) == \A m \in Nodes, u \in Types : \A c \in Has(h, m, u) : c.id = b.id => c = b /\ m = n /\ u = t
BindingsAreNew(h, k) ==
  \A n \in Nodes, t \in Types : \A b \in Has(h, n, t) : b.of = n /\ b.id <= k /\ Only(h, b, n, t)

HandlerTypes ==
  /\ handlers \in [Nodes -> [Types -> Seq(Binding)]]
  /\ delegateCount \in [Nodes -> [Types -> Nat]]
  /\ listens \in [Nodes -> SUBSET Types] /\ captures \in BOOLEAN
  /\ attaches \in Int /\ bindings \in Nat
ListenersInv ==
  /\ HandlerTypes
  /\ \A n \in Nodes, t \in Types : HandlersFit(handlers[n][t], delegateCount[n][t])
  /\ BindingsAreNew(handlers, bindings)
  /\ ListenersFollowHandlers

(***************************************************************************)
(* The events under way                                                    *)
(***************************************************************************)
Position(n) == IF n = "inner" THEN 1 ELSE 3
Past(h, k, id, at) ==
  id <= k /\ \A n \in Nodes, t \in Types : \A b \in Has(h, n, t) : b.id = id => Position(n) <= at

Group == [at : {"inner", "outer", "document"}, calls : Seq(Binding)]
EventType ==
  [type : Types, native : BOOLEAN, path : {Path, <<"inner">>}, at : Nat,
   groups : Seq(Group), calling : Binding \cup {NotCalling},
   stopped : BOOLEAN, immediate : BOOLEAN, prevented : BOOLEAN, acting : BOOLEAN,
   called : SUBSET (Nat \X {"inner", "outer", "document"})]

(* Every handler that is going to be called is still where it was bound, if *)
(* anywhere, and was not called yet for this element.                       *)
GroupFits(h, k, group, e) ==
  /\ OneOfEach(group.calls)
  /\ \A i \in 1 .. Len(group.calls) :
       /\ <<group.calls[i].id, group.at>> \notin e.called
       /\ group.calls[i].id <= k /\ Only(h, group.calls[i], e.path[e.at], e.type)
GroupsFit(h, k, e) ==
  /\ e.groups # <<>> => e.at \in {1, 3} /\ Len(e.path) >= e.at
  /\ \A i, j \in 1 .. Len(e.groups) : e.groups[i].at = e.groups[j].at => i = j
  /\ \A i \in 1 .. Len(e.groups) : GroupFits(h, k, e.groups[i], e)
Unlisted(h, b) == b.once => \A n \in Nodes, t \in Types : \A c \in Has(h, n, t) : c.id # b.id
EventFits(h, k, e) ==
  /\ GroupsFit(h, k, e)
  /\ \A key \in e.called : Past(h, k, key[1], e.at)
  /\ e.calling.id <= k
  /\ Unlisted(h, e.calling)

Quiet(e) == e.groups = <<>> /\ e.calling = NotCalling
Silent(i) == i = 1 /\ Len(events) >= 2 /\ events[2].acting
Acts(i) ==
  /\ i <= 2 /\ Quiet(events[i]) /\ triggered = events[i].type
  /\ events[i].stopped \/ events[i].at = Len(events[i].path)
InPlace(i) ==
  /\ events[i].acting => Acts(i)
  /\ events[i].at <= Len(events[i].path)
  /\ Silent(i) => Quiet(events[i]) /\ events[i].native /\ ~events[i].acting /\ events[i].type = triggered
  /\ ~Silent(i) => EventFits(handlers, bindings, events[i])
CalledInv == events \in Seq(EventType) /\ ~twice /\ \A i \in 1 .. Len(events) : InPlace(i)

(* The handlers of one node and type change, and perhaps its listener. *)
Replaces(n, t, new, count) ==
  /\ handlers' = [handlers EXCEPT ![n][t] = new]
  /\ delegateCount' = [delegateCount EXCEPT ![n][t] = count]
  /\ \/ handlers[n][t] = <<>> /\ new # <<>> /\ Setup(n, t)
     \/ handlers[n][t] # <<>> /\ new = <<>> /\ Teardown(n, t)
     \/ (handlers[n][t] = <<>> <=> new = <<>>) /\ UNCHANGED <<listens, attaches, captures>>

LEMMA ListenersAreKept ==
  ASSUME ListenersInv, NEW n \in Nodes, NEW t \in Types, NEW new, NEW count, HandlersFit(new, count),
         Replaces(n, t, new, count), bindings' \in Nat
  PROVE  /\ HandlerTypes'
         /\ \A m \in Nodes, u \in Types : HandlersFit(handlers'[m][u], delegateCount'[m][u])
         /\ ListenersFollowHandlers'
<1>1. /\ HandlerTypes /\ new \in Seq(Binding) /\ count \in Nat
      /\ \A m \in Nodes, u \in Types : HandlersFit(handlers[m][u], delegateCount[m][u])
  BY DEF ListenersInv, HandlersFit, FrontFits
<1>2. /\ handlers'[n][t] = new /\ delegateCount'[n][t] = count
      /\ \A m \in Nodes, u \in Types :
           m # n \/ u # t => handlers'[m][u] = handlers[m][u] /\ delegateCount'[m][u] = delegateCount[m][u]
      /\ handlers' \in [Nodes -> [Types -> Seq(Binding)]] /\ delegateCount' \in [Nodes -> [Types -> Nat]]
  BY <1>1 DEF Replaces, HandlerTypes
<1>3. \A m \in Nodes, u \in Types : HandlersFit(handlers'[m][u], delegateCount'[m][u])
  BY <1>1, <1>2
<1>4. \A m \in Nodes, u \in Types :
        \A i \in DOMAIN handlers'[m][u] : handlers'[m][u][i].delegated <=> i <= delegateCount'[m][u]
  <2>1. \A m \in Nodes, u \in Types : DOMAIN handlers'[m][u] = 1 .. Len(handlers'[m][u])
    BY <1>2
  <2>. QED
    BY <1>3, <2>1 DEF HandlersFit, FrontFits
<1>5. PICK W : W = {m \in Nodes : handlers[m]["focusin"] # <<>>}
  OBVIOUS
<1>6. PICK V : V = {m \in Nodes : handlers'[m]["focusin"] # <<>>}
  OBVIOUS
<1>7. attaches = Cardinality(W) /\ (captures <=> attaches > 0) /\ captures \in BOOLEAN
  BY <1>1, <1>5 DEF ListenersInv, ListenersFollowHandlers, HandlerTypes
<1>8. IsFiniteSet(W)
  <2>1. IsFiniteSet({"inner"} \cup {"document"}) /\ {"inner"} \cup {"document"} = {"inner", "document"}
    BY FS_Singleton, FS_AddElement
  <2>. QED
    BY <1>5, <2>1, FS_Subset DEF Nodes
<1>9. Cardinality(W) \in Nat /\ (n \in W => Cardinality(W) >= 1)
  <2>1. Cardinality(W) \in Nat
    BY <1>8, FS_CardinalityType
  <2>2. n \in W => Cardinality(W) # 0
    BY <1>8, FS_EmptySet
  <2>. QED
    BY <2>1, <2>2
<1>10. /\ \A m \in Nodes : listens'[m] = {u \in Types \ Special : handlers'[m][u] # <<>>}
       /\ attaches' = Cardinality(V) /\ (captures' <=> attaches' > 0)
       /\ listens' \in [Nodes -> SUBSET Types] /\ captures' \in BOOLEAN
  <2>1. \A m \in Nodes : listens[m] = {u \in Types \ Special : handlers[m][u] # <<>>}
    BY DEF ListenersInv, ListenersFollowHandlers
  <2>2. listens \in [Nodes -> SUBSET Types]
    BY <1>1 DEF HandlerTypes
  <2>3. CASE handlers[n][t] = <<>> /\ new # <<>> /\ Setup(n, t)
    <3>1. CASE t \in Special
      <4>1. t = "focusin" /\ attaches' = attaches + 1 /\ captures' = TRUE /\ listens' = listens
        BY <2>3, <3>1 DEF Setup, Special
      <4>2. V = W \cup {n} /\ n \notin W
        BY <1>2, <1>5, <1>6, <2>3, <4>1
      <4>3. Cardinality(V) = Cardinality(W) + 1
        BY <1>8, <4>2, FS_AddElement
      <4>4. \A m \in Nodes : \A u \in Types \ Special : handlers'[m][u] = handlers[m][u]
        BY <1>2, <3>1
      <4>5. \A m \in Nodes : listens'[m] = {u \in Types \ Special : handlers'[m][u] # <<>>}
        BY <2>1, <4>1, <4>4
      <4>6. attaches' > 0 /\ attaches' = Cardinality(V)
        BY <1>7, <1>9, <4>1, <4>3
      <4>. QED
        BY <2>2, <4>1, <4>5, <4>6
    <3>2. CASE t \notin Special
      <4>1. listens' = [listens EXCEPT ![n] = @ \cup {t}] /\ attaches' = attaches /\ captures' = captures
        BY <2>3, <3>2 DEF Setup
      <4>2. V = W
        <5>1. "focusin" \in Types /\ t # "focusin"
          BY <3>2 DEF Types, Special
        <5>2. \A m \in Nodes : handlers'[m]["focusin"] = handlers[m]["focusin"]
          BY <1>2, <5>1
        <5>. QED
          BY <1>5, <1>6, <5>2
      <4>3. ASSUME NEW m \in Nodes PROVE listens'[m] = {u \in Types \ Special : handlers'[m][u] # <<>>}
        <5>1. CASE m = n
          <6>1. listens'[n] = listens[n] \cup {t}
            BY <2>2, <4>1
          <6>2. handlers[n][t] = <<>> /\ handlers'[n][t] # <<>> /\ t \in Types \ Special
            BY <1>2, <2>3, <3>2
          <6>3. \A u \in Types \ Special : u # t => handlers'[n][u] = handlers[n][u]
            BY <1>2
          <6>4. \A u : u \in listens[n] <=> u \in Types \ Special /\ handlers[n][u] # <<>>
            BY <2>1
          <6>5. \A u : u \in listens'[n] <=> u \in Types \ Special /\ handlers'[n][u] # <<>>
            BY <6>1, <6>2, <6>3, <6>4
          <6>. QED
            BY <5>1, <6>5
        <5>2. CASE m # n
          BY <1>2, <2>1, <2>2, <4>1, <5>2
        <5>. QED
          BY <5>1, <5>2
      <4>. QED
        BY <1>7, <2>2, <4>1, <4>2, <4>3
    <3>. QED
      BY <3>1, <3>2
  <2>4. CASE handlers[n][t] # <<>> /\ new = <<>> /\ Teardown(n, t)
    <3>1. CASE t \in Special
      <4>1. t = "focusin" /\ attaches' = attaches - 1 /\ captures' = (attaches # 1) /\ listens' = listens
        BY <2>4, <3>1 DEF Teardown, Special
      <4>2. V = W \ {n} /\ n \in W
        BY <1>2, <1>5, <1>6, <2>4, <4>1
      <4>3. Cardinality(V) = Cardinality(W) - 1
        BY <1>8, <4>2, FS_RemoveElement
      <4>4. \A m \in Nodes : \A u \in Types \ Special : handlers'[m][u] = handlers[m][u]
        BY <1>2, <3>1
      <4>5. \A m \in Nodes : listens'[m] = {u \in Types \ Special : handlers'[m][u] # <<>>}
        BY <2>1, <4>1, <4>4
      <4>6. (attaches # 1 <=> attaches' > 0) /\ attaches' = Cardinality(V)
        BY <1>7, <1>9, <4>1, <4>2, <4>3
      <4>7. captures' <=> attaches' > 0
        BY <4>1, <4>6
      <4>. QED
        BY <2>2, <4>1, <4>5, <4>6, <4>7
    <3>2. CASE t \notin Special
      <4>1. listens' = [listens EXCEPT ![n] = @ \ {t}] /\ attaches' = attaches /\ captures' = captures
        BY <2>4, <3>2 DEF Teardown
      <4>2. V = W
        <5>1. "focusin" \in Types /\ t # "focusin"
          BY <3>2 DEF Types, Special
        <5>2. \A m \in Nodes : handlers'[m]["focusin"] = handlers[m]["focusin"]
          BY <1>2, <5>1
        <5>. QED
          BY <1>5, <1>6, <5>2
      <4>3. ASSUME NEW m \in Nodes PROVE listens'[m] = {u \in Types \ Special : handlers'[m][u] # <<>>}
        <5>1. CASE m = n
          <6>1. listens'[n] = listens[n] \ {t}
            BY <2>2, <4>1
          <6>2. handlers'[n][t] = <<>>
            BY <1>2, <2>4
          <6>3. \A u \in Types \ Special : u # t => handlers'[n][u] = handlers[n][u]
            BY <1>2
          <6>4. \A u : u \in listens[n] <=> u \in Types \ Special /\ handlers[n][u] # <<>>
            BY <2>1
          <6>5. \A u : u \in listens'[n] <=> u \in Types \ Special /\ handlers'[n][u] # <<>>
            BY <6>1, <6>2, <6>3, <6>4
          <6>. QED
            BY <5>1, <6>5
        <5>2. CASE m # n
          BY <1>2, <2>1, <2>2, <4>1, <5>2
        <5>. QED
          BY <5>1, <5>2
      <4>. QED
        BY <1>7, <2>2, <4>1, <4>2, <4>3
    <3>. QED
      BY <3>1, <3>2
  <2>5. CASE (handlers[n][t] = <<>> <=> new = <<>>) /\ UNCHANGED <<listens, attaches, captures>>
    <3>1. \A m \in Nodes, u \in Types : handlers'[m][u] = <<>> <=> handlers[m][u] = <<>>
      BY <1>2, <2>5
    <3>2. V = W
      BY <1>5, <1>6, <3>1 DEF Types
    <3>3. \A m \in Nodes : listens'[m] = {u \in Types \ Special : handlers'[m][u] # <<>>}
      BY <2>1, <2>5, <3>1
    <3>. QED
      BY <1>7, <2>2, <2>5, <3>2, <3>3
  <2>. QED
    BY <2>3, <2>4, <2>5 DEF Replaces
<1>11. attaches' \in Int
  <2>1. attaches' \in {attaches, attaches + 1, attaches - 1}
    BY DEF Replaces, Setup, Teardown
  <2>. QED
    BY <1>1, <2>1 DEF HandlerTypes
<1>12. HandlerTypes'
  BY <1>2, <1>10, <1>11 DEF HandlerTypes
<1>. QED
  BY <1>3, <1>4, <1>6, <1>10, <1>12 DEF ListenersFollowHandlers

LEMMA FewerBindings ==
  ASSUME NEW h, NEW k, BindingsAreNew(h, k), NEW g, \A n \in Nodes, t \in Types : Has(g, n, t) \subseteq Has(h, n, t)
  PROVE  BindingsAreNew(g, k)
BY DEF BindingsAreNew, Only

LEMMA OneBindingMore ==
  ASSUME NEW h, NEW k \in Nat, BindingsAreNew(h, k), NEW n \in Nodes, NEW t \in Types, NEW b, b.id = k + 1, b.of = n,
         \A m \in Nodes, u \in Types : Has(h, m, u) \subseteq Binding,
         NEW g, Has(g, n, t) = Has(h, n, t) \cup {b},
         \A m \in Nodes, u \in Types : m # n \/ u # t => Has(g, m, u) = Has(h, m, u)
  PROVE  BindingsAreNew(g, k + 1)
<1>. SUFFICES ASSUME NEW m \in Nodes, NEW u \in Types, NEW c \in Has(g, m, u)
              PROVE  c.of = m /\ c.id <= k + 1 /\ Only(g, c, m, u)
  BY DEF BindingsAreNew
<1>1. \A p \in Nodes, v \in Types : \A d \in Has(h, p, v) : d.id \in Nat /\ d.id <= k /\ d.id # b.id /\ d.id <= k + 1
  <2>. SUFFICES ASSUME NEW p \in Nodes, NEW v \in Types, NEW d \in Has(h, p, v)
                PROVE  d.id \in Nat /\ d.id <= k /\ d.id # b.id /\ d.id <= k + 1
    OBVIOUS
  <2>1. d.id \in Nat /\ d.id <= k
    BY DEF BindingsAreNew, Binding
  <2>. QED
    BY <2>1
<1>2. \A p \in Nodes, v \in Types : \A d \in Has(g, p, v) : d \in Has(h, p, v) \/ (d = b /\ p = n /\ v = t)
  OBVIOUS
<1>3. CASE c = b /\ m = n /\ u = t
  <2>1. Only(g, c, m, u)
    BY <1>1, <1>2, <1>3 DEF Only
  <2>. QED
    BY <1>3, <2>1
<1>4. CASE c \in Has(h, m, u)
  <2>1. Only(g, c, m, u)
    BY <1>1, <1>2, <1>4 DEF Only, BindingsAreNew
  <2>. QED
    BY <1>1, <1>4, <2>1 DEF BindingsAreNew
<1>. QED
  BY <1>2, <1>3, <1>4

LEMMA ListedAreBindings ==
  ASSUME HandlerTypes
  PROVE  \A n \in Nodes, t \in Types : Has(handlers, n, t) \subseteq Binding
BY DEF HandlerTypes, Has, Listed

LEMMA BindKeeps ==
  ASSUME ListenersInv, NEW n \in Nodes, NEW t \in Types, NEW b \in Binding, b.id = bindings + 1, b.of = n,
         bindings' = bindings + 1, Bind(n, t, b)
  PROVE  /\ ListenersInv'
         /\ \A m \in Nodes, u \in Types : \A c \in Has(handlers', m, u) : c \in Has(handlers, m, u) \/ c.id > bindings
<1>1. PICK list, count : list = handlers[n][t] /\ count = delegateCount[n][t]
  OBVIOUS
<1>2. HandlersFit(list, count) /\ HandlerTypes /\ BindingsAreNew(handlers, bindings) /\ bindings \in Nat
  BY <1>1 DEF ListenersInv, HandlerTypes
<1>3. PICK new, more : /\ new = IF b.delegated THEN InsertAt(list, count + 1, b) ELSE Append(list, b)
                       /\ more = IF b.delegated THEN count + 1 ELSE count
  OBVIOUS
<1>4. \A c \in Listed(list) : c.id # b.id
  <2>. SUFFICES ASSUME NEW c \in Listed(list) PROVE c.id # b.id
    OBVIOUS
  <2>1. c \in Has(handlers, n, t)
    BY <1>1 DEF Has
  <2>2. c.id \in Nat /\ c.id <= bindings
    BY <1>2, <2>1, ListedAreBindings DEF BindingsAreNew, Binding
  <2>. QED
    BY <1>2, <2>2
<1>5. HandlersFit(new, more) /\ Listed(new) = Listed(list) \cup {b} /\ new # <<>>
  BY <1>2, <1>3, <1>4, BoundHandlers
<1>6. Replaces(n, t, new, more)
  <2>1. /\ handlers' = [handlers EXCEPT ![n][t] = new]
        /\ delegateCount' = [delegateCount EXCEPT ![n][t] = more]
    BY <1>1, <1>3 DEF Bind
  <2>2. IF list = <<>> THEN Setup(n, t) ELSE UNCHANGED <<listens, attaches, captures>>
    BY <1>1 DEF Bind
  <2>. QED
    BY <1>1, <1>5, <2>1, <2>2 DEF Replaces
<1>7. bindings' \in Nat
  BY <1>2
<1>8. /\ HandlerTypes' /\ ListenersFollowHandlers'
      /\ \A m \in Nodes, u \in Types : HandlersFit(handlers'[m][u], delegateCount'[m][u])
  BY <1>5, <1>6, <1>7, ListenersAreKept
<1>9. /\ handlers'[n][t] = new
      /\ \A m \in Nodes, u \in Types : m # n \/ u # t => handlers'[m][u] = handlers[m][u]
  BY <1>2, <1>6 DEF Replaces, HandlerTypes
<1>10. /\ Has(handlers', n, t) = Has(handlers, n, t) \cup {b}
       /\ \A m \in Nodes, u \in Types : m # n \/ u # t => Has(handlers', m, u) = Has(handlers, m, u)
  BY <1>1, <1>5, <1>9 DEF Has
<1>11. BindingsAreNew(handlers', bindings + 1)
  BY <1>2, <1>10, ListedAreBindings, OneBindingMore
<1>12. ListenersInv'
  BY <1>8, <1>11 DEF ListenersInv
<1>13. b.id > bindings
  BY <1>2
<1>. QED
  BY <1>10, <1>12, <1>13

LEMMA UnbindKeeps ==
  ASSUME ListenersInv, NEW n \in Nodes, NEW t \in Types, NEW names, NEW selector, bindings' = bindings,
         Unbind(n, t, names, selector)
  PROVE  /\ ListenersInv'
         /\ \A m \in Nodes, u \in Types : Has(handlers', m, u) \subseteq Has(handlers, m, u)
         /\ Has(handlers', n, t) = {b \in Has(handlers, n, t) : ~Matches(b, names, selector)}
<1>1. PICK list, count : list = handlers[n][t] /\ count = delegateCount[n][t]
  OBVIOUS
<1>2. HandlersFit(list, count) /\ HandlerTypes /\ BindingsAreNew(handlers, bindings) /\ bindings' \in Nat
  BY <1>1 DEF ListenersInv, HandlerTypes
<1>3. PICK kept, less : kept = Kept(list, names, selector) /\ less = count - (Delegates(list) - Delegates(kept))
  OBVIOUS
<1>4. HandlersFit(kept, less) /\ Listed(kept) = {b \in Listed(list) : ~Matches(b, names, selector)}
  BY <1>2, <1>3, KeptHandlers
<1>5. list = <<>> => kept = <<>>
  <2>1. kept \in Seq(Binding) /\ Listed(kept) \subseteq Listed(list)
    BY <1>4 DEF HandlersFit
  <2>2. ASSUME list = <<>>, kept # <<>> PROVE FALSE
    <3>1. 1 \in 1 .. Len(kept)
      BY <2>1, <2>2
    <3>2. kept[1] \in Listed(list)
      BY <2>1, <3>1 DEF Listed
    <3>. QED
      BY <2>2, <3>2 DEF Listed
  <2>. QED
    BY <2>2
<1>6. Replaces(n, t, kept, less)
  <2>1. /\ handlers' = [handlers EXCEPT ![n][t] = kept]
        /\ delegateCount' = [delegateCount EXCEPT ![n][t] = @ - (Delegates(list) - Delegates(kept))]
    BY <1>1, <1>3 DEF Unbind, Delegates
  <2>2. delegateCount' = [delegateCount EXCEPT ![n][t] = less]
    BY <1>1, <1>2, <1>3, <2>1 DEF HandlerTypes
  <2>3. IF list # <<>> /\ kept = <<>> THEN Teardown(n, t) ELSE UNCHANGED <<listens, attaches, captures>>
    BY <1>1, <1>3 DEF Unbind
  <2>. QED
    BY <1>1, <1>5, <2>1, <2>2, <2>3 DEF Replaces
<1>7. /\ HandlerTypes' /\ ListenersFollowHandlers'
      /\ \A m \in Nodes, u \in Types : HandlersFit(handlers'[m][u], delegateCount'[m][u])
  BY <1>2, <1>4, <1>6, ListenersAreKept
<1>8. /\ handlers'[n][t] = kept
      /\ \A m \in Nodes, u \in Types : m # n \/ u # t => handlers'[m][u] = handlers[m][u]
  BY <1>2, <1>6 DEF Replaces, HandlerTypes
<1>9. /\ Has(handlers', n, t) = {b \in Has(handlers, n, t) : ~Matches(b, names, selector)}
      /\ \A m \in Nodes, u \in Types : Has(handlers', m, u) \subseteq Has(handlers, m, u)
  BY <1>1, <1>4, <1>8 DEF Has
<1>10. BindingsAreNew(handlers', bindings)
  BY <1>2, <1>9, FewerBindings
<1>. QED
  BY <1>7, <1>9, <1>10 DEF ListenersInv

LEMMA RemovalKeeps ==
  ASSUME ListenersInv, RemoveInner
  PROVE  /\ ListenersInv'
         /\ \A m \in Nodes, u \in Types : Has(handlers', m, u) \subseteq Has(handlers, m, u)
<1>1. /\ HandlerTypes /\ BindingsAreNew(handlers, bindings) /\ ListenersFollowHandlers
      /\ \A n \in Nodes, t \in Types : HandlersFit(handlers[n][t], delegateCount[n][t])
  BY DEF ListenersInv
<1>2. /\ handlers' = [handlers EXCEPT !["inner"] = [t \in Types |-> <<>>]]
      /\ delegateCount' = [delegateCount EXCEPT !["inner"] = [t \in Types |-> 0]]
      /\ listens' = [listens EXCEPT !["inner"] = {}] /\ bindings' = bindings
      /\ attaches' = IF handlers["inner"]["focusin"] # <<>> THEN attaches - 1 ELSE attaches
      /\ captures' = IF handlers["inner"]["focusin"] # <<>> THEN attaches # 1 ELSE captures
  BY DEF RemoveInner
<1>3. PICK none, zero : none = [t \in Types |-> <<>>] /\ zero = [t \in Types |-> 0]
  OBVIOUS
<1>4. none \in [Types -> Seq(Binding)] /\ zero \in [Types -> Nat] /\ \A t \in Types : none[t] = <<>> /\ zero[t] = 0
  BY <1>3
<1>5. /\ \A t \in Types : handlers'["inner"][t] = <<>> /\ delegateCount'["inner"][t] = 0
      /\ \A n \in Nodes : n # "inner" => handlers'[n] = handlers[n] /\ delegateCount'[n] = delegateCount[n]
      /\ handlers' \in [Nodes -> [Types -> Seq(Binding)]] /\ delegateCount' \in [Nodes -> [Types -> Nat]]
  BY <1>1, <1>2, <1>3, <1>4 DEF HandlerTypes, Nodes
<1>6. HandlersFit(<<>>, 0)
  BY DEF HandlersFit, OneOfEach, FrontFits
<1>7. \A n \in Nodes, t \in Types : HandlersFit(handlers'[n][t], delegateCount'[n][t])
  BY <1>1, <1>5, <1>6
<1>8. \A n \in Nodes, t \in Types :
        \A i \in DOMAIN handlers'[n][t] : handlers'[n][t][i].delegated <=> i <= delegateCount'[n][t]
  <2>1. \A n \in Nodes, t \in Types : DOMAIN handlers'[n][t] = 1 .. Len(handlers'[n][t])
    BY <1>5
  <2>. QED
    BY <1>7, <2>1 DEF HandlersFit, FrontFits
<1>9. ASSUME NEW m \in Nodes, NEW u \in Types PROVE Has(handlers', m, u) \subseteq Has(handlers, m, u)
  <2>1. CASE m = "inner"
    <3>1. handlers'[m][u] = <<>>
      BY <1>5, <2>1
    <3>. QED
      BY <3>1 DEF Has, Listed
  <2>2. CASE m # "inner"
    BY <1>5, <2>2 DEF Has
  <2>. QED
    BY <2>1, <2>2
<1>10. listens' \in [Nodes -> SUBSET Types] /\ \A n \in Nodes : listens'[n] = {t \in Types \ Special : handlers'[n][t] # <<>>}
  BY <1>1, <1>2, <1>5 DEF HandlerTypes, ListenersFollowHandlers, Nodes
<1>11. PICK W, V : W = {n \in Nodes : handlers[n]["focusin"] # <<>>} /\ V = {n \in Nodes : handlers'[n]["focusin"] # <<>>}
  OBVIOUS
<1>12. V = W \ {"inner"} /\ ("inner" \in W <=> handlers["inner"]["focusin"] # <<>>)
  BY <1>5, <1>11 DEF Types, Nodes
<1>13. IsFiniteSet(W)
  <2>1. IsFiniteSet({"inner"} \cup {"document"}) /\ {"inner"} \cup {"document"} = {"inner", "document"}
    BY FS_Singleton, FS_AddElement
  <2>. QED
    BY <1>11, <2>1, FS_Subset DEF Nodes
<1>14. /\ attaches = Cardinality(W) /\ (captures <=> attaches > 0) /\ captures \in BOOLEAN
       /\ Cardinality(W) \in Nat /\ Cardinality(V) = IF "inner" \in W THEN Cardinality(W) - 1 ELSE Cardinality(W)
  <2>1. attaches = Cardinality(W) /\ (captures <=> attaches > 0) /\ captures \in BOOLEAN
    BY <1>1, <1>11 DEF HandlerTypes, ListenersFollowHandlers
  <2>2. Cardinality(W) \in Nat /\ Cardinality(V) = IF "inner" \in W THEN Cardinality(W) - 1 ELSE Cardinality(W)
    BY <1>12, <1>13, FS_CardinalityType, FS_RemoveElement
  <2>. QED
    BY <2>1, <2>2
<1>15. "inner" \in W => Cardinality(W) >= 1
  BY <1>13, <1>14, FS_EmptySet
<1>16. attaches' = Cardinality(V) /\ (captures' <=> attaches' > 0) /\ attaches' \in Int /\ captures' \in BOOLEAN
  <2>1. CASE "inner" \in W
    <3>1. attaches' = attaches - 1 /\ captures' = (attaches # 1)
      BY <1>2, <1>12, <2>1
    <3>2. attaches' = Cardinality(V) /\ attaches' \in Int /\ (attaches # 1 <=> attaches' > 0)
      BY <1>14, <1>15, <2>1, <3>1
    <3>3. captures' <=> attaches' > 0
      BY <3>1, <3>2
    <3>. QED
      BY <3>1, <3>2, <3>3
  <2>2. CASE "inner" \notin W
    <3>1. attaches' = attaches /\ captures' = captures
      BY <1>2, <1>12, <2>2
    <3>. QED
      BY <1>14, <2>2, <3>1
  <2>. QED
    BY <2>1, <2>2
<1>17. BindingsAreNew(handlers', bindings')
  BY <1>1, <1>2, <1>9, FewerBindings
<1>18. HandlerTypes'
  BY <1>1, <1>2, <1>5, <1>10, <1>16 DEF HandlerTypes
<1>19. ListenersFollowHandlers'
  BY <1>8, <1>10, <1>11, <1>16 DEF ListenersFollowHandlers
<1>. QED
  BY <1>7, <1>9, <1>17, <1>18, <1>19 DEF ListenersInv

(***************************************************************************)
(* What an event keeps while handlers come and go                          *)
(***************************************************************************)
Later(h, k, g, l) ==
  k <= l /\ \A n \in Nodes, t \in Types : \A b \in Has(g, n, t) : b \in Has(h, n, t) \/ b.id > k

LEMMA PastStays ==
  ASSUME NEW h, NEW k \in Nat, NEW g, NEW l \in Nat, Later(h, k, g, l), NEW id \in Nat, NEW at, Past(h, k, id, at)
  PROVE  Past(g, l, id, at)
<1>1. id <= l /\ ~(id > k)
  BY DEF Past, Later
<1>2. ASSUME NEW n \in Nodes, NEW t \in Types, NEW b \in Has(g, n, t), b.id = id PROVE Position(n) <= at
  <2>1. b \in Has(h, n, t)
    BY <1>1, <1>2 DEF Later
  <2>. QED
    BY <1>2, <2>1 DEF Past
<1>. QED
  BY <1>1, <1>2 DEF Past

LEMMA OnlyStays ==
  ASSUME NEW h, NEW k \in Nat, NEW g, NEW l \in Nat, Later(h, k, g, l), NEW b, b.id \in Nat, b.id <= k,
         NEW n, NEW t, Only(h, b, n, t)
  PROVE  b.id <= l /\ Only(g, b, n, t)
<1>1. b.id <= l /\ ~(b.id > k)
  BY DEF Later
<1>2. ASSUME NEW m \in Nodes, NEW u \in Types, NEW c \in Has(g, m, u), c.id = b.id PROVE c = b /\ m = n /\ u = t
  <2>1. c \in Has(h, m, u)
    BY <1>1, <1>2 DEF Later
  <2>. QED
    BY <1>2, <2>1 DEF Only
<1>. QED
  BY <1>1, <1>2 DEF Only

LEMMA EventStays ==
  ASSUME NEW h, NEW k \in Nat, NEW g, NEW l \in Nat, Later(h, k, g, l), NEW e \in EventType, EventFits(h, k, e)
  PROVE  EventFits(g, l, e)
<1>1. GroupsFit(g, l, e)
  <2>1. ASSUME NEW i \in 1 .. Len(e.groups) PROVE GroupFits(g, l, e.groups[i], e)
    <3>1. GroupFits(h, k, e.groups[i], e)
      BY DEF EventFits, GroupsFit
    <3>2. PICK calls : calls = e.groups[i].calls
      OBVIOUS
    <3>3. e.groups \in Seq(Group)
      BY DEF EventType
    <3>4. calls \in Seq(Binding)
      <4>1. e.groups[i] \in Group
        BY <3>3
      <4>. QED
        BY <3>2, <4>1 DEF Group
    <3>5. ASSUME NEW j \in 1 .. Len(calls) PROVE calls[j].id <= l /\ Only(g, calls[j], e.path[e.at], e.type)
      <4>1. calls[j] \in Binding
        BY <3>4
      <4>3. calls[j].id \in Nat
        BY <4>1 DEF Binding
      <4>2. calls[j].id <= k /\ Only(h, calls[j], e.path[e.at], e.type)
        BY <3>1, <3>2 DEF GroupFits
      <4>. QED
        BY SMTT(30), <4>2, <4>3, OnlyStays
    <3>. QED
      BY <3>1, <3>2, <3>5 DEF GroupFits
  <2>. QED
    BY <2>1 DEF EventFits, GroupsFit
<1>2. ASSUME NEW key \in e.called PROVE Past(g, l, key[1], e.at)
  <2>1. key[1] \in Nat
    BY DEF EventType
  <2>2. Past(h, k, key[1], e.at)
    BY DEF EventFits
  <2>. QED
    BY <2>1, <2>2, PastStays
<1>3. e.calling.id \in Nat /\ e.calling.id <= k /\ e.calling.id <= l /\ ~(e.calling.id > k)
  <2>1. e.calling.id \in Nat
    BY DEF EventType, Binding, NotCalling
  <2>. QED
    BY <2>1 DEF EventFits, Later
<1>4. Unlisted(g, e.calling)
  BY <1>3 DEF EventFits, Unlisted, Later
<1>. QED
  BY <1>1, <1>2, <1>3, <1>4 DEF EventFits

(***************************************************************************)
(* The handlers that are going to be called                                *)
(***************************************************************************)
LEMMA PartOfHandlers ==
  ASSUME NEW list \in Seq(Binding), OneOfEach(list), NEW p \in 1 .. Len(list) + 1, NEW q \in 0 .. Len(list)
  PROVE  /\ SubSeq(list, p, q) \in Seq(Binding) /\ OneOfEach(SubSeq(list, p, q))
         /\ Listed(SubSeq(list, p, q)) \subseteq Listed(list)
<1>1. PICK n, s : n = Len(list) /\ s = SubSeq(list, p, q)
  OBVIOUS
<1>2. n \in Nat /\ p \in Int /\ q \in Int /\ p >= 1 /\ q <= n /\ p <= n + 1 /\ q >= 0
  BY <1>1
<1>3. \A i \in p .. q : list[i] \in Binding
  BY <1>1, <1>2
<1>4. /\ SubSeq(list, p, q) \in Seq(Binding)
      /\ Len(SubSeq(list, p, q)) = IF p <= q THEN q - p + 1 ELSE 0
      /\ \A i \in 1 .. q - p + 1 : SubSeq(list, p, q)[i] = list[p + i - 1]
  BY <1>2, <1>3, SubSeqProperties
<1>5. /\ s \in Seq(Binding)
      /\ \A i \in 1 .. Len(s) : p + i - 1 \in 1 .. n /\ s[i] = list[p + i - 1]
  <2>1. \A i \in 1 .. Len(s) : i \in 1 .. q - p + 1 /\ p + i - 1 \in 1 .. n
    BY <1>1, <1>2, <1>4
  <2>. QED
    BY <1>1, <1>4, <2>1
<1>6. Listed(s) \subseteq Listed(list)
  BY <1>1, <1>5 DEF Listed
<1>7. ASSUME NEW i \in 1 .. Len(s), NEW j \in 1 .. Len(s), s[i].id = s[j].id PROVE i = j
  <2>1. p + i - 1 = p + j - 1
    BY <1>1, <1>5, <1>7 DEF OneOfEach
  <2>. QED
    BY <1>2, <2>1
<1>. QED
  BY <1>1, <1>5, <1>6, <1>7 DEF OneOfEach

LEMMA QueueOfHandlers ==
  ASSUME ListenersInv, NEW n \in Nodes, NEW t \in Types, NEW queue, queue = HandlerQueue(n, t)
  PROVE  /\ queue \in Seq(Group)
         /\ \A i, j \in 1 .. Len(queue) : queue[i].at = queue[j].at => i = j
         /\ \A i \in 1 .. Len(queue) :
              OneOfEach(queue[i].calls) /\ Listed(queue[i].calls) \subseteq Has(handlers, n, t)
<1>1. PICK list, count, size : list = handlers[n][t] /\ count = delegateCount[n][t] /\ size = Len(list)
  OBVIOUS
<1>2. /\ list \in Seq(Binding) /\ OneOfEach(list) /\ count \in 0 .. size /\ size \in Nat
      /\ Listed(list) = Has(handlers, n, t)
  BY <1>1 DEF ListenersInv, HandlersFit, FrontFits, Has
<1>3. PICK front, back : front = SubSeq(list, 1, count) /\ back = SubSeq(list, count + 1, size)
  OBVIOUS
<1>4. 1 \in 1 .. size + 1 /\ count + 1 \in 1 .. size + 1 /\ size \in 0 .. size
  BY <1>2
<1>5. /\ front \in Seq(Binding) /\ OneOfEach(front) /\ Listed(front) \subseteq Has(handlers, n, t)
      /\ back \in Seq(Binding) /\ OneOfEach(back) /\ Listed(back) \subseteq Has(handlers, n, t)
  <2>1. /\ SubSeq(list, 1, count) \in Seq(Binding) /\ OneOfEach(SubSeq(list, 1, count))
        /\ Listed(SubSeq(list, 1, count)) \subseteq Listed(list)
    BY <1>1, <1>2, <1>4, PartOfHandlers
  <2>2. /\ SubSeq(list, count + 1, size) \in Seq(Binding) /\ OneOfEach(SubSeq(list, count + 1, size))
        /\ Listed(SubSeq(list, count + 1, size)) \subseteq Listed(list)
    BY <1>1, <1>2, <1>4, PartOfHandlers
  <2>. QED
    BY <1>2, <1>3, <2>1, <2>2
<1>6. PICK own : own = [at |-> n, calls |-> back]
  OBVIOUS
<1>7. PICK below : below = [i \in 1 .. 2 |-> [at |-> Matched[i], calls |-> front]]
  OBVIOUS
<1>8. own \in Group /\ own.at = n /\ own.calls = back
  BY <1>5, <1>6 DEF Group, Nodes
<1>9. /\ below \in Seq(Group) /\ Len(below) = 2 /\ below[1].at = "inner" /\ below[2].at = "outer"
      /\ below[1].calls = front /\ below[2].calls = front
  <2>1. \A i \in 1 .. 2 : below[i] = [at |-> Matched[i], calls |-> front] /\ (i = 1 \/ i = 2)
    BY <1>7
  <2>2. Matched[1] = "inner" /\ Matched[2] = "outer"
    BY DEF Matched
  <2>3. \A i \in 1 .. 2 : below[i] \in Group
    BY <1>5, <2>1, <2>2 DEF Group
  <2>4. below \in Seq(Group) /\ Len(below) = 2
    BY <1>7, <2>3
  <2>. QED
    BY <2>1, <2>2, <2>4
<1>10. queue = (IF n = "document" /\ count > 0 THEN below ELSE <<>>) \o (IF count < size THEN <<own>> ELSE <<>>)
  <2>1. DOMAIN Matched = 1 .. 2
    BY DEF Matched
  <2>. QED
    BY <1>1, <1>3, <1>6, <1>7, <2>1 DEF HandlerQueue
<1>11. CASE n = "document" /\ count > 0 /\ count < size
  <2>1. queue = Append(below, own)
    BY <1>8, <1>9, <1>10, <1>11, AppendIsConcat
  <2>2. queue \in Seq(Group) /\ Len(queue) = 3 /\ queue[1] = below[1] /\ queue[2] = below[2] /\ queue[3] = own
    <3>1. below \in Seq(Group) /\ own \in Group
      BY <1>8, <1>9
    <3>2. Append(below, own) \in Seq(Group) /\ Inserted(Append(below, own), below, Len(below) + 1, own)
      BY <3>1, AppendInserts
    <3>3. Len(below) = 2
      BY <1>9
    <3>. QED
      BY <2>1, <3>2, <3>3 DEF Inserted
  <2>3. \A i \in 1 .. Len(queue) : i = 1 \/ i = 2 \/ i = 3
    BY <2>2
  <2>4. queue[1].at = "inner" /\ queue[2].at = "outer" /\ queue[3].at = "document"
    BY <1>8, <1>9, <1>11, <2>2
  <2>5. queue[1].calls = front /\ queue[2].calls = front /\ queue[3].calls = back
    BY <1>8, <1>9, <2>2
  <2>. QED
    BY <1>5, <2>2, <2>3, <2>4, <2>5
<1>12. CASE n = "document" /\ count > 0 /\ ~(count < size)
  <2>1. queue = below
    BY <1>9, <1>10, <1>12
  <2>2. \A i \in 1 .. Len(queue) : i = 1 \/ i = 2
    <3>1. Len(queue) = 2
      BY <1>9, <2>1
    <3>. QED
      BY <3>1
  <2>. QED
    BY <1>5, <1>9, <2>1, <2>2
<1>13. CASE ~(n = "document" /\ count > 0) /\ count < size
  <2>1. queue = <<own>>
    <3>1. queue = <<>> \o <<own>>
      BY <1>10, <1>13
    <3>2. own \in Group
      BY <1>8
    <3>3. <<own>> \in Seq(Group)
      BY <3>2
    <3>. QED
      BY <3>1, <3>3, ConcatEmptySeq
  <2>2. queue \in Seq(Group) /\ queue[1] = own /\ \A i \in 1 .. Len(queue) : i = 1
    BY <1>8, <2>1
  <2>. QED
    BY <1>5, <1>8, <2>2
<1>14. CASE ~(n = "document" /\ count > 0) /\ ~(count < size)
  <2>1. queue = <<>>
    BY <1>10, <1>14
  <2>. QED
    BY <2>1
<1>. QED
  BY <1>11, <1>12, <1>13, <1>14

(***************************************************************************)
(* What happens to one event                                               *)
(***************************************************************************)
LEMMA Places ==
  ASSUME NEW path \in {Path, <<"inner">>}, NEW p \in 1 .. Len(path)
  PROVE  /\ path[p] \in Nodes <=> p \in {1, 3}
         /\ path[p] \in Nodes => Position(path[p]) = p
<1>1. CASE path = <<"inner">>
  <2>1. p = 1 /\ path[1] = "inner"
    BY <1>1
  <2>. QED
    BY <2>1 DEF Nodes, Position
<1>2. CASE path = Path
  <2>1. path[1] = "inner" /\ path[2] = "outer" /\ path[3] = "document" /\ path[4] = "window"
    BY <1>2 DEF Path
  <2>2. p = 1 \/ p = 2 \/ p = 3 \/ p = 4
    BY <1>2 DEF Path
  <2>. QED
    BY <2>1, <2>2 DEF Nodes, Position
<1>. QED
  BY <1>1, <1>2

LEMMA EventLikeIt ==
  ASSUME NEW h, NEW k, NEW e, NEW f, EventFits(h, k, e), f.groups = e.groups, f.path = e.path, f.at = e.at,
         f.type = e.type, f.called = e.called, f.calling = e.calling
  PROVE  EventFits(h, k, f)
BY DEF EventFits, GroupsFit, GroupFits

LEMMA EventReturns ==
  ASSUME NEW h, NEW k \in Nat, NEW e, NEW f, EventFits(h, k, e), f.groups = e.groups, f.path = e.path, f.at = e.at,
         f.type = e.type, f.called = e.called, f.calling = NotCalling
  PROVE  EventFits(h, k, f)
<1>1. f.calling.id <= k /\ ~f.calling.once
  BY DEF NotCalling
<1>. QED
  BY <1>1 DEF EventFits, GroupsFit, GroupFits, Unlisted

LEMMA EventLeaves ==
  ASSUME NEW h, NEW k, NEW e \in EventType, EventFits(h, k, e), e.groups # <<>>,
         NEW f, f = [e EXCEPT !.groups = IF e.stopped THEN <<>> ELSE Tail(@)]
  PROVE  f \in EventType /\ EventFits(h, k, f) /\ f.acting = e.acting /\ f.at = e.at /\ f.path = e.path
<1>1. PICK groups : groups = IF e.stopped THEN <<>> ELSE Tail(e.groups)
  OBVIOUS
<1>2. e.groups \in Seq(Group)
  BY DEF EventType
<1>3. groups \in Seq(Group) /\ \E d \in Nat : \A i \in 1 .. Len(groups) : i + d \in 1 .. Len(e.groups) /\ groups[i] = e.groups[i + d]
  <2>1. CASE e.stopped
    BY <1>1, <2>1
  <2>2. CASE ~e.stopped
    <3>1. /\ groups \in Seq(Group) /\ Len(groups) = Len(e.groups) - 1
          /\ \A i \in 1 .. Len(groups) : groups[i] = e.groups[i + 1]
      BY <1>1, <1>2, <2>2, HeadTailProperties
    <3>2. Len(e.groups) \in Nat
      BY <1>2
    <3>3. \A i \in 1 .. Len(groups) : i + 1 \in 1 .. Len(e.groups)
      BY <3>1, <3>2
    <3>. QED
      BY <3>1, <3>3
  <2>. QED
    BY <2>1, <2>2
<1>4. PICK d \in Nat : \A i \in 1 .. Len(groups) : i + d \in 1 .. Len(e.groups) /\ groups[i] = e.groups[i + d]
  BY <1>3
<1>5. f = [e EXCEPT !.groups = groups]
  BY <1>1 DEF EventType
<1>6. /\ f.groups = groups /\ f.path = e.path /\ f.at = e.at /\ f.type = e.type /\ f.called = e.called
      /\ f.calling = e.calling /\ f.acting = e.acting
  BY <1>5 DEF EventType
<1>7. f \in EventType
  BY <1>3, <1>5 DEF EventType
<1>8. ASSUME NEW i \in 1 .. Len(f.groups) PROVE GroupFits(h, k, f.groups[i], f)
  <2>1. PICK m : m = i + d
    OBVIOUS
  <2>2. m \in 1 .. Len(e.groups) /\ f.groups[i] = e.groups[m]
    BY <1>4, <1>6, <2>1
  <2>3. GroupFits(h, k, e.groups[m], e)
    BY <2>2 DEF EventFits, GroupsFit
  <2>. QED
    BY <1>6, <2>2, <2>3 DEF GroupFits
<1>9. ASSUME NEW i \in 1 .. Len(f.groups), NEW j \in 1 .. Len(f.groups), f.groups[i].at = f.groups[j].at PROVE i = j
  <2>1. PICK p, q : p = i + d /\ q = j + d
    OBVIOUS
  <2>2. p \in 1 .. Len(e.groups) /\ q \in 1 .. Len(e.groups) /\ e.groups[p].at = e.groups[q].at
    BY <1>4, <1>6, <1>9, <2>1
  <2>3. p = q
    BY <2>2 DEF EventFits, GroupsFit
  <2>. QED
    BY <2>1, <2>3
<1>10. f.at \in {1, 3} /\ Len(f.path) >= f.at
  BY <1>6 DEF EventFits, GroupsFit
<1>11. GroupsFit(h, k, f)
  BY <1>8, <1>9, <1>10 DEF GroupsFit
<1>. QED
  BY <1>6, <1>7, <1>11 DEF EventFits

CallOf(e, group, b) ==
  [e EXCEPT !.groups[1].calls = Tail(@), !.calling = b, !.called = @ \cup {<<b.id, group.at>>}]

LEMMA EventCalls ==
  ASSUME NEW h, NEW k, NEW e \in EventType, EventFits(h, k, e), e.groups # <<>>,
         NEW group, group = e.groups[1], group.calls # <<>>, NEW b, b = group.calls[1],
         Unlisted(h, b),
         NEW f, f = CallOf(e, group, b)
  PROVE  /\ f \in EventType /\ EventFits(h, k, f) /\ f.acting = e.acting /\ f.at = e.at /\ f.path = e.path
         /\ <<b.id, group.at>> \notin e.called
<1>1. e.groups \in Seq(Group) /\ 1 \in 1 .. Len(e.groups)
  BY DEF EventType
<1>2. group \in Group /\ group.calls \in Seq(Binding) /\ 1 \in 1 .. Len(group.calls)
  <2>1. group \in Group
    BY <1>1
  <2>2. group.calls \in Seq(Binding)
    BY <2>1 DEF Group
  <2>. QED
    BY <2>1, <2>2
<1>3. b \in Binding
  BY <1>2
<1>4. PICK calls : calls = Tail(group.calls)
  OBVIOUS
<1>5. /\ calls \in Seq(Binding)
      /\ \A i \in 1 .. Len(calls) : i + 1 \in 1 .. Len(group.calls) /\ calls[i] = group.calls[i + 1] /\ i + 1 # 1
  <2>1. /\ calls \in Seq(Binding) /\ Len(calls) = Len(group.calls) - 1 /\ Len(group.calls) \in Nat
        /\ \A i \in 1 .. Len(calls) : calls[i] = group.calls[i + 1]
    BY <1>2, <1>4, HeadTailProperties
  <2>2. \A i \in 1 .. Len(calls) : i + 1 \in 1 .. Len(group.calls) /\ i + 1 # 1
    BY <2>1
  <2>. QED
    BY <2>1, <2>2
<1>6. PICK rest : rest = [group EXCEPT !.calls = calls]
  OBVIOUS
<1>7. rest \in Group /\ rest.at = group.at /\ rest.calls = calls
  BY <1>2, <1>5, <1>6 DEF Group
<1>8. PICK groups, called, key :
        /\ groups = [e.groups EXCEPT ![1] = rest] /\ called = e.called \cup {<<b.id, group.at>>} /\ key = <<b.id, group.at>>
  OBVIOUS
<1>9. /\ groups \in Seq(Group) /\ Len(groups) = Len(e.groups) /\ groups # <<>>
      /\ groups[1] = rest /\ \A i \in 1 .. Len(groups) : i # 1 => groups[i] = e.groups[i]
  BY <1>1, <1>7, <1>8
<1>10. f = [e EXCEPT !.groups = groups, !.calling = b, !.called = called]
  BY <1>1, <1>2, <1>4, <1>6, <1>8 DEF EventType, CallOf
<1>11. /\ f.groups = groups /\ f.path = e.path /\ f.at = e.at /\ f.type = e.type /\ f.called = called
       /\ f.calling = b /\ f.acting = e.acting
  BY <1>10 DEF EventType
<1>12. f \in EventType
  <2>1. called \in SUBSET (Nat \X {"inner", "outer", "document"})
    BY <1>2, <1>3, <1>8 DEF EventType, Group, Binding
  <2>. QED
    BY <1>3, <1>9, <1>10, <2>1 DEF EventType
<1>13. /\ GroupFits(h, k, group, e) /\ e.at \in {1, 3} /\ Len(e.path) >= e.at /\ e.path \in {Path, <<"inner">>}
  BY <1>1 DEF EventFits, GroupsFit, EventType
<1>14. key \notin e.called /\ b.id <= k /\ Only(h, b, e.path[e.at], e.type)
  BY <1>2, <1>8, <1>13 DEF GroupFits
<1>15. Past(h, k, b.id, e.at)
  <2>1. e.at \in 1 .. Len(e.path)
    BY <1>13 DEF EventType, Path
  <2>2. Position(e.path[e.at]) = e.at
    BY <1>13, <2>1, Places
  <2>3. e.at <= e.at
    BY <1>13
  <2>. QED
    BY <1>14, <2>2, <2>3 DEF Past, Only
<1>16. \A c \in called : Past(h, k, c[1], f.at)
  BY SMTT(30), <1>8, <1>11, <1>15 DEF EventFits
<1>17. ASSUME NEW i \in 1 .. Len(groups) PROVE GroupFits(h, k, groups[i], f)
  <2>1. CASE i = 1
    <3>1. OneOfEach(calls)
      <4>. SUFFICES ASSUME NEW p \in 1 .. Len(calls), NEW q \in 1 .. Len(calls), calls[p].id = calls[q].id PROVE p = q
        BY DEF OneOfEach
      <4>1. PICK u, v : u = p + 1 /\ v = q + 1
        OBVIOUS
      <4>2. u \in 1 .. Len(group.calls) /\ v \in 1 .. Len(group.calls) /\ group.calls[u].id = group.calls[v].id
        BY <1>5, <4>1
      <4>3. u = v
        BY <1>13, <4>2 DEF GroupFits, OneOfEach
      <4>. QED
        BY <4>1, <4>3
    <3>2. ASSUME NEW p \in 1 .. Len(calls)
          PROVE  <<calls[p].id, group.at>> \notin called /\ calls[p].id <= k /\ Only(h, calls[p], e.path[e.at], e.type)
      <4>1. calls[p].id # b.id
        BY <1>2, <1>5, <1>13 DEF GroupFits, OneOfEach
      <4>2. /\ <<calls[p].id, group.at>> \notin e.called /\ calls[p].id <= k
            /\ Only(h, calls[p], e.path[e.at], e.type)
        BY <1>5, <1>13 DEF GroupFits
      <4>. QED
        BY <1>8, <4>1, <4>2
    <3>3. GroupFits(h, k, rest, f)
      BY <1>7, <1>11, <3>1, <3>2 DEF GroupFits
    <3>. QED
      BY <1>9, <2>1, <3>3
  <2>2. CASE i # 1
    <3>1. groups[i] = e.groups[i] /\ i \in 1 .. Len(e.groups)
      BY <1>9, <2>2
    <3>2. GroupFits(h, k, e.groups[i], e)
      BY <3>1 DEF EventFits, GroupsFit
    <3>3. e.groups[i].at # group.at
      BY <1>1, <2>2, <3>1 DEF EventFits, GroupsFit
    <3>4. PICK g : g = groups[i]
      OBVIOUS
    <3>5. g.at # group.at /\ GroupFits(h, k, g, e)
      BY <3>1, <3>2, <3>3, <3>4
    <3>6. \A x : <<x, g.at>> \in called => <<x, g.at>> \in e.called
      BY <1>8, <3>5
    <3>7. GroupFits(h, k, g, f)
      BY <1>11, <3>5, <3>6 DEF GroupFits
    <3>. QED
      BY <3>4, <3>7
  <2>. QED
    BY <2>1, <2>2
<1>18. ASSUME NEW i \in 1 .. Len(groups), NEW j \in 1 .. Len(groups), groups[i].at = groups[j].at PROVE i = j
  <2>1. \A m \in 1 .. Len(groups) : groups[m].at = e.groups[m].at
    BY <1>7, <1>9
  <2>. QED
    BY <1>9, <1>18, <2>1 DEF EventFits, GroupsFit
<1>19. GroupsFit(h, k, f)
  <2>1. \A i \in 1 .. Len(f.groups) : GroupFits(h, k, f.groups[i], f)
    BY <1>11, <1>17
  <2>2. \A i, j \in 1 .. Len(f.groups) : f.groups[i].at = f.groups[j].at => i = j
    <3>1. f.groups = groups
      BY <1>11
    <3>2. \A i, j \in 1 .. Len(groups) : groups[i].at = groups[j].at => i = j
      BY <1>18
    <3>. QED
      BY <3>1, <3>2
  <2>3. f.at \in {1, 3} /\ Len(f.path) >= f.at
    BY <1>11, <1>13
  <2>. QED
    BY <2>1, <2>2, <2>3 DEF GroupsFit
<1>20. EventFits(h, k, f)
  <2>1. f.calling.id <= k /\ Unlisted(h, f.calling)
    BY <1>11, <1>14
  <2>2. \A c \in f.called : Past(h, k, c[1], f.at)
    BY <1>11, <1>16
  <2>. QED
    BY <1>19, <2>1, <2>2 DEF EventFits
<1>. QED
  BY <1>8, <1>11, <1>12, <1>14, <1>20

LEMMA EventReaches ==
  ASSUME ListenersInv, NEW e \in EventType, EventFits(handlers, bindings, e), e.groups = <<>>, e.calling = NotCalling,
         e.at + 1 <= Len(e.path), NEW reported \in BOOLEAN, reported => e.path[e.at + 1] \in Nodes,
         NEW f, f = [e EXCEPT !.at = @ + 1, !.groups = IF reported THEN HandlerQueue(e.path[e.at + 1], e.type) ELSE <<>>]
  PROVE  f \in EventType /\ EventFits(handlers, bindings, f) /\ f.acting = e.acting /\ f.at <= Len(f.path)
<1>1. PICK n, queue : n = e.path[e.at + 1] /\ queue = IF reported THEN HandlerQueue(n, e.type) ELSE <<>>
  OBVIOUS
<1>2. f = [e EXCEPT !.at = e.at + 1, !.groups = queue]
  BY <1>1 DEF EventType
<1>3. /\ f.at = e.at + 1 /\ f.groups = queue /\ f.path = e.path /\ f.type = e.type /\ f.called = e.called
      /\ f.calling = NotCalling /\ f.acting = e.acting
  BY <1>2 DEF EventType
<1>4. /\ e.at \in Nat /\ e.path \in {Path, <<"inner">>} /\ e.type \in Types /\ bindings \in Nat /\ HandlerTypes
      /\ BindingsAreNew(handlers, bindings)
  BY DEF EventType, ListenersInv, HandlerTypes
<1>5. e.at + 1 \in 1 .. Len(e.path)
  BY <1>4 DEF Path
<1>6. reported => n \in Nodes /\ f.at \in {1, 3} /\ Position(n) = f.at
  BY <1>1, <1>3, <1>4, <1>5, Places
<1>7. /\ queue \in Seq(Group)
      /\ \A i, j \in 1 .. Len(queue) : queue[i].at = queue[j].at => i = j
      /\ \A i \in 1 .. Len(queue) : reported /\ OneOfEach(queue[i].calls) /\ Listed(queue[i].calls) \subseteq Has(handlers, n, e.type)
  <2>1. CASE reported
    <3>1. n \in Nodes /\ queue = HandlerQueue(n, e.type)
      BY <1>1, <1>6, <2>1
    <3>2. \A i \in 1 .. Len(queue) : OneOfEach(queue[i].calls) /\ Listed(queue[i].calls) \subseteq Has(handlers, n, e.type)
      BY <1>4, <3>1, QueueOfHandlers
    <3>3. queue \in Seq(Group) /\ \A i, j \in 1 .. Len(queue) : queue[i].at = queue[j].at => i = j
      BY <1>4, <3>1, QueueOfHandlers
    <3>. QED
      BY <2>1, <3>2, <3>3
  <2>2. CASE ~reported
    BY <1>1, <2>2
  <2>. QED
    BY <2>1, <2>2
<1>8. f \in EventType
  <2>1. e.at + 1 \in Nat /\ queue \in Seq(Group)
    BY <1>4, <1>7
  <2>. QED
    BY <1>2, <2>1 DEF EventType
<1>9. ASSUME NEW i \in 1 .. Len(queue) PROVE GroupFits(handlers, bindings, queue[i], f)
  <2>. SUFFICES ASSUME NEW j \in 1 .. Len(queue[i].calls), NEW b, b = queue[i].calls[j]
                PROVE  <<b.id, queue[i].at>> \notin f.called /\ b.id <= bindings /\ Only(handlers, b, f.path[f.at], f.type)
    BY <1>7 DEF GroupFits
  <2>1. b \in Has(handlers, n, e.type)
    BY <1>7 DEF Listed
  <2>2. n \in Nodes /\ f.path[f.at] = n
    BY <1>1, <1>3, <1>6, <1>7
  <2>3. b.id <= bindings /\ Only(handlers, b, n, e.type)
    BY <1>4, <2>1, <2>2 DEF BindingsAreNew
  <2>4. ~(Position(n) <= e.at)
    BY <1>3, <1>4, <1>6, <1>7
  <2>5. <<b.id, queue[i].at>> \notin e.called
    <3>1. \A key \in e.called : key[1] # b.id
      BY <1>4, <2>1, <2>2, <2>4 DEF EventFits, Past
    <3>. QED
      BY <3>1
  <2>. QED
    BY <1>3, <2>2, <2>3, <2>5
<1>10. GroupsFit(handlers, bindings, f)
  <2>1. f.groups = queue
    BY <1>3
  <2>2. queue # <<>> => f.at \in {1, 3} /\ Len(f.path) >= f.at
    <3>1. queue # <<>> => 1 \in 1 .. Len(queue)
      BY <1>7
    <3>2. queue # <<>> => reported
      BY <1>7, <3>1
    <3>3. Len(f.path) >= f.at
      BY <1>3, <1>4, <1>5 DEF Path
    <3>. QED
      BY <1>6, <3>2, <3>3
  <2>. QED
    BY <1>7, <1>9, <2>1, <2>2 DEF GroupsFit
<1>11. ASSUME NEW key \in f.called PROVE Past(handlers, bindings, key[1], f.at)
  <2>1. Past(handlers, bindings, key[1], e.at)
    BY <1>3 DEF EventFits
  <2>2. \A m \in Nodes : Position(m) <= e.at => Position(m) <= f.at
    BY <1>3, <1>4 DEF Position
  <2>. QED
    BY <2>1, <2>2 DEF Past
<1>12. f.calling.id <= bindings /\ Unlisted(handlers, f.calling)
  BY <1>3, <1>4 DEF NotCalling, Unlisted
<1>13. f.at <= Len(f.path)
  BY <1>3
<1>. QED
  BY <1>3, <1>8, <1>10, <1>11, <1>12, <1>13 DEF EventFits

(***************************************************************************)
(* The events under way                                                    *)
(***************************************************************************)
Normal == \A i \in 1 .. Len(events) : ~events[i].acting

LEMMA NormalEvents ==
  ASSUME CalledInv, Normal
  PROVE  \A i \in 1 .. Len(events) : EventFits(handlers, bindings, events[i]) /\ events[i].at <= Len(events[i].path)
<1>1. \A i \in 1 .. Len(events) : ~Silent(i)
  <2>1. Len(events) \in Nat
    BY DEF CalledInv
  <2>2. Len(events) >= 2 => 2 \in 1 .. Len(events)
    BY <2>1
  <2>. QED
    BY <2>2 DEF Silent, Normal
<1>. QED
  BY <1>1 DEF CalledInv, InPlace

LEMMA NormalNext ==
  ASSUME events' \in Seq(EventType), ~twice',
         \A i \in 1 .. Len(events') :
           ~events'[i].acting /\ events'[i].at <= Len(events'[i].path) /\ EventFits(handlers', bindings', events'[i])
  PROVE  CalledInv'
<1>1. \A i \in 1 .. Len(events') : ~Silent(i)'
  <2>1. Len(events') \in Nat
    OBVIOUS
  <2>2. Len(events') >= 2 => 2 \in 1 .. Len(events')
    BY <2>1
  <2>. QED
    BY <2>2 DEF Silent
<1>2. \A i \in 1 .. Len(events') : InPlace(i)'
  BY <1>1 DEF InPlace
<1>. QED
  BY <1>2 DEF CalledInv

LEMMA BusyMeansNormal ==
  ASSUME CalledInv, events # <<>>, ~Quiet(events[1]) \/ (~events[1].native /\ ~events[1].acting)
  PROVE  Normal
<1>. SUFFICES ASSUME NEW i \in 1 .. Len(events), events[i].acting PROVE FALSE
  BY DEF Normal
<1>1. Len(events) \in Nat /\ i <= 2 /\ Quiet(events[i]) /\ 1 \in 1 .. Len(events)
  <2>1. Len(events) \in Nat /\ 1 \in 1 .. Len(events)
    BY DEF CalledInv
  <2>. QED
    BY <2>1 DEF CalledInv, InPlace, Acts
<1>2. CASE i = 1
  BY <1>1, <1>2
<1>3. CASE i # 1
  <2>1. i = 2 /\ Len(events) >= 2
    BY <1>1, <1>3
  <2>2. Silent(1)
    BY <2>1 DEF Silent
  <2>. QED
    BY <1>1, <2>2 DEF CalledInv, InPlace
<1>. QED
  BY <1>2, <1>3

LEMMA TopOfEvents ==
  ASSUME events \in Seq(EventType), events # <<>>
  PROVE  /\ Current = events[1] /\ Current \in EventType /\ 1 \in 1 .. Len(events)
         /\ Tail(events) \in Seq(EventType)
         /\ \A i \in 1 .. Len(Tail(events)) : i + 1 \in 1 .. Len(events) /\ Tail(events)[i] = events[i + 1]
         /\ Len(Tail(events)) = Len(events) - 1 /\ Len(events) \in Nat
<1>1. /\ Tail(events) \in Seq(EventType) /\ Len(Tail(events)) = Len(events) - 1 /\ Len(events) \in Nat \ {0}
      /\ \A i \in 1 .. Len(Tail(events)) : Tail(events)[i] = events[i + 1]
  BY HeadTailProperties, EmptySeq
<1>2. 1 \in 1 .. Len(events) /\ \A i \in 1 .. Len(Tail(events)) : i + 1 \in 1 .. Len(events)
  BY <1>1
<1>3. Current = events[1] /\ Current \in EventType
  BY <1>2 DEF Current
<1>. QED
  BY <1>1, <1>2, <1>3

LEMMA OneMoreOnTop ==
  ASSUME NEW S, NEW rest \in Seq(S), NEW x \in S, NEW new, new = <<x>> \o rest
  PROVE  /\ new \in Seq(S) /\ Len(new) = Len(rest) + 1 /\ new[1] = x
         /\ \A i \in 1 .. Len(new) : i = 1 \/ (i - 1 \in 1 .. Len(rest) /\ new[i] = rest[i - 1])
<1>1. <<x>> \in Seq(S) /\ Len(<<x>>) = 1 /\ Len(rest) \in Nat
  OBVIOUS
<1>2. /\ new \in Seq(S) /\ Len(new) = 1 + Len(rest)
      /\ \A i \in 1 .. 1 + Len(rest) : new[i] = IF i <= 1 THEN <<x>>[i] ELSE rest[i - 1]
  BY <1>1, ConcatProperties
<1>. QED
  BY <1>1, <1>2

LEMMA EventsStay ==
  ASSUME CalledInv, Normal, bindings \in Nat, bindings' \in Nat, Later(handlers, bindings, handlers', bindings')
  PROVE  \A i \in 1 .. Len(events) :
           EventFits(handlers', bindings', events[i]) /\ events[i].at <= Len(events[i].path) /\ ~events[i].acting
<1>. SUFFICES ASSUME NEW i \in 1 .. Len(events)
              PROVE  EventFits(handlers', bindings', events[i]) /\ events[i].at <= Len(events[i].path) /\ ~events[i].acting
  OBVIOUS
<1>1. events[i] \in EventType /\ ~events[i].acting
  BY DEF CalledInv, Normal
<1>2. EventFits(handlers, bindings, events[i]) /\ events[i].at <= Len(events[i].path)
  BY NormalEvents
<1>. QED
  BY <1>1, <1>2, EventStays

LEMMA SameEvents ==
  ASSUME CalledInv, Normal, bindings \in Nat, bindings' \in Nat, Later(handlers, bindings, handlers', bindings'),
         UNCHANGED <<events, twice>>
  PROVE  CalledInv'
<1>1. events' = events /\ events \in Seq(EventType) /\ ~twice'
  BY DEF CalledInv
<1>. QED
  BY <1>1, EventsStay, NormalNext

LEMMA TopChanges ==
  ASSUME CalledInv, Normal, bindings \in Nat, bindings' \in Nat, Later(handlers, bindings, handlers', bindings'),
         events # <<>>, NEW e \in EventType, Becomes(e), ~e.acting, e.at <= Len(e.path),
         EventFits(handlers', bindings', e), ~twice'
  PROVE  CalledInv'
<1>1. events \in Seq(EventType)
  BY DEF CalledInv
<1>2. PICK rest : rest = Tail(events)
  OBVIOUS
<1>3. rest \in Seq(EventType) /\ \A i \in 1 .. Len(rest) : i + 1 \in 1 .. Len(events) /\ rest[i] = events[i + 1]
  BY <1>1, <1>2, TopOfEvents
<1>4. PICK new : new = <<e>> \o rest
  OBVIOUS
<1>5. /\ new \in Seq(EventType) /\ new[1] = e
      /\ \A i \in 1 .. Len(new) : i = 1 \/ (i - 1 \in 1 .. Len(rest) /\ new[i] = rest[i - 1])
  BY <1>3, <1>4, OneMoreOnTop
<1>6. ASSUME NEW i \in 1 .. Len(new)
      PROVE  ~new[i].acting /\ new[i].at <= Len(new[i].path) /\ EventFits(handlers', bindings', new[i])
  <2>1. CASE i = 1
    BY <1>5, <2>1
  <2>2. CASE i # 1
    <3>1. PICK j \in 1 .. Len(events) : new[i] = events[j]
      BY <1>3, <1>5, <2>2
    <3>. QED
      BY <3>1, EventsStay
  <2>. QED
    BY <2>1, <2>2
<1>7. events' = new
  BY <1>2, <1>4 DEF Becomes
<1>. QED
  BY <1>5, <1>6, <1>7, NormalNext

LEMMA SameHandlers ==
  ASSUME ListenersInv, UNCHANGED <<boundVars, bindings>>
  PROVE  ListenersInv' /\ Later(handlers, bindings, handlers', bindings') /\ bindings \in Nat /\ bindings' \in Nat
<1>1. /\ handlers' = handlers /\ delegateCount' = delegateCount /\ listens' = listens /\ attaches' = attaches
      /\ captures' = captures /\ bindings' = bindings /\ bindings \in Nat /\ bindings <= bindings
  BY DEF boundVars, ListenersInv, HandlerTypes
<1>2. Later(handlers, bindings, handlers', bindings')
  BY <1>1 DEF Later
<1>3. ListenersInv'
  BY <1>1 DEF ListenersInv, HandlerTypes, ListenersFollowHandlers
<1>. QED
  BY <1>1, <1>2, <1>3

EventsInv == ListenersInv /\ CalledInv

LEMMA EventsBegin == EventsInit => EventsInv
<1>. SUFFICES ASSUME EventsInit PROVE EventsInv
  OBVIOUS
<1>1. /\ \A n \in Nodes, t \in Types : handlers[n][t] = <<>> /\ delegateCount[n][t] = 0
      /\ handlers \in [Nodes -> [Types -> Seq(Binding)]] /\ delegateCount \in [Nodes -> [Types -> Nat]]
      /\ listens = [n \in Nodes |-> {}] /\ attaches = 0 /\ captures = FALSE /\ bindings = 0
  BY DEF EventsInit
<1>2. HandlerTypes
  <2>1. listens \in [Nodes -> SUBSET Types]
    BY <1>1
  <2>2. attaches \in Int /\ bindings \in Nat
    BY <1>1
  <2>3. captures \in BOOLEAN
    BY <1>1
  <2>. QED
    BY <1>1, <2>1, <2>2, <2>3 DEF HandlerTypes
<1>3. HandlersFit(<<>>, 0)
  BY DEF HandlersFit, OneOfEach, FrontFits
<1>4. BindingsAreNew(handlers, bindings)
  BY <1>1 DEF BindingsAreNew, Has, Listed
<1>5. ListenersFollowHandlers
  <2>1. {n \in Nodes : handlers[n]["focusin"] # <<>>} = {}
    BY <1>1 DEF Types
  <2>2. Cardinality({n \in Nodes : handlers[n]["focusin"] # <<>>}) = 0
    BY <2>1, FS_EmptySet
  <2>. QED
    BY <1>1, <2>2 DEF ListenersFollowHandlers
<1>6. CalledInv
  BY DEF EventsInit, CalledInv
<1>. QED
  BY <1>1, <1>2, <1>3, <1>4, <1>5, <1>6 DEF EventsInv, ListenersInv

LEMMA ReachNodeKeeps == EventsInv /\ ReachNode => EventsInv'
<1>. SUFFICES ASSUME EventsInv, ReachNode PROVE EventsInv'
  OBVIOUS
<1>1. /\ ListenersInv /\ CalledInv /\ events # <<>> /\ events \in Seq(EventType)
      /\ UNCHANGED <<boundVars, bindings>> /\ triggered' = triggered /\ twice' = twice
  BY DEF EventsInv, ReachNode, Proceeds, CalledInv
<1>2. ListenersInv' /\ Later(handlers, bindings, handlers', bindings') /\ bindings \in Nat /\ bindings' \in Nat
  BY <1>1, SameHandlers
<1>3. PICK e : e = events[1]
  OBVIOUS
<1>4. Current = e /\ e \in EventType /\ 1 \in 1 .. Len(events)
  BY <1>1, <1>3, TopOfEvents
<1>5. e.groups = <<>> /\ e.calling = NotCalling /\ ~e.stopped /\ e.at # Len(e.path) /\ e.at <= Len(e.path)
  BY <1>1, <1>3, <1>4 DEF ReachNode, Proceeds, Over, CalledInv, InPlace
<1>6. e.at + 1 <= Len(e.path)
  <2>1. e.at \in Nat /\ Len(e.path) \in Nat
    BY <1>4 DEF EventType, Path
  <2>. QED
    BY <1>5, <2>1
<1>7. ~e.acting
  BY <1>1, <1>3, <1>4, <1>5 DEF CalledInv, InPlace, Acts
<1>8. PICK reported : reported = (/\ e.path[e.at + 1] \in Nodes
                                  /\ (e.native => e.type \in listens[e.path[e.at + 1]] /\ triggered # e.type))
  OBVIOUS
<1>9. PICK f : f = [e EXCEPT !.at = @ + 1, !.groups = IF reported THEN HandlerQueue(e.path[e.at + 1], e.type) ELSE <<>>]
  OBVIOUS
<1>10. Becomes(f)
  BY <1>4, <1>8, <1>9 DEF ReachNode
<1>11. CASE Normal
  <2>1. EventFits(handlers, bindings, e)
    BY <1>1, <1>3, <1>4, <1>11, NormalEvents
  <2>2. f \in EventType /\ EventFits(handlers, bindings, f) /\ f.acting = e.acting /\ f.at <= Len(f.path)
    BY <1>1, <1>4, <1>5, <1>6, <1>8, <1>9, <2>1, EventReaches
  <2>3. EventFits(handlers', bindings', f)
    BY <1>2, <2>2, EventStays
  <2>4. CalledInv'
    BY <1>1, <1>2, <1>7, <1>10, <1>11, <2>2, <2>3, TopChanges DEF CalledInv
  <2>. QED
    BY <1>2, <2>4 DEF EventsInv
<1>12. CASE ~Normal
  <2>1. Len(events) >= 2 /\ events[2].acting /\ Silent(1)
    <3>1. PICK i \in 1 .. Len(events) : events[i].acting
      BY <1>12 DEF Normal
    <3>2. i <= 2 /\ i # 1 /\ Len(events) \in Nat
      BY <1>1, <1>3, <1>7, <3>1 DEF CalledInv, InPlace, Acts
    <3>3. i = 2 /\ Len(events) >= 2
      BY <3>2
    <3>. QED
      BY <3>1, <3>3 DEF Silent
  <2>2. e.native /\ e.type = triggered
    BY <1>1, <1>3, <1>4, <2>1 DEF CalledInv, InPlace
  <2>3. f = [e EXCEPT !.at = @ + 1, !.groups = <<>>]
    BY <1>8, <1>9, <2>2
  <2>4. /\ f \in EventType /\ f.at = e.at + 1 /\ f.path = e.path /\ f.groups = <<>> /\ f.calling = NotCalling
        /\ f.native = e.native /\ f.type = e.type /\ f.acting = e.acting
    <3>1. e.at + 1 \in Nat
      BY <1>4 DEF EventType
    <3>. QED
      BY <1>4, <1>5, <2>3, <3>1 DEF EventType
  <2>5. PICK rest : rest = Tail(events)
    OBVIOUS
  <2>6. /\ rest \in Seq(EventType) /\ \A i \in 1 .. Len(rest) : i + 1 \in 1 .. Len(events) /\ rest[i] = events[i + 1]
        /\ Len(rest) = Len(events) - 1 /\ Len(events) \in Nat
    BY <1>1, <2>5, TopOfEvents
  <2>7. PICK new : new = <<f>> \o rest
    OBVIOUS
  <2>8. /\ new \in Seq(EventType) /\ new[1] = f /\ Len(new) = Len(rest) + 1
        /\ \A i \in 1 .. Len(new) : i = 1 \/ (i - 1 \in 1 .. Len(rest) /\ new[i] = rest[i - 1])
    BY <2>4, <2>6, <2>7, OneMoreOnTop
  <2>9. events' = new
    BY <1>10, <2>5, <2>7 DEF Becomes
  <2>10. Len(new) = Len(events) /\ \A i \in 1 .. Len(new) : i # 1 => i \in 1 .. Len(events) /\ new[i] = events[i]
    BY <2>6, <2>8
  <2>11. handlers' = handlers /\ bindings' = bindings
    BY <1>1 DEF boundVars
  <2>12. ASSUME NEW i \in 1 .. Len(new) PROVE InPlace(i)'
    <3>1. CASE i = 1
      <4>1. Silent(i)'
        <5>1. 2 \in 1 .. Len(new)
          BY <2>1, <2>6, <2>10
        <5>2. new[2] = events[2]
          BY <2>10, <5>1
        <5>. QED
          BY <2>1, <2>9, <2>10, <3>1, <5>2 DEF Silent
      <4>2. events'[i] = f
        BY <2>8, <2>9, <3>1
      <4>. QED
        BY <1>1, <1>6, <1>7, <2>2, <2>4, <4>1, <4>2 DEF InPlace, Quiet
    <3>2. CASE i # 1
      <4>1. i \in 1 .. Len(events) /\ events'[i] = events[i]
        BY <2>9, <2>10, <3>2
      <4>2. Acts(i) => Acts(i)'
        BY <1>1, <4>1 DEF Acts
      <4>3. ~Silent(i) /\ ~Silent(i)'
        BY <3>2 DEF Silent
      <4>4. (events[i].acting => Acts(i)) /\ events[i].at <= Len(events[i].path) /\ EventFits(handlers, bindings, events[i])
        BY <1>1, <4>1, <4>3 DEF CalledInv, InPlace
      <4>. QED
        BY <2>11, <4>1, <4>2, <4>3, <4>4 DEF InPlace
    <3>. QED
      BY <3>1, <3>2
  <2>13. CalledInv'
    <3>1. events' \in Seq(EventType) /\ ~twice'
      BY <1>1, <2>8, <2>9 DEF CalledInv
    <3>2. \A i \in 1 .. Len(events') : InPlace(i)'
      BY <2>9, <2>12
    <3>. QED
      BY <3>1, <3>2 DEF CalledInv
  <2>. QED
    BY <1>2, <2>13 DEF EventsInv
<1>. QED
  BY <1>11, <1>12

LEMMA CallHandlerKeeps == EventsInv /\ CallHandler => EventsInv'
<1>. SUFFICES ASSUME EventsInv, CallHandler PROVE EventsInv'
  OBVIOUS
<1>1. /\ ListenersInv /\ CalledInv /\ events # <<>> /\ events \in Seq(EventType) /\ bindings' = bindings
  BY DEF EventsInv, CallHandler, Proceeds, CalledInv
<1>2. PICK e : e = events[1]
  OBVIOUS
<1>3. Current = e /\ e \in EventType /\ 1 \in 1 .. Len(events)
  BY <1>1, <1>2, TopOfEvents
<1>4. e.groups # <<>> /\ e.groups \in Seq(Group)
  BY <1>3 DEF CallHandler, EventType
<1>5. PICK group : group = e.groups[1]
  OBVIOUS
<1>6. PICK b : b = group.calls[1]
  OBVIOUS
<1>7. Head(e.groups) = group /\ group.calls # <<>> /\ group.calls \in Seq(Binding) /\ 1 \in 1 .. Len(e.groups)
  <2>1. Head(e.groups) = group /\ 1 \in 1 .. Len(e.groups)
    BY <1>4, <1>5
  <2>2. group.calls \in Seq(Binding)
    <3>1. group \in Group
      BY <1>4, <1>5, <2>1
    <3>. QED
      BY <3>1 DEF Group
  <2>. QED
    BY <1>3, <2>1, <2>2 DEF CallHandler
<1>8. Head(group.calls) = b /\ 1 \in 1 .. Len(group.calls) /\ b \in Binding
  BY <1>6, <1>7
<1>9. PICK f : f = CallOf(e, group, b)
  OBVIOUS
<1>10. /\ Becomes(f) /\ twice' = (twice \/ <<b.id, group.at>> \in e.called)
       /\ IF b.once THEN UnbindOne(e.path[e.at], e.type, b) ELSE UNCHANGED boundVars
  BY <1>3, <1>7, <1>8, <1>9 DEF CallHandler, CallOf
<1>11. Normal
  BY <1>1, <1>2, <1>4, BusyMeansNormal DEF Quiet
<1>12. EventFits(handlers, bindings, e) /\ e.at <= Len(e.path) /\ ~e.acting
  BY <1>1, <1>2, <1>3, <1>11, NormalEvents DEF Normal
<1>13. /\ GroupFits(handlers, bindings, group, e) /\ e.at \in {1, 3} /\ Len(e.path) >= e.at
       /\ e.path \in {Path, <<"inner">>} /\ e.type \in Types
  BY <1>3, <1>4, <1>5, <1>7, <1>12 DEF EventFits, GroupsFit, EventType
<1>14. e.path[e.at] \in Nodes
  <2>1. e.at \in 1 .. Len(e.path)
    BY <1>13 DEF Path
  <2>. QED
    BY <1>13, <2>1, Places
<1>15. b.id <= bindings /\ Only(handlers, b, e.path[e.at], e.type)
  BY <1>6, <1>8, <1>13 DEF GroupFits
<1>16. /\ ListenersInv' /\ Later(handlers, bindings, handlers', bindings') /\ bindings \in Nat /\ bindings' \in Nat
       /\ b.once => \A n \in Nodes, t \in Types : \A c \in Has(handlers', n, t) : c.id # b.id
  <2>0. bindings \in Nat
    BY <1>1 DEF ListenersInv, HandlerTypes
  <2>1. CASE b.once
    <3>1. Unbind(e.path[e.at], e.type, {b.name}, b.delegated)
      BY <1>10, <2>1 DEF UnbindOne
    <3>2. /\ ListenersInv'
          /\ \A m \in Nodes, u \in Types : Has(handlers', m, u) \subseteq Has(handlers, m, u)
          /\ Has(handlers', e.path[e.at], e.type) =
               {c \in Has(handlers, e.path[e.at], e.type) : ~Matches(c, {b.name}, b.delegated)}
      BY <1>1, <1>13, <1>14, <3>1, UnbindKeeps
    <3>3. Matches(b, {b.name}, b.delegated)
      BY DEF Matches
    <3>4. ASSUME NEW n \in Nodes, NEW t \in Types, NEW c \in Has(handlers', n, t) PROVE c.id # b.id
      <4>1. c \in Has(handlers, n, t)
        BY <3>2
      <4>2. c.id = b.id => c = b /\ n = e.path[e.at] /\ t = e.type
        BY <1>15, <4>1 DEF Only
      <4>. QED
        BY <3>2, <3>3, <4>2
    <3>5. Later(handlers, bindings, handlers', bindings')
      BY <1>1, <2>0, <3>2 DEF Later
    <3>. QED
      BY <1>1, <2>0, <3>2, <3>4, <3>5
  <2>2. CASE ~b.once
    BY <1>1, <1>10, <2>2, SameHandlers
  <2>. QED
    BY <2>1, <2>2
<1>17. EventFits(handlers', bindings', e)
  BY <1>3, <1>12, <1>16, EventStays
<1>18. /\ f \in EventType /\ EventFits(handlers', bindings', f) /\ f.acting = e.acting /\ f.at = e.at /\ f.path = e.path
       /\ <<b.id, group.at>> \notin e.called
  <2>1. Unlisted(handlers', b)
    BY <1>16 DEF Unlisted
  <2>. QED
    BY <1>3, <1>4, <1>5, <1>6, <1>7, <1>9, <1>17, <2>1, EventCalls
<1>19. ~twice'
  BY <1>1, <1>10, <1>18 DEF CalledInv
<1>20. CalledInv'
  BY <1>1, <1>10, <1>11, <1>12, <1>16, <1>18, <1>19, TopChanges
<1>. QED
  BY <1>16, <1>20 DEF EventsInv

(* A step that changes the innermost event only. *)
LEMMA OnlyTheTop ==
  ASSUME EventsInv, events # <<>>, ~Quiet(events[1]), UNCHANGED <<boundVars, bindings, twice>>,
         NEW f, Becomes(f),
         EventFits(handlers, bindings, events[1]) =>
           /\ f \in EventType /\ EventFits(handlers, bindings, f)
           /\ f.acting = events[1].acting /\ f.at = events[1].at /\ f.path = events[1].path
  PROVE  EventsInv'
<1>1. /\ ListenersInv /\ CalledInv /\ events \in Seq(EventType) /\ ~twice'
  BY DEF EventsInv, CalledInv
<1>2. 1 \in 1 .. Len(events)
  BY <1>1, TopOfEvents
<1>3. Normal
  BY <1>1, BusyMeansNormal
<1>4. EventFits(handlers, bindings, events[1]) /\ events[1].at <= Len(events[1].path) /\ ~events[1].acting
  BY <1>1, <1>2, <1>3, NormalEvents DEF Normal
<1>5. ListenersInv' /\ Later(handlers, bindings, handlers', bindings') /\ bindings \in Nat /\ bindings' \in Nat
  BY <1>1, SameHandlers
<1>6. EventFits(handlers', bindings', f)
  BY <1>4, <1>5, EventStays
<1>7. CalledInv'
  BY <1>1, <1>3, <1>4, <1>5, <1>6, TopChanges
<1>. QED
  BY <1>5, <1>7 DEF EventsInv

LEMMA LeaveGroupKeeps == EventsInv /\ LeaveGroup => EventsInv'
<1>. SUFFICES ASSUME EventsInv, LeaveGroup PROVE EventsInv'
  OBVIOUS
<1>1. events # <<>> /\ events \in Seq(EventType) /\ UNCHANGED <<boundVars, bindings, twice>>
  BY DEF EventsInv, LeaveGroup, Proceeds, CalledInv
<1>2. PICK e : e = events[1]
  OBVIOUS
<1>3. Current = e /\ e \in EventType
  BY <1>1, <1>2, TopOfEvents
<1>4. e.groups # <<>>
  BY <1>3 DEF LeaveGroup
<1>5. PICK f : f = [e EXCEPT !.groups = IF e.stopped THEN <<>> ELSE Tail(@)]
  OBVIOUS
<1>6. Becomes(f)
  BY <1>3, <1>5 DEF LeaveGroup
<1>7. EventFits(handlers, bindings, e) =>
        f \in EventType /\ EventFits(handlers, bindings, f) /\ f.acting = e.acting /\ f.at = e.at /\ f.path = e.path
  BY <1>3, <1>4, <1>5, EventLeaves
<1>8. ~Quiet(e)
  BY <1>4 DEF Quiet
<1>. QED
  BY <1>1, <1>2, <1>6, <1>7, <1>8, OnlyTheTop

LEMMA HandlerReturnsKeeps == EventsInv /\ HandlerReturns => EventsInv'
<1>. SUFFICES ASSUME EventsInv, HandlerReturns PROVE EventsInv'
  OBVIOUS
<1>1. events # <<>> /\ events \in Seq(EventType) /\ UNCHANGED <<boundVars, bindings, twice>> /\ bindings \in Nat
  BY DEF EventsInv, HandlerReturns, CalledInv, ListenersInv, HandlerTypes
<1>2. PICK e : e = events[1]
  OBVIOUS
<1>3. Current = e /\ e \in EventType
  BY <1>1, <1>2, TopOfEvents
<1>4. e.calling # NotCalling
  BY <1>1, <1>3 DEF HandlerReturns, Proceeds
<1>5. PICK false \in BOOLEAN :
        Becomes([e EXCEPT !.calling = NotCalling, !.prevented = @ \/ false, !.stopped = @ \/ false])
  BY <1>3 DEF HandlerReturns
<1>6. PICK f : f = [e EXCEPT !.calling = NotCalling, !.prevented = @ \/ false, !.stopped = @ \/ false]
  OBVIOUS
<1>7. /\ f \in EventType /\ f.groups = e.groups /\ f.path = e.path /\ f.at = e.at
      /\ f.type = e.type /\ f.called = e.called /\ f.calling = NotCalling /\ f.acting = e.acting
  BY <1>3, <1>6 DEF EventType
<1>8. EventFits(handlers, bindings, e) => EventFits(handlers, bindings, f)
  BY <1>1, <1>7, EventReturns
<1>9. ~Quiet(e)
  BY <1>4 DEF Quiet
<1>. QED
  BY <1>1, <1>2, <1>5, <1>6, <1>7, <1>8, <1>9, OnlyTheTop

LEMMA StopEventKeeps == EventsInv /\ StopEvent => EventsInv'
<1>. SUFFICES ASSUME EventsInv, StopEvent PROVE EventsInv'
  OBVIOUS
<1>1. events # <<>> /\ events \in Seq(EventType) /\ UNCHANGED <<boundVars, bindings, twice>>
  BY DEF EventsInv, StopEvent, CalledInv
<1>2. PICK e : e = events[1]
  OBVIOUS
<1>3. Current = e /\ e \in EventType
  BY <1>1, <1>2, TopOfEvents
<1>4. e.calling # NotCalling
  BY <1>1, <1>3 DEF StopEvent, Proceeds
<1>5. PICK f : /\ Becomes(f)
               /\ \/ f = [e EXCEPT !.stopped = TRUE]
                  \/ f = [e EXCEPT !.stopped = TRUE, !.immediate = TRUE]
                  \/ f = [e EXCEPT !.prevented = TRUE]
  BY <1>3 DEF StopEvent
<1>6. /\ f \in EventType /\ f.groups = e.groups /\ f.path = e.path /\ f.at = e.at
      /\ f.type = e.type /\ f.called = e.called /\ f.calling = e.calling /\ f.acting = e.acting
  BY <1>3, <1>5 DEF EventType
<1>7. EventFits(handlers, bindings, e) => EventFits(handlers, bindings, f)
  BY <1>6, EventLikeIt
<1>8. ~Quiet(e)
  BY <1>4 DEF Quiet
<1>. QED
  BY <1>1, <1>2, <1>5, <1>6, <1>7, <1>8, OnlyTheTop

LEMMA DefaultActionKeeps == EventsInv /\ DefaultAction => EventsInv'
<1>. SUFFICES ASSUME EventsInv, DefaultAction PROVE EventsInv'
  OBVIOUS
<1>1. /\ ListenersInv /\ CalledInv /\ events # <<>> /\ events \in Seq(EventType) /\ ~twice'
      /\ UNCHANGED <<boundVars, bindings>>
  BY DEF EventsInv, DefaultAction, Proceeds, CalledInv
<1>2. ListenersInv' /\ bindings \in Nat /\ handlers' = handlers /\ bindings' = bindings
  BY <1>1, SameHandlers DEF boundVars
<1>3. PICK e : e = events[1]
  OBVIOUS
<1>4. Current = e /\ e \in EventType /\ 1 \in 1 .. Len(events)
  BY <1>1, <1>3, TopOfEvents
<1>5. /\ e.groups = <<>> /\ e.calling = NotCalling /\ (e.stopped \/ e.at = Len(e.path))
      /\ ~e.native /\ ~e.acting /\ triggered' = e.type
  BY <1>4 DEF DefaultAction, Proceeds, Over, ActsByDefault, Guard
<1>6. Normal
  BY <1>1, <1>3, <1>5, BusyMeansNormal
<1>7. EventFits(handlers, bindings, e) /\ e.at <= Len(e.path)
  BY <1>1, <1>3, <1>4, <1>6, NormalEvents
<1>8. PICK again, acting : again = Event(e.type, TRUE, Path, e.called) /\ acting = [e EXCEPT !.acting = TRUE]
  OBVIOUS
<1>9. /\ acting \in EventType /\ acting.groups = <<>> /\ acting.path = e.path /\ acting.at = e.at /\ acting.acting
      /\ acting.type = e.type /\ acting.called = e.called /\ acting.calling = NotCalling /\ acting.stopped = e.stopped
  BY <1>4, <1>5, <1>8 DEF EventType
<1>10. EventFits(handlers, bindings, acting)
  BY <1>5, <1>7, <1>9, EventLikeIt
<1>11. /\ again \in EventType /\ again.groups = <<>> /\ again.calling = NotCalling /\ again.native /\ ~again.acting
       /\ again.type = e.type /\ again.at <= Len(again.path)
  <2>1. 0 \in Nat /\ 0 <= Len(Path)
    BY DEF Path
  <2>. QED
    BY <1>4, <1>8, <2>1 DEF Event, EventType
<1>12. PICK rest : rest = Tail(events)
  OBVIOUS
<1>13. rest \in Seq(EventType) /\ \A i \in 1 .. Len(rest) : i + 1 \in 1 .. Len(events) /\ rest[i] = events[i + 1]
  BY <1>1, <1>12, TopOfEvents
<1>14. PICK below, new : below = <<acting>> \o rest /\ new = <<again>> \o below
  OBVIOUS
<1>15. /\ below \in Seq(EventType) /\ below[1] = acting /\ Len(below) = Len(rest) + 1
       /\ \A i \in 1 .. Len(below) : i = 1 \/ (i - 1 \in 1 .. Len(rest) /\ below[i] = rest[i - 1])
  BY <1>9, <1>13, <1>14, OneMoreOnTop
<1>16. /\ new \in Seq(EventType) /\ new[1] = again /\ Len(new) = Len(below) + 1
       /\ \A i \in 1 .. Len(new) : i = 1 \/ (i - 1 \in 1 .. Len(below) /\ new[i] = below[i - 1])
  BY <1>11, <1>14, <1>15, OneMoreOnTop
<1>17. events' = new
  <2>1. events' = <<again, acting>> \o rest
    BY <1>4, <1>8, <1>12 DEF DefaultAction
  <2>3. <<again>> \in Seq(EventType) /\ <<acting>> \in Seq(EventType)
    BY <1>9, <1>11
  <2>2. <<again, acting>> = <<again>> \o <<acting>>
    <3>1. <<again, acting>> = Append(<<again>>, acting)
      BY <1>9, <1>11
    <3>. QED
      BY <1>9, <2>3, <3>1, AppendIsConcat
  <2>4. (<<again>> \o <<acting>>) \o rest = <<again>> \o (<<acting>> \o rest)
    BY <1>13, <2>3, ConcatAssociative
  <2>. QED
    BY <1>14, <2>1, <2>2, <2>4
<1>18. Len(new) >= 2 /\ new[2] = acting /\ \A i \in 1 .. Len(new) : i = 1 \/ i = 2 \/ (i > 2 /\ i - 2 \in 1 .. Len(rest) /\ new[i] = rest[i - 2])
  <2>1. Len(rest) \in Nat
    BY <1>13
  <2>2. 1 \in 1 .. Len(below) /\ 2 \in 1 .. Len(new) /\ Len(new) >= 2
    BY <1>15, <1>16, <2>1
  <2>3. new[2] = acting
    BY <1>15, <1>16, <2>2
  <2>4. ASSUME NEW i \in 1 .. Len(new), i # 1, i # 2 PROVE i > 2 /\ i - 2 \in 1 .. Len(rest) /\ new[i] = rest[i - 2]
    <3>1. i - 1 \in 1 .. Len(below) /\ new[i] = below[i - 1] /\ i - 1 # 1
      BY <1>15, <1>16, <2>1, <2>4
    <3>2. PICK j : j = i - 1
      OBVIOUS
    <3>3. j - 1 \in 1 .. Len(rest) /\ below[j] = rest[j - 1]
      BY <1>15, <3>1, <3>2
    <3>4. j - 1 = i - 2 /\ i > 2
      BY <2>1, <2>4, <3>2, <1>15, <1>16
    <3>. QED
      BY <3>1, <3>2, <3>3, <3>4
  <2>. QED
    BY <2>2, <2>3, <2>4
<1>19. Silent(1)' /\ ~Silent(2)' /\ \A i \in 1 .. Len(new) : i > 2 => ~Silent(i)'
  BY <1>9, <1>17, <1>18 DEF Silent
<1>20. Acts(2)'
  BY <1>5, <1>9, <1>17, <1>18 DEF Acts, Quiet
<1>21. ASSUME NEW i \in 1 .. Len(new) PROVE InPlace(i)'
  <2>1. CASE i = 1
    <3>1. events'[i] = again /\ Silent(i)'
      BY <1>16, <1>17, <1>19, <2>1
    <3>. QED
      BY <1>5, <1>11, <3>1 DEF InPlace, Quiet
  <2>2. CASE i = 2
    <3>1. events'[i] = acting /\ ~Silent(i)' /\ Acts(i)'
      BY <1>17, <1>18, <1>19, <1>20, <2>2
    <3>2. EventFits(handlers', bindings', acting)
      BY <1>2, <1>10
    <3>. QED
      BY <1>7, <1>9, <3>1, <3>2 DEF InPlace
  <2>3. CASE i > 2 /\ i - 2 \in 1 .. Len(rest) /\ new[i] = rest[i - 2]
    <3>1. PICK j \in 1 .. Len(events) : new[i] = events[j]
      BY <1>13, <2>3
    <3>2. ~new[i].acting
      BY <1>6, <3>1 DEF Normal
    <3>3. EventFits(handlers, bindings, new[i]) /\ new[i].at <= Len(new[i].path)
      BY <1>1, <1>6, <3>1, NormalEvents
    <3>4. events'[i] = new[i] /\ ~Silent(i)' /\ EventFits(handlers', bindings', new[i])
      BY <1>2, <1>17, <1>19, <2>3, <3>3
    <3>. QED
      BY <3>2, <3>3, <3>4 DEF InPlace
  <2>. QED
    BY <1>18, <2>1, <2>2, <2>3
<1>22. CalledInv'
  <2>1. events' \in Seq(EventType) /\ ~twice'
    BY <1>1, <1>16, <1>17
  <2>2. \A i \in 1 .. Len(events') : InPlace(i)'
    BY <1>17, <1>21
  <2>. QED
    BY <2>1, <2>2 DEF CalledInv
<1>. QED
  BY <1>2, <1>22 DEF EventsInv

LEMMA EventEndsKeeps == EventsInv /\ EventEnds => EventsInv'
<1>. SUFFICES ASSUME EventsInv, EventEnds PROVE EventsInv'
  OBVIOUS
<1>1. /\ ListenersInv /\ CalledInv /\ events # <<>> /\ events \in Seq(EventType) /\ ~twice'
      /\ UNCHANGED <<boundVars, bindings>>
  BY DEF EventsInv, EventEnds, Proceeds, CalledInv
<1>2. ListenersInv' /\ bindings \in Nat /\ handlers' = handlers /\ bindings' = bindings
  BY <1>1, SameHandlers DEF boundVars
<1>3. PICK e, rest : e = events[1] /\ rest = Tail(events)
  OBVIOUS
<1>4. /\ Current = e /\ e \in EventType /\ 1 \in 1 .. Len(events) /\ rest \in Seq(EventType)
      /\ \A i \in 1 .. Len(rest) : i + 1 \in 1 .. Len(events) /\ rest[i] = events[i + 1]
      /\ Len(rest) = Len(events) - 1 /\ Len(events) \in Nat
  BY <1>1, <1>3, TopOfEvents
<1>5. events' = rest /\ triggered' = IF e.acting THEN "none" ELSE triggered
  BY <1>3, <1>4 DEF EventEnds
<1>6. ASSUME NEW i \in 1 .. Len(rest), rest[i].acting PROVE i = 1 /\ Silent(1) /\ ~e.acting
  <2>1. PICK j : j = i + 1
    OBVIOUS
  <2>2. j \in 1 .. Len(events) /\ events[j].acting
    BY <1>4, <1>6, <2>1
  <2>3. j <= 2
    BY <1>1, <2>2 DEF CalledInv, InPlace, Acts
  <2>4. i = 1 /\ j = 2 /\ Len(events) >= 2
    BY <1>4, <2>1, <2>2, <2>3
  <2>5. Silent(1)
    BY <2>2, <2>4 DEF Silent
  <2>6. ~e.acting
    BY <1>1, <1>3, <1>4, <2>5 DEF CalledInv, InPlace
  <2>. QED
    BY <2>4, <2>5, <2>6
<1>7. ASSUME NEW i \in 1 .. Len(rest) PROVE InPlace(i)'
  <2>1. PICK j : j = i + 1
    OBVIOUS
  <2>2. j \in 1 .. Len(events) /\ rest[i] = events[j] /\ j # 1 /\ events'[i] = rest[i]
    BY <1>4, <1>5, <2>1
  <2>3. EventFits(handlers, bindings, events[j]) /\ events[j].at <= Len(events[j].path) /\ (events[j].acting => Acts(j))
    <3>1. ~Silent(j)
      BY <2>2 DEF Silent
    <3>. QED
      BY <1>1, <2>2, <3>1 DEF CalledInv, InPlace
  <2>4. ~Silent(i)'
    <3>1. ASSUME Len(rest) >= 2, rest[2].acting PROVE FALSE
      <4>1. 2 \in 1 .. Len(rest)
        BY <1>4, <3>1
      <4>. QED
        BY <1>6, <3>1, <4>1
    <3>. QED
      BY <1>5, <3>1 DEF Silent
  <2>5. rest[i].acting => Acts(i)'
    <3>. SUFFICES ASSUME rest[i].acting PROVE Acts(i)'
      OBVIOUS
    <3>1. i = 1 /\ triggered' = triggered
      BY <1>5, <1>6
    <3>2. Acts(j)
      BY <2>2, <2>3
    <3>. QED
      BY <2>2, <3>1, <3>2 DEF Acts, Quiet
  <2>. QED
    BY <1>2, <2>2, <2>3, <2>4, <2>5 DEF InPlace
<1>8. CalledInv'
  <2>1. \A i \in 1 .. Len(events') : InPlace(i)'
    BY <1>5, <1>7
  <2>. QED
    BY <1>1, <1>4, <1>5, <2>1 DEF CalledInv
<1>. QED
  BY <1>2, <1>8 DEF EventsInv

(* The page is only called in no event, or in a handler. *)
LEMMA PageIsBusy ==
  ASSUME EventsInv, events = <<>> \/ ~Proceeds
  PROVE  Normal /\ ListenersInv /\ CalledInv /\ bindings \in Nat /\ ~twice
<1>1. ListenersInv /\ CalledInv /\ bindings \in Nat /\ events \in Seq(EventType) /\ ~twice
  BY DEF EventsInv, ListenersInv, HandlerTypes, CalledInv
<1>2. CASE events = <<>>
  <2>1. Len(events) = 0 /\ \A i \in 1 .. 0 : FALSE
    BY <1>2
  <2>. QED
    BY <1>1, <2>1 DEF Normal
<1>3. CASE events # <<>>
  <2>1. Current = events[1] /\ Current.calling # NotCalling
    BY <1>1, <1>3, TopOfEvents DEF Proceeds
  <2>. QED
    BY <1>1, <1>3, <2>1, BusyMeansNormal DEF Quiet
<1>. QED
  BY <1>2, <1>3

LEMMA OnKeeps == EventsInv /\ On => EventsInv'
<1>. SUFFICES ASSUME EventsInv, On PROVE EventsInv'
  OBVIOUS
<1>1. Normal /\ ListenersInv /\ CalledInv /\ bindings \in Nat
  BY PageIsBusy DEF On, EventOp
<1>2. bindings' = bindings + 1 /\ UNCHANGED <<events, twice>>
  BY DEF On
<1>3. PICK n \in Nodes, t \in Types, name \in HandlerNames, once \in BOOLEAN, delegated \in BOOLEAN :
        Bind(n, t, [id |-> bindings + 1, name |-> name, once |-> once, delegated |-> delegated, of |-> n])
  BY DEF On
<1>4. PICK b : b = [id |-> bindings + 1, name |-> name, once |-> once, delegated |-> delegated, of |-> n]
  OBVIOUS
<1>5. b \in Binding /\ b.id = bindings + 1 /\ b.of = n
  <2>1. bindings + 1 \in Nat \ {0}
    BY <1>1
  <2>. QED
    BY <1>4, <2>1 DEF Binding
<1>6. Bind(n, t, b)
  BY <1>3, <1>4
<1>7. /\ ListenersInv'
      /\ \A m \in Nodes, u \in Types : \A c \in Has(handlers', m, u) : c \in Has(handlers, m, u) \/ c.id > bindings
  BY <1>1, <1>2, <1>5, <1>6, BindKeeps
<1>8. bindings' \in Nat /\ bindings <= bindings'
  BY <1>1, <1>2
<1>9. Later(handlers, bindings, handlers', bindings')
  BY <1>7, <1>8 DEF Later
<1>10. CalledInv'
  BY <1>1, <1>2, <1>8, <1>9, SameEvents
<1>. QED
  BY <1>7, <1>10 DEF EventsInv

LEMMA FewerHandlers ==
  ASSUME EventsInv, Normal, ListenersInv', UNCHANGED <<events, bindings, twice>>,
         \A m \in Nodes, u \in Types : Has(handlers', m, u) \subseteq Has(handlers, m, u)
  PROVE  EventsInv'
<1>1. CalledInv /\ bindings \in Nat /\ bindings' = bindings /\ bindings <= bindings
  BY DEF EventsInv, ListenersInv, HandlerTypes
<1>2. Later(handlers, bindings, handlers', bindings')
  BY <1>1 DEF Later
<1>3. CalledInv'
  BY <1>1, <1>2, SameEvents
<1>. QED
  BY <1>3 DEF EventsInv

LEMMA OffKeeps == EventsInv /\ Off => EventsInv'
<1>. SUFFICES ASSUME EventsInv, Off PROVE EventsInv'
  OBVIOUS
<1>1. Normal /\ ListenersInv /\ UNCHANGED <<events, bindings, twice>>
  BY PageIsBusy DEF Off, EventOp
<1>2. PICK n \in Nodes, t \in Types : \E names, selector : Unbind(n, t, names, selector)
  BY DEF Off
<1>3. PICK names, selector : Unbind(n, t, names, selector)
  BY <1>2
<1>4. /\ ListenersInv'
      /\ \A m \in Nodes, u \in Types : Has(handlers', m, u) \subseteq Has(handlers, m, u)
  BY <1>1, <1>3, UnbindKeeps
<1>. QED
  BY <1>1, <1>4, FewerHandlers

LEMMA RemoveInnerKeeps == EventsInv /\ RemoveInner => EventsInv'
<1>. SUFFICES ASSUME EventsInv, RemoveInner PROVE EventsInv'
  OBVIOUS
<1>1. Normal /\ ListenersInv /\ UNCHANGED <<events, bindings, twice>>
  BY PageIsBusy DEF RemoveInner, EventOp
<1>. QED
  BY <1>1, RemovalKeeps, FewerHandlers

(* A new event calls nobody yet. *)
LEMMA NewEvent ==
  ASSUME NEW h, NEW k \in Nat, NEW t \in Types, NEW native \in BOOLEAN, NEW path \in {Path, <<"inner">>},
         NEW e, e = Event(t, native, path, {})
  PROVE  e \in EventType /\ ~e.acting /\ e.at <= Len(e.path) /\ EventFits(h, k, e)
<1>1. /\ e \in EventType /\ ~e.acting /\ e.at = 0 /\ e.path = path /\ e.groups = <<>> /\ e.called = {}
      /\ e.calling = NotCalling
  BY DEF Event, EventType
<1>2. e.at <= Len(e.path)
  BY <1>1 DEF Path
<1>3. e.calling.id <= k /\ Unlisted(h, e.calling)
  BY <1>1 DEF NotCalling, Unlisted
<1>4. GroupsFit(h, k, e)
  <2>1. Len(e.groups) = 0 /\ \A i \in 1 .. 0 : FALSE
    BY <1>1
  <2>. QED
    BY <1>1, <2>1 DEF GroupsFit
<1>. QED
  BY <1>1, <1>2, <1>3, <1>4 DEF EventFits

LEMMA EventBegins ==
  ASSUME EventsInv, EventOp, UNCHANGED <<boundVars, bindings, twice>>, NEW t \in Types, NEW native,
         native \in BOOLEAN, NEW path \in {Path, <<"inner">>}, events' = <<Event(t, native, path, {})>> \o events
  PROVE  EventsInv'
<1>1. Normal /\ ListenersInv /\ CalledInv /\ bindings \in Nat /\ ~twice' /\ events \in Seq(EventType)
  BY PageIsBusy DEF CalledInv, EventOp
<1>2. ListenersInv' /\ Later(handlers, bindings, handlers', bindings') /\ bindings' \in Nat
  BY <1>1, SameHandlers
<1>3. PICK e, new : e = Event(t, native, path, {}) /\ new = <<e>> \o events
  OBVIOUS
<1>4. e \in EventType /\ ~e.acting /\ e.at <= Len(e.path) /\ EventFits(handlers', bindings', e)
  BY <1>2, <1>3, NewEvent
<1>5. /\ new \in Seq(EventType) /\ new[1] = e
      /\ \A i \in 1 .. Len(new) : i = 1 \/ (i - 1 \in 1 .. Len(events) /\ new[i] = events[i - 1])
  BY <1>1, <1>3, <1>4, OneMoreOnTop
<1>6. ASSUME NEW i \in 1 .. Len(new)
      PROVE  ~new[i].acting /\ new[i].at <= Len(new[i].path) /\ EventFits(handlers', bindings', new[i])
  <2>1. CASE i = 1
    BY <1>4, <1>5, <2>1
  <2>2. CASE i # 1
    <3>1. PICK j \in 1 .. Len(events) : new[i] = events[j]
      BY <1>5, <2>2
    <3>. QED
      BY <1>1, <1>2, <3>1, EventsStay
  <2>. QED
    BY <2>1, <2>2
<1>7. events' = new
  BY <1>3
<1>8. CalledInv'
  BY <1>1, <1>5, <1>6, <1>7, NormalNext
<1>. QED
  BY <1>2, <1>8 DEF EventsInv

LEMMA TriggerKeeps == EventsInv /\ Trigger => EventsInv'
<1>. SUFFICES ASSUME EventsInv, Trigger PROVE EventsInv'
  OBVIOUS
<1>1. EventOp /\ UNCHANGED <<boundVars, bindings, twice>>
  BY DEF Trigger
<1>2. PICK t \in Types, path \in {Path, <<"inner">>} : events' = <<Event(t, FALSE, path, {})>> \o events
  BY DEF Trigger
<1>. QED
  BY <1>1, <1>2, EventBegins

LEMMA UserKeeps == EventsInv /\ (UserClicks \/ UserFocuses) => EventsInv'
<1>. SUFFICES ASSUME EventsInv, UserClicks \/ UserFocuses PROVE EventsInv'
  OBVIOUS
<1>1. EventOp /\ UNCHANGED <<boundVars, bindings, twice>> /\ events = <<>>
  BY DEF UserClicks, UserFocuses
<1>2. PICK t \in Types, native \in BOOLEAN : events' = <<Event(t, native, Path, {})>>
  <2>1. CASE UserClicks
    <3>1. events' = <<Event("click", TRUE, Path, {})>> /\ "click" \in Types
      BY <2>1 DEF UserClicks, Types
    <3>. QED
      BY <3>1
  <2>2. CASE UserFocuses
    <3>1. events' = <<Event("focusin", FALSE, Path, {})>> /\ "focusin" \in Types
      BY <2>2 DEF UserFocuses, Types
    <3>. QED
      BY <3>1
  <2>. QED
    BY <2>1, <2>2
<1>3. PICK e : e = Event(t, native, Path, {})
  OBVIOUS
<1>4. <<e>> = <<e>> \o <<>>
  <2>1. <<e>> \in Seq({e})
    OBVIOUS
  <2>. QED
    BY <2>1, ConcatEmptySeq
<1>5. events' = <<Event(t, native, Path, {})>> \o events
  BY <1>1, <1>2, <1>3, <1>4
<1>. QED
  BY <1>1, <1>5, EventBegins

(***************************************************************************)
(* However handlers come and go while events are dispatched, they are told  *)
(* apart by the count of the delegated ones, no two of them are the same,   *)
(* and those an event is going to call are where they were bound, if        *)
(* anywhere, and were not called for it yet.  This is inductive.           *)
(***************************************************************************)
THEOREM EventsInvariance == EventsSpec => []EventsInv
<1>1. EventsInit => EventsInv
  BY EventsBegin
<1>2. EventsInv /\ [EventsNext]_eventVars => EventsInv'
  <2>. SUFFICES ASSUME EventsInv, [EventsNext]_eventVars PROVE EventsInv'
    OBVIOUS
  <2>1. CASE ReachNode
    BY <2>1, ReachNodeKeeps
  <2>2. CASE CallHandler
    BY <2>2, CallHandlerKeeps
  <2>3. CASE LeaveGroup
    BY <2>3, LeaveGroupKeeps
  <2>4. CASE HandlerReturns
    BY <2>4, HandlerReturnsKeeps
  <2>5. CASE DefaultAction
    BY <2>5, DefaultActionKeeps
  <2>6. CASE EventEnds
    BY <2>6, EventEndsKeeps
  <2>7. CASE On
    BY <2>7, OnKeeps
  <2>8. CASE Off
    BY <2>8, OffKeeps
  <2>9. CASE Trigger
    BY <2>9, TriggerKeeps
  <2>10. CASE StopEvent
    BY <2>10, StopEventKeeps
  <2>11. CASE RemoveInner
    BY <2>11, RemoveInnerKeeps
  <2>12. CASE UserClicks \/ UserFocuses
    BY <2>12, UserKeeps
  <2>13. CASE UNCHANGED eventVars
    <3>1. /\ UNCHANGED <<boundVars, bindings>> /\ events' = events /\ twice' = twice /\ triggered' = triggered
          /\ handlers' = handlers /\ bindings' = bindings
      BY <2>13 DEF eventVars, boundVars
    <3>2. ListenersInv'
      BY <3>1, SameHandlers DEF EventsInv
    <3>3. \A i \in 1 .. Len(events) : InPlace(i) => InPlace(i)'
      BY <3>1 DEF InPlace, Silent, Acts, Quiet
    <3>4. CalledInv'
      BY <3>1, <3>3 DEF EventsInv, CalledInv
    <3>. QED
      BY <3>2, <3>4 DEF EventsInv
  <2>. QED
    BY <2>1, <2>2, <2>3, <2>4, <2>5, <2>6, <2>7, <2>8, <2>9, <2>10, <2>11, <2>12, <2>13 DEF EventsNext
<1>. QED
  BY <1>1, <1>2, PTL DEF EventsSpec

(* The browser listens exactly where there are handlers. *)
THEOREM ListenersAreExact == EventsSpec => []ListenersFollowHandlers
<1>1. EventsInv => ListenersFollowHandlers
  BY DEF EventsInv, ListenersInv
<1>. QED
  BY <1>1, EventsInvariance, PTL

(* A handler is called once for each event and element; one that was bound *)
(* for one call is gone while it runs.                                     *)
THEOREM HandlersAreCalledOnce == EventsSpec => []CalledOncePerEvent
<1>1. EventsInv => CalledOncePerEvent
  <2>. SUFFICES ASSUME EventsInv, NEW i \in DOMAIN events, NEW b, b = events[i].calling, b.once, NEW t \in Types,
                       Contains(handlers[b.of][t], b)
                PROVE  FALSE
    BY DEF CalledOncePerEvent, EventsInv, CalledInv
  <2>1. i \in 1 .. Len(events) /\ events[i] \in EventType
    BY DEF EventsInv, CalledInv
  <2>2. b \in Binding
    BY <2>1 DEF EventType, NotCalling
  <2>3. ~Silent(i)
    BY <2>1 DEF EventsInv, CalledInv, InPlace, Quiet, NotCalling
  <2>4. Unlisted(handlers, b)
    BY <2>1, <2>3 DEF EventsInv, CalledInv, InPlace, EventFits
  <2>5. b.of \in Nodes
    BY <2>2 DEF Binding
  <2>6. b \in Has(handlers, b.of, t)
    BY <2>5 DEF Contains, Has, Listed
  <2>. QED
    BY <2>4, <2>5, <2>6 DEF Unlisted
<1>. QED
  BY <1>1, EventsInvariance, PTL

=============================================================================
