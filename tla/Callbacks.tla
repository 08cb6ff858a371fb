----------------------------- MODULE Callbacks -----------------------------
(***************************************************************************)
(* jQuery.Callbacks (js/jquery-1.10.1.js): callback lists whose callbacks   *)
(* add, remove, fire, empty, disable and lock while they are being called.  *)
(* A callback has a name, and the steps it takes if it is one of jQuery's  *)
(* own; what the callbacks of a page do is up to the page.                 *)
(*                                                                         *)
(* JavaScript runs one script at a time.  The calls of fire that have not   *)
(* returned are a stack of frames, the innermost first; the callback of     *)
(* the innermost frame is running, and if there is none, the script of the  *)
(* page is.  A list keeps the index arithmetic of the code (counted from    *)
(* zero); of the arguments of a call, only whether there are any matters.   *)
(***************************************************************************)
EXTENDS Integers, Sequences, FiniteSets

VARIABLES
  lists,   \* the callback lists
  frames,  \* the calls of fire that have not returned
  ops,     \* how many operations the page has called
  threw    \* a callback threw an exception

callbackVars == <<lists, frames, ops, threw>>

CONSTANTS
  PageCallbacks,  \* the names of the callbacks of the page
  MaxOps          \* bound: the operations the page calls

(* The name that stands for no callback in what a list promises. *)
CallbacksAssumption == "nobody" \notin PageCallbacks
ASSUME CallbacksAssumption

Callback(name, steps) == [name |-> name, steps |-> steps]
UserCallbacks == {Callback(name, <<>>) : name \in PageCallbacks}

Options == [once : BOOLEAN, memory : BOOLEAN, unique : BOOLEAN, stopOnFalse : BOOLEAN]

NewList(options) ==
  [options |-> options, list |-> <<>>, alive |-> TRUE, waiting |-> 0, repeat |-> ~options.once,
   memory |-> FALSE, fired |-> FALSE, firing |-> FALSE, index |-> 0, length |-> 0, start |-> 0,
   cleared |-> FALSE,  \* history: it was emptied during this firing
   due |-> 0,          \* history: the calls of fire that had to wait and have not been carried out
   dropped |-> 0]      \* history: the calls that waited when the list was locked or disabled

(* Without the stack (stack = undefined) the calls on it are dropped. *)
StackDropped(c) == [c EXCEPT !.repeat = FALSE, !.dropped = @ + c.waiting, !.waiting = 0]

Disabled(c) == [StackDropped(c) EXCEPT !.list = <<>>, !.alive = FALSE, !.memory = FALSE]

Locked(c) ==
  LET unqueued == StackDropped(c)
  IN  IF c.memory THEN unqueued ELSE Disabled(unqueued)

Emptied(c) == [c EXCEPT !.list = <<>>, !.alive = TRUE, !.length = 0, !.cleared = c.firing]

Started(c) ==
  [c EXCEPT !.memory = c.options.memory, !.fired = TRUE, !.index = c.start, !.start = 0,
            !.length = Len(c.list), !.firing = TRUE, !.cleared = FALSE]

Has(c, f) == \E i \in DOMAIN c.list : c.list[i] = f

Appended(c, f) == IF c.options.unique /\ Has(c, f) THEN c ELSE [c EXCEPT !.list = Append(@, f)]

Without(s, f) ==
  LET kept[n \in 0 .. Len(s)] ==
        IF n = 0 THEN <<>> ELSE IF s[n] = f THEN kept[n - 1] ELSE Append(kept[n - 1], s[n])
  IN  kept[Len(s)]

(* How often f is among the first n callbacks. *)
Before(c, f, n) == Cardinality({i \in 1 .. Len(c.list) : i <= n /\ c.list[i] = f})

(* A mutant of remove that leaves the index of the firing alone. *)
RemovedUnadjusted(c, f) ==
  [c EXCEPT !.list = Without(@, f),
            !.length = IF c.firing THEN @ - Before(c, f, @) ELSE @]

(* remove: each removal at or before the index moves the firing back. *)
Removed(c, f) ==
  [c EXCEPT !.list = Without(@, f),
            !.length = IF c.firing THEN @ - Before(c, f, @ + 1) ELSE @,
            !.index = IF c.firing THEN @ - Before(c, f, @ + 1) ELSE @]

-----------------------------------------------------------------------------
(* The end of fire: it hands over to a call that had to wait, or clears    *)
(* the list, or disables it.  The first definition is a mutant that drops  *)
(* the calls that wait.                                                    *)
FinishedOnce(c) ==
  LET idle == [c EXCEPT !.firing = FALSE, !.cleared = FALSE]
  IN  IF ~c.alive \/ c.repeat THEN idle
      ELSE IF c.memory THEN [idle EXCEPT !.list = <<>>] ELSE Disabled(idle)

Finished(c) ==
  LET idle == [c EXCEPT !.firing = FALSE, !.cleared = FALSE]
  IN  IF ~c.alive THEN idle
      ELSE IF c.repeat
           THEN IF c.waiting > 0 THEN Started([idle EXCEPT !.waiting = @ - 1, !.due = @ - 1]) ELSE idle
      ELSE IF c.memory THEN [idle EXCEPT !.list = <<>>] ELSE Disabled(idle)

(* The loop of fire, up to the next callback or the end of the firing; a   *)
(* firing of an empty list hands over at once.                             *)
Pauses(c) == ~c.firing \/ (c.alive /\ c.index < c.length)

Continued(c) ==
  LET after[n \in 0 .. c.waiting + 1] ==
        IF n = 0 THEN c ELSE IF Pauses(after[n - 1]) THEN after[n - 1] ELSE Finished(after[n - 1])
  IN  after[c.waiting + 1]

(* List l takes the value c, with the frames outer around a firing of it. *)
Settle(l, c, outer) ==
  /\ lists' = [lists EXCEPT ![l] = c]
  /\ frames' = IF c.firing
               THEN <<[on |-> l, calls |-> c.list[c.index + 1], steps |-> c.list[c.index + 1].steps]>> \o outer
               ELSE outer

Keep(l, c, outer) == lists' = [lists EXCEPT ![l] = c] /\ frames' = outer

(* The operations of list l, called with the stack outer. *)
Add(l, f, outer) ==
  LET c == lists[l]
      grown == Appended(c, f)
  IN  IF ~c.alive THEN Keep(l, c, outer)
      ELSE IF c.firing THEN Keep(l, [grown EXCEPT !.length = Len(grown.list)], outer)
      ELSE IF c.memory THEN Settle(l, Continued(Started([grown EXCEPT !.start = Len(c.list)])), outer)
      ELSE Keep(l, grown, outer)

FireWith(l, outer) ==
  LET c == lists[l]
  IN  IF ~c.alive \/ (c.fired /\ ~c.repeat) THEN Keep(l, c, outer)
      ELSE IF c.firing THEN Keep(l, [c EXCEPT !.waiting = @ + 1, !.due = @ + 1], outer)
      ELSE Settle(l, Continued(Started(c)), outer)

RemoveFrom(l, f, outer) == Keep(l, IF lists[l].alive THEN Removed(lists[l], f) ELSE lists[l], outer)
Empty(l, outer) == Keep(l, Emptied(lists[l]), outer)
Disable(l, outer) == Keep(l, Disabled(lists[l]), outer)
Lock(l, outer) == Keep(l, Locked(lists[l]), outer)

-----------------------------------------------------------------------------
Top == Head(frames)
TopList == lists[Top.on]

(* The code of the page runs: its script, or one of its callbacks. *)
PageRuns == IF frames = <<>> THEN TRUE ELSE Top.calls.name \in PageCallbacks

(* The running callback returns, and the loop of fire goes on. *)
Return ==
  /\ frames # <<>>
  /\ Top.steps = <<>>
  /\ Settle(Top.on, Continued([TopList EXCEPT !.index = @ + 1]), Tail(frames))
  /\ UNCHANGED <<ops, threw>>

(* It returns false. *)
ReturnFalse ==
  /\ frames # <<>>
  /\ TopList.options.stopOnFalse
  /\ Settle(Top.on, Continued(Finished([TopList EXCEPT !.memory = FALSE])), Tail(frames))
  /\ UNCHANGED <<ops, threw>>

(* It throws: nothing catches the exception, and no loop of fire goes on. *)
Throw ==
  /\ frames # <<>> /\ PageRuns
  /\ frames' = <<>>
  /\ threw' = TRUE
  /\ UNCHANGED <<lists, ops>>

(* The page calls an operation of a list. *)
Call(operation) ==
  /\ PageRuns
  /\ ops < MaxOps
  /\ ops' = ops + 1
  /\ UNCHANGED threw
  /\ operation

TheId == <<"the", "list">>

CallbacksInit ==
  /\ \E options \in Options : lists = [l \in {TheId} |-> NewList(options)]
  /\ frames = <<>>
  /\ ops = 0
  /\ threw = FALSE

CallbacksNext ==
  \/ Return \/ ReturnFalse \/ Throw
  \/ \E l \in DOMAIN lists :
       \/ \E f \in UserCallbacks : Call(Add(l, f, frames)) \/ Call(RemoveFrom(l, f, frames))
       \/ Call(FireWith(l, frames))
       \/ Call(Empty(l, frames)) \/ Call(Disable(l, frames)) \/ Call(Lock(l, frames))

CallbacksSpec == CallbacksInit /\ [][CallbacksNext]_callbackVars

-----------------------------------------------------------------------------
(* Whatever the callbacks do to their own list, a firing calls each        *)
(* callback of the list once, in order, also after a removal that shifts   *)
(* the list under the loop (jquery-1.10.1.js:3073-3078,3126-3145).         *)
Observed == TheId \in DOMAIN lists
NoList == NewList(CHOOSE options \in Options : TRUE)
TheList == IF Observed THEN lists[TheId] ELSE NoList
Fires == Observed /\ frames # <<>>
Inner == INSTANCE CallbackList WITH
  Callbacks <- UserCallbacks,
  Nobody <- Callback("nobody", <<>>),
  members <- TheList.list,
  owed <- IF Fires /\ TheList.alive THEN SubSeq(TheList.list, TheList.index + 2, TheList.length) ELSE <<>>,
  current <- IF Fires THEN Top.calls ELSE Callback("nobody", <<>>),
  cleared <- Fires /\ TheList.cleared
CallsEachInTurn == Inner!ListSpec

(* A call of fire that had to wait for another is carried out before the   *)
(* script goes on, unless lock or disable dropped it; and no list is left   *)
(* firing.  A callback that throws leaves the list firing for ever, and     *)
(* what waits waiting (jquery-1.10.1.js:3072-3084,3158-3173,3184).         *)
FiresAreCarriedOut ==
  frames = <<>> /\ ~threw =>
    \A l \in DOMAIN lists : ~lists[l].firing /\ lists[l].due = lists[l].dropped

=============================================================================
