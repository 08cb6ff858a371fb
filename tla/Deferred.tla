------------------------------ MODULE Deferred ------------------------------
(***************************************************************************)
(* jQuery.Deferred, its then, and jQuery.when (js/jquery-1.10.1.js): three  *)
(* callback lists for each deferred, tied together by callbacks of jQuery's *)
(* own.  The page has two deferreds, "first" and "second"; "result" is what *)
(* first.then(...) or jQuery.when(...) returns.  jQuery.when with a single  *)
(* promise returns that promise and adds no state: it is left out.         *)
(***************************************************************************)
EXTENDS Callbacks

(* jQuery's own callbacks are functions no page has. *)
DeferredAssumption ==
  PageCallbacks \cap {"none", "setState", "disable", "lock", "settle", "forward", "update", "then", "when"} = {}
ASSUME DeferredAssumption

VARIABLES
  settled,    \* the state of each deferred
  link,       \* how result came about: "none", "then" or "when"
  subjects,   \* history: the deferreds it hangs on
  remaining,  \* jQuery.when: the count of uncompleted subordinates
  adopted,    \* a callback of then returned the promise of second
  added,      \* how many callbacks the page has added to each list
  called      \* how many of them have been called

promiseVars == <<settled, link, subjects, remaining, adopted, added, called>>
deferredVars == <<callbackVars, promiseVars>>

Deferreds == {"first", "second", "result"}
Kinds == <<"done", "fail", "progress">>
ListIds == Deferreds \X {"done", "fail", "progress"}
FinalState == [done |-> "resolved", fail |-> "rejected"]
Other == [done |-> "fail", fail |-> "done"]

Once == [once |-> TRUE, memory |-> TRUE, unique |-> FALSE, stopOnFalse |-> FALSE]
Repeated == [Once EXCEPT !.once = FALSE]

-----------------------------------------------------------------------------
(* The steps of jQuery's own callbacks. *)
Step(op, l) == [op |-> op, on |-> l, callback |-> Callback("none", <<>>)]
AddStep(l, f) == [op |-> "add", on |-> l, callback |-> f]

SetState(l) == Callback("setState", <<Step("state", l)>>)
DisableOther(l) == Callback("disable", <<Step("disable", <<l[1], Other[l[2]]>>)>>)
LockProgress(l) == Callback("lock", <<Step("lock", <<l[1], "progress">>)>>)

(* newDefer.resolve, newDefer.reject, newDefer.notify *)
Settles(l) == Callback("settle", <<Step("fire", l)>>)

(* What then adds to the list of one kind: call fn, then forward. *)
Forward(kind) == Callback("forward", <<Step("apply", <<"result", kind>>), Step("fire", <<"result", kind>>)>>)

(* A mutant of then that does not pass failures on. *)
ThenStepsDoneOnly == [i \in 1 .. 2 |-> AddStep(<<"first", Kinds[2 * i - 1]>>, Forward(Kinds[2 * i - 1]))]

ThenSteps == [i \in 1 .. 3 |-> AddStep(<<"first", Kinds[i]>>, Forward(Kinds[i]))]

(* The update functions of when, for the values and for the progress. *)
Update == Callback("update", <<Step("count", <<"result", "done">>)>>)
Listen(d) ==
  <<AddStep(<<d, "done">>, Update), AddStep(<<d, "fail">>, Settles(<<"result", "fail">>)),
    AddStep(<<d, "progress">>, Settles(<<"result", "progress">>))>>

Discount == <<Step("discount", <<"result", "done">>)>>
IfNothingRemains == <<Step("ifNone", <<"result", "done">>)>>

(* The arguments of when: both deferreds, or one and a plain value. *)
WhenSteps(arguments) ==
  LET steps(d) == IF d \in Deferreds THEN Listen(d) ELSE Discount
  IN  steps(arguments[1]) \o steps(arguments[2]) \o IfNothingRemains

-----------------------------------------------------------------------------
(* jQuery.Deferred(): the state is set before any callback of the page     *)
(* runs, the opposite list is disabled and the progress list locked.  A    *)
(* mutant forgets the opposite list.                                       *)
TiedWithoutDisable(l) == <<SetState(l), LockProgress(l)>>
Tied(l) == <<SetState(l), DisableOther(l), LockProgress(l)>>

DeferredList(l) ==
  IF l[2] = "progress" THEN NewList(Repeated) ELSE [NewList(Once) EXCEPT !.list = Tied(l)]

NothingSettled ==
  /\ settled = [d \in Deferreds |-> "pending"]
  /\ link = "none"
  /\ subjects = {}
  /\ remaining = 0
  /\ adopted = FALSE
  /\ added = [l \in ListIds |-> 0]
  /\ called = [l \in ListIds |-> 0]

DeferredInit ==
  /\ lists = [l \in ListIds |-> DeferredList(l)]
  /\ frames = <<>>
  /\ ops = 0
  /\ threw = FALSE
  /\ NothingSettled

(* The frames once the next step of the innermost callback is taken. *)
Rest == <<[Top EXCEPT !.steps = Tail(@)]>> \o Tail(frames)
NextStep == Head(Top.steps)
Takes(op) == frames # <<>> /\ Top.steps # <<>> /\ NextStep.op = op

AddTaken == Takes("add") /\ Add(NextStep.on, NextStep.callback, Rest) /\ UNCHANGED <<settled, remaining, adopted>>
FireTaken == Takes("fire") /\ FireWith(NextStep.on, Rest) /\ UNCHANGED <<settled, remaining, adopted>>
DisableTaken == Takes("disable") /\ Disable(NextStep.on, Rest) /\ UNCHANGED <<settled, remaining, adopted>>
LockTaken == Takes("lock") /\ Lock(NextStep.on, Rest) /\ UNCHANGED <<settled, remaining, adopted>>

StateTaken ==
  /\ Takes("state")
  /\ settled' = [settled EXCEPT ![NextStep.on[1]] = FinalState[NextStep.on[2]]]
  /\ frames' = Rest
  /\ UNCHANGED <<lists, remaining, adopted>>

(* The callback of then returns a value, or the promise of second, to      *)
(* which the result then listens in place of the forwarding.               *)
ApplyTaken ==
  /\ Takes("apply")
  /\ \/ frames' = Rest /\ UNCHANGED adopted
     \/ /\ adopted' = TRUE
        /\ frames' = <<[Top EXCEPT !.steps = [i \in 1 .. 3 |->
                          AddStep(<<"second", Kinds[i]>>, Settles(<<"result", Kinds[i]>>))]]>> \o Tail(frames)
  /\ UNCHANGED <<lists, settled, remaining>>

(* It throws. *)
ApplyThrows ==
  /\ Takes("apply")
  /\ frames' = <<>>
  /\ threw' = TRUE
  /\ UNCHANGED <<lists, ops, settled, link, subjects, remaining, adopted, added, called>>

(* A mutant of when that counts a plain argument like a pending one. *)
DiscountForgotten ==
  /\ Takes("discount")
  /\ frames' = Rest
  /\ UNCHANGED <<lists, settled, remaining, adopted>>

CountTaken ==
  /\ Takes("count")
  /\ remaining' = remaining - 1
  /\ IF remaining = 1 THEN FireWith(NextStep.on, Rest) ELSE frames' = Rest /\ UNCHANGED lists
  /\ UNCHANGED <<settled, adopted>>

DiscountTaken ==
  /\ Takes("discount")
  /\ remaining' = remaining - 1
  /\ frames' = Rest
  /\ UNCHANGED <<lists, settled, adopted>>

IfNoneTaken ==
  /\ Takes("ifNone")
  /\ IF remaining = 0 THEN FireWith(NextStep.on, Rest) ELSE frames' = Rest /\ UNCHANGED lists
  /\ UNCHANGED <<settled, remaining, adopted>>

StepTaken ==
  /\ \/ AddTaken \/ FireTaken \/ DisableTaken \/ LockTaken \/ StateTaken \/ ApplyTaken
     \/ CountTaken \/ DiscountTaken \/ IfNoneTaken
  /\ UNCHANGED <<ops, threw, link, subjects, added, called>>

(* then or when has taken its steps and returns. *)
LinkReturns ==
  /\ frames # <<>> /\ Top.on = <<"none", "none">> /\ Top.steps = <<>>
  /\ frames' = Tail(frames)
  /\ UNCHANGED <<lists, ops, threw, settled, link, subjects, remaining, adopted, added, called>>

CallbackReturns ==
  /\ frames # <<>> /\ Top.on # <<"none", "none">>
  /\ Return
  /\ called' = IF PageRuns THEN [called EXCEPT ![Top.on] = @ + 1] ELSE called
  /\ UNCHANGED <<settled, link, subjects, remaining, adopted, added>>

CallbackThrows == Throw /\ UNCHANGED <<settled, link, subjects, remaining, adopted, added, called>>

(* The page adds a callback, or settles or notifies one of its deferreds. *)
PageAdds(l) ==
  /\ \E name \in PageCallbacks : Call(Add(l, Callback(name, <<>>), frames))
  /\ l[1] = "result" => link # "none"
  /\ added' = [added EXCEPT ![l] = @ + 1]
  /\ UNCHANGED <<settled, link, subjects, remaining, adopted, called>>

PageFires(l) ==
  /\ l[1] # "result"
  /\ Call(FireWith(l, frames))
  /\ UNCHANGED <<settled, link, subjects, remaining, adopted, added, called>>

Links(kind, on, steps) ==
  /\ link = "none"
  /\ Call(frames' = <<[on |-> <<"none", "none">>, calls |-> Callback(kind, steps), steps |-> steps]>> \o frames)
  /\ link' = kind
  /\ subjects' = on
  /\ remaining' = IF kind = "when" THEN 2 ELSE 0
  /\ UNCHANGED <<lists, settled, adopted, added, called>>

PageCallsThen == Links("then", {"first"}, ThenSteps)
PageCallsWhen ==
  \E arguments \in {<<"first", "second">>, <<"first", "plain">>, <<"plain", "first">>} :
    Links("when", {arguments[1], arguments[2]} \ {"plain"}, WhenSteps(arguments))

DeferredNext ==
  \/ StepTaken \/ ApplyThrows \/ LinkReturns \/ CallbackReturns \/ CallbackThrows
  \/ \E l \in ListIds : PageAdds(l) \/ PageFires(l)
  \/ PageCallsThen \/ PageCallsWhen

DeferredSpec == DeferredInit /\ [][DeferredNext]_deferredVars

-----------------------------------------------------------------------------
Quiet == frames = <<>> /\ ~threw

(* Once a deferred is resolved or rejected, each callback of the page for  *)
(* that outcome has been called once, whenever it was added, and none for  *)
(* the opposite outcome ever is (jquery-1.10.1.js:3256-3279).              *)
CalledOnceForTheOutcome ==
  Quiet => \A d \in Deferreds, kind \in {"done", "fail"} :
             called[<<d, kind>>] = IF settled[d] = FinalState[kind] THEN added[<<d, kind>>] ELSE 0

(* What then returns has the outcome of the deferred it hangs on, or of    *)
(* the promise a callback returned instead; and it has one as soon as      *)
(* these have (jquery-1.10.1.js:3222-3243).                                *)
ThenFollows ==
  Quiet /\ link = "then" =>
    /\ ~adopted => settled["result"] = settled["first"]
    /\ settled["result"] = "pending" => "pending" \in {settled["first"], settled["second"]}
    /\ settled["result"] \in {"pending", settled["first"], settled["second"]}

(* What when returns is resolved when all its arguments are, rejected with *)
(* the first that is rejected, and pending otherwise                       *)
(* (jquery-1.10.1.js:3294-3343).                                           *)
WhenCollects ==
  Quiet /\ link = "when" =>
    /\ settled["result"] = "resolved" <=> \A d \in subjects : settled[d] = "resolved"
    /\ settled["result"] = "rejected" <=> \E d \in subjects : settled[d] = "rejected"

=============================================================================
