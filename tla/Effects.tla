------------------------------ MODULE Effects ------------------------------
(***************************************************************************)
(* The effects queue and the animations of one element                     *)
(* (js/jquery-1.10.1.js): queue, dequeue, delay, clearQueue and promise;    *)
(* animate, stop and finish; jQuery.timers and the interval that drives it. *)
(*                                                                         *)
(* Everything between two events of the browser is one script.  What it    *)
(* still has to do is a stack of steps, the next first; the code of the     *)
(* page runs when the stack is empty or its first step is a callback of the *)
(* page.  An animation is either over at once (duration 0) or takes any    *)
(* number of ticks.  Of its callbacks only complete is modelled, and no     *)
(* callback of a promise; an exception in complete ends the script.        *)
(***************************************************************************)
EXTENDS Integers, Sequences, SequencesExt, FiniteSets

CONSTANT MaxEffects  \* bound: the operations the page calls

VARIABLES
  queue,       \* the data fxqueue
  hooks,       \* the data fxqueueHooks: whether it is there, its stop and unqueued
  promise,     \* a promise of the page: "none", "pending" (one of hooks.empty) or "resolved"
  animations,  \* the animations that were started: queued or not, and their state
  timers,      \* jQuery.timers
  ticking,     \* the interval of jQuery.fx.start
  delays,      \* the pending timeouts of delay
  finishing,   \* the data finish
  steps,       \* what the running script still has to do
  effects,     \* how many operations the page has called
  nested,      \* history: a callback that stop or finish was calling has called stop or finish
  disturbed    \* history: one of the calls that make the code lose track of its queue, or an exception

effectVars == <<queue, hooks, promise, animations, timers, ticking, delays, finishing, steps, effects, nested, disturbed>>

Sentinel == [kind |-> "inprogress", id |-> 0, instant |-> FALSE]
NoHooks == [there |-> FALSE, stop |-> 0, unqueued |-> 0]

EffectsInit ==
  /\ queue = <<>> /\ hooks = NoHooks /\ promise = "none"
  /\ animations = <<>> /\ timers = <<>> /\ ticking = FALSE /\ delays = {}
  /\ finishing = FALSE /\ steps = <<>> /\ effects = 0
  /\ nested = FALSE /\ disturbed = FALSE

Does(op) == steps # <<>> /\ Head(steps)[1] = op
Owes(op) == \E i \in DOMAIN steps : steps[i][1] = op
Later == Tail(steps)

IsRunning(a) == animations[a].state = "running"

-----------------------------------------------------------------------------
(* hooks.empty.fire, which the prefilter replaces when it counts the       *)
(* animations outside the queue: the promises are resolved, and queue and   *)
(* hooks are removed.  The mutant does not count.                          *)
EmptyFiresAlways(h) ==
  /\ queue' = <<>> /\ hooks' = NoHooks
  /\ promise' = IF promise = "pending" THEN "resolved" ELSE promise

EmptyFires(h) ==
  IF h.unqueued > 0 THEN hooks' = h /\ queue' = <<>> /\ UNCHANGED promise
  ELSE /\ queue' = <<>> /\ hooks' = NoHooks
       /\ promise' = IF promise = "pending" THEN "resolved" ELSE promise

(* jQuery.dequeue *)
Dequeue ==
  /\ Does("dequeue")
  /\ LET rest == IF queue # <<>> /\ Head(queue) = Sentinel THEN Tail(queue) ELSE queue
         present == [hooks EXCEPT !.there = TRUE]
     IN  IF rest = <<>>
         THEN EmptyFires(present) /\ steps' = Later /\ UNCHANGED delays
         ELSE LET item == Head(rest)
                  delay == item.kind = "delay"
              IN  /\ queue' = <<Sentinel>> \o Tail(rest)
                  /\ hooks' = [present EXCEPT !.stop = IF delay THEN item.id ELSE 0]
                  /\ delays' = IF delay THEN delays \cup {item.id} ELSE delays
                  /\ steps' = IF delay THEN Later ELSE <<<<"start", TRUE, item.instant>>>> \o Later
                  /\ UNCHANGED promise
  /\ UNCHANGED <<animations, timers, ticking, finishing, effects, nested, disturbed>>

(* What follows when an animation is resolved: the callback complete, then *)
(* the next of the queue or the count of those outside it.                 *)
Completed(queued) ==
  <<<<"callback">>>> \o (IF queued THEN <<<<"dequeue">>>> ELSE <<<<"uncount">>>>)

(* An animation that is over before complete is attached to it. *)
OverAtOnce(queued) == IF queued THEN Completed(queued) ELSE <<<<"uncount">>, <<"callback">>>>

(* doAnimation: Animation with its prefilter and its first tick; finish    *)
(* stops it at its end at once, and leaves its timer to the next tick.     *)
StartAnimation ==
  /\ Does("start")
  /\ LET queued == Head(steps)[2]
         instant == Head(steps)[3]
         over == instant \/ finishing
     IN  /\ animations' = Append(animations, [queued |-> queued, state |-> IF over THEN "resolved" ELSE "running"])
         /\ timers' = IF instant THEN timers ELSE Append(timers, Len(animations) + 1)
         /\ ticking' = (ticking \/ ~instant)
         /\ hooks' = IF queued THEN hooks ELSE [hooks EXCEPT !.there = TRUE, !.unqueued = @ + 1]
         /\ steps' = (IF instant THEN OverAtOnce(queued) ELSE IF over THEN Completed(queued) ELSE <<>>) \o Later
  /\ UNCHANGED <<queue, promise, delays, finishing, effects, nested, disturbed>>

Uncount ==
  /\ Does("uncount")
  /\ LET counted == [hooks EXCEPT !.unqueued = @ - 1]
     IN  IF queue = <<>> THEN EmptyFires(counted) ELSE hooks' = counted /\ UNCHANGED <<queue, promise>>
  /\ steps' = Later
  /\ UNCHANGED <<animations, timers, ticking, delays, finishing, effects, nested, disturbed>>

CallbackDone ==
  /\ Does("callback")
  /\ steps' = Later
  /\ UNCHANGED <<queue, hooks, promise, animations, timers, ticking, delays, finishing, effects, nested, disturbed>>

(* An exception ends the script, whatever it still had to do: nothing is    *)
(* dequeued or counted, and finish goes on being in force.                 *)
ScriptEnds ==
  /\ steps' = <<>>
  /\ disturbed' = TRUE
  /\ UNCHANGED <<queue, hooks, promise, animations, timers, ticking, delays, finishing, effects, nested>>

CompleteThrows == Does("callback") /\ ScriptEnds

-----------------------------------------------------------------------------
(* jQuery.fx.tick: the timers in turn. *)
Tick ==
  /\ Does("tick")
  /\ LET i == Head(steps)[2]
     IN  IF i > Len(timers)
         THEN /\ ticking' = (timers # <<>> /\ ticking)
              /\ steps' = Later
              /\ UNCHANGED animations
         ELSE LET a == timers[i]
              IN  /\ \/ /\ IsRunning(a)
                        /\ steps' = <<<<"tick", i + 1>>>> \o Later
                        /\ UNCHANGED animations
                     \/ /\ animations' = [animations EXCEPT ![a].state = IF IsRunning(a) THEN "resolved" ELSE @]
                        /\ steps' = (IF IsRunning(a) THEN Completed(animations[a].queued) ELSE <<>>)
                                      \o <<<<"ticked", i, a>>>> \o Later
                  /\ UNCHANGED ticking
  /\ UNCHANGED <<queue, hooks, promise, timers, delays, finishing, effects, nested, disturbed>>

(* The timer is over: it is removed if it is still there.  The mutant      *)
(* removes what is in its place.                                           *)
TickedBlindly ==
  /\ Does("ticked")
  /\ LET i == Head(steps)[2]
     IN  IF i \in DOMAIN timers
         THEN timers' = RemoveAt(timers, i) /\ steps' = <<<<"tick", i>>>> \o Later
         ELSE steps' = <<<<"tick", i + 1>>>> \o Later /\ UNCHANGED timers
  /\ UNCHANGED <<queue, hooks, promise, animations, ticking, delays, finishing, effects, nested, disturbed>>

Ticked ==
  /\ Does("ticked")
  /\ LET i == Head(steps)[2]
     IN  IF i \in DOMAIN timers /\ timers[i] = Head(steps)[3]
         THEN timers' = RemoveAt(timers, i) /\ steps' = <<<<"tick", i>>>> \o Later
         ELSE steps' = <<<<"tick", i + 1>>>> \o Later /\ UNCHANGED timers
  /\ UNCHANGED <<queue, hooks, promise, animations, ticking, delays, finishing, effects, nested, disturbed>>

(* stop starts the next of the queue, unless a complete callback has done  *)
(* so.  The mutant always does.                                            *)
StartsNextAlways(dequeue, gotoEnd) == TRUE
StartsNext(dequeue, gotoEnd) == dequeue \/ ~gotoEnd

(* The loop of stop and of finish over the timers, from the last; a timer  *)
(* whose animation is over has no element any more.  If a callback has     *)
(* removed timers meanwhile, the loop may find none, which is an error.    *)
NoTimerToStop == Does("stopping") /\ Head(steps)[2] > Len(timers) /\ ScriptEnds

StopTimers ==
  /\ Does("stopping") /\ Head(steps)[2] <= Len(timers)
  /\ LET i == Head(steps)[2]
         gotoEnd == Head(steps)[3]
         dequeue == Head(steps)[4]
         queuedOnly == Head(steps)[5]
     IN  IF i = 0
         THEN /\ steps' = (IF StartsNext(dequeue, gotoEnd) THEN <<<<"dequeue">>>> ELSE <<>>) \o Later
              /\ UNCHANGED animations
         ELSE LET a == timers[i]
              IN  IF IsRunning(a) /\ (queuedOnly => animations[a].queued)
                  THEN /\ animations' = [animations EXCEPT ![a].state = IF gotoEnd THEN "resolved" ELSE "rejected"]
                       /\ steps' = (IF gotoEnd THEN Completed(animations[a].queued)
                                    ELSE IF animations[a].queued THEN <<>> ELSE <<<<"uncount">>>>)
                                   \o <<<<"splice", i>>, <<"stopping", i - 1, gotoEnd, FALSE, queuedOnly>>>> \o Later
                  ELSE /\ steps' = <<<<"stopping", i - 1, gotoEnd, dequeue, queuedOnly>>>> \o Later
                       /\ UNCHANGED animations
  /\ UNCHANGED <<queue, hooks, promise, timers, ticking, delays, finishing, effects, nested, disturbed>>

Splice ==
  /\ Does("splice")
  /\ timers' = IF Head(steps)[2] \in DOMAIN timers THEN RemoveAt(timers, Head(steps)[2]) ELSE timers
  /\ steps' = Later
  /\ UNCHANGED <<queue, hooks, promise, animations, ticking, delays, finishing, effects, nested, disturbed>>

FinishEnds ==
  /\ Does("finished")
  /\ finishing' = FALSE
  /\ steps' = Later
  /\ UNCHANGED <<queue, hooks, promise, animations, timers, ticking, delays, effects, nested, disturbed>>

-----------------------------------------------------------------------------
(* The page calls an operation, in a script or in the callback complete. *)
PageMay == effects < MaxEffects /\ (steps = <<>> \/ Does("callback"))
Called(next, harm) ==
  /\ PageMay
  /\ effects' = effects + 1
  /\ steps' = next \o steps
  /\ disturbed' = (disturbed \/ harm)

(* Under which circumstances the code loses track of its own queue. *)
Stopping == Owes("stopping") \/ Owes("finished")
FromACallback == Owes("dequeue")
DelayPending == delays # {}
QueuedRuns == \E a \in DOMAIN animations : IsRunning(a) /\ animations[a].queued

(* animate, and delay, which both queue a function *)
Enqueue(item) ==
  /\ LET starts == queue = <<>> \/ Head(queue) # Sentinel
     IN  Called(IF starts THEN <<<<"dequeue">>>> ELSE <<>>, starts /\ (FromACallback \/ QueuedRuns \/ DelayPending))
  /\ queue' = Append(queue, item)
  /\ hooks' = [hooks EXCEPT !.there = TRUE]
  /\ UNCHANGED <<promise, animations, timers, ticking, delays, finishing, nested>>

Animate == \E instant \in BOOLEAN : Enqueue([kind |-> "animation", id |-> 0, instant |-> instant])
Delay == Enqueue([kind |-> "delay", id |-> effects + 1, instant |-> FALSE])

AnimateUnqueued ==
  /\ \E instant \in BOOLEAN : Called(<<<<"start", FALSE, instant>>>>, FALSE)
  /\ UNCHANGED <<queue, hooks, promise, animations, timers, ticking, delays, finishing, nested>>

ClearQueue ==
  /\ Called(<<<<"dequeue">>>>, DelayPending \/ QueuedRuns)
  /\ queue' = <<>>
  /\ UNCHANGED <<hooks, promise, animations, timers, ticking, delays, finishing, nested>>

(* stop(clearQueue, gotoEnd).  Emptying the queue removes the hooks, with  *)
(* them the way to stop a delay.                                           *)
Stop ==
  /\ \E clearQueue, gotoEnd \in BOOLEAN :
       /\ Called((IF clearQueue THEN <<<<"dequeue">>>> ELSE <<>>) \o <<<<"stop", gotoEnd>>>>,
                 Stopping \/ (FromACallback /\ ~clearQueue) \/ (DelayPending /\ (clearQueue \/ gotoEnd)))
       /\ queue' = IF clearQueue THEN <<>> ELSE queue
  /\ nested' = (nested \/ Stopping)
  /\ UNCHANGED <<hooks, promise, animations, timers, ticking, delays, finishing>>

StopDelay ==
  /\ Does("stop")
  /\ delays' = delays \ {hooks.stop}
  /\ hooks' = [hooks EXCEPT !.stop = 0]
  /\ steps' = <<<<"stopping", Len(timers), Head(steps)[2], TRUE, FALSE>>>> \o Later
  /\ UNCHANGED <<queue, promise, animations, timers, ticking, finishing, effects, nested, disturbed>>

(* finish: the running animation, then those that were waiting. *)
Starts(items) ==
  LET starts[i \in 0 .. Len(items)] ==
        IF i = 0 THEN <<>>
        ELSE IF items[i].kind # "animation" THEN starts[i - 1]
        ELSE Append(starts[i - 1], <<"start", TRUE, items[i].instant>>)
  IN  starts[Len(items)]

Finish ==
  /\ Called(<<<<"stopping", Len(timers), TRUE, FALSE, TRUE>>>> \o Starts(queue) \o <<<<"finished">>>>, Stopping \/ DelayPending)
  /\ nested' = (nested \/ Stopping)
  /\ finishing' = TRUE
  /\ queue' = <<>>
  /\ delays' = delays \ {hooks.stop}
  /\ UNCHANGED <<hooks, promise, animations, timers, ticking>>

GetPromise ==
  /\ promise = "none"
  /\ Called(<<>>, FALSE)
  /\ promise' = IF hooks.there THEN "pending" ELSE "resolved"
  /\ UNCHANGED <<queue, hooks, animations, timers, ticking, delays, finishing, nested>>

(* The browser: the interval and the timeouts. *)
IntervalElapses ==
  /\ steps = <<>> /\ ticking
  /\ steps' = <<<<"tick", 1>>>>
  /\ UNCHANGED <<queue, hooks, promise, animations, timers, ticking, delays, finishing, effects, nested, disturbed>>

TimeoutElapses ==
  /\ steps = <<>>
  /\ \E d \in delays : delays' = delays \ {d}
  /\ steps' = <<<<"dequeue">>>>
  /\ UNCHANGED <<queue, hooks, promise, animations, timers, ticking, finishing, effects, nested, disturbed>>

EffectsNext ==
  \/ Dequeue \/ StartAnimation \/ Uncount \/ CallbackDone \/ CompleteThrows
  \/ Tick \/ Ticked \/ StopTimers \/ NoTimerToStop \/ Splice \/ StopDelay \/ FinishEnds
  \/ Animate \/ AnimateUnqueued \/ Delay \/ ClearQueue \/ Stop \/ Finish \/ GetPromise
  \/ IntervalElapses \/ TimeoutElapses

EffectsSpec == EffectsInit /\ [][EffectsNext]_effectVars

-----------------------------------------------------------------------------
InProgress == {a \in DOMAIN animations : IsRunning(a) /\ animations[a].queued}
Unqueued == {a \in DOMAIN animations : IsRunning(a) /\ ~animations[a].queued}

(* Whatever a complete callback starts or stops while jQuery.timers is      *)
(* being gone through, and also when it throws, each running animation     *)
(* keeps its timer, and the interval runs as long as there is one           *)
(* (jquery-1.10.1.js:9507-9545).  Only the loops of stop and finish are not *)
(* safe (9371-9376,9407-9412): of a callback called by one of them that     *)
(* calls stop or finish itself, nothing is said.                           *)
AnimationsAreDriven ==
  steps = <<>> /\ ~nested =>
    /\ \A a \in DOMAIN animations : IsRunning(a) => \E i \in DOMAIN timers : timers[i] = a
    /\ timers # <<>> => ticking

(* Between scripts either the queue is empty and none of its functions is  *)
(* in progress, or exactly one is and the sentinel says so; so the queue   *)
(* neither stalls nor runs two at once (jquery-1.10.1.js:3947-3980).  This *)
(* is lost, and not claimed, once the page has                             *)
(*   - thrown an exception in a complete callback (9484-9490);              *)
(*   - called stop or finish in a callback that stop or finish was calling; *)
(*   - called stop without clearing the queue in the complete callback of   *)
(*     an animation of the queue, which then dequeues a second time;        *)
(*   - cleared the queue while an animation of it or a delay was running;   *)
(*   - queued on a queue that is empty meanwhile, in such a callback or     *)
(*     while such an animation or a delay was running;                     *)
(*   - called finish, stop(true) or stop(false, true) during a delay.       *)
OneAtATime ==
  steps = <<>> /\ ~disturbed =>
    IF queue = <<>> THEN InProgress = {} /\ delays = {}
    ELSE /\ Head(queue) = Sentinel
         /\ Cardinality(InProgress) + Cardinality(delays) = 1

(* A promise is resolved when nothing of the element is in progress or     *)
(* waits, in the queue or outside it, and not before, unless it is about   *)
(* to be stopped (jquery-1.10.1.js:4044-4071,9090-9114); until the page has *)
(* done one of the things that OneAtATime lists.                           *)
PromisesResolve ==
  [][~disturbed' =>
       /\ promise = "pending" /\ promise' = "resolved" /\ ~Owes("stop") /\ ~Owes("stopping") =>
            Unqueued = {} /\ InProgress = {} /\ delays = {}
       /\ steps' = <<>> /\ promise' = "pending" =>
            queue' # <<>> \/ Unqueued' # {}]_effectVars

=============================================================================
