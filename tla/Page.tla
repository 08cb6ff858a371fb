-------------------------------- MODULE Page --------------------------------
(***************************************************************************)
(* The JavaScript side of a test: jQuery in the page that PhantomJS opens,  *)
(* and phantomquail.js beside it.  The parts of jQuery that keep state keep *)
(* it apart from each other; what they call of each other is part of their  *)
(* modules.  A behaviour is a behaviour of one part.                        *)
(***************************************************************************)
EXTENDS Deferred, Ready, ElementData, Effects, Events, Ajax, Selectors, PhantomQuail

VARIABLE facility  \* the part that is used

vars == <<facility, callbackVars, promiseVars, readyVars, dataVars, effectVars, eventVars, ajaxVars, selectorVars, quailVars>>

Facilities == {"callbacks", "deferred", "ready", "data", "effects", "events", "ajax", "selectors", "quail"}

Init ==
  /\ facility \in Facilities
  /\ IF facility = "callbacks" THEN CallbacksInit /\ NothingSettled
     ELSE IF facility = "deferred" THEN DeferredInit
     ELSE lists = <<>> /\ frames = <<>> /\ ops = 0 /\ threw = FALSE /\ NothingSettled
  /\ ReadyInit /\ (facility # "ready" => document = "loading")
  /\ DataInit /\ EffectsInit /\ EventsInit /\ AjaxInit
  /\ SelectorsInit /\ (facility # "selectors" => \A e \in AllNodes : parent[e] = e - 1 /\ class[e] = "a")
  /\ QuailInit /\ (facility # "quail" => arguments = "none" /\ reports = "broken")

Next ==
  \/ /\ facility = "callbacks" /\ CallbacksNext
     /\ UNCHANGED <<facility, promiseVars, readyVars, dataVars, effectVars, eventVars, ajaxVars, selectorVars, quailVars>>
  \/ /\ facility = "deferred" /\ DeferredNext
     /\ UNCHANGED <<facility, readyVars, dataVars, effectVars, eventVars, ajaxVars, selectorVars, quailVars>>
  \/ /\ facility = "ready" /\ ReadyNext
     /\ UNCHANGED <<facility, callbackVars, promiseVars, dataVars, effectVars, eventVars, ajaxVars, selectorVars, quailVars>>
  \/ /\ facility = "data" /\ DataNext
     /\ UNCHANGED <<facility, callbackVars, promiseVars, readyVars, effectVars, eventVars, ajaxVars, selectorVars, quailVars>>
  \/ /\ facility = "effects" /\ EffectsNext
     /\ UNCHANGED <<facility, callbackVars, promiseVars, readyVars, dataVars, eventVars, ajaxVars, selectorVars, quailVars>>
  \/ /\ facility = "events" /\ EventsNext
     /\ UNCHANGED <<facility, callbackVars, promiseVars, readyVars, dataVars, effectVars, ajaxVars, selectorVars, quailVars>>
  \/ /\ facility = "ajax" /\ AjaxNext
     /\ UNCHANGED <<facility, callbackVars, promiseVars, readyVars, dataVars, effectVars, eventVars, selectorVars, quailVars>>
  \/ /\ facility = "selectors" /\ SelectorsNext
     /\ UNCHANGED <<facility, callbackVars, promiseVars, readyVars, dataVars, effectVars, eventVars, ajaxVars, quailVars>>
  \/ /\ facility = "quail" /\ QuailNext
     /\ UNCHANGED <<facility, callbackVars, promiseVars, readyVars, dataVars, effectVars, eventVars, ajaxVars, selectorVars>>

Spec == Init /\ [][Next]_vars

=============================================================================
