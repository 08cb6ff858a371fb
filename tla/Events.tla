------------------------------- MODULE Events -------------------------------
(***************************************************************************)
(* jQuery.event (js/jquery-1.10.1.js): handlers that are bound, bound for   *)
(* one call and removed while events are dispatched; events that the code  *)
(* triggers, with their native default action; and focusin, which the      *)
(* browser does not send.                                                  *)
(*                                                                         *)
(* The events under way are a stack of frames, the innermost first, whose   *)
(* handler is running.  All happen to the element "inner", which is not a  *)
(* link, in "outer".                                                       *)
(***************************************************************************)
EXTENDS Integers, Sequences, SequencesExt, FiniteSets

CONSTANTS
  HandlerNames,  \* the functions the page binds (their guid)
  MaxEventOps    \* bound: the operations the page calls

VARIABLES
  handlers,       \* the handlers of each node and type
  delegateCount,  \* how many of them, in front, have a selector
  listens,        \* the types the browser reports to each node
  attaches,       \* how many nodes want focusin
  captures,       \* the document has a capturing listener for focus
  triggered,      \* jQuery.event.triggered
  events,         \* the frames
  bindings,       \* how many handlers were bound
  eventOps,       \* how many operations the page has called
  twice           \* history: a handler was called twice for one event

eventVars == <<handlers, delegateCount, listens, attaches, captures, triggered, events, bindings, eventOps, twice>>
boundVars == <<handlers, delegateCount, listens, attaches, captures>>

Path == <<"inner", "outer", "document", "window">>
Nodes == {"inner", "document"}  \* those with handlers
Matched == <<"inner", "outer">>  \* those a selector at the document matches, the deepest first
Types == {"click", "focusin"}
Special == {"focusin"}
NotCalling == [id |-> 0, name |-> "none", once |-> FALSE, delegated |-> FALSE, of |-> "none"]

EventsInit ==
  /\ handlers = [n \in Nodes |-> [t \in Types |-> <<>>]]
  /\ delegateCount = [n \in Nodes |-> [t \in Types |-> 0]]
  /\ listens = [n \in Nodes |-> {}]
  /\ attaches = 0 /\ captures = FALSE /\ triggered = "none"
  /\ events = <<>> /\ bindings = 0 /\ eventOps = 0 /\ twice = FALSE

-----------------------------------------------------------------------------
(* The special setup and teardown of focusin, and the browser's listeners. *)
Setup(n, t) ==
  IF t \in Special
  THEN attaches' = attaches + 1 /\ captures' = TRUE /\ UNCHANGED listens
  ELSE listens' = [listens EXCEPT ![n] = @ \cup {t}] /\ UNCHANGED <<attaches, captures>>

Teardown(n, t) ==
  IF t \in Special
  THEN attaches' = attaches - 1 /\ captures' = (attaches # 1) /\ UNCHANGED listens
  ELSE listens' = [listens EXCEPT ![n] = @ \ {t}] /\ UNCHANGED <<attaches, captures>>

(* jQuery.event.add: handlers with a selector go behind the last of these. *)
Bind(n, t, binding) ==
  LET list == handlers[n][t]
      count == delegateCount[n][t]
  IN  /\ IF list = <<>> THEN Setup(n, t) ELSE UNCHANGED <<listens, attaches, captures>>
      /\ handlers' = [handlers EXCEPT ![n][t] =
                        IF binding.delegated THEN InsertAt(list, count + 1, binding) ELSE Append(list, binding)]
      /\ delegateCount' = [delegateCount EXCEPT ![n][t] = IF binding.delegated THEN count + 1 ELSE count]

(* jQuery.event.remove for the handlers with one of the names, or only the *)
(* delegated ones of these.                                                *)
Matches(b, names, selector) == b.name \in names /\ (selector => b.delegated)

Kept(list, names, selector) ==
  LET kept[i \in 0 .. Len(list)] ==
        IF i = 0 THEN <<>>
        ELSE IF Matches(list[i], names, selector) THEN kept[i - 1] ELSE Append(kept[i - 1], list[i])
  IN  kept[Len(list)]

Unbind(n, t, names, selector) ==
  LET list == handlers[n][t]
      kept == Kept(list, names, selector)
      delegates(bs) == Cardinality({i \in DOMAIN bs : bs[i].delegated})
  IN  /\ handlers' = [handlers EXCEPT ![n][t] = kept]
      /\ delegateCount' = [delegateCount EXCEPT ![n][t] = @ - (delegates(list) - delegates(kept))]
      /\ IF list # <<>> /\ kept = <<>> THEN Teardown(n, t) ELSE UNCHANGED <<listens, attaches, captures>>

(* event.handlers: the delegated handlers for each element on the way up   *)
(* to the node, then those of the node itself; a copy of the lists.        *)
HandlerQueue(n, t) ==
  LET list == handlers[n][t]
      count == delegateCount[n][t]
      group(e, bs) == [at |-> e, calls |-> bs]
      delegated == IF n = "document" /\ count > 0
                   THEN [i \in DOMAIN Matched |-> group(Matched[i], SubSeq(list, 1, count))]
                   ELSE <<>>
  IN  delegated \o (IF count < Len(list) THEN <<group(n, SubSeq(list, count + 1, Len(list)))>> ELSE <<>>)

-----------------------------------------------------------------------------
Event(t, native, path, called) ==
  [type |-> t, native |-> native, path |-> path, at |-> 0, groups |-> <<>>, calling |-> NotCalling,
   stopped |-> FALSE, immediate |-> FALSE, prevented |-> FALSE, acting |-> FALSE, called |-> called]

Current == Head(events)
Proceeds == events # <<>> /\ Current.calling = NotCalling
Becomes(event) == events' = <<event>> \o Tail(events)
Over == Current.stopped \/ Current.at = Len(Current.path)

(* The event reaches the next node of its path, and those of its handlers  *)
(* that are bound by now are going to be called.  The handle discards what *)
(* the browser sends for the default action of a triggered event.          *)
ReachNode ==
  /\ Proceeds /\ Current.groups = <<>> /\ ~Over
  /\ LET n == Current.path[Current.at + 1]
         reported == n \in Nodes /\ (Current.native => Current.type \in listens[n] /\ triggered # Current.type)
     IN  Becomes([Current EXCEPT !.at = @ + 1, !.groups = IF reported THEN HandlerQueue(n, Current.type) ELSE <<>>])
  /\ UNCHANGED <<boundVars, triggered, bindings, eventOps, twice>>

(* jQuery().off(event), in the wrapper of one; and a mutant without it. *)
NotUnbound(n, t, binding) == UNCHANGED boundVars
UnbindOne(n, t, binding) == Unbind(n, t, {binding.name}, binding.delegated)

(* dispatch calls the next handler, or leaves the group: stopPropagation    *)
(* keeps it from the next group, stopImmediatePropagation also from the     *)
(* rest of this one.                                                       *)
CallHandler ==
  /\ Proceeds /\ Current.groups # <<>>
  /\ LET group == Head(Current.groups)
     IN  /\ group.calls # <<>> /\ ~Current.immediate
         /\ LET binding == Head(group.calls)
                key == <<binding.id, group.at>>
            IN  /\ Becomes([Current EXCEPT !.groups[1].calls = Tail(@), !.calling = binding, !.called = @ \cup {key}])
                /\ twice' = (twice \/ key \in Current.called)
                /\ IF binding.once THEN UnbindOne(Current.path[Current.at], Current.type, binding)
                   ELSE UNCHANGED boundVars
  /\ UNCHANGED <<triggered, bindings, eventOps>>

LeaveGroup ==
  /\ Proceeds /\ Current.groups # <<>>
  /\ Head(Current.groups).calls = <<>> \/ Current.immediate
  /\ Becomes([Current EXCEPT !.groups = IF Current.stopped THEN <<>> ELSE Tail(@)])
  /\ UNCHANGED <<boundVars, triggered, bindings, eventOps, twice>>

(* The handler returns, perhaps false. *)
HandlerReturns ==
  /\ events # <<>> /\ ~Proceeds
  /\ \E false \in BOOLEAN :
       Becomes([Current EXCEPT !.calling = NotCalling, !.prevented = @ \/ false, !.stopped = @ \/ false])
  /\ UNCHANGED <<boundVars, triggered, bindings, eventOps, twice>>

(* The default action of a triggered click: the browser sends the event    *)
(* that was triggered.  The mutant does not say so to the handle.          *)
GuardForgotten == UNCHANGED triggered
Guard == triggered' = Current.type

ActsByDefault == ~Current.native /\ ~Current.prevented /\ ~Current.acting
                 /\ Current.type = "click" /\ Len(Current.path) > 1
DefaultAction ==
  /\ Proceeds /\ Current.groups = <<>> /\ Over /\ ActsByDefault
  /\ Guard
  /\ events' = <<Event(Current.type, TRUE, Path, Current.called), [Current EXCEPT !.acting = TRUE]>> \o Tail(events)
  /\ UNCHANGED <<boundVars, bindings, eventOps, twice>>

EventEnds ==
  /\ Proceeds /\ Current.groups = <<>> /\ Over /\ ~ActsByDefault
  /\ triggered' = IF Current.acting THEN "none" ELSE triggered
  /\ events' = Tail(events)
  /\ UNCHANGED <<boundVars, bindings, eventOps, twice>>

-----------------------------------------------------------------------------
(* The page, in a script or in the running handler. *)
EventOp ==
  /\ events = <<>> \/ ~Proceeds
  /\ eventOps < MaxEventOps
  /\ eventOps' = eventOps + 1

On ==
  /\ EventOp
  /\ bindings' = bindings + 1
  /\ \E n \in Nodes, t \in Types, name \in HandlerNames, once, delegated \in BOOLEAN :
       /\ delegated => n = "document"
       /\ Bind(n, t, [id |-> bindings + 1, name |-> name, once |-> once, delegated |-> delegated, of |-> n])
  /\ UNCHANGED <<triggered, events, twice>>

Off ==
  /\ EventOp
  /\ \E n \in Nodes, t \in Types, names \in {HandlerNames} \cup {{name} : name \in HandlerNames}, selector \in BOOLEAN :
       Unbind(n, t, names, selector)
  /\ UNCHANGED <<triggered, events, bindings, twice>>

(* trigger, and triggerHandler, which stays at the element *)
Trigger ==
  /\ EventOp
  /\ \E t \in Types, path \in {Path, <<"inner">>} : events' = <<Event(t, FALSE, path, {})>> \o events
  /\ UNCHANGED <<boundVars, triggered, bindings, twice>>

(* The handler asks the event to stop. *)
StopEvent ==
  /\ events # <<>> /\ ~Proceeds
  /\ \/ Becomes([Current EXCEPT !.stopped = TRUE])
     \/ Becomes([Current EXCEPT !.stopped = TRUE, !.immediate = TRUE])
     \/ Becomes([Current EXCEPT !.prevented = TRUE])
  /\ UNCHANGED <<boundVars, triggered, bindings, eventOps, twice>>

(* The inner element is removed from the document: cleanData removes the   *)
(* handlers of special types one by one, the others with their listener.   *)
(* The mutant takes them all for others.                                   *)
RemoveInnerQuietly ==
  /\ EventOp
  /\ handlers' = [handlers EXCEPT !["inner"] = [t \in Types |-> <<>>]]
  /\ delegateCount' = [delegateCount EXCEPT !["inner"] = [t \in Types |-> 0]]
  /\ listens' = [listens EXCEPT !["inner"] = {}]
  /\ UNCHANGED <<attaches, captures, triggered, events, bindings, twice>>

RemoveInner ==
  /\ EventOp
  /\ LET wanted == handlers["inner"]["focusin"] # <<>>
     IN  /\ attaches' = IF wanted THEN attaches - 1 ELSE attaches
         /\ captures' = IF wanted THEN attaches # 1 ELSE captures
  /\ handlers' = [handlers EXCEPT !["inner"] = [t \in Types |-> <<>>]]
  /\ delegateCount' = [delegateCount EXCEPT !["inner"] = [t \in Types |-> 0]]
  /\ listens' = [listens EXCEPT !["inner"] = {}]
  /\ UNCHANGED <<triggered, events, bindings, twice>>

(* The user clicks on the element or gives it the focus: the capturing     *)
(* listener triggers focusin.                                              *)
UserClicks ==
  /\ events = <<>> /\ EventOp
  /\ events' = <<Event("click", TRUE, Path, {})>>
  /\ UNCHANGED <<boundVars, triggered, bindings, twice>>

UserFocuses ==
  /\ events = <<>> /\ EventOp
  /\ captures
  /\ events' = <<Event("focusin", FALSE, Path, {})>>
  /\ UNCHANGED <<boundVars, triggered, bindings, twice>>

EventsNext ==
  \/ ReachNode \/ CallHandler \/ LeaveGroup \/ HandlerReturns \/ DefaultAction \/ EventEnds
  \/ On \/ Off \/ Trigger \/ StopEvent \/ RemoveInner \/ UserClicks \/ UserFocuses

EventsSpec == EventsInit /\ [][EventsNext]_eventVars

-----------------------------------------------------------------------------
(* However handlers come and go, also while their event is dispatched, the *)
(* count tells the delegated ones from the others, the browser reports an   *)
(* event to a node as long as the node has handlers for it, and focus is    *)
(* captured as long as someone wants focusin (jquery-1.10.1.js:4824-4853,  *)
(* 4902-4939,5596-5618).                                                   *)
ListenersFollowHandlers ==
  /\ \A n \in Nodes, t \in Types :
       \A i \in DOMAIN handlers[n][t] : handlers[n][t][i].delegated <=> i <= delegateCount[n][t]
  /\ \A n \in Nodes : listens[n] = {t \in Types \ Special : handlers[n][t] # <<>>}
  /\ attaches = Cardinality({n \in Nodes : handlers[n]["focusin"] # <<>>})
  /\ captures <=> attaches > 0

(* One event calls a handler at most once for each element, although the   *)
(* default action of a triggered event makes the browser send the event    *)
(* again, and whatever the handlers trigger meanwhile; and one that was     *)
(* bound with one is unbound while it runs (jquery-1.10.1.js:4783-4789,    *)
(* 5057-5065,5661-5670).                                                   *)
CalledOncePerEvent ==
  /\ ~twice
  /\ \A i \in DOMAIN events :
       LET binding == events[i].calling
       IN  binding.once => \A t \in Types : ~Contains(handlers[binding.of][t], binding)

=============================================================================
