------------------------------- MODULE Ready -------------------------------
(***************************************************************************)
(* jQuery.ready, holdReady and ready.promise (js/jquery-1.10.1.js): the     *)
(* callbacks for the ready document wait for the browser and for everyone   *)
(* who holds them.  jQuery may be loaded into a page at any time;           *)
(* phantomquail.js injects it into pages that are complete.                 *)
(***************************************************************************)
EXTENDS Integers

CONSTANT MaxHolds  \* bound: how often holdReady(true) is called

VARIABLES
  document,   \* document.readyState
  body,       \* document.body exists
  readyWait, isReady,
  readyList,  \* no promise yet, "pending" or "resolved"
  listening,  \* completed is registered for DOMContentLoaded and load
  readyTimers,     \* pending timers for jQuery.ready
  holds, releases  \* how often holdReady(true) and holdReady(false) were called

readyVars == <<document, body, readyWait, isReady, readyList, listening, readyTimers, holds, releases>>

ReadyInit ==
  /\ document \in {"loading", "complete"}
  /\ body = (document = "complete")
  /\ readyWait = 1
  /\ isReady = FALSE
  /\ readyList = "none"
  /\ listening = FALSE
  /\ readyTimers = 0
  /\ holds = 0
  /\ releases = 0

(* The end of jQuery.ready: the callbacks run, the first time.  The event  *)
(* "ready" that is triggered after them is left out.                       *)
ResolveReady == readyList' = "resolved"

(* A mutant of jQuery.ready that does not look at the holds. *)
ReadyUnheld(wait, pending) ==
  LET released == IF wait THEN readyWait - 1 ELSE readyWait
  IN  IF IF wait THEN released # 0 ELSE isReady
      THEN readyWait' = released /\ readyTimers' = pending /\ UNCHANGED <<isReady, readyList>>
      ELSE IF ~body
      THEN readyWait' = released /\ readyTimers' = pending + 1 /\ UNCHANGED <<isReady, readyList>>
      ELSE /\ isReady' = TRUE
           /\ readyWait' = IF wait THEN released ELSE released - 1
           /\ readyTimers' = pending
           /\ ResolveReady

(* jQuery.ready(wait), with that many timers pending. *)
JQueryReady(wait, pending) ==
  LET released == IF wait THEN readyWait - 1 ELSE readyWait
  IN  IF IF wait THEN released # 0 ELSE isReady
      THEN readyWait' = released /\ readyTimers' = pending /\ UNCHANGED <<isReady, readyList>>
      ELSE IF ~body
      THEN readyWait' = released /\ readyTimers' = pending + 1 /\ UNCHANGED <<isReady, readyList>>
      ELSE /\ isReady' = TRUE
           /\ readyWait' = IF wait THEN released ELSE released - 1
           /\ readyTimers' = pending
           /\ IF ~wait /\ released - 1 > 0 THEN UNCHANGED readyList ELSE ResolveReady

(* ready.promise, called by the first $(callback); a mutant waits for an   *)
(* event that may be over.                                                 *)
ReadyPromiseListens ==
  /\ readyList = "none"
  /\ readyList' = "pending"
  /\ listening' = TRUE
  /\ UNCHANGED <<document, body, readyWait, isReady, readyTimers, holds, releases>>

ReadyPromise ==
  /\ readyList = "none"
  /\ readyList' = "pending"
  /\ IF document = "complete"
     THEN readyTimers' = readyTimers + 1 /\ UNCHANGED listening
     ELSE listening' = TRUE /\ UNCHANGED readyTimers
  /\ UNCHANGED <<document, body, readyWait, isReady, holds, releases>>

(* The browser has parsed the body, or only what is before it. *)
BodyAppears ==
  /\ ~body
  /\ body' = TRUE
  /\ UNCHANGED <<document, readyWait, isReady, readyList, listening, readyTimers, holds, releases>>

(* DOMContentLoaded, then load: completed detaches itself from both. *)
LoadCompleted ==
  IF listening
  THEN listening' = FALSE /\ JQueryReady(FALSE, readyTimers)
  ELSE UNCHANGED <<readyWait, isReady, readyList, listening, readyTimers>>

DomContentLoaded ==
  /\ document = "loading"
  /\ document' = "interactive"
  /\ LoadCompleted
  /\ UNCHANGED <<body, holds, releases>>

WindowLoad ==
  /\ document = "interactive" /\ body
  /\ document' = "complete"
  /\ LoadCompleted
  /\ UNCHANGED <<body, holds, releases>>

ReadyTimer ==
  /\ readyTimers > 0
  /\ JQueryReady(FALSE, readyTimers - 1)
  /\ UNCHANGED <<document, body, listening, holds, releases>>

HoldReady ==
  /\ holds < MaxHolds
  /\ holds' = holds + 1
  /\ readyWait' = readyWait + 1
  /\ UNCHANGED <<document, body, isReady, readyList, listening, readyTimers, releases>>

(* Whoever holds releases once. *)
ReleaseReady ==
  /\ releases < holds
  /\ releases' = releases + 1
  /\ JQueryReady(TRUE, readyTimers)
  /\ UNCHANGED <<document, body, listening, holds>>

ReadyNext ==
  \/ ReadyPromise \/ BodyAppears \/ DomContentLoaded \/ WindowLoad \/ ReadyTimer
  \/ HoldReady \/ ReleaseReady

ReadySpec == ReadyInit /\ [][ReadyNext]_readyVars

-----------------------------------------------------------------------------
(* The callbacks run when the browser has a body and everyone who held     *)
(* them up to that time has released them (jquery-1.10.1.js:413-439).      *)
ReadyIsReleased ==
  [][readyList' = "resolved" /\ readyList # "resolved" =>
       isReady' /\ body /\ releases' = holds]_readyVars

(* When the page is complete and nobody holds them, nothing keeps the      *)
(* callbacks from running (jquery-1.10.1.js:917-976).                      *)
ReadyComes ==
  document = "complete" /\ readyTimers = 0 /\ releases = holds /\ readyList # "none" =>
    readyList = "resolved"

=============================================================================
