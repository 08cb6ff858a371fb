---------------------------- MODULE PhantomQuail ----------------------------
(***************************************************************************)
(* The script that PhantomJS runs for each URL (phantomquail.js).  It and   *)
(* the page it opens are two JavaScript programs that exchange callbacks:   *)
(* the page may finish loading several times, may load another page in its *)
(* place, and its evaluation reports whenever quail is done, if ever.       *)
(***************************************************************************)
EXTENDS Integers

CONSTANTS
  Tests,     \* the names in tests.json
  MaxPages,  \* bound: the pages that are loaded one after the other
  MaxLoads   \* bound: how often loading finishes

VARIABLES
  arguments,    \* the command line: "none", "url", or the name of a test
  phase,        \* "start", "open", "exiting" (phantom.exit was called) or "ended"
  selected,     \* the tests to run
  len,          \* the number of reports that are expected
  output,       \* the pages whose reports were merged
  results,      \* what was written to results.js and the console, or {}
  page,         \* the page that is in the browser
  reports,      \* what its script makes of JSON: "object", "text" or "broken"
  evaluations,  \* its evaluations that have not reported
  loads         \* how often loading finished

quailVars == <<arguments, phase, selected, len, output, results, page, reports, evaluations, loads>>

QuailInit ==
  /\ arguments \in {"none", "url"} \cup Tests \cup {"an unknown test"}
  /\ phase = "start"
  /\ selected = {} /\ len = 0 /\ output = {} /\ results = {}
  /\ page = 1 /\ reports \in {"object", "text", "broken"}
  /\ evaluations = 0 /\ loads = 0

(* The body of the script.  phantom.exit does not end it, so that results.js *)
(* is emptied and the page opened also after the message on the usage.     *)
RunScript ==
  /\ phase = "start"
  /\ phase' = IF arguments = "none" THEN "exiting" ELSE "open"
  /\ selected' = IF arguments \in Tests THEN {arguments} ELSE Tests
  /\ UNCHANGED <<arguments, len, output, results, page, reports, evaluations, loads>>

(* The callback setCounter; a mutant adds up what it is told.              *)
CountUp(n) == len' = len + n
SetCounter(n) == len' = n

(* onLoadFinished: the scripts are injected and the evaluation starts; it  *)
(* may fail before or after it has set the counter, when quail is not      *)
(* there or fails itself.  A failure to load, and an exception, end in     *)
(* callPhantom, which does not exist here: the process goes on.            *)
LoadFinishes ==
  /\ phase = "open"
  /\ loads < MaxLoads
  /\ loads' = loads + 1
  /\ \/ SetCounter(1) /\ evaluations' = evaluations + 1
     \/ SetCounter(1) /\ UNCHANGED evaluations
     \/ UNCHANGED <<len, evaluations>>
  /\ UNCHANGED <<arguments, phase, selected, output, results, page, reports>>

(* The page sends the browser elsewhere; its script and evaluations end.   *)
AnotherPage ==
  /\ phase = "open"
  /\ page < MaxPages
  /\ page' = page + 1
  /\ reports' \in {"object", "text", "broken"}
  /\ evaluations' = 0
  /\ UNCHANGED <<arguments, phase, selected, len, output, results, loads>>

(* The callback writeData. *)
WriteData ==
  /\ phase = "open"
  /\ evaluations > 0
  /\ evaluations' = evaluations - 1
  /\ len' = len - 1
  /\ output' = IF reports = "object" THEN output \cup {page} ELSE output
  /\ IF reports # "broken" /\ len = 1
     THEN results' = output' /\ phase' = "exiting"
     ELSE UNCHANGED <<results, phase>>
  /\ UNCHANGED <<arguments, selected, page, reports, loads>>

(* The event loop ends after the script that called phantom.exit. *)
PhantomExits ==
  /\ phase = "exiting"
  /\ phase' = "ended"
  /\ UNCHANGED <<arguments, selected, len, output, results, page, reports, evaluations, loads>>

QuailNext == RunScript \/ LoadFinishes \/ AnotherPage \/ WriteData \/ PhantomExits

QuailSpec == QuailInit /\ [][QuailNext]_quailVars

-----------------------------------------------------------------------------
(* However often loading finishes and whatever page is in the browser by   *)
(* then, the first report that can be read ends the process, and what is   *)
(* written is the report on that page and no other (phantomquail.js:119-   *)
(* 156).                                                                   *)
ReportsArrive == output # {} => phase \in {"exiting", "ended"} /\ output = {page} /\ results = output

=============================================================================
