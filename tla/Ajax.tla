-------------------------------- MODULE Ajax --------------------------------
(***************************************************************************)
(* jQuery.ajax with the transports for XMLHttpRequest and for scripts and   *)
(* with JSONP (js/jquery-1.10.1.js): requests that are answered, time out   *)
(* and are aborted in any order, from scripts and from callbacks.          *)
(*                                                                         *)
(* What the running script still has to do is a stack of steps, the next    *)
(* first, each with its request; the code of the page runs when the stack   *)
(* is empty or its first step is a callback of the page.  A response is     *)
(* written as the request it answers.                                      *)
(***************************************************************************)
EXTENDS Integers, Sequences, FiniteSets

CONSTANT MaxRequests  \* bound

VARIABLES
  requests,      \* the requests that were made
  active,        \* jQuery.active
  busy,          \* ajaxStart was triggered and ajaxStop was not
  oldCallbacks,  \* the names of JSONP callbacks that are free
  names,         \* how many names were made
  windowNames,   \* the request whose callback each name is, 0 if undefined
  work,          \* what the running script still has to do
  overlapped,    \* history: a script ran after its request was over
  leaked,        \* history: how many ends of done an exception has cut off
  again          \* history: how many global requests were ended once more

ajaxVars == <<requests, active, busy, oldCallbacks, names, windowNames, work, overlapped, leaked, again>>
jsonpVars == <<oldCallbacks, names, windowNames>>

AjaxInit ==
  /\ requests = <<>>
  /\ active = 0 /\ busy = FALSE
  /\ oldCallbacks = <<>> /\ names = 0 /\ windowNames = <<>>
  /\ work = <<>>
  /\ overlapped = FALSE /\ leaked = 0 /\ again = 0

Todo(op) == work # <<>> /\ Head(work)[1] = op
It == Head(work)[2]  \* the request of the next step
After == Tail(work)
AjaxPageRuns == IF work = <<>> THEN TRUE ELSE Head(work)[1] \in {"beforeSend", "ajaxSend", "callbacks"}

(* JSONP goes across domains and is not global. *)
IsGlobal(r) == requests[r].kind = "xhr"

-----------------------------------------------------------------------------
(* jsonpCallback: a free name or a new one; a mutant leaves it in the list. *)
KeptName == IF oldCallbacks = <<>> THEN [name |-> names + 1, free |-> <<>>]
            ELSE [name |-> oldCallbacks[Len(oldCallbacks)], free |-> oldCallbacks]
TakenName == IF oldCallbacks = <<>> THEN [name |-> names + 1, free |-> <<>>]
             ELSE [name |-> oldCallbacks[Len(oldCallbacks)], free |-> SubSeq(oldCallbacks, 1, Len(oldCallbacks) - 1)]

(* jQuery.ajax up to beforeSend: the prefilters, of which that for JSONP   *)
(* installs its callback, and the count of active requests.                *)
MakeRequest ==
  /\ AjaxPageRuns /\ Len(requests) < MaxRequests
  /\ \E kind \in {"xhr", "jsonp"} :
       LET r == Len(requests) + 1
           name == IF kind = "jsonp" THEN TakenName.name ELSE 0
       IN  /\ requests' = Append(requests,
                [kind |-> kind, state |-> 0, transport |-> FALSE, timer |-> FALSE,
                 network |-> "none", name |-> name, response |-> 0, outcome |-> "none"])
           /\ IF kind = "jsonp"
              THEN /\ oldCallbacks' = TakenName.free
                   /\ names' = IF oldCallbacks = <<>> THEN names + 1 ELSE names
                   /\ windowNames' = [i \in 1 .. names' |-> IF i = name THEN r ELSE windowNames[i]]
                   /\ UNCHANGED <<active, busy>>
              ELSE /\ active' = active + 1
                   /\ busy' = (busy \/ active = 0)
                   /\ UNCHANGED jsonpVars
           /\ work' = <<<<"beforeSend", r>>>> \o work
  /\ UNCHANGED <<overlapped, leaked, again>>

(* done(r, outcome), with then to be done afterwards: nothing if the       *)
(* request is over.  The first of its callbacks is that of JSONP, which    *)
(* gives the name back.                                                    *)
Done(r, request, outcome, then) ==
  IF request.state = 2
  THEN requests' = [requests EXCEPT ![r] = request] /\ work' = then /\ UNCHANGED jsonpVars
  ELSE /\ requests' = [requests EXCEPT ![r] =
                         [request EXCEPT !.state = 2, !.transport = FALSE, !.timer = FALSE,
                                   !.outcome = IF @ = "none" THEN outcome ELSE @]]
       /\ work' = <<<<"callbacks", r>>, <<"leave", r>>>> \o then
       /\ UNCHANGED names
       /\ IF request.name # 0
          THEN /\ windowNames' = [windowNames EXCEPT ![request.name] = 0]
               /\ oldCallbacks' = Append(oldCallbacks, request.name)
          ELSE UNCHANGED <<oldCallbacks, windowNames>>

(* The end of done: the count of active requests. *)
Leave ==
  /\ Todo("leave")
  /\ IF IsGlobal(It)
     THEN active' = active - 1 /\ busy' = (busy /\ active # 1)
     ELSE UNCHANGED <<active, busy>>
  /\ work' = After
  /\ UNCHANGED <<requests, jsonpVars, overlapped, leaked, again>>

CallbacksReturn ==
  /\ Todo("callbacks")
  /\ work' = After
  /\ UNCHANGED <<requests, active, busy, jsonpVars, overlapped, leaked, again>>

(* beforeSend returns; false cancels the request.  The mutant then leaves   *)
(* it alone.                                                               *)
CancelledSilently ==
  requests' = [requests EXCEPT ![It].state = 2, ![It].outcome = "failure"] /\ work' = After /\ UNCHANGED jsonpVars
Cancelled == Done(It, requests[It], "failure", After)

BeforeSendReturns ==
  /\ Todo("beforeSend")
  /\ \/ Cancelled
     \/ /\ requests[It].state # 2
        /\ requests' = [requests EXCEPT ![It].transport = TRUE]
        /\ work' = (IF IsGlobal(It) THEN <<<<"ajaxSend", It>>>> ELSE <<>>) \o <<<<"send", It>>>> \o After
        /\ UNCHANGED jsonpVars
  /\ UNCHANGED <<active, busy, overlapped, leaked, again>>

AjaxSendReturns ==
  /\ Todo("ajaxSend")
  /\ work' = After
  /\ UNCHANGED <<requests, active, busy, jsonpVars, overlapped, leaked, again>>

(* The timer, if the request has a timeout, and the transport.  A request  *)
(* that a handler of ajaxSend has aborted has no transport any more; the   *)
(* exception ends it once more.                                            *)
Send ==
  /\ Todo("send")
  /\ \E timeout \in BOOLEAN :
       LET request == [requests[It] EXCEPT !.timer = timeout, !.state = 1]
       IN  \/ /\ request.transport
              /\ requests' = [requests EXCEPT ![It] = [request EXCEPT !.network = "pending"]]
              /\ work' = After
              /\ UNCHANGED jsonpVars
           \/ Done(It, request, "failure", After)
  /\ again' = IF IsGlobal(It) /\ requests[It].state = 2 THEN again + 1 ELSE again
  /\ UNCHANGED <<active, busy, overlapped, leaked>>

(* A callback, beforeSend or a handler of ajaxSend throws: nothing of       *)
(* jQuery.ajax or done catches it, and the rest of what the script had to   *)
(* do is cut off, up to the code of the page that catches it, if any.       *)
Ends(steps) == Cardinality({i \in DOMAIN steps : steps[i][1] = "leave" /\ IsGlobal(steps[i][2])})

AjaxPageThrows ==
  /\ AjaxPageRuns
  /\ \E n \in DOMAIN work : work' = SubSeq(work, n + 1, Len(work))
  /\ AjaxPageRuns'
  /\ leaked' = leaked + Ends(work) - Ends(work')
  /\ UNCHANGED <<requests, active, busy, jsonpVars, overlapped, again>>

(* jqXHR.abort: the answer of an XMLHttpRequest does not come any more; a  *)
(* script is taken from the document, which may be too late.               *)
AbortRequest(r, then) ==
  LET cut == [none |-> "none", pending |-> IF requests[r].kind = "xhr" THEN "none" ELSE "cut",
              ran |-> "none", cut |-> "cut"]
  IN  Done(r, [requests[r] EXCEPT !.network = IF requests[r].transport THEN cut[@] ELSE @], "failure", then)

PageAborts ==
  /\ AjaxPageRuns
  /\ \E r \in DOMAIN requests : requests[r].state # 2 /\ AbortRequest(r, work)
  /\ UNCHANGED <<active, busy, overlapped, leaked, again>>

TimerFires ==
  /\ work = <<>>
  /\ \E r \in DOMAIN requests : requests[r].timer /\ AbortRequest(r, <<>>)
  /\ UNCHANGED <<active, busy, overlapped, leaked, again>>

-----------------------------------------------------------------------------
(* ajaxHandleResponses and ajaxConvert: an answer with the status of a      *)
(* success may still end in "parsererror".                                 *)
Conversions == {"success", "failure"}

AnswerArrives ==
  /\ work = <<>>
  /\ \E r \in DOMAIN requests, outcome \in Conversions :
       /\ requests[r].kind = "xhr" /\ requests[r].network = "pending"
       /\ Done(r, [requests[r] EXCEPT !.network = "none"], outcome, <<>>)
  /\ UNCHANGED <<active, busy, overlapped, leaked, again>>

(* The script of JSONP calls what its name stands for by then, if anything; *)
(* a script that was taken away may be fetched already and runs as well.   *)
ScriptRuns ==
  /\ work = <<>>
  /\ \E r \in DOMAIN requests :
       /\ requests[r].kind = "jsonp" /\ requests[r].network \in {"pending", "cut"}
       /\ LET reached == windowNames[requests[r].name]
          IN  requests' = [i \in DOMAIN requests |->
                [requests[i] EXCEPT !.response = IF i = reached THEN r ELSE @,
                                    !.network = IF i # r THEN @ ELSE IF @ = "cut" THEN "none" ELSE "ran"]]
       /\ overlapped' = (overlapped \/ requests[r].network = "cut")
  /\ UNCHANGED <<active, busy, jsonpVars, work, leaked, again>>

(* It is loaded; or it could not be, and nobody is told. *)
ScriptLoads ==
  /\ work = <<>>
  /\ \E r \in DOMAIN requests :
       /\ requests[r].network = "ran"
       /\ Done(r, [requests[r] EXCEPT !.network = "none"],
               IF requests[r].response = 0 THEN "failure" ELSE "success", <<>>)
  /\ UNCHANGED <<active, busy, overlapped, leaked, again>>

ScriptFails ==
  /\ work = <<>>
  /\ \E r \in DOMAIN requests :
       /\ requests[r].kind = "jsonp" /\ requests[r].network \in {"pending", "cut"}
       /\ requests' = [requests EXCEPT ![r].network = "none"]
  /\ UNCHANGED <<active, busy, jsonpVars, work, overlapped, leaked, again>>

AjaxNext ==
  \/ MakeRequest \/ Leave \/ CallbacksReturn \/ BeforeSendReturns \/ AjaxSendReturns \/ Send
  \/ AjaxPageThrows \/ PageAborts \/ TimerFires \/ AnswerArrives \/ ScriptRuns \/ ScriptLoads \/ ScriptFails

AjaxSpec == AjaxInit /\ [][AjaxNext]_ajaxVars

-----------------------------------------------------------------------------
(* Between scripts, jQuery.active is the number of global requests that    *)
(* are not over, but for two kinds of mistakes that it keeps for ever: an   *)
(* exception in a callback skips the decrement (8252-8273), and a request   *)
(* that a handler of ajaxSend has aborted ends, and is counted down, twice  *)
(* (8152-8160).  As long as no request ended twice, ajaxStart and ajaxStop  *)
(* frame the time in which the count is positive                           *)
(* (jquery-1.10.1.js:8053-8056,8268-8275).                                 *)
ActiveCounts ==
  work = <<>> =>
    /\ active = Cardinality({r \in DOMAIN requests : IsGlobal(r) /\ requests[r].state # 2}) + leaked - again
    /\ again = 0 => (busy <=> active > 0)

(* The names of JSONP callbacks are used again, yet each request gets its   *)
(* own response, or none, as long as no script of a request that was        *)
(* aborted runs late (jquery-1.10.1.js:8545-8624).                         *)
AnswersReachTheirRequest ==
  ~overlapped =>
    \A r \in DOMAIN requests :
      /\ requests[r].response \in {0, r}
      /\ requests[r].kind = "jsonp" /\ requests[r].outcome = "success" => requests[r].response = r

=============================================================================
