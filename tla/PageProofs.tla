----------------------------- MODULE PageProofs -----------------------------
(***************************************************************************)
(* Theorems about the parts of a page, each on its own, as Page runs them:  *)
(* the ready document, the report of phantomquail.js, requests, and what   *)
(* jQuery keeps for the elements of a page.                                *)
(***************************************************************************)
EXTENDS Ready, PhantomQuail, Ajax, ElementData, FiniteSetTheorems, SequenceTheorems, TLAPS

(***************************************************************************)
(* The ready document                                                      *)
(***************************************************************************)
ReadyTypes ==
  /\ document \in {"loading", "interactive", "complete"}
  /\ body \in BOOLEAN
  /\ readyWait \in Int
  /\ isReady \in BOOLEAN
  /\ readyList \in {"none", "pending", "resolved"}
  /\ listening \in BOOLEAN
  /\ readyTimers \in Nat
  /\ holds \in Nat
  /\ releases \in Nat

(* readyWait counts those who hold, and the browser until it is ready. *)
WaitCounts ==
  /\ releases <= holds
  /\ isReady => readyWait = holds - releases
  /\ ~isReady => readyWait = 1 + holds - releases

(* Someone will still call jQuery.ready, unless a hold is what is missing. *)
ReadyIsAwaited ==
  /\ document = "complete" => body
  /\ isReady => body /\ readyList # "none"
  /\ readyList = "none" => ~listening /\ readyTimers = 0
  /\ readyList = "resolved" => isReady
  /\ readyList = "pending" /\ isReady => releases < holds
  /\ readyList = "pending" /\ ~isReady => listening \/ readyTimers > 0
  /\ listening => document # "complete"

ReadyInv == ReadyTypes /\ WaitCounts /\ ReadyIsAwaited

LEMMA ReadyStarts == ReadyInit => ReadyInv
<1>. SUFFICES ASSUME ReadyInit PROVE ReadyInv
  OBVIOUS
<1>1. /\ document \in {"loading", "interactive", "complete"}
      /\ body \in BOOLEAN
      /\ isReady \in BOOLEAN
      /\ readyList \in {"none", "pending", "resolved"}
      /\ listening \in BOOLEAN
  BY Zenon DEF ReadyInit
<1>2. readyWait \in Int /\ readyTimers \in Nat /\ holds \in Nat /\ releases \in Nat
  <2>1. readyWait = 1 /\ readyTimers = 0 /\ holds = 0 /\ releases = 0
    BY DEF ReadyInit
  <2>. QED
    BY <2>1
<1>3. WaitCounts
  BY DEF ReadyInit, WaitCounts
<1>4. ReadyIsAwaited
  BY Zenon DEF ReadyInit, ReadyIsAwaited
<1>. QED
  BY <1>1, <1>2, <1>3, <1>4 DEF ReadyInv, ReadyTypes

(* What a call of jQuery.ready comes to: nothing, a timer, or the ready    *)
(* document, whose callbacks run unless someone holds them.                *)
CallOutcome(pending) ==
  \/ /\ isReady /\ readyTimers' = pending
     /\ UNCHANGED <<readyWait, isReady, readyList>>
  \/ /\ ~isReady /\ ~body /\ readyTimers' = pending + 1
     /\ UNCHANGED <<readyWait, isReady, readyList>>
  \/ /\ ~isReady /\ body /\ isReady' = TRUE
     /\ readyWait' = readyWait - 1 /\ readyTimers' = pending
     /\ \/ readyWait - 1 > 0 /\ UNCHANGED readyList
        \/ ~(readyWait - 1 > 0) /\ readyList' = "resolved"

(* The same of a release.                                                  *)
ReleaseOutcome(pending) ==
  \/ /\ readyWait - 1 # 0 /\ readyWait' = readyWait - 1 /\ readyTimers' = pending
     /\ UNCHANGED <<isReady, readyList>>
  \/ /\ readyWait - 1 = 0 /\ ~body
     /\ readyWait' = readyWait - 1 /\ readyTimers' = pending + 1
     /\ UNCHANGED <<isReady, readyList>>
  \/ /\ readyWait - 1 = 0 /\ body /\ isReady' = TRUE
     /\ readyWait' = readyWait - 1 /\ readyTimers' = pending
     /\ readyList' = "resolved"

LEMMA CallOfReady ==
  ASSUME NEW pending, JQueryReady(FALSE, pending)
  PROVE  CallOutcome(pending)
  BY DEF CallOutcome, JQueryReady, ResolveReady

LEMMA CallOfRelease ==
  ASSUME NEW pending, JQueryReady(TRUE, pending)
  PROVE  ReleaseOutcome(pending)
  BY DEF ReleaseOutcome, JQueryReady, ResolveReady

LEMMA ReadyKeepsTypes ==
  ASSUME ReadyInv, NEW pending \in Nat, CallOutcome(pending) \/ ReleaseOutcome(pending)
  PROVE  /\ readyWait' \in Int /\ readyTimers' \in Nat
         /\ isReady' \in BOOLEAN
         /\ readyList' \in {"none", "pending", "resolved"}
<1>. USE DEF ReadyInv, ReadyTypes, CallOutcome, ReleaseOutcome
<1>1. readyWait' \in Int /\ readyTimers' \in Nat
  OBVIOUS
<1>2. isReady' \in BOOLEAN
  BY Zenon
<1>3. readyList' \in {"none", "pending", "resolved"}
  BY Zenon
<1>. QED
  BY <1>1, <1>2, <1>3

(* A call of jQuery.ready by the browser or by its timer.                  *)
LEMMA ReadyKeepsCount ==
  ASSUME ReadyInv, NEW pending \in Nat, CallOutcome(pending),
         readyList # "none", body' = body, holds' = holds, releases' = releases,
         document' = "complete" => body,
         listening' => document' # "complete"
  PROVE  WaitCounts' /\ ReadyIsAwaited'
<1>. USE DEF ReadyInv, ReadyTypes, CallOutcome
<1>1. WaitCounts'
  BY DEF WaitCounts
<1>2. readyList' # "none"
  BY Zenon
<1>3. (isReady' => body') /\ (readyList' = "resolved" => isReady')
  <2>1. CASE isReady' = isReady /\ readyList' = readyList
    BY <2>1 DEF ReadyIsAwaited
  <2>2. CASE body /\ isReady' = TRUE
    BY <2>2
  <2>. QED
    BY <2>1, <2>2
<1>4. readyList' = "pending" /\ isReady' => releases' < holds'
  <2>1. CASE readyList' = readyList /\ isReady' = isReady
    BY <2>1 DEF ReadyIsAwaited
  <2>2. CASE readyWait' = readyWait - 1 /\ readyWait - 1 > 0 /\ isReady'
    BY <1>1, <2>2 DEF WaitCounts
  <2>3. CASE readyList' = "resolved"
    BY <2>3
  <2>. QED
    BY <2>1, <2>2, <2>3
<1>5. readyList' = "pending" /\ ~isReady' => listening' \/ readyTimers' > 0
  <2>1. CASE isReady' = isReady /\ isReady
    BY <2>1
  <2>2. CASE readyTimers' = pending + 1
    BY <2>2
  <2>3. CASE isReady' = TRUE
    BY <2>3
  <2>. QED
    BY <2>1, <2>2, <2>3
<1>. QED
  BY <1>1, <1>2, <1>3, <1>4, <1>5, Zenon DEF ReadyIsAwaited

LEMMA ReadySteps ==
  ASSUME ReadyInv, [ReadyNext]_readyVars
  PROVE  ReadyInv'
<1>. USE DEF ReadyInv, ReadyTypes
<1>1. CASE ReadyPromise
  <2>1. readyTimers' \in Nat /\ readyWait' \in Int /\ holds' \in Nat /\ releases' \in Nat
    BY <1>1 DEF ReadyPromise
  <2>2. /\ document' \in {"loading", "interactive", "complete"}
        /\ readyList' \in {"none", "pending", "resolved"}
    BY <1>1 DEF ReadyPromise
  <2>3. body' \in BOOLEAN /\ isReady' \in BOOLEAN /\ listening' \in BOOLEAN
    BY <1>1, Zenon DEF ReadyPromise
  <2>4. WaitCounts' /\ ReadyIsAwaited'
    BY <1>1 DEF ReadyPromise, WaitCounts, ReadyIsAwaited
  <2>. QED
    BY <2>1, <2>2, <2>3, <2>4
<1>2. CASE BodyAppears
  BY <1>2 DEF BodyAppears, WaitCounts, ReadyIsAwaited
<1>3. CASE DomContentLoaded \/ WindowLoad
  <2>1. /\ LoadCompleted /\ body' = body /\ holds' = holds /\ releases' = releases
        /\ document' \in {"interactive", "complete"} /\ (document' = "complete" => body)
    BY <1>3, Zenon DEF DomContentLoaded, WindowLoad
  <2>2. CASE listening
    <3>1. CallOutcome(readyTimers) /\ listening' = FALSE
      BY <2>1, <2>2, CallOfReady DEF LoadCompleted
    <3>2. readyList # "none"
      BY <2>2 DEF ReadyIsAwaited
    <3>3. WaitCounts' /\ ReadyIsAwaited'
      BY <2>1, <3>1, <3>2, ReadyKeepsCount
    <3>4. ReadyTypes'
      BY <2>1, <3>1, ReadyKeepsTypes
    <3>. QED
      BY <3>3, <3>4
  <2>3. CASE ~listening
    <3>1. UNCHANGED <<readyWait, isReady, readyList, listening, readyTimers>>
      BY <2>1, <2>3 DEF LoadCompleted
    <3>2. ReadyTypes'
      BY <2>1, <3>1
    <3>3. WaitCounts' /\ ReadyIsAwaited'
      BY <2>1, <2>3, <3>1 DEF WaitCounts, ReadyIsAwaited
    <3>. QED
      BY <3>2, <3>3
  <2>. QED
    BY <2>2, <2>3
<1>4. CASE ReadyTimer
  <2>1. readyTimers > 0 /\ CallOutcome(readyTimers - 1)
    BY <1>4, CallOfReady DEF ReadyTimer
  <2>2. readyTimers - 1 \in Nat
    BY <2>1
  <2>3. /\ document' = document /\ body' = body /\ listening' = listening
        /\ holds' = holds /\ releases' = releases
    BY <1>4 DEF ReadyTimer
  <2>4. readyList # "none"
    BY <2>1 DEF ReadyIsAwaited
  <2>5. WaitCounts' /\ ReadyIsAwaited'
    BY <2>1, <2>2, <2>3, <2>4, ReadyKeepsCount DEF ReadyIsAwaited
  <2>6. ReadyTypes'
    BY <2>1, <2>2, <2>3, ReadyKeepsTypes
  <2>. QED
    BY <2>5, <2>6
<1>5. CASE HoldReady
  BY <1>5 DEF HoldReady, WaitCounts, ReadyIsAwaited
<1>6. CASE ReleaseReady
  <2>1. ReleaseOutcome(readyTimers)
    BY <1>6, CallOfRelease DEF ReleaseReady
  <2>2. /\ document' = document /\ body' = body /\ listening' = listening
        /\ holds' = holds /\ releases < holds /\ releases' = releases + 1
    BY <1>6 DEF ReleaseReady
  <2>3. readyWait - 1 = 0 => isReady /\ body /\ readyList # "none"
    BY <2>2 DEF WaitCounts, ReadyIsAwaited
  <2>4. /\ readyTimers' = readyTimers /\ readyWait' = readyWait - 1
        /\ \/ readyWait - 1 # 0 /\ UNCHANGED <<isReady, readyList>>
           \/ readyWait - 1 = 0 /\ isReady' = TRUE /\ readyList' = "resolved"
    BY <2>1, <2>3 DEF ReleaseOutcome
  <2>5. WaitCounts'
    BY <2>2, <2>3, <2>4 DEF WaitCounts
  <2>6. ReadyIsAwaited'
    BY <2>2, <2>3, <2>4 DEF WaitCounts, ReadyIsAwaited
  <2>7. releases' \in Nat
    BY <2>2
  <2>8. ReadyTypes'
    BY <2>1, <2>2, <2>7, ReadyKeepsTypes
  <2>. QED
    BY <2>5, <2>6, <2>8
<1>7. CASE UNCHANGED readyVars
  BY <1>7 DEF readyVars, WaitCounts, ReadyIsAwaited
<1>. QED
  BY <1>1, <1>2, <1>3, <1>4, <1>5, <1>6, <1>7 DEF ReadyNext

(* The step that runs the callbacks comes when nobody holds them.          *)
LEMMA ReadyResolves ==
  ASSUME ReadyInv, [ReadyNext]_readyVars, readyList' = "resolved", readyList # "resolved"
  PROVE  isReady' /\ body /\ releases' = holds
<1>. USE DEF ReadyInv, ReadyTypes, WaitCounts, ReadyIsAwaited
<1>1. CASE DomContentLoaded \/ WindowLoad
  BY <1>1 DEF DomContentLoaded, WindowLoad, LoadCompleted, JQueryReady, ResolveReady
<1>2. CASE ReadyTimer
  BY <1>2 DEF ReadyTimer, JQueryReady, ResolveReady
<1>3. CASE ReleaseReady
  BY <1>3 DEF ReleaseReady, JQueryReady, ResolveReady
<1>4. CASE ReadyPromise \/ BodyAppears \/ HoldReady \/ UNCHANGED readyVars
  BY <1>4 DEF ReadyPromise, BodyAppears, HoldReady, readyVars
<1>. QED
  BY <1>1, <1>2, <1>3, <1>4 DEF ReadyNext

(* Whatever the order of holds, releases and the events of the browser,    *)
(* readyWait counts those who hold, and someone is going to call            *)
(* jQuery.ready (jquery-1.10.1.js:403-440,917-976).                        *)
THEOREM ReadyInvariance == ReadySpec => []ReadyInv
<1>1. ReadyInit => ReadyInv
  BY ReadyStarts
<1>2. ReadyInv /\ [ReadyNext]_readyVars => ReadyInv'
  BY ReadySteps
<1>. QED
  BY <1>1, <1>2, PTL DEF ReadySpec

(* The callbacks run when the browser has a body and everyone who held     *)
(* them has released them (jquery-1.10.1.js:413-439).                      *)
THEOREM ReadyIsNotEarly == ReadySpec => ReadyIsReleased
<1>1. ReadyInv /\ [ReadyNext]_readyVars =>
        [readyList' = "resolved" /\ readyList # "resolved" =>
           isReady' /\ body /\ releases' = holds]_readyVars
  BY ReadyResolves
<1>. QED
  BY <1>1, ReadyInvariance, PTL DEF ReadySpec, ReadyIsReleased

(* When the page is complete and nobody holds the callbacks, nothing keeps *)
(* them from running (jquery-1.10.1.js:917-976).                           *)
THEOREM ReadyIsNotLost == ReadySpec => []ReadyComes
<1>1. ReadyInv => ReadyComes
  BY DEF ReadyInv, ReadyTypes, WaitCounts, ReadyIsAwaited, ReadyComes
<1>. QED
  BY <1>1, ReadyInvariance, PTL

(***************************************************************************)
(* The report                                                              *)
(***************************************************************************)
(* As long as the page is open nothing has been written, and a page whose   *)
(* script can report finds the counter at the one report it stands for.    *)
QuailInv ==
  /\ evaluations \in Nat
  /\ len \in Int
  /\ phase \in {"start", "open", "exiting", "ended"}
  /\ phase = "start" => evaluations = 0
  /\ phase \in {"start", "open"} => output = {}
  /\ phase = "open" /\ reports # "broken" /\ evaluations > 0 => len = 1
  /\ output # {} => output = {page} /\ results = output

LEMMA QuailStarts == QuailInit => QuailInv
<1>1. QuailInit => phase = "start" /\ len = 0 /\ output = {} /\ evaluations = 0
  BY DEF QuailInit
<1>. QED
  BY <1>1 DEF QuailInv

LEMMA QuailSteps ==
  ASSUME QuailInv, [QuailNext]_quailVars
  PROVE  QuailInv'
<1>. USE DEF QuailInv
<1>1. CASE RunScript
  BY <1>1 DEF RunScript
<1>2. CASE LoadFinishes
  BY <1>2 DEF LoadFinishes, SetCounter
<1>3. CASE AnotherPage
  BY <1>3 DEF AnotherPage
<1>4. CASE WriteData
  BY <1>4 DEF WriteData
<1>5. CASE PhantomExits
  BY <1>5 DEF PhantomExits
<1>6. CASE UNCHANGED quailVars
  BY <1>6 DEF quailVars
<1>. QED
  BY <1>1, <1>2, <1>3, <1>4, <1>5, <1>6 DEF QuailNext

(* However often loading finishes and whatever pages follow each other,    *)
(* the report that is written is that of the page in the browser, and it   *)
(* ends the process (phantomquail.js:112-156).                             *)
THEOREM ReportIsOfThePage == QuailSpec => []ReportsArrive
<1>1. QuailInit => QuailInv
  BY QuailStarts
<1>2. QuailInv /\ [QuailNext]_quailVars => QuailInv'
  BY QuailSteps
<1>3. QuailInv => ReportsArrive
  BY DEF QuailInv, ReportsArrive
<1>. QED
  BY <1>1, <1>2, <1>3, PTL DEF QuailSpec

(***************************************************************************)
(* JSONP                                                                   *)
(***************************************************************************)
Ids == 1 .. Len(requests)
Requests ==
  [kind : {"xhr", "jsonp"}, state : {0, 1, 2}, transport : BOOLEAN, timer : BOOLEAN,
   network : {"none", "pending", "ran", "cut"}, name : Nat, response : Nat, outcome : {"none", "success", "failure"}]
WorkSteps == {"beforeSend", "ajaxSend", "send", "callbacks", "leave"} \X Nat

(* A request that is not over has its name to itself, and only a request    *)
(* that has a transport waits for its script.                              *)
RequestFits(r) ==
  /\ requests[r].kind = "xhr" => requests[r].name = 0 /\ requests[r].network \in {"none", "pending"}
  /\ requests[r].kind = "jsonp" => requests[r].name \in 1 .. names
  /\ requests[r].kind = "jsonp" /\ requests[r].state # 2 => windowNames[requests[r].name] = r
  /\ requests[r].transport => requests[r].state # 2
  /\ requests[r].kind = "jsonp" /\ requests[r].network \in {"pending", "ran"} => requests[r].transport
  /\ ~overlapped => requests[r].response \in {0, r}
  /\ ~overlapped /\ requests[r].kind = "jsonp" /\ requests[r].outcome = "success" => requests[r].response = r

RequestsFit ==
  /\ requests \in Seq(Requests)
  /\ names \in Nat
  /\ windowNames \in [1 .. names -> Nat]
  /\ \A r \in Ids : RequestFits(r)

(* The free names are free, and each is in the list once. *)
NamesAreFree ==
  /\ oldCallbacks \in Seq(Nat)
  /\ \A i \in 1 .. Len(oldCallbacks) : oldCallbacks[i] \in 1 .. names /\ windowNames[oldCallbacks[i]] = 0
  /\ \A i, j \in 1 .. Len(oldCallbacks) : oldCallbacks[i] = oldCallbacks[j] => i = j

(* What is left to do: beforeSend comes once and before the transport, and *)
(* nothing comes between it and the sending of a JSONP request.            *)
WorkFits(steps, rs) ==
  /\ steps \in Seq(WorkSteps)
  /\ \A i \in 1 .. Len(steps) : steps[i][2] \in 1 .. Len(rs)
  /\ \A i \in 1 .. Len(steps) : steps[i][1] = "beforeSend" => ~rs[steps[i][2]].transport
  /\ \A i, j \in 1 .. Len(steps) : steps[i][1] = "beforeSend" /\ steps[i] = steps[j] => i = j

NoScriptToSend(steps, rs) ==
  \A i \in 1 .. Len(steps) : steps[i][1] = "send" => rs[steps[i][2]].kind = "xhr"

SendIsNext ==
  \A i \in 1 .. Len(work) : work[i][1] = "send" /\ requests[work[i][2]].kind = "jsonp" =>
    i = 1 /\ requests[work[i][2]].transport /\ requests[work[i][2]].network \notin {"pending", "ran"}

AjaxInv == RequestsFit /\ NamesAreFree /\ WorkFits(work, requests) /\ SendIsNext

LEMMA AjaxStarts == AjaxInit => AjaxInv
<1>. SUFFICES ASSUME AjaxInit PROVE AjaxInv
  OBVIOUS
<1>1. requests = <<>> /\ oldCallbacks = <<>> /\ names = 0 /\ windowNames = <<>> /\ work = <<>>
  BY DEF AjaxInit
<1>2. windowNames \in [1 .. names -> Nat]
  BY <1>1
<1>. QED
  BY <1>1, <1>2 DEF AjaxInv, RequestsFit, NamesAreFree, WorkFits, SendIsNext, Ids

LEMMA Replaced ==
  ASSUME requests \in Seq(Requests), NEW r \in Ids, NEW new \in Requests,
         requests' = [requests EXCEPT ![r] = new]
  PROVE  /\ requests' \in Seq(Requests)
         /\ Ids' = Ids
         /\ requests'[r] = new
         /\ \A q \in Ids : q # r => requests'[q] = requests[q]
  BY ExceptSeq DEF Ids

LEMMA Popped ==
  ASSUME AjaxInv, work # <<>>
  PROVE  /\ Head(work) = work[1] /\ It \in Ids
         /\ WorkFits(After, requests) /\ NoScriptToSend(After, requests)
         /\ \A i \in 1 .. Len(After) : After[i] = work[i + 1]
         /\ Len(After) = Len(work) - 1
<1>. USE DEF AjaxInv, WorkFits, Ids
<1>1. After \in Seq(WorkSteps) /\ Len(After) = Len(work) - 1 /\ Len(work) \in Nat \ {0}
  BY HeadTailProperties, EmptySeq DEF After
<1>2. \A i \in 1 .. Len(After) : After[i] = work[i + 1]
  BY HeadTailProperties DEF After
<1>3. Head(work) = work[1]
  OBVIOUS
<1>4. It \in Ids
  BY <1>1, <1>3 DEF It
<1>5. \A i \in 1 .. Len(After) : i + 1 \in 1 .. Len(work) /\ i + 1 # 1
  BY <1>1
<1>6. WorkFits(After, requests)
  <2>1. \A i \in 1 .. Len(After) : After[i][2] \in Ids
    BY <1>2, <1>5
  <2>2. \A i \in 1 .. Len(After) : After[i][1] = "beforeSend" => ~requests[After[i][2]].transport
    BY <1>2, <1>5
  <2>3. \A i, j \in 1 .. Len(After) : After[i][1] = "beforeSend" /\ After[i] = After[j] => i + 1 = j + 1
    BY <1>2, <1>5
  <2>4. \A i, j \in 1 .. Len(After) : i + 1 = j + 1 => i = j
    BY <1>1
  <2>. QED
    BY <1>1, <2>1, <2>2, <2>3, <2>4
<1>7. \A i \in 1 .. Len(work) : work[i][2] \in Ids /\ requests[work[i][2]].kind \in {"xhr", "jsonp"}
  <2>1. \A r \in Ids : requests[r] \in Requests
    BY ElementOfSeq DEF RequestsFit, Ids
  <2>. QED
    BY <2>1 DEF Requests
<1>8. NoScriptToSend(After, requests)
  BY <1>1, <1>2, <1>5, <1>7 DEF NoScriptToSend, SendIsNext
<1>. QED
  BY <1>1, <1>2, <1>3, <1>4, <1>6, <1>8

(* A step that leaves the requests alone and goes on with these steps.      *)
LEMMA RestFits ==
  ASSUME AjaxInv, NEW then, WorkFits(then, requests), NoScriptToSend(then, requests),
         requests' = requests, UNCHANGED jsonpVars, UNCHANGED overlapped, work' = then
  PROVE  AjaxInv'
<1>1. Ids' = Ids
  BY DEF Ids
<1>2. RequestsFit'
  BY <1>1 DEF AjaxInv, RequestsFit, RequestFits, jsonpVars
<1>3. NamesAreFree'
  BY DEF AjaxInv, NamesAreFree, jsonpVars
<1>4. WorkFits(work', requests')
  BY <1>1 DEF WorkFits, Ids
<1>5. SendIsNext'
  <2>1. \A i \in 1 .. Len(then) : then[i][1] = "send" => requests[then[i][2]].kind # "jsonp"
    BY DEF NoScriptToSend
  <2>. QED
    BY <2>1 DEF SendIsNext
<1>. QED
  BY <1>2, <1>3, <1>4, <1>5 DEF AjaxInv

(* When code of the page runs, no script waits to be sent.                  *)
LEMMA PageHasNoSend ==
  ASSUME AjaxInv, AjaxPageRuns
  PROVE  WorkFits(work, requests) /\ NoScriptToSend(work, requests)
<1>1. WorkFits(work, requests)
  BY DEF AjaxInv
<1>2. CASE work = <<>>
  BY <1>1, <1>2 DEF NoScriptToSend
<1>3. CASE work # <<>>
  <2>1. work[1][1] \in {"beforeSend", "ajaxSend", "callbacks"}
    BY <1>3, Popped DEF AjaxPageRuns
  <2>2. \A i \in 1 .. Len(work) : work[i][1] = "send" => requests[work[i][2]].kind # "jsonp"
    BY <2>1 DEF AjaxInv, SendIsNext
  <2>3. \A i \in 1 .. Len(work) : requests[work[i][2]].kind \in {"xhr", "jsonp"}
    <3>1. \A r \in Ids : requests[r] \in Requests
      BY ElementOfSeq DEF AjaxInv, RequestsFit, Ids
    <3>. QED
      BY <1>1, <3>1 DEF WorkFits, Requests, Ids
  <2>. QED
    BY <1>1, <2>2, <2>3 DEF NoScriptToSend
<1>. QED
  BY <1>2, <1>3

(* A request keeps what it has, as long as its name is left alone.          *)
LEMMA OtherFits ==
  ASSUME NEW q, RequestFits(q), requests'[q] = requests[q],
         names \in Nat, names' \in Nat, names <= names', overlapped' = overlapped,
         \A n \in 1 .. names : windowNames[n] = q => windowNames'[n] = q
  PROVE  RequestFits(q)'
  BY DEF RequestFits

(* Steps that may come before those that were left, and what this makes.   *)
MayPrecede(top, then, rs) ==
  /\ top \in Seq(WorkSteps)
  /\ \A i \in 1 .. Len(top) : top[i][2] \in 1 .. Len(rs)
  /\ \A i \in 1 .. Len(top) : top[i][1] = "beforeSend" =>
       /\ Len(top) = 1 /\ ~rs[top[i][2]].transport
       /\ \A j \in 1 .. Len(then) : then[j] # top[i]

ComesFrom(steps, top, then) ==
  \A i \in 1 .. Len(steps) : \/ i \in 1 .. Len(top) /\ steps[i] = top[i]
                            \/ \E j \in 1 .. Len(then) : steps[i] = then[j]

LEMMA Stacked ==
  ASSUME NEW rs, NEW top, NEW then, WorkFits(then, rs), MayPrecede(top, then, rs)
  PROVE  WorkFits(top \o then, rs) /\ ComesFrom(top \o then, top, then)
<1>. DEFINE steps == top \o then
<1>. DEFINE n == Len(top)
<1>1. then \in Seq(WorkSteps) /\ Len(then) \in Nat /\ n \in Nat
  BY LenProperties DEF WorkFits, MayPrecede
<1>2. /\ top \o then \in Seq(WorkSteps) /\ Len(top \o then) = n + Len(then)
      /\ \A i \in 1 .. n + Len(then) :
           (top \o then)[i] = IF i <= n THEN top[i] ELSE then[i - n]
  BY <1>1, ConcatProperties DEF MayPrecede
<1>3. /\ steps \in Seq(WorkSteps) /\ Len(steps) = n + Len(then)
      /\ \A i \in 1 .. Len(steps) : IF i <= n THEN i \in 1 .. n /\ steps[i] = top[i]
                                   ELSE i - n \in 1 .. Len(then) /\ steps[i] = then[i - n]
  BY <1>1, <1>2
<1>. HIDE DEF n, steps
<1>4. \A i \in 1 .. Len(steps) : steps[i][2] \in 1 .. Len(rs)
  BY <1>3 DEF n, WorkFits, MayPrecede
<1>5. \A i \in 1 .. Len(steps) : steps[i][1] = "beforeSend" => ~rs[steps[i][2]].transport
  <2>1. \A i \in 1 .. n : top[i][1] = "beforeSend" => ~rs[top[i][2]].transport
    BY DEF n, MayPrecede
  <2>2. \A i \in 1 .. Len(then) : then[i][1] = "beforeSend" => ~rs[then[i][2]].transport
    BY DEF WorkFits
  <2>. QED
    BY <1>3, <2>1, <2>2
<1>6. ASSUME NEW i \in 1 .. Len(steps), NEW j \in 1 .. Len(steps),
             steps[i][1] = "beforeSend", steps[i] = steps[j]
      PROVE  i = j
  <2>1. steps[j][1] = "beforeSend"
    BY <1>6
  <2>2. CASE i <= n /\ j <= n
    <3>1. n = 1
      BY <1>3, <1>6, <2>2 DEF n, MayPrecede
    <3>. QED
      BY <1>1, <2>2, <3>1
  <2>3. CASE i <= n /\ ~(j <= n)
    <3>1. i \in 1 .. n /\ j - n \in 1 .. Len(then) /\ top[i] = then[j - n] /\ top[i][1] = "beforeSend"
      BY <1>3, <1>6, <2>3
    <3>. QED
      BY <3>1 DEF n, MayPrecede
  <2>4. CASE ~(i <= n) /\ j <= n
    <3>1. j \in 1 .. n /\ i - n \in 1 .. Len(then) /\ top[j] = then[i - n] /\ top[j][1] = "beforeSend"
      BY <1>3, <1>6, <2>1, <2>4
    <3>. QED
      BY <3>1 DEF n, MayPrecede
  <2>5. CASE ~(i <= n) /\ ~(j <= n)
    <3>1. /\ i - n \in 1 .. Len(then) /\ j - n \in 1 .. Len(then)
          /\ then[i - n][1] = "beforeSend" /\ then[i - n] = then[j - n]
      BY <1>3, <1>6, <2>5
    <3>2. i - n = j - n
      BY <3>1 DEF WorkFits
    <3>. QED
      BY <1>1, <3>2
  <2>. QED
    BY <2>2, <2>3, <2>4, <2>5
<1>7. WorkFits(steps, rs)
  BY <1>3, <1>4, <1>5, <1>6 DEF WorkFits
<1>8. \A i \in 1 .. Len(steps) : \/ i \in 1 .. n /\ steps[i] = top[i]
                                \/ \E j \in 1 .. Len(then) : steps[i] = then[j]
  BY <1>3
<1>. QED
  BY <1>7, <1>8 DEF n, steps, ComesFrom

(* done is called for a request that may be over, by a script that then     *)
(* goes on with these steps.                                                *)
LEMMA DoneSteps ==
  ASSUME AjaxInv, NEW r \in Ids, NEW request \in Requests, NEW outcome \in {"success", "failure"}, NEW then,
         Done(r, request, outcome, then), overlapped' = overlapped,
         request.kind = requests[r].kind, request.name = requests[r].name,
         request.response = requests[r].response, request.outcome = requests[r].outcome,
         request.kind = "xhr" => request.network \in {"none", "pending"},
         request.kind = "jsonp" => request.network \notin {"pending", "ran"},
         request.kind = "jsonp" /\ request.state # 2 => requests[r].state # 2,
         request.state = 2 => ~request.transport,
         outcome = "success" /\ request.kind = "jsonp" => requests[r].response # 0,
         WorkFits(then, requests), NoScriptToSend(then, requests)
  PROVE  AjaxInv'
<1>1. requests \in Seq(Requests) /\ requests[r] \in Requests /\ RequestFits(r)
  BY ElementOfSeq DEF AjaxInv, RequestsFit, Ids
<1>2. then \in Seq(WorkSteps)
  BY DEF WorkFits, Ids
<1>3. CASE request.state = 2
  <2>1. requests' = [requests EXCEPT ![r] = request] /\ work' = then /\ UNCHANGED jsonpVars
    BY <1>3 DEF Done
  <2>2. /\ requests' \in Seq(Requests) /\ Ids' = Ids /\ requests'[r] = request
        /\ \A q \in Ids : q # r => requests'[q] = requests[q]
    BY <1>1, <2>1, Replaced
  <2>3. RequestFits(r)'
    BY <1>1, <1>3, <2>1, <2>2 DEF RequestFits, jsonpVars, Requests
  <2>4. \A q \in Ids : RequestFits(q)'
    BY <2>1, <2>2, <2>3 DEF AjaxInv, RequestsFit, RequestFits, jsonpVars
  <2>5. RequestsFit'
    BY <2>1, <2>2, <2>4 DEF AjaxInv, RequestsFit, jsonpVars
  <2>6. NamesAreFree'
    BY <2>1 DEF AjaxInv, NamesAreFree, jsonpVars
  <2>7. WorkFits(then, requests') /\ NoScriptToSend(then, requests')
    BY <1>3, <2>2 DEF WorkFits, NoScriptToSend, Ids
  <2>8. WorkFits(work', requests') /\ SendIsNext'
    BY <2>1, <2>2, <2>7 DEF WorkFits, NoScriptToSend, SendIsNext, Ids
  <2>. QED
    BY <2>5, <2>6, <2>8 DEF AjaxInv
<1>4. CASE request.state # 2
  <2>. DEFINE new == [request EXCEPT !.state = 2, !.transport = FALSE, !.timer = FALSE,
                                    !.outcome = IF @ = "none" THEN outcome ELSE @]
  <2>1. /\ requests' = [requests EXCEPT ![r] = new]
        /\ work' = <<<<"callbacks", r>>, <<"leave", r>>>> \o then
        /\ names' = names
    BY <1>4 DEF Done
  <2>2. IF request.name # 0
        THEN /\ windowNames' = [windowNames EXCEPT ![request.name] = 0]
             /\ oldCallbacks' = Append(oldCallbacks, request.name)
        ELSE UNCHANGED <<oldCallbacks, windowNames>>
    BY <1>4 DEF Done
  <2>3. /\ new \in Requests /\ new.kind = request.kind /\ new.name = request.name
        /\ new.state = 2 /\ new.transport = FALSE /\ new.network = request.network
        /\ new.response = request.response
        /\ new.outcome = "success" => request.outcome = "success" \/ outcome = "success"
    BY DEF Requests
  <2>. HIDE DEF new
  <2>4. /\ requests' \in Seq(Requests) /\ Ids' = Ids /\ requests'[r] = new
        /\ \A q \in Ids : q # r => requests'[q] = requests[q]
    BY <1>1, <2>1, <2>3, Replaced
  <2>5. RequestFits(r)'
    BY <1>1, <2>1, <2>3, <2>4 DEF RequestFits
  <2>6. ASSUME request.name = 0
        PROVE  RequestsFit' /\ NamesAreFree'
    <3>1. UNCHANGED jsonpVars
      BY <2>1, <2>2, <2>6 DEF jsonpVars
    <3>2. \A q \in Ids : q # r => RequestFits(q)'
      BY SMTT(30), <2>4, <3>1 DEF AjaxInv, RequestsFit, RequestFits, jsonpVars
    <3>3. RequestsFit'
      BY <2>4, <2>5, <3>1, <3>2 DEF AjaxInv, RequestsFit, jsonpVars
    <3>4. NamesAreFree'
      BY <3>1 DEF AjaxInv, NamesAreFree, jsonpVars
    <3>. QED
      BY <3>3, <3>4
  <2>7. ASSUME request.name # 0
        PROVE  RequestsFit' /\ NamesAreFree'
    <3>. DEFINE n == request.name
    <3>1. request.kind = "jsonp" /\ n \in 1 .. names /\ windowNames[n] = r
      BY <1>1, <1>4, <2>7 DEF RequestFits, Requests
    <3>2. /\ windowNames' = [windowNames EXCEPT ![n] = 0]
          /\ oldCallbacks' = Append(oldCallbacks, n)
      BY <2>2, <2>7
    <3>3. /\ windowNames \in [1 .. names -> Nat] /\ names \in Nat
          /\ windowNames' \in [1 .. names' -> Nat] /\ windowNames'[n] = 0
          /\ \A m \in 1 .. names : m # n => windowNames'[m] = windowNames[m]
      BY <2>1, <3>1, <3>2 DEF AjaxInv, RequestsFit
    <3>. HIDE DEF n
    <3>4. ASSUME NEW q \in Ids, q # r PROVE RequestFits(q)'
      <4>1. \A m \in 1 .. names : windowNames[m] = q => windowNames'[m] = q
        BY <3>1, <3>3, <3>4
      <4>2. RequestFits(q)
        BY DEF AjaxInv, RequestsFit
      <4>. QED
        BY <2>1, <2>4, <3>3, <3>4, <4>1, <4>2, OtherFits
    <3>5. RequestsFit'
      BY <2>1, <2>4, <2>5, <3>3, <3>4 DEF AjaxInv, RequestsFit
    <3>6. NamesAreFree'
      <4>1. oldCallbacks \in Seq(Nat) /\ n \in Nat /\ Len(oldCallbacks) \in Nat /\ r # 0
        BY <3>1, LenProperties DEF AjaxInv, NamesAreFree, Ids
      <4>2. /\ oldCallbacks' \in Seq(Nat) /\ Len(oldCallbacks') = Len(oldCallbacks) + 1
            /\ \A i \in 1 .. Len(oldCallbacks) : oldCallbacks'[i] = oldCallbacks[i]
            /\ oldCallbacks'[Len(oldCallbacks) + 1] = n
        BY <3>2, <4>1, AppendProperties
      <4>3. \A i \in 1 .. Len(oldCallbacks) :
              oldCallbacks[i] \in 1 .. names /\ windowNames[oldCallbacks[i]] = 0 /\ oldCallbacks[i] # n
        BY <3>1, <4>1 DEF AjaxInv, NamesAreFree
      <4>4. \A i \in 1 .. Len(oldCallbacks') : i \in 1 .. Len(oldCallbacks) \/ i = Len(oldCallbacks) + 1
        BY <4>1, <4>2
      <4>5. \A i \in 1 .. Len(oldCallbacks') :
              oldCallbacks'[i] \in 1 .. names' /\ windowNames'[oldCallbacks'[i]] = 0
        <5>1. \A i \in 1 .. Len(oldCallbacks) :
                oldCallbacks'[i] \in 1 .. names' /\ windowNames'[oldCallbacks'[i]] = 0
          <6>1. \A m \in 1 .. names : m # n /\ windowNames[m] = 0 => windowNames'[m] = 0
            BY <3>3
          <6>2. \A i \in 1 .. Len(oldCallbacks) : windowNames'[oldCallbacks[i]] = 0
            BY <4>3, <6>1
          <6>. QED
            BY <2>1, <4>2, <4>3, <6>2
        <5>2. n \in 1 .. names' /\ windowNames'[n] = 0
          BY <2>1, <3>1, <3>3
        <5>. QED
          BY <4>2, <4>4, <5>1, <5>2
      <4>6. \A i, j \in 1 .. Len(oldCallbacks') : oldCallbacks'[i] = oldCallbacks'[j] => i = j
        <5>1. \A i, j \in 1 .. Len(oldCallbacks) : oldCallbacks'[i] = oldCallbacks'[j] => i = j
          BY <4>2 DEF AjaxInv, NamesAreFree
        <5>2. \A i \in 1 .. Len(oldCallbacks) : oldCallbacks'[i] # n
          BY <4>2, <4>3
        <5>. QED
          BY <4>2, <4>4, <5>1, <5>2
      <4>. QED
        BY <4>2, <4>5, <4>6 DEF NamesAreFree
    <3>. QED
      BY <3>5, <3>6
  <2>8. WorkFits(then, requests') /\ NoScriptToSend(then, requests')
    BY <2>3, <2>4 DEF WorkFits, NoScriptToSend, Ids
  <2>9. WorkFits(work', requests') /\ NoScriptToSend(work', requests')
    <3>. DEFINE top == <<<<"callbacks", r>>, <<"leave", r>>>>
    <3>1. /\ top \in Seq(WorkSteps) /\ Len(top) = 2
          /\ \A i \in 1 .. Len(top) : top[i][1] \in {"callbacks", "leave"} /\ top[i][2] \in Ids'
      BY <2>4 DEF WorkSteps, Ids
    <3>2. work' = top \o then
      BY <2>1
    <3>. HIDE DEF top
    <3>3. \A i \in 1 .. Len(top) : top[i][1] \notin {"beforeSend", "send"}
      BY <3>1
    <3>4. WorkFits(work', requests') /\ ComesFrom(work', top, then)
      <4>1. MayPrecede(top, then, requests')
        BY <3>1, <3>3 DEF MayPrecede, Ids
      <4>. QED
        BY <2>8, <3>2, <4>1, Stacked
    <3>5. NoScriptToSend(work', requests')
      BY <2>8, <3>3, <3>4 DEF NoScriptToSend, ComesFrom
    <3>. QED
      BY <3>4, <3>5
  <2>10. SendIsNext'
    BY <2>9 DEF NoScriptToSend, SendIsNext
  <2>. QED
    BY <2>6, <2>7, <2>9, <2>10 DEF AjaxInv
<1>. QED
  BY <1>3, <1>4

(* A request changes, but not its name or its transport.                    *)
LEMMA UpdateFits ==
  ASSUME AjaxInv, NEW r \in Ids, NEW new \in Requests, NEW then,
         requests' = [requests EXCEPT ![r] = new],
         new.kind = requests[r].kind, new.transport = requests[r].transport, RequestFits(r)',
         UNCHANGED jsonpVars, overlapped' = overlapped, work' = then,
         WorkFits(then, requests), NoScriptToSend(then, requests)
  PROVE  AjaxInv'
<1>1. /\ requests' \in Seq(Requests) /\ Ids' = Ids /\ requests'[r] = new
      /\ \A q \in Ids : q # r => requests'[q] = requests[q]
  BY Replaced DEF AjaxInv, RequestsFit
<1>2. \A q \in Ids : RequestFits(q)'
  BY <1>1 DEF AjaxInv, RequestsFit, RequestFits, jsonpVars
<1>3. RequestsFit'
  BY <1>1, <1>2 DEF AjaxInv, RequestsFit, jsonpVars
<1>4. NamesAreFree'
  BY DEF AjaxInv, NamesAreFree, jsonpVars
<1>5. WorkFits(then, requests') /\ NoScriptToSend(then, requests')
  BY <1>1 DEF WorkFits, NoScriptToSend, Ids
<1>6. WorkFits(work', requests') /\ SendIsNext'
  BY <1>1, <1>5 DEF WorkFits, NoScriptToSend, SendIsNext, Ids
<1>. QED
  BY <1>3, <1>4, <1>6 DEF AjaxInv

(* beforeSend has returned: the transport is there, and sending comes next. *)
LEMMA SendPrepared ==
  ASSUME AjaxInv, NEW r \in Ids, NEW then, WorkFits(then, requests), NoScriptToSend(then, requests),
         requests[r].state # 2, ~requests[r].transport,
         \A j \in 1 .. Len(then) : then[j] # <<"beforeSend", r>>,
         requests' = [requests EXCEPT ![r].transport = TRUE],
         work' = (IF IsGlobal(r) THEN <<<<"ajaxSend", r>>>> ELSE <<>>) \o <<<<"send", r>>>> \o then,
         UNCHANGED jsonpVars, overlapped' = overlapped
  PROVE  AjaxInv'
<1>. DEFINE new == [requests[r] EXCEPT !.transport = TRUE]
<1>1. requests \in Seq(Requests) /\ requests[r] \in Requests /\ RequestFits(r)
  BY ElementOfSeq DEF AjaxInv, RequestsFit, Ids
<1>2. /\ new \in Requests /\ new.kind = requests[r].kind /\ new.name = requests[r].name
      /\ new.state = requests[r].state /\ new.transport = TRUE /\ new.network = requests[r].network
      /\ new.response = requests[r].response /\ new.outcome = requests[r].outcome
  BY <1>1 DEF Requests
<1>3. requests' = [requests EXCEPT ![r] = new]
  OBVIOUS
<1>. HIDE DEF new
<1>4. /\ requests' \in Seq(Requests) /\ Ids' = Ids /\ requests'[r] = new
      /\ \A q \in Ids : q # r => requests'[q] = requests[q]
  BY <1>1, <1>2, <1>3, Replaced
<1>5. RequestFits(r)'
  BY <1>1, <1>2, <1>4 DEF RequestFits, jsonpVars
<1>6. \A q \in Ids : RequestFits(q)'
  BY <1>4, <1>5 DEF AjaxInv, RequestsFit, RequestFits, jsonpVars
<1>7. RequestsFit' /\ NamesAreFree'
  BY <1>4, <1>6 DEF AjaxInv, RequestsFit, NamesAreFree, jsonpVars
<1>8. WorkFits(then, requests') /\ NoScriptToSend(then, requests')
  <2>1. \A i \in 1 .. Len(then) : then[i][1] = "beforeSend" => then[i][2] # r
    <3>1. \A i \in 1 .. Len(then) : then[i] \in WorkSteps
      BY ElementOfSeq DEF WorkFits, Ids
    <3>2. \A i \in 1 .. Len(then) : then[i] = <<then[i][1], then[i][2]>>
      BY <3>1 DEF WorkSteps
    <3>. QED
      BY <3>2
  <2>2. \A i \in 1 .. Len(then) : then[i][1] = "beforeSend" => ~requests'[then[i][2]].transport
    BY <1>4, <2>1 DEF WorkFits, Ids
  <2>3. \A q \in Ids : requests'[q].kind = requests[q].kind
    BY <1>2, <1>4
  <2>. QED
    BY <1>4, <2>2, <2>3 DEF WorkFits, NoScriptToSend, Ids
<1>9. PICK top : /\ top = (IF IsGlobal(r) THEN <<<<"ajaxSend", r>>>> ELSE <<>>) \o <<<<"send", r>>>>
                 /\ work' = top \o then
  OBVIOUS
<1>10. /\ top \in Seq(WorkSteps)
       /\ \A i \in 1 .. Len(top) : top[i][1] \in {"ajaxSend", "send"} /\ top[i][2] = r
       /\ ~IsGlobal(r) => Len(top) = 1
  <2>1. <<>> \in Seq(WorkSteps) /\ <<<<"send", r>>>> \in Seq(WorkSteps) /\ <<<<"ajaxSend", r>>>> \in Seq(WorkSteps)
    BY DEF WorkSteps, Ids
  <2>2. PICK first \in Seq(WorkSteps), last \in Seq(WorkSteps) :
          /\ top = first \o last /\ last = <<<<"send", r>>>>
          /\ first = IF IsGlobal(r) THEN <<<<"ajaxSend", r>>>> ELSE <<>>
    BY <1>9, <2>1
  <2>3. /\ Len(last) = 1 /\ last[1] = <<"send", r>>
        /\ Len(first) \in {0, 1} /\ (~IsGlobal(r) => Len(first) = 0)
        /\ Len(first) = 1 => first[1] = <<"ajaxSend", r>>
    BY <2>2
  <2>4. /\ top \in Seq(WorkSteps) /\ Len(top) = Len(first) + Len(last)
        /\ \A i \in 1 .. Len(first) + Len(last) :
             top[i] = IF i <= Len(first) THEN first[i] ELSE last[i - Len(first)]
    BY <2>2, ConcatProperties
  <2>5. \A i \in 1 .. Len(top) : top[i] \in {<<"ajaxSend", r>>, <<"send", r>>}
    <3>1. CASE Len(first) = 0
      BY <2>3, <2>4, <3>1
    <3>2. CASE Len(first) = 1
      <4>1. Len(top) = 2 /\ top[1] = first[1] /\ top[2] = last[1]
        BY <2>3, <2>4, <3>2
      <4>2. \A i \in 1 .. Len(top) : i = 1 \/ i = 2
        BY <4>1
      <4>. QED
        BY <2>3, <3>2, <4>1, <4>2
    <3>. QED
      BY <2>3, <3>1, <3>2
  <2>. QED
    BY <2>3, <2>4, <2>5
<1>11. WorkFits(work', requests') /\ ComesFrom(work', top, then)
  <2>1. \A i \in 1 .. Len(top) : top[i][1] # "beforeSend" /\ top[i][2] \in Ids'
    BY <1>4, <1>10
  <2>2. MayPrecede(top, then, requests')
    BY <1>10, <2>1 DEF MayPrecede, Ids
  <2>. QED
    BY <1>8, <1>9, <2>2, Stacked
<1>12. SendIsNext'
  <2>1. ASSUME NEW i \in 1 .. Len(work'), work'[i][1] = "send", requests'[work'[i][2]].kind = "jsonp"
        PROVE  /\ i = 1 /\ requests'[work'[i][2]].transport
               /\ requests'[work'[i][2]].network \notin {"pending", "ran"}
    <3>1. i \in 1 .. Len(top) /\ work'[i] = top[i]
      <4>1. \/ i \in 1 .. Len(top) /\ work'[i] = top[i]
            \/ \E j \in 1 .. Len(then) : work'[i] = then[j]
        BY <1>11 DEF ComesFrom
      <4>2. ASSUME NEW j \in 1 .. Len(then), work'[i] = then[j] PROVE FALSE
        BY <1>8, <2>1, <4>2 DEF NoScriptToSend
      <4>. QED
        BY <4>1, <4>2
    <3>2. work'[i][2] = r /\ requests[r].kind = "jsonp"
      BY <1>2, <1>4, <1>10, <2>1, <3>1
    <3>3. i = 1
      <4>1. ~IsGlobal(r)
        BY <3>2 DEF IsGlobal
      <4>2. Len(top) = 1
        BY <1>10, <4>1
      <4>. QED
        BY <3>1, <4>2
    <3>. QED
      BY <1>1, <1>2, <1>4, <3>2, <3>3 DEF RequestFits
  <2>. QED
    BY <2>1 DEF SendIsNext
<1>. QED
  BY <1>7, <1>11, <1>12 DEF AjaxInv

(* abort, for a request that may be over. *)
LEMMA AbortSteps ==
  ASSUME AjaxInv, NEW r \in Ids, NEW then, AbortRequest(r, then), overlapped' = overlapped,
         WorkFits(then, requests), NoScriptToSend(then, requests)
  PROVE  AjaxInv'
<1>. DEFINE cut == [none |-> "none", pending |-> IF requests[r].kind = "xhr" THEN "none" ELSE "cut",
                    ran |-> "none", cut |-> "cut"]
            request == [requests[r] EXCEPT !.network = IF requests[r].transport THEN cut[@] ELSE @]
<1>1. requests[r] \in Requests /\ RequestFits(r)
  BY ElementOfSeq DEF AjaxInv, RequestsFit, Ids
<1>2. /\ requests[r].network \in {"none", "pending", "ran", "cut"}
      /\ cut[requests[r].network] \in {"none", "cut"}
      /\ requests[r].kind = "xhr" /\ requests[r].network \in {"none", "pending"} => cut[requests[r].network] = "none"
  BY <1>1 DEF Requests
<1>3. /\ request \in Requests /\ request.kind = requests[r].kind /\ request.name = requests[r].name
      /\ request.state = requests[r].state /\ request.transport = requests[r].transport
      /\ request.response = requests[r].response /\ request.outcome = requests[r].outcome
      /\ request.network = IF requests[r].transport THEN cut[requests[r].network] ELSE requests[r].network
  BY <1>1, <1>2 DEF Requests
<1>4. Done(r, request, "failure", then)
  BY DEF AbortRequest
<1>. HIDE DEF request, cut
<1>5. request.kind = "xhr" => request.network \in {"none", "pending"}
  BY <1>1, <1>2, <1>3 DEF RequestFits
<1>6. request.kind = "jsonp" => request.network \notin {"pending", "ran"}
  BY <1>1, <1>2, <1>3 DEF RequestFits
<1>7. request.state = 2 => ~request.transport
  BY <1>1, <1>3 DEF RequestFits
<1>8. request.kind = "jsonp" /\ request.state # 2 => requests[r].state # 2
  BY <1>3
<1>. QED
  BY <1>3, <1>4, <1>5, <1>6, <1>7, <1>8, DoneSteps

(* A response that reaches no other request than its own. *)
LEMMA ResponseFits ==
  ASSUME NEW q, NEW r, RequestFits(q), RequestFits(r), UNCHANGED jsonpVars,
         overlapped' = (overlapped \/ requests[r].network = "cut"),
         requests[r].kind = "jsonp", requests[r].network \in {"pending", "cut"},
         requests'[q].kind = requests[q].kind, requests'[q].name = requests[q].name,
         requests'[q].state = requests[q].state, requests'[q].transport = requests[q].transport,
         requests'[q].outcome = requests[q].outcome,
         requests'[q].response = IF q = windowNames[requests[r].name] THEN r ELSE requests[q].response,
         requests'[q].network =
           IF q # r THEN requests[q].network ELSE IF requests[r].network = "cut" THEN "none" ELSE "ran"
  PROVE  RequestFits(q)'
<1>1. names' = names /\ windowNames' = windowNames
  BY DEF jsonpVars
<1>2. ~overlapped' => ~overlapped /\ windowNames[requests[r].name] = r
  BY DEF RequestFits
<1>3. requests'[q].network = requests[q].network \/ (q = r /\ requests'[q].network \in {"none", "ran"})
  OBVIOUS
<1>4. /\ requests'[q].kind = "xhr" => requests'[q].name = 0 /\ requests'[q].network \in {"none", "pending"}
      /\ requests'[q].kind = "jsonp" => requests'[q].name \in 1 .. names'
      /\ requests'[q].kind = "jsonp" /\ requests'[q].state # 2 => windowNames'[requests'[q].name] = q
      /\ requests'[q].transport => requests'[q].state # 2
  BY <1>1, <1>3 DEF RequestFits
<1>5. requests'[q].kind = "jsonp" /\ requests'[q].network \in {"pending", "ran"} => requests'[q].transport
  <2>1. CASE q # r
    <3>1. requests'[q].network = requests[q].network
      BY <2>1
    <3>. QED
      BY <3>1 DEF RequestFits
  <2>2. CASE q = r
    BY <2>2 DEF RequestFits
  <2>. QED
    BY <2>1, <2>2
<1>6. ~overlapped' => requests'[q].response = requests[q].response \/ (q = r /\ requests'[q].response = r)
  BY <1>2
<1>7. ~overlapped' => requests'[q].response \in {0, q}
  BY <1>2, <1>6 DEF RequestFits
<1>8. ~overlapped' /\ requests'[q].kind = "jsonp" /\ requests'[q].outcome = "success" => requests'[q].response = q
  BY <1>2, <1>6 DEF RequestFits
<1>. QED
  BY <1>4, <1>5, <1>7, <1>8 DEF RequestFits

LEMMA RunSteps == ASSUME AjaxInv, ScriptRuns PROVE AjaxInv'
<1>1. PICK r \in DOMAIN requests :
       /\ requests[r].kind = "jsonp" /\ requests[r].network \in {"pending", "cut"}
       /\ requests' = [i \in DOMAIN requests |->
             [requests[i] EXCEPT !.response = IF i = windowNames[requests[r].name] THEN r ELSE @,
                                 !.network = IF i # r THEN @ ELSE IF @ = "cut" THEN "none" ELSE "ran"]]
       /\ overlapped' = (overlapped \/ requests[r].network = "cut")
  BY DEF ScriptRuns
<1>2. UNCHANGED jsonpVars /\ work' = work /\ work = <<>>
  BY DEF ScriptRuns
<1>3. /\ requests \in Seq(Requests) /\ DOMAIN requests = Ids /\ Len(requests) \in Nat
      /\ \A q \in Ids : requests[q] \in Requests /\ RequestFits(q)
  BY ElementOfSeq, LenProperties DEF AjaxInv, RequestsFit, Ids
<1>4. r \in Ids /\ r \in Nat
  BY <1>3 DEF Ids
<1>. DEFINE to(i) == [requests[i] EXCEPT !.response = IF i = windowNames[requests[r].name] THEN r ELSE @,
                                         !.network = IF i # r THEN @ ELSE IF @ = "cut" THEN "none" ELSE "ran"]
<1>5. ASSUME NEW q \in Ids
      PROVE  /\ to(q) \in Requests /\ to(q).kind = requests[q].kind
             /\ to(q).name = requests[q].name /\ to(q).state = requests[q].state
             /\ to(q).transport = requests[q].transport /\ to(q).outcome = requests[q].outcome
             /\ to(q).response = IF q = windowNames[requests[r].name] THEN r ELSE requests[q].response
             /\ to(q).network =
                  IF q # r THEN requests[q].network ELSE IF requests[r].network = "cut" THEN "none" ELSE "ran"
  <2>1. requests[q] \in Requests
    BY <1>3
  <2>. QED
    BY <1>4, <2>1 DEF Requests
<1>6. requests' = [i \in Ids |-> to(i)]
  BY <1>1, <1>3
<1>. HIDE DEF to
<1>7. requests' \in [1 .. Len(requests) -> Requests] /\ \A q \in Ids : requests'[q] = to(q)
  BY <1>5, <1>6 DEF Ids
<1>8. requests' \in Seq(Requests)
  BY <1>3, <1>7, SeqDef
<1>9. Len(requests') = Len(requests)
  <2>1. DOMAIN requests' = 1 .. Len(requests) /\ DOMAIN requests' = 1 .. Len(requests') /\ Len(requests') \in Nat
    BY <1>7, <1>8, LenProperties
  <2>. QED
    BY <1>3, <2>1
<1>10. Ids' = Ids
  BY <1>9 DEF Ids
<1>11. ASSUME NEW q \in Ids PROVE RequestFits(q)'
  <2>1. RequestFits(q) /\ RequestFits(r) /\ requests'[q] = to(q)
    BY <1>3, <1>4, <1>7
  <2>2. /\ requests'[q].kind = requests[q].kind /\ requests'[q].name = requests[q].name
        /\ requests'[q].state = requests[q].state /\ requests'[q].transport = requests[q].transport
        /\ requests'[q].outcome = requests[q].outcome
        /\ requests'[q].response = IF q = windowNames[requests[r].name] THEN r ELSE requests[q].response
        /\ requests'[q].network =
             IF q # r THEN requests[q].network ELSE IF requests[r].network = "cut" THEN "none" ELSE "ran"
    BY <1>5, <2>1
  <2>3. /\ requests[r].kind = "jsonp" /\ requests[r].network \in {"pending", "cut"}
        /\ overlapped' = (overlapped \/ requests[r].network = "cut")
    BY <1>1
  <2>. QED
    BY <1>2, <2>1, <2>2, <2>3, ResponseFits
<1>12. RequestsFit' /\ NamesAreFree'
  BY <1>2, <1>8, <1>10, <1>11 DEF AjaxInv, RequestsFit, NamesAreFree, jsonpVars
<1>13. WorkFits(work', requests') /\ SendIsNext'
  <2>1. work' = <<>> /\ <<>> \in Seq(WorkSteps) /\ Len(<<>>) = 0
    BY <1>2
  <2>. QED
    BY <2>1 DEF WorkFits, SendIsNext
<1>. QED
  BY <1>12, <1>13 DEF AjaxInv

LEMMA MakeSteps == ASSUME AjaxInv, MakeRequest PROVE AjaxInv'
<1>0. PICK r : r = Len(requests) + 1
  OBVIOUS
<1>1. PICK kind \in {"xhr", "jsonp"} :
        /\ requests' = Append(requests,
             [kind |-> kind, state |-> 0, transport |-> FALSE, timer |-> FALSE,
              network |-> "none", name |-> IF kind = "jsonp" THEN TakenName.name ELSE 0,
              response |-> 0, outcome |-> "none"])
        /\ IF kind = "jsonp"
           THEN /\ oldCallbacks' = TakenName.free
                /\ names' = IF oldCallbacks = <<>> THEN names + 1 ELSE names
                /\ windowNames' = [i \in 1 .. names' |-> IF i = TakenName.name THEN r ELSE windowNames[i]]
           ELSE UNCHANGED jsonpVars
        /\ work' = <<<<"beforeSend", r>>>> \o work
  BY <1>0 DEF MakeRequest
<1>2. AjaxPageRuns /\ overlapped' = overlapped
  BY DEF MakeRequest
<1>3. /\ requests \in Seq(Requests) /\ Len(requests) \in Nat /\ r \notin Ids /\ r # 0 /\ r \in Nat
      /\ names \in Nat /\ windowNames \in [1 .. names -> Nat]
      /\ oldCallbacks \in Seq(Nat) /\ Len(oldCallbacks) \in Nat
      /\ \A q \in Ids : RequestFits(q)
  BY <1>0, LenProperties DEF AjaxInv, RequestsFit, NamesAreFree, Ids
<1>. DEFINE k == Len(oldCallbacks)
            name == IF kind = "jsonp" THEN TakenName.name ELSE 0
<1>4. ASSUME kind = "jsonp"
      PROVE  /\ name \in 1 .. names' /\ names' \in {names, names + 1}
             /\ windowNames' \in [1 .. names' -> Nat] /\ windowNames'[name] = r
             /\ \A m \in 1 .. names : m # name => windowNames'[m] = windowNames[m]
             /\ name \in 1 .. names => windowNames[name] = 0
  <2>1. /\ names' \in {names, names + 1} /\ name \in 1 .. names'
        /\ name \in 1 .. names => windowNames[name] = 0
    <3>1. CASE oldCallbacks = <<>>
      BY <1>1, <1>3, <1>4, <3>1 DEF TakenName
    <3>2. CASE oldCallbacks # <<>>
      <4>1. k \in 1 .. k
        BY <1>3, <3>2, EmptySeq
      <4>2. name = oldCallbacks[k] /\ names' = names
        BY <1>1, <1>4, <3>2 DEF TakenName
      <4>. QED
        BY <4>1, <4>2 DEF AjaxInv, NamesAreFree
    <3>. QED
      BY <3>1, <3>2
  <2>2. windowNames' = [i \in 1 .. names' |-> IF i = name THEN r ELSE windowNames[i]]
    BY <1>1, <1>4
  <2>. HIDE DEF name
  <2>3. \A i \in 1 .. names' : i = name \/ i \in 1 .. names
    <3>1. CASE names' = names
      BY <3>1
    <3>2. CASE names' = names + 1
      BY <1>1, <1>3, <1>4, <2>1, <3>2 DEF name, TakenName
    <3>. QED
      BY <2>1, <3>1, <3>2
  <2>4. 1 .. names \subseteq 1 .. names'
    BY <1>3, <2>1
  <2>. QED
    BY <1>3, <2>1, <2>2, <2>3, <2>4
<1>5. kind = "xhr" => name = 0 /\ names' = names /\ windowNames' = windowNames /\ oldCallbacks' = oldCallbacks
  BY <1>1 DEF jsonpVars
<1>. DEFINE new == [kind |-> kind, state |-> 0, transport |-> FALSE, timer |-> FALSE,
                    network |-> "none", name |-> name, response |-> 0, outcome |-> "none"]
<1>6. requests' = Append(requests, new)
  BY <1>1
<1>. HIDE DEF name
<1>7. names' \in Nat /\ names <= names' /\ windowNames' \in [1 .. names' -> Nat] /\ name \in Nat
  BY <1>3, <1>4, <1>5
<1>8. /\ new \in Requests /\ new.kind = kind /\ new.name = name /\ new.state = 0 /\ new.transport = FALSE
      /\ new.network = "none" /\ new.response = 0 /\ new.outcome = "none"
  BY <1>7 DEF Requests
<1>. HIDE DEF new
<1>9. /\ requests' \in Seq(Requests) /\ Len(requests') = r /\ requests'[r] = new
      /\ \A q \in Ids : requests'[q] = requests[q]
  BY <1>0, <1>3, <1>6, <1>8, AppendProperties DEF Ids
<1>10. r \in Ids' /\ Ids \subseteq Ids' /\ \A q \in Ids' : q \in Ids \/ q = r
  BY <1>0, <1>3, <1>9 DEF Ids
<1>11. RequestFits(r)'
  <2>1. CASE kind = "xhr"
    BY <1>5, <1>8, <1>9, <2>1 DEF RequestFits
  <2>2. CASE kind = "jsonp"
    BY <1>4, <1>8, <1>9, <2>2 DEF RequestFits
  <2>. QED
    BY <2>1, <2>2
<1>12. ASSUME NEW q \in Ids PROVE RequestFits(q)'
  <2>1. \A m \in 1 .. names : windowNames[m] = q => windowNames'[m] = q
    <3>1. q # 0
      BY <1>3 DEF Ids
    <3>. QED
      BY <1>4, <1>5, <3>1
  <2>. QED
    BY <1>2, <1>3, <1>7, <1>9, <2>1, OtherFits
<1>13. RequestsFit'
  <2>1. \A q \in Ids' : RequestFits(q)'
    BY <1>10, <1>11, <1>12
  <2>. QED
    BY <1>7, <1>9, <2>1 DEF RequestsFit
<1>14. NamesAreFree'
  <2>1. CASE kind = "xhr"
    BY <1>5, <2>1 DEF AjaxInv, NamesAreFree
  <2>2. CASE kind = "jsonp" /\ oldCallbacks = <<>>
    <3>1. oldCallbacks' = <<>>
      BY <1>1, <2>2 DEF TakenName
    <3>. QED
      BY <3>1 DEF NamesAreFree
  <2>3. CASE kind = "jsonp" /\ oldCallbacks # <<>>
    <3>1. k \in Nat \ {0} /\ k \in 1 .. k
      BY <1>3, <2>3, EmptySeq
    <3>2. name = oldCallbacks[k] /\ oldCallbacks' = SubSeq(oldCallbacks, 1, k - 1)
      BY <1>1, <2>3 DEF name, TakenName
    <3>3. \A i \in 1 .. k - 1 : i \in 1 .. k /\ i # k /\ oldCallbacks[i] \in Nat
      BY <1>3, <3>1
    <3>. HIDE DEF k
    <3>4. /\ oldCallbacks' \in Seq(Nat) /\ Len(oldCallbacks') = k - 1
          /\ \A i \in 1 .. k - 1 : oldCallbacks'[i] = oldCallbacks[i]
      BY <3>1, <3>2, <3>3
    <3>5. \A i \in 1 .. k - 1 : /\ oldCallbacks[i] \in 1 .. names /\ windowNames[oldCallbacks[i]] = 0
                              /\ oldCallbacks[i] # name
      BY <3>1, <3>2, <3>3 DEF AjaxInv, NamesAreFree, k
    <3>6. \A m \in 1 .. names : m # name => m \in 1 .. names' /\ windowNames'[m] = windowNames[m]
      BY <1>3, <1>4, <1>7, <2>3
    <3>7. \A i \in 1 .. k - 1 : oldCallbacks'[i] \in 1 .. names' /\ windowNames'[oldCallbacks'[i]] = 0
      BY <3>4, <3>5, <3>6
    <3>8. \A i, j \in 1 .. k - 1 : oldCallbacks'[i] = oldCallbacks'[j] => i = j
      BY <3>3, <3>4 DEF AjaxInv, NamesAreFree, k
    <3>. QED
      BY <3>4, <3>7, <3>8 DEF NamesAreFree
  <2>. QED
    BY <2>1, <2>2, <2>3
<1>15. WorkFits(work, requests) /\ NoScriptToSend(work, requests)
  BY <1>2, PageHasNoSend
<1>16. PICK then : then = work
  OBVIOUS
<1>17. /\ WorkFits(then, requests') /\ NoScriptToSend(then, requests')
       /\ \A i \in 1 .. Len(then) : then[i][2] # r
  BY <1>3, <1>9, <1>10, <1>15, <1>16 DEF WorkFits, NoScriptToSend, Ids
<1>18. PICK top : top = <<<<"beforeSend", r>>>> /\ work' = top \o then
  BY <1>1, <1>16
<1>19. top \in Seq(WorkSteps) /\ Len(top) = 1 /\ top[1] = <<"beforeSend", r>>
  BY <1>3, <1>18 DEF WorkSteps
<1>20. MayPrecede(top, then, requests')
  BY <1>8, <1>9, <1>10, <1>17, <1>19 DEF MayPrecede, Ids
<1>21. WorkFits(work', requests') /\ ComesFrom(work', top, then)
  BY <1>17, <1>18, <1>20, Stacked
<1>22. SendIsNext'
  BY <1>17, <1>19, <1>21 DEF ComesFrom, NoScriptToSend, SendIsNext
<1>. QED
  BY <1>13, <1>14, <1>21, <1>22 DEF AjaxInv

LEMMA BeforeSendSteps == ASSUME AjaxInv, BeforeSendReturns PROVE AjaxInv'
<1>1. work # <<>> /\ Head(work)[1] = "beforeSend" /\ overlapped' = overlapped
  BY DEF BeforeSendReturns, Todo
<1>2. PICK r, then : r = It /\ then = After
  OBVIOUS
<1>3. /\ Head(work) = work[1] /\ r \in Ids /\ WorkFits(then, requests) /\ NoScriptToSend(then, requests)
      /\ Len(then) = Len(work) - 1 /\ \A i \in 1 .. Len(then) : then[i] = work[i + 1]
  BY <1>1, <1>2, Popped
<1>4. requests[r] \in Requests /\ RequestFits(r) /\ Len(work) \in Nat /\ Len(then) \in Nat
  BY <1>3, ElementOfSeq, LenProperties DEF AjaxInv, RequestsFit, WorkFits, Ids
<1>5. 1 \in 1 .. Len(work) /\ work[1][1] = "beforeSend" /\ work[1][2] = r
  BY <1>1, <1>2, <1>3, <1>4 DEF It
<1>6. ~requests[r].transport
  BY <1>5 DEF AjaxInv, WorkFits
<1>7. CASE Cancelled
  <2>1. Done(r, requests[r], "failure", then)
    BY <1>2, <1>7 DEF Cancelled
  <2>2. /\ requests[r].kind = "xhr" => requests[r].network \in {"none", "pending"}
        /\ requests[r].kind = "jsonp" => requests[r].network \notin {"pending", "ran"}
    BY <1>4, <1>6 DEF RequestFits
  <2>. QED
    BY <1>1, <1>3, <1>4, <1>6, <2>1, <2>2, DoneSteps
<1>8. CASE /\ requests[It].state # 2
           /\ requests' = [requests EXCEPT ![It].transport = TRUE]
           /\ work' = (IF IsGlobal(It) THEN <<<<"ajaxSend", It>>>> ELSE <<>>) \o <<<<"send", It>>>> \o After
           /\ UNCHANGED jsonpVars
  <2>1. \A j \in 1 .. Len(then) : then[j] # <<"beforeSend", r>>
    <3>1. ASSUME NEW j \in 1 .. Len(then), then[j] = <<"beforeSend", r>> PROVE FALSE
      <4>1. j + 1 \in 1 .. Len(work) /\ j + 1 # 1
        BY <1>3, <1>4
      <4>2. work[1] = <<"beforeSend", r>>
        <5>1. work[1] \in WorkSteps
          BY <1>5, ElementOfSeq DEF AjaxInv, WorkFits
        <5>. QED
          BY <1>5, <5>1 DEF WorkSteps
      <4>3. work[j + 1] = work[1]
        BY <1>3, <3>1, <4>2
      <4>. QED
        BY <1>5, <4>1, <4>3 DEF AjaxInv, WorkFits
    <3>. QED
      BY <3>1
  <2>. QED
    BY <1>1, <1>2, <1>3, <1>6, <1>8, <2>1, SendPrepared
<1>. QED
  BY <1>7, <1>8 DEF BeforeSendReturns

LEMMA SendSteps == ASSUME AjaxInv, Send PROVE AjaxInv'
<1>1. work # <<>> /\ Head(work)[1] = "send" /\ overlapped' = overlapped
  BY DEF Send, Todo
<1>2. PICK r, then : r = It /\ then = After
  OBVIOUS
<1>3. /\ Head(work) = work[1] /\ r \in Ids /\ WorkFits(then, requests) /\ NoScriptToSend(then, requests)
  BY <1>1, <1>2, Popped
<1>4. requests[r] \in Requests /\ RequestFits(r)
  BY <1>3, ElementOfSeq DEF AjaxInv, RequestsFit, Ids
<1>5. 1 \in 1 .. Len(work) /\ work[1][1] = "send" /\ work[1][2] = r
  <2>1. work \in Seq(WorkSteps) /\ Len(work) \in Nat \ {0}
    BY <1>1, EmptySeq DEF AjaxInv, WorkFits
  <2>. QED
    BY <1>1, <1>2, <1>3, <2>1 DEF It
<1>6. requests[r].kind = "jsonp" => requests[r].transport /\ requests[r].network \notin {"pending", "ran"}
  BY <1>5 DEF AjaxInv, SendIsNext
<1>12. PICK timeout \in BOOLEAN :
         LET timed == [requests[r] EXCEPT !.timer = timeout, !.state = 1]
         IN  \/ /\ timed.transport /\ requests' = [requests EXCEPT ![r] = [timed EXCEPT !.network = "pending"]]
                /\ work' = then /\ UNCHANGED jsonpVars
             \/ Done(r, timed, "failure", then)
  BY <1>2 DEF Send
<1>. DEFINE request == [requests[r] EXCEPT !.timer = timeout, !.state = 1]
            sent == [request EXCEPT !.network = "pending"]
<1>7. /\ request \in Requests /\ request.kind = requests[r].kind /\ request.name = requests[r].name
      /\ request.state = 1 /\ request.transport = requests[r].transport /\ request.network = requests[r].network
      /\ request.response = requests[r].response /\ request.outcome = requests[r].outcome
  BY <1>4 DEF Requests
<1>8. /\ sent \in Requests /\ sent.kind = requests[r].kind /\ sent.name = requests[r].name
      /\ sent.state = 1 /\ sent.transport = requests[r].transport /\ sent.network = "pending"
      /\ sent.response = requests[r].response /\ sent.outcome = requests[r].outcome
  BY <1>4 DEF Requests
<1>9. \/ /\ request.transport /\ requests' = [requests EXCEPT ![r] = sent]
         /\ work' = then /\ UNCHANGED jsonpVars
      \/ Done(r, request, "failure", then)
  BY <1>12
<1>. HIDE DEF request, sent
<1>10. CASE /\ request.transport /\ requests' = [requests EXCEPT ![r] = sent]
            /\ work' = then /\ UNCHANGED jsonpVars
  <2>1. requests'[r] = sent
    BY <1>3, <1>8, <1>10, Replaced DEF AjaxInv, RequestsFit
  <2>2. requests[r].transport /\ requests[r].state # 2
    BY <1>4, <1>7, <1>10 DEF RequestFits
  <2>3. RequestFits(r)'
    <3>1. names' = names /\ windowNames' = windowNames /\ overlapped' = overlapped
      BY <1>1, <1>10 DEF jsonpVars
    <3>2. /\ requests'[r].kind = requests[r].kind /\ requests'[r].name = requests[r].name
          /\ requests'[r].state = 1 /\ requests'[r].transport = requests[r].transport
          /\ requests'[r].network = "pending"
          /\ requests'[r].response = requests[r].response /\ requests'[r].outcome = requests[r].outcome
      BY <1>8, <2>1
    <3>3. /\ requests'[r].kind = "xhr" => requests'[r].name = 0
          /\ requests'[r].kind = "jsonp" => requests'[r].name \in 1 .. names'
          /\ requests'[r].kind = "jsonp" => windowNames'[requests'[r].name] = r
      BY <1>4, <2>2, <3>1, <3>2 DEF RequestFits
    <3>4. /\ ~overlapped' => requests'[r].response \in {0, r}
          /\ ~overlapped' /\ requests'[r].kind = "jsonp" /\ requests'[r].outcome = "success" => requests'[r].response = r
      BY <1>4, <3>1, <3>2 DEF RequestFits
    <3>. QED
      BY <2>2, <3>2, <3>3, <3>4 DEF RequestFits
  <2>. QED
    BY <1>1, <1>3, <1>8, <1>10, <2>3, UpdateFits
<1>11. CASE Done(r, request, "failure", then)
  <2>1. /\ request.kind = "xhr" => request.network \in {"none", "pending"}
        /\ request.kind = "jsonp" => request.network \notin {"pending", "ran"}
        /\ request.kind = "jsonp" /\ request.state # 2 => requests[r].state # 2
        /\ request.state = 2 => ~request.transport
    BY <1>4, <1>6, <1>7 DEF RequestFits
  <2>. QED
    BY <1>1, <1>3, <1>7, <1>11, <2>1, DoneSteps
<1>. QED
  BY <1>9, <1>10, <1>11

LEMMA AnswerSteps == ASSUME AjaxInv, AnswerArrives \/ ScriptLoads PROVE AjaxInv'
<1>1. AjaxPageRuns /\ work = <<>> /\ overlapped' = overlapped
  BY DEF AnswerArrives, ScriptLoads, AjaxPageRuns
<1>2. WorkFits(<<>>, requests) /\ NoScriptToSend(<<>>, requests)
  BY <1>1, PageHasNoSend
<1>3. \A r \in DOMAIN requests : r \in Ids /\ requests[r] \in Requests /\ RequestFits(r)
  BY ElementOfSeq, LenProperties DEF AjaxInv, RequestsFit, Ids
<1>4. PICK r \in DOMAIN requests, outcome \in {"success", "failure"} :
        /\ Done(r, [requests[r] EXCEPT !.network = "none"], outcome, <<>>)
        /\ \/ requests[r].kind = "xhr"
           \/ requests[r].network = "ran" /\ (outcome = "success" => requests[r].response # 0)
  BY DEF AnswerArrives, ScriptLoads, Conversions
<1>. DEFINE request == [requests[r] EXCEPT !.network = "none"]
<1>5. r \in Ids /\ requests[r] \in Requests /\ RequestFits(r)
  BY <1>3
<1>6. /\ request \in Requests /\ request.kind = requests[r].kind /\ request.name = requests[r].name
      /\ request.state = requests[r].state /\ request.transport = requests[r].transport /\ request.network = "none"
      /\ request.response = requests[r].response /\ request.outcome = requests[r].outcome
  BY <1>5 DEF Requests
<1>7. Done(r, request, outcome, <<>>)
  BY <1>4
<1>. HIDE DEF request
<1>8. /\ request.state = 2 => ~request.transport
      /\ outcome = "success" /\ request.kind = "jsonp" => requests[r].response # 0
  BY <1>4, <1>5, <1>6 DEF RequestFits
<1>. QED
  BY <1>1, <1>2, <1>5, <1>6, <1>7, <1>8, DoneSteps

LEMMA FailSteps == ASSUME AjaxInv, ScriptFails PROVE AjaxInv'
<1>1. AjaxPageRuns /\ work = <<>> /\ UNCHANGED jsonpVars /\ overlapped' = overlapped /\ work' = <<>>
  BY DEF ScriptFails, AjaxPageRuns
<1>2. WorkFits(<<>>, requests) /\ NoScriptToSend(<<>>, requests)
  BY <1>1, PageHasNoSend
<1>3. PICK r \in DOMAIN requests : requests[r].kind = "jsonp" /\ requests' = [requests EXCEPT ![r].network = "none"]
  BY DEF ScriptFails
<1>4. r \in Ids /\ requests[r] \in Requests /\ RequestFits(r)
  BY ElementOfSeq, LenProperties DEF AjaxInv, RequestsFit, Ids
<1>. DEFINE new == [requests[r] EXCEPT !.network = "none"]
<1>5. /\ new \in Requests /\ new.kind = requests[r].kind /\ new.name = requests[r].name
      /\ new.state = requests[r].state /\ new.transport = requests[r].transport /\ new.network = "none"
      /\ new.response = requests[r].response /\ new.outcome = requests[r].outcome
  BY <1>4 DEF Requests
<1>6. requests' = [requests EXCEPT ![r] = new]
  BY <1>3
<1>. HIDE DEF new
<1>7. requests'[r] = new
  BY <1>4, <1>5, <1>6, Replaced DEF AjaxInv, RequestsFit
<1>8. RequestFits(r)'
  BY <1>1, <1>4, <1>5, <1>7 DEF RequestFits, jsonpVars
<1>. QED
  BY <1>1, <1>2, <1>4, <1>5, <1>6, <1>8, UpdateFits

(* What an exception leaves of the work. *)
LEMMA ThrowLeaves ==
  ASSUME AjaxInv, AjaxPageThrows
  PROVE  \E n \in Nat :
           /\ work' \in Seq(WorkSteps) /\ Len(work) = Len(work') + n
           /\ \A i \in 1 .. Len(work') : work'[i] = work[i + n] /\ i + n \in 1 .. Len(work) /\ i + n # 1
<1>1. work \in Seq(WorkSteps) /\ Len(work) \in Nat
  BY LenProperties DEF AjaxInv, WorkFits
<1>2. PICK n \in 1 .. Len(work) : work' = SubSeq(work, n + 1, Len(work))
  BY <1>1, LenProperties DEF AjaxPageThrows
<1>3. PICK size : size = Len(work)
  OBVIOUS
<1>4. \A i \in n + 1 .. size : work[i] \in WorkSteps
  BY <1>1, <1>3, ElementOfSeq
<1>5. /\ SubSeq(work, n + 1, size) \in Seq(WorkSteps)
      /\ Len(SubSeq(work, n + 1, size)) = IF n + 1 <= size THEN size - (n + 1) + 1 ELSE 0
      /\ \A i \in 1 .. size - (n + 1) + 1 : SubSeq(work, n + 1, size)[i] = work[n + 1 + i - 1]
  BY <1>1, <1>3, <1>4, SubSeqProperties
<1>6. Len(work') = size - n /\ \A i \in 1 .. size - n : work'[i] = work[i + n]
  <2>1. \A i \in 1 .. size - n : i \in 1 .. size - (n + 1) + 1 /\ n + 1 + i - 1 = i + n
    BY <1>1, <1>3
  <2>2. Len(work') = size - n
    BY <1>1, <1>2, <1>3, <1>5
  <2>3. ASSUME NEW i \in 1 .. size - n PROVE work'[i] = work[i + n]
    BY <1>2, <1>3, <1>5, <2>1
  <2>. QED
    BY <2>2, <2>3
<1>7. \A i \in 1 .. size - n : i + n \in 1 .. size /\ i + n # 1
  BY <1>1, <1>3
<1>8. n \in Nat /\ size = (size - n) + n /\ work' \in Seq(WorkSteps)
  BY <1>1, <1>2, <1>3, <1>5
<1>. QED
  BY <1>3, <1>6, <1>7, <1>8

LEMMA AjaxSteps == ASSUME AjaxInv, [AjaxNext]_ajaxVars PROVE AjaxInv'
<1>1. CASE MakeRequest
  BY <1>1, MakeSteps
<1>2. CASE Leave \/ CallbacksReturn \/ AjaxSendReturns
  <2>1. /\ work # <<>> /\ requests' = requests /\ UNCHANGED jsonpVars /\ UNCHANGED overlapped
        /\ work' = After
    BY <1>2 DEF Leave, CallbacksReturn, AjaxSendReturns, Todo
  <2>2. WorkFits(After, requests) /\ NoScriptToSend(After, requests)
    BY <2>1, Popped
  <2>. QED
    BY <2>1, <2>2, RestFits
<1>3. CASE BeforeSendReturns
  BY <1>3, BeforeSendSteps
<1>4. CASE Send
  BY <1>4, SendSteps
<1>5. CASE PageAborts \/ TimerFires
  <2>1. AjaxPageRuns /\ overlapped' = overlapped /\ \E r \in DOMAIN requests : AbortRequest(r, work)
    BY <1>5 DEF PageAborts, TimerFires, AjaxPageRuns
  <2>2. PICK r \in DOMAIN requests : AbortRequest(r, work)
    BY <2>1
  <2>3. r \in Ids
    BY LenProperties DEF AjaxInv, RequestsFit, Ids
  <2>4. WorkFits(work, requests) /\ NoScriptToSend(work, requests)
    BY <2>1, PageHasNoSend
  <2>. QED
    BY <2>1, <2>2, <2>3, <2>4, AbortSteps
<1>6. CASE AnswerArrives \/ ScriptLoads
  BY <1>6, AnswerSteps
<1>7. CASE ScriptRuns
  BY <1>7, RunSteps
<1>8. CASE ScriptFails
  BY <1>8, FailSteps
<1>9. CASE UNCHANGED ajaxVars
  <2>1. UNCHANGED <<requests, names, windowNames, oldCallbacks, work, overlapped>>
    BY <1>9 DEF ajaxVars
  <2>. QED
    BY <2>1 DEF AjaxInv, RequestsFit, RequestFits, NamesAreFree, WorkFits, SendIsNext, Ids
<1>10. CASE AjaxPageThrows
  <2>1. PICK n \in Nat :
          /\ work' \in Seq(WorkSteps) /\ Len(work) = Len(work') + n
          /\ \A i \in 1 .. Len(work') : work'[i] = work[i + n] /\ i + n \in 1 .. Len(work) /\ i + n # 1
    BY <1>10, ThrowLeaves
  <2>2. requests' = requests /\ UNCHANGED jsonpVars /\ UNCHANGED overlapped
    BY <1>10 DEF AjaxPageThrows
  <2>3. PICK rest : rest = work'
    OBVIOUS
  <2>4. Len(rest) \in Nat /\ \A i, j \in 1 .. Len(rest) : i + n = j + n => i = j
    BY <2>1, <2>3, LenProperties
  <2>5. WorkFits(rest, requests)
    <3>1. rest \in Seq(WorkSteps) /\ \A i \in 1 .. Len(rest) : rest[i] = work[i + n] /\ i + n \in 1 .. Len(work)
      BY <2>1, <2>3
    <3>2. /\ \A i \in 1 .. Len(work) : work[i][2] \in 1 .. Len(requests)
          /\ \A i \in 1 .. Len(work) : work[i][1] = "beforeSend" => ~requests[work[i][2]].transport
          /\ \A i, j \in 1 .. Len(work) : work[i][1] = "beforeSend" /\ work[i] = work[j] => i = j
      BY DEF AjaxInv, WorkFits
    <3>3. \A i \in 1 .. Len(rest) : rest[i][2] \in 1 .. Len(requests)
      BY <3>1, <3>2
    <3>4. \A i \in 1 .. Len(rest) : rest[i][1] = "beforeSend" => ~requests[rest[i][2]].transport
      BY <3>1, <3>2
    <3>5. ASSUME NEW i \in 1 .. Len(rest), NEW j \in 1 .. Len(rest), rest[i][1] = "beforeSend", rest[i] = rest[j]
          PROVE  i = j
      <4>1. PICK k, l : k = i + n /\ l = j + n
        OBVIOUS
      <4>2. /\ k \in 1 .. Len(work) /\ l \in 1 .. Len(work)
            /\ work[k] = rest[i] /\ work[l] = rest[j]
        BY <3>1, <4>1
      <4>3. k = l
        BY <3>2, <3>5, <4>2
      <4>. QED
        BY <2>4, <4>1, <4>3
    <3>. QED
      BY <3>1, <3>3, <3>4, <3>5 DEF WorkFits
  <2>6. NoScriptToSend(rest, requests)
    <3>1. \A i \in 1 .. Len(work) : requests[work[i][2]].kind \in {"xhr", "jsonp"}
      <4>1. \A r \in Ids : requests[r] \in Requests
        BY ElementOfSeq DEF AjaxInv, RequestsFit, Ids
      <4>. QED
        BY <4>1 DEF AjaxInv, WorkFits, Requests, Ids
    <3>. QED
      BY <2>1, <2>3, <3>1 DEF AjaxInv, SendIsNext, NoScriptToSend
  <2>. QED
    BY <2>2, <2>3, <2>5, <2>6, RestFits
<1>. QED
  BY <1>1, <1>2, <1>3, <1>4, <1>5, <1>6, <1>7, <1>8, <1>9, <1>10 DEF AjaxNext

(* However many requests are made, answered, aborted and timed out, and     *)
(* however the names of JSONP callbacks are used again, no request takes    *)
(* the response to another for its own, as long as no script of an aborted *)
(* request runs late (jquery-1.10.1.js:8545-8624).                         *)
THEOREM AnswersAreNotMixedUp == AjaxSpec => []AnswersReachTheirRequest
<1>1. AjaxInit => AjaxInv
  BY AjaxStarts
<1>2. AjaxInv /\ [AjaxNext]_ajaxVars => AjaxInv'
  BY AjaxSteps
<1>3. AjaxInv => AnswersReachTheirRequest
  <2>. SUFFICES ASSUME AjaxInv PROVE AnswersReachTheirRequest
    OBVIOUS
  <2>1. \A r \in DOMAIN requests : RequestFits(r)
    BY LenProperties DEF AjaxInv, RequestsFit, Ids
  <2>. QED
    BY <2>1 DEF RequestFits, AnswersReachTheirRequest
<1>. QED
  BY <1>1, <1>2, <1>3, PTL DEF AjaxSpec

(***************************************************************************)
(* The count of active requests                                            *)
(***************************************************************************)
Open == {r \in Ids : requests[r].kind = "xhr" /\ requests[r].state # 2}

(* The ends of done that count a request down, and those among the first.  *)
EndsIn(steps, rs) == {i \in 1 .. Len(steps) : steps[i][1] = "leave" /\ rs[steps[i][2]].kind = "xhr"}
EndsUpTo(steps, rs, n) == {i \in EndsIn(steps, rs) : i <= n}

(* A request is counted while it is not over and until done has reached    *)
(* its end, and for ever if an exception has cut that off.                 *)
CountFits ==
  /\ active = Cardinality(Open) + Cardinality(EndsIn(work, requests)) + leaked - again
  /\ leaked \in Nat /\ again \in Nat
  /\ again = 0 => (busy <=> active > 0)

LEMMA CountStarts == AjaxInit => CountFits
<1>. SUFFICES ASSUME AjaxInit PROVE CountFits
  OBVIOUS
<1>1. requests = <<>> /\ work = <<>> /\ active = 0 /\ busy = FALSE /\ leaked = 0 /\ again = 0
  BY DEF AjaxInit
<1>2. Open = {} /\ EndsIn(work, requests) = {}
  BY <1>1 DEF Open, Ids, EndsIn
<1>. QED
  BY <1>1, <1>2, FS_EmptySet DEF CountFits

LEMMA EndsAreFinite ==
  ASSUME NEW steps \in Seq(WorkSteps), NEW rs
  PROVE  IsFiniteSet(EndsIn(steps, rs)) /\ Cardinality(EndsIn(steps, rs)) \in Nat
<1>1. IsFiniteSet(1 .. Len(steps))
  BY FS_Interval, LenProperties
<1>. QED
  BY <1>1, FS_Subset, FS_CardinalityType DEF EndsIn

LEMMA OpenIsFinite == ASSUME AjaxInv PROVE IsFiniteSet(Open) /\ Cardinality(Open) \in Nat
<1>1. IsFiniteSet(Ids)
  BY FS_Interval, LenProperties DEF AjaxInv, RequestsFit, Ids
<1>. QED
  BY <1>1, FS_Subset, FS_CardinalityType DEF Open

LEMMA ShiftedCount ==
  ASSUME NEW A \in SUBSET Int, IsFiniteSet(A), NEW n \in Int, NEW B \in SUBSET Int,
         \A i \in A : i + n \in B, \A b \in B : b - n \in A
  PROVE  IsFiniteSet(B) /\ Cardinality(B) = Cardinality(A)
<1>. DEFINE f == [i \in A |-> i + n]
<1>1. f \in Bijection(A, B)
  <2>1. f \in [A -> B]
    OBVIOUS
  <2>2. \A i, j \in A : f[i] = f[j] => i = j
    OBVIOUS
  <2>3. \A b \in B : \E i \in A : f[i] = b
    OBVIOUS
  <2>. QED
    BY <2>1, <2>2, <2>3 DEF Bijection, Injection, Surjection, IsInjective
<1>2. ExistsBijection(A, B)
  BY <1>1 DEF ExistsBijection
<1>. QED
  BY <1>2, FS_Bijection

(* The ends in steps are those in the first n and those in the rest.       *)
LEMMA EndsSplit ==
  ASSUME NEW steps \in Seq(WorkSteps), NEW rest \in Seq(WorkSteps), NEW rs, NEW n \in Nat,
         Len(steps) = Len(rest) + n,
         \A i \in 1 .. Len(rest) : rest[i] = steps[i + n]
  PROVE  /\ Cardinality(EndsIn(steps, rs)) = Cardinality(EndsUpTo(steps, rs, n)) + Cardinality(EndsIn(rest, rs))
         /\ Cardinality(EndsUpTo(steps, rs, n)) \in Nat
         /\ Cardinality(EndsIn(rest, rs)) \in Nat
<1>. DEFINE ends == EndsIn(steps, rs)
            first == EndsUpTo(steps, rs, n)
            last == {i \in ends : i > n}
<1>0. Len(rest) \in Nat /\ Len(steps) \in Nat
  BY LenProperties
<1>1. IsFiniteSet(ends) /\ IsFiniteSet(EndsIn(rest, rs)) /\ Cardinality(EndsIn(rest, rs)) \in Nat
  BY EndsAreFinite
<1>2. EndsIn(rest, rs) \in SUBSET Int
  BY <1>0 DEF EndsIn
<1>4. first \subseteq ends /\ IsFiniteSet(first) /\ Cardinality(first) \in Nat
  BY <1>1, FS_Subset, FS_CardinalityType DEF EndsUpTo
<1>5. \A i \in ends : i > n => i - n \in EndsIn(rest, rs)
  <2>. SUFFICES ASSUME NEW i \in ends, i > n PROVE i - n \in EndsIn(rest, rs)
    OBVIOUS
  <2>1. i \in 1 .. Len(steps) /\ steps[i][1] = "leave" /\ rs[steps[i][2]].kind = "xhr"
    BY DEF EndsIn
  <2>2. i - n \in 1 .. Len(rest) /\ (i - n) + n = i
    BY <1>0, <2>1
  <2>3. rest[i - n] = steps[i]
    BY <2>2
  <2>. QED
    BY <2>1, <2>2, <2>3 DEF EndsIn
<1>6. \A i \in EndsIn(rest, rs) : i + n \in ends /\ i + n > n
  <2>. SUFFICES ASSUME NEW i \in EndsIn(rest, rs) PROVE i + n \in ends /\ i + n > n
    OBVIOUS
  <2>1. i \in 1 .. Len(rest) /\ rest[i][1] = "leave" /\ rs[rest[i][2]].kind = "xhr"
    BY DEF EndsIn
  <2>2. i + n \in 1 .. Len(steps) /\ i + n > n
    BY <1>0, <2>1
  <2>. QED
    BY <2>1, <2>2 DEF EndsIn
<1>7. ends = first \cup last /\ first \cap last = {}
  <2>1. \A i \in ends : i \in Int
    BY <1>0 DEF EndsIn
  <2>2. \A i \in ends : (i <= n \/ i > n) /\ ~(i <= n /\ i > n)
    BY <2>1
  <2>. QED
    BY <2>2 DEF EndsUpTo
<1>3. IsFiniteSet(last) /\ Cardinality(last) = Cardinality(EndsIn(rest, rs))
  <2>1. PICK A, B : A = EndsIn(rest, rs) /\ B = last
    OBVIOUS
  <2>2. A \in SUBSET Int /\ B \in SUBSET Int /\ IsFiniteSet(A) /\ n \in Int
    BY <1>0, <1>1, <1>2, <2>1 DEF EndsIn
  <2>3. (\A i \in A : i + n \in B) /\ (\A i \in B : i - n \in A)
    BY <1>5, <1>6, <2>1
  <2>. HIDE DEF last
  <2>. QED
    BY <2>1, <2>2, <2>3, ShiftedCount
<1>. HIDE DEF ends, first, last
<1>9. Cardinality(ends) = Cardinality(first) + Cardinality(last) - Cardinality(first \cap last)
  BY <1>3, <1>4, <1>7, FS_Union
<1>10. Cardinality(first \cap last) = 0
  BY <1>7, FS_EmptySet
<1>11. Cardinality(ends) = Cardinality(first) + Cardinality(last)
  BY <1>1, <1>3, <1>4, <1>9, <1>10
<1>. QED
  BY <1>1, <1>3, <1>4, <1>11 DEF ends, first

(* The ends that are left after the first step.                            *)
LEMMA EndsAfter ==
  ASSUME AjaxInv, work # <<>>
  PROVE  /\ After \in Seq(WorkSteps)
         /\ Cardinality(EndsIn(After, requests)) \in Nat
         /\ Head(work)[1] = "leave" /\ requests[It].kind = "xhr" =>
              Cardinality(EndsIn(work, requests)) = 1 + Cardinality(EndsIn(After, requests))
         /\ ~(Head(work)[1] = "leave" /\ requests[It].kind = "xhr") =>
              Cardinality(EndsIn(work, requests)) = Cardinality(EndsIn(After, requests))
<1>1. /\ Head(work) = work[1] /\ After \in Seq(WorkSteps) /\ work \in Seq(WorkSteps)
      /\ Len(After) = Len(work) - 1 /\ \A i \in 1 .. Len(After) : After[i] = work[i + 1]
  BY Popped DEF AjaxInv, WorkFits
<1>2. Len(work) \in Nat \ {0} /\ Len(After) \in Nat /\ Len(work) = Len(After) + 1
  BY <1>1, EmptySeq, LenProperties
<1>3. /\ Cardinality(EndsIn(work, requests)) =
           Cardinality(EndsUpTo(work, requests, 1)) + Cardinality(EndsIn(After, requests))
      /\ Cardinality(EndsIn(After, requests)) \in Nat
  BY <1>1, <1>2, EndsSplit
<1>4. \A i \in 1 .. Len(work) : i <= 1 <=> i = 1
  BY <1>2
<1>5. EndsUpTo(work, requests, 1) =
        IF Head(work)[1] = "leave" /\ requests[It].kind = "xhr" THEN {1} ELSE {}
  BY <1>1, <1>2, <1>4 DEF EndsUpTo, EndsIn, It
<1>6. /\ Head(work)[1] = "leave" /\ requests[It].kind = "xhr" => Cardinality(EndsUpTo(work, requests, 1)) = 1
      /\ ~(Head(work)[1] = "leave" /\ requests[It].kind = "xhr") => Cardinality(EndsUpTo(work, requests, 1)) = 0
  BY <1>5, FS_EmptySet, FS_Singleton
<1>. QED
  BY <1>1, <1>3, <1>6

(* And those of steps that are put in front. *)
LEMMA EndsBefore ==
  ASSUME NEW top \in Seq(WorkSteps), NEW then \in Seq(WorkSteps), NEW rs
  PROVE  /\ top \o then \in Seq(WorkSteps)
         /\ Cardinality(EndsIn(top \o then, rs)) = Cardinality(EndsIn(top, rs)) + Cardinality(EndsIn(then, rs))
<1>1. PICK steps, n : steps = top \o then /\ n = Len(top)
  OBVIOUS
<1>2. /\ steps \in Seq(WorkSteps) /\ Len(steps) = n + Len(then) /\ n \in Nat /\ Len(then) \in Nat
      /\ \A i \in 1 .. n + Len(then) : steps[i] = IF i <= n THEN top[i] ELSE then[i - n]
  BY <1>1, ConcatProperties, LenProperties
<1>3. \A i \in 1 .. Len(then) : then[i] = steps[i + n]
  BY <1>2
<1>4. Cardinality(EndsIn(steps, rs)) = Cardinality(EndsUpTo(steps, rs, n)) + Cardinality(EndsIn(then, rs))
  BY <1>2, <1>3, EndsSplit
<1>5. /\ \A i \in 1 .. Len(steps) : i <= n => i \in 1 .. n /\ steps[i] = top[i]
      /\ \A i \in 1 .. n : i \in 1 .. Len(steps) /\ i <= n /\ steps[i] = top[i]
  BY <1>2
<1>6. EndsUpTo(steps, rs, n) = EndsIn(top, rs)
  BY <1>1, <1>5 DEF EndsUpTo, EndsIn
<1>. QED
  BY <1>1, <1>2, <1>4, <1>6

(* The kind of a request does not change. *)
LEMMA KindsKept ==
  ASSUME NEW steps \in Seq(WorkSteps), NEW rs,
         \A i \in 1 .. Len(steps) : steps[i][2] \in Ids,
         \A r \in Ids : rs[r].kind = requests[r].kind
  PROVE  EndsIn(steps, rs) = EndsIn(steps, requests)
BY DEF EndsIn

(* By how much the count of requests that end changes with a request.      *)
Ended(old, new) ==
  IF new.kind # "xhr" \/ (new.state = 2 <=> old.state = 2) THEN 0 ELSE IF new.state = 2 THEN 1 ELSE -1

LEMMA CountsAddUp ==
  ASSUME NEW a \in Int, NEW b \in Int, NEW c \in Int, NEW d \in Int, NEW e \in Int, NEW f \in Int
  PROVE  a + b + f - e = (a - c) + (b + c + (d - e)) + f - d
OBVIOUS

(* A request is replaced, and the steps to come count it down. *)
LEMMA ReplacedKeepsCount ==
  ASSUME AjaxInv, CountFits, NEW r \in Ids, NEW new \in Requests, new.kind = requests[r].kind,
         requests' = [requests EXCEPT ![r] = new],
         work' \in Seq(WorkSteps), \A i \in 1 .. Len(work') : work'[i][2] \in Ids,
         active' = active, busy' = busy, leaked' = leaked, again' \in Nat, again' >= again,
         Cardinality(EndsIn(work', requests))
           = Cardinality(EndsIn(work, requests)) + Ended(requests[r], new) + (again' - again)
  PROVE  CountFits'
<1>1. /\ Ids' = Ids /\ requests'[r] = new
      /\ \A q \in Ids : q # r => requests'[q] = requests[q]
  BY Replaced DEF AjaxInv, RequestsFit
<1>2. \A q \in Ids : requests'[q].kind = requests[q].kind
  BY <1>1
<1>3. EndsIn(work', requests') = EndsIn(work', requests)
  <2>1. PICK steps : steps = work'
    OBVIOUS
  <2>2. EndsIn(steps, requests') = EndsIn(steps, requests)
    BY <1>2, <2>1, KindsKept
  <2>. QED
    BY <2>1, <2>2
<1>4. Cardinality(Open) \in Nat /\ IsFiniteSet(Open)
  BY OpenIsFinite
<1>5. Cardinality(Open') = Cardinality(Open) - Ended(requests[r], new) /\ Ended(requests[r], new) \in Int
  <2>1. CASE new.kind = "xhr" /\ new.state = 2 /\ requests[r].state # 2
    <3>1. r \in Open /\ Open' = Open \ {r}
      BY <1>1, <2>1 DEF Open
    <3>2. Cardinality(Open') = Cardinality(Open) - 1
      BY <1>4, <3>1, FS_RemoveElement
    <3>3. Ended(requests[r], new) = 1
      BY <2>1 DEF Ended
    <3>. QED
      BY <3>2, <3>3
  <2>2. CASE new.kind = "xhr" /\ new.state # 2 /\ requests[r].state = 2
    <3>1. r \notin Open /\ Open' = Open \cup {r}
      BY <1>1, <2>2 DEF Open
    <3>2. Cardinality(Open') = Cardinality(Open) + 1
      BY <1>4, <3>1, FS_AddElement
    <3>3. Ended(requests[r], new) = -1
      BY <2>2 DEF Ended
    <3>. QED
      BY <1>4, <3>2, <3>3
  <2>3. CASE new.kind # "xhr" \/ (new.state = 2 <=> requests[r].state = 2)
    <3>1. Open' = Open
      BY <1>1, <2>3 DEF Open
    <3>2. Ended(requests[r], new) = 0
      BY <2>3 DEF Ended
    <3>. QED
      BY <1>4, <3>1, <3>2
  <2>. QED
    BY <2>1, <2>2, <2>3
<1>6. Cardinality(EndsIn(work, requests)) \in Nat
  BY EndsAreFinite DEF AjaxInv, WorkFits
<1>7. active' = Cardinality(Open') + Cardinality(EndsIn(work', requests')) + leaked' - again'
  <2>1. PICK a \in Nat, b \in Nat, c \in Int, d \in Nat, e \in Nat, f \in Nat :
          /\ a = Cardinality(Open) /\ b = Cardinality(EndsIn(work, requests)) /\ c = Ended(requests[r], new)
          /\ d = again' /\ e = again /\ f = leaked
    BY <1>4, <1>5, <1>6 DEF CountFits
  <2>2. active = a + b + f - e
    BY <2>1 DEF CountFits
  <2>3. Cardinality(Open') = a - c /\ Cardinality(EndsIn(work', requests')) = b + c + (d - e)
    BY <1>3, <1>5, <2>1
  <2>4. a + b + f - e = (a - c) + (b + c + (d - e)) + f - d
    BY CountsAddUp
  <2>. QED
    BY <2>1, <2>2, <2>3, <2>4
<1>8. again' = 0 => again = 0
  BY DEF CountFits
<1>. QED
  BY <1>7, <1>8 DEF CountFits

(* done begins, if the request is not over. *)
LEMMA DoneKeepsCount ==
  ASSUME AjaxInv, CountFits, NEW r \in Ids, NEW request \in Requests, NEW outcome \in {"success", "failure"},
         NEW then \in Seq(WorkSteps), Done(r, request, outcome, then),
         request.kind = requests[r].kind,
         \A i \in 1 .. Len(then) : then[i][2] \in Ids,
         Cardinality(EndsIn(then, requests)) = Cardinality(EndsIn(work, requests)),
         \/ again' = again /\ (request.state = 2 <=> requests[r].state = 2)
         \/ /\ request.state # 2
            /\ again' = IF request.kind = "xhr" /\ requests[r].state = 2 THEN again + 1 ELSE again,
         active' = active, busy' = busy, leaked' = leaked
  PROVE  CountFits'
<1>0. again \in Nat /\ again' \in Nat /\ r \in Nat /\ again' >= again
  BY DEF CountFits, Ids
<1>1. Cardinality(EndsIn(then, requests)) \in Nat
  BY EndsAreFinite
<1>2. CASE request.state = 2
  <2>1. requests' = [requests EXCEPT ![r] = request] /\ work' = then
    BY <1>2 DEF Done
  <2>2. Ended(requests[r], request) = 0 /\ again' = again
    BY <1>2 DEF Ended
  <2>3. Cardinality(EndsIn(work', requests))
          = Cardinality(EndsIn(work, requests)) + Ended(requests[r], request) + (again' - again)
    BY <1>0, <1>1, <2>1, <2>2
  <2>. QED
    BY <1>0, <2>1, <2>3, ReplacedKeepsCount
<1>3. CASE request.state # 2
  <2>. DEFINE new == [request EXCEPT !.state = 2, !.transport = FALSE, !.timer = FALSE,
                                    !.outcome = IF @ = "none" THEN outcome ELSE @]
              top == <<<<"callbacks", r>>, <<"leave", r>>>>
  <2>1. requests' = [requests EXCEPT ![r] = new] /\ work' = top \o then
    BY <1>3 DEF Done
  <2>2. new \in Requests /\ new.kind = request.kind /\ new.state = 2
    BY DEF Requests
  <2>. HIDE DEF new
  <2>3. top \in Seq(WorkSteps) /\ Len(top) = 2 /\ top[1] = <<"callbacks", r>> /\ top[2] = <<"leave", r>>
    BY <1>0 DEF WorkSteps
  <2>4. \A i \in 1 .. Len(top) : i = 1 \/ i = 2
    BY <2>3
  <2>. HIDE DEF top
  <2>5. EndsIn(top, requests) = (IF request.kind = "xhr" THEN {2} ELSE {}) /\ \A i \in 1 .. Len(top) : top[i][2] \in Ids
    BY <2>3, <2>4 DEF EndsIn
  <2>6. Cardinality(EndsIn(top, requests)) = IF request.kind = "xhr" THEN 1 ELSE 0
    BY <2>5, FS_EmptySet, FS_Singleton
  <2>7. /\ request.kind = "xhr" /\ requests[r].state = 2 => again' = again + 1 /\ Ended(requests[r], new) = 0
        /\ request.kind = "xhr" /\ requests[r].state # 2 => again' = again /\ Ended(requests[r], new) = 1
        /\ request.kind # "xhr" => again' = again /\ Ended(requests[r], new) = 0
    BY <1>3, <2>2 DEF Ended
  <2>8. Cardinality(EndsIn(top, requests)) = Ended(requests[r], new) + (again' - again)
    BY <1>0, <2>6, <2>7
  <2>9. /\ work' \in Seq(WorkSteps)
        /\ Cardinality(EndsIn(work', requests))
             = Cardinality(EndsIn(top, requests)) + Cardinality(EndsIn(then, requests))
    BY <2>1, <2>3, EndsBefore
  <2>10. Ended(requests[r], new) \in Int
    BY DEF Ended
  <2>11. Cardinality(EndsIn(work', requests))
           = Cardinality(EndsIn(work, requests)) + Ended(requests[r], new) + (again' - again)
    BY <1>0, <1>1, <2>8, <2>9, <2>10
  <2>12. ASSUME NEW i \in 1 .. Len(work') PROVE work'[i][2] \in Ids
    <3>1. /\ Len(work') = Len(top) + Len(then) /\ Len(top) \in Nat /\ Len(then) \in Nat
          /\ \A k \in 1 .. Len(top) + Len(then) : work'[k] = IF k <= Len(top) THEN top[k] ELSE then[k - Len(top)]
      BY <2>1, <2>3, ConcatProperties, LenProperties
    <3>2. \/ i \in 1 .. Len(top) /\ work'[i] = top[i]
          \/ i - Len(top) \in 1 .. Len(then) /\ work'[i] = then[i - Len(top)]
      BY <3>1
    <3>. QED
      BY <2>5, <3>2
  <2>. QED
    BY <1>0, <2>1, <2>2, <2>9, <2>11, <2>12, ReplacedKeepsCount
<1>. QED
  BY <1>2, <1>3

LEMMA LeaveKeepsCount == ASSUME AjaxInv, CountFits, Leave PROVE CountFits'
<1>1. /\ work # <<>> /\ Head(work)[1] = "leave" /\ work' = After
      /\ requests' = requests /\ leaked' = leaked /\ again' = again
      /\ IF IsGlobal(It) THEN active' = active - 1 /\ busy' = (busy /\ active # 1)
         ELSE UNCHANGED <<active, busy>>
  BY DEF Leave, Todo
<1>2. Open' = Open /\ EndsIn(work', requests') = EndsIn(After, requests)
  BY <1>1 DEF Open, Ids
<1>3. Cardinality(Open) \in Nat /\ Cardinality(EndsIn(After, requests)) \in Nat
  BY <1>1, OpenIsFinite, EndsAfter
<1>4. CASE requests[It].kind = "xhr"
  <2>1. Cardinality(EndsIn(work, requests)) = 1 + Cardinality(EndsIn(After, requests))
    BY <1>1, <1>4, EndsAfter
  <2>2. active' = active - 1 /\ busy' = (busy /\ active # 1)
    BY <1>1, <1>4 DEF IsGlobal
  <2>3. active' = Cardinality(Open') + Cardinality(EndsIn(work', requests')) + leaked' - again'
    BY <1>1, <1>2, <1>3, <2>1, <2>2 DEF CountFits
  <2>4. again = 0 => active >= 1 /\ active \in Nat
    BY <1>3, <2>1 DEF CountFits
  <2>5. again = 0 => (active' > 0 <=> active > 0 /\ active # 1)
    BY <2>2, <2>4
  <2>6. again = 0 => (busy' <=> active' > 0)
    BY <2>2, <2>5, Zenon DEF CountFits
  <2>. QED
    BY <1>1, <2>3, <2>6 DEF CountFits
<1>5. CASE requests[It].kind # "xhr"
  <2>1. Cardinality(EndsIn(work, requests)) = Cardinality(EndsIn(After, requests))
    BY <1>1, <1>5, EndsAfter
  <2>2. UNCHANGED <<active, busy>>
    BY <1>1, <1>5 DEF IsGlobal
  <2>. QED
    BY <1>1, <1>2, <2>1, <2>2 DEF CountFits
<1>. QED
  BY <1>4, <1>5

LEMMA MakeKeepsCount == ASSUME AjaxInv, CountFits, MakeRequest PROVE CountFits'
<1>0. PICK r : r = Len(requests) + 1
  OBVIOUS
<1>1. PICK kind \in {"xhr", "jsonp"} :
        /\ requests' = Append(requests,
             [kind |-> kind, state |-> 0, transport |-> FALSE, timer |-> FALSE,
              network |-> "none", name |-> IF kind = "jsonp" THEN TakenName.name ELSE 0,
              response |-> 0, outcome |-> "none"])
        /\ kind = "jsonp" => UNCHANGED <<active, busy>>
        /\ kind = "xhr" => active' = active + 1 /\ busy' = (busy \/ active = 0)
        /\ work' = <<<<"beforeSend", r>>>> \o work
  BY <1>0 DEF MakeRequest
<1>2. PICK new : requests' = Append(requests, new) /\ new.kind = kind /\ new.state = 0
  BY <1>1
<1>3. leaked' = leaked /\ again' = again
  BY DEF MakeRequest
<1>4. requests \in Seq(Requests) /\ work \in Seq(WorkSteps) /\ Len(requests) \in Nat
  BY LenProperties DEF AjaxInv, RequestsFit, WorkFits
<1>5. /\ Len(requests') = r /\ requests'[r] = new /\ r \notin Ids /\ r \in Nat /\ Ids' = Ids \cup {r}
      /\ \A q \in Ids : requests'[q] = requests[q]
  BY <1>0, <1>2, <1>4 DEF Ids
<1>6. PICK top : top = <<<<"beforeSend", r>>>>
  OBVIOUS
<1>7. top \in Seq(WorkSteps) /\ Len(top) = 1 /\ top[1] = <<"beforeSend", r>> /\ \A i \in 1 .. Len(top) : i = 1
  BY <1>5, <1>6 DEF WorkSteps
<1>8. EndsIn(top, requests') = {}
  BY <1>7 DEF EndsIn
<1>9. EndsIn(work, requests') = EndsIn(work, requests)
  <2>1. \A i \in 1 .. Len(work) : work[i][2] \in Ids
    BY DEF AjaxInv, WorkFits, Ids
  <2>. QED
    BY <1>4, <1>5, <2>1, KindsKept
<1>10. Cardinality(EndsIn(work', requests')) = Cardinality(EndsIn(work, requests))
       /\ Cardinality(EndsIn(work, requests)) \in Nat
  <2>1. PICK rs : rs = requests'
    OBVIOUS
  <2>2. Cardinality(EndsIn(top \o work, rs)) = Cardinality(EndsIn(top, rs)) + Cardinality(EndsIn(work, rs))
    BY <1>4, <1>7, EndsBefore
  <2>3. Cardinality(EndsIn(top, rs)) = 0
    BY <1>8, <2>1, FS_EmptySet
  <2>4. Cardinality(EndsIn(work, requests)) \in Nat /\ work' = top \o work
    BY <1>1, <1>4, <1>6, EndsAreFinite
  <2>. QED
    BY <1>9, <2>1, <2>2, <2>3, <2>4
<1>11. CASE kind = "xhr"
  <2>1. r \notin Open /\ Open' = Open \cup {r}
    <3>1. new.kind = "xhr" /\ new.state # 2
      BY <1>2, <1>11
    <3>2. \A q \in Ids' : q \in Open' <=> q = r \/ q \in Open
      BY <1>5, <3>1 DEF Open
    <3>3. Open' \subseteq Ids' /\ Open \subseteq Ids /\ Ids \subseteq Ids' /\ r \in Ids'
      BY <1>5 DEF Open
    <3>. QED
      BY <1>5, <3>2, <3>3
  <2>2. Cardinality(Open') = Cardinality(Open) + 1 /\ Cardinality(Open) \in Nat
    BY <2>1, OpenIsFinite, FS_AddElement
  <2>3. active' = active + 1 /\ busy' = (busy \/ active = 0)
    BY <1>1, <1>11
  <2>4. active' = Cardinality(Open') + Cardinality(EndsIn(work', requests')) + leaked' - again'
    BY <1>3, <1>10, <2>2, <2>3 DEF CountFits
  <2>5. again = 0 => active' > 0 /\ (active > 0 \/ active = 0)
    BY <1>10, <2>2, <2>3 DEF CountFits
  <2>6. again = 0 => (busy' <=> active' > 0)
    BY <2>3, <2>5, Zenon DEF CountFits
  <2>. QED
    BY <1>3, <2>4, <2>6 DEF CountFits
<1>12. CASE kind = "jsonp"
  <2>1. Open' = Open
    BY <1>2, <1>5, <1>12 DEF Open
  <2>2. UNCHANGED <<active, busy>>
    BY <1>1, <1>12
  <2>. QED
    BY <1>3, <1>10, <2>1, <2>2 DEF CountFits
<1>. QED
  BY <1>11, <1>12

(* Steps that change neither what is left to do nor the state of a request. *)
LEMMA ScriptKeepsCount ==
  ASSUME AjaxInv, AjaxInv', CountFits, ScriptRuns \/ ScriptFails \/ UNCHANGED ajaxVars
  PROVE  CountFits'
<1>1. UNCHANGED <<active, busy, work, leaked, again>>
  BY DEF ScriptRuns, ScriptFails, ajaxVars
<1>2. DOMAIN requests = Ids /\ Len(requests) \in Nat /\ \A r \in Ids : requests[r] \in Requests
  BY ElementOfSeq, LenProperties DEF AjaxInv, RequestsFit, Ids
<1>3. /\ DOMAIN requests' = Ids
      /\ \A r \in Ids : requests'[r].kind = requests[r].kind /\ requests'[r].state = requests[r].state
  <2>1. CASE ScriptRuns
    <3>1. PICK q \in Ids : requests' = [i \in Ids |->
            [requests[i] EXCEPT !.response = IF i = windowNames[requests[q].name] THEN q ELSE @,
                                !.network = IF i # q THEN @ ELSE IF @ = "cut" THEN "none" ELSE "ran"]]
      BY <1>2, <2>1 DEF ScriptRuns
    <3>. QED
      <4>1. DOMAIN requests' = Ids
        BY <3>1
      <4>2. ASSUME NEW i \in Ids
            PROVE  requests'[i].kind = requests[i].kind /\ requests'[i].state = requests[i].state
        <5>1. PICK old : old = requests[i] /\ old \in Requests
          BY <1>2
        <5>2. PICK response, network : requests'[i] = [old EXCEPT !.response = response, !.network = network]
          BY <3>1, <5>1, Zenon
        <5>. QED
          BY <5>1, <5>2 DEF Requests
      <4>. QED
        BY <4>1, <4>2
  <2>2. CASE ScriptFails
    <3>1. PICK q \in Ids : requests' = [requests EXCEPT ![q].network = "none"]
      BY <1>2, <2>2 DEF ScriptFails
    <3>. QED
      BY <1>2, <3>1 DEF Requests
  <2>. QED
    BY <1>2, <2>1, <2>2 DEF ajaxVars
<1>4. Ids' = Ids
  BY <1>3, LenProperties DEF AjaxInv, RequestsFit, Ids
<1>5. Open' = Open
  BY <1>3, <1>4 DEF Open
<1>6. EndsIn(work', requests') = EndsIn(work, requests)
  <2>1. work \in Seq(WorkSteps) /\ \A i \in 1 .. Len(work) : work[i][2] \in Ids
    BY DEF AjaxInv, WorkFits, Ids
  <2>. QED
    BY <1>1, <1>3, <2>1, KindsKept
<1>. QED
  BY <1>1, <1>5, <1>6 DEF CountFits

LEMMA OverKeepsCount ==
  ASSUME AjaxInv, CountFits, PageAborts \/ TimerFires \/ AnswerArrives \/ ScriptLoads
  PROVE  CountFits'
<1>1. UNCHANGED <<active, busy, leaked, again>>
  BY DEF PageAborts, TimerFires, AnswerArrives, ScriptLoads
<1>2. DOMAIN requests = Ids /\ \A r \in Ids : requests[r] \in Requests
  BY ElementOfSeq, LenProperties DEF AjaxInv, RequestsFit, Ids
<1>3. PICK r \in Ids, request \in Requests, outcome \in {"success", "failure"} :
        Done(r, request, outcome, work) /\ request.kind = requests[r].kind /\ request.state = requests[r].state
  <2>1. CASE PageAborts \/ TimerFires
    <3>1. PICK r \in Ids : AbortRequest(r, work)
      BY <1>2, <2>1 DEF PageAborts, TimerFires
    <3>. DEFINE cut == [none |-> "none", pending |-> IF requests[r].kind = "xhr" THEN "none" ELSE "cut",
                        ran |-> "none", cut |-> "cut"]
                request == [requests[r] EXCEPT !.network = IF requests[r].transport THEN cut[@] ELSE @]
    <3>2. cut[requests[r].network] \in {"none", "cut"}
      BY <1>2 DEF Requests
    <3>3. request \in Requests /\ request.kind = requests[r].kind /\ request.state = requests[r].state
      BY <1>2, <3>2 DEF Requests
    <3>4. Done(r, request, "failure", work)
      BY <3>1 DEF AbortRequest
    <3>. QED
      BY <3>3, <3>4
  <2>2. CASE AnswerArrives \/ ScriptLoads
    <3>1. PICK r \in Ids, outcome \in {"success", "failure"} :
            Done(r, [requests[r] EXCEPT !.network = "none"], outcome, work)
      BY <1>2, <2>2 DEF AnswerArrives, ScriptLoads, Conversions
    <3>. DEFINE request == [requests[r] EXCEPT !.network = "none"]
    <3>2. request \in Requests /\ request.kind = requests[r].kind /\ request.state = requests[r].state
      BY <1>2 DEF Requests
    <3>. QED
      BY <3>1, <3>2
  <2>. QED
    BY <2>1, <2>2
<1>4. work \in Seq(WorkSteps) /\ \A i \in 1 .. Len(work) : work[i][2] \in Ids
  BY DEF AjaxInv, WorkFits, Ids
<1>. QED
  BY <1>1, <1>3, <1>4, DoneKeepsCount

LEMMA ThrowKeepsCount == ASSUME AjaxInv, CountFits, AjaxPageThrows PROVE CountFits'
<1>1. PICK n \in Nat :
        /\ work' \in Seq(WorkSteps) /\ Len(work) = Len(work') + n
        /\ \A i \in 1 .. Len(work') : work'[i] = work[i + n]
  BY ThrowLeaves
<1>2. work \in Seq(WorkSteps)
  BY DEF AjaxInv, WorkFits
<1>3. /\ leaked' = leaked + Ends(work) - Ends(work') /\ UNCHANGED <<requests, active, busy, again>>
  BY DEF AjaxPageThrows
<1>4. \A steps \in Seq(WorkSteps) : Ends(steps) = Cardinality(EndsIn(steps, requests))
  BY LenProperties DEF Ends, EndsIn, IsGlobal
<1>5. /\ Cardinality(EndsIn(work, requests)) =
           Cardinality(EndsUpTo(work, requests, n)) + Cardinality(EndsIn(work', requests))
      /\ Cardinality(EndsUpTo(work, requests, n)) \in Nat /\ Cardinality(EndsIn(work', requests)) \in Nat
  BY <1>1, <1>2, EndsSplit
<1>6. leaked' = leaked + Cardinality(EndsUpTo(work, requests, n))
  <2>1. Ends(work) = Cardinality(EndsIn(work, requests)) /\ Ends(work') = Cardinality(EndsIn(work', requests))
    BY <1>1, <1>2, <1>4
  <2>. QED
    BY <1>3, <1>5, <2>1 DEF CountFits
<1>7. Open' = Open /\ EndsIn(work', requests') = EndsIn(work', requests) /\ Cardinality(Open) \in Nat
  BY <1>3, OpenIsFinite DEF Open, Ids
<1>8. active' = Cardinality(Open') + Cardinality(EndsIn(work', requests')) + leaked' - again'
  BY <1>3, <1>5, <1>6, <1>7 DEF CountFits
<1>. QED
  BY <1>3, <1>5, <1>6, <1>8 DEF CountFits

(* A callback returns that done does not wait for, or the first step of a  *)
(* request is taken.                                                       *)
LEMMA ReturnKeepsCount ==
  ASSUME AjaxInv, CountFits, CallbacksReturn \/ AjaxSendReturns
  PROVE  CountFits'
<1>1. /\ UNCHANGED <<active, busy, requests, leaked, again>> /\ work' = After
      /\ work # <<>> /\ Head(work)[1] # "leave"
  BY DEF CallbacksReturn, AjaxSendReturns, Todo
<1>2. Cardinality(EndsIn(work, requests)) = Cardinality(EndsIn(After, requests))
  BY <1>1, EndsAfter
<1>3. Open' = Open
  BY <1>1 DEF Open, Ids
<1>. QED
  BY <1>1, <1>2, <1>3 DEF CountFits

(* The first step of the work, its request, and what comes after it.       *)
LEMMA FirstStep ==
  ASSUME AjaxInv, work # <<>>, Head(work)[1] # "leave"
  PROVE  /\ It \in Ids /\ It \in Nat /\ requests[It] \in Requests
         /\ After \in Seq(WorkSteps) /\ \A i \in 1 .. Len(After) : After[i][2] \in Ids
         /\ Cardinality(EndsIn(After, requests)) = Cardinality(EndsIn(work, requests))
<1>1. It \in Ids /\ WorkFits(After, requests)
  BY Popped
<1>2. It \in Nat /\ requests[It] \in Requests
  BY <1>1, ElementOfSeq DEF AjaxInv, RequestsFit, Ids
<1>3. Cardinality(EndsIn(work, requests)) = Cardinality(EndsIn(After, requests))
  BY EndsAfter
<1>. QED
  BY <1>1, <1>2, <1>3 DEF WorkFits, Ids

LEMMA BeforeSendKeepsCount == ASSUME AjaxInv, CountFits, BeforeSendReturns PROVE CountFits'
<1>1. /\ UNCHANGED <<active, busy, leaked, again>> /\ work # <<>> /\ Head(work)[1] # "leave"
  BY DEF BeforeSendReturns, Todo
<1>2. PICK r, then : r = It /\ then = After
  OBVIOUS
<1>3. /\ r \in Ids /\ r \in Nat /\ requests[r] \in Requests /\ then \in Seq(WorkSteps)
      /\ \A i \in 1 .. Len(then) : then[i][2] \in Ids
      /\ Cardinality(EndsIn(then, requests)) = Cardinality(EndsIn(work, requests))
  BY <1>1, <1>2, FirstStep
<1>5. CASE Cancelled
  <2>1. Done(r, requests[r], "failure", then)
    BY <1>2, <1>5 DEF Cancelled
  <2>. QED
    BY <1>1, <1>3, <2>1, DoneKeepsCount
<1>6. CASE ~Cancelled
  <2>1. PICK first : /\ first = (IF IsGlobal(r) THEN <<<<"ajaxSend", r>>>> ELSE <<>>) \o <<<<"send", r>>>>
                     /\ requests' = [requests EXCEPT ![r].transport = TRUE]
                     /\ work' = first \o then
    BY <1>2, <1>6 DEF BeforeSendReturns
  <2>. DEFINE new == [requests[r] EXCEPT !.transport = TRUE]
  <2>2. new \in Requests /\ new.kind = requests[r].kind /\ new.state = requests[r].state
    BY <1>3 DEF Requests
  <2>3. requests' = [requests EXCEPT ![r] = new]
    BY <2>1
  <2>. HIDE DEF new
  <2>4. /\ first \in Seq(WorkSteps) /\ Len(first) \in Nat
        /\ \A i \in 1 .. Len(first) : first[i][2] = r /\ first[i][1] # "leave"
    <3>1. PICK x, y : x = (IF IsGlobal(r) THEN <<<<"ajaxSend", r>>>> ELSE <<>>) /\ y = <<<<"send", r>>>>
      OBVIOUS
    <3>2. first = x \o y
      BY <2>1, <3>1
    <3>3. <<>> \in Seq(WorkSteps) /\ <<<<"send", r>>>> \in Seq(WorkSteps) /\ <<<<"ajaxSend", r>>>> \in Seq(WorkSteps)
      BY <1>3 DEF WorkSteps
    <3>4. x \in Seq(WorkSteps) /\ y \in Seq(WorkSteps)
      BY <3>1, <3>3
    <3>5. /\ \A i \in 1 .. Len(x) : x[i] = <<"ajaxSend", r>>
          /\ \A i \in 1 .. Len(y) : y[i] = <<"send", r>>
      BY <3>1
    <3>6. /\ first \in Seq(WorkSteps) /\ Len(first) = Len(x) + Len(y) /\ Len(x) \in Nat /\ Len(y) \in Nat
          /\ \A i \in 1 .. Len(x) + Len(y) : first[i] = IF i <= Len(x) THEN x[i] ELSE y[i - Len(x)]
      BY <3>2, <3>4, ConcatProperties, LenProperties
    <3>7. ASSUME NEW i \in 1 .. Len(first) PROVE first[i] \in {<<"ajaxSend", r>>, <<"send", r>>}
      <4>1. \/ i \in 1 .. Len(x) /\ first[i] = x[i]
            \/ i - Len(x) \in 1 .. Len(y) /\ first[i] = y[i - Len(x)]
        BY <3>6
      <4>. QED
        BY <3>5, <4>1
    <3>8. \A i \in 1 .. Len(first) : first[i][2] = r /\ first[i][1] # "leave"
      BY <3>7
    <3>. QED
      BY <3>6, <3>8
  <2>5. EndsIn(first, requests) = {}
    BY <2>4 DEF EndsIn
  <2>6. Cardinality(EndsIn(first, requests)) = 0
    BY <2>5, FS_EmptySet
  <2>7. again \in Nat /\ again' = again /\ Ended(requests[r], new) = 0 /\ Cardinality(EndsIn(then, requests)) \in Nat
    BY <1>1, <1>3, <2>2, EndsAreFinite DEF CountFits, Ended
  <2>8. /\ work' \in Seq(WorkSteps)
        /\ Cardinality(EndsIn(work', requests))
             = Cardinality(EndsIn(first, requests)) + Cardinality(EndsIn(then, requests))
    <3>1. PICK steps : steps = first \o then
      OBVIOUS
    <3>2. steps \in Seq(WorkSteps)
          /\ Cardinality(EndsIn(steps, requests))
               = Cardinality(EndsIn(first, requests)) + Cardinality(EndsIn(then, requests))
      BY <1>3, <2>4, <3>1, EndsBefore
    <3>3. work' = steps
      BY <2>1, <3>1
    <3>. QED
      BY <3>2, <3>3
  <2>9. Cardinality(EndsIn(work', requests))
          = Cardinality(EndsIn(work, requests)) + Ended(requests[r], new) + (again' - again)
    BY <1>3, <2>6, <2>7, <2>8
  <2>10. ASSUME NEW i \in 1 .. Len(work') PROVE work'[i][2] \in Ids
    <3>1. /\ Len(work') = Len(first) + Len(then) /\ Len(then) \in Nat
          /\ \A k \in 1 .. Len(first) + Len(then) :
               work'[k] = IF k <= Len(first) THEN first[k] ELSE then[k - Len(first)]
      BY <1>3, <2>1, <2>4, ConcatProperties, LenProperties
    <3>2. \/ i \in 1 .. Len(first) /\ work'[i] = first[i]
          \/ i - Len(first) \in 1 .. Len(then) /\ work'[i] = then[i - Len(first)]
      BY <2>4, <3>1
    <3>. QED
      BY <1>3, <2>4, <3>2
  <2>11. again' \in Nat /\ again' >= again /\ active' = active /\ busy' = busy /\ leaked' = leaked
    BY <1>1, <2>7
  <2>. QED
    BY <1>3, <2>2, <2>3, <2>8, <2>9, <2>10, <2>11, ReplacedKeepsCount
<1>. QED
  BY <1>5, <1>6

LEMMA SendKeepsCount == ASSUME AjaxInv, CountFits, Send PROVE CountFits'
<1>1. /\ UNCHANGED <<active, busy, leaked>> /\ work # <<>> /\ Head(work)[1] # "leave"
      /\ again' = IF IsGlobal(It) /\ requests[It].state = 2 THEN again + 1 ELSE again
  BY DEF Send, Todo
<1>2. PICK r, then : r = It /\ then = After
  OBVIOUS
<1>3. /\ r \in Ids /\ r \in Nat /\ requests[r] \in Requests /\ then \in Seq(WorkSteps)
      /\ \A i \in 1 .. Len(then) : then[i][2] \in Ids
      /\ Cardinality(EndsIn(then, requests)) = Cardinality(EndsIn(work, requests))
  BY <1>1, <1>2, FirstStep
<1>4. again' = IF requests[r].kind = "xhr" /\ requests[r].state = 2 THEN again + 1 ELSE again
  BY <1>1, <1>2 DEF IsGlobal
<1>9. PICK timeout \in BOOLEAN :
        LET timed == [requests[r] EXCEPT !.timer = timeout, !.state = 1]
        IN  \/ /\ timed.transport /\ requests' = [requests EXCEPT ![r] = [timed EXCEPT !.network = "pending"]]
               /\ work' = then
            \/ Done(r, timed, "failure", then)
  BY <1>2 DEF Send
<1>. DEFINE request == [requests[r] EXCEPT !.timer = timeout, !.state = 1]
            sent == [request EXCEPT !.network = "pending"]
<1>5. /\ request \in Requests /\ request.kind = requests[r].kind /\ request.state = 1
      /\ sent \in Requests /\ sent.kind = requests[r].kind /\ sent.state = 1
  BY <1>3 DEF Requests
<1>6. \/ requests[r].transport /\ requests' = [requests EXCEPT ![r] = sent] /\ work' = then
      \/ Done(r, request, "failure", then)
  BY <1>9
<1>. HIDE DEF request, sent
<1>7. CASE requests[r].transport /\ requests' = [requests EXCEPT ![r] = sent] /\ work' = then
  <2>1. requests[r].state # 2
    BY <1>3, <1>7 DEF AjaxInv, RequestsFit, RequestFits
  <2>2. again \in Nat /\ again' = again /\ Ended(requests[r], sent) = 0 /\ Cardinality(EndsIn(then, requests)) \in Nat
    BY <1>3, <1>4, <1>5, <2>1, EndsAreFinite DEF CountFits, Ended
  <2>3. Cardinality(EndsIn(work', requests))
          = Cardinality(EndsIn(work, requests)) + Ended(requests[r], sent) + (again' - again)
    BY <1>3, <1>7, <2>2
  <2>4. again' \in Nat /\ again' >= again /\ active' = active /\ busy' = busy /\ leaked' = leaked
    BY <1>1, <2>2
  <2>5. work' \in Seq(WorkSteps) /\ \A i \in 1 .. Len(work') : work'[i][2] \in Ids
    BY <1>3, <1>7
  <2>6. requests' = [requests EXCEPT ![r] = sent]
    BY <1>7
  <2>. QED
    BY <1>3, <1>5, <2>3, <2>4, <2>5, <2>6, ReplacedKeepsCount
<1>8. CASE Done(r, request, "failure", then)
  BY <1>1, <1>3, <1>4, <1>5, <1>8, DoneKeepsCount
<1>. QED
  BY <1>6, <1>7, <1>8

(* However requests are made, answered, aborted and timed out from scripts  *)
(* and from callbacks, and whatever throws, between scripts jQuery.active   *)
(* is off the number of requests that are not over by exactly one for each  *)
(* end of done that an exception cut off and, the other way, for each       *)
(* request that ended twice, and ajaxStart and ajaxStop frame the time in   *)
(* which it is positive as long as none has                                *)
(* (jquery-1.10.1.js:8053-8056,8268-8275).                                 *)
THEOREM ActiveIsExact == AjaxSpec => []ActiveCounts
<1>1. AjaxInit => AjaxInv /\ CountFits
  BY AjaxStarts, CountStarts
<1>2. AjaxInv /\ CountFits /\ [AjaxNext]_ajaxVars => (AjaxInv /\ CountFits)'
  <2>. SUFFICES ASSUME AjaxInv, CountFits, [AjaxNext]_ajaxVars PROVE AjaxInv' /\ CountFits'
    OBVIOUS
  <2>1. AjaxInv'
    BY AjaxSteps
  <2>2. ASSUME MakeRequest PROVE CountFits'
    BY <2>2, MakeKeepsCount
  <2>3. ASSUME Leave PROVE CountFits'
    BY <2>3, LeaveKeepsCount
  <2>4. ASSUME CallbacksReturn \/ AjaxSendReturns PROVE CountFits'
    BY <2>4, ReturnKeepsCount
  <2>5. ASSUME BeforeSendReturns PROVE CountFits'
    BY <2>5, BeforeSendKeepsCount
  <2>6. ASSUME Send PROVE CountFits'
    BY <2>6, SendKeepsCount
  <2>7. ASSUME PageAborts \/ TimerFires \/ AnswerArrives \/ ScriptLoads PROVE CountFits'
    BY <2>7, OverKeepsCount
  <2>8. ASSUME ScriptRuns \/ ScriptFails \/ UNCHANGED ajaxVars PROVE CountFits'
    BY <2>1, <2>8, ScriptKeepsCount
  <2>9. ASSUME AjaxPageThrows PROVE CountFits'
    BY <2>9, ThrowKeepsCount
  <2>. QED
    BY <2>1, <2>2, <2>3, <2>4, <2>5, <2>6, <2>7, <2>8, <2>9 DEF AjaxNext
<1>3. AjaxInv /\ CountFits => ActiveCounts
  <2>. SUFFICES ASSUME AjaxInv, CountFits, work = <<>> PROVE ActiveCounts
    BY DEF ActiveCounts
  <2>1. EndsIn(work, requests) = {}
    BY DEF EndsIn
  <2>2. Cardinality(EndsIn(work, requests)) = 0 /\ Cardinality(Open) \in Nat
    BY <2>1, FS_EmptySet, OpenIsFinite
  <2>3. DOMAIN requests = Ids
    BY LenProperties DEF AjaxInv, RequestsFit, Ids
  <2>4. Open = {r \in DOMAIN requests : IsGlobal(r) /\ requests[r].state # 2}
    BY <2>3 DEF Open, IsGlobal
  <2>5. active = Cardinality(Open) + leaked - again
    BY <2>2 DEF CountFits
  <2>. QED
    BY <2>4, <2>5 DEF CountFits, ActiveCounts
<1>. QED
  BY <1>1, <1>2, <1>3, PTL DEF AjaxSpec

(***************************************************************************)
(* The data of the elements                                                *)
(***************************************************************************)
Used == {expando[e] : e \in Elements} \ {0}
Entries == [DataKeys -> Elements \cup {NoValue}]

DataTypes ==
  /\ expando \in [Elements -> Nat]
  /\ guid \in Nat \ {0}
  /\ deletedIds \in Seq(Nat)
  /\ cache \in [Used -> Entries]
  /\ reported \in [Elements -> SUBSET DataEventTypes]

(* A number below guid is the number of one element, or once in the list. *)
NumbersFit ==
  /\ \A e \in Elements : expando[e] < guid
  /\ \A e, f \in Elements : expando[e] = expando[f] /\ expando[e] # 0 => e = f
  /\ \A n \in 1 .. Len(deletedIds) :
       /\ deletedIds[n] \in 1 .. guid - 1
       /\ \A e \in Elements : expando[e] # deletedIds[n]
  /\ \A m, n \in 1 .. Len(deletedIds) : deletedIds[m] = deletedIds[n] => m = n
  /\ \A i \in 1 .. guid - 1 : \/ \E e \in Elements : expando[e] = i
                              \/ \E n \in 1 .. Len(deletedIds) : deletedIds[n] = i

(* An entry holds values of its element. *)
EntryOf(e, entry) ==
  /\ entry \in Entries
  /\ \A key \in DataKeys : entry[key] \in {e, NoValue}

EntriesFit == \A e \in Elements : expando[e] # 0 => EntryOf(e, cache[expando[e]])
ReportsFit == \A e \in Elements : reported[e] = {type \in DataEventTypes : Entry(e)[type] # NoValue}


(* The entries without a value are those that were only opened. *)
OpenedFits == \A e \in Elements : e \in opened <=> expando[e] # 0 /\ IsEmptyDataObject(Entry(e))

DataInv == DataTypes /\ NumbersFit /\ EntriesFit /\ ReportsFit /\ OpenedFits

LEMMA DataStarts == DataInit => DataInv
<1>. SUFFICES ASSUME DataInit PROVE DataInv
  OBVIOUS
<1>1. /\ expando \in [Elements -> Nat] /\ \A e \in Elements : expando[e] = 0
      /\ guid = 1 /\ deletedIds = <<>> /\ DOMAIN cache = {}
      /\ reported \in [Elements -> SUBSET DataEventTypes] /\ \A e \in Elements : reported[e] = {}
  BY DEF DataInit
<1>2. Used = {} /\ cache \in [{} -> Entries]
  BY <1>1 DEF DataInit, Used
<1>3. \A e \in Elements : Entry(e) = NoEntry
  BY <1>1 DEF Entry
<1>4. \A type \in DataEventTypes : NoEntry[type] = NoValue
  BY DEF NoEntry, DataKeys
<1>5. OpenedFits
  BY <1>1 DEF OpenedFits, DataInit
<1>. QED
  BY <1>1, <1>2, <1>3, <1>4, <1>5 DEF DataInv, DataTypes, NumbersFit, EntriesFit, ReportsFit

(* The entry of an element, and that of one without a number. *)
LEMMA EntryIs ==
  ASSUME DataTypes, NEW e \in Elements
  PROVE  /\ expando[e] \in DOMAIN cache <=> expando[e] # 0
         /\ expando[e] # 0 => Entry(e) = cache[expando[e]]
         /\ expando[e] = 0 => Entry(e) = NoEntry
         /\ Entry(e) \in Entries
         /\ \A key \in DataKeys : NoEntry[key] = NoValue
BY DEF DataTypes, Entry, Used, Entries, NoEntry

(* Something is stored for e under its number, or one that is new to it.   *)
LEMMA Stored ==
  ASSUME DataInv, NEW e \in Elements, NEW id \in Nat \ {0}, NEW entry, EntryOf(e, entry),
         \A f \in Elements : f # e => expando[f] # id,
         expando[e] \in {0, id},
         expando' = [expando EXCEPT ![e] = id],
         cache' = SetEntry(id, entry),
         guid' \in Nat \ {0}, deletedIds' \in Seq(Nat), NumbersFit',
         reported' \in [Elements -> SUBSET DataEventTypes],
         reported'[e] = {type \in DataEventTypes : entry[type] # NoValue},
         \A f \in Elements : f # e => reported'[f] = reported[f],
         e \in opened' <=> IsEmptyDataObject(entry),
         \A f \in Elements : f # e => (f \in opened' <=> f \in opened)
  PROVE  DataInv'
<1>. USE DEF DataInv
<1>1. /\ expando' \in [Elements -> Nat] /\ expando'[e] = id
      /\ \A f \in Elements : f # e => expando'[f] = expando[f]
  BY DEF DataTypes
<1>2. Used' = Used \cup {id}
  <2>1. \A i \in Used : \E f \in Elements : expando'[f] = i /\ i # 0
    BY <1>1 DEF Used
  <2>2. \A f \in Elements : expando'[f] \in Used \cup {id, 0}
    BY <1>1 DEF Used
  <2>. QED
    BY <1>1, <2>1, <2>2 DEF Used
<1>3. DOMAIN cache = Used /\ \A i \in Used : cache[i] \in Entries
  BY DEF DataTypes
<1>4. /\ DOMAIN cache' = Used' /\ cache'[id] = entry
      /\ \A i \in Used : i # id => cache'[i] = cache[i]
  BY <1>2, <1>3 DEF SetEntry
<1>5. cache' \in [Used' -> Entries]
  BY <1>2, <1>3, <1>4 DEF SetEntry, EntryOf
<1>6. DataTypes'
  BY <1>1, <1>5 DEF DataTypes
<1>7. \A f \in Elements : f # e /\ expando[f] # 0 => cache'[expando'[f]] = cache[expando[f]]
  BY <1>1, <1>4 DEF Used
<1>8. EntriesFit'
  BY <1>1, <1>4, <1>7 DEF EntriesFit, EntryOf
<1>9. \A f \in Elements : f # e => Entry(f)' = Entry(f)
  BY <1>1, <1>2, <1>3, <1>4, <1>7 DEF Entry, Used
<1>10. Entry(e)' = entry
  BY <1>1, <1>2, <1>4 DEF Entry
<1>11. ReportsFit'
  BY <1>9, <1>10 DEF ReportsFit
<1>12. OpenedFits'
  BY <1>1, <1>9, <1>10 DEF OpenedFits, IsEmptyDataObject
<1>. QED
  BY <1>6, <1>8, <1>11, <1>12

(* The entry of e is deleted, and its number goes to the list. *)
LEMMA Freed ==
  ASSUME DataInv, NEW e \in Elements, expando[e] # 0,
         expando' = [expando EXCEPT ![e] = 0],
         cache' = CacheWithout(expando[e]),
         deletedIds' = Append(deletedIds, expando[e]), guid' = guid, opened' = opened \ {e},
         reported' \in [Elements -> SUBSET DataEventTypes], reported'[e] = {},
         \A f \in Elements : f # e => reported'[f] = reported[f]
  PROVE  DataInv'
<1>. USE DEF DataInv
<1>1. /\ expando' \in [Elements -> Nat] /\ expando'[e] = 0 /\ expando[e] \in Nat
      /\ \A f \in Elements : f # e => expando'[f] = expando[f] /\ expando[f] # expando[e]
  BY DEF DataTypes, NumbersFit
<1>2. Used' = Used \ {expando[e]}
  BY <1>1 DEF Used
<1>3. DOMAIN cache = Used /\ \A i \in Used : cache[i] \in Entries
  BY DEF DataTypes
<1>4. cache' \in [Used' -> Entries] /\ \A i \in Used' : cache'[i] = cache[i]
  BY <1>2, <1>3 DEF CacheWithout
<1>5. deletedIds' \in Seq(Nat) /\ guid' \in Nat \ {0}
  BY <1>1 DEF DataTypes
<1>6. DataTypes'
  BY <1>1, <1>4, <1>5 DEF DataTypes
<1>7. /\ Len(deletedIds) \in Nat /\ Len(deletedIds') = Len(deletedIds) + 1
      /\ deletedIds'[Len(deletedIds) + 1] = expando[e]
      /\ \A n \in 1 .. Len(deletedIds) : deletedIds'[n] = deletedIds[n]
  BY <1>1 DEF DataTypes
<1>8. \A n \in 1 .. Len(deletedIds') : n \in 1 .. Len(deletedIds) \/ n = Len(deletedIds) + 1
  BY <1>7
<1>9. NumbersFit'
  <2>1. /\ \A f \in Elements : expando'[f] < guid'
        /\ \A f, g \in Elements : expando'[f] = expando'[g] /\ expando'[f] # 0 => f = g
    BY <1>1 DEF NumbersFit, DataTypes
  <2>2. ASSUME NEW n \in 1 .. Len(deletedIds')
        PROVE  deletedIds'[n] \in 1 .. guid' - 1 /\ \A f \in Elements : expando'[f] # deletedIds'[n]
    <3>1. CASE n \in 1 .. Len(deletedIds)
      <4>1. deletedIds'[n] \in 1 .. guid - 1 /\ \A f \in Elements : expando[f] # deletedIds'[n]
        BY <1>7, <3>1 DEF NumbersFit
      <4>. QED
        BY <1>1, <4>1
    <3>2. CASE n = Len(deletedIds) + 1
      <4>1. expando[e] \in 1 .. guid - 1
        BY <1>1 DEF NumbersFit, DataTypes
      <4>. QED
        BY <1>1, <1>7, <3>2, <4>1
    <3>. QED
      BY <1>8, <3>1, <3>2
  <2>3. \A m, n \in 1 .. Len(deletedIds') : deletedIds'[m] = deletedIds'[n] => m = n
    BY <1>7, <1>8 DEF NumbersFit
  <2>4. ASSUME NEW i \in 1 .. guid' - 1
        PROVE  \/ \E f \in Elements : expando'[f] = i
               \/ \E n \in 1 .. Len(deletedIds') : deletedIds'[n] = i
    <3>1. CASE i = expando[e]
      BY <1>7, <3>1
    <3>2. CASE i # expando[e] /\ \E f \in Elements : expando[f] = i
      BY <1>1, <3>2
    <3>3. CASE \E n \in 1 .. Len(deletedIds) : deletedIds[n] = i
      BY <1>7, <3>3
    <3>. QED
      BY <3>1, <3>2, <3>3 DEF NumbersFit
  <2>. QED
    BY <2>1, <2>2, <2>3, <2>4 DEF NumbersFit
<1>10. \A f \in Elements : expando'[f] # 0 => f # e /\ cache'[expando'[f]] = cache[expando[f]]
  BY <1>1, <1>2, <1>4 DEF Used
<1>11. EntriesFit'
  BY <1>1, <1>10 DEF EntriesFit, EntryOf
<1>12. \A f \in Elements : f # e => Entry(f)' = Entry(f)
  BY <1>1, <1>2, <1>3, <1>4 DEF Entry, Used
<1>13. Entry(e)' = NoEntry
  BY <1>1, <1>4 DEF Entry, Used
<1>14. ReportsFit'
  BY <1>12, <1>13 DEF ReportsFit, NoEntry, DataKeys
<1>15. OpenedFits'
  BY <1>1, <1>12 DEF OpenedFits, IsEmptyDataObject
<1>. QED
  BY <1>6, <1>9, <1>11, <1>14, <1>15

(* A deleted number that is used again, or a new one. *)
LEMMA NewIdFits ==
  ASSUME DataTypes, NumbersFit, NEW e \in Elements, expando[e] = 0,
         expando' = [expando EXCEPT ![e] = NewId.id],
         deletedIds' = NewId.deleted, guid' = NewId.guid
  PROVE  /\ NewId.id \in Nat \ {0}
         /\ \A f \in Elements : expando[f] # NewId.id
         /\ guid' \in Nat \ {0} /\ deletedIds' \in Seq(Nat)
         /\ NumbersFit'
<1>. USE DEF DataTypes
<1>1. PICK id : id = NewId.id
  OBVIOUS
<1>2. CASE deletedIds = <<>>
  <2>1. id = guid /\ deletedIds' = <<>> /\ guid' = guid + 1
    BY <1>1, <1>2 DEF NewId
  <2>2. \A f \in Elements : expando[f] # id
    BY <2>1 DEF NumbersFit
  <2>3. /\ expando' \in [Elements -> Nat] /\ expando'[e] = id
        /\ \A f \in Elements : f # e => expando'[f] = expando[f]
    BY <1>1, <2>1
  <2>4. ASSUME NEW i \in 1 .. guid' - 1 PROVE \E f \in Elements : expando'[f] = i
    <3>1. i = id \/ i \in 1 .. guid - 1
      BY <2>1
    <3>2. i \in 1 .. guid - 1 => \E f \in Elements : f # e /\ expando[f] = i
      BY <1>2 DEF NumbersFit
    <3>. QED
      BY <2>3, <3>1, <3>2
  <2>5. NumbersFit'
    BY <2>1, <2>2, <2>3, <2>4 DEF NumbersFit
  <2>. QED
    BY <1>1, <2>1, <2>2, <2>5
<1>3. CASE deletedIds # <<>>
  <2>. DEFINE last == Len(deletedIds)
  <2>1. /\ id = deletedIds[last] /\ deletedIds' = SubSeq(deletedIds, 1, last - 1) /\ guid' = guid
        /\ last \in Nat \ {0}
    BY <1>1, <1>3 DEF NewId
  <2>2. /\ deletedIds' \in Seq(Nat) /\ Len(deletedIds') = last - 1
        /\ \A n \in 1 .. last - 1 : deletedIds'[n] = deletedIds[n]
    <3>1. \A n \in 1 .. last - 1 : deletedIds[n] \in Nat
      BY <2>1
    <3>2. last - 1 \in Int /\ 1 \in Int
      BY <2>1
    <3>. HIDE DEF last
    <3>3. /\ SubSeq(deletedIds, 1, last - 1) \in Seq(Nat)
          /\ Len(SubSeq(deletedIds, 1, last - 1)) = IF 1 <= last - 1 THEN (last - 1) - 1 + 1 ELSE 0
          /\ \A n \in 1 .. (last - 1) - 1 + 1 : SubSeq(deletedIds, 1, last - 1)[n] = deletedIds[1 + n - 1]
      BY <3>1, <3>2, SubSeqProperties
    <3>4. Len(SubSeq(deletedIds, 1, last - 1)) = last - 1
      BY <2>1, <3>3
    <3>5. \A n \in 1 .. last - 1 : n \in 1 .. (last - 1) - 1 + 1 /\ 1 + n - 1 = n
      BY <2>1
    <3>6. \A n \in 1 .. last - 1 : SubSeq(deletedIds, 1, last - 1)[n] = deletedIds[n]
      BY <3>3, <3>5
    <3>. QED
      BY <2>1, <3>3, <3>4, <3>6
  <2>3. id \in 1 .. guid - 1 /\ \A f \in Elements : expando[f] # id
    BY <2>1 DEF NumbersFit
  <2>4. /\ expando' \in [Elements -> Nat] /\ expando'[e] = id
        /\ \A f \in Elements : f # e => expando'[f] = expando[f]
    BY <1>1, <2>3
  <2>5. \A n \in 1 .. Len(deletedIds') : n \in 1 .. last /\ n # last
    BY <2>1, <2>2
  <2>6. \A n \in 1 .. last : n # last => n \in 1 .. Len(deletedIds') /\ deletedIds'[n] = deletedIds[n]
    BY <2>1, <2>2
  <2>. HIDE DEF last
  <2>7. /\ \A f \in Elements : expando'[f] < guid'
        /\ \A f, g \in Elements : expando'[f] = expando'[g] /\ expando'[f] # 0 => f = g
    BY <2>1, <2>3, <2>4 DEF NumbersFit
  <2>8. ASSUME NEW n \in 1 .. Len(deletedIds')
        PROVE  deletedIds'[n] \in 1 .. guid' - 1 /\ \A f \in Elements : expando'[f] # deletedIds'[n]
    <3>1. n \in 1 .. last /\ n # last /\ deletedIds'[n] = deletedIds[n] /\ last \in 1 .. last
      BY SMTT(30), <2>1, <2>5, <2>6
    <3>2. deletedIds[n] \in 1 .. guid - 1 /\ deletedIds[n] # id /\ \A f \in Elements : expando[f] # deletedIds[n]
      BY <2>1, <3>1 DEF NumbersFit, last
    <3>. QED
      BY <2>1, <2>4, <3>1, <3>2
  <2>9. ASSUME NEW m \in 1 .. Len(deletedIds'), NEW n \in 1 .. Len(deletedIds'), deletedIds'[m] = deletedIds'[n]
        PROVE  m = n
    <3>1. /\ m \in 1 .. last /\ n \in 1 .. last
          /\ deletedIds'[m] = deletedIds[m] /\ deletedIds'[n] = deletedIds[n]
      BY <2>5, <2>6
    <3>2. deletedIds[m] = deletedIds[n]
      BY <2>9, <3>1
    <3>3. m \in 1 .. Len(deletedIds) /\ n \in 1 .. Len(deletedIds)
      BY <3>1 DEF last
    <3>. QED
      BY <3>2, <3>3 DEF NumbersFit
  <2>10. ASSUME NEW i \in 1 .. guid' - 1
         PROVE  \/ \E f \in Elements : expando'[f] = i
                \/ \E n \in 1 .. Len(deletedIds') : deletedIds'[n] = i
    <3>1. i \in 1 .. guid - 1 /\ i # 0
      BY <2>1
    <3>2. CASE \E f \in Elements : expando[f] = i
      BY <2>4, <3>1, <3>2
    <3>3. CASE \E n \in 1 .. last : deletedIds[n] = i
      BY <2>1, <2>4, <2>6, <3>3
    <3>. QED
      BY <3>1, <3>2, <3>3 DEF NumbersFit, last
  <2>11. NumbersFit'
    BY <2>7, <2>8, <2>9, <2>10 DEF NumbersFit
  <2>. QED
    BY SMTT(30), <1>1, <2>1, <2>2, <2>3, <2>11
<1>. QED
  BY <1>2, <1>3

(* internalData stores values for some keys, or none. *)
LEMMA InternalDataFits ==
  ASSUME DataInv, NEW e \in Elements, NEW keys \in SUBSET DataKeys, InternalData(e, keys),
         reported' \in [Elements -> SUBSET DataEventTypes],
         reported'[e] = reported[e] \cup (keys \cap DataEventTypes),
         \A f \in Elements : f # e => reported'[f] = reported[f]
  PROVE  DataInv'
<1>0. DataTypes /\ NumbersFit /\ EntriesFit /\ ReportsFit /\ OpenedFits /\ e # NoValue
  BY ElementsAssumption DEF DataInv
<1>. DEFINE entry == [key \in DataKeys |-> IF key \in keys THEN e ELSE Entry(e)[key]]
<1>1. EntryOf(e, entry)
  <2>1. \A key \in DataKeys : Entry(e)[key] \in {e, NoValue}
    BY <1>0, EntryIs DEF EntriesFit, EntryOf
  <2>. QED
    BY <1>0, <2>1 DEF EntryOf, Entries
<1>2. reported'[e] = {type \in DataEventTypes : entry[type] # NoValue}
  <2>1. \A type \in DataEventTypes : entry[type] # NoValue <=> type \in keys \/ Entry(e)[type] # NoValue
    BY <1>0 DEF DataKeys
  <2>. QED
    BY <1>0, <2>1 DEF ReportsFit
<1>5. e \in opened' <=> IsEmptyDataObject(entry)
  <2>1. CASE keys # {}
    <3>1. PICK key \in DataKeys : key \in keys
      BY <2>1
    <3>2. entry[key] # NoValue
      BY <1>0, <3>1
    <3>3. e \notin opened'
      BY <2>1 DEF InternalData
    <3>. QED
      BY <3>2, <3>3 DEF IsEmptyDataObject
  <2>2. CASE keys = {}
    <3>1. IsEmptyDataObject(entry) <=> IsEmptyDataObject(Entry(e))
      BY <2>2 DEF IsEmptyDataObject
    <3>2. e \in opened' <=> expando[e] = 0 \/ e \in opened
      BY <2>2 DEF InternalData
    <3>3. expando[e] = 0 => IsEmptyDataObject(Entry(e))
      BY <1>0, EntryIs DEF IsEmptyDataObject
    <3>. QED
      BY <1>0, <3>1, <3>2, <3>3 DEF OpenedFits
  <2>. QED
    BY <2>1, <2>2
<1>6. \A f \in Elements : f # e => (f \in opened' <=> f \in opened)
  BY DEF InternalData
<1>3. CASE expando[e] = 0
  <2>1. /\ expando' = [expando EXCEPT ![e] = NewId.id]
        /\ deletedIds' = NewId.deleted /\ guid' = NewId.guid
        /\ cache' = SetEntry(NewId.id, [key \in DataKeys |-> IF key \in keys THEN e ELSE
                       (IF NewId.id \in DOMAIN cache THEN cache[NewId.id] ELSE NoEntry)[key]])
    BY <1>3 DEF InternalData
  <2>2. /\ NewId.id \in Nat \ {0} /\ \A f \in Elements : expando[f] # NewId.id
        /\ guid' \in Nat \ {0} /\ deletedIds' \in Seq(Nat) /\ NumbersFit'
    BY <1>0, <1>3, <2>1, NewIdFits
  <2>3. NewId.id \notin DOMAIN cache
    BY <1>0, <2>2 DEF DataTypes, Used
  <2>4. cache' = SetEntry(NewId.id, entry)
    BY <1>0, <1>3, <2>1, <2>3, EntryIs
  <2>. HIDE DEF entry
  <2>5. PICK id : id = NewId.id
    OBVIOUS
  <2>6. /\ id \in Nat \ {0} /\ \A f \in Elements : f # e => expando[f] # id
        /\ expando[e] \in {0, id} /\ expando' = [expando EXCEPT ![e] = id] /\ cache' = SetEntry(id, entry)
    BY <1>3, <2>1, <2>2, <2>4, <2>5
  <2>. QED
    BY <1>1, <1>2, <1>5, <1>6, <2>2, <2>6, Stored
<1>4. CASE expando[e] # 0
  <2>1. expando[e] \in DOMAIN cache /\ Entry(e) = cache[expando[e]] /\ expando[e] \in Nat \ {0}
    BY <1>0, <1>4, EntryIs DEF DataTypes
  <2>2. /\ expando' = [expando EXCEPT ![e] = expando[e]]
        /\ deletedIds' = deletedIds /\ guid' = guid
        /\ cache' = SetEntry(expando[e], entry)
    BY <1>4, <2>1 DEF InternalData
  <2>3. expando' = expando
    BY <1>0, <2>2 DEF DataTypes
  <2>4. guid' \in Nat \ {0} /\ deletedIds' \in Seq(Nat)
    BY <1>0, <2>2 DEF DataTypes
  <2>6. NumbersFit'
    BY <1>0, <2>2, <2>3 DEF NumbersFit
  <2>5. \A f \in Elements : f # e => expando[f] # expando[e]
    BY <1>0, <1>4 DEF NumbersFit
  <2>. HIDE DEF entry
  <2>. QED
    BY <1>1, <1>2, <1>5, <1>6, <2>1, <2>2, <2>4, <2>5, <2>6, Stored
<1>. QED
  BY <1>3, <1>4

(* internalRemoveData takes the values of some keys away, and perhaps the  *)
(* entry.                                                                  *)
LEMMA InternalRemoveFits ==
  ASSUME DataInv, NEW e \in Elements, NEW keys \in SUBSET DataKeys, InternalRemoveData(e, keys), guid' = guid,
         reported' \in [Elements -> SUBSET DataEventTypes],
         reported'[e] = reported[e] \ keys,
         \A f \in Elements : f # e => reported'[f] = reported[f]
  PROVE  DataInv'
<1>0. DataTypes /\ NumbersFit /\ EntriesFit /\ ReportsFit /\ OpenedFits
  BY DEF DataInv
<1>. DEFINE entry == [key \in DataKeys |-> IF key \in keys THEN NoValue ELSE Entry(e)[key]]
<1>1. entry \in Entries /\ \A key \in DataKeys : entry[key] \in {e, NoValue}
  BY <1>0, EntryIs DEF EntriesFit, EntryOf, Entries
<1>2. reported'[e] = {type \in DataEventTypes : entry[type] # NoValue}
  <2>1. \A type \in DataEventTypes : entry[type] # NoValue <=> type \notin keys /\ Entry(e)[type] # NoValue
    BY DEF DataKeys
  <2>. QED
    BY <1>0, <2>1 DEF ReportsFit
<1>3. CASE expando[e] = 0
  <2>1. UNCHANGED <<cache, expando, deletedIds, opened>>
    BY <1>0, <1>3, EntryIs DEF InternalRemoveData
  <2>2. \A type \in DataEventTypes : Entry(e)[type] = NoValue
    BY <1>0, <1>3, EntryIs DEF DataKeys
  <2>3. reported'[e] = reported[e]
    BY <1>0, <2>2 DEF ReportsFit
  <2>4. reported' = reported
    BY <1>0, <2>3 DEF DataTypes
  <2>. QED
    BY <1>0, <2>1, <2>4 DEF DataInv, DataTypes, Used, NumbersFit, EntriesFit, ReportsFit, OpenedFits, Entry
<1>4. CASE expando[e] # 0 /\ IsEmptyDataObject(entry)
  <2>1. FreeEntry(e, expando[e], cache)
    BY <1>0, <1>4, EntryIs DEF InternalRemoveData
  <2>2. reported'[e] = {}
    BY <1>2, <1>4 DEF IsEmptyDataObject, DataKeys
  <2>. QED
    BY <1>4, <2>1, <2>2, Freed DEF FreeEntry, CacheWithout
<1>5. CASE expando[e] # 0 /\ ~IsEmptyDataObject(entry)
  <2>1. cache' = SetEntry(expando[e], entry) /\ UNCHANGED <<expando, deletedIds, opened>>
    BY <1>0, <1>5, EntryIs DEF InternalRemoveData
  <2>2. expando' = [expando EXCEPT ![e] = expando[e]] /\ expando[e] \in Nat \ {0}
    BY <1>0, <1>5, <2>1 DEF DataTypes
  <2>3. NumbersFit' /\ guid' \in Nat \ {0} /\ deletedIds' \in Seq(Nat)
    BY <1>0, <2>1 DEF NumbersFit, DataTypes
  <2>4. \A f \in Elements : f # e => expando[f] # expando[e]
    BY <1>0, <1>5 DEF NumbersFit
  <2>5. EntryOf(e, entry)
    BY <1>1, <1>5 DEF EntryOf
  <2>8. e \in opened' <=> IsEmptyDataObject(entry)
    <3>1. ~IsEmptyDataObject(Entry(e))
      BY <1>5 DEF IsEmptyDataObject
    <3>. QED
      BY <1>0, <1>5, <2>1, <3>1 DEF OpenedFits
  <2>. HIDE DEF entry
  <2>6. PICK id : id = expando[e]
    OBVIOUS
  <2>7. /\ id \in Nat \ {0} /\ \A f \in Elements : f # e => expando[f] # id
        /\ expando[e] \in {0, id} /\ expando' = [expando EXCEPT ![e] = id] /\ cache' = SetEntry(id, entry)
    BY <2>1, <2>2, <2>4, <2>6
  <2>. QED
    BY <1>2, <2>1, <2>3, <2>5, <2>7, <2>8, Stored
<1>. QED
  BY <1>3, <1>4, <1>5

(* cleanData deletes the entry once, whichever way. *)
LEMMA CleanDataFits ==
  ASSUME DataInv, NEW e \in Elements, CleanData(e)
  PROVE  DataInv'
<1>0. DataTypes /\ expando[e] # 0
  BY EntryIs DEF DataInv, CleanData
<1>1. \A entry : DOMAIN SetEntry(expando[e], entry) \ {expando[e]} = DOMAIN cache \ {expando[e]}
  BY DEF SetEntry
<1>2. \A entry : [i \in DOMAIN SetEntry(expando[e], entry) \ {expando[e]} |-> SetEntry(expando[e], entry)[i]]
                   = CacheWithout(expando[e])
  BY <1>1 DEF SetEntry, CacheWithout
<1>3. /\ cache' = CacheWithout(expando[e])
      /\ expando' = [expando EXCEPT ![e] = 0]
      /\ deletedIds' = Append(deletedIds, expando[e])
      /\ opened' = opened \ {e}
  <2>1. \/ FreeEntry(e, expando[e], cache)
        \/ \E entry : FreeEntry(e, expando[e], SetEntry(expando[e], entry))
    BY DEF CleanData
  <2>. QED
    BY <1>2, <2>1 DEF FreeEntry, CacheWithout
<1>4. /\ guid' = guid /\ reported' \in [Elements -> SUBSET DataEventTypes] /\ reported'[e] = {}
      /\ \A f \in Elements : f # e => reported'[f] = reported[f]
  BY <1>0 DEF CleanData, DataTypes
<1>. QED
  BY <1>0, <1>3, <1>4, Freed

LEMMA DataSteps == ASSUME DataInv, [DataNext]_dataVars PROVE DataInv'
<1>0. reported \in [Elements -> SUBSET DataEventTypes]
  BY DEF DataInv, DataTypes
<1>1. UserKeys \subseteq DataKeys /\ UserKeys \cap DataEventTypes = {} /\ DataEventTypes \subseteq DataKeys
      /\ {"parsedAttrs", "handle"} \subseteq DataKeys \ DataEventTypes
  BY DEF UserKeys, DataKeys, DataEventTypes, InternalKeys
<1>2. ASSUME NEW e \in Elements, SetData(e) PROVE DataInv'
  BY <1>0, <1>1, <1>2, InternalDataFits DEF SetData, StoreData, UserKeys
<1>3. ASSUME NEW e \in Elements, RemoveData(e) PROVE DataInv'
  <2>1. reported[e] = reported[e] \ UserKeys
    BY <1>0, <1>1
  <2>. QED
    BY <1>0, <1>1, <1>3, <2>1, InternalRemoveFits DEF RemoveData
<1>4. ASSUME NEW e \in Elements, ReadAttributes(e) PROVE DataInv'
  <2>1. PICK keys : keys \subseteq UserKeys /\ StoreData(e, {"parsedAttrs"} \cup keys)
    BY <1>4 DEF ReadAttributes
  <2>2. ({"parsedAttrs"} \cup keys) \cap DataEventTypes = {} /\ {"parsedAttrs"} \cup keys \in SUBSET DataKeys
    BY <1>1, <2>1
  <2>3. reported' = reported /\ reported'[e] = reported[e] \cup (({"parsedAttrs"} \cup keys) \cap DataEventTypes)
    BY <1>4, <2>2 DEF ReadAttributes
  <2>. QED
    BY <1>0, <2>1, <2>2, <2>3, InternalDataFits DEF StoreData
<1>5. ASSUME NEW e \in Elements, NEW type \in DataEventTypes, AddEvent(e, type) PROVE DataInv'
  <2>1. {type, "handle"} \in SUBSET DataKeys /\ {type, "handle"} \cap DataEventTypes = {type}
    BY <1>1
  <2>2. /\ reported' \in [Elements -> SUBSET DataEventTypes] /\ reported'[e] = reported[e] \cup {type}
        /\ \A f \in Elements : f # e => reported'[f] = reported[f]
    BY <1>0, <1>5 DEF AddEvent
  <2>. QED
    BY <1>5, <2>1, <2>2, InternalDataFits DEF AddEvent, StoreData
<1>6. ASSUME NEW e \in Elements, NEW type \in DataEventTypes, RemoveEvent(e, type) PROVE DataInv'
  <2>1. PICK keys : keys = EventKeysGone(e, type)
    OBVIOUS
  <2>2. keys \in SUBSET DataKeys /\ keys \cap DataEventTypes = {type}
    BY <1>1, <2>1 DEF EventKeysGone
  <2>3. /\ reported' \in [Elements -> SUBSET DataEventTypes] /\ reported'[e] = reported[e] \ {type}
        /\ \A f \in Elements : f # e => reported'[f] = reported[f]
    BY <1>0, <1>6 DEF RemoveEvent
  <2>4. reported'[e] = reported[e] \ keys
    BY <1>0, <2>2, <2>3
  <2>5. InternalRemoveData(e, keys) /\ guid' = guid
    BY <1>6, <2>1 DEF RemoveEvent
  <2>. QED
    BY <2>2, <2>3, <2>4, <2>5, InternalRemoveFits
<1>7. CASE UNCHANGED dataVars
  <2>1. UNCHANGED <<expando, guid, deletedIds, cache, reported, opened>>
    BY <1>7 DEF dataVars
  <2>2. DataTypes' /\ NumbersFit'
    <3>1. DataTypes'
      BY <2>1 DEF DataInv, DataTypes, Used
    <3>2. NumbersFit'
      BY <2>1 DEF DataInv, NumbersFit
    <3>. QED
      BY <3>1, <3>2
  <2>3. EntriesFit' /\ ReportsFit' /\ OpenedFits'
    BY <2>1 DEF DataInv, EntriesFit, ReportsFit, OpenedFits, Entry
  <2>. QED
    BY <2>2, <2>3 DEF DataInv
<1>8. ASSUME NEW e \in Elements, OpenData(e) PROVE DataInv'
  BY <1>0, <1>8, InternalDataFits DEF OpenData
<1>. QED
  BY <1>2, <1>3, <1>4, <1>5, <1>6, <1>7, <1>8, CleanDataFits DEF DataNext

(* A number below guid has one place: it is carried by one element, or it  *)
(* is in the list once.                                                    *)
LEMMA OnePlace ==
  ASSUME DataTypes, NumbersFit, NEW i \in 1 .. guid - 1
  PROVE  Cardinality({e \in Elements : expando[e] = i})
           + Cardinality({n \in DOMAIN deletedIds : deletedIds[n] = i}) = 1
<1>. DEFINE owners == {e \in Elements : expando[e] = i}
            places == {n \in DOMAIN deletedIds : deletedIds[n] = i}
<1>1. i # 0 /\ DOMAIN deletedIds = 1 .. Len(deletedIds)
  BY DEF DataTypes
<1>2. CASE \E e \in Elements : expando[e] = i
  <2>1. PICK e \in Elements : expando[e] = i
    BY <1>2
  <2>2. owners = {e}
    BY <1>1, <2>1 DEF NumbersFit
  <2>3. places = {}
    BY <1>1, <2>1 DEF NumbersFit
  <2>4. Cardinality(owners) = 1 /\ Cardinality(places) = 0
    BY <2>2, <2>3, FS_EmptySet, FS_Singleton
  <2>. QED
    BY <2>4
<1>3. CASE ~\E e \in Elements : expando[e] = i
  <2>1. PICK n \in 1 .. Len(deletedIds) : deletedIds[n] = i
    BY <1>3 DEF NumbersFit
  <2>2. places = {n}
    <3>1. \A m \in 1 .. Len(deletedIds) : deletedIds[m] = i => m = n
      BY <2>1 DEF NumbersFit
    <3>. QED
      BY <1>1, <2>1, <3>1
  <2>3. owners = {}
    BY <1>3
  <2>4. Cardinality(owners) = 0 /\ Cardinality(places) = 1
    BY <2>2, <2>3, FS_EmptySet, FS_Singleton
  <2>. QED
    BY <2>4
<1>. QED
  BY <1>2, <1>3

(* DataInv is an invariant: in every reachable state the numbers have one  *)
(* place each and the entries are those of the elements                    *)
(* (jquery-1.10.1.js:3620-3771,6700-6731).                                 *)
THEOREM DataInvariance == DataSpec => []DataInv
<1>1. DataInit => DataInv
  BY DataStarts
<1>2. DataInv /\ [DataNext]_dataVars => DataInv'
  BY DataSteps
<1>. QED
  BY <1>1, <1>2, PTL DEF DataSpec

(* Whatever is stored, removed and deleted, every element finds only what  *)
(* was stored for it, and an entry without a value is one that was opened  *)
(* for its caller to fill, for every number of elements                    *)
(* (jquery-1.10.1.js:3616-3634,3738-3771,6700-6731).                       *)
THEOREM DataBelongsToItsElement == DataSpec => []DataIsTheElements
<1>1. DataInv => DataIsTheElements
  <2>. SUFFICES ASSUME DataInv PROVE DataIsTheElements
    OBVIOUS
  <2>0. DataTypes /\ NumbersFit /\ EntriesFit /\ ReportsFit /\ OpenedFits
    BY DEF DataInv
  <2>1. ASSUME NEW e \in Elements, NEW key \in DataKeys PROVE Entry(e)[key] \in {e, NoValue}
    BY <2>0, EntryIs DEF EntriesFit, EntryOf
  <2>2. DOMAIN cache = {expando[e] : e \in Elements} \ {0}
    BY <2>0 DEF DataTypes, Used
  <2>3. \A e \in Elements : e \in opened <=> expando[e] \in DOMAIN cache /\ IsEmptyDataObject(Entry(e))
    BY <2>0, EntryIs DEF OpenedFits
  <2>4. \A i \in 1 .. guid - 1 :
          Cardinality({e \in Elements : expando[e] = i})
            + Cardinality({n \in DOMAIN deletedIds : deletedIds[n] = i}) = 1
    BY <2>0, OnePlace
  <2>. QED
    BY <2>0, <2>1, <2>2, <2>3, <2>4 DEF DataIsTheElements, ReportsFit
<1>. QED
  BY <1>1, DataInvariance, PTL

=============================================================================
