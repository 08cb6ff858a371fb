# The accessibility monitor in TLA+

The accessibility monitor tests web pages for accessibility. URLs wait in
RabbitMQ queues, one queue per site or order; worker processes take a message
at a time, run Quail and two smaller tools on the page and store the outcome in
MySQL and Solr; a re-tester schedules URLs whose test failed again. All
processes share the database and the broker and nothing else: there are no
transactions, locks or messages between them. What can go wrong is therefore
in the interleavings of single SQL statements and broker calls, and that is
what the first group of specifications is about (`Monitor`). The second is about
one machine, its daemon, workers and browsers (`Machine`), and the third about
what runs in the browser: the script of PhantomJS and the jQuery it puts into
every page, where callbacks change what is calling them (`Page`).

Source paths below are relative to `src/application/`.

## Inventory

| Part | Code | State | Operations |
|---|---|---|---|
| Worker | `src/Worker.php` | the queue and message in hand, the loaded `Url`, its up-time | `run()`, `processMessage()` |
| Result storage | `src/Storage.php`, `../sql-dump/inspector-11.sql` | tables `url`, `url_result`, `queue`; the Solr index | `getQueueToSubscribeTo`, `deleteEmptyQueues`, `saveQueue`, `getUrlById`, `getUrlsByStatusAndLastProcessedDateTime`, `saveUrl` |
| Testers | `src/Testing/{StorageBased,Grouped,Quail,Wappalyzer,GooglePageSpeed}Tester.php`, `src/Url.php` | the `Url` object under test | `run()` |
| Re-tester | `src/Testing/ReTester.php` | the list loaded at its start | `retest()` |
| Message queues | RabbitMQ through `src/AmqpQueueHelper.php` | the queues, their messages, unacknowledged deliveries | declare, delete, publish, get, ack |
| Front end | another program | - | adds a `queue` row, a `url` row, a message |
| Daemon | `scripts/accessibilitymonitor.conf` | the number of worker processes it counts | starts re-testers and workers |
| PhantomJS | `src/PhantomJs.php`, `phantomquail.js` | child processes, temporary directories; the counter of expected reports | `getQuailResult`, `getDetectedApps`, `killStalledProcesses`, `execTimeout`; the callbacks of the page |
| jQuery | `js/jquery-1.10.1.js` | callback lists, deferreds, the ready count, element data, timers and queues of animations, handlers, requests | `Callbacks`, `Deferred`, `when`, `ready`, `holdReady`, `data`, `cleanData`, `animate`, `stop`, `finish`, `queue`, `on`, `off`, `trigger`, `ajax`, `find` and `filter` |
| Console, bootstrap | `src/Console`, `src/Application.php`, `src/Database.php`, ... | none of their own | wrappers and connection set-up |

How they interact:

* A worker asks the storage for a queue. That call first deletes the queues all
  of whose URLs are done (three kinds of statements, one of them at the
  broker), then chooses, of the queues with scheduled URLs that rested longer
  than the flooding threshold, the one that rested longest.
* It declares the queue, gets one message, sets `last_request` of the queue,
  validates the message, loads the URL, tests it, and `saveUrl` stores the
  status (`UPDATE url`), the result (`UPDATE url_result`) and the cases (Solr)
  one after the other. A `StorageException` on the way publishes the message
  again; any other exception is logged; in every case the message is
  acknowledged.
* A failed run leaves the URL "scheduled for re-test" until the failed test
  count reaches the maximum. The re-tester sets a URL that is due back to
  "scheduled" and publishes it, again with separate statements.
* The daemon starts a re-tester every three seconds in the background, so that
  re-testers may overlap, and a worker when it counts too few.
* A worker waits in `shell_exec` for the browser of Wappalyzer and in
  `execTimeout` for that of Quail; either begins with killing the browsers of
  the whole machine that are too old, whoever started them.
* `phantomquail.js` opens the page, injects jQuery and Quail whenever loading
  finishes, and learns of their end through two callbacks; its output is what
  the worker reads. Quail selects, listens and animates through jQuery.

What is hard: two workers between each other's SELECT and UPDATE; the deletion
of queues from a list read earlier; a save of which only the first statement
succeeded; a message published to a queue that is just being deleted; lists
and `Url` objects in memory that are older than the tables; processes that die
with a message; and whether a URL ever reaches an end through all of this. On a
machine: a count that is stale when it is used, and browsers that hang while
nobody is left to kill them. In a page: one thread, but callbacks that change the
list, queue, timers, handlers or requests from which they are being called, and
answers, time-outs and aborts in any order.
`PROJECT.json` lists each such hazard at its line.

What makes the parts correct:

* **Worker, storage, broker**: a scheduled URL always has exactly one owner (a
  queue with its message, a worker, a re-tester); no queue that is needed is
  deleted; no message is discarded; a site is not flooded; what is marked
  tested is stored and in Solr.
* **Testers**: "tested" means that this run tested; the failed test count and
  the status agree.
* **Re-tester**: a URL is re-tested not before the threshold and not never.
* **Daemon**: no more workers than configured. It misses this by one, and by no
  more than one.
* **PhantomJS**: the browsers left behind stay bounded and are gone again and
  again; the report that is written is that of one page.
* **jQuery**: each callback is called once, in turn, with the outcome of what it
  waits for; what is stored for an element is that element's; counters return to
  zero; answers reach who asked; a selector finds what matches it.

## Modules

| Module | Models |
|---|---|
| `Deployment` | constants, their assumptions, the kinds of failures |
| `Broker` | RabbitMQ (external): queues, messages, deliveries |
| `Storage` | the tables and Solr, one operator per statement |
| `Testers` | the outcome of a test run as a set of possible `Url` objects |
| `Failures` | the budget of failures |
| `Worker` | the worker process over `Broker`, `Testers` (and `Storage`), `Failures` |
| `ReTester` | the re-tester process |
| `Frontend` | the submission of URLs while workers run (external) |
| `Monitor` | all processes together, fairness, the properties |
| `UrlLifecycle` | the abstract specification of a URL's life cycle |
| `MonitorInvariant` | the deployments of the theorems and the inductive invariants |
| `PhantomJs` | the workers of one machine and their browsers: `PhantomJs.php` |
| `Machine` | `PhantomJs` with the daemon, fairness, the properties |
| `CallbackList`, `Callbacks` | one `jQuery.Callbacks` list; lists that fire, change and add to each other |
| `Deferred` | `jQuery.Deferred`, `then` and `when`, over the lists of `Callbacks` |
| `Ready` | `jQuery.ready`, `holdReady`, `ready.promise` |
| `ElementData` | `data`, `removeData`, `cleanData`, and the numbers of deleted entries |
| `Effects` | the `fx` queue, animations and delays, `stop`, `finish`, `promise` |
| `Events` | `on`, `one`, `off`, `trigger`, dispatching and the default action |
| `Ajax` | `jQuery.ajax` with XMLHttpRequest, scripts and JSONP |
| `Selectors` | Sizzle's compiled matchers with their caches, against the definition of a match |
| `PhantomQuail` | `phantomquail.js` |
| `Page` | all parts of a page |
| `MCMonitor`, `MCMachine`, `MCPage` | the instances TLC checks |
| `MonitorProofs` | proofs about the monitor: test runs, types and the inductive invariant; what follows from it, owners, the race for a queue, results |
| `MachineProofs` | proofs about the daemon and the browsers |
| `PageProofs`, `CallbacksProofs`, `DeferredProofs`, `EventsProofs`, `EffectsProofs` | proofs about a page: the ready document, reports, requests and element data; callback lists; deferreds; events; animations and their queue |
| `Induction` | induction over numbers, for the proofs |

**Grain.** An action is one statement that another process can observe: an SQL
statement, a broker call, the request to Solr. Everything local between two
such statements belongs to the action before or after. `pc[w]` is the next
statement of worker `w`: `poll`/`loop` (the active queues are selected next,
or the process shuts down at its TTL), `inactive`, `purge`, `purgeRow` (in
`deleteEmptyQueues`), `purge` with nothing left to delete and `select` (in
`getQueueToSubscribeTo`), `declare`, `get` (in `run`), `register` (`saveQueue`),
`load`, `test`, `result`, `solr` (the three parts of `saveUrl`), `republish`,
`ack`. `rpc[r]` is the same for a re-tester. The TTL is at least one tick, so
that the loop condition succeeds the first time.

**Time.** Ages replace time stamps: `idle[q]` is the time since `last_request`,
`sinceTested[u]` since `last_processed`. `Tick` increases all of them; an age
stops growing once no comparison of the code can tell it from a larger one, so
that nothing is bounded that the code does not bound. `idle = Never` is
`last_request = 0`, the default of the column (older than every threshold, but
not deletable), and `sinceTested = NotProcessed` is NULL.

**Broker.** A message carries a URL id and is always sent to the queue of that
URL, so that the contents of all queues are one bag `ready`. The order within a
queue is left out: `basic_get` may return any message of the queue. This
covers every order, redeliveries included. A message published to a queue that
does not exist is dropped (default exchange, no mandatory flag), and
`queue_delete` takes waiting and unacknowledged messages with it.

**Data.** A Quail result is `none`, `clean` (criteria without cases) or `cases`.
The `Url` object in memory keeps the result loaded from the table, as
`createUrlFromStorageRecord` does, while the cases to be indexed exist only
after a run in this process (`hasCases`). What Wappalyzer and PageSpeed find is
left out; that they may end the run of a root URL before Quail is not.

**Failures.** `Faults` names the kinds that may happen, `MaxFaults` bounds their
number: `storage` (the first statement of a save), `result` (`UPDATE
url_result`), `solr`, `read` (the SELECT in `processMessage`), `workerCrash`,
`reTesterCrash`. An exception outside `processMessage` ends the process and is
covered by the crashes. The bound stands for services that recover; with an
unbounded number of failures no liveness could hold.

**Abstract specification.** `UrlLifecycle` has the two columns `status` and
`failed_test_count` for its state and says what `Documentation/TD_retest.md`
promises: a scheduled URL succeeds, or fails and is scheduled once more until
the maximum. `Monitor` implements it with the identity as refinement mapping.

**Machine.** An action is one step that another process can observe: a count
with `ps` and `grep`, the decision that follows, the start of a browser together
with the `killall` before it, its end, a time-out. `grep` may or may not be in the
list that `ps` prints, so that the count is exact or one too small. Ages of
browsers are ticks up to just above the limit of `killall --older-than`; browsers
that nobody waits for are only counted by age. Taken as given: the destructor of
`proc_open`'s resource does not wait for the process (PHP uses `WNOHANG` after
`execTimeout` has thrown); a worker that was started is listed by `ps` in the next
round; the wrapper of Quail and its `phantomjs` end together; the 25 seconds of
Phantalyzer's own timer do not pass while a script of the page loops.

**Page.** JavaScript runs one script at a time, but any callback may call the
library again. Where a call nests, the running calls are a stack of frames, and
an action is what one of them does between two callbacks. The parts of jQuery
keep separate state; what one calls of another (a deferred its lists, an
animation its deferred) is part of the module that calls. `Page` is therefore a
sum: `facility` says which part a behaviour is about, and all parts share one
run. A document for `Selectors` is a tree of elements with a class each, and the
selectors are built from classes, the four combinators, `:not` and `:has`; the
native `querySelectorAll` is not jQuery's.

## Fairness

`FairSpec` adds weak fairness of each worker's and each re-tester's steps and
of the clock. The operating system schedules every process, all waits in the
modelled code are bounded (`sleep`, `basic_get` does not block), the daemon
starts a worker or re-tester again after each end. Nothing is assumed of the
outcomes of tests (a URL may fail for ever), of failures, or of the choice
among messages.

`BusyMachine` adds weak fairness of the daemon's loop, of the clock and of the
workers taken together, and strong fairness of starting a test: URLs keep
coming, so that a worker that returns to its loop again and again starts a
test. Nothing is assumed to make a browser end. The parts of a page need no
fairness: what they promise is stated as invariants of what is left to do.

## Runs

The runs of `Monitor` have thresholds of one tick (the comparisons distinguish "less",
"equal" and "more" already at one), a TTL of one tick, and at most two workers:
every hazard listed is a matter of two processes, or of one process and its own
past.

| Run | Instance | Question |
|---|---|---|
| `core` | 2 workers, 1 re-tester, 2 root URLs in one queue, a failing save, symmetric | Is a URL ever with two parties or with none, a needed queue or message ever deleted, a result not of this run? Is each re-test apart and each failed run counted? Does the monitor implement the life cycle? |
| `single_worker` | 1 worker, 1 re-tester, the front end, a message for an unknown URL and a malformed one, every kind of failure (one of them) | Types everywhere; the comparison with the flooding threshold |
| `recovery` | 1 worker, 2 URLs in one queue, `MaxFailedTestRuns` = 1, up to 2 of: failing save, Solr failure, crash | Redelivery and republication keep each URL owned and bring it to an end |
| `liveness` | 1 worker, 1 re-tester, 2 URLs in 2 queues, a failing save | What is marked tested is published; each failure is followed by another test; the fair life cycle |
| `machine` | up to 4 workers at `max_worker_count` 2, TTL, time-out and limit of one tick, one process that dies | Does the error of the count stay at one? Are left browsers bounded? Are hanging browsers killed? |
| `page` | each part of jQuery and `phantomquail.js`, bounds below | Does each part keep its promise to whoever called it? |

`core` and `recovery` have both URLs in one queue, which therefore stays active for
one when the other is done, `liveness` has them in two, between which the choice of
the queue is made. Two workers with two queues are in the proofs only. Two failed runs per URL are enough for a first failure, a re-test and a
dismissal.

`machine` has two workers more than configured, so that the bound is not due to
the number of slots; at `Timeout` = `StallLimit` a browser of Quail may be left
behind just before or just as it becomes too old. The process that dies may be a
worker or the daemon.

The bounds of `page` are the smallest at which calls nest twice and a third party
interferes: two callbacks that may add, remove, fire, lock, empty or throw, and
four operations; two holds of the ready document; four writes to the data of
two elements; five operations on the animations of one element (three animations, a
`stop` and a `stop` within it are needed for its loop to find no timer); four operations
on one handler function, which may be bound to two nodes, directly or for a
selector, for an event the browser reports and for one it does not; three requests of either
kind, so that a name of a JSONP callback is given back and taken again while
another request is under way; all documents with up to four elements of two
classes and two queries, so that a cache is used by a second one; three loads and
two pages. Every mutant of these parts is found within them. A page stops at its
bounds, which is why this run does not check for deadlocks.

What the runs leave open, by choice of their instances:

* `TestedIsPublished` is checked with one worker and without a failing Solr. With two
  workers, one that is delayed between `UPDATE url` and `UPDATE url_result` for as long as
  the re-test threshold (six hours as configured) overwrites the result of the next run;
  the theorem `TestedReachesStorage` says that, as long as nothing else fails, only this
  delay does. After a failure of Solr the URL is tested and not indexed, of which
  `v_solr_retry_lost` shows the worst outcome.
* `NoUrlStranded` holds when saves fail at their first statement. It does not
  hold when `UPDATE url_result` fails in the re-tester, when a SELECT fails in
  `processMessage`, when a re-tester dies half way, or when a worker dies and
  the re-tester works with an old list; the hazards name these.
* A URL that the front end adds while workers run can lose its message: the row
  in `url` exists before the message, or the queue row before the `url` row,
  and a deletion of empty queues falls in between. The front end's order is an
  assumption, therefore no property is stated.

* `HangsAreCleared` makes an exception of the state in which all the workers hang in
  `shell_exec`. Then no worker is started, none calls `killStalledProcesses`, and
  the machine stands still until someone kills a process; without the exception
  TLC finds this.
* `SelectsWhatMatches` demands of a selector with a `:has` inside a `:has`
  only that it selects no wrong element, in document order: Sizzle
  matches the inner selector with the same `cachedruns` and does not restore it. In
  the document 1.a > 2.b > {3.b, 4.a, 5.b}, filtering the elements, last
  first, by `.a:has(.b:has(.a)) .b` misses element 3.
* jQuery does lose track of the queue of an element, and the model shows it doing so.
  `OneAtATime` and `PromisesResolve` hold until the page does one of six things, which the
  comment of `OneAtATime` lists and `disturbed` remembers: an exception in a complete
  callback; `stop` or `finish` in a callback that either is calling; `stop` without
  `clearQueue` in a complete callback of the queue; `clearQueue` while an animation or a
  delay runs; queueing on an emptied queue from such a callback or while one runs;
  `finish`, `stop(true)` or `stop(false, true)` during a delay, whose timeout may then go off
  although nothing waits for it. What the property adds is that there is no seventh.
* `AnimationsAreDriven` survives all of these but one: when a callback that `stop` or
  `finish` calls itself calls `stop` or `finish` (`nested`), the outer loop goes on with an
  index that is out of date. Its `splice` may take away the timer of an animation that was
  started meanwhile, or it may find no timer at all, which is an exception
  (`NoTimerToStop`).
* `jQuery.active` is wrong for ever after two kinds of mistakes. An exception in a callback
  skips the decrement, and a request that a handler of `ajaxSend` has aborted ends twice.
  `ActiveCounts` says what the count is with both (`leaked`, `again`), so that every other
  error would show. `AnswersReachTheirRequest` leaves out scripts of aborted requests
  that run late: they answer whichever request has their name by then.
* A call of `fire` that waits is dropped when the list is locked or disabled, also by a
  deferred that is settled. `FiresAreCarriedOut` counts these (`due`, `dropped`) and demands
  the others. After an exception in a callback a list counts as firing for ever;
  the property leaves that state out.
* A handler bound with `one` runs twice if an earlier handler of the same event
  triggers the event again; `CalledOncePerEvent` is about one event.

Six runs end in a violation, each with the line it contradicts in
`PROJECT.json`:

* `v_too_many_workers`: the documentation calls `max_worker_count` the maximum number of
  concurrent workers; when `ps` is done before `grep` is in its list, the daemon counts
  one too few and starts one too many.
* `v_flooding`: two workers choose the same queue before either stores
  `last_request`, and the flooding threshold is not kept.
* `v_solr_retry_lost`: a message published again because Solr failed is
  deleted with its queue, as its URL is already marked tested.
* `v_stale_result`: a re-test that reads nothing from Quail counts as
  successful because the object still holds the result of an earlier run.
* `v_overlapping_retesters`: a re-tester that overlaps with another hands a URL
  back that has been tested in the meantime, and writes old columns back.
* `v_blocked_queues`: a queue with a scheduled URL and no message comes first in
  every choice, and the URLs of other queues wait for ever.

## Proofs

For the monitor, TLAPS proves the following for all values of the constants: any number of URLs,
queues, workers, any thresholds, any number of failures. The assumptions are
`PopulationAssumption`, `SettingsAssumption` and `FaultsAssumption` in
`Deployment`, and the kind of deployment each theorem names.

1. `TestRunsSound`: what a test run can do to a `Url` object.
2. `TypeCorrect`: `TypeOK`, for every deployment. It is inductive as it stands,
   because it includes what a worker holds at each place.
3. `CalmInvariance`: `CalmInv` in a `CalmDeployment`: all URLs known from the
   start, at most one re-tester at a time, and only failures of the first
   statement of a save, of loading a URL, and of re-tester processes.
4. From `CalmInv`: `WorkIsNotDuplicated`, `QueuesAreNotOrphaned`, `BudgetIsKept`,
   `RetestsKeepTheirDistance`, `RetestsAreDue`, `MessagesAreKept` and the
   refinement `LifecycleIsImplemented`.
5. `NoUrlIsStranded`: every scheduled URL has an owner in a `SafeDeployment`,
   where only the first statement of a save may fail.
6. `GetFailsHarmlessly`: in a `CalmDeployment` with any number of workers, a worker whose
   queue is deleted by another between `queue_declare` and `basic_get` leaves nothing
   behind. `FloodingNeedsARace`: for any number of workers and whatever fails, the flooding
   threshold is kept as long as no two workers are between the choice of a queue and
   `saveQueue` with the same queue (`SharedChoice`). So the race of `v_flooding` is the only
   way to lose it.
7. `FreshInvariance` and, from it, `TestedBecauseOfThisRun`: in a `CalmDeployment` a URL
   is marked tested only with a result of the run that marks it. `FreshInv` adds to
   `CalmInv` that nobody holds an old one: a URL that is not tested has no result in the
   table, in a worker that is about to test it or in the list of a re-tester.
   `TestedReachesStorage`: with any number of workers the result also reaches the table,
   and its cases Solr, unless a worker is so slow that the URL is handed out again before
   its save is complete (`LateSave`).

For a machine (`MachineAssumption`, `DaemonAssumption`; any number of slots, any
`max_worker_count`, any number of deaths):

8. `MachineInvariance`, and from it `MachineTypeCorrect` and `WorkersAreBounded`: the
   documented maximum is missed by one worker at most. The strengthening is `CountIsRecent`:
   between counting and deciding the workers only become fewer, so that the
   count is too small by the missing `grep` and by nothing else.
9. `BrowsersAreBounded`: the number of browsers, those left behind included, from
   `BrowsersInv`: of those left behind, apart from orphans of workers that died, each had
   its worker for as long as a time-out is. So in any window of ages as wide as a
   time-out there are no more than workers, and the ages up to the limit are divided into
   such windows.

For a page, each part by itself (`ReadySpec`, `QuailSpec`, `AjaxSpec`, `DataSpec`,
`CallbacksSpec`, `DeferredSpec`, `EventsSpec`, `EffectsSpec` are what `Page` runs when that part
is used), whatever the bounds:

10. `ReadyInvariance`, `ReadyIsNotEarly`, `ReadyIsNotLost`: `readyWait` is the holds
    that were not released, plus one until the browser is ready; and while the
    callbacks wait, an event, a timer or a release is still to come.
11. `ReportIsOfThePage`: nothing is written while the page is open, and an evaluation
    that can report finds the counter at one.
12. `AnswersAreNotMixedUp`: a JSONP request that is not over owns its name, a free
    name is in the list once and belongs to nobody (`NamesAreFree`), only a
    request with a transport waits for a script (`RequestFits`), and nothing
    comes between `beforeSend` and the sending of a script (`SendIsNext`). Without
    the last, a callback could end the request between its two halves.
13. `ActiveIsExact`: `jQuery.active` is the number of requests that were counted and are
    not over, plus the decrements that exceptions have skipped, minus the requests that
    ended twice. In the middle of a script the invariant adds the ends of `done` that are
    still on the stack.
14. `DataInvariance` and `DataBelongsToItsElement` (`ElementsAssumption`: the value for
    "nothing stored" is not an element): a number below `guid` is the number of one
    element, or once in the list of deleted numbers, and an entry of the cache holds
    values that were stored for the element that has its number, at least one unless
    `jQuery.data` without a name has made it and nothing was stored since (`opened`).
15. `FiringInvariance` and `WaitingCallsAreAccountedFor`, for any callback lists: until a
    callback throws, the lists that are being fired are those on the stack, each once, so
    that a call of `fire` which only counts itself (`waiting`) does so inside a loop that
    will see it. The calls that had to wait are those that wait (`waiting`), and those that
    were dropped with the stack (`dropped`).
16. `TurnsInvariance` and the refinement `CallbackListIsImplemented`: the list with its
    `index`, `length` and `start` implements the one that has only the callbacks still
    owed (`CallbackList`), while callbacks add, remove, fire, empty, disable and lock it.
    `CallbacksAssumption` keeps the name that stands for no callback apart.
17. `DeferredInvariance`, `DeferredsCarryOutCalls`, `CallbacksAreCalledForTheOutcome`, for
    deferreds with `then` and `when` on top (`DeferredAssumption` keeps the names of
    jQuery's own callbacks apart from the page's); and, with `LinkInvariance`,
    `ThenGivesTheOutcome` and `WhenGivesTheOutcome`: what `then` and `when` return is settled
    as their arguments are, whatever settles when.
18. `EventsInvariance`, `ListenersAreExact`, `HandlersAreCalledOnce`: the browser listens
    where there are handlers, `delegateCount` tells them apart, and no handler is called
    twice for one event and element, whatever handlers bind, unbind, trigger and remove
    meanwhile.
19. `EffectsKeepDriving`, `EffectsRunOneAtATime`, `EffectsPromisesResolve`: no running
    animation loses its timer, the queue runs one function at a time and does not stall, and
    a promise is resolved in the step after which nothing is left to wait for; each until
    the page does what "What the runs leave open" says of it.

**The invariant of the monitor.** None of the properties in 4 is inductive. That no message is
discarded depends on what a worker remembers between three statements:
`PurgeIsSafe` says that the names in its list belong to queues without
unsettled URLs. This stays true only because a settled URL never becomes
unsettled again, which depends on messages existing for testable URLs only
(`MessagesAreCurrent`), hence on there being one copy of each (`OneCopy`), and on
the re-tester's list being up to date (`ReTesterIsCurrent`), which is where
overlapping re-testers break it. `QueueIsThere` is what republication relies on,
`DeliveriesHaveWorkers` says that a worker that ends in its loop gives no message
back, and `RetestsAreSpaced` and `CountMatchesStatus` carry the re-test threshold
and the failed test count. Each action of a worker changes only part of this;
the lemmas `Bystander`, `QuietStep` and `Carrying` cover the steps that change
none of it, and the actions that move a message or a status have a lemma each.

**The refinement of a callback list.** The abstract `owed` is what lies between
`index` and `length`. Two things make this hold. `remove` takes as many from `index` and
`length` as it removes callbacks before them; `WithoutFits` and `WithoutInParts` say that
the list without a callback is the two parts without it, one after the other, and as
long as the count says. And the end of a firing may begin the next, or several in a
row when the list is empty: `HandsOver` is what each round of that loop leaves behind
(the list at its end, at rest, or at its start), and `ContinuedHandsOver` carries it
through `waiting` rounds. Only a list that was emptied during its firing breaks the
correspondence of `index` and list, which is why the abstract list promises nothing to
who joins after that (`cleared`).

**The invariant of a deferred.** `DeferredFits` has four parts. `ListsAndStackFit`: what
is on each list, and that each frame of the stack is a call of the callback its list
is at; `done` and `fail` start with the three callbacks that tie them to the others
until they are fired, and are emptied by their one firing. `ExclusiveFits`: once one of
the two is fired, the other is dead, except while the first two callbacks of the firing
run (`Urgent`), and these are on top of the stack, so that no code of the page comes
in between; this is what makes `called` zero for the other outcome. `StatesFit`: the
state is that of the list fired as soon as the step that sets it is taken. `CountsFit`:
each callback of the page was called or is still ahead of the index.

**What `then` and `when` hang on the lists.** `ThenFollows` and `WhenCollects` speak of the
moment between two scripts, when the stack is empty. `LinkInv` says what the stack still
owes before. `HooksFit`: which of jQuery's callbacks may be on which list, and which steps a
call on the stack may still take. `Reaches`: a callback that `then` or `when` has for a list
is on it, has been called, or is about to be added, and once its list was fired its result
is settled or about to be. `DeathFits`: only the firing of one of `done` and
`fail` kills the other, so a result that cannot be fired any more has an outcome.
For `when`, `remaining` is `Waits`, the number of arguments whose `Update` may still run
or is under way, plus one for a plain value that `when` has yet to take off; each argument
counts once (`CountedOnce`), and at zero the result is resolved, was
rejected, or `when` is about to look (`Decides`). For `then`, `adopted` replaces the
callbacks on the first deferred by those on the second. `FreshFits`: until either is called
nothing settles the result. A callback that throws leaves all of this behind, which is
why it holds until then.

**The invariant of the events.** `ListenersInv` counts, `CalledInv` says why a dispatch
that works on copies of changing lists repeats nothing. Every binding has a number of its
own, and is bound at the node and for the type it was bound for, or nowhere; what a frame
still has to call are bindings in the order of these copies, none of which it has called
(`KeptInOrder` and the lemmas on insertion say that removing and adding keep the order);
and what it has called belongs to positions of its path that it has passed. The default
action of a triggered event starts the path again with the same `called`: this is where
`jQuery.event.triggered` is needed. While the browser sends that event the frame that acts
by default is the next on the stack, `triggered` has its type, and so no node reports it;
any event on top of it ends before. For a handler bound with `one` the invariant adds
that the running one is in no list, which unbinding and the uniqueness of numbers give.

**The invariants of the effects.** All three properties speak of the moment between two
scripts; the invariants say what the steps on the stack still make up for. `DrivenInv`:
each running animation has a timer; the removal that follows a callback is at the place of a
timer whose animation is over, which holds because at most one loop over
`jQuery.timers` that removes by place is under way and others only append; and `finishing` is set
exactly while `finish` is on the stack, until an exception leaves it set. It holds until `nested`,
where a second such loop begins (`Driven`); an exception only takes steps away, which none of
it needs. The other two hold until `disturbed` as well (`Undisturbed`): what an exception takes
away is just what they count on. `QueueInv` counts what will start the next function of the queue:
a step that will dequeue (a token), a running animation of the queue, or a delay, one of
them if the queue is not empty, none that lasts if it is. An animation that a loop
of `stop` is still going to reach is the exception, in both cases. `PromiseInv`: `unqueued` is
the number of animations outside the queue that run, and of the steps that will count one down;
the hooks are there while a promise is pending, and with an empty queue only as long
as someone is left who will remove them.

**Induction.** The induction theorems of the library take a predicate and cannot be
used with the installed provers; where a number has to be followed (ages, rounds of a
loop, the length of a list), `StepByStep` does it with a set in place of the predicate,
from the well-foundedness of the numbers. The functions that are followed (`Continued`,
`Without`, `Kept`) are recursive functions, not operators.

Model-checked only:

* liveness under fairness, which the proof system does not handle: `EveryUrlSettles`,
  `FailedUrlsAreRetested`, `ImplementsFairLifecycle`, `HangsAreCleared`;
* what is owned and stored after crashes (run `recovery`);
* `SelectsWhatMatches`, whose matchers are recursive operators.

## Not modelled

* The console commands, dependency injection, logging and StatsD, which keep no
  state other parts read; the INSERT branches of `saveUrl` and `saveQueue` and
  `countUrls...`, which nothing in the repository calls; the layout of Solr
  documents; which cases of Quail are duplicates of each other, which
  `processQuailResult` decides within one run and no other part reads.
* A URL without a queue name (the default of the column), for which
  `declareQueue` throws in the re-tester: the front end fills it in.
* Of jQuery: attributes, styles, insertion and cloning, the values an animation
  takes, positional selectors (`:first`, `:eq`) and XML documents, the native side of
  events (links, checkboxes), and the branches for browsers other than PhantomJS.
* Of animations: callbacks other than `complete` (`start`, `step`, `progress`, `done`, `fail`,
  `always`) and callbacks of a promise, which therefore start and stop nothing in the
  model; and `animate({})` without properties, which runs outside the queue and yet
  dequeues it at its end.
* Of deferreds: `jQuery.when` with a single promise, which returns that promise (with a
  plain value before or after it, it is modelled). Of the ready document: the event `ready`
  that is triggered, and its handlers unbound, after the callbacks.
* Of requests: those that succeed from a cache or are answered within `send`; JSONP of the
  same domain, which goes by XMLHttpRequest and is counted, and JSONP with a name given by
  the caller, which overwrites and restores a function of the page; handlers of `ajaxStart`
  and `ajaxStop`, which run no code of the page in the model. Those of `ajaxSend` do, and
  those of the other events run where the request's own callbacks do.
* `hasEventListener`, which keeps no state. With jQuery 1.10.1 it takes its branch for
  1.4.3, which looks for handlers in the public data of an element, where
  jQuery keeps none.
* The vendored packages, Quail and Phantalyzer included. What they find on a
  page is data.
* `callPhantom` exists inside a page only. `phantomquail.js` calls it outside
  when loading or the evaluation fails, which is why `PhantomQuail` has no step
  that quits in this case.

## Plan

1. Proofs: `NoUrlStranded` and `TestedIsPublished` with one worker and crashes.
2. Larger instances of `Selectors` (five elements, two classes each), and its
   positional selectors, as a run of their own.
3. The work of `processQuailResult` on duplicates, against a reference definition.
