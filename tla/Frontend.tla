------------------------------ MODULE Frontend ------------------------------
(***************************************************************************)
(* The front end that submits URLs.  It is another program; this module    *)
(* assumes no more of it than what Storage and Worker rely on: a URL has a *)
(* row in table queue, a row in table url and a message in the RabbitMQ    *)
(* queue of that name, written in this order by separate calls.            *)
(***************************************************************************)
EXTENDS Broker, Storage, Failures

VARIABLE stage  \* what the front end does next for each URL

FrontendTypeOK ==
  stage \in [Urls -> {"addQueue", "addUrl", "declare", "publish", "done"}]

FrontendInit == stage = [u \in Urls |-> IF u \in Late THEN "addQueue" ELSE "done"]

Advance(u, from, to) ==
  /\ stage[u] = from
  /\ stage' = [stage EXCEPT ![u] = to]

(* The row is kept if it exists; a new one has last_request 0. *)
AddQueue(u) ==
  /\ Advance(u, "addQueue", "addUrl")
  /\ rows' = rows \cup {QueueOf[u]}
  /\ UNCHANGED <<idle, urlVars, brokerVars, faults>>

AddUrl(u) ==
  /\ Advance(u, "addUrl", "declare")
  /\ status' = [status EXCEPT ![u] = "scheduled"]
  /\ UNCHANGED <<failed, sinceTested, result, indexed, queueVars, brokerVars, faults>>

DeclareForUrl(u) ==
  /\ Advance(u, "declare", "publish")
  /\ Declare(QueueOf[u])
  /\ UNCHANGED <<ready, unacked, storageVars, faults>>

PublishUrl(u) ==
  /\ Advance(u, "publish", "done")
  /\ Publish(u)
  /\ UNCHANGED <<declared, unacked, storageVars, faults>>

Submit(u) == AddQueue(u) \/ AddUrl(u) \/ DeclareForUrl(u) \/ PublishUrl(u)

=============================================================================
