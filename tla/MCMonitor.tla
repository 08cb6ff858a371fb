----------------------------- MODULE MCMonitor -----------------------------
(***************************************************************************)
(* Deployments for TLC.                                                    *)
(***************************************************************************)
EXTENDS MonitorInvariant, TLC

CONSTANTS u1, u2, ghost, late, junk, q1, q2, w1, w2, r1, r2

(* The queue of each message: one queue for all, or one for each URL. *)
OneQueue == [m \in Messages |-> q1]
TwoQueues == [m \in Messages |-> IF m = u1 THEN q1 ELSE q2]

(* The queues have the same (priority, created) position: a tie is broken  *)
(* either way, which includes what any order does.                         *)
NoRank == [q \in Queues |-> 0]

(* Workers are interchangeable, and so are the URLs of one queue. *)
SwapUrls == {(u1 :> u2) @@ (u2 :> u1)}
SwapWorkers == {(w1 :> w2) @@ (w2 :> w1)}
Interchangeable == SwapWorkers \cup SwapUrls

=============================================================================
