---------------------------- MODULE MCWebhookQueue ----------------------------
(* Small instances of WebhookQueue for TLC. *)
EXTENDS WebhookQueue, TLC

CONSTANTS e1, e2, e3

\* Two events of one kind and one of another.
QueueOfThree == (e1 :> 0) @@ (e2 :> 0) @@ (e3 :> 1)

\* One event each of two kinds.
QueueOfTwo == (e1 :> 0) @@ (e2 :> 1)

\* The backend may refuse the events of the first queue for ever.
OtherFairSpec == Spec /\ Fairness({e3})

\* The event of the second queue is delivered although the backend may refuse
\* those of the first for ever: the round-robin of drainOneWebhook starves nobody.
OtherQueueDelivered == Delivered({e3})
===============================================================================
