----------------------------- MODULE MCMessages ------------------------------
(* Messages out and in, side by side: the outbox, and the notification cards *)
(* of chat messages.  The two share nothing: a behaviour moves one of them.  *)
EXTENDS Outbox

CONSTANTS
    CardsMsgs, Capacity, MaxFailures, MaxRestarts, MaxReads

VARIABLES
    part,    \* the component this behaviour is about
    \* ChatCards
    mem, table, adding, cards_queue, lagged, pending, replay_due, hand, ledger,
    counted, card, revision, reading, times, failures, restarts, reads

Cards == INSTANCE ChatCards WITH
    Msgs <- CardsMsgs, queue <- cards_queue

Parts == {"outbox", "cards"}

MCInit ==
    /\ part \in Parts
    /\ Init /\ Cards!Init

CardsVars == <<mem, table, adding, cards_queue, lagged, pending, replay_due, hand, ledger,
      counted, card, revision, reading, times, failures, restarts, reads>>

MCvars == <<part, vars, CardsVars>>

MCNext ==
    \/ part = "outbox" /\ Next /\ UNCHANGED <<part, CardsVars>>
    \/ part = "cards" /\ Cards!Next /\ UNCHANGED <<part, vars>>

(* The outbox's flushes, and the tasks of the card stream: at rest neither  *)
(* has anything to do, so the fairness of one asks nothing of the other.    *)
MCFairness ==
    /\ Fairness
    /\ WF_CardsVars(part = "cards" /\ Cards!next_pending)
    /\ WF_CardsVars(part = "cards" /\ Cards!replay)
    /\ WF_CardsVars(part = "cards" /\ Cards!receive_lagged)
    /\ WF_CardsVars(part = "cards" /\ Cards!receive)
    /\ WF_CardsVars(part = "cards" /\ Cards!minute_passes)
    /\ WF_CardsVars(part = "cards" /\ Cards!Fold)

MCSpec == MCInit /\ [][MCNext]_MCvars /\ MCFairness

------------------------------------------------------------------------------
(* The outbox has its types; a queued message is sent by one flush at a     *)
(* time, at most MAX_ATTEMPTS times, and leaves the queue only when sent or *)
(* given up (queue/outbox.rs).                                              *)
OutboxSound == part = "outbox" =>
    /\ TypeOK
    /\ InFlightOwnedOnce
    /\ AttemptsBounded
    /\ NoneLost

(* The card stream has its types, and no message raises its card's count   *)
(* twice, whatever the stream repeats (notification cards of api/messages). *)
CardsSound == part = "cards" =>
    /\ Cards!TypeOK
    /\ Cards!CountedOnce

(* A message read meanwhile is not announced by a late delivery, no message    *)
(* stays in flight for ever, and an unread saved one gets its card across lag, *)
(* failed saves and restarts.                                                  *)
MessagesHandled ==
    /\ Cards!ReadNotDelivered
    /\ InFlightEnds
    /\ Cards!EventuallyCarded
==============================================================================
