------------------------------- MODULE Outbox -------------------------------
(***************************************************************************)
(* The in-memory message outbox (rust/src/queue/outbox.rs).                *)
(*                                                                         *)
(* Events are queued while offline and published by flush().  Several      *)
(* flush() calls may overlap: the queue's mutex is held for the snapshot,  *)
(* for each write-back and for the final prune, never across a publish.    *)
(* A flush works on clones of the entries it marked InFlight, samples the  *)
(* clock once, and overwrites each entry with its clone, found by id.      *)
(***************************************************************************)
EXTENDS Integers, FiniteSets, Functions

CONSTANTS Msgs,          \* the events an application run may queue
          Flushers,      \* overlapping flush() calls
          MAX_RETRIES,   \* attempts before a message is Failed
          BaseDelay,     \* first back-off step (30 s)
          MaxDelay,      \* back-off cap (3600 s)
          FailedTtl,     \* how long a Failed message is kept (24 h)
          MaxTime        \* bound on the clock

ASSUME OutboxAssumption ==
    /\ MAX_RETRIES \in Nat \ {0}
    /\ BaseDelay \in Nat \ {0} /\ MaxDelay \in Nat /\ FailedTtl \in Nat
    /\ MaxTime \in Nat

VARIABLES queue,      \* the queued messages, by id
          flusher,    \* one record per flush() call
          clock,      \* unix_now()
          enqueued,   \* messages ever queued
          attempts,   \* how often each message was handed to the relays
          accepted    \* how often they acknowledged it

vars == <<queue, flusher, clock, enqueued, attempts, accepted>>

Status == {"Pending", "InFlight", "Sent", "Failed"}
NoRetryAt == -1

QueuedMessage == [status : Status, created_at : Nat, retry_count : Nat,
                  next_retry_at : Nat \cup {NoRetryAt}]

(* todo: the clones still to publish; done: the one to write back. *)
Idle == [pc |-> "idle", now |-> 0, todo |-> << >>, done |-> << >>]

TypeOK ==
    /\ DOMAIN queue \subseteq Msgs
    /\ \A m \in DOMAIN queue : queue[m] \in QueuedMessage
    /\ \A f \in Flushers :
         /\ flusher[f].pc \in {"idle", "flushing"} /\ flusher[f].now \in Nat
         /\ DOMAIN flusher[f].todo \cup DOMAIN flusher[f].done \subseteq Msgs
         /\ \A m \in DOMAIN flusher[f].todo : flusher[f].todo[m] \in QueuedMessage
         /\ \A m \in DOMAIN flusher[f].done : flusher[f].done[m] \in QueuedMessage
    /\ clock \in Nat /\ enqueued \subseteq Msgs
    /\ attempts \in [Msgs -> Nat] /\ accepted \in [Msgs -> Nat]

(* 30 s x 2^retry_count, capped. *)
next_retry_delay_secs(n) ==
    LET d == BaseDelay * 2 ^ (IF n < 7 THEN n ELSE 7)
    IN  IF d < MaxDelay THEN d ELSE MaxDelay

Single(m, v) == [x \in {m} |-> v]
Without(f, S) == Restrict(f, DOMAIN f \ S)

Init ==
    /\ queue = << >>
    /\ flusher = [f \in Flushers |-> Idle]
    /\ clock = 0 /\ enqueued = {}
    /\ attempts = [m \in Msgs |-> 0] /\ accepted = [m \in Msgs |-> 0]

(* Ids are fresh UUIDs: a message is queued once. *)
enqueue(m) ==
    /\ m \notin enqueued
    /\ enqueued' = enqueued \cup {m}
    /\ queue' = [x \in DOMAIN queue \cup {m} |->
                   IF x = m THEN [status |-> "Pending", created_at |-> clock,
                                  retry_count |-> 0, next_retry_at |-> NoRetryAt]
                   ELSE queue[x]]
    /\ UNCHANGED <<flusher, clock, attempts, accepted>>

(* Mutant: a flush also picks up what another one has in flight. *)
due_in_flight(m) == queue[m].status \in {"Pending", "InFlight"} /\ clock >= queue[m].next_retry_at

due(m) == queue[m].status = "Pending" /\ clock >= queue[m].next_retry_at

(* flush, up to the first publish: sample now, mark what is due InFlight. *)
snapshot(f) ==
    /\ flusher[f].pc = "idle"
    /\ LET S == {m \in DOMAIN queue : due(m)}
           marked == [m \in S |-> [queue[m] EXCEPT !.status = "InFlight"]] IN
       /\ queue' = [m \in DOMAIN queue |-> IF m \in S THEN marked[m] ELSE queue[m]]
       /\ flusher' = [flusher EXCEPT ![f] = [pc |-> "flushing", now |-> clock,
                                             todo |-> marked, done |-> << >>]]
    /\ UNCHANGED <<clock, enqueued, attempts, accepted>>

(* Mutant: the next retry is scheduled in the past. *)
retry_in_the_past(msg, now) ==
    [msg EXCEPT !.retry_count = @ + 1, !.status = "Pending",
                !.next_retry_at = now - next_retry_delay_secs(msg.retry_count + 1)]

(* Mutant: the attempt is not counted. *)
uncounted_failure(msg, now) ==
    [msg EXCEPT !.status = "Pending", !.next_retry_at = now + next_retry_delay_secs(msg.retry_count)]

after_failure(msg, now) ==
    LET n == msg.retry_count + 1 IN
    IF n >= MAX_RETRIES
    THEN [msg EXCEPT !.retry_count = n, !.status = "Failed"]
    ELSE [msg EXCEPT !.retry_count = n, !.status = "Pending",
                     !.next_retry_at = now + next_retry_delay_secs(n)]

(* One publish: acknowledged or not. *)
publish(f) ==
    /\ DOMAIN flusher[f].done = {}
    /\ \E m \in DOMAIN flusher[f].todo, ok \in BOOLEAN :
         LET msg == flusher[f].todo[m] IN
         /\ attempts' = [attempts EXCEPT ![m] = @ + 1]
         /\ accepted' = [accepted EXCEPT ![m] = IF ok THEN @ + 1 ELSE @]
         /\ flusher' = [flusher EXCEPT
              ![f].todo = Without(@, {m}),
              ![f].done = Single(m, IF ok THEN [msg EXCEPT !.status = "Sent"]
                                    ELSE after_failure(msg, flusher[f].now))]
    /\ UNCHANGED <<queue, clock, enqueued>>

(* Mutant: only a success is written back. *)
write_back_success(f) ==
    /\ \E m \in DOMAIN flusher[f].done :
         queue' = IF m \in DOMAIN queue /\ flusher[f].done[m].status = "Sent"
                  THEN [queue EXCEPT ![m] = flusher[f].done[m]] ELSE queue
    /\ flusher' = [flusher EXCEPT ![f].done = << >>]
    /\ UNCHANGED <<clock, enqueued, attempts, accepted>>

write_back(f) ==
    /\ \E m \in DOMAIN flusher[f].done :
         queue' = IF m \in DOMAIN queue THEN [queue EXCEPT ![m] = flusher[f].done[m]] ELSE queue
    /\ flusher' = [flusher EXCEPT ![f].done = << >>]
    /\ UNCHANGED <<clock, enqueued, attempts, accepted>>

(* Mutant: what another flush has in flight is pruned too. *)
kept_unless_in_flight(m, now) ==
    \/ queue[m].status = "Pending"
    \/ queue[m].status = "Failed" /\ queue[m].created_at > now - FailedTtl

kept(m, now) == \/ queue[m].status \in {"Pending", "InFlight"}
                \/ queue[m].status = "Failed" /\ queue[m].created_at > now - FailedTtl

(* The final prune; the call returns. *)
prune(f) ==
    /\ flusher[f].pc = "flushing"
    /\ DOMAIN flusher[f].todo = {} /\ DOMAIN flusher[f].done = {}
    /\ queue' = Without(queue, {m \in DOMAIN queue : ~kept(m, flusher[f].now)})
    /\ flusher' = [flusher EXCEPT ![f] = Idle]
    /\ UNCHANGED <<clock, enqueued, attempts, accepted>>

tick == /\ clock < MaxTime /\ clock' = clock + 1
        /\ UNCHANGED <<queue, flusher, enqueued, attempts, accepted>>

Next == \/ \E m \in Msgs : enqueue(m)
        \/ \E f \in Flushers : snapshot(f) \/ publish(f) \/ write_back(f) \/ prune(f)
        \/ tick

(* A flush that started is polled until it returns. *)
Fairness == \A f \in Flushers : WF_vars(publish(f) \/ write_back(f) \/ prune(f))

Spec == Init /\ [][Next]_vars
FairSpec == Spec /\ Fairness

-----------------------------------------------------------------------------
Holds(f, m) == m \in DOMAIN flusher[f].todo \cup DOMAIN flusher[f].done

(* Overlapping flushes share nothing: a message a flush works on is still  *)
(* queued and InFlight, and no other flush works on it, so no write-back   *)
(* overwrites another's result.                                            *)
InFlightOwnedOnce ==
    /\ \A f \in Flushers, m \in Msgs : Holds(f, m) =>
         m \in DOMAIN queue /\ queue[m].status = "InFlight"
    /\ \A f, g \in Flushers, m \in Msgs : Holds(f, m) /\ Holds(g, m) => f = g

(* However flushes overlap, a message is handed to the relays at most      *)
(* MAX_RETRIES times and never again once they acknowledged it.            *)
AttemptsBounded ==
    \A m \in Msgs : attempts[m] <= MAX_RETRIES /\ accepted[m] <= 1

(* A message leaves the queue only once the relays acknowledged it or      *)
(* every attempt failed.                                                   *)
NoneLost == \A m \in enqueued \ DOMAIN queue : accepted[m] = 1 \/ attempts[m] = MAX_RETRIES

(* InFlight is a passing state: a flush always hands the message back. *)
InFlightEnds == \A m \in Msgs :
    (m \in DOMAIN queue /\ queue[m].status = "InFlight")
        ~> (m \in DOMAIN queue => queue[m].status # "InFlight")
=============================================================================
