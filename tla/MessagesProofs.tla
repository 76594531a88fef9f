--------------------------- MODULE MessagesProofs ---------------------------
(***************************************************************************)
(* Proofs about the messages going out: the outbox, for any number of      *)
(* messages, of overlapping flushes and of attempts, any back-off and any  *)
(* clock.                                                                  *)
(***************************************************************************)
EXTENDS MCMessages, SequenceTheorems, TLAPS

(* A set of messages with what is kept of each. *)
Clones == UNION {[S -> QueuedMessage] : S \in SUBSET Msgs}

Shapes ==
    /\ queue \in Clones
    /\ flusher \in [Flushers -> [pc : {"idle", "flushing"}, now : Nat, todo : Clones, done : Clones]]

(* Of a message attempted a times and acknowledged c times: every attempt  *)
(* is counted, and one more may be made.                                   *)
Retryable(r, a, c) == r.retry_count = a /\ a < MAX_RETRIES /\ c = 0

(* What a write-back or a queued entry says of its message is so. *)
Truthful(r, a, c) ==
    /\ r.status = "Pending" => Retryable(r, a, c)
    /\ r.status = "Sent" => c = 1 /\ a <= MAX_RETRIES
    /\ r.status = "Failed" => a = MAX_RETRIES /\ c = 0

(* A flush has one message to write back, and none it still has to send. *)
OneInHand ==
    \A f \in Flushers :
        /\ flusher[f].pc = "idle" => DOMAIN flusher[f].todo = {} /\ DOMAIN flusher[f].done = {}
        /\ DOMAIN flusher[f].todo \cap DOMAIN flusher[f].done = {}
        /\ \A m, n \in DOMAIN flusher[f].done : m = n

ClonesTrue ==
    \A f \in Flushers :
        /\ \A m \in DOMAIN flusher[f].todo :
             Retryable(flusher[f].todo[m], attempts[m], accepted[m])
        /\ \A m \in DOMAIN flusher[f].done :

             /\ flusher[f].done[m].status # "InFlight"
             /\ Truthful(flusher[f].done[m], attempts[m], accepted[m])

QueueTrue == /\ \A m \in DOMAIN queue : Truthful(queue[m], attempts[m], accepted[m])
             /\ DOMAIN queue \subseteq enqueued
             /\ \A m \in Msgs \ enqueued : attempts[m] = 0 /\ accepted[m] = 0

OutboxInv == /\ TypeOK /\ InFlightOwnedOnce /\ AttemptsBounded /\ NoneLost
             /\ Shapes /\ OneInHand /\ ClonesTrue /\ QueueTrue

-----------------------------------------------------------------------------
LEMMA ClonesAre == \A q : q \in Clones <=> DOMAIN q \subseteq Msgs /\ q \in [DOMAIN q -> QueuedMessage]
BY DEF Clones

(* The empty function, the one with one entry, and a function restricted. *)
LEMMA CloneOps ==
    /\ << >> \in Clones /\ DOMAIN << >> = {}
    /\ \A m \in Msgs, v \in QueuedMessage :
         Single(m, v) \in Clones /\ DOMAIN Single(m, v) = {m} /\ Single(m, v)[m] = v
    /\ \A q \in Clones : \A S : /\ Without(q, S) \in Clones
                                /\ DOMAIN Without(q, S) = DOMAIN q \ S
                                /\ \A m \in DOMAIN q \ S : Without(q, S)[m] = q[m]
<1>1. << >> \in [{} -> QueuedMessage]
  <2>1. << >> \in Seq(QueuedMessage) /\ Len(<< >>) = 0
    BY EmptySeq
  <2>2. << >> \in [1 .. 0 -> QueuedMessage] /\ 1 .. 0 = {}
    BY <2>1, LenProperties
  <2> QED
    BY <2>2
<1> QED
  BY <1>1, ClonesAre DEF Single, Without, Restrict

(* The back-off is a time. *)
LEMMA BackOffType == \A n \in Nat : next_retry_delay_secs(n) \in Nat
<1> SUFFICES ASSUME NEW n \in Nat PROVE next_retry_delay_secs(n) \in Nat
  OBVIOUS
<1> DEFINE e == IF n < 7 THEN n ELSE 7
<1>1. e = 0 \/ e = 1 \/ e = 2 \/ e = 3 \/ e = 4 \/ e = 5 \/ e = 6 \/ e = 7
  OBVIOUS
<1>2. 2 ^ e \in Nat
  <2>1. /\ 2 ^ 0 \in Nat /\ 2 ^ 1 \in Nat /\ 2 ^ 2 \in Nat /\ 2 ^ 3 \in Nat
        /\ 2 ^ 4 \in Nat /\ 2 ^ 5 \in Nat /\ 2 ^ 6 \in Nat /\ 2 ^ 7 \in Nat
    OBVIOUS
  <2> HIDE DEF e
  <2> QED
    BY <1>1, <2>1
<1> HIDE DEF e
<1>3. BaseDelay * 2 ^ e \in Nat
  BY <1>2, OutboxAssumption
<1> QED
  BY <1>3, OutboxAssumption DEF next_retry_delay_secs, e

(* A failed attempt leaves the message to be retried, or given up. *)
LEMMA FailureType ==
    ASSUME NEW msg \in QueuedMessage, NEW t \in Nat, msg.retry_count < MAX_RETRIES
    PROVE  LET r == after_failure(msg, t) IN
           /\ r \in QueuedMessage /\ r.retry_count = msg.retry_count + 1
           /\ r.status \in {"Pending", "Failed"}
           /\ r.status = "Failed" <=> msg.retry_count + 1 = MAX_RETRIES
<1> DEFINE n == msg.retry_count + 1
           d == next_retry_delay_secs(n)
<1>1. n \in Nat /\ d \in Nat /\ MAX_RETRIES \in Nat
  BY BackOffType, OutboxAssumption DEF QueuedMessage
<1> HIDE DEF d
<1>2. t + d \in Nat
  BY <1>1
<1>3. after_failure(msg, t) = IF n >= MAX_RETRIES
                              THEN [msg EXCEPT !.retry_count = n, !.status = "Failed"]
                              ELSE [msg EXCEPT !.retry_count = n, !.status = "Pending",
                                               !.next_retry_at = t + d]
  BY DEF after_failure, d
<1>4. CASE n >= MAX_RETRIES
  <2> DEFINE r == [msg EXCEPT !.retry_count = n, !.status = "Failed"]
  <2>1. r \in QueuedMessage /\ r.retry_count = n /\ r.status = "Failed"
    BY <1>1 DEF QueuedMessage, Status
  <2> QED
    BY <1>1, <1>3, <1>4, <2>1 DEF QueuedMessage
<1>5. CASE ~(n >= MAX_RETRIES)
  <2> DEFINE r == [msg EXCEPT !.retry_count = n, !.status = "Pending", !.next_retry_at = t + d]
  <2>1. r \in QueuedMessage /\ r.retry_count = n /\ r.status = "Pending"
    BY <1>1, <1>2 DEF QueuedMessage, Status
  <2> QED
    BY <1>1, <1>3, <1>5, <2>1 DEF QueuedMessage
<1> QED
  BY <1>4, <1>5

-----------------------------------------------------------------------------
(* What TypeOK says follows from the shapes. *)
LEMMA ShapesTyped ==
    Shapes /\ clock \in Nat /\ enqueued \subseteq Msgs
      /\ attempts \in [Msgs -> Nat] /\ accepted \in [Msgs -> Nat] => TypeOK
BY ClonesAre DEF Shapes, TypeOK

(* A newly queued message is held by no flush. *)
LEMMA EnqueueKeeps ==
    ASSUME OutboxInv, NEW m \in Msgs, enqueue(m)
    PROVE  OutboxInv'
<1> USE DEF OutboxInv
<1> DEFINE r == [status |-> "Pending", created_at |-> clock, retry_count |-> 0,
                 next_retry_at |-> NoRetryAt]
<1>1. /\ m \notin enqueued /\ m \notin DOMAIN queue /\ enqueued' = enqueued \cup {m}
      /\ UNCHANGED <<flusher, clock, attempts, accepted>>
      /\ DOMAIN queue' = DOMAIN queue \cup {m} /\ queue'[m] = r
      /\ \A x \in DOMAIN queue : queue'[x] = queue[x]
  BY DEF enqueue, QueueTrue
<1>2. r \in QueuedMessage /\ attempts[m] = 0 /\ accepted[m] = 0
  BY <1>1 DEF QueuedMessage, Status, NoRetryAt, TypeOK, QueueTrue
<1>3. queue' \in Clones
  <2>1. queue' = [x \in DOMAIN queue \cup {m} |-> IF x = m THEN r ELSE queue[x]]
    BY DEF enqueue
  <2>2. \A x \in DOMAIN queue : queue[x] \in QueuedMessage
    BY DEF TypeOK
  <2>3. DOMAIN queue \subseteq Msgs
    BY DEF TypeOK
  <2> HIDE DEF r
  <2>4. queue' \in [DOMAIN queue \cup {m} -> QueuedMessage]
    BY <1>2, <2>1, <2>2
  <2> QED
    BY <2>3, <2>4 DEF Clones
<1>4. Shapes' /\ TypeOK'
  <2>1. Shapes'
    BY <1>1, <1>3 DEF Shapes, Clones, QueuedMessage
  <2>2. (clock \in Nat /\ enqueued \subseteq Msgs)' /\ (attempts \in [Msgs -> Nat])'
        /\ (accepted \in [Msgs -> Nat])'
    BY <1>1 DEF TypeOK
  <2> QED
    BY <1>1, <2>1, <2>2, ClonesAre DEF Shapes, TypeOK
<1>5. InFlightOwnedOnce'
  BY <1>1 DEF InFlightOwnedOnce, Holds
<1>6. AttemptsBounded' /\ NoneLost' /\ OneInHand' /\ ClonesTrue'
  BY <1>1 DEF AttemptsBounded, NoneLost, OneInHand, ClonesTrue, Retryable, Truthful
<1>7. QueueTrue'
  BY <1>1, <1>2, OutboxAssumption DEF QueueTrue, Truthful, Retryable
<1> QED
  BY <1>4, <1>5, <1>6, <1>7

(* A flush marks what is due, which no other flush works on. *)
LEMMA SnapshotKeeps ==
    ASSUME OutboxInv, NEW f \in Flushers, snapshot(f)
    PROVE  OutboxInv'
<1> USE DEF OutboxInv
<1> DEFINE S == {m \in DOMAIN queue : due(m)}
           marked == [m \in S |-> [queue[m] EXCEPT !.status = "InFlight"]]
           r == [pc |-> "flushing", now |-> clock, todo |-> marked, done |-> << >>]
<1>1. /\ flusher[f].pc = "idle"
      /\ queue' = [m \in DOMAIN queue |-> IF m \in S THEN marked[m] ELSE queue[m]]
      /\ flusher' = [flusher EXCEPT ![f] = r]
      /\ UNCHANGED <<clock, enqueued, attempts, accepted>>
  BY DEF snapshot
<1>2. \A m \in S : /\ m \in Msgs /\ queue[m].status = "Pending" /\ marked[m] \in QueuedMessage
                   /\ marked[m].status = "InFlight"
                   /\ marked[m].retry_count = queue[m].retry_count
  <2> TAKE m \in S
  <2>1. m \in Msgs /\ queue[m] \in QueuedMessage /\ queue[m].status = "Pending"
    BY DEF TypeOK, due
  <2>2. marked[m] = [queue[m] EXCEPT !.status = "InFlight"]
    OBVIOUS
  <2> HIDE DEF marked, S
  <2> QED
    BY <2>1, <2>2 DEF QueuedMessage, Status
<1>3. DOMAIN marked = S /\ S \subseteq DOMAIN queue
  OBVIOUS
<1> HIDE DEF marked, S
<1>4. /\ r.pc = "flushing" /\ r.now = clock /\ r.todo = marked /\ r.done = << >>
      /\ flusher'[f] = r /\ \A g \in Flushers \ {f} : flusher'[g] = flusher[g]
  BY <1>1 DEF Shapes
<1> HIDE DEF r
<1>5. /\ DOMAIN queue' = DOMAIN queue
      /\ \A m \in S : queue'[m] = marked[m]
      /\ \A m \in DOMAIN queue \ S : queue'[m] = queue[m]
  BY <1>1, <1>3
<1>6. marked \in Clones
  <2>1. marked \in [S -> QueuedMessage]
    <3>1. marked = [x \in S |-> marked[x]]
      BY DEF marked
    <3> QED
      BY <1>2, <3>1
  <2>2. S \subseteq Msgs
    BY <1>2
  <2> QED
    BY <2>1, <2>2 DEF Clones
<1>7. Shapes'
  <2>1. queue' \in Clones
    <3>1. queue' \in [DOMAIN queue -> QueuedMessage]
      BY <1>1, <1>2, <1>3 DEF TypeOK
    <3> QED
      BY <3>1 DEF Clones, TypeOK
  <2>2. r \in [pc : {"idle", "flushing"}, now : Nat, todo : Clones, done : Clones]
    BY <1>6, CloneOps DEF r, TypeOK
  <2> QED
    BY <1>1, <2>1, <2>2 DEF Shapes
<1>8. TypeOK'
  <2>1. (clock \in Nat /\ enqueued \subseteq Msgs)' /\ (attempts \in [Msgs -> Nat])'
        /\ (accepted \in [Msgs -> Nat])'
    BY <1>1 DEF TypeOK
  <2> QED
    BY <1>7, <2>1, ClonesAre DEF Shapes, TypeOK
<1>9. \A g \in Flushers, m \in Msgs :
        Holds(g, m)' <=> IF g = f THEN m \in S ELSE Holds(g, m)
  BY <1>3, <1>4, CloneOps DEF Holds
<1>10. \A g \in Flushers, m \in S : ~Holds(g, m)
  BY <1>2 DEF InFlightOwnedOnce
<1>11. \A m \in Msgs : ~Holds(f, m)
  BY <1>1 DEF OneInHand, Holds
<1>12. InFlightOwnedOnce'
  BY <1>2, <1>3, <1>5, <1>9, <1>10, <1>11 DEF InFlightOwnedOnce
<1>13. AttemptsBounded' /\ NoneLost'
  BY <1>1, <1>5 DEF AttemptsBounded, NoneLost
<1>14. OneInHand'
  BY <1>4, CloneOps DEF OneInHand
<1>15. ClonesTrue'
  BY <1>1, <1>2, <1>3, <1>4, CloneOps DEF ClonesTrue, QueueTrue, Truthful, Retryable
<1>16. QueueTrue'
  BY <1>1, <1>2, <1>3, <1>5 DEF QueueTrue, Truthful, Retryable
<1> QED
  BY <1>7, <1>8, <1>12, <1>13, <1>14, <1>15, <1>16

(* One attempt: made by the flush that holds the message, and counted in   *)
(* the clone it will write back.                                           *)
LEMMA PublishKeeps ==
    ASSUME OutboxInv, NEW f \in Flushers, publish(f)
    PROVE  OutboxInv'
<1> USE DEF OutboxInv
<1>1. PICK m \in DOMAIN flusher[f].todo, ok \in BOOLEAN :
        LET msg == flusher[f].todo[m] IN
        /\ attempts' = [attempts EXCEPT ![m] = @ + 1]
        /\ accepted' = [accepted EXCEPT ![m] = IF ok THEN @ + 1 ELSE @]
        /\ flusher' = [flusher EXCEPT
             ![f].todo = Without(@, {m}),
             ![f].done = Single(m, IF ok THEN [msg EXCEPT !.status = "Sent"]
                                   ELSE after_failure(msg, flusher[f].now))]
  BY DEF publish
<1> DEFINE msg == flusher[f].todo[m]
           back == IF ok THEN [msg EXCEPT !.status = "Sent"]
                   ELSE after_failure(msg, flusher[f].now)
<1>2. DOMAIN flusher[f].done = {} /\ UNCHANGED <<queue, clock, enqueued>>
  BY DEF publish
<1>3. /\ m \in Msgs /\ msg \in QueuedMessage /\ flusher[f].now \in Nat
      /\ flusher[f].todo \in Clones /\ Holds(f, m)
  BY DEF Shapes, TypeOK, Holds
<1>4. msg.retry_count = attempts[m] /\ attempts[m] < MAX_RETRIES /\ accepted[m] = 0
  BY DEF ClonesTrue, Retryable
<1>5. /\ attempts[m] \in Nat /\ attempts'[m] = attempts[m] + 1
      /\ accepted'[m] = IF ok THEN 1 ELSE 0
      /\ \A n \in Msgs \ {m} : attempts'[n] = attempts[n] /\ accepted'[n] = accepted[n]
  BY <1>1, <1>3, <1>4 DEF TypeOK
<1>6. /\ back \in QueuedMessage /\ back.status # "InFlight"
      /\ back.status = "Pending" => ~ok /\ back.retry_count = attempts'[m]
                                    /\ attempts'[m] < MAX_RETRIES
      /\ back.status = "Sent" => ok
      /\ back.status = "Failed" => ~ok /\ attempts'[m] = MAX_RETRIES
  <2>1. CASE ok
    <3>1. back = [msg EXCEPT !.status = "Sent"]
      BY <2>1
    <3> HIDE DEF back, msg
    <3> QED
      BY <1>3, <2>1, <3>1 DEF QueuedMessage, Status
  <2>2. CASE ~ok
    <3>1. back = after_failure(msg, flusher[f].now)
      BY <2>2
    <3>2. attempts[m] + 1 # MAX_RETRIES => attempts[m] + 1 < MAX_RETRIES
      BY <1>4, <1>5, OutboxAssumption
    <3> HIDE DEF back, msg
    <3> QED
      BY <1>3, <1>4, <1>5, <2>2, <3>1, <3>2, FailureType
  <2> QED
    BY <2>1, <2>2
<1> HIDE DEF back
<1>7. Truthful(back, attempts'[m], accepted'[m])
  <2>1. attempts'[m] <= MAX_RETRIES
    BY <1>4, <1>5, OutboxAssumption
  <2> QED
    BY <1>5, <1>6, <2>1 DEF Truthful, Retryable
<1>8. /\ flusher'[f].todo = Without(flusher[f].todo, {m}) /\ flusher'[f].done = Single(m, back)
      /\ flusher'[f].pc = flusher[f].pc
      /\ \A g \in Flushers \ {f} : flusher'[g] = flusher[g]
      /\ flusher' \in [Flushers -> [pc : {"idle", "flushing"}, now : Nat, todo : Clones, done : Clones]]
  <2>1. Without(flusher[f].todo, {m}) \in Clones /\ Single(m, back) \in Clones
    BY <1>3, <1>6, CloneOps
  <2>2. flusher' = [flusher EXCEPT ![f].todo = Without(@, {m}), ![f].done = Single(m, back)]
    BY <1>1 DEF back
  <2> QED
    BY <2>1, <2>2 DEF Shapes
<1>9. /\ DOMAIN flusher'[f].todo = DOMAIN flusher[f].todo \ {m}
      /\ \A n \in DOMAIN flusher'[f].todo : flusher'[f].todo[n] = flusher[f].todo[n]
      /\ DOMAIN flusher'[f].done = {m} /\ flusher'[f].done[m] = back
  <2> HIDE DEF msg
  <2>1. Without(flusher[f].todo, {m}) \in Clones
        /\ DOMAIN Without(flusher[f].todo, {m}) = DOMAIN flusher[f].todo \ {m}
        /\ \A n \in DOMAIN flusher[f].todo \ {m} :
             Without(flusher[f].todo, {m})[n] = flusher[f].todo[n]
    BY <1>3, CloneOps
  <2>2. DOMAIN Single(m, back) = {m} /\ Single(m, back)[m] = back
    BY <1>3, <1>6, CloneOps
  <2> QED
    BY <1>8, <2>1, <2>2
<1>10. Shapes'
  BY <1>2, <1>8 DEF Shapes
<1>11. TypeOK'
  <2>1. (clock \in Nat /\ enqueued \subseteq Msgs)'
    BY <1>2 DEF TypeOK
  <2>2. (attempts \in [Msgs -> Nat])' /\ (accepted \in [Msgs -> Nat])'
    BY <1>1, <1>3 DEF TypeOK
  <2> QED
    BY <1>10, <2>1, <2>2, ShapesTyped, ClonesAre DEF Shapes, TypeOK
<1>12. \A g \in Flushers, n \in Msgs : Holds(g, n)' <=> Holds(g, n)
  BY <1>2, <1>8, <1>9 DEF Holds
<1>13. InFlightOwnedOnce'
  BY <1>2, <1>12 DEF InFlightOwnedOnce
<1>14. AttemptsBounded'
  BY <1>4, <1>5, OutboxAssumption DEF AttemptsBounded
<1>15. NoneLost'
  <2>1. m \in DOMAIN queue
    BY <1>3 DEF InFlightOwnedOnce
  <2> QED
    BY <1>2, <1>5, <2>1 DEF NoneLost, TypeOK
<1>16. OneInHand'
  <2> HIDE DEF msg
  <2>1. flusher[f].pc # "idle"
    BY <1>1 DEF OneInHand
  <2>2. \A a, b \in DOMAIN flusher'[f].done : a = b
    BY <1>9
  <2>3. DOMAIN flusher'[f].todo \cap DOMAIN flusher'[f].done = {}
    BY <1>9
  <2>4. \A g \in Flushers :
          /\ flusher'[g].pc = "idle" => DOMAIN flusher'[g].todo = {} /\ DOMAIN flusher'[g].done = {}
          /\ DOMAIN flusher'[g].todo \cap DOMAIN flusher'[g].done = {}
          /\ \A a, b \in DOMAIN flusher'[g].done : a = b
    <3> TAKE g \in Flushers
    <3>1. CASE g = f
      BY <1>8, <2>1, <2>2, <2>3, <3>1
    <3>2. CASE g # f
      BY <1>8, <3>2 DEF OneInHand
    <3> QED
      BY <3>1, <3>2
  <2> QED
    BY <2>4 DEF OneInHand
<1>17. ClonesTrue'
  <2> SUFFICES ASSUME NEW g \in Flushers
               PROVE  /\ \A n \in DOMAIN flusher'[g].todo :
                           Retryable(flusher'[g].todo[n], attempts'[n], accepted'[n])
                      /\ \A n \in DOMAIN flusher'[g].done :
                           /\ flusher'[g].done[n].status # "InFlight"
                           /\ Truthful(flusher'[g].done[n], attempts'[n], accepted'[n])
    BY DEF ClonesTrue, Truthful, Retryable
  <2>1. CASE g = f
    <3>1. \A n \in DOMAIN flusher'[f].todo : n \in Msgs \ {m} /\ n \in DOMAIN flusher[f].todo
      BY <1>9 DEF TypeOK
    <3> HIDE DEF msg
    <3> QED
      BY <1>5, <1>6, <1>7, <1>9, <2>1, <3>1 DEF ClonesTrue, Retryable
  <2>2. CASE g # f
    <3>1. ~Holds(g, m)
      BY <1>3, <2>2 DEF InFlightOwnedOnce
    <3>2. flusher'[g] = flusher[g]
      BY <1>8, <2>2
    <3>3. \A n \in DOMAIN flusher[g].todo \cup DOMAIN flusher[g].done : n \in Msgs \ {m}
      BY <1>3, <3>1 DEF Holds, TypeOK
    <3>4. \A n \in DOMAIN flusher[g].todo \cup DOMAIN flusher[g].done :
            attempts'[n] = attempts[n] /\ accepted'[n] = accepted[n]
      BY <1>5, <3>3
    <3> HIDE DEF msg
    <3> QED
      BY <3>2, <3>4 DEF ClonesTrue
  <2> QED
    BY <2>1, <2>2
<1>18. QueueTrue'
  <2>1. m \in DOMAIN queue /\ queue[m].status = "InFlight" /\ m \in enqueued
    BY <1>3 DEF InFlightOwnedOnce, QueueTrue
  <2> QED
    BY <1>2, <1>5, <2>1 DEF QueueTrue, Truthful, Retryable, TypeOK
<1> QED
  BY <1>10, <1>11, <1>13, <1>14, <1>15, <1>16, <1>17, <1>18

(* A write-back overwrites the entry it was cloned from, and no other. *)
LEMMA WriteBackKeeps ==
    ASSUME OutboxInv, NEW f \in Flushers, write_back(f)
    PROVE  OutboxInv'
<1> USE DEF OutboxInv
<1>1. PICK m \in DOMAIN flusher[f].done :
        queue' = IF m \in DOMAIN queue THEN [queue EXCEPT ![m] = flusher[f].done[m]] ELSE queue
  BY DEF write_back
<1> DEFINE back == flusher[f].done[m]
<1>2. /\ flusher' = [flusher EXCEPT ![f].done = << >>]
      /\ UNCHANGED <<clock, enqueued, attempts, accepted>>
  BY DEF write_back
<1>3. /\ m \in Msgs /\ back \in QueuedMessage /\ Holds(f, m) /\ m \in DOMAIN queue
      /\ back.status # "InFlight" /\ Truthful(back, attempts[m], accepted[m])
  <2>1. m \in Msgs /\ back \in QueuedMessage /\ Holds(f, m)
    BY DEF TypeOK, Holds
  <2> QED
    BY <2>1 DEF InFlightOwnedOnce, ClonesTrue
<1> HIDE DEF back
<1>4. /\ DOMAIN queue' = DOMAIN queue /\ queue'[m] = back
      /\ \A n \in DOMAIN queue \ {m} : queue'[n] = queue[n]
  BY <1>1, <1>3 DEF back
<1>5. /\ flusher'[f].todo = flusher[f].todo /\ flusher'[f].done = << >>
      /\ flusher'[f].pc = flusher[f].pc
      /\ \A g \in Flushers \ {f} : flusher'[g] = flusher[g]
      /\ flusher' \in [Flushers -> [pc : {"idle", "flushing"}, now : Nat, todo : Clones, done : Clones]]
  <2>1. << >> \in Clones
    BY CloneOps
  <2> DEFINE none == << >>
  <2>2. flusher' = [flusher EXCEPT ![f].done = none] /\ none \in Clones
    BY <1>2, <2>1
  <2> HIDE DEF none
  <2>3. /\ flusher'[f].todo = flusher[f].todo /\ flusher'[f].done = none
        /\ flusher'[f].pc = flusher[f].pc
        /\ \A g \in Flushers \ {f} : flusher'[g] = flusher[g]
        /\ flusher' \in [Flushers -> [pc : {"idle", "flushing"}, now : Nat, todo : Clones, done : Clones]]
    BY <2>2 DEF Shapes
  <2> QED
    BY <2>3 DEF none
<1>6. Shapes'
  <2>1. queue' \in Clones
    <3>1. queue' = [n \in DOMAIN queue |-> IF n = m THEN back ELSE queue[n]]
      BY <1>1, <1>3 DEF back
    <3>2. queue' \in [DOMAIN queue -> QueuedMessage]
      BY <1>3, <3>1 DEF TypeOK
    <3> QED
      BY <3>2 DEF Clones, TypeOK
  <2> QED
    BY <1>5, <2>1 DEF Shapes
<1>7. TypeOK'
  <2>1. (clock \in Nat /\ enqueued \subseteq Msgs)' /\ (attempts \in [Msgs -> Nat])'
        /\ (accepted \in [Msgs -> Nat])'
    BY <1>2 DEF TypeOK
  <2> QED
    BY <1>6, <2>1, ClonesAre DEF Shapes, TypeOK
<1>8. DOMAIN flusher[f].done = {m} /\ m \notin DOMAIN flusher[f].todo
  BY <1>1 DEF OneInHand
<1>9. DOMAIN flusher'[f].done = {}
  BY <1>5, CloneOps
<1>10. \A g \in Flushers, n \in Msgs : Holds(g, n)' <=> Holds(g, n) /\ n # m
  <2> TAKE g \in Flushers, n \in Msgs
  <2>1. CASE g = f
    BY <1>5, <1>8, <1>9, <2>1 DEF Holds
  <2>2. CASE g # f
    <3>1. ~Holds(g, m)
      BY <1>3, <2>2 DEF InFlightOwnedOnce
    <3> QED
      BY <1>5, <2>2, <3>1 DEF Holds
  <2> QED
    BY <2>1, <2>2
<1>11. InFlightOwnedOnce'
  BY <1>4, <1>10 DEF InFlightOwnedOnce
<1>12. AttemptsBounded' /\ NoneLost'
  BY <1>2, <1>4 DEF AttemptsBounded, NoneLost
<1>13. OneInHand'
  <2>1. \A g \in Flushers :
          /\ flusher'[g].pc = "idle" => DOMAIN flusher'[g].todo = {} /\ DOMAIN flusher'[g].done = {}
          /\ DOMAIN flusher'[g].todo \cap DOMAIN flusher'[g].done = {}
          /\ \A a, b \in DOMAIN flusher'[g].done : a = b
    <3> TAKE g \in Flushers
    <3>1. CASE g = f
      BY <1>5, <1>9, <3>1 DEF OneInHand
    <3>2. CASE g # f
      BY <1>5, <3>2 DEF OneInHand
    <3> QED
      BY <3>1, <3>2
  <2> QED
    BY <2>1 DEF OneInHand
<1>14. ClonesTrue'
  <2>1. \A g \in Flushers :
          /\ \A n \in DOMAIN flusher'[g].todo :
               Retryable(flusher'[g].todo[n], attempts[n], accepted[n])
          /\ \A n \in DOMAIN flusher'[g].done :
               /\ flusher'[g].done[n].status # "InFlight"
               /\ Truthful(flusher'[g].done[n], attempts[n], accepted[n])
    <3> TAKE g \in Flushers
    <3>1. CASE g = f
      BY <1>5, <1>9, <3>1 DEF ClonesTrue
    <3>2. CASE g # f
      BY <1>5, <3>2 DEF ClonesTrue
    <3> QED
      BY <3>1, <3>2
  <2> QED
    BY <1>2, <2>1 DEF ClonesTrue
<1>15. QueueTrue'
  BY <1>2, <1>3, <1>4 DEF QueueTrue
<1> QED
  BY <1>6, <1>7, <1>11, <1>12, <1>13, <1>14, <1>15

(* The prune drops only what was acknowledged or given up, never what a    *)
(* flush holds.                                                            *)
LEMMA PruneKeeps ==
    ASSUME OutboxInv, NEW f \in Flushers, prune(f)
    PROVE  OutboxInv'
<1> USE DEF OutboxInv
<1> DEFINE D == {m \in DOMAIN queue : ~kept(m, flusher[f].now)}
<1>1. /\ DOMAIN flusher[f].todo = {} /\ DOMAIN flusher[f].done = {}
      /\ queue' = Without(queue, D) /\ flusher' = [flusher EXCEPT ![f] = Idle]
      /\ UNCHANGED <<clock, enqueued, attempts, accepted>>
  BY DEF prune
<1>2. \A m \in D : m \in DOMAIN queue /\ queue[m].status \in {"Sent", "Failed"}
  BY DEF kept, TypeOK, QueuedMessage, Status
<1> HIDE DEF D
<1>3. /\ queue' \in Clones /\ DOMAIN queue' = DOMAIN queue \ D
      /\ \A m \in DOMAIN queue' : queue'[m] = queue[m]
  <2>1. queue \in Clones
    BY DEF Shapes
  <2>2. /\ Without(queue, D) \in Clones /\ DOMAIN Without(queue, D) = DOMAIN queue \ D
        /\ \A m \in DOMAIN queue \ D : Without(queue, D)[m] = queue[m]
    BY <2>1, CloneOps
  <2> QED
    BY <1>1, <2>2
<1>4. Idle.pc = "idle" /\ Idle.now = 0 /\ Idle.todo = << >> /\ Idle.done = << >>
  BY DEF Idle
<1>5. /\ flusher'[f] = Idle /\ \A g \in Flushers \ {f} : flusher'[g] = flusher[g]
      /\ flusher' \in [Flushers -> [pc : {"idle", "flushing"}, now : Nat, todo : Clones, done : Clones]]
  <2>1. Idle \in [pc : {"idle", "flushing"}, now : Nat, todo : Clones, done : Clones]
    BY CloneOps DEF Idle
  <2> HIDE DEF Idle
  <2> QED
    BY <1>1, <2>1 DEF Shapes
<1>6. Shapes'
  BY <1>3, <1>5 DEF Shapes
<1>7. TypeOK'
  <2>1. (clock \in Nat /\ enqueued \subseteq Msgs)' /\ (attempts \in [Msgs -> Nat])'
        /\ (accepted \in [Msgs -> Nat])'
    BY <1>1 DEF TypeOK
  <2> QED
    BY <1>6, <2>1, ClonesAre DEF Shapes, TypeOK
<1>8. DOMAIN flusher'[f].todo = {} /\ DOMAIN flusher'[f].done = {}
  BY <1>4, <1>5, CloneOps
<1>9. \A g \in Flushers, n \in Msgs : Holds(g, n)' <=> Holds(g, n)
  <2> TAKE g \in Flushers, n \in Msgs
  <2>1. CASE g = f
    BY <1>1, <1>8, <2>1 DEF Holds
  <2>2. CASE g # f
    BY <1>5, <2>2 DEF Holds
  <2> QED
    BY <2>1, <2>2
<1>10. InFlightOwnedOnce'
  <2>1. \A g \in Flushers, m \in Msgs : Holds(g, m) => m \in DOMAIN queue'
    BY <1>2, <1>3 DEF InFlightOwnedOnce
  <2> QED
    BY <1>3, <1>9, <2>1 DEF InFlightOwnedOnce
<1>11. AttemptsBounded'
  BY <1>1 DEF AttemptsBounded
<1>12. NoneLost'
  <2>1. \A m \in D : accepted[m] = 1 \/ attempts[m] = MAX_RETRIES
    BY <1>2 DEF QueueTrue, Truthful
  <2> QED
    BY <1>1, <1>3, <2>1 DEF NoneLost
<1>13. OneInHand'
  <2>1. \A g \in Flushers :
          /\ flusher'[g].pc = "idle" => DOMAIN flusher'[g].todo = {} /\ DOMAIN flusher'[g].done = {}
          /\ DOMAIN flusher'[g].todo \cap DOMAIN flusher'[g].done = {}
          /\ \A a, b \in DOMAIN flusher'[g].done : a = b
    <3> TAKE g \in Flushers
    <3>1. CASE g = f
      BY <1>8, <3>1
    <3>2. CASE g # f
      BY <1>5, <3>2 DEF OneInHand
    <3> QED
      BY <3>1, <3>2
  <2> QED
    BY <2>1 DEF OneInHand
<1>14. ClonesTrue'
  <2>1. \A g \in Flushers :
          /\ \A n \in DOMAIN flusher'[g].todo :
               Retryable(flusher'[g].todo[n], attempts[n], accepted[n])
          /\ \A n \in DOMAIN flusher'[g].done :
               /\ flusher'[g].done[n].status # "InFlight"
               /\ Truthful(flusher'[g].done[n], attempts[n], accepted[n])
    <3> TAKE g \in Flushers
    <3>1. CASE g = f
      BY <1>8, <3>1
    <3>2. CASE g # f
      BY <1>5, <3>2 DEF ClonesTrue
    <3> QED
      BY <3>1, <3>2
  <2> QED
    BY <1>1, <2>1 DEF ClonesTrue
<1>15. QueueTrue'
  BY <1>1, <1>3 DEF QueueTrue
<1> QED
  BY <1>6, <1>7, <1>10, <1>11, <1>12, <1>13, <1>14, <1>15

LEMMA OutboxFrame ==
    ASSUME OutboxInv, UNCHANGED <<queue, flusher, enqueued, attempts, accepted>>, clock' \in Nat
    PROVE  OutboxInv'
BY DEF OutboxInv, TypeOK, Shapes, InFlightOwnedOnce, Holds, AttemptsBounded, NoneLost, OneInHand,
       ClonesTrue, QueueTrue

-----------------------------------------------------------------------------
LEMMA OutboxInvInit == Init => OutboxInv
<1> SUFFICES ASSUME Init PROVE OutboxInv
  OBVIOUS
<1>1. \A f \in Flushers : flusher[f] = Idle
  BY DEF Init
<1>2. /\ Idle.pc = "idle" /\ Idle.todo = << >> /\ Idle.done = << >>
      /\ Idle \in [pc : {"idle", "flushing"}, now : Nat, todo : Clones, done : Clones]
  BY CloneOps DEF Idle
<1> HIDE DEF Idle
<1>3. Shapes
  BY <1>2, CloneOps DEF Init, Shapes
<1>4. TypeOK
  <2>1. clock \in Nat /\ enqueued \subseteq Msgs /\ attempts \in [Msgs -> Nat]
        /\ accepted \in [Msgs -> Nat]
    BY DEF Init
  <2> QED
    BY <1>3, <2>1, ShapesTyped
<1>5. \A f \in Flushers : DOMAIN flusher[f].todo = {} /\ DOMAIN flusher[f].done = {}
  BY <1>1, <1>2, CloneOps
<1>6. InFlightOwnedOnce /\ OneInHand /\ ClonesTrue
  BY <1>5 DEF InFlightOwnedOnce, Holds, OneInHand, ClonesTrue
<1>7. DOMAIN queue = {} /\ enqueued = {} /\ \A m \in Msgs : attempts[m] = 0 /\ accepted[m] = 0
  BY CloneOps DEF Init
<1>8. AttemptsBounded /\ NoneLost /\ QueueTrue
  BY <1>7, OutboxAssumption DEF AttemptsBounded, NoneLost, QueueTrue
<1> QED
  BY <1>3, <1>4, <1>6, <1>8 DEF OutboxInv

(* Every step of the outbox keeps the invariant; a step of the cards moves *)
(* none of its variables.                                                  *)
LEMMA OutboxInvariant == MCSpec => []OutboxInv
<1>1. MCInit => OutboxInv
  BY OutboxInvInit DEF MCInit
<1>2. ASSUME OutboxInv, [MCNext]_MCvars
      PROVE  OutboxInv'
  <2>1. CASE Next
    <3>1. CASE \E m \in Msgs : enqueue(m)
      BY <1>2, <3>1, EnqueueKeeps
    <3>2. CASE \E f \in Flushers : snapshot(f) \/ publish(f) \/ write_back(f) \/ prune(f)
      BY <1>2, <3>2, SnapshotKeeps, PublishKeeps, WriteBackKeeps, PruneKeeps
    <3>3. CASE tick
      <4>1. clock' \in Nat
        BY <1>2, <3>3 DEF tick, OutboxInv, TypeOK
      <4> QED
        BY <1>2, <3>3, <4>1, OutboxFrame DEF tick
    <3> QED
      BY <2>1, <3>1, <3>2, <3>3 DEF Next
  <2>2. CASE UNCHANGED vars
    <3>1. UNCHANGED <<queue, flusher, enqueued, attempts, accepted>> /\ clock' \in Nat
      BY <1>2, <2>2 DEF vars, OutboxInv, TypeOK
    <3> QED
      BY <1>2, <3>1, OutboxFrame
  <2>3. Next \/ UNCHANGED vars
    BY <1>2 DEF MCNext, MCvars
  <2> QED
    BY <2>1, <2>2, <2>3
<1> QED
  BY <1>1, <1>2, PTL DEF MCSpec

(* A queued message is sent by one flush at a time, at most MAX_RETRIES    *)
(* times and never again once acknowledged, and leaves the queue only when *)
(* acknowledged or given up (queue/outbox.rs flush): for any number of     *)
(* messages and overlapping flushes, any back-off and any clock.           *)
THEOREM OutboxDelivers == MCSpec => []OutboxSound
<1>1. OutboxInv => OutboxSound
  BY DEF OutboxInv, OutboxSound
<1> QED
  BY <1>1, OutboxInvariant, PTL
=============================================================================
