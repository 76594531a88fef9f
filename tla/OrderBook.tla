----------------------------- MODULE OrderBook -----------------------------
(***************************************************************************)
(* The cached public order book (api/orders.rs), its delta stream, and the *)
(* copy the Dart home screen keeps of it (order_book_feed.dart).           *)
(*                                                                         *)
(* Every change is made and broadcast under the book's write lock, so one  *)
(* step.  The consumer subscribes, reads a snapshot, and then applies one  *)
(* delta at a time; any writer may act between its steps.  The broadcast   *)
(* channel is bounded: a consumer that lags loses the oldest deltas.       *)
(***************************************************************************)
EXTENDS Integers, Sequences

CONSTANTS Nodes,           \* Mostro nodes the user may select
          Orders,
          Versions,        \* an order as far as the book tells versions apart
          NodeOf,          \* the node that publishes an order
          Ours,            \* orders with a trade-key binding
          Tasks,           \* node switches and refetches that may overlap
          Capacity,        \* ORDER_DELTA_CAPACITY
          RevisionLimit,   \* u32::MAX
          MaxChanges,      \* bound on the changes of the book
          MaxFeeds         \* bound on how often the screen is opened

ASSUME BookAssumption == Capacity \in Nat \ {0} /\ RevisionLimit \in Nat

VARIABLES past,       \* the book after each change; the last one is the book
          loaded,     \* the pending feed's stored events ended
          active,     \* the active node
          ingesting,  \* the event the subscription loop is applying
          task,       \* node switches and refetches
          queue,      \* deltas the consumer has not received
          lagged,     \* it lost some
          feed,       \* the consumer
          feeds       \* how often it was opened

book_vars == <<past, loaded>>
feed_vars == <<feed, feeds>>
vars == <<past, loaded, active, ingesting, task, queue, lagged, feed, feeds>>

(* The version "over" stands for the hard-terminal statuses. *)
Books == [Orders -> Versions \cup {"none"}]
Empty == [o \in Orders |-> "none"]

orders == past[Len(past)]
revision == Len(past) - 1

OrderBookDelta ==
    [kind : {"Upserted"}, revision : Nat, order : Orders, version : Versions]
    \cup [kind : {"Removed"}, revision : Nat, order : Orders]
    \cup [kind : {"Reset", "Loaded"}]

(* at: which element of past the copy is (history). *)
Feed == [pc : {"off", "subscribed", "next", "resync"}, copy : Books, revision : Nat,
         at : Nat, shown : BOOLEAN, flush : BOOLEAN, ui : Books]
Closed == [pc |-> "off", copy |-> Empty, revision |-> 0, at |-> 0,
           shown |-> FALSE, flush |-> FALSE, ui |-> Empty]

NoEvent == [order |-> "none"]
NoTask == [pc |-> "idle", node |-> "none"]

TypeOK ==
    /\ past \in Seq(Books) /\ Len(past) > 0
    /\ loaded \in BOOLEAN /\ active \in Nodes
    /\ ingesting = NoEvent \/ ingesting \in [order : Orders, version : Versions]
    /\ task \in [Tasks -> [pc : {"idle", "clearing", "reading", "fetching"},
                           node : Nodes \cup {"none"}]]
    /\ queue \in Seq(OrderBookDelta) /\ Len(queue) <= Capacity
    /\ lagged \in BOOLEAN /\ feed \in Feed /\ feeds \in Nat

Init ==
    /\ past = <<Empty>> /\ loaded = FALSE
    /\ active \in Nodes
    /\ ingesting = NoEvent
    /\ task = [t \in Tasks |-> NoTask]
    /\ queue = << >> /\ lagged = FALSE
    /\ feed = Closed /\ feeds = 0

-----------------------------------------------------------------------------
(* The book.                                                               *)

(* A full channel overwrites its oldest delta. *)
broadcast(d) ==
    IF feed.pc = "off" THEN UNCHANGED <<queue, lagged>>
    ELSE IF Len(queue) < Capacity
         THEN queue' = Append(queue, d) /\ UNCHANGED lagged
         ELSE queue' = Append(Tail(queue), d) /\ lagged' = TRUE

change(book, d) ==
    /\ Len(past) <= MaxChanges
    /\ past' = Append(past, book)
    /\ broadcast(d)

Unchanged == UNCHANGED <<past, queue, lagged>>

(* An order announced again unchanged is no change. *)
upsert(o, v) ==
    IF orders[o] = v THEN Unchanged
    ELSE change([orders EXCEPT ![o] = v],
                [kind |-> "Upserted", revision |-> revision + 1, order |-> o, version |-> v])

(* Mutant: the removal of an order that is not there is broadcast too, but *)
(* counts as no change.                                                    *)
remove_uncounted(o) ==
    IF orders[o] = "none"
    THEN UNCHANGED past /\ broadcast([kind |-> "Removed", revision |-> revision + 1, order |-> o])
    ELSE change([orders EXCEPT ![o] = "none"],
                [kind |-> "Removed", revision |-> revision + 1, order |-> o])

remove(o) ==
    IF orders[o] = "none" THEN Unchanged
    ELSE change([orders EXCEPT ![o] = "none"],
                [kind |-> "Removed", revision |-> revision + 1, order |-> o])

replace_all(book) == change(book, [kind |-> "Reset"])

(* A finished order of a stranger leaves the book; ours stay. *)
apply_ingested_order(o, v) ==
    IF o \notin Ours /\ v = "over" THEN remove(o) ELSE upsert(o, v)

(* A handler of the trade, or its d-tag task, sets or drops the entry. *)
write_trade_entry(o) ==
    /\ o \in Ours
    /\ remove(o) \/ \E v \in Versions : upsert(o, v)
    /\ UNCHANGED <<loaded, active, ingesting, task, feed, feeds>>

(* The relay confirmed that there is nothing more to send. *)
publish_on_stored_events_end ==
    /\ loaded' = TRUE
    /\ broadcast([kind |-> "Loaded"])
    /\ UNCHANGED <<past, active, ingesting, task, feed, feeds>>

-----------------------------------------------------------------------------
(* The subscription loop, the refetch and the node switch.                 *)

(* The loop checks the author of an event before it applies it. *)
accept_event(o, v) ==
    /\ ingesting = NoEvent
    /\ NodeOf[o] = active
    /\ ingesting' = [order |-> o, version |-> v]
    /\ UNCHANGED <<book_vars, active, task, queue, lagged, feed_vars>>

ingest_order_event ==
    /\ ingesting # NoEvent
    /\ apply_ingested_order(ingesting.order, ingesting.version)
    /\ ingesting' = NoEvent
    /\ UNCHANGED <<loaded, active, task, feed, feeds>>

Goto(t, pc, node) == task' = [task EXCEPT ![t] = [pc |-> pc, node |-> node]]

set_active_mostro_node(t, n) ==
    /\ task[t].pc = "idle" /\ n # active
    /\ active' = n
    /\ Goto(t, "clearing", "none")
    /\ UNCHANGED <<book_vars, ingesting, queue, lagged, feed_vars>>

(* The first thing a switch does to the book. *)
clear(t) ==
    /\ task[t].pc = "clearing"
    /\ replace_all(Empty)
    /\ loaded' = FALSE
    /\ Goto(t, "reading", "none")
    /\ UNCHANGED <<active, ingesting, feed, feeds>>

(* "Refresh" in the user interface. *)
restart_orders_subscription(t) ==
    /\ task[t].pc = "idle"
    /\ Goto(t, "reading", "none")
    /\ UNCHANGED <<book_vars, active, ingesting, queue, lagged, feed_vars>>

(* The node is read once; the relays are asked for its events. *)
refetch_active_node_orders(t) ==
    /\ task[t].pc = "reading"
    /\ Goto(t, "fetching", active)
    /\ UNCHANGED <<book_vars, active, ingesting, queue, lagged, feed_vars>>

ingest_fetched(t, o, v) ==
    /\ task[t].pc = "fetching" /\ NodeOf[o] = task[t].node
    /\ apply_ingested_order(o, v)
    /\ UNCHANGED <<loaded, active, ingesting, task, feed, feeds>>

end_refetch(t) ==
    /\ task[t].pc = "fetching"
    /\ task' = [task EXCEPT ![t] = NoTask]
    /\ UNCHANGED <<book_vars, active, ingesting, queue, lagged, feed_vars>>

-----------------------------------------------------------------------------
(* The consumer.                                                           *)

(* What the bridge can carry of a revision. *)
Carried(r) == r < RevisionLimit
bridge_revision(r) == IF Carried(r) THEN r ELSE RevisionLimit

(* Mutant: the subscription is opened after the snapshot was read. *)
subscribe_deltas_late ==
    /\ feed.pc = "off" /\ feeds < MaxFeeds
    /\ \E k \in 1..Len(past) :
         feed' = [Closed EXCEPT !.pc = "next", !.copy = past[k], !.at = k, !.revision = k - 1,
                                !.shown = past[k] # Empty \/ loaded, !.ui = past[k]]
    /\ queue' = << >> /\ lagged' = FALSE
    /\ feeds' = feeds + 1
    /\ UNCHANGED <<book_vars, active, ingesting, task>>

(* Subscribing comes before reading the snapshot. *)
subscribe_deltas ==
    /\ feed.pc = "off" /\ feeds < MaxFeeds
    /\ feed' = [Closed EXCEPT !.pc = "subscribed"]
    /\ queue' = << >> /\ lagged' = FALSE
    /\ feeds' = feeds + 1
    /\ UNCHANGED <<book_vars, active, ingesting, task>>

(* Mutant: whether the relay already confirmed the book is not looked at. *)
worth_showing_orders == orders # Empty

(* An empty book is shown only once the relay confirmed it. *)
WorthShowing == orders # Empty \/ loaded

(* _restart: the snapshot, with the revision it was read at. *)
restart ==
    /\ feed.pc \in {"subscribed", "resync"}
    /\ LET show == WorthShowing
           first == feed.pc = "subscribed"
       IN feed' = [feed EXCEPT !.pc = "next", !.copy = orders, !.at = Len(past),
                               !.revision = bridge_revision(revision),
                               !.shown = @ \/ (first /\ show),
                               !.ui = IF first /\ show THEN orders ELSE @,
                               !.flush = @ \/ (~first /\ (feed.shown \/ show))]
    /\ UNCHANGED <<book_vars, active, ingesting, task, queue, lagged, feeds>>

Resync == [feed EXCEPT !.pc = "resync"]

(* Mutant: the boundary is off by one. *)
stale_strictly(d) == d.revision < feed.revision - 1

(* A delta at or below the revision of the copy is already in it. *)
Stale(d) == d.revision <= feed.revision

applied(d) ==
    CASE d.kind = "Loaded" -> [feed EXCEPT !.flush = @ \/ ~feed.shown]
      [] d.kind = "Reset" -> Resync
      [] d.kind \in {"Upserted", "Removed"} /\ ~Carried(d.revision) -> Resync
      [] d.kind \in {"Upserted", "Removed"} /\ Carried(d.revision) /\ Stale(d) -> feed
      [] OTHER -> [feed EXCEPT !.revision = d.revision, !.at = @ + 1, !.flush = TRUE,
                               !.copy[d.order] = IF d.kind = "Upserted" THEN d.version
                                                 ELSE "none"]

(* Mutant: a lag is taken for a dropped snapshot, and skipped. *)
next_over_lag ==
    /\ feed.pc = "next"
    /\ queue # << >>
    /\ feed' = applied(Head(queue))
    /\ queue' = Tail(queue) /\ lagged' = FALSE
    /\ UNCHANGED <<book_vars, active, ingesting, task, feeds>>

(* After a lag the oldest delta still retained comes next. *)
next ==
    /\ feed.pc = "next"
    /\ IF lagged
       THEN feed' = Resync /\ lagged' = FALSE /\ UNCHANGED queue
       ELSE /\ queue # << >>
            /\ feed' = applied(Head(queue))
            /\ queue' = Tail(queue)
            /\ UNCHANGED lagged
    /\ UNCHANGED <<book_vars, active, ingesting, task, feeds>>

(* The flush timer of order_book_feed.dart. *)
emit ==
    /\ feed.flush
    /\ feed' = [feed EXCEPT !.flush = FALSE, !.shown = TRUE, !.ui = feed.copy]
    /\ UNCHANGED <<book_vars, active, ingesting, task, queue, lagged, feeds>>

dispose ==
    /\ feed.pc # "off"
    /\ feed' = Closed /\ queue' = << >> /\ lagged' = FALSE
    /\ UNCHANGED <<book_vars, active, ingesting, task, feeds>>

-----------------------------------------------------------------------------
Consume == restart \/ next \/ emit

Next ==
    \/ \E o \in Orders : write_trade_entry(o)
    \/ \E o \in Orders, v \in Versions : accept_event(o, v)
    \/ ingest_order_event \/ publish_on_stored_events_end
    \/ \E t \in Tasks, n \in Nodes : set_active_mostro_node(t, n)
    \/ \E t \in Tasks : \/ clear(t) \/ restart_orders_subscription(t)
                        \/ refetch_active_node_orders(t) \/ end_refetch(t)
                        \/ \E o \in Orders, v \in Versions : ingest_fetched(t, o, v)
    \/ subscribe_deltas \/ Consume \/ dispose

Spec == Init /\ [][Next]_vars

-----------------------------------------------------------------------------
(* Properties.                                                             *)

(* The screen's copy is a state the book was in, and it only moves        *)
(* forward, across lost deltas, wholesale replacements, a snapshot that is *)
(* ahead of the deltas still queued, and the end of the revision's range   *)
(* (OrderBookDelta: a delta at or below the snapshot could undo a later    *)
(* change).                                                                *)
Replica == INSTANCE BookReplica WITH log <- past, at <- feed.at, copy <- feed.copy
CopyMovesForward == Replica!Spec

(* Once there is nothing left to receive or to flush, the screen shows the *)
(* book (the deltas and Resync, OrderDeltaStream::next).                   *)
Quiet == feed.pc = "next" /\ queue = << >> /\ ~lagged /\ ~feed.flush
ScreenAgrees == Quiet /\ feed.shown => feed.ui = orders

(* A book that a relay confirmed is shown, also when the confirmation came *)
(* before the screen was opened or was lost in a lag (OrderBookSnapshot::  *)
(* loaded; "a quiet node still leaves loading").                           *)
ConfirmedBookShown == Quiet /\ loaded => feed.shown

(* "The book only ever holds the active node's orders" (orders.rs, the     *)
(* subscription loop), once a switch has cleared it; entries of our trades *)
(* aside.                                                                  *)
Cleared == \A t \in Tasks : task[t].pc # "clearing"
BookOfActiveNode ==
    Cleared => \A o \in Orders \ Ours : orders[o] # "none" => NodeOf[o] = active
=============================================================================
