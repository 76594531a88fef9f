----------------------------- MODULE ChatCards ------------------------------
(***************************************************************************)
(* From a stored chat message to the Notifications card of its trade: the  *)
(* at-least-once stream of api/messages.rs (AnyMessageStream over the      *)
(* message store) and the exactly-once fold of the Dart notifier           *)
(* (event_cards.dart, notifications_provider.dart), with the user reading  *)
(* the chat room meanwhile.                                                *)
(*                                                                         *)
(* One trade and its peer messages.  A card is the set of messages counted *)
(* on it since it was last read.  The identity, toggle and route filters   *)
(* of event_cards.dart are left out: they only suppress.                   *)
(***************************************************************************)
EXTENDS Integers, Sequences, SequencesExt, FiniteSets

CONSTANTS Msgs,          \* a set of numbers, in the order of creation
          Capacity,      \* of the broadcast channel (64)
          MaxFailures,   \* bound on failed writes, of either side
          MaxRestarts,   \* bound on process restarts
          MaxReads       \* bound on visits to the chat room

VARIABLES mem,        \* the store's memory: "absent", "unread" or "read"
          table,      \* the messages table, likewise
          adding,     \* the message add_message holds (or Idle), and its next step
          queue,      \* the broadcast channel of new messages
          lagged,     \* the receiver was overrun
          pending,    \* AnyMessageStream.pending
          replay_due, \* replay_at has come
          hand,       \* the event Dart handles, with the read revision it saw
          ledger,     \* sembast: messages already counted
          counted,    \* _processedMessages, of this run of the app
          card,       \* sembast: the card's messages; unread unless empty
          revision,   \* _readRevisions of the card
          reading,    \* what a visit to the room still has to mark
          times,      \* history: how often each message was folded
          failures, restarts, reads

vars == <<mem, table, adding, queue, lagged, pending, replay_due, hand, ledger, counted, card,
          revision, reading, times, failures, restarts, reads>>
rust == <<mem, table, adding, queue, lagged, pending, replay_due>>
dart == <<hand, ledger, counted, card, revision, times>>
bounds == <<failures, restarts, reads>>

None == 0
Free == [msg |-> None, revision |-> 0]
Idle == [msg |-> None, step |-> "save"]
Flags == {"absent", "unread", "read"}
MsgSeq == UNION {[1..n -> Msgs] : n \in 0..Cardinality(Msgs)}

TypeOK ==
    /\ mem \in [Msgs -> Flags] /\ table \in [Msgs -> Flags]
    /\ adding \in [msg : Msgs \cup {None}, step : {"save", "send"}]
    /\ queue \in MsgSeq /\ Len(queue) <= Capacity /\ lagged \in BOOLEAN
    /\ pending \in MsgSeq /\ replay_due \in BOOLEAN
    /\ hand.msg \in Msgs \cup {None} /\ hand.revision \in 0..MaxReads
    /\ ledger \subseteq Msgs /\ counted \subseteq ledger /\ card \subseteq ledger
    /\ revision \in 0..MaxReads
    /\ reading \subseteq {"card", "memory", "table"}
    /\ times \in [Msgs -> Nat]
    /\ failures \in 0..MaxFailures /\ restarts \in 0..MaxRestarts /\ reads \in 0..MaxReads

Init ==
    /\ mem = [m \in Msgs |-> "absent"] /\ table = [m \in Msgs |-> "absent"]
    /\ adding = Idle /\ queue = <<>> /\ lagged = FALSE
    /\ pending = <<>> /\ replay_due = TRUE /\ hand = Free
    /\ ledger = {} /\ counted = {} /\ card = {} /\ revision = 0 /\ reading = {}
    /\ times = [m \in Msgs |-> 0]
    /\ failures = 0 /\ restarts = 0 /\ reads = 0

-----------------------------------------------------------------------------
(* The message store.                                                      *)

(* ensure_hydrated: memory wins over the rows it loads.                    *)
hydrated == [m \in Msgs |-> IF mem[m] = "absent" THEN table[m] ELSE mem[m]]

(* add_message: listed, ...                                                *)
add_message(m) ==
    /\ adding = Idle /\ hydrated[m] = "absent"
    /\ mem' = [hydrated EXCEPT ![m] = "unread"]
    /\ adding' = [msg |-> m, step |-> "save"]
    /\ UNCHANGED <<table, queue, lagged, pending, replay_due, dart, reading, bounds>>

(* ... saved as it was when it arrived, ...                                *)
save_message ==
    /\ adding # Idle /\ adding.step = "save"
    /\ adding' = [adding EXCEPT !.step = "send"]
    /\ \/ table' = [table EXCEPT ![adding.msg] = "unread"] /\ UNCHANGED failures
       \/ /\ failures < MaxFailures /\ failures' = failures + 1
          /\ UNCHANGED table
    /\ UNCHANGED <<mem, queue, lagged, pending, replay_due, dart, reading, restarts, reads>>

(* Mutant: the channel grows without bound.                                *)
new_message_tx_unbounded ==
    /\ adding # Idle /\ adding.step = "send"
    /\ adding' = Idle
    /\ queue' = Append(queue, adding.msg)
    /\ UNCHANGED <<mem, table, lagged, pending, replay_due, dart, reading, bounds>>

(* ... and broadcast: a full channel loses its oldest message.             *)
new_message_tx ==
    /\ adding # Idle /\ adding.step = "send"
    /\ adding' = Idle
    /\ LET q == Append(queue, adding.msg) IN
       IF Len(q) > Capacity THEN queue' = Tail(q) /\ lagged' = TRUE
                            ELSE queue' = q /\ UNCHANGED lagged
    /\ UNCHANGED <<mem, table, pending, replay_due, dart, reading, bounds>>

-----------------------------------------------------------------------------
(* AnyMessageStream::next_from, called by Dart when its hands are free.    *)

(* Mutant: the queued clone is delivered as it is.                         *)
candidate_as_queued(m) == TRUE

notification_candidate_now(m) ==
    IF mem[m] # "absent" THEN mem[m] = "unread" ELSE TRUE

deliver(m) ==
    hand' = IF notification_candidate_now(m) THEN [msg |-> m, revision |-> revision] ELSE Free

keep_dart == UNCHANGED <<ledger, counted, card, revision, times>>

next_pending ==
    /\ hand = Free /\ pending # <<>>
    /\ deliver(Head(pending)) /\ pending' = Tail(pending)
    /\ UNCHANGED <<mem, table, adding, queue, lagged, replay_due, reading, bounds>> /\ keep_dart

(* The unread rows, memory winning, oldest first.                          *)
backlog == {m \in Msgs : IF mem[m] # "absent" THEN mem[m] = "unread" ELSE table[m] = "unread"}
notification_backlog == SetToSortSeq(backlog, <)

replay ==
    /\ hand = Free /\ pending = <<>> /\ replay_due
    /\ \/ pending' = notification_backlog /\ UNCHANGED failures
       \/ failures < MaxFailures /\ failures' = failures + 1 /\ UNCHANGED pending
    /\ replay_due' = FALSE
    /\ UNCHANGED <<mem, table, adding, queue, lagged, dart, reading, restarts, reads>>

receive_lagged ==
    /\ hand = Free /\ pending = <<>> /\ ~replay_due /\ lagged
    /\ lagged' = FALSE /\ replay_due' = TRUE
    /\ UNCHANGED <<mem, table, adding, queue, pending, dart, reading, bounds>>

receive ==
    /\ hand = Free /\ pending = <<>> /\ ~replay_due /\ ~lagged /\ queue # <<>>
    /\ deliver(Head(queue)) /\ queue' = Tail(queue)
    /\ UNCHANGED <<mem, table, adding, lagged, pending, replay_due, reading, bounds>> /\ keep_dart

(* Mutant: only a lagged receiver replays.                                 *)
minute_passes_if_lagged ==
    /\ ~replay_due /\ lagged
    /\ replay_due' = TRUE
    /\ UNCHANGED <<mem, table, adding, queue, lagged, pending, dart, reading, bounds>>

(* A minute passed: unread messages that are not yet on a card are due             *)
(* again.  A replay that would hand over only what Dart knows is left out. *)
minute_passes ==
    /\ ~replay_due /\ backlog \ counted # {}
    /\ replay_due' = TRUE
    /\ UNCHANGED <<mem, table, adding, queue, lagged, pending, dart, reading, bounds>>

-----------------------------------------------------------------------------
(* Dart: EventCards.onChatMessage and the notifier's serialized mutations. *)

already_counted(m) == m \in counted

skip_counted ==
    /\ hand # Free /\ already_counted(hand.msg)
    /\ hand' = Free
    /\ UNCHANGED <<rust, ledger, counted, card, revision, reading, times, bounds>>

(* Mutant: only this run's set of counted messages is consulted.           *)
saveChatMessage_no_ledger ==
    LET m == hand.msg IN
    /\ hand # Free /\ ~already_counted(m)
    /\ ledger' = ledger \cup {m} /\ counted' = counted \cup {m}
    /\ IF hand.revision = revision
         THEN card' = card \cup {m} /\ times' = [times EXCEPT ![m] = @ + 1]
         ELSE UNCHANGED <<card, times>>
    /\ hand' = Free
    /\ UNCHANGED <<rust, revision, reading, bounds>>

(* saveChatMessage, one transaction: the ledger and the card.  A read of   *)
(* the card since the event was taken up consumes it without a card.       *)
saveChatMessage ==
    LET m == hand.msg IN
    /\ hand # Free /\ ~already_counted(m)
    /\ ledger' = ledger \cup {m} /\ counted' = counted \cup {m}
    /\ IF m \notin ledger /\ hand.revision = revision
         THEN card' = card \cup {m} /\ times' = [times EXCEPT ![m] = @ + 1]
         ELSE UNCHANGED <<card, times>>
    /\ hand' = Free
    /\ UNCHANGED <<rust, revision, reading, bounds>>

saveChatMessage_fails ==
    /\ hand # Free /\ ~already_counted(hand.msg) /\ failures < MaxFailures
    /\ failures' = failures + 1
    /\ hand' = Free
    /\ UNCHANGED <<rust, ledger, counted, card, revision, times, reading, restarts, reads>>

-----------------------------------------------------------------------------
(* The user opens the chat room: the card's read revision moves at once,   *)
(* the card, the store's memory and its table follow.                      *)
open_room ==
    /\ reading = {} /\ reads < MaxReads /\ reads' = reads + 1
    /\ revision' = revision + 1
    /\ reading' = {"card", "memory"}
    /\ UNCHANGED <<rust, hand, ledger, counted, card, times, failures, restarts>>

mark_card_read ==
    /\ "card" \in reading /\ reading' = reading \ {"card"}
    /\ card' = {}
    /\ UNCHANGED <<rust, hand, ledger, counted, revision, times, bounds>>

AllRead(f) == [m \in Msgs |-> IF f[m] = "unread" THEN "read" ELSE f[m]]

mark_as_read ==
    /\ "memory" \in reading /\ reading' = (reading \ {"memory"}) \cup {"table"}
    /\ mem' = AllRead(hydrated)
    /\ UNCHANGED <<table, adding, queue, lagged, pending, replay_due, dart, bounds>>

mark_messages_read ==
    /\ "table" \in reading /\ reading' = reading \ {"table"}
    /\ table' = AllRead(table)
    /\ UNCHANGED <<mem, adding, queue, lagged, pending, replay_due, dart, bounds>>

restart ==
    /\ restarts < MaxRestarts /\ restarts' = restarts + 1
    /\ mem' = [m \in Msgs |-> "absent"] /\ adding' = Idle /\ queue' = <<>> /\ lagged' = FALSE
    /\ pending' = <<>> /\ replay_due' = TRUE /\ hand' = Free /\ counted' = {} /\ revision' = 0
    /\ reading' = {}
    /\ UNCHANGED <<table, ledger, card, times, failures, reads>>

Stream == next_pending \/ replay \/ receive_lagged \/ receive \/ minute_passes
Fold == skip_counted \/ saveChatMessage
Add == save_message \/ new_message_tx
Read == mark_card_read \/ mark_as_read \/ mark_messages_read

Next == \/ \E m \in Msgs : add_message(m)
        \/ Add \/ Stream \/ Fold \/ Read
        \/ saveChatMessage_fails \/ open_room \/ restart

(* The runtime runs every task that can go on, and the clock goes on.  A   *)
(* write that can fail is retried, and fails only finitely often.          *)
Spec == Init /\ [][Next]_vars
        /\ WF_vars(next_pending) /\ WF_vars(replay) /\ WF_vars(receive_lagged)
        /\ WF_vars(receive) /\ WF_vars(minute_passes) /\ WF_vars(Fold)

-----------------------------------------------------------------------------
(* Unreliable delivery (messages.rs:788): the stream delivers at least     *)
(* once and after every restart, yet a message is folded into a card at    *)
(* most once, whatever writes fail.                                        *)
CountedOnce == \A m \in Msgs : times[m] <= 1

(* Stale state (messages.rs:263): a message that was queued before the     *)
(* user read the room is not handed to Dart afterwards; only a message the *)
(* cache lists as unread, or does not list, enters its hands.              *)
ReadNotDelivered ==
    [][hand' # hand /\ hand'.msg # None => mem'[hand'.msg] # "read"]_vars

(* Liveness (messages.rs:786): a message stored unread ends on a card, or  *)
(* is read, although the channel drops messages, Dart's write fails and    *)
(* the app is killed between the two commits.                              *)
EventuallyCarded ==
    \A m \in Msgs : table[m] = "unread" ~> m \in ledger \/ "read" \in {mem[m], table[m]}
=============================================================================
