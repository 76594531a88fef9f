------------------------------ MODULE MCTrades -------------------------------
(* What a trade is made of, side by side: the order book and its copy, the  *)
(* d-tag watcher, the key counter, the session, the chats, the dispute, and  *)
(* the trade row, its handlers whole.  A behaviour moves one of them.        *)
EXTENDS OrderBook

CONSTANTS
    MaxGen, MaxEnds, MaxSwitches, Callers, MaxIndex, MaxFailures, MaxRestarts,
    MaxElsewhere, MaxTakes, MaxSends, MaxFaults, Channels, ChannelOf, MaxTasks,
    RoomMaxFailures, MaxRefusals, MaxStops, Solvers, DisputeMaxRestarts,
    Mine, Unwritten, Paths, RowMaxGen, MaxEvents, RowMaxRestarts, MaxSweeps

ASSUME TradesAssumption ==
    /\ MaxGen \in Nat /\ MaxEnds \in Nat /\ MaxSwitches \in Nat
    /\ MaxIndex \in Nat \ {0} /\ MaxFailures \in Nat /\ MaxRestarts \in Nat /\ MaxElsewhere \in Nat
    /\ MaxTakes \in Nat /\ MaxSends \in Nat /\ MaxFaults \in Nat
    /\ DisputeMaxRestarts \in Nat /\ "none" \notin Solvers
    /\ Channels # {} /\ ChannelOf \in Seq(Channels) /\ MaxTasks \in Nat
    /\ RoomMaxFailures \in Nat /\ MaxRefusals \in Nat /\ MaxStops \in Nat
    /\ Mine \subseteq BOOLEAN /\ Unwritten \subseteq BOOLEAN /\ Paths \subseteq {"book", "dtag"}
    /\ {RowMaxGen, MaxEvents} \subseteq Nat \ {0} /\ {RowMaxRestarts, MaxSweeps} \subseteq Nat

VARIABLES
    part,    \* the component this behaviour is about
    \* OrderWatch
    row, node, lock, claim, gen, watch_task, req, releases, owned, switches, ends,
    raced,
    \* TradeIndex
    mem, db, mirror, announced, call, daemon, failures, restarts, elsewhere, used,
    promised, reused, keptAhead, readFailed, retryRefused,
    \* Session
    peer_row, session, peer_lock, take, wiped, api, sent, revealed, overStale,
    sends, faults,
    \* Chat
    room_sent, room_mem, hydrated, nonDurable, table, cursorRow, room_active,
    room_req, room_gen, room_task, stopping, room_failures, refusals, stops,
    room_restarts, overlapped,
    \* Disputes
    dispute_row, admin_key, origin, record, listener, opening, took, scan, opened,
    net, seen, dispute_restarts, dispute_owned, assigned, armed,
    \* TradeRow
    row_row, row_tomb, row_cursor, row_bound, row_book, row_note, row_req, row_disp,
    row_wire, row_sweep, row_seen, row_net, row_order, row_now, row_restarts,
    row_sweeps, row_is_mine, row_unwritten, row_wiped

Watch == INSTANCE OrderWatch WITH
    task <- watch_task

Index == INSTANCE TradeIndex

Peer == INSTANCE Session WITH
    row <- peer_row, lock <- peer_lock

Room == INSTANCE Chat WITH
    MaxFailures <- RoomMaxFailures, sent <- room_sent, mem <- room_mem,
    active <- room_active, req <- room_req, gen <- room_gen, task <- room_task,
    failures <- room_failures, restarts <- room_restarts

Dispute == INSTANCE Disputes WITH
    MaxRestarts <- DisputeMaxRestarts, row <- dispute_row,
    restarts <- dispute_restarts, owned <- dispute_owned

Row == INSTANCE TradeRow WITH
    Interleaved <- FALSE, MaxGen <- RowMaxGen, MaxRestarts <- RowMaxRestarts,
    row <- row_row, tomb <- row_tomb, cursor <- row_cursor, bound <- row_bound,
    book <- row_book, note <- row_note, req <- row_req, disp <- row_disp,
    wire <- row_wire, sweep <- row_sweep, seen <- row_seen, net <- row_net,
    order <- row_order, now <- row_now, restarts <- row_restarts,
    sweeps <- row_sweeps, is_mine <- row_is_mine, unwritten <- row_unwritten,
    wiped <- row_wiped

MCNodeOf == [o \in Orders |-> IF o = "b1" THEN "B" ELSE "A"]

MCChannelOf == [m \in 1..3 |-> IF m = 2 THEN "dispute" ELSE "peer"]

Parts == {"book", "watch", "index", "session", "chat", "dispute", "row"}

(* Bounds: three faults of the key counter in one behaviour; a row has a    *)
(* restart or a sweep, and each of these, and being made instead of taken,  *)
(* takes one event off.  The app starts at node A (MCInit).                 *)
Bounds ==
    /\ part = "index" => failures + restarts + elsewhere <= 3
    /\ part = "row" =>
         /\ row_restarts = 0 \/ row_sweeps = 0
         /\ row_now + row_restarts + row_sweeps <= IF row_is_mine THEN MaxEvents - 1 ELSE MaxEvents

MCInit ==
    /\ part \in Parts
    /\ Init /\ Watch!Init /\ Index!Init /\ Peer!Init /\ Room!Init /\ Dispute!Init
    /\ Row!Init
    /\ active = "A" /\ node = "A"
    /\ part # "row" => ~row_is_mine

WatchVars == <<row, node, lock, claim, gen, watch_task, req, releases, owned, switches, ends,
      raced>>
IndexVars == <<mem, db, mirror, announced, call, daemon, failures, restarts, elsewhere, used,
      promised, reused, keptAhead, readFailed, retryRefused>>
PeerVars == <<peer_row, session, peer_lock, take, wiped, api, sent, revealed, overStale,
      sends, faults>>
RoomVars == <<room_sent, room_mem, hydrated, nonDurable, table, cursorRow, room_active,
      room_req, room_gen, room_task, stopping, room_failures, refusals, stops,
      room_restarts, overlapped>>
DisputeVars == <<dispute_row, admin_key, origin, record, listener, opening, took, scan, opened,
      net, seen, dispute_restarts, dispute_owned, assigned, armed>>
RowVars == <<row_row, row_tomb, row_cursor, row_bound, row_book, row_note, row_req, row_disp,
      row_wire, row_sweep, row_seen, row_net, row_order, row_now, row_restarts,
      row_sweeps, row_is_mine, row_unwritten, row_wiped>>

MCvars == <<part, vars, WatchVars, IndexVars, PeerVars, RoomVars, DisputeVars, RowVars>>

MCNext ==
    \/ part = "book" /\ Next /\ UNCHANGED <<part, WatchVars, IndexVars, PeerVars, RoomVars, DisputeVars, RowVars>>
    \/ part = "watch" /\ Watch!Next /\ UNCHANGED <<part, vars, IndexVars, PeerVars, RoomVars, DisputeVars, RowVars>>
    \/ part = "index" /\ Index!Next /\ UNCHANGED <<part, vars, WatchVars, PeerVars, RoomVars, DisputeVars, RowVars>>
    \/ part = "session" /\ Peer!Next /\ UNCHANGED <<part, vars, WatchVars, IndexVars, RoomVars, DisputeVars, RowVars>>
    \/ part = "chat" /\ Room!Next /\ UNCHANGED <<part, vars, WatchVars, IndexVars, PeerVars, DisputeVars, RowVars>>
    \/ part = "dispute" /\ Dispute!Next /\ UNCHANGED <<part, vars, WatchVars, IndexVars, PeerVars, RoomVars, RowVars>>
    \/ part = "row" /\ Row!Next /\ UNCHANGED <<part, vars, WatchVars, IndexVars, PeerVars, RoomVars, DisputeVars>>

MCSpec == MCInit /\ [][MCNext]_MCvars

------------------------------------------------------------------------------
(* The book has its types; a screen that has heard everything shows the book *)
(* (its copy may lag, never disagree), and a confirmed book is shown.       *)
BookSound == part = "book" =>
    /\ TypeOK
    /\ ScreenAgrees
    /\ ConfirmedBookShown

(* Types; the task that owns the order listens to an open REQ of its own    *)
(* filter, and no d-tag REQ is left open without a task.                    *)
WatchSound == part = "watch" =>
    /\ Watch!TypeOK
    /\ Watch!WatcherOwnsReq
    /\ Watch!ReqHasOwner

(* Types; no trade key is handed out twice, a resync that reported success  *)
(* survives a restart and a retry after it uses a key above the daemon's     *)
(* answer; a session has the key of its index and is that of the row's take, *)
(* and a counterparty once revealed reaches the trade row.                  *)
KeysSound ==
    /\ part = "index" => Index!TypeOK /\ Index!KeyHandedOnce /\ Index!ResyncDurable /\ Index!RetryAboveAnswer
    /\ part = "session" => Peer!TypeOK /\ Peer!KeyOfIndex /\ Peer!SessionOfRow /\ Peer!RevealReachesRow

(* Types; a chat message only memory holds is known to be so, and a         *)
(* channel's cursor stands only on messages a restart will find, unless      *)
(* listeners overlapped; a dispute whose acceptance was handled is recorded  *)
(* as this user's; and the solver of a live trade, once assigned, is on the  *)
(* record with a listener as soon as a rehydration has ended.                *)
TalkSound ==
    /\ part = "chat" => Room!TypeOK /\ Room!MemoryOnlyKnown /\ Room!CursorOnDurable
    /\ part = "dispute" => Dispute!TypeOK /\ Dispute!AcceptedIsMine /\ Dispute!SolverSurvives

(* The row's types, and its truth: with every event handled, what it shows   *)
(* is what the daemon said.                                                  *)
RowSound == part = "row" =>
    /\ Row!TypeOK
    /\ Row!RowTruthful

(* With every message and public event handled: an order that was canceled,   *)
(* or went back to the book for a taker, leaves no row, unless it is a        *)
(* maker's shown as canceled or its confirmation was lost; and a row wiped on *)
(* purpose is not brought back by its own history.                            *)
RowKept == part = "row" =>
    /\ Row!NeverActiveGone
    /\ Row!WipedStaysWiped

(* With every message and public event handled: a taker who lost the take in  *)
(* this session sees the republished order again, and a trade whose           *)
(* confirmation was lost has its row if its newest message proves it and no   *)
(* wipe came since.                                                           *)
RowRecovered == part = "row" =>
    /\ Row!ExTakerSeesOrder
    /\ Row!RecoveredFromProof

(* The copy of the book never moves back to an older revision of an order, and *)
(* a finished order's dispute is not opened again by a replay.                *)
TradeSteps ==
    /\ CopyMovesForward
    /\ Dispute!FinishedStaysClosed
==============================================================================
