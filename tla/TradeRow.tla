------------------------------ MODULE TradeRow ------------------------------
(***************************************************************************)
(* The trade row of one order, and everything in rust/src/api/orders.rs    *)
(* that writes it: the daemon's kind-14 messages (dispatch_mostro_message  *)
(* and its status arms), the confirmed take, the rebuild of a row that was *)
(* never written, the public Kind 38383 feeds (ingest_order_event,         *)
(* apply_single_order_update), the stale sweep and the payout check.       *)
(*                                                                         *)
(* Dispatch and the confirmed take hold the order's lock; the public feeds *)
(* and the sweep do not.  Each handler is split where another writer can   *)
(* get in: between its checks, its write and its tombstone.  The relays    *)
(* keep every kind-14 message and hand them back in any order, all of them *)
(* again after a restart; of a public event they keep the newest.          *)
(***************************************************************************)
EXTENDS Integers, FiniteSets

CONSTANTS Mine,         \* may the client be the order's maker (TRUE), its taker (FALSE)?
          Unwritten,    \* may the confirmation of its create have been lost?
          Interleaved,  \* may the writers without the lock act between a handler's steps?
          Paths,        \* which public feeds run: "book", "dtag"
          MaxGen,       \* trade keys (takes) of this order
          MaxEvents,    \* events the daemon sends
          MaxRestarts, MaxSweeps

VARIABLES
    row,      \* the stored trade row
    tomb,     \* the trade index the wipe tombstone covers, 0 when there is none
    cursor,   \* the status cursor
    bound,    \* the trade key bound to the order, 0 when none
    book,     \* the status of the order's book entry
    note,     \* the noted public view (wire_orders)
    req,      \* the pending take of each trade key
    disp,     \* the handler that holds the order's lock
    wire,     \* the handler of each public feed, and the last event it read
    sweep,    \* the stale sweep
    seen,     \* kind-14 events handled in this session
    net,      \* kind-14 messages the daemon sent
    order,    \* the daemon's order: its status, our trade key, its public event
    now, restarts, sweeps,
    is_mine,  \* the client made the order; otherwise it takes it
    unwritten,\* the confirmation of its create was lost
    wiped     \* history: the newest trade index whose row was wiped

local  == <<row, tomb, cursor, bound, book, note>>
daemon == <<net, order, now>>
roles  == <<is_mine, unwritten>>
counts == <<restarts, sweeps, roles>>
vars   == <<local, req, disp, wire, sweep, seen, daemon, counts, wiped>>

Gens == 1 .. MaxGen

HardTerminal == {"Canceled", "CanceledByAdmin", "CooperativelyCanceled", "Success", "SettledByAdmin"}
Waiting      == {"WaitingBuyerInvoice", "WaitingPayment"}
Statuses     == HardTerminal \cup Waiting
                \cup {"Pending", "InProgress", "Active", "FiatSent", "Dispute", "SettledHoldInvoice"}
None == "None"

(* status_for_action *)
status_for_action ==
    [AddInvoice |-> "WaitingBuyerInvoice", WaitingSellerToPay |-> "WaitingPayment",
     HoldInvoicePaymentAccepted |-> "Active", FiatSentOk |-> "FiatSent",
     Released |-> "SettledHoldInvoice", PurchaseCompleted |-> "Success",
     CooperativeCancelAccepted |-> "CooperativelyCanceled",
     DisputeInitiatedByPeer |-> "Dispute",
     AdminSettled |-> "SettledByAdmin", AdminCanceled |-> "CanceledByAdmin"]

Actions == DOMAIN status_for_action \cup {"NewOrder", "Canceled"}

(* The actions whose payload carries the order, and so proves a row. *)
carries_order(a) == a \in {"AddInvoice", "HoldInvoicePaymentAccepted"}

Message == [action : Actions, idx : Gens, ts : 1 .. MaxEvents, reply : BOOLEAN]

TradeInfo == [status : Statuses, idx : Gens, aged : BOOLEAN]
NoRow == [status |-> None, idx |-> 0, aged |-> FALSE]
Row(status, idx) == [status |-> status, idx |-> idx, aged |-> FALSE]

NoMessage == [action |-> None, idx |-> 0, ts |-> 0, reply |-> FALSE]
Free == [pc |-> "idle", msg |-> NoMessage, snap |-> NoRow, kind |-> "Unknown"]
Watching(ts) == [pc |-> "idle", status |-> None, local |-> None, idx |-> 0, own |-> FALSE, at |-> ts]
Unsubscribed == [Watching(0) EXCEPT !.pc = "off"]
Asleep == [pc |-> "idle", snap |-> NoRow, view |-> None]

TypeOK ==
    /\ row \in TradeInfo \cup {NoRow} /\ tomb \in 0 .. MaxGen /\ bound \in 0 .. MaxGen
    /\ is_mine \in Mine /\ unwritten \in BOOLEAN
    /\ cursor \in 0 .. MaxEvents /\ book \in Statuses \cup {None} /\ note \in Statuses \cup {None}
    /\ req \in [Gens -> {"no", "waiting", "detached", "done", "gone"}]
    /\ disp.pc \in {"idle", "take", "check", "write", "wipe", "tomb"}
    /\ disp.msg \in Message \cup {NoMessage} /\ disp.snap \in TradeInfo \cup {NoRow}
    /\ disp.kind \in {"Exists", "Wiped", "NeverWritten", "Unknown"}
    /\ \A p \in Paths : /\ wire[p].pc \in {"off", "idle", "wipe", "tomb", "sync"}
                        /\ wire[p].status \in Statuses \cup {None}
                        /\ wire[p].local \in Statuses \cup {None} /\ wire[p].own \in BOOLEAN
                        /\ wire[p].idx \in 0 .. MaxGen /\ wire[p].at \in 0 .. MaxEvents
    /\ sweep.pc \in {"idle", "listed", "viewed", "tomb"} /\ sweep.snap \in TradeInfo \cup {NoRow}
    /\ net \subseteq Message /\ seen \subseteq net /\ now \in 0 .. MaxEvents
    /\ order.status \in Statuses /\ order.gen \in 0 .. MaxGen
    /\ order.public \in Statuses /\ order.at \in 0 .. MaxEvents
    /\ wiped \in 0 .. MaxGen

(* A maker's order is on the book, its row written or its confirmation     *)
(* lost; a taker sees a stranger's pending order.                          *)
Init ==
    /\ is_mine \in Mine /\ unwritten \in {u \in Unwritten : u => is_mine}
    /\ IF is_mine
       THEN /\ row = IF unwritten THEN NoRow ELSE Row("Pending", 1)
            /\ bound = row.idx
            /\ net = {[action |-> "NewOrder", idx |-> 1, ts |-> 1, reply |-> TRUE]}
            /\ order = [status |-> "Pending", gen |-> 1, public |-> "Pending", at |-> 1]
       ELSE /\ row = NoRow /\ bound = 0 /\ net = {}
            /\ order = [status |-> "Pending", gen |-> 0, public |-> "Pending", at |-> 1]
    /\ seen = {} /\ now = 1 /\ tomb = 0 /\ cursor = 0 /\ wiped = 0
    /\ book = "Pending" /\ note = None /\ req = [g \in Gens |-> "no"]
    /\ disp = Free /\ wire = [p \in Paths |-> IF p = "book" THEN Watching(1) ELSE Unsubscribed]
    /\ sweep = Asleep /\ restarts = 0 /\ sweeps = 0

-----------------------------------------------------------------------------
(* What may be written.                                                    *)

is_hard_terminal(s) == s \in HardTerminal

(* Mutant: only a pending trade is wiped. *)
wipes_pending_only(s) == s = "Pending"

cancellation_wipes_history(s) == s \in Waiting \cup {"Pending"}

admin_verdict_refines(s, a) ==
    \/ s = "Canceled" /\ a = "AdminCanceled"
    \/ s = "Success" /\ a = "AdminSettled"

(* Mutant: the public status always applies. *)
wire_always_applies(s, public) == TRUE

wire_status_applies(s, public) ==
    s \in {None, "Pending"} \/ is_hard_terminal(public) \/ public = "SettledHoldInvoice"

(* The row wins over the book entry. *)
local_trade_status == IF row # NoRow THEN row.status ELSE book

(* Mutant: a finished trade blocks nothing. *)
never_terminal(a) == FALSE

status_sync_blocked_by_terminal(a) ==
    is_hard_terminal(local_trade_status) /\ ~admin_verdict_refines(local_trade_status, a)

(* Mutant: the cursor is not consulted. *)
blocked_by_terminal_only(m) == status_sync_blocked_by_terminal(m.action)

(* Mutant: nothing blocks a write. *)
never_blocked(m) == FALSE

status_write_blocked(m) == status_sync_blocked_by_terminal(m.action) \/ m.ts < cursor

(* Mutant: the mark is set past the message. *)
record_past(m) == cursor' = IF cursor >= m.ts THEN cursor ELSE m.ts + 1

record_status_event(m) == cursor' = IF cursor >= m.ts THEN cursor ELSE m.ts

(* Mutant: the tombstone covers the keys before its own. *)
covers_older(idx) == tomb # 0 /\ idx < tomb

tombstone_covers(idx) == tomb # 0 /\ idx <= tomb

(* Mutant: any tombstone mutes the order, a later take's messages too. *)
any_tombstone_wipes(idx) == IF row # NoRow THEN "Exists"
                            ELSE IF tomb # 0 THEN "Wiped" ELSE "NeverWritten"

trade_row_state(idx) == IF row # NoRow THEN "Exists"
                        ELSE IF tombstone_covers(idx) THEN "Wiped" ELSE "NeverWritten"

(* sync_trade_fields_if_changed: a missing row matches nothing. *)
WriteStatus(s) == row' = IF row = NoRow THEN NoRow ELSE [row EXCEPT !.status = s]

(* update_order_status: no-op when the order is not in the book. *)
BookStatus(s) == book' = IF book = None THEN None ELSE s

(* Mutant: the entry of a lost take is always dropped. *)
DropEntry == note' = None /\ book' = IF is_mine THEN book ELSE None

(* settle_after_lost_take, or forget_wire_order for a maker's own order. *)
HandBack ==
    /\ note' = None
    /\ book' = IF is_mine THEN book
               ELSE IF note = "Pending" \/ (note = None /\ book = "Pending") THEN "Pending"
               ELSE None

LeaveTombstone(idx) == tomb' = idx /\ wiped' = IF idx > wiped THEN idx ELSE wiped

-----------------------------------------------------------------------------
(* Who may start.                                                          *)

Quiet == /\ disp.pc = "idle" /\ sweep.pc = "idle"
         /\ \A p \in Paths : wire[p].pc \in {"off", "idle"}
MayStart == Interleaved \/ Quiet

-----------------------------------------------------------------------------
(* The user takes the order.                                               *)

(* take_order_once: a fresh trade key, a pending record, the request out. *)
take_order(g) ==
    /\ ~is_mine /\ book = "Pending" /\ disp.pc # "take" /\ req[g] = "no" /\ g > order.gen /\ g > bound
    /\ \A h \in Gens : req[h] # "waiting" /\ (h < g => req[h] # "no" \/ h <= order.gen)
    /\ req' = [req EXCEPT ![g] = "waiting"]
    /\ UNCHANGED <<local, disp, wire, sweep, seen, daemon, counts, wiped>>

(* Ten seconds without an answer: the record stays, without its waiter. *)
take_timeout(g) ==
    /\ req[g] = "waiting"
    /\ req' = [req EXCEPT ![g] = "detached"]
    /\ UNCHANGED <<local, disp, wire, sweep, seen, daemon, counts, wiped>>

-----------------------------------------------------------------------------
(* dispatch_mostro_message.                                                *)

(* Mutant: no message is of a superseded take. *)
never_superseded(m) == FALSE

superseded(m) == m.idx < bound

(* Under the lock: the generation gate, the interception of a take's       *)
(* reply, then the row is classified once.                                 *)
dispatch(m) ==
    /\ disp.pc = "idle" /\ MayStart /\ m \in net \ seen
    /\ seen' = seen \cup {m}
    /\ \/ superseded(m) /\ UNCHANGED <<req, disp>>
       \/ /\ ~superseded(m) /\ m.reply /\ req[m.idx] \in {"waiting", "detached"}
          /\ req' = [req EXCEPT ![m.idx] = "done"]
          /\ disp' = IF req[m.idx] = "waiting" THEN [Free EXCEPT !.pc = "take", !.msg = m] ELSE Free
       \/ /\ ~superseded(m) /\ ~(m.reply /\ req[m.idx] \in {"waiting", "detached"})
          /\ disp' = [pc |-> "check", msg |-> m, snap |-> row, kind |-> trade_row_state(m.idx)]
          /\ UNCHANGED req
    /\ UNCHANGED <<local, wire, sweep, daemon, counts, wiped>>

(* persist_confirmed_take, under the guard handed over with the reply, and *)
(* subscribe_single_order.                                                 *)
persist_confirmed_take ==
    /\ disp.pc = "take"
    /\ LET status == status_for_action[disp.msg.action] IN
       /\ row' = Row(status, disp.msg.idx) /\ BookStatus(status)
    /\ bound' = disp.msg.idx /\ tomb' = 0 /\ disp' = Free
    /\ wire' = [p \in Paths |-> IF p = "book" THEN wire[p]
                                ELSE IF wire[p].pc = "off" THEN Watching(0)
                                ELSE [wire[p] EXCEPT !.at = 0]]
    /\ UNCHANGED <<cursor, note, req, sweep, seen, daemon, counts, wiped>>

(* Mutant: the tombstone is not read. *)
adopts_wiped(m) == m.reply /\ row = NoRow /\ ~status_write_blocked(m)

(* adopt_range_remainder: the ack of a create that was never recorded. *)
adopts(m) == m.reply /\ row = NoRow /\ ~tombstone_covers(m.idx) /\ ~status_write_blocked(m)

(* resync_republished_maker_order: the taker walked away. *)
republished(m) ==
    /\ disp.kind # "Wiped" /\ local_trade_status \in Waiting \cup {"InProgress"}
    /\ ~status_write_blocked(m)

(* persist_trade_row: a new row lifts the tombstone; the key is bound. *)
Recreate(status, idx) == row' = Row(status, idx) /\ bound' = idx /\ tomb' = 0

check_new_order ==
    /\ disp.pc = "check" /\ disp.msg.action = "NewOrder"
    /\ \/ /\ adopts(disp.msg) /\ Recreate("Pending", disp.msg.idx)
          /\ disp' = Free /\ UNCHANGED cursor
       \/ /\ ~adopts(disp.msg) /\ republished(disp.msg)
          /\ record_status_event(disp.msg) /\ disp' = [disp EXCEPT !.pc = "write", !.snap = NoRow]
          /\ UNCHANGED <<row, bound, tomb>>
       \/ /\ ~adopts(disp.msg) /\ ~republished(disp.msg)
          /\ disp' = Free /\ UNCHANGED <<row, bound, tomb, cursor>>
    /\ UNCHANGED <<book, note, req, wire, sweep, seen, daemon, counts, wiped>>

(* The gate of every status arm: a wiped row, a finished trade and an      *)
(* older message drop the message whole.                                   *)
dropped == disp.kind = "Wiped" \/ status_write_blocked(disp.msg)

check_dropped ==
    /\ disp.pc = "check" /\ disp.msg.action # "NewOrder" /\ dropped
    /\ disp' = Free
    /\ UNCHANGED <<local, req, wire, sweep, seen, daemon, counts, wiped>>

check_canceled ==
    /\ disp.pc = "check" /\ disp.msg.action = "Canceled" /\ ~dropped
    /\ record_status_event(disp.msg)
    /\ disp' = IF disp.kind = "NeverWritten" THEN Free
               ELSE [disp EXCEPT !.pc = IF cancellation_wipes_history(disp.snap.status)
                                        THEN "wipe" ELSE "write"]
    /\ UNCHANGED <<row, tomb, bound, book, note, req, wire, sweep, seen, daemon, counts, wiped>>

(* rebuild_trade_from_dm, then the arm of a status action. *)
check_status ==
    /\ disp.pc = "check" /\ disp.msg.action \in DOMAIN status_for_action /\ ~dropped
    /\ record_status_event(disp.msg)
    /\ LET m == disp.msg
           rebuilt == Row(status_for_action[m.action], m.idx) IN
       IF disp.kind = "NeverWritten" /\ carries_order(m.action)
       THEN /\ Recreate(rebuilt.status, m.idx)
            /\ disp' = [disp EXCEPT !.pc = "write", !.kind = "Exists", !.snap = rebuilt]
       ELSE disp' = [disp EXCEPT !.pc = "write"] /\ UNCHANGED <<row, bound, tomb>>
    /\ UNCHANGED <<book, note, req, wire, sweep, seen, daemon, counts, wiped>>

(* The status an arm writes. *)
Written(a) == IF a = "NewOrder" THEN "Pending"
              ELSE IF a = "Canceled" THEN "Canceled" ELSE status_for_action[a]

(* The write is skipped when the row as classified already says it. *)
write_status ==
    /\ disp.pc = "write"
    /\ LET s == Written(disp.msg.action) IN
       /\ IF disp.snap.status = s THEN UNCHANGED row ELSE WriteStatus(s)
       /\ IF disp.msg.action = "Canceled" THEN UNCHANGED book ELSE BookStatus(s)
       /\ note' = IF is_hard_terminal(s) THEN None ELSE note
    /\ disp' = Free
    /\ UNCHANGED <<tomb, cursor, bound, req, wire, sweep, seen, daemon, counts, wiped>>

(* wipe_never_active_trade: the row goes, then the tombstone is left and   *)
(* the order handed back to the public book.                               *)
wipe_row ==
    /\ disp.pc = "wipe"
    /\ row' = NoRow /\ disp' = [disp EXCEPT !.pc = "tomb"]
    /\ UNCHANGED <<tomb, cursor, bound, book, note, req, wire, sweep, seen, daemon, counts, wiped>>

leave_tombstone ==
    /\ disp.pc = "tomb"
    /\ LeaveTombstone(disp.snap.idx) /\ HandBack /\ disp' = Free
    /\ UNCHANGED <<row, cursor, bound, req, wire, sweep, seen, daemon, counts>>

-----------------------------------------------------------------------------
(* The public feeds, without the lock.                                     *)

(* A new public event: noted, then wipe_on_public_cancel reads the row;    *)
(* otherwise the local status is read for wire_status_applies.  The book   *)
(* feed has read by then whether the order is the client's own (is_mine).  *)
read_public(p) ==
    /\ wire[p].pc = "idle" /\ MayStart /\ wire[p].at < order.at
    /\ note' = IF p = "dtag" \/ note # None THEN order.public ELSE None
    /\ LET wipes == order.public = "Canceled" /\ cancellation_wipes_history(row.status) IN
       wire' = [wire EXCEPT ![p] =
           [pc |-> IF wipes THEN "wipe" ELSE "sync", status |-> order.public,
            local |-> local_trade_status, idx |-> row.idx,
            own |-> is_mine /\ bound # 0 /\ row # NoRow, at |-> order.at]]
    /\ UNCHANGED <<row, tomb, cursor, bound, book, req, disp, sweep, seen, daemon, counts, wiped>>

public_wipe(p) ==
    /\ wire[p].pc = "wipe"
    /\ row' = NoRow /\ wire' = [wire EXCEPT ![p].pc = "tomb"]
    /\ UNCHANGED <<tomb, cursor, bound, book, note, req, disp, sweep, seen, daemon, counts, wiped>>

(* The d-tag task stops there; the book feed then stores what it parsed. *)
public_tombstone(p) ==
    /\ wire[p].pc = "tomb"
    /\ LeaveTombstone(wire[p].idx)
    /\ IF p = "dtag" THEN HandBack ELSE book' = wire[p].status /\ note' = None
    /\ wire' = [wire EXCEPT ![p] = Watching(wire[p].at)]
    /\ UNCHANGED <<row, cursor, bound, req, disp, sweep, seen, daemon, counts>>

(* The row is written by the d-tag task, and by the book feed for a        *)
(* maker's own order; the book feed leaves a pending order as it is.       *)
public_sync(p) ==
    /\ wire[p].pc = "sync"
    /\ LET s       == wire[p].status
           applies == wire_status_applies(wire[p].local, s)
           syncs   == p = "dtag" \/ (wire[p].own /\ s # "Pending")
           shown   == IF applies \/ (p = "book" /\ s = "Pending") THEN s ELSE wire[p].local IN
       /\ IF applies /\ syncs THEN WriteStatus(s) ELSE UNCHANGED row
       /\ book' = IF p = "book" /\ bound = 0 /\ is_hard_terminal(shown) THEN None ELSE shown
       /\ note' = IF is_hard_terminal(s) THEN None ELSE note
    /\ wire' = [wire EXCEPT ![p] = Watching(wire[p].at)]
    /\ UNCHANGED <<tomb, cursor, bound, req, disp, sweep, seen, daemon, counts, wiped>>

(* The d-tag task ends: half an hour without an event, or its trade over   *)
(* (claim_finished_trade_release).  The relays hand the order's latest     *)
(* event to a new subscription at once.                                    *)
d_tag_task_ends ==
    /\ "dtag" \in Paths /\ wire["dtag"].pc = "idle" /\ wire["dtag"].at # 0
    /\ wire' = [wire EXCEPT !["dtag"] = Unsubscribed]
    /\ UNCHANGED <<local, req, disp, sweep, seen, daemon, counts, wiped>>

-----------------------------------------------------------------------------
(* The stale sweep and the payout check.                                   *)

(* Its waiting window elapsed. *)
age ==
    /\ MaxSweeps > 0 /\ row.status \in Waiting /\ ~row.aged
    /\ row' = [row EXCEPT !.aged = TRUE]
    /\ UNCHANGED <<tomb, cursor, bound, book, note, req, disp, wire, sweep, seen, daemon, counts, wiped>>

sweep_list ==
    /\ sweep.pc = "idle" /\ MayStart /\ sweeps < MaxSweeps /\ sweeps' = sweeps + 1
    /\ (row.status \in Waiting /\ row.aged) \/ row.status = "SettledHoldInvoice"
    /\ sweep' = [pc |-> "listed", snap |-> row, view |-> None]
    /\ UNCHANGED <<local, req, disp, wire, seen, daemon, restarts, roles, wiped>>

(* The book first; on a miss the relays, which may not answer. *)
sweep_view ==
    /\ sweep.pc = "listed"
    /\ \E v \in IF book # None THEN {book} ELSE {order.public, None} :
         sweep' = [sweep EXCEPT !.pc = "viewed", !.view = v]
    /\ UNCHANGED <<local, req, disp, wire, seen, daemon, counts, wiped>>

sweep_action(s, view) ==
    IF s = "SettledHoldInvoice" THEN IF view = "Success" THEN "SyncSuccess" ELSE "Keep"
    ELSE IF view = "Pending" THEN IF is_mine THEN "SyncPending" ELSE "Wipe"
    ELSE IF view \in {"Canceled", "CanceledByAdmin"} THEN "Wipe" ELSE "Keep"

sweep_keep ==
    /\ sweep.pc = "viewed" /\ sweep_action(sweep.snap.status, sweep.view) = "Keep"
    /\ sweep' = Asleep
    /\ UNCHANGED <<local, req, disp, wire, seen, daemon, counts, wiped>>

sweep_wipe ==
    /\ sweep.pc = "viewed" /\ sweep_action(sweep.snap.status, sweep.view) = "Wipe"
    /\ row' = NoRow /\ sweep' = [sweep EXCEPT !.pc = "tomb"]
    /\ UNCHANGED <<tomb, cursor, bound, book, note, req, disp, wire, seen, daemon, counts, wiped>>

sweep_tombstone ==
    /\ sweep.pc = "tomb"
    /\ LeaveTombstone(sweep.snap.idx) /\ HandBack /\ sweep' = Asleep
    /\ UNCHANGED <<row, cursor, bound, req, disp, wire, seen, daemon, counts>>

sweep_pending ==
    /\ sweep.pc = "viewed" /\ sweep_action(sweep.snap.status, sweep.view) = "SyncPending"
    /\ WriteStatus("Pending") /\ sweep' = Asleep
    /\ UNCHANGED <<tomb, cursor, bound, book, note, req, disp, wire, seen, daemon, counts, wiped>>

(* apply_payout_completed: re-checked under the lock. *)
PayoutCompleted ==
    /\ disp.pc = "idle"
    /\ IF local_trade_status = "SettledHoldInvoice"
       THEN WriteStatus("Success") /\ BookStatus("Success") ELSE UNCHANGED <<row, book>>

sweep_success ==
    /\ sweep.pc = "viewed" /\ sweep_action(sweep.snap.status, sweep.view) = "SyncSuccess"
    /\ PayoutCompleted /\ sweep' = Asleep
    /\ UNCHANGED <<tomb, cursor, bound, note, req, disp, wire, seen, daemon, counts, wiped>>

confirm_payout_completion ==
    /\ local_trade_status = "SettledHoldInvoice" /\ order.public = "Success"
    /\ PayoutCompleted
    /\ UNCHANGED <<tomb, cursor, bound, note, req, disp, wire, sweep, seen, daemon, counts, wiped>>

-----------------------------------------------------------------------------
(* The daemon (external).                                                  *)

Client == <<local, req, disp, wire, sweep, seen, counts, wiped>>

Sends(action, idx, reply) ==
    net' = net \cup {[action |-> action, idx |-> idx, ts |-> now + 1, reply |-> reply]}

Moves(status, gen, public) ==
    /\ now < MaxEvents /\ now' = now + 1
    /\ order' = IF public = order.public
                THEN [order EXCEPT !.status = status, !.gen = gen]
                ELSE [status |-> status, gen |-> gen, public |-> public, at |-> now + 1]

(* A take waits ten seconds: until it is over the taker sends nothing the  *)
(* order could move on with, and the daemon's window is minutes long.      *)
TakeOpen == disp.pc = "take" \/ \E g \in Gens : req[g] = "waiting"

accept_take(g) ==
    /\ order.status = "Pending" /\ ~is_mine /\ req[g] # "no" /\ g > order.gen
    /\ Moves("WaitingBuyerInvoice", g, "InProgress") /\ Sends("AddInvoice", g, TRUE)
    /\ UNCHANGED Client

taken_by_other ==
    /\ order.status = "Pending" /\ is_mine
    /\ Moves("WaitingBuyerInvoice", 1, "InProgress") /\ Sends("AddInvoice", 1, FALSE)
    /\ UNCHANGED Client

(* From which statuses an action moves the order on. *)
Flow == [WaitingSellerToPay |-> {"WaitingBuyerInvoice"},
         HoldInvoicePaymentAccepted |-> {"WaitingPayment"},
         FiatSentOk |-> {"Active"}, Released |-> {"Active", "FiatSent"},
         DisputeInitiatedByPeer |-> {"Active", "FiatSent"},
         PurchaseCompleted |-> {"SettledHoldInvoice"},
         CooperativeCancelAccepted |-> {"Active", "FiatSent"},
         AdminSettled |-> {"Dispute"}, AdminCanceled |-> {"Dispute"}]

Published(a) == IF a \in {"PurchaseCompleted", "AdminSettled"} THEN "Success"
                ELSE IF a \in {"CooperativeCancelAccepted", "AdminCanceled"} THEN "Canceled"
                ELSE order.public

progress(a) ==
    /\ order.status \in Flow[a] /\ ~TakeOpen
    /\ Moves(status_for_action[a], order.gen, Published(a)) /\ Sends(a, order.gen, FALSE)
    /\ UNCHANGED Client

(* The seller hears of the payout from the public event alone. *)
pay_out ==
    /\ order.status = "SettledHoldInvoice"
    /\ Moves("Success", order.gen, "Success") /\ UNCHANGED net
    /\ UNCHANGED Client

(* A take that lapses puts the order back on the book. *)
lapse ==
    /\ order.status \in Waiting /\ ~TakeOpen
    /\ Moves("Pending", order.gen, "Pending")
    /\ IF is_mine THEN Sends("NewOrder", 1, FALSE) ELSE Sends("Canceled", order.gen, FALSE)
    /\ UNCHANGED Client

(* The maker cancels; whoever has a trade on the order is told. *)
cancel ==
    /\ order.status \in Waiting \cup {"Pending"}
    /\ Moves("Canceled", order.gen, "Canceled")
    /\ IF is_mine \/ order.status # "Pending" THEN Sends("Canceled", order.gen, FALSE) ELSE UNCHANGED net
    /\ UNCHANGED Client

(* A pending order that expires is only published as canceled. *)
expire ==
    /\ order.status = "Pending" /\ is_mine
    /\ Moves("Canceled", order.gen, "Canceled") /\ UNCHANGED net
    /\ UNCHANGED Client

(* Only the row, the tombstone, the cursor and the key binding are stored. *)
restart ==
    /\ restarts < MaxRestarts /\ restarts' = restarts + 1
    /\ book' = None /\ note' = None /\ req' = [g \in Gens |-> IF req[g] = "no" THEN "no" ELSE "gone"]
    /\ disp' = Free /\ sweep' = Asleep /\ seen' = {}
    /\ wire' = [p \in Paths |-> IF p = "book" THEN Watching(0) ELSE Unsubscribed]
    /\ UNCHANGED <<row, tomb, cursor, bound, daemon, sweeps, roles, wiped>>

Next == \/ \E g \in Gens : take_order(g) \/ take_timeout(g) \/ accept_take(g)
        \/ \E m \in net : dispatch(m)
        \/ persist_confirmed_take \/ check_new_order \/ check_dropped \/ check_canceled
        \/ check_status \/ write_status \/ wipe_row \/ leave_tombstone
        \/ \E p \in Paths : read_public(p) \/ public_wipe(p) \/ public_tombstone(p) \/ public_sync(p)
        \/ d_tag_task_ends
        \/ age \/ sweep_list \/ sweep_view \/ sweep_keep \/ sweep_wipe \/ sweep_tombstone
        \/ sweep_pending \/ sweep_success \/ confirm_payout_completion
        \/ taken_by_other \/ pay_out \/ lapse \/ cancel \/ expire
        \/ \E a \in DOMAIN Flow : progress(a)
        \/ restart

Spec == Init /\ [][Next]_vars

-----------------------------------------------------------------------------
(* Everything sent in this session was handled, nobody is at work and the  *)
(* stale sweep and the payout check have nothing left to do.               *)
Settled ==
    /\ net = seen /\ Quiet
    /\ \A p \in Paths : wire[p].pc = "off" \/ wire[p].at = order.at
    /\ \A g \in Gens : req[g] # "waiting"
    /\ ~(row.status = "SettledHoldInvoice" /\ order.public = "Success")
    /\ ~(row.status \in Waiting /\ order.public \in {"Pending", "Canceled"})

(* A cooperative cancel the public book reported first stays a plain one, *)
(* and so does an admin's verdict the public book reported last.          *)
Agree(s, t) == \/ s = t
               \/ s = "Canceled" /\ t \in {"CooperativelyCanceled", "CanceledByAdmin"}
               \/ s = "Success" /\ t = "SettledByAdmin"

(* Whatever the order in which the relays hand the messages over, and      *)
(* however often after restarts, the row ends where the daemon's newest    *)
(* message left the trade (status cursor, terminal gate, rebuild).  A      *)
(* create whose confirmation was lost may have been canceled unseen.       *)
RowTruthful == Settled /\ ~unwritten /\ row # NoRow /\ row.idx = order.gen => Agree(row.status, order.status)

(* A trade that ended before it went active leaves no row behind, whether  *)
(* the message or the public event reports the end, or both do             *)
(* (wipe_never_active_trade, wipe_on_public_cancel).  A maker's row that   *)
(* the book moved to the ambiguous in-progress is kept, as canceled.  Only *)
(* a row that was there when the end was published is wiped by it.         *)
NeverActiveGone ==
    Settled /\ ~unwritten /\ (order.status = "Canceled" \/ (order.status = "Pending" /\ ~is_mine))
      => row = NoRow \/ (is_mine /\ row.status = "Canceled")

(* A row wiped on purpose is not brought back by its own history; only a   *)
(* later take of the order makes a new one (tombstone_covers).             *)
WipedStaysWiped == Settled /\ row # NoRow => row.idx > wiped

(* "Statuses no daemon message may leave: mostrod never reopens a canceled *)
(* or completed trade" (is_hard_terminal).  The code does not keep this    *)
(* when a public feed, which holds no lock, writes between the gate and    *)
(* the write of a handler, or a handler between the feed's read and write. *)
FinishedStaysFinished ==
    [][is_hard_terminal(row.status) /\ row'.idx = row.idx => is_hard_terminal(row'.status)]_vars

(* The row of a confirmed take is not removed or rewritten on behalf of an *)
(* earlier take of the order: the generation gate is read under the lock   *)
(* the take holds while it persists (#259).                                *)
RetakeKept ==
    [][row # NoRow /\ row' # row /\ disp.pc \in {"wipe", "write"} => disp.msg.idx >= row.idx]_vars

(* Once a take is lost, its order is shown as the public book has it: the  *)
(* ex-taker sees a republished order again (settle_after_lost_take).  The  *)
(* public view is noted by the session that took the order.                *)
ExTakerSeesOrder ==
    Settled /\ restarts = 0 /\ ~is_mine /\ "book" \in Paths /\ order.status = "Pending" /\ row = NoRow
      /\ wiped = order.gen /\ wiped # 0
      => book = "Pending"

(* The daemon's newest message on the key of the live trade. *)
Newest(m) == m.idx = order.gen /\ \A n \in net : n.idx = order.gen => n.ts <= m.ts

(* A take or a create whose confirmation was lost has its row after the    *)
(* replay, if the newest message of the trade proves it                    *)
(* (rebuild_trade_from_dm, adopt_range_remainder) and no wipe came since.  *)
RecoveredFromProof ==
    /\ Settled /\ order.gen > wiped /\ order.status # "Canceled"
    /\ (unwritten \/ req[order.gen] = "gone")
    /\ \E m \in net : Newest(m) /\ (carries_order(m.action) \/ (is_mine /\ m.reply))
    => row # NoRow

(* The replay of a live trade's messages recovers its row, in whatever     *)
(* order the relays hand them over: some message of it proves the trade.   *)
NeverWrittenRecovered ==
    /\ Settled /\ order.gen # 0 /\ req[order.gen] = "gone" /\ order.status \notin {"Pending", "Canceled"}
    /\ \E m \in net : m.idx = order.gen /\ carries_order(m.action)
    => row # NoRow

(* The admin's verdict stays in the row once its message arrived: the      *)
(* cause of a slashed bond and the dispute's history are read from it.     *)
AdminVerdictKept ==
    [][row.status \in {"CanceledByAdmin", "SettledByAdmin"} => row'.status = row.status]_vars

(* The stale sweep does not remove a row it did not judge. *)
SweepRemovesWhatItJudged ==
    [][sweep.pc = "viewed" /\ sweep'.pc = "tomb" => row.idx \in {0, sweep.snap.idx}]_vars
=============================================================================
