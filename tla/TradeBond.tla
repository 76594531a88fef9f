------------------------------ MODULE TradeBond ------------------------------
(* The anti-abuse bond of one order (src/rust/src/api/orders.rs): the deposit  *)
(* a node asks of a taker or of a maker before the trade goes on.  The daemon  *)
(* never says that a bond locked; the client infers it from the first message  *)
(* of the trade flow, ends an unpaid window by its own clock, and learns of a  *)
(* slash from a notice that may trail everything else.  Every handler runs     *)
(* under the order's guard, but the bond and the status are two writes.        *)
EXTENDS Naturals, FiniteSets, FiniteSetsExt

CONSTANTS MaxTakes,      \* bound on the takes of the order, each with its own key
          Window,        \* how long a bond invoice can be paid, in ticks
          MaxTime,       \* bound on the clock
          MaxSends,      \* bound on the bond invoices sent for one take
          MaxStops       \* bound on crashes and reinstalls

ASSUME BondAssumption == MaxTakes \in Nat \ {0} /\ Window \in Nat /\ MaxTime \in Nat \ {0}
                         /\ MaxSends \in Nat /\ MaxStops \in Nat

VARIABLES row,           \* the trade row, or NoRow
          bound, tomb,   \* the key bound to the order; the key whose row was wiped
          cursor,        \* the newest status event applied to the order
          noted,         \* user_cancels holds the order
          disp,          \* a handler between its two writes
          deal,          \* daemon: each take's progress
          slashed,       \* daemon: the takes whose bond it slashed
          invoice,       \* daemon: the bond invoice of the open take, by issue time
          msgs,          \* everything the daemon sent; the relays replay any of it
          book,          \* the order's public status in the local book
          now, stops,
          canceled,      \* history: the takes the user cancelled
          expired        \* history: takes whose window was closed locally

vars == <<row, bound, tomb, cursor, noted, disp, deal, slashed, invoice, msgs, book,
          now, stops, canceled, expired>>

(* ---- State ----------------------------------------------------------------- *)

Keys == 1 .. MaxTakes
Time == 0 .. MaxTime

NoRow == [key |-> 0, mine |-> FALSE, status |-> "none", bond |-> "none", inv |-> 0, asked |-> 0]
Row == [key : Keys, mine : BOOLEAN,
        status : {"bond", "pending", "waiting", "active", "success", "canceled"},
        bond : {"requested", "locked", "released", "slashed"},
        inv : Time,            \* the bolt11 held, 0 when a restore brought none
        asked : Time]          \* requested_at

Messages == [what : {"pay-bond", "new-order", "waiting", "active", "success", "canceled",
                     "slashed"},
             key : Keys, ts : Time, inv : Time]

Idle == [what |-> "idle", key |-> 1, ts |-> 0, inv |-> 0]

\* A trade that is over without its bond in any doubt.
Finished == {"success", "canceled"}
WasLocked(k) == deal[k] \in {"locked", "active", "success", "canceled"}

TypeOK ==
  /\ row \in Row \union {NoRow}
  /\ bound \in 0 .. MaxTakes /\ tomb \in 0 .. MaxTakes /\ cursor \in Time
  /\ noted \in BOOLEAN /\ disp \in Messages \union {Idle}
  /\ deal \in [Keys -> {"none", "asked", "over", "locked", "active", "success", "canceled"}]
  /\ slashed \subseteq Keys /\ invoice \in Time /\ msgs \subseteq Messages
  /\ book \in {"none", "pending", "in-progress", "canceled"}
  /\ now \in 1 .. MaxTime /\ stops \in 0 .. MaxStops
  /\ canceled \subseteq Keys /\ expired \subseteq Keys
  \* A wiped order has no row, and a row is of the key bound last.
  /\ row # NoRow => tomb = 0 /\ row.key = bound

\* The order is someone else's, or the user is about to publish it.
Init ==
  /\ row = NoRow /\ bound = 0 /\ tomb = 0 /\ cursor = 0 /\ noted = FALSE /\ disp = Idle
  /\ deal = [k \in Keys |-> "none"] /\ slashed = {} /\ invoice = 0 /\ msgs = {}
  /\ book \in {"pending", "none"}
  /\ now = 1 /\ stops = 0
  /\ canceled = {} /\ expired = {}

daemonVars == <<deal, slashed, invoice, msgs, book>>
history == <<canceled, expired>>

say(what, k, inv) == [what |-> what, key |-> k, ts |-> now, inv |-> inv]

(* ---- Entering a bond window ------------------------------------------------- *)

bond_requested(k, mine, inv) ==
  [key |-> k, mine |-> mine, status |-> "bond", bond |-> "requested", inv |-> inv, asked |-> now]

enter_over_tombstone(k, mine) ==
  /\ row' = bond_requested(k, mine, now)
  /\ bound' = k /\ UNCHANGED tomb
  /\ deal' = [deal EXCEPT ![k] = "asked"] /\ invoice' = now
  /\ msgs' = msgs \union {say("pay-bond", k, now)}
  /\ UNCHANGED <<cursor, noted, disp, slashed, book, now, stops, history>>

\* A confirmed take, or a create answered with a bond: the row is written with
\* the reply, the key bound, a tombstone lifted.
enter(k, mine) ==
  /\ row' = bond_requested(k, mine, now)
  /\ bound' = k /\ tomb' = 0
  /\ deal' = [deal EXCEPT ![k] = "asked"] /\ invoice' = now
  /\ msgs' = msgs \union {say("pay-bond", k, now)}
  /\ UNCHANGED <<cursor, noted, disp, slashed, book, now, stops, history>>

take_order(k) ==
  /\ row # NoRow => row.status = "canceled"
  /\ disp = Idle /\ book = "pending" /\ k = bound + 1
  /\ bound # 0 => deal[bound] \in {"over", "canceled"}
  /\ enter(k, FALSE)

\* A maker's order has one key, the last: no take follows it.
create_order ==
  /\ bound = 0 /\ row = NoRow /\ book = "none" /\ enter(MaxTakes, TRUE)

\* handle_create_bond_reply and a take's reply are the writes of `enter`;
\* request_bond_invoice_again asks for the same bolt11 and stores the answer.
request_bond_invoice_again ==
  /\ disp = Idle /\ row # NoRow /\ row.status = "bond" /\ ~row.mine /\ row.bond = "requested"
  /\ deal[row.key] = "asked"
  /\ row' = [row EXCEPT !.inv = invoice, !.asked = now]
  /\ UNCHANGED <<bound, tomb, cursor, noted, disp, daemonVars, now, stops, history>>

(* ---- The daemon --------------------------------------------------------------- *)

\* It sends a bond invoice again, a new one when the old can no longer be paid.
SendsAgain(k) ==
  /\ deal[k] = "asked"
  /\ Cardinality({m \in msgs : m.what = "pay-bond" /\ m.key = k}) < MaxSends
  /\ invoice' = (IF now > invoice + Window THEN now ELSE invoice)
  /\ msgs' = msgs \union {say("pay-bond", k, invoice')}
  /\ UNCHANGED <<row, bound, tomb, cursor, noted, disp, deal, slashed, book, now, stops, history>>

\* The user pays the bolt11 on the screen: the bond locks, and the trade goes on.
PaysBond ==
  /\ row # NoRow /\ row.status = "bond" /\ row.inv = invoice /\ deal[row.key] = "asked"
  /\ now <= invoice + Window
  /\ deal' = [deal EXCEPT ![row.key] = "locked"]
  /\ msgs' = msgs \union {say(IF row.mine THEN "new-order" ELSE "waiting", row.key, 0)}
  /\ UNCHANGED <<row, bound, tomb, cursor, noted, disp, slashed, invoice, book, now, stops, history>>

Advances(k) ==
  /\ \/ deal[k] = "locked" /\ deal' = [deal EXCEPT ![k] = "active"]
     \/ deal[k] = "active" /\ deal' = [deal EXCEPT ![k] = "success"]
  /\ msgs' = msgs \union {say(deal'[k], k, 0)}
  /\ UNCHANGED <<row, bound, tomb, cursor, noted, disp, slashed, invoice, book, now, stops, history>>

\* It cancels a trade, and slashes the bond of one that had locked it.
Cancels(k) ==
  /\ deal[k] \in {"asked", "locked", "active"}
  /\ deal' = [deal EXCEPT ![k] = IF deal[k] = "asked" THEN "over" ELSE "canceled"]
  /\ \/ msgs' = msgs \union {say("canceled", k, 0)} /\ UNCHANGED slashed
     \/ /\ deal[k] # "asked" /\ slashed' = slashed \union {k}
        /\ msgs' = msgs \union {say("canceled", k, 0), say("slashed", k, 0)}
  /\ UNCHANGED <<row, bound, tomb, cursor, noted, disp, invoice, book, now, stops, history>>

\* An unpaid bond lapses without a word.
Lapses(k) ==
  /\ deal[k] = "asked" /\ now > invoice + Window
  /\ deal' = [deal EXCEPT ![k] = "over"]
  /\ UNCHANGED <<row, bound, tomb, cursor, noted, disp, slashed, invoice, msgs, book, now, stops,
                 history>>

\* The local book follows the public order, at its own pace; a maker's order is
\* public once its bond is paid, and a cancelled one stays so.
BookChanges ==
  /\ bound # 0 /\ ((row # NoRow /\ row.mine) => WasLocked(row.key))
  /\ book = "none" => row # NoRow /\ row.mine
  /\ book # "canceled" /\ book' \in {"pending", "in-progress", "canceled"} \ {book}
  /\ UNCHANGED <<row, bound, tomb, cursor, noted, disp, deal, slashed, invoice, msgs, now, stops,
                 history>>

Tick ==
  /\ now < MaxTime /\ now' = now + 1
  /\ UNCHANGED <<row, bound, tomb, cursor, noted, disp, daemonVars, stops, history>>

(* ---- The daemon's messages: dispatch_mostro_message --------------------------- *)

superseded_never(m) == FALSE

superseded(m) == m.key < bound

status_write_blocked(m) == row.status \in Finished \/ m.ts < cursor

\* The older of two bond invoices is not put back.
never_stale(r, ts) == FALSE

bond_refresh_is_stale(r, ts) == ts < r.asked

\* The PayBondInvoice arm: a re-sent bolt11 refreshes a taker's row.
PayBondInvoice(m) ==
  /\ m.what = "pay-bond" /\ ~superseded(m)
  /\ row # NoRow /\ row.status = "bond" /\ ~row.mine
  /\ m.inv # row.inv /\ ~bond_refresh_is_stale(row, m.ts)
  /\ row' = [row EXCEPT !.bond = "requested", !.inv = m.inv, !.asked = m.ts]
  /\ UNCHANGED <<bound, tomb, cursor, noted, disp, history>>

\* note_bond_locked: the first message of the flow, on a row in the window.
note_bond_locked == IF row.status = "bond" /\ row.bond = "requested" THEN "locked" ELSE row.bond

release_any == "released"

\* note_bond_released: a trade that ended without a slash notice.
note_bond_released == IF row.bond \in {"requested", "locked"} THEN "released" ELSE row.bond

status_arm_status_first(m) ==
  /\ m.what \in {"waiting", "active", "success"} /\ ~superseded(m)
  /\ row # NoRow /\ ~status_write_blocked(m)
  /\ cursor' = Max({cursor, m.ts})
  /\ row' = [row EXCEPT !.status = m.what]
  /\ disp' = m
  /\ UNCHANGED <<bound, tomb, noted, history>>

\* A status arm: the cursor, then the bond; the status is a second write.
StatusArm(m) ==
  /\ m.what \in {"waiting", "active", "success"} /\ ~superseded(m)
  /\ row # NoRow /\ ~status_write_blocked(m)
  /\ cursor' = Max({cursor, m.ts})
  /\ row' = [row EXCEPT !.bond = IF m.what = "success" THEN note_bond_released
                                 ELSE IF row.mine THEN row.bond ELSE note_bond_locked]
  /\ disp' = m
  /\ UNCHANGED <<bound, tomb, noted, history>>

\* confirm_maker_bond and lock_maker_bond, on this key's own row.
NewOrder(m) ==
  /\ m.what = "new-order" /\ ~superseded(m)
  /\ row # NoRow /\ row.status = "bond" /\ row.mine /\ row.key = m.key
  /\ row' = [row EXCEPT !.bond = IF @ = "requested" THEN "locked" ELSE @]
  /\ disp' = m
  /\ UNCHANGED <<bound, tomb, cursor, noted, history>>

\* The second write of either.
writes_status ==
  /\ disp # Idle
  /\ row' = [row EXCEPT !.status = IF disp.what = "new-order" THEN "pending" ELSE disp.what]
  /\ disp' = Idle
  /\ UNCHANGED <<bound, tomb, cursor, noted, daemonVars, now, stops, history>>

wipe(k) == row' = NoRow /\ tomb' = k

reason_book_first ==
  IF book = "canceled" THEN "MakerCanceled"
  ELSE IF noted THEN "UserCanceled"
  ELSE IF book \in {"pending", "in-progress"} THEN "BondLostRace" ELSE "none"

\* bond_cancel_reason: the client's own cancel, then what the book says.
bond_cancel_reason ==
  IF noted THEN "UserCanceled"
  ELSE IF book = "canceled" THEN "MakerCanceled"
  ELSE IF book \in {"pending", "in-progress"} THEN "BondLostRace" ELSE "none"

\* The Canceled arm: a trade that never went active is wiped; reading the
\* reason of a lost bond window consumes the note.
Canceled(m) ==
  /\ m.what = "canceled" /\ ~superseded(m)
  /\ row # NoRow /\ ~status_write_blocked(m)
  /\ cursor' = Max({cursor, m.ts})
  /\ IF row.status \in {"bond", "pending", "waiting"}
     THEN /\ wipe(row.key) /\ UNCHANGED disp
          /\ noted' = (noted /\ ~(row.status = "bond" /\ ~row.mine))
     ELSE /\ row' = [row EXCEPT !.bond = note_bond_released] /\ disp' = m
          /\ UNCHANGED <<tomb, noted>>
  /\ UNCHANGED <<bound, canceled, expired>>

\* The BondSlashed arm: no generation gate, and whatever row the order has.
BondSlashed(m) ==
  /\ m.what = "slashed" /\ row # NoRow
  /\ row' = [row EXCEPT !.bond = "slashed"]
  /\ UNCHANGED <<bound, tomb, cursor, noted, disp, history>>

dispatch(m) ==
  /\ m \in msgs /\ disp = Idle
  /\ PayBondInvoice(m) \/ StatusArm(m) \/ NewOrder(m) \/ Canceled(m) \/ BondSlashed(m)
  /\ UNCHANGED <<daemonVars, now, stops>>

(* ---- What ends a window here ---------------------------------------------------- *)

\* bond_deadline: a taker's is the bolt11's; a maker's row without one ends with
\* the order; a bond that is not unpaid has none.
bond_expired ==
  /\ row # NoRow /\ row.status = "bond" /\ row.bond = "requested"
  /\ row.inv = 0 => row.mine
  /\ now > Window + (IF row.inv = 0 THEN row.asked ELSE row.inv)

maker_order_is_published == row.mine /\ book \in {"pending", "in-progress"}

close_unpublished_or_not ==
  /\ disp = Idle /\ bond_expired
  /\ wipe(row.key) /\ expired' = expired \union {row.key}
  /\ UNCHANGED <<bound, cursor, noted, disp, daemonVars, now, stops, canceled>>

\* close_expired_bond_trade, of the sweep and of the pay-bond screen.
close_expired_bond_trade ==
  /\ disp = Idle /\ bond_expired
  /\ IF maker_order_is_published
     THEN /\ row' = [row EXCEPT !.bond = "locked"]
          /\ disp' = [Idle EXCEPT !.what = "new-order", !.key = row.key]
          /\ UNCHANGED <<tomb, expired>>
     ELSE wipe(row.key) /\ expired' = expired \union {row.key} /\ UNCHANGED disp
  /\ UNCHANGED <<bound, cursor, noted, daemonVars, now, stops, canceled>>

abandon_maker_bond ==
  /\ disp = Idle /\ row # NoRow /\ row.status = "bond" /\ row.mine
  /\ wipe(row.key)
  /\ UNCHANGED <<bound, cursor, noted, disp, daemonVars, now, stops, history>>

\* cancel_order: in a taker's window the note goes with the published cancel.
\* A cancel outside the window leaves nothing behind here.
cancel_order ==
  /\ disp = Idle /\ row # NoRow /\ row.status = "bond" /\ ~row.mine
  /\ canceled' = canceled \union {row.key} /\ noted' = TRUE
  /\ UNCHANGED <<row, bound, tomb, cursor, disp, daemonVars, now, stops, expired>>

(* ---- Stops ------------------------------------------------------------------------ *)

Crash ==
  /\ stops < MaxStops /\ stops' = stops + 1
  /\ noted' = FALSE /\ disp' = Idle
  /\ UNCHANGED <<row, bound, tomb, cursor, daemonVars, now, history>>

\* A fresh device: persist_restored_bond_rows rebuilds the row of an order the
\* daemon reports parked on a bond, without a bolt11.
Reinstall ==
  /\ stops < MaxStops /\ stops' = stops + 1 /\ bound # 0
  /\ noted' = FALSE /\ disp' = Idle /\ tomb' = 0 /\ cursor' = 0
  /\ row' = IF deal[bound] = "asked"
            THEN [bond_requested(bound, row.mine, 0) EXCEPT !.asked = now] ELSE NoRow
  /\ UNCHANGED <<bound, daemonVars, now, history>>

Next ==
  \/ create_order \/ request_bond_invoice_again \/ PaysBond \/ BookChanges \/ Tick
  \/ writes_status \/ close_expired_bond_trade \/ abandon_maker_bond \/ cancel_order
  \/ Crash \/ Reinstall
  \/ \E k \in Keys : take_order(k) \/ SendsAgain(k) \/ Advances(k) \/ Cancels(k) \/ Lapses(k)
  \/ \E m \in msgs : dispatch(m)

Spec == Init /\ [][Next]_vars

(* ---- Properties -------------------------------------------------------------------- *)

\* A bond the row calls locked is one the daemon locked: no replay, refresh or
\* retake makes the inference true by mistake (note_bond_locked, lock_maker_bond).
LockedIsReal == row # NoRow /\ row.bond = "locked" => WasLocked(row.key)

\* The bond is written before the status, so a stop between the two writes
\* never leaves a finished trade with a bond in doubt, nor a trade that went on
\* with its deposit still asked for.  (A maker's can: note_bond_locked is a
\* taker's, and a status replayed before the new-order leaves it "requested".)
BondFollowsTrade ==
  row # NoRow => /\ row.status \in Finished => row.bond \notin {"requested", "locked"}
                 /\ row.status \in {"waiting", "active"} /\ ~row.mine => row.bond # "requested"

\* The bolt11 a row holds is never replaced by an older one of the same take,
\* in whatever order the relays replay them (bond_refresh_is_stale).
InvoiceOnlyNewer ==
  [][row # NoRow /\ row'.key = row.key /\ row.mine = row'.mine /\ stops' = stops
       => row'.inv >= row.inv]_vars

\* The slash of this very take is the truth: once recorded, nothing that trails
\* it takes it back (note_bond_released, note_bond_locked, PayBondInvoice).
SlashKept ==
  [][row.bond = "slashed" /\ row.key \in slashed /\ row'.key = row.key /\ stops' = stops
       => row'.bond = "slashed"]_vars

\* The local clock never ends the window of a maker's order the public book
\* carries: that bond was paid (maker_order_is_published).
PublishedNotExpired ==
  [][expired' # expired => ~(row.mine /\ book \in {"pending", "in-progress"})]_vars

\* What the generation gate says of the exempted BondSlashed: it never writes
\* order state, and a trailing notice is about the superseded take.  The arm
\* marks the bond of whatever row the order has by then.
SlashOfThisTake == row # NoRow /\ row.bond = "slashed" => row.key \in slashed

\* A user who gave the bond up is told so, not that somebody else won the
\* order, however the book moved meanwhile; only a stop forgets it
\* (user_cancels, bond_cancel_reason).
UserCancelTold ==
  row # NoRow /\ row.status = "bond" /\ row.key \in canceled /\ stops = 0
    => bond_cancel_reason = "UserCanceled"
==============================================================================
