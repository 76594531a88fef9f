--------------------------- MODULE RestoreHistory ---------------------------
(***************************************************************************)
(* The restore of an identity's trades, and what becomes of the history it *)
(* brings back (restore_session and the passes of reconcile_restored_      *)
(* history in api/orders.rs, mostro/restore_history.rs).  The relays       *)
(* replay the messages of every recovered key, and each rebuilds a trade   *)
(* row as if it were current; the daemon's list of what is in progress,    *)
(* and the counter the restore resynced to, tell history from trades.      *)
(*                                                                         *)
(* A row is settled by a pass: the two that follow a restore, and one at   *)
(* the head of every stale sweep, here one at a time.  A pass lists the    *)
(* rows, asks the relays for each order's public status, and only then     *)
(* writes.                                                                 *)
(***************************************************************************)
EXTENDS Integers, FiniteSets, FiniteSetsExt

CONSTANTS Orders,
          MaxIndex,       \* bound on trade keys
          MaxRestores,    \* bound on restores
          MaxFaults       \* bound on failed writes, lost answers and crashes

VARIABLES trade,     \* the daemon's view of each order: its status and our index (0: not ours)
          daemon,    \* the daemon's last_trade_index of this identity
          counter,   \* the client's trade-key counter
          row, tomb, \* each order's trade row, and the index its tombstone covers
          snap,      \* the stored restore snapshot
          restore,   \* the restore in progress
          pass,      \* the history pass: the rows it listed, and the one it asks about
          restores, faults,
          raced,     \* history: orders taken while a restore or a pass was at work ...
          lost,      \* ... live trades whose row a pass settled ...
          settled    \* ... and the rows that passes wiped

vars == <<trade, daemon, counter, row, tomb, snap, restore, pass, restores,
          faults, raced, lost, settled>>
remote == <<trade, daemon>>
history == <<raced, lost, settled>>

Index == 0 .. MaxIndex
Bonded == "WaitingTakerBond"
Live == {"Active", Bonded}          \* what a restore reply lists

NoRow == [status |-> "None", idx |-> 0]
NoSnapshot == [floor |-> 0, live |-> {}]
NoPass == [pc |-> "idle", todo |-> {}, oid |-> "none", idx |-> 0, action |-> "Retry"]
NoRestore == [pc |-> "idle", listed |-> {}, floor |-> 0, oid |-> "none", known |-> FALSE,
              answered |-> FALSE]

Listed == [oid : Orders, idx : Index, status : Live]

TypeOK ==
    /\ trade \in [Orders -> [status : Live \cup {"Success", "Canceled"}, idx : Index]]
    /\ daemon \in Index /\ counter \in Index
    /\ row \in [Orders -> [status : Live \cup {"Success", "None"}, idx : Index]]
    /\ tomb \in [Orders -> Index]
    /\ snap \in [floor : Index, live : SUBSET Orders]
    /\ restore.pc \in {"idle", "sent", "listed", "raise", "record", "bonds", "guard"}
    /\ restore.listed \subseteq Listed /\ restore.floor \in Index
    /\ restore.oid \in Orders \cup {"none"} /\ {restore.known, restore.answered} \subseteq BOOLEAN
    /\ pass.pc \in {"idle", "listed", "settle"}
    /\ pass.todo \subseteq Orders \X Index
    /\ pass.oid \in Orders \cup {"none"} /\ pass.idx \in Index
    /\ pass.action \in {"MarkSuccess", "Wipe", "Retry"}
    /\ restores \in 0..MaxRestores /\ faults \in 0..MaxFaults
    /\ raced \subseteq Orders /\ lost \subseteq Orders
    /\ settled \subseteq Orders \X Index

(* A seed imported on a fresh device, with trades made elsewhere: finished *)
(* ones may hold a higher key than any in progress.                        *)
Init ==
    /\ trade \in [Orders -> [status : Live \cup {"Success", "Canceled"}, idx : 0..2]]
    /\ \A o \in Orders :
         /\ trade[o].idx = 0 => trade[o].status = "Canceled"
         /\ \A x \in Orders \ {o} : trade[o].idx = trade[x].idx => trade[o].idx = 0
    /\ daemon = Max({trade[o].idx : o \in Orders})
    /\ counter = 0 /\ row = [o \in Orders |-> NoRow] /\ tomb = [o \in Orders |-> 0]
    /\ snap = NoSnapshot /\ restore = NoRestore
    /\ pass = NoPass /\ restores = 0 /\ faults = 0
    /\ raced = {} /\ lost = {} /\ settled = {}

-----------------------------------------------------------------------------
(* restore_session.                                                        *)

(* The request goes out from a fresh trade key.                            *)
restore_session ==
    /\ restore.pc = "idle" /\ restores < MaxRestores /\ counter < MaxIndex
    /\ counter' = counter + 1 /\ restores' = restores + 1
    /\ restore' = [NoRestore EXCEPT !.pc = "sent"]
    /\ UNCHANGED <<remote, row, tomb, snap, pass, faults, history>>

(* The reply lists the orders in progress; without one the restore fails.  *)
Restored ==
    /\ restore.pc = "sent"
    /\ \/ /\ restore' = [restore EXCEPT !.pc = "listed",
                         !.listed = {[oid |-> o, idx |-> trade[o].idx, status |-> trade[o].status] :
                                       o \in {x \in Orders : trade[x].status \in Live}}]
          /\ UNCHANGED faults
       \/ faults < MaxFaults /\ faults' = faults + 1 /\ restore' = NoRestore
    /\ UNCHANGED <<remote, counter, row, tomb, snap, pass, restores, history>>

recovered_max_trade_index == Max({0} \cup {r.idx : r \in restore.listed})

(* Mutant: the payload's maximum alone.                                    *)
resync_floor_payload(answer) == recovered_max_trade_index

resync_floor(answer) == Max({answer, recovered_max_trade_index})

(* last_trade_index: the daemon's counter, or none (0) on a refusal, a     *)
(* timeout or an error; with no index at all nothing is resynced.          *)
last_trade_index ==
    /\ restore.pc = "listed"
    /\ \E answer \in {0, daemon} :
         /\ IF answer = daemon THEN UNCHANGED faults
            ELSE faults < MaxFaults /\ faults' = faults + 1
         /\ restore' = [restore EXCEPT !.floor = resync_floor(answer),
                           !.answered = (answer = daemon),
                           !.pc = IF resync_floor(answer) = 0 THEN "bonds" ELSE "raise"]
    /\ UNCHANGED <<remote, counter, row, tomb, snap, pass, restores, history>>

(* A counter that cannot be stored fails the restore.                      *)
ensure_trade_key_index_at_least ==
    /\ restore.pc = "raise"
    /\ \/ /\ counter' = Max({counter, restore.floor})
          /\ restore' = [restore EXCEPT !.pc = "record"] /\ UNCHANGED faults
       \/ /\ faults < MaxFaults /\ faults' = faults + 1 /\ restore' = NoRestore
          /\ UNCHANGED counter
    /\ UNCHANGED <<remote, row, tomb, snap, pass, restores, history>>

(* A snapshot that cannot be stored leaves the one before it, and no pass. *)
record_restore_snapshot ==
    /\ restore.pc = "record"
    /\ restore' = [restore EXCEPT !.pc = "bonds"]
    /\ \/ /\ snap' = [floor |-> restore.floor, live |-> {r.oid : r \in restore.listed}]
          /\ UNCHANGED faults
       \/ faults < MaxFaults /\ faults' = faults + 1 /\ UNCHANGED snap
    /\ UNCHANGED <<remote, counter, row, tomb, pass, restores, history>>

(* persist_restored_bond_rows, one listed order at a time: the taker's     *)
(* side comes from the public order, or there is no row to build.          *)
fetch_side ==
    /\ restore.pc = "bonds"
    /\ \E r \in restore.listed :
         \/ /\ r.status = Bonded
            /\ restore' = [restore EXCEPT !.pc = "guard", !.oid = r.oid,
                                          !.known = row[r.oid] # NoRow]
            /\ UNCHANGED faults
         \/ /\ restore' = [restore EXCEPT !.listed = @ \ {r}]
            /\ IF r.status # Bonded THEN UNCHANGED faults
               ELSE faults < MaxFaults /\ faults' = faults + 1
    /\ UNCHANGED <<remote, counter, row, tomb, snap, pass, restores, history>>

restored_bond_row(rest) ==
    LET r == CHOOSE x \in rest.listed : x.oid = rest.oid
    IN  [status |-> Bonded, idx |-> r.idx]

(* Mutant: the row is looked for before the side is fetched.               *)
persist_bond_row_looked_before ==
    /\ restore.pc = "guard"
    /\ IF restore.known THEN UNCHANGED <<row, tomb>>
       ELSE /\ row' = [row EXCEPT ![restore.oid] = restored_bond_row(restore)]
            /\ tomb' = [tomb EXCEPT ![restore.oid] = 0]
    /\ restore' = [restore EXCEPT !.pc = "bonds", !.oid = "none", !.known = FALSE,
                                  !.listed = {r \in @ : r.oid # restore.oid}]
    /\ UNCHANGED <<remote, counter, snap, pass, restores, faults, history>>

(* Under the order's lock, and only if no message rebuilt the row.         *)
persist_bond_row ==
    /\ restore.pc = "guard"
    /\ IF row[restore.oid] # NoRow THEN UNCHANGED <<row, tomb>>
       ELSE /\ row' = [row EXCEPT ![restore.oid] = restored_bond_row(restore)]
            /\ tomb' = [tomb EXCEPT ![restore.oid] = 0]
    /\ restore' = [restore EXCEPT !.pc = "bonds", !.oid = "none", !.known = FALSE,
                                  !.listed = {r \in @ : r.oid # restore.oid}]
    /\ UNCHANGED <<remote, counter, snap, pass, restores, faults, history>>

restore_done ==
    /\ restore.pc = "bonds" /\ restore.listed = {}
    /\ restore' = NoRestore
    /\ UNCHANGED <<remote, counter, row, tomb, snap, pass, restores, faults, history>>

-----------------------------------------------------------------------------
(* Trades: replayed, made, and moved on by the daemon.                     *)

(* Mutant: a wiped order's messages are no noise.                          *)
never_covered(o, idx) == FALSE

tombstone_covers(o, idx) == tomb[o] # 0 /\ idx <= tomb[o]

(* A replayed or live message of a covered key builds the row, or moves a  *)
(* bonded one; a buyer also hears of its own completion.                   *)
daemon_message(o) ==
    /\ trade[o].idx \in 1..counter /\ ~tombstone_covers(o, trade[o].idx)
    /\ row[o].status \in {"None", Bonded} \/ (row[o].status = "Active" /\ trade[o].status = "Success")
    /\ trade[o].status # Bonded
    /\ \E status \in {"Active"} \cup (IF trade[o].status = "Success" THEN {"Success"} ELSE {}) :
         row' = [row EXCEPT ![o] = [status |-> status, idx |-> trade[o].idx]]
    /\ tomb' = [tomb EXCEPT ![o] = 0]
    /\ UNCHANGED <<remote, counter, snap, restore, pass, restores, faults, history>>

(* A confirmed take of an order back on the book, from a fresh key: the    *)
(* daemon takes an index above its counter and refuses any other.          *)
take_order(o) ==
    /\ trade[o].status = "Canceled" /\ counter < MaxIndex
    /\ counter' = counter + 1
    /\ IF counter + 1 > daemon
       THEN /\ daemon' = counter + 1
            /\ trade' = [trade EXCEPT ![o] = [status |-> "Active", idx |-> counter + 1]]
            /\ row' = [row EXCEPT ![o] = [status |-> "Active", idx |-> counter + 1]]
            /\ tomb' = [tomb EXCEPT ![o] = 0]
            /\ raced' = IF restore.pc \in {"listed", "raise", "record"}
                           \/ pass.oid = o \/ \E e \in pass.todo : e[1] = o
                        THEN raced \cup {o} ELSE raced
       ELSE UNCHANGED <<remote, row, tomb, raced>>
    /\ UNCHANGED <<snap, restore, pass, restores, faults, lost, settled>>

(* The daemon moves an order on; the client may hear of it or not.         *)
DaemonMoves(o) ==
    /\ trade[o].status \in Live
    /\ \E status \in {"Active", "Success", "Canceled"} \ {trade[o].status} :
         trade' = [trade EXCEPT ![o].status = status]
    /\ UNCHANGED <<daemon, counter, row, tomb, snap, restore, pass, restores, faults,
                   history>>

-----------------------------------------------------------------------------
(* reconcile_restored_history.                                             *)

reads_in_progress(status) == status \in Live

(* Mutant: whatever is at or below the floor.                              *)
is_history_by_floor(o, idx) == idx <= snap.floor

is_history(o, idx) == idx <= snap.floor /\ o \notin snap.live

(* Twice after a restore, and at the head of every sweep: at any time.     *)
list_trades ==
    /\ pass = NoPass /\ snap # NoSnapshot
    /\ pass' = [pass EXCEPT !.pc = "listed",
                  !.todo = {<<o, row[o].idx>> : o \in {x \in Orders :
                      reads_in_progress(row[x].status) /\ is_history(x, row[x].idx)}}]
    /\ UNCHANGED <<remote, counter, row, tomb, snap, restore, restores, faults, history>>

history_action(answer) ==
    CASE answer = "none"    -> "Retry"
      [] answer = "Success" -> "MarkSuccess"
      [] OTHER              -> "Wipe"

(* The order's public status, asked of the relays; they may not answer.    *)
public_status ==
    /\ pass.pc = "listed"
    /\ \E e \in pass.todo :
         \E answer \in {trade[e[1]].status, "none"} :
           /\ IF answer = "none" THEN faults < MaxFaults /\ faults' = faults + 1
                                 ELSE UNCHANGED faults
           /\ pass' = [pc |-> "settle", todo |-> pass.todo \ {e}, oid |-> e[1],
                       idx |-> e[2], action |-> history_action(answer)]
    /\ UNCHANGED <<remote, counter, row, tomb, snap, restore, restores, history>>

(* A completed trade keeps its row; any other ending drops it and leaves   *)
(* the tombstone of the row listed.                                        *)
settle ==
    /\ pass.pc = "settle"
    /\ LET o == pass.oid
           live == row[o] # NoRow /\ trade[o].status \in Live /\ row[o].idx = trade[o].idx
       IN  /\ \/ /\ pass.action = "MarkSuccess"
                 /\ row' = IF row[o] = NoRow THEN row ELSE [row EXCEPT ![o].status = "Success"]
                 /\ UNCHANGED <<tomb, settled>>
              \/ /\ pass.action = "Wipe"
                 /\ row' = [row EXCEPT ![o] = NoRow]
                 /\ tomb' = [tomb EXCEPT ![o] = pass.idx]
                 /\ settled' = settled \cup {<<o, pass.idx>>}
              \/ /\ pass.action = "Retry"
                 /\ UNCHANGED <<row, tomb, settled>>
           /\ lost' = IF live /\ pass.action # "Retry" /\ o \notin raced
                      THEN lost \cup {o} ELSE lost
    /\ pass' = [pass EXCEPT !.pc = "listed", !.oid = "none", !.idx = 0,
                            !.action = "Retry"]
    /\ UNCHANGED <<remote, counter, snap, restore, restores, faults, raced>>

pass_done ==
    /\ pass.pc = "listed" /\ pass.todo = {}
    /\ pass' = NoPass
    /\ UNCHANGED <<remote, counter, row, tomb, snap, restore, restores, faults, history>>

(* The app stops: the restore and the passes are gone, the sweep comes     *)
(* back with the next start.                                               *)
Crash ==
    /\ faults < MaxFaults /\ faults' = faults + 1
    /\ restore' = NoRestore /\ pass' = NoPass
    /\ UNCHANGED <<remote, counter, row, tomb, snap, restores, history>>

-----------------------------------------------------------------------------
RestoreStep ==
    \/ restore_session \/ Restored \/ last_trade_index \/ ensure_trade_key_index_at_least
    \/ record_restore_snapshot \/ fetch_side \/ persist_bond_row \/ restore_done

PassStep == list_trades \/ public_status \/ settle \/ pass_done

Next ==
    \/ RestoreStep
    \/ \E o \in Orders : daemon_message(o) \/ take_order(o) \/ DaemonMoves(o)
    \/ PassStep
    \/ Crash

(* The sweep task runs for ever, each query ends, and only so many go      *)
(* unanswered.                                                             *)
Fairness == WF_vars(PassStep)

Spec == Init /\ [][Next]_vars /\ Fairness

-----------------------------------------------------------------------------
(* A trade the daemon counts as in progress never has its row settled as   *)
(* history, whatever the order of replies, raises and passes, unless it    *)
(* was taken between a restore's list and its snapshot, or between a       *)
(* pass's list and its write (restore_history.rs: is_history).             *)
LiveRowKept == lost = {}

(* A row a pass wiped is never rebuilt by the next replay of its messages  *)
(* (wipe_trade_row's tombstone).                                           *)
WipedNotRebuilt == \A e \in settled : row[e[1]].status \in Live => row[e[1]].idx # e[2]

(* After a restore that heard the daemon's counter, every key the daemon   *)
(* has seen is behind the client: the next take is not refused, and reuses *)
(* no key of a trade the restore's list leaves out (#328).                 *)
FloorReached ==
    restore.answered /\ restore.pc \in {"record", "bonds", "guard"} => counter >= daemon

(* A row the daemon's messages rebuilt is never put back to waiting for    *)
(* its bond by the restore that listed it so (persist_restored_bond_rows). *)
BondNotWrittenOver ==
    [][\A o \in Orders : row[o].status \in {"Active", "Success"} => row'[o].status # Bonded]_vars

(* A row that is history is settled in the end: completed, wiped, or no    *)
(* longer history for a later snapshot (the sweep takes a pass each time). *)
HistorySettled ==
    \A o \in Orders :
        [](row[o].status \in Live /\ is_history(o, row[o].idx) =>
             <>~(row[o].status \in Live /\ is_history(o, row[o].idx)))
=============================================================================
