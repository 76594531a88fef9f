------------------------------ MODULE Disputes ------------------------------
(***************************************************************************)
(* The dispute of one trade (api/disputes.rs): the record in memory, the   *)
(* two keys kept in settings, the dispute-chat listener, and what moves    *)
(* them: open_dispute, the daemon's admin-took-dispute with its replays,   *)
(* the late acceptance, the verdict, and rehydration after a restart.      *)
(*                                                                         *)
(* Handlers of daemon messages of one order run one at a time, under the   *)
(* order lock; open_dispute and the rehydration pass do not take it.       *)
(* handle_admin_settled and handle_admin_canceled have no caller in the    *)
(* application: a verdict only moves the trade row.                        *)
(***************************************************************************)
EXTENDS Integers, FiniteSets

CONSTANTS Solvers,
          MaxRestarts    \* bound on restarts

VARIABLES row,        \* the trade row, durable: is_order_finished or not
          admin_key,  \* setting dispute_admin:<order>, durable
          origin,     \* setting dispute_mine:<order>, durable
          record,     \* the entry of DISPUTE_STORE
          listener,   \* the solver the dispute-chat task is keyed to
          opening,    \* open_dispute, and the reply that outlives its wait
          took,       \* the admin-took-dispute handler
          scan,       \* resubscribe_active_dispute_chats
          opened,     \* daemon: who opened the dispute
          net,        \* daemon: assignments the relays hold
          seen,       \* assignments received in this session
          restarts,
          owned,      \* history: this session learned that the dispute is ours
          assigned,   \* history: an assignment was applied to the end
          armed       \* history: this session finished a rehydration pass

settings == <<admin_key, origin>>
daemon == <<opened, net>>
history == <<owned, assigned, armed>>
vars == <<row, settings, record, listener, opening, took, scan, daemon, seen,
          restarts, history>>

None == "none"
NoRecord == [status |-> None, mine |-> FALSE, reason |-> FALSE, admin |-> None]
NoScan == [stage |-> "idle", row |-> "live", admin |-> None, mine |-> FALSE]
NoTook == [stage |-> "idle", solver |-> None]

TypeOK ==
    /\ row \in {"live", "over"} /\ origin \in BOOLEAN
    /\ admin_key \in Solvers \cup {None} /\ listener \in Solvers \cup {None}
    /\ record \in [status : {None, "Open", "InReview"}, mine : BOOLEAN,
                   reason : BOOLEAN, admin : Solvers \cup {None}]
    /\ opening \in {"idle", "waiting", "accepted", "marking", "late", "late marking"}
    /\ took \in [stage : {"idle", "received", "live", "stored", "persisted"},
                 solver : Solvers \cup {None}]
    /\ scan \in [stage : {"idle", "listed", "solver", "origin", "arm"},
                 row : {"live", "over"}, admin : Solvers \cup {None}, mine : BOOLEAN]
    /\ opened \in {None, "me", "peer"}
    /\ net \subseteq Solvers /\ seen \subseteq net
    /\ restarts \in 0..MaxRestarts
    /\ owned \in BOOLEAN /\ assigned \in BOOLEAN /\ armed \in BOOLEAN

Init ==
    /\ row = "live" /\ admin_key = None /\ origin = FALSE
    /\ record = NoRecord /\ listener = None
    /\ opening = "idle" /\ took = NoTook /\ scan = NoScan
    /\ opened = None /\ net = {} /\ seen = {} /\ restarts = 0
    /\ owned = FALSE /\ assigned = FALSE /\ armed = FALSE

-----------------------------------------------------------------------------
(* open_dispute.                                                           *)

Absent == record.status = None

(* Mutant: no placeholder is ever claimed. *)
never_placeholder(d) == FALSE

is_peer_placeholder(d) ==
    d.status = "InReview" /\ ~d.mine /\ ~d.reason /\ d.admin # None

Claimed(d, reason) == [d EXCEPT !.mine = TRUE, !.reason = reason]

(* The entry checks and the in-flight marker; the request is published. *)
open_dispute ==
    /\ opening = "idle" /\ Absent /\ row = "live"
    /\ opening' = "waiting"
    /\ UNCHANGED <<row, settings, record, listener, took, scan, daemon, seen, restarts, history>>

(* The daemon opens one dispute per trade.  Its acceptance comes within    *)
(* the ten seconds of the wait or after them.                              *)
daemon_accepts ==
    /\ opening = "waiting" /\ opened = None
    /\ opened' = "me"
    /\ opening' \in {"accepted", "late"}
    /\ UNCHANGED <<row, settings, record, listener, took, scan, net, seen, restarts, history>>

(* A rejection, or no answer. *)
daemon_refuses ==
    /\ opening = "waiting"
    /\ opening' = "idle"
    /\ UNCHANGED <<row, settings, record, listener, took, scan, daemon, seen, restarts, history>>

(* The call has its marker, so a placeholder is its own; another record    *)
(* makes it fail with DisputeAlreadyOpen.                                  *)
try_insert_if_absent_or_resolved ==
    /\ opening = "accepted"
    /\ record' = CASE Absent -> [status |-> "Open", mine |-> TRUE, reason |-> TRUE, admin |-> None]
                   [] is_peer_placeholder(record) -> Claimed(record, TRUE)
                   [] OTHER -> record
    /\ opening' = IF Absent \/ is_peer_placeholder(record) THEN "marking" ELSE "idle"
    /\ owned' = TRUE
    /\ UNCHANGED <<row, settings, listener, took, scan, daemon, seen, restarts, assigned, armed>>

(* The dispatcher's reconciliation of a late acceptance, under the lock. *)
record_late_acceptance ==
    /\ opening = "late" /\ took.stage = "idle"
    /\ record' = CASE Absent -> [status |-> "Open", mine |-> TRUE, reason |-> FALSE, admin |-> None]
                   [] is_peer_placeholder(record) -> Claimed(record, FALSE)
                   [] OTHER -> record
    /\ opening' = "late marking" /\ owned' = TRUE
    /\ UNCHANGED <<row, settings, listener, took, scan, daemon, seen, restarts, assigned, armed>>

persist_dispute_origin ==
    /\ opening \in {"marking", "late marking"}
    /\ origin' = TRUE /\ opening' = "idle"
    /\ UNCHANGED <<row, admin_key, record, listener, took, scan, daemon, seen, restarts, history>>

-----------------------------------------------------------------------------
(* The daemon: the peer's dispute, solvers, the verdict.                   *)

peer_opens ==
    /\ opened = None
    /\ opened' = "peer"
    /\ UNCHANGED <<row, settings, record, listener, opening, took, scan, net, seen, restarts, history>>

(* A solver takes the dispute, or takes it over from another. *)
solver_takes(s) ==
    /\ opened # None /\ s \notin net /\ row = "live"
    /\ net' = net \cup {s}
    /\ UNCHANGED <<row, settings, record, listener, opening, took, scan, opened, seen, restarts, history>>

(* admin-settled or admin-canceled reaches the client: the row is final,   *)
(* and stop_chat_subscriptions ends the listener.                          *)
verdict ==
    /\ net # {} /\ row = "live" /\ took.stage = "idle" /\ opening # "late marking"
    /\ row' = "over" /\ listener' = None
    /\ UNCHANGED <<settings, record, opening, took, scan, daemon, seen, restarts, history>>

-----------------------------------------------------------------------------
(* handle_admin_took_dispute.                                              *)

(* An event is received once per session, in any order. *)
receive(s) ==
    /\ took.stage = "idle" /\ s \in net \ seen /\ opening # "late marking"
    /\ seen' = seen \cup {s}
    /\ took' = [stage |-> "received", solver |-> s]
    /\ UNCHANGED <<row, settings, record, listener, opening, scan, daemon, restarts, history>>

TookGoes(stage) == took' = [took EXCEPT !.stage = stage]

(* Mutant: an assignment is applied whatever the trade's status. *)
no_finished_check ==
    /\ took.stage = "received"
    /\ TookGoes("live")
    /\ UNCHANGED <<row, settings, record, listener, opening, scan, daemon, seen, restarts, history>>

(* A replay for a trade that is over only clears what is left of it. *)
persisted_order_is_finished ==
    /\ took.stage = "received"
    /\ IF row = "over"
       THEN took' = NoTook /\ admin_key' = None /\ origin' = FALSE
       ELSE TookGoes("live") /\ UNCHANGED settings
    /\ UNCHANGED <<row, record, listener, opening, scan, daemon, seen, restarts, history>>

(* Under the store's write lock. *)
upsert_or_update ==
    /\ took.stage = "live"
    /\ record' = IF Absent
                 THEN [NoRecord EXCEPT !.status = "InReview", !.admin = took.solver]
                 ELSE [record EXCEPT !.status = "InReview", !.admin = took.solver]
    /\ TookGoes("stored")
    /\ UNCHANGED <<row, settings, listener, opening, scan, daemon, seen, restarts, history>>

(* Mutant: the solver is kept in memory only. *)
persist_nothing ==
    /\ took.stage = "stored"
    /\ TookGoes("persisted")
    /\ UNCHANGED <<row, settings, record, listener, opening, scan, daemon, seen, restarts, history>>

persist_admin_pubkey ==
    /\ took.stage = "stored"
    /\ admin_key' = took.solver
    /\ TookGoes("persisted")
    /\ UNCHANGED <<row, origin, record, listener, opening, scan, daemon, seen, restarts, history>>

(* The listener is started unless one runs already (claim_chat). *)
Listen(s) == listener' = IF listener = None THEN s ELSE listener

derive_admin_shared_key ==
    /\ took.stage = "persisted"
    /\ Listen(took.solver)
    /\ took' = NoTook /\ assigned' = TRUE
    /\ UNCHANGED <<row, settings, record, opening, scan, daemon, seen, restarts, owned, armed>>

-----------------------------------------------------------------------------
(* rehydrate_disputes_from_storage, on every Online and resync.            *)

list_trades ==
    /\ scan.stage = "idle"
    /\ scan' = [NoScan EXCEPT !.stage = "listed", !.row = row]
    /\ UNCHANGED <<row, settings, record, listener, opening, took, daemon, seen, restarts, history>>

ScanGoes(stage) == scan' = [scan EXCEPT !.stage = stage]

(* Mutant: finished trades are restored too. *)
judge_any ==
    /\ scan.stage = "listed"
    /\ ScanGoes(IF Absent THEN "solver" ELSE "arm")
    /\ UNCHANGED <<row, settings, record, listener, opening, took, daemon, seen, restarts, history>>

(* A record in memory wins; a finished trade has its keys cleared. *)
judge ==
    /\ scan.stage = "listed"
    /\ IF ~Absent THEN ScanGoes("arm") /\ UNCHANGED settings
       ELSE IF scan.row = "over"
            THEN ScanGoes("arm") /\ admin_key' = None /\ origin' = FALSE
            ELSE ScanGoes("solver") /\ UNCHANGED settings
    /\ UNCHANGED <<row, record, listener, opening, took, daemon, seen, restarts, history>>

read_solver ==
    /\ scan.stage = "solver"
    /\ scan' = [scan EXCEPT !.stage = IF admin_key = None THEN "arm" ELSE "origin",
                            !.admin = admin_key, !.mine = origin]
    /\ UNCHANGED <<row, settings, record, listener, opening, took, daemon, seen, restarts, history>>

(* Mutant: the restored record replaces the one in memory. *)
restore_over ==
    /\ scan.stage = "origin"
    /\ record' = [status |-> "InReview", mine |-> scan.mine, reason |-> FALSE, admin |-> scan.admin]
    /\ ScanGoes("arm")
    /\ UNCHANGED <<row, settings, listener, opening, took, daemon, seen, restarts, history>>

restore ==
    /\ scan.stage = "origin"
    /\ record' = IF ~Absent THEN record
                 ELSE [status |-> "InReview", mine |-> scan.mine, reason |-> FALSE,
                       admin |-> scan.admin]
    /\ ScanGoes("arm")
    /\ UNCHANGED <<row, settings, listener, opening, took, daemon, seen, restarts, history>>

(* resubscribe_active_dispute_chats: every record in review listens again. *)
arm ==
    /\ scan.stage = "arm"
    /\ IF record.status = "InReview" THEN Listen(record.admin) ELSE UNCHANGED listener
    /\ scan' = NoScan /\ armed' = TRUE
    /\ UNCHANGED <<row, settings, record, opening, took, daemon, seen, restarts, owned, assigned>>

-----------------------------------------------------------------------------
(* The store and every task are in memory. *)
restart ==
    /\ restarts < MaxRestarts
    /\ restarts' = restarts + 1
    /\ record' = NoRecord /\ listener' = None /\ opening' = "idle"
    /\ took' = NoTook /\ scan' = NoScan /\ seen' = {}
    /\ owned' = FALSE /\ armed' = FALSE
    /\ UNCHANGED <<row, settings, daemon, assigned>>

Opening == \/ open_dispute \/ daemon_accepts \/ daemon_refuses
           \/ try_insert_if_absent_or_resolved \/ record_late_acceptance
           \/ persist_dispute_origin

Assigning == \/ \E s \in Solvers : receive(s)
             \/ persisted_order_is_finished \/ upsert_or_update
             \/ persist_admin_pubkey \/ derive_admin_shared_key

Rehydrating == list_trades \/ judge \/ read_solver \/ restore \/ arm

Next == \/ Opening \/ Assigning \/ Rehydrating
        \/ peer_opens \/ (\E s \in Solvers : solver_takes(s)) \/ verdict \/ restart

Spec == Init /\ [][Next]_vars

-----------------------------------------------------------------------------
(* Properties.                                                             *)

(* Once the client has processed the daemon's acceptance of its own        *)
(* dispute, the record is its own, whatever assignment, rehydration or     *)
(* late reply landed around it (PR #253 review).                           *)
AcceptedIsMine == owned => ~Absent /\ record.mine

(* A finished trade's dispute does not come back: neither a replayed       *)
(* assignment nor a rehydration that saw the trade finished creates it     *)
(* (clear_dispute_keys: "every restart would resurrect a finished dispute  *)
(* as InReview").  Only a late answer to this client's own open records it. *)
FinishedStaysClosed ==
    [][row = "over" /\ Absent /\ scan.row = "over" /\ opening \notin {"accepted", "late"}
         => Absent']_vars

(* A solver the client was once told of is reachable after any restart, as *)
(* soon as a rehydration pass ended: the record is there, it has a solver, *)
(* and somebody listens, with or without a replay from the relays.         *)
SolverSurvives ==
    assigned /\ armed /\ row = "live" /\ scan.stage = "idle" =>
        record.admin # None /\ listener # None

(* rehydrate_disputes_from_storage: "Rehydration restores the persisted    *)
(* origin either way".                                                     *)
OriginRestored == origin /\ armed /\ ~Absent => record.mine
=============================================================================
