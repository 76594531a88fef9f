----------------------------- MODULE TradeSubs -----------------------------
(***************************************************************************)
(* The single-owner registry of per-trade daemon subscriptions             *)
(* (rust/src/nostr/subscriptions.rs) and the watcher it hands over to      *)
(* (subscribe_daemon_messages, rust/src/api/orders.rs), for one trade key. *)
(*                                                                         *)
(* A caller claims the key, subscribes the relays (REQ) and spawns a       *)
(* watcher, or bounces off a live watcher and refreshes its lease, or      *)
(* parks while another caller is setting up.  A section under the registry *)
(* lock is one step unless it awaits inside: only the teardown does.       *)
(* Each caller claims the key at most once, so a caller also names the     *)
(* Notify (setup_done) of the entry it inserted.                           *)
(***************************************************************************)
EXTENDS FiniteSets

CONSTANTS Callers,     \* calls of subscribe_daemon_messages for this key
          Requesters,  \* those that registered a pending request first
          NoCaller

ASSUME SubsAssumption == NoCaller \notin Callers /\ Requesters \subseteq Callers

VARIABLES
    lock,     \* the watcher whose teardown holds the registry lock
    entry,    \* the key's entry in ACTIVE_TRADE_SUBS
    pc,       \* where each caller is
    gateOf,   \* the Notify a caller cloned, named by the entry's owner
    woken,    \* callers whose Notified future has fired
    watcher,  \* the watcher task of the caller that became the owner
    req,      \* the relay-side REQ is active
    poolUp,   \* the relay pool has not shut down
    record,   \* the key's pending request: who registered it, still waiting
    promised  \* callers bounced since the owner last refreshed its lease

vars == <<lock, entry, pc, gateOf, woken, watcher, req, poolUp, record, promised>>

States == {"None", "Setup", "Live"}
NoEntry == [state |-> "None", rearmed |-> FALSE, gate |-> NoCaller]
NoRecord == [who |-> NoCaller, waiting |-> FALSE]

Claiming == {"claim", "gate", "enabled", "parked"}
SettingUp == {"setup", "subscribed", "releasing"}
Returned == {"covered", "bounced", "uncovered"}
PCs == {"idle", "dropping"} \cup Claiming \cup SettingUp \cup Returned

TypeOK ==
    /\ lock \in Callers \cup {NoCaller}
    /\ entry \in [state : States, rearmed : BOOLEAN, gate : Callers \cup {NoCaller}]
    /\ pc \in [Callers -> PCs]
    /\ gateOf \in [Callers -> Callers \cup {NoCaller}]
    /\ woken \subseteq Callers
    /\ watcher \in [Callers -> {"none", "run", "closing", "done"}]
    /\ req \in BOOLEAN /\ poolUp \in BOOLEAN
    /\ record \in [who : Callers \cup {NoCaller}, waiting : BOOLEAN]
    /\ promised \subseteq Callers

Init ==
    /\ lock = NoCaller /\ entry = NoEntry
    /\ pc = [c \in Callers |-> "idle"]
    /\ gateOf = [c \in Callers |-> NoCaller]
    /\ woken = {} /\ watcher = [c \in Callers |-> "none"]
    /\ req = FALSE /\ poolUp = TRUE
    /\ record = NoRecord /\ promised = {}

Goto(c, l) == pc' = [pc EXCEPT ![c] = l]
Unlocked == lock = NoCaller

(* notify_waiters on the entry's setup_done: every future made so far. *)
NotifyWaiters == woken' = woken \cup {c \in Callers : /\ pc[c] \in {"enabled", "parked"}
                                                      /\ gateOf[c] = entry.gate}

(* Mutant: the entry is only marked released. *)
mark_released == entry' = [entry EXCEPT !.state = "Released"] /\ NotifyWaiters

remove_and_wake == entry' = NoEntry /\ NotifyWaiters

-----------------------------------------------------------------------------
(* The caller.                                                             *)

(* create_order and take_order register their request, then subscribe. *)
call(c) ==
    /\ pc[c] = "idle"
    /\ Goto(c, "claim")
    /\ record' = IF c \in Requesters THEN [who |-> c, waiting |-> TRUE] ELSE record
    /\ UNCHANGED <<lock, entry, gateOf, woken, watcher, req, poolUp, promised>>

(* Mutant: a bounce does not refresh the lease. *)
claim_without_rearm(c) ==
    /\ pc[c] = "claim" /\ Unlocked
    /\ \/ /\ entry.state = "None"
          /\ entry' = [state |-> "Setup", rearmed |-> FALSE, gate |-> c]
          /\ Goto(c, "setup") /\ UNCHANGED <<gateOf, promised>>
       \/ /\ entry.state = "Live"
          /\ promised' = promised \cup {c}
          /\ Goto(c, "bounced") /\ UNCHANGED <<entry, gateOf>>
       \/ /\ entry.state = "Setup"
          /\ gateOf' = [gateOf EXCEPT ![c] = entry.gate]
          /\ Goto(c, "gate") /\ UNCHANGED <<entry, promised>>
    /\ UNCHANGED <<lock, woken, watcher, req, poolUp, record>>

(* One pass of claim's loop under the lock. *)
claim(c) ==
    /\ pc[c] = "claim" /\ Unlocked
    /\ \/ /\ entry.state = "None"
          /\ entry' = [state |-> "Setup", rearmed |-> FALSE, gate |-> c]
          /\ Goto(c, "setup") /\ UNCHANGED <<gateOf, promised>>
       \/ /\ entry.state = "Live"
          /\ entry' = [entry EXCEPT !.rearmed = TRUE]
          /\ promised' = promised \cup {c}
          /\ Goto(c, "bounced") /\ UNCHANGED gateOf
       \/ /\ entry.state = "Setup"
          /\ gateOf' = [gateOf EXCEPT ![c] = entry.gate]
          /\ Goto(c, "gate") /\ UNCHANGED <<entry, promised>>
    /\ UNCHANGED <<lock, woken, watcher, req, poolUp, record>>

(* notified() and enable(): from here notify_waiters reaches this caller. *)
enable(c) ==
    /\ pc[c] = "gate"
    /\ woken' = woken \ {c}
    /\ Goto(c, "enabled")
    /\ UNCHANGED <<lock, entry, gateOf, watcher, req, poolUp, record, promised>>

(* Mutant: any entry in setup will do, not only the one whose gate it is. *)
parked_on_some_setup(c) == entry.state = "Setup"

parked_on_current_setup(c) == entry.state = "Setup" /\ entry.gate = gateOf[c]

recheck(c) ==
    /\ pc[c] = "enabled" /\ Unlocked
    /\ Goto(c, IF parked_on_current_setup(c) THEN "parked" ELSE "claim")
    /\ UNCHANGED <<lock, entry, gateOf, woken, watcher, req, poolUp, record, promised>>

wake(c) ==
    /\ pc[c] = "parked" /\ c \in woken
    /\ Goto(c, "claim")
    /\ UNCHANGED <<lock, entry, gateOf, woken, watcher, req, poolUp, record, promised>>

(* The owner's setup: keys, pool, node key, then the REQ. *)
subscribe_accepted(c) ==
    /\ pc[c] = "setup" /\ poolUp
    /\ req' = TRUE /\ Goto(c, "subscribed")
    /\ UNCHANGED <<lock, entry, gateOf, woken, watcher, poolUp, record, promised>>

setup_failed(c) ==
    /\ pc[c] = "setup"
    /\ Goto(c, "releasing")
    /\ UNCHANGED <<lock, entry, gateOf, woken, watcher, req, poolUp, record, promised>>

mark_live(c) ==
    /\ pc[c] = "subscribed" /\ Unlocked
    /\ entry' = [entry EXCEPT !.state = "Live", !.rearmed = FALSE]
    /\ NotifyWaiters
    /\ Goto(c, "covered") /\ watcher' = [watcher EXCEPT ![c] = "run"]
    /\ UNCHANGED <<lock, gateOf, req, poolUp, record, promised>>

(* Mutant: a failed setup leaves its entry behind. *)
release_leaks(c) ==
    /\ pc[c] = "releasing" /\ Unlocked
    /\ Goto(c, "uncovered")
    /\ UNCHANGED <<lock, entry, gateOf, woken, watcher, req, poolUp, record, promised>>

release(c) ==
    /\ pc[c] = "releasing" /\ Unlocked
    /\ remove_and_wake /\ Goto(c, "uncovered")
    /\ UNCHANGED <<lock, gateOf, watcher, req, poolUp, record, promised>>

(* A panic or a cancelled future drops the armed SetupGuard.  try_lock may *)
(* fail (a teardown of this or of another key holds the lock): then a      *)
(* spawned task releases.                                                  *)
abandon_setup(c) ==
    /\ pc[c] \in SettingUp
    /\ \/ Unlocked /\ remove_and_wake /\ Goto(c, "uncovered")
       \/ Goto(c, "dropping") /\ UNCHANGED <<entry, woken>>
    /\ UNCHANGED <<lock, gateOf, watcher, req, poolUp, record, promised>>

drop_release(c) ==
    /\ pc[c] = "dropping" /\ Unlocked
    /\ remove_and_wake /\ Goto(c, "uncovered")
    /\ UNCHANGED <<lock, gateOf, watcher, req, poolUp, record, promised>>

(* A claim cancelled before it owns anything. *)
abandon_claim(c) ==
    /\ pc[c] \in Claiming
    /\ Goto(c, "uncovered")
    /\ UNCHANGED <<lock, entry, gateOf, woken, watcher, req, poolUp, record, promised>>

(* The request's wait ends: answered, or detached by its timeout. *)
request_ends(c) ==
    /\ pc[c] \in Returned /\ record = [who |-> c, waiting |-> TRUE]
    /\ record' \in {NoRecord, [who |-> c, waiting |-> FALSE]}
    /\ UNCHANGED <<lock, entry, pc, gateOf, woken, watcher, req, poolUp, promised>>

-----------------------------------------------------------------------------
(* The watcher task.                                                       *)

(* Mutant: ownership is given back before the REQ is closed. *)
begin_dismantle_early(c) ==
    /\ entry' = NoEntry /\ watcher' = [watcher EXCEPT ![c] = "closing"]
    /\ UNCHANGED <<lock, req, promised>>

(* Takes the lock and closes the REQ: the first half of dismantle. *)
begin_dismantle(c) ==
    /\ lock' = c /\ watcher' = [watcher EXCEPT ![c] = "closing"]
    /\ req' = FALSE
    /\ UNCHANGED <<entry, promised>>

(* Thirty idle minutes: teardown_or_rearm. *)
idle_exit(c) ==
    /\ watcher[c] = "run" /\ Unlocked
    /\ IF entry.state = "Live" /\ entry.rearmed
       THEN /\ entry' = [entry EXCEPT !.rearmed = FALSE] /\ promised' = {}
            /\ UNCHANGED <<lock, watcher, req>>
       ELSE begin_dismantle(c)
    /\ UNCHANGED <<pc, gateOf, woken, poolUp, record>>

shutdown ==
    /\ poolUp
    /\ poolUp' = FALSE /\ req' = FALSE
    /\ UNCHANGED <<lock, entry, pc, gateOf, woken, watcher, record, promised>>

(* Shutdown or a closed channel: teardown, whatever the lease. *)
shutdown_exit(c) ==
    /\ watcher[c] = "run" /\ Unlocked /\ ~poolUp
    /\ begin_dismantle(c)
    /\ UNCHANGED <<pc, gateOf, woken, poolUp, record>>

(* Mutant: the pending record is purged, waiter or not. *)
dismantle_purges_all(c) ==
    /\ watcher[c] = "closing"
    /\ record' = NoRecord
    /\ remove_and_wake
    /\ lock' = NoCaller /\ watcher' = [watcher EXCEPT ![c] = "done"]
    /\ UNCHANGED <<pc, gateOf, req, poolUp, promised>>

(* The rest of dismantle, still under the lock: purge a detached record,   *)
(* give the key back.                                                      *)
dismantle(c) ==
    /\ watcher[c] = "closing"
    /\ record' = IF record.waiting THEN record ELSE NoRecord
    /\ remove_and_wake
    /\ lock' = NoCaller /\ watcher' = [watcher EXCEPT ![c] = "done"]
    /\ UNCHANGED <<pc, gateOf, req, poolUp, promised>>

CallerStep(c) == \/ claim(c) \/ enable(c) \/ recheck(c) \/ wake(c)
                 \/ subscribe_accepted(c) \/ setup_failed(c) \/ mark_live(c)
                 \/ release(c) \/ drop_release(c)

WatcherStep(c) == idle_exit(c) \/ shutdown_exit(c) \/ dismantle(c)

Next == \/ \E c \in Callers : \/ call(c) \/ CallerStep(c) \/ WatcherStep(c)
                              \/ abandon_setup(c) \/ abandon_claim(c) \/ request_ends(c)
        \/ shutdown

(* A started call is polled until it returns, the lock's queue is first    *)
(* come first served, and a teardown in progress finishes.                 *)
Fairness == \A c \in Callers : WF_vars(CallerStep(c)) /\ WF_vars(dismantle(c))

Spec == Init /\ [][Next]_vars
FairSpec == Spec /\ Fairness

-----------------------------------------------------------------------------
Owns(c) == pc[c] \in SettingUp \cup {"dropping"} \/ watcher[c] \in {"run", "closing"}

(* One owner per trade key: a caller in setup, one whose abandoned setup   *)
(* is still to be released, or a watcher, including one being torn down:   *)
(* two would close each other's REQ (claim, SetupGuard, dismantle).        *)
SingleOwner == \A c, d \in Callers : Owns(c) /\ Owns(d) => c = d

(* A parked claim is parked on the gate somebody will still open: no wake  *)
(* is lost between cloning the gate, enabling the future and parking       *)
(* (claim, parked_on_current_setup).                                       *)
NoLostWakeup ==
    \A c \in Callers : pc[c] = "parked" /\ c \notin woken =>
        entry.state = "Setup" /\ entry.gate = gateOf[c]

(* A bounce promises coverage: until the owner has honoured the refreshed  *)
(* lease once, the REQ stays active and a watcher runs, unless the pool    *)
(* itself shuts down (claim, mark_live, teardown_or_rearm).                *)
PromisedCoverage ==
    poolUp /\ promised # {} => req /\ \E c \in Callers : watcher[c] = "run"

(* A request that still waits keeps its record through the teardown of an  *)
(* older watcher on the same key (purge_detached_pending_request).         *)
WaitingRecordKept ==
    \A c \in Requesters : pc[c] \in Claiming \cup SettingUp \cup {"dropping"} =>
        record = [who |-> c, waiting |-> TRUE]

(* No claim hangs: it becomes the owner, bounces off a live watcher or     *)
(* gives up; an abandoned or failed setup never wedges the key.            *)
ClaimsResolve == \A c \in Callers : pc[c] = "claim" ~> pc[c] \in Returned
=============================================================================
