----------------------------- MODULE NodeSwitch -----------------------------
(***************************************************************************)
(* Switching the active Mostro node: set_active_mostro_node (settings.rs), *)
(* retain_previous_node (bond.rs), refresh_subscriptions_for_active_node   *)
(* and the bulk kind-14 filter with its key coverage (orders.rs), the      *)
(* caches of what the node advertises (escrow_mode.rs, bond_policy.rs,     *)
(* pow.rs, protocol_version.rs, api/nostr.rs), the payout claims that wait *)
(* for them, and the Cashu wallet bound to the node's mint (api/cashu.rs). *)
(* A task is a record of where it is between two awaits.                   *)
(***************************************************************************)
EXTENDS Integers, FiniteSets

CONSTANTS Nodes, FirstNode,
          Switchers,   \* calls of set_active_mostro_node, one switch each
          Runs,        \* slots for runs of the coalesced filter refresh
          Onlines,     \* Online sequences of the relay pool
          Keys, FirstKeys   \* trade keys; those derived before the start

VARIABLES active,      \* configured node
          tags,        \* node whose advertised capabilities are cached
          pending,     \* capability fetches announced (FetchPending guards)
          retained,    \* nodes left that may still owe a claim
          keys,        \* the coverage map
          armed,       \* a filter refresh waits for its window
          lock,        \* holder of DM_FILTER_LOCK
          filter,      \* the bulk filter: authors and trade keys
          task,        \* every task
          claims,      \* nodes a payout claim of which waits for its policy
          wallet,      \* node whose mint the live wallet is bound to
          connecting,  \* node whose mint is being connected to
          misspent     \* history: an operation ran at another node's mint

vars == <<active, tags, pending, retained, keys, armed, lock, filter, task,
          claims, wallet, connecting, misspent>>
cache == <<tags, pending>>
coverage == <<keys, armed, lock, filter>>
users == <<claims, wallet, connecting, misspent>>

None == "none"
Tasks == Switchers \cup Runs \cup Onlines
NoFilter == [authors |-> {}, keys |-> {}]

Steps == {"idle", "set", "fetch", "answer", "done",
          "lock", "replace"}

(* node: what the task read; then: where it goes after the filter.         *)
TaskRecords == [at : Steps, node : Nodes \cup {None}, then : Steps, view : SUBSET Keys]

TypeOK ==
    /\ active \in Nodes /\ tags \in Nodes \cup {None} /\ pending \in Nat
    /\ retained \subseteq Nodes /\ keys \subseteq Keys /\ armed \in BOOLEAN
    /\ lock \in Tasks \cup {None}
    /\ filter \in [authors : SUBSET Nodes, keys : SUBSET Keys]
    /\ task \in [Tasks -> TaskRecords]
    /\ claims \subseteq Nodes /\ misspent \in BOOLEAN
    /\ wallet \in Nodes \cup {None} /\ connecting \in Nodes \cup {None}

TaskAt(step) == [at |-> step, node |-> None, then |-> "idle", view |-> {}]

(* The session has started on FirstNode: subscribed, nothing fetched yet.  *)
Init ==
    /\ active = FirstNode /\ tags = None /\ pending = 0 /\ retained = {}
    /\ keys = FirstKeys /\ armed = FALSE /\ lock = None
    /\ filter = [authors |-> {FirstNode}, keys |-> FirstKeys]
    /\ task = [t \in Tasks |-> TaskAt("idle")]
    /\ claims = {} /\ wallet = None /\ connecting = None /\ misspent = FALSE

At(t, step) == task[t].at = step
Goto(t, step) == task' = [task EXCEPT ![t] = TaskAt(step)]

-----------------------------------------------------------------------------
(* The bulk filter.                                                        *)

(* A task calls replace_global_dm_filter for the active node it reads now. *)
CallReplace(t, then) ==
    task' = [task EXCEPT ![t] = [at |-> "lock", node |-> active, then |-> then, view |-> {}]]

(* Mutant: the keys are read before the lock is taken. *)
dm_filter_lock_keys_early(t) ==
    \/ /\ At(t, "lock") /\ task[t].view = {}
       /\ task' = [task EXCEPT ![t].view = keys]
       /\ UNCHANGED <<active, cache, retained, coverage, users>>
    \/ /\ At(t, "lock") /\ task[t].view # {} /\ lock = None
       /\ lock' = t
       /\ task' = [task EXCEPT ![t].at = "replace"]
       /\ UNCHANGED <<active, cache, retained, keys, armed, filter, users>>

dm_filter_lock(t) ==
    /\ At(t, "lock") /\ lock = None
    /\ lock' = t
    /\ task' = [task EXCEPT ![t].at = "replace", ![t].view = keys]
    /\ UNCHANGED <<active, cache, retained, keys, armed, filter, users>>

(* CLOSE and REQ, with the nodes left that still matter as authors; an     *)
(* empty map leaves the filter alone.  The lock is released.               *)
replace_subscription(t) ==
    /\ At(t, "replace") /\ Goto(t, task[t].then) /\ lock' = None
    /\ filter' = IF task[t].view = {} THEN filter
                 ELSE [authors |-> {task[t].node} \cup retained, keys |-> task[t].view]
    /\ UNCHANGED <<active, cache, retained, keys, armed, users>>

(* A key derived by a create or a take. *)
ensure_global_dm_coverage(k) ==
    /\ k \notin keys
    /\ keys' = keys \cup {k} /\ armed' = TRUE
    /\ UNCHANGED <<active, cache, retained, lock, filter, task, users>>

resubscribe_global_dm_filter(t) ==
    /\ armed /\ armed' = FALSE
    /\ At(t, "idle") /\ CallReplace(t, "idle")
    /\ UNCHANGED <<active, cache, retained, keys, lock, filter, users>>

-----------------------------------------------------------------------------
(* The switch.                                                             *)

(* A node left stays heard, unless it is known to have no bond policy;     *)
(* the filter is then replaced for the node just activated.                *)
set_active_mostro_node(t, n) ==
    /\ At(t, "idle") /\ n # active
    /\ active' = n
    /\ \E owes \in IF tags = active THEN BOOLEAN ELSE {TRUE} :
         IF owes THEN /\ retained' = retained \cup {active}
                      /\ task' = [task EXCEPT ![t] = [at |-> "lock", node |-> n,
                                                      then |-> "set", view |-> {}]]
         ELSE Goto(t, "set") /\ UNCHANGED retained
    /\ UNCHANGED <<cache, coverage, users>>

(* Mutant: the previous node's capabilities are kept until the fetch. *)
refresh_keeps_tags(t) ==
    /\ At(t, "set")
    /\ pending' = pending + 1 /\ UNCHANGED tags
    /\ CallReplace(t, "fetch")
    /\ UNCHANGED <<active, retained, coverage, users>>

(* refresh_subscriptions_for_active_node up to its first request: the      *)
(* fetch is announced, the caches are cleared, the node is read.           *)
refresh_subscriptions(t) ==
    /\ At(t, "set")
    /\ pending' = pending + 1 /\ tags' = None
    /\ CallReplace(t, "fetch")
    /\ UNCHANGED <<active, retained, coverage, users>>

(* on_pool_online: announced before the subscriptions open. *)
on_pool_online(t) ==
    /\ At(t, "idle") /\ pending' = pending + 1 /\ Goto(t, "fetch")
    /\ UNCHANGED <<active, tags, retained, coverage, users>>

(* fetch_and_set_node_capabilities asks the node active now; a failed      *)
(* re-subscription ends the switch before it.                              *)
fetch_capabilities(t) ==
    /\ At(t, "fetch")
    /\ \/ /\ task' = [task EXCEPT ![t].at = "answer", ![t].node = active]
          /\ UNCHANGED pending
       \/ /\ t \in Switchers
          /\ pending' = pending - 1 /\ Goto(t, "done")
    /\ UNCHANGED <<active, tags, retained, coverage, users>>

(* Mutant: a fetch outlived by a switch is stored. *)
apply_any_capabilities(t) ==
    /\ At(t, "answer") /\ Goto(t, "done") /\ pending' = pending - 1
    /\ tags' \in {task[t].node, None}
    /\ UNCHANGED <<active, retained, coverage, users>>

(* Mutant: the pending fetches are a flag, lowered by whoever ends first.  *)
apply_and_lower_flag(t) ==
    /\ At(t, "answer") /\ Goto(t, "done") /\ pending' = 0
    /\ IF task[t].node = active THEN tags' \in {active, None} ELSE UNCHANGED tags
    /\ UNCHANGED <<active, retained, coverage, users>>

(* An answer for the active node is stored, a failure or no event clears;  *)
(* an answer for another node is dropped.                                  *)
apply_node_capabilities(t) ==
    /\ At(t, "answer") /\ Goto(t, "done") /\ pending' = pending - 1
    /\ IF task[t].node = active THEN tags' \in {active, None} ELSE UNCHANGED tags
    /\ UNCHANGED <<active, retained, coverage, users>>

-----------------------------------------------------------------------------
(* A payout claim arrives through the filter and is priced once.           *)

apply_payout_request(n) ==
    /\ n \notin claims /\ n \in filter.authors
    /\ claims' = claims \cup {n}
    /\ UNCHANGED <<active, cache, retained, coverage, task, wallet, connecting, misspent>>

(* Nothing is pending, so the policy is n's or there is none.  A wait that *)
(* times out is not modelled: the fetch has the same bound.                *)
get_for_once_settled(n) ==
    /\ n \in claims /\ pending = 0
    /\ claims' = claims \ {n}
    /\ UNCHANGED <<active, cache, retained, coverage, task, wallet, connecting, misspent>>

(* The active node's claim is priced without a policy. *)
PricedBlind(n) == n \in claims \ claims' /\ tags # n /\ n = active

-----------------------------------------------------------------------------
(* The Cashu wallet; every node here runs Cashu at a mint of its own.      *)

(* A wallet bound to another mint than the resolved one is dropped first.  *)
cashu_connect ==
    /\ tags # None /\ connecting = None /\ wallet # tags
    /\ wallet' = None /\ connecting' = tags
    /\ UNCHANGED <<active, cache, retained, coverage, task, claims, misspent>>

(* Installed only while the node still resolves to that mint. *)
cashu_connected ==
    /\ connecting # None /\ connecting' = None
    /\ wallet' = IF connecting = tags THEN connecting ELSE wallet
    /\ UNCHANGED <<active, cache, retained, coverage, task, claims, misspent>>

cashu_disconnect ==
    /\ connecting = None /\ wallet # None /\ wallet' = None
    /\ UNCHANGED <<active, cache, retained, coverage, task, claims, connecting, misspent>>

(* The node was set and its refresh has not begun. *)
Switching == \E t \in Switchers : task[t].at = "set" \/ (task[t].then = "set" /\ ~At(t, "idle"))

Spend == misspent' = (misspent \/ (wallet # active /\ ~Switching))

(* Mutant: the mint is not compared. *)
active_wallet_any_mint ==
    /\ tags # None /\ wallet # None /\ Spend
    /\ UNCHANGED <<active, cache, retained, coverage, task, claims, wallet, connecting>>

(* receive, create and sweep go through active_wallet. *)
active_wallet ==
    /\ tags # None /\ wallet = tags /\ Spend
    /\ UNCHANGED <<active, cache, retained, coverage, task, claims, wallet, connecting>>

-----------------------------------------------------------------------------
Next ==
    \/ \E t \in Tasks : dm_filter_lock(t) \/ replace_subscription(t)
    \/ \E k \in Keys : ensure_global_dm_coverage(k)
    \/ \E t \in Runs : resubscribe_global_dm_filter(t)
    \/ \E t \in Switchers : refresh_subscriptions(t) \/ \E n \in Nodes : set_active_mostro_node(t, n)
    \/ \E t \in Onlines : on_pool_online(t)
    \/ \E t \in Switchers \cup Onlines : fetch_capabilities(t) \/ apply_node_capabilities(t)
    \/ \E n \in Nodes : apply_payout_request(n) \/ get_for_once_settled(n)
    \/ cashu_connect \/ cashu_connected \/ cashu_disconnect \/ active_wallet

Spec == Init /\ [][Next]_vars

-----------------------------------------------------------------------------
(* Properties.                                                             *)

(* Every derived key is heard: once no refresh is armed or under way, the  *)
(* filter carries the whole map ("whichever replacement runs last carries  *)
(* every covered key").                                                    *)
KeysCovered ==
    ~armed /\ (\A t \in Tasks : task[t].at \notin {"lock", "replace"}) =>
        filter.keys = keys

(* The capabilities cached are the active node's: a slow answer of the     *)
(* node left behind never lands.  Exception: the time between the switch   *)
(* and the start of the refresh, see CashuNeverLeaks.                      *)
CapabilitiesOfActive == tags \in {None, active} \/ Switching

(* Money moves at the active node's mint only, with the same exception. *)
SpendsAtActiveMint == ~misspent

(* A claim of the active node is not priced without its policy while the   *)
(* fetch that brings the policy is still to come, once the refresh began:  *)
(* also when two fetches overlap.                                          *)
ClaimWaitsForPolicy ==
    [][\A n \in Nodes :
         PricedBlind(n) =>
            \A t \in Switchers \cup Onlines :
                ~(At(t, "answer") /\ task[t].node = n) /\ ~At(t, "fetch")]_vars

(* "A stale Cashu resolution can never leak onto a different node between  *)
(* the switch and the next successful fetch" (escrow_mode::clear).         *)
CashuNeverLeaks == tags \in {None, active}

(* "It must find the fetch pending - not a policy just cleared and nobody  *)
(* said to be coming" (refresh_subscriptions_for_active_node).             *)
ClaimFindsFetchPending ==
    [][\A n \in Nodes : PricedBlind(n) => ~Switching]_vars

(* The bulk filter listens to the active node once everything is quiet. *)
FilterOfActiveNode ==
    (\A t \in Tasks : task[t].at \in {"idle", "done"}) => active \in filter.authors
=============================================================================
