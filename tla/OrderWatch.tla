----------------------------- MODULE OrderWatch -----------------------------
(***************************************************************************)
(* The single-order (d-tag) watcher of one order that is taken, ends and   *)
(* is taken again (api/orders.rs): a task per take, the claim that says    *)
(* which task owns the REQ "mostro-order-<id>", and the release of a       *)
(* finished trade's subscriptions under the order lock.                    *)
(*                                                                         *)
(* LiveSubs decides where the REQ lands; here it is the node its filter    *)
(* names.  The SDK refuses to open an id that exists.                      *)
(***************************************************************************)
EXTENDS Integers, FiniteSets

CONSTANTS Nodes,
          MaxGen,        \* bound on takes of the order
          MaxEnds,       \* bound on terminal updates
          MaxSwitches    \* bound on node switches

VARIABLES row,       \* the trade row: "live" or "over" (or wiped)
          node,      \* the active node
          lock,      \* holder of the order lock
          claim,     \* single_order_tasks(): the owning generation, 0: none
          gen,       \* the last generation handed out
          task,      \* each generation's task
          req,       \* the node the open REQ's filter names
          releases,  \* releases spawned, waiting for the order lock
          owned,     \* the release under way took the claim
          switches, ends,
          raced      \* history: a claim changed hands while InTransit

vars == <<row, node, lock, claim, gen, task, req, releases, owned, switches, ends, raced>>

None == "none"
Gens == 1..MaxGen
Stages == {"idle", "spawned", "opening", "listening", "leaving", "closing", "done"}

TypeOK ==
    /\ row \in {"live", "over"} /\ node \in Nodes
    /\ lock \in {"free", "take", "release"}
    /\ claim \in 0..gen /\ gen \in 0..MaxGen /\ req \in Nodes \cup {None}
    /\ task \in [Gens -> [stage : Stages, replaced : BOOLEAN, watched : Nodes]]
    /\ releases \in 0..MaxEnds /\ owned \in BOOLEAN
    /\ switches \in 0..MaxSwitches /\ ends \in 0..MaxEnds /\ raced \in BOOLEAN

Init ==
    /\ row = "over" /\ node \in Nodes /\ lock = "free"
    /\ claim = 0 /\ gen = 0 /\ req = None
    /\ task = [g \in Gens |-> [stage |-> "idle", replaced |-> FALSE, watched |-> node]]
    /\ releases = 0 /\ owned = FALSE /\ switches = 0 /\ ends = 0 /\ raced = FALSE

At(g, s) == task[g].stage = s
Go(g, s) == task' = [task EXCEPT ![g].stage = s]
Current(g) == claim = g

(* A task that is about to issue or to close the REQ. *)
InTransit == \E g \in Gens : task[g].stage \in {"spawned", "opening", "closing"}

-----------------------------------------------------------------------------
(* Takes, ends and node switches.                                          *)

(* take_order, confirmed: the row is saved under the order lock, ... *)
persist_confirmed_take ==
    /\ lock = "free" /\ gen < MaxGen
    /\ lock' = "take" /\ row' = "live"
    /\ UNCHANGED <<node, claim, gen, task, req, releases, owned, switches, ends, raced>>

(* ... and the watcher's claim is taken before its task is spawned.  The   *)
(* order lock is dropped when the take returns.                            *)
subscribe_single_order ==
    LET g == gen + 1 IN
    /\ lock = "take"
    /\ gen' = g /\ claim' = g
    /\ task' = [task EXCEPT ![g].stage = "spawned", ![g].replaced = claim # 0]
    /\ raced' = (raced \/ InTransit)
    /\ lock' = "free"
    /\ UNCHANGED <<row, node, req, releases, owned, switches, ends>>

(* A terminal status or a wipe; both spawn a release.  A public cancel     *)
(* wipes without the order lock.                                           *)
trade_ends ==
    /\ gen > 0 /\ ends < MaxEnds
    /\ row' = "over"
    /\ ends' = ends + 1 /\ releases' = releases + 1
    /\ UNCHANGED <<node, lock, claim, gen, task, req, owned, switches, raced>>

(* A terminal update replayed for an order that was taken again. *)
terminal_replayed ==
    /\ gen > 1 /\ ends < MaxEnds
    /\ ends' = ends + 1 /\ releases' = releases + 1
    /\ UNCHANGED <<row, node, lock, claim, gen, task, req, owned, switches, raced>>

set_active_node(n) ==
    /\ n # node /\ switches < MaxSwitches
    /\ node' = n /\ switches' = switches + 1
    /\ UNCHANGED <<row, lock, claim, gen, task, req, releases, owned, ends, raced>>

-----------------------------------------------------------------------------
(* A watcher task.                                                         *)

start(g) ==
    /\ At(g, "spawned")
    /\ task' = [task EXCEPT ![g].stage = "opening", ![g].watched = node]
    /\ UNCHANGED <<row, node, lock, claim, gen, req, releases, owned, switches, ends, raced>>

(* A task that replaced another replaces its REQ; else it opens one, which *)
(* the SDK refuses while the id exists, and a relay may refuse at any time.*)
opened(g) ==
    /\ At(g, "opening")
    /\ \/ /\ task[g].replaced \/ req = None
          /\ req' = task[g].watched /\ Go(g, "listening") /\ UNCHANGED claim
       \/ /\ ~task[g].replaced
          /\ Go(g, "done") /\ UNCHANGED req
          /\ claim' = IF Current(g) THEN 0 ELSE claim
    /\ UNCHANGED <<row, node, lock, gen, releases, owned, switches, ends, raced>>

(* An event of the order: a superseded task and one whose node is no       *)
(* longer active stop (an event it applies changes nothing here).          *)
event(g) ==
    /\ At(g, "listening") /\ (~Current(g) \/ task[g].watched # node)
    /\ Go(g, "leaving")
    /\ UNCHANGED <<row, node, lock, claim, gen, req, releases, owned, switches, ends, raced>>

(* Thirty minutes without an update of the order. *)
idle_timeout(g) ==
    /\ At(g, "listening")
    /\ Go(g, "leaving")
    /\ UNCHANGED <<row, node, lock, claim, gen, req, releases, owned, switches, ends, raced>>

(* Mutant: a task that stops closes the REQ whoever owns it. *)
release_single_order_task_always(g) ==
    /\ At(g, "leaving")
    /\ Go(g, "closing") /\ claim' = IF Current(g) THEN 0 ELSE claim
    /\ UNCHANGED <<row, node, lock, gen, req, releases, owned, switches, ends, raced>>

(* Mutant: a task that stops leaves the REQ to whoever comes. *)
release_single_order_task_only(g) ==
    /\ At(g, "leaving")
    /\ Go(g, "done") /\ claim' = IF Current(g) THEN 0 ELSE claim
    /\ UNCHANGED <<row, node, lock, gen, req, releases, owned, switches, ends, raced>>

(* It closes the REQ only if it still held the claim, which it gives up. *)
release_single_order_task(g) ==
    /\ At(g, "leaving")
    /\ IF Current(g) THEN Go(g, "closing") /\ claim' = 0
                     ELSE Go(g, "done") /\ UNCHANGED claim
    /\ UNCHANGED <<row, node, lock, gen, req, releases, owned, switches, ends, raced>>

close(g) ==
    /\ At(g, "closing")
    /\ req' = None /\ Go(g, "done")
    /\ UNCHANGED <<row, node, lock, claim, gen, releases, owned, switches, ends, raced>>

-----------------------------------------------------------------------------
(* release_finished_trade_subscriptions.                                   *)

(* Mutant: the decision is taken outside the order lock. *)
claim_finished_trade_release_unlocked ==
    /\ releases > 0 /\ ~owned /\ releases' = releases - 1
    /\ IF row = "over" /\ claim # 0
       THEN owned' = TRUE /\ claim' = 0 /\ raced' = (raced \/ InTransit)
       ELSE UNCHANGED <<owned, claim, raced>>
    /\ UNCHANGED <<row, node, lock, gen, task, req, switches, ends>>

(* Under the order lock, and only for a row that is over: the claim goes.  *)
claim_finished_trade_release ==
    /\ lock = "free" /\ releases > 0 /\ releases' = releases - 1
    /\ IF row = "over" /\ claim # 0
       THEN /\ lock' = "release" /\ owned' = TRUE /\ claim' = 0
            /\ raced' = (raced \/ InTransit)
       ELSE UNCHANGED <<lock, owned, claim, raced>>
    /\ UNCHANGED <<row, node, gen, task, req, switches, ends>>

(* Still under the lock. *)
close_released ==
    /\ owned
    /\ req' = None /\ owned' = FALSE
    /\ lock' = IF lock = "release" THEN "free" ELSE lock
    /\ UNCHANGED <<row, node, claim, gen, task, releases, switches, ends, raced>>

-----------------------------------------------------------------------------
Taking == persist_confirmed_take \/ subscribe_single_order

Ending == trade_ends \/ terminal_replayed

watcher(g) == start(g) \/ opened(g) \/ event(g) \/ idle_timeout(g)
                \/ release_single_order_task(g) \/ close(g)

Releasing == claim_finished_trade_release \/ close_released

Next ==
    \/ Taking \/ Ending \/ Releasing
    \/ \E n \in Nodes : set_active_node(n)
    \/ \E g \in Gens : watcher(g)

Spec == Init /\ [][Next]_vars

-----------------------------------------------------------------------------
(* Properties.                                                             *)

(* What a task that owns the order relies on: the REQ it listens to is     *)
(* open under its filter, and the id it is about to open is free.          *)
Served(g) ==
    Current(g) => /\ At(g, "listening") => req = task[g].watched
                  /\ At(g, "opening") /\ ~task[g].replaced => req = None

(* No task that was superseded and no release of the order's earlier trade *)
(* takes the REQ from the task that owns the order, or leaves one in its   *)
(* way (single_order_tasks: "whichever exited first would unsubscribe the  *)
(* REQ the other relies on"; claim_finished_trade_release: "this runs      *)
(* wholly before it or wholly after").  Not so when a claim changes hands  *)
(* between the two steps of an exit, or before its task subscribed.        *)
WatcherOwnsReq == raced \/ \A g \in Gens : Served(g)

(* An open REQ has somebody who will close or take it over: relays cap the *)
(* REQs of a client, and a leaked one would make the next open fail.       *)
ReqHasOwner ==
    req # None => claim # 0 \/ owned \/ raced \/ \E g \in Gens : At(g, "closing")

(* What the documentation of single_order_tasks says of every retake: "the *)
(* new task re-opens and owns it".                                         *)
RetakeOwnsReq == \A g \in Gens : Served(g)
=============================================================================
