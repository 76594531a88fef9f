----------------------------- MODULE EscrowMode ------------------------------
(* Whether the node in use settles by Cashu (src/rust/src/mostro/escrow_mode.rs)*)
(* with the developer's two overrides and the screen that shows the answer     *)
(* (api/escrow.rs).  Every global has a lock of its own, a change wakes the    *)
(* screen after its lock is released, and the screen reads the globals one by  *)
(* one.                                                                        *)
EXTENDS Naturals

CONSTANTS Nodes, First,
          Says,        \* what a node's info event says: "unknown" (no tag), "lightning",
                       \* "cashu", or "cashu@mint" with the node's own mint
          Tasks,       \* node switches and Onlines
          Setters,     \* calls of the two override setters
          MaxMoves     \* switches, Onlines, override changes, restarts

VARIABLES active,
          tags,        \* TAGS: what was said and by which node
          overrides,   \* OVERRIDES: force, and the mint ("own" is none)
          saved,       \* the two settings rows
          task, setter,
          woken,       \* the screen has a change to read
          screen,      \* its snapshot under way
          shown,       \* the last snapshot
          moves,
          crossed,     \* history: a store checked its node before a switch
          doubled      \* history: fields two calls set at once

vars == <<active, tags, overrides, saved, task, setter, woken, screen, shown, moves, crossed, doubled>>

None == [node |-> First, said |-> "unset"]
Overrides == [force : BOOLEAN, mint : {"own", "dev"}]
Auto == [force |-> FALSE, mint |-> "own"]

(* Unset and a tagless node resolve alike. *)
Mode(t) == CASE t.said \in {"unset", "unknown"} -> "unknown"
             [] t.said = "lightning" -> "lightning"
             [] OTHER -> "cashu"

(* override > tag; the mint resolves on its own, with the same precedence. *)
resolve(t, o) ==
    LET mode == IF o.force THEN "cashu" ELSE Mode(t)
        mint == IF o.mint = "dev" THEN "dev" ELSE IF t.said = "cashu@mint" THEN t.node ELSE "none"
    IN  [mode |-> mode, mint |-> mint, overridden |-> o.force /\ Mode(t) # "cashu"]

(* A node that says Cashu and names no mint is not usable. *)
is_cashu_usable(r) == r.mode = "cashu" /\ r.mint # "none"

Snapshot(t, o, o2) ==
    LET r == resolve(t, o) IN
    [mode |-> r.mode, mint |-> r.mint, available |-> is_cashu_usable(r),
     overridden |-> r.overridden, over |-> o2]

Away == [pc |-> "away", tags |-> None, over |-> Auto]
NoTask == [pc |-> "idle", node |-> First, got |-> "unset"]
NoSetter == [pc |-> "idle", field |-> "force", o |-> Auto]

TypeOK ==
    /\ active \in Nodes /\ tags \in [node : Nodes, said : Says \cup {"unset"}]
    /\ overrides \in Overrides /\ saved \in Overrides
    /\ \A t \in Tasks : /\ task[t].pc \in {"idle", "clear", "wake", "ask", "answer", "store", "told"}
                        /\ task[t].node \in Nodes /\ task[t].got \in Says \cup {"unset"}
    /\ \A s \in Setters : /\ setter[s].pc \in {"idle", "persist", "update", "wake"}
                          /\ setter[s].field \in {"force", "mint"} /\ setter[s].o \in Overrides
    /\ woken \in BOOLEAN
    /\ screen.pc \in {"away", "tags", "over", "again"} /\ screen.over \in Overrides
    /\ shown.over \in Overrides /\ shown.mode \in {"unknown", "lightning", "cashu"}
    /\ moves \in 0 .. MaxMoves /\ crossed \in BOOLEAN
    /\ doubled \subseteq {"force", "mint"}

Init ==
    /\ active = First /\ tags = None /\ overrides = Auto /\ saved = Auto
    /\ task = [t \in Tasks |-> NoTask] /\ setter = [s \in Setters |-> NoSetter]
    /\ woken = FALSE /\ screen = Away /\ shown = Snapshot(None, Auto, Auto)
    /\ moves = 0 /\ crossed = FALSE /\ doubled = {}

Move == moves < MaxMoves /\ moves' = moves + 1
view == <<woken, screen, shown>>
prefs == <<overrides, saved, setter, doubled>>

(* The slot holds no node: only what was said, and the mint, is compared. *)
Content(t) == <<t.said, IF t.said = "cashu@mint" THEN t.node ELSE First>>

(* The slot is replaced under its lock; the screen is told only of a change. *)
Put(t, new, yes, no) ==
    /\ tags' = new
    /\ task' = [task EXCEPT ![t] = IF Content(new) # Content(tags) THEN yes ELSE no]

set_active_mostro_node(t) ==
    /\ task[t].pc = "idle" /\ Move
    /\ \E n \in Nodes \ {active} :
         active' = n /\ task' = [task EXCEPT ![t] = [NoTask EXCEPT !.pc = "clear"]]
    /\ crossed' = (crossed \/ \E u \in Tasks : task[u].pc = "store")
    /\ UNCHANGED <<tags, prefs, view>>

(* clear, in refresh_subscriptions_for_active_node. *)
clear(t) ==
    /\ task[t].pc = "clear"
    /\ Put(t, None, [NoTask EXCEPT !.pc = "wake"], [NoTask EXCEPT !.pc = "ask"])
    /\ UNCHANGED <<active, prefs, view, moves, crossed>>

on_pool_online(t) ==
    /\ task[t].pc = "idle" /\ Move
    /\ task' = [task EXCEPT ![t] = [NoTask EXCEPT !.pc = "ask"]]
    /\ UNCHANGED <<active, tags, prefs, view, crossed>>

fetch_and_set_node_capabilities(t) ==
    /\ task[t].pc = "ask"
    /\ task' = [task EXCEPT ![t].pc = "answer", ![t].node = active]
    /\ UNCHANGED <<active, tags, prefs, view, moves, crossed>>

(* No event and a failure both forget what was known: "unset". *)
apply_node_capabilities(t) ==
    /\ task[t].pc = "answer"
    /\ IF task[t].node # active THEN task' = [task EXCEPT ![t] = NoTask]
       ELSE \E got \in Says \cup {"unset"} :
              task' = [task EXCEPT ![t].pc = "store", ![t].got = got]
    /\ UNCHANGED <<active, tags, prefs, view, moves, crossed>>

set_from_tags(t) ==
    /\ task[t].pc = "store"
    /\ LET new == IF task[t].got = "unset" THEN None
                  ELSE [node |-> task[t].node, said |-> task[t].got] IN
       Put(t, new, [NoTask EXCEPT !.pc = "told"], NoTask)
    /\ UNCHANGED <<active, prefs, view, moves, crossed>>

(* The send comes after the lock of the slot is released. *)
notify(t) ==
    /\ task[t].pc \in {"wake", "told"} /\ woken' = TRUE
    /\ task' = [task EXCEPT ![t] = IF task[t].pc = "wake" THEN [NoTask EXCEPT !.pc = "ask"] ELSE NoTask]
    /\ UNCHANGED <<active, tags, prefs, screen, shown, moves, crossed>>

------------------------------------------------------------------------------
With(o, field, new) == [o EXCEPT ![field] = new[field]]

(* set_escrow_mode_override and set_cashu_mint_url_override: one field each. *)
set_override(s) ==
    /\ setter[s].pc = "idle" /\ Move
    /\ \E field \in {"force", "mint"}, o \in Overrides :
         /\ o = With(overrides, field, o)
         /\ setter' = [setter EXCEPT ![s] = [pc |-> "persist", field |-> field, o |-> o]]
         /\ doubled' = IF \E u \in Setters : setter[u].pc \in {"persist", "update"} /\ setter[u].field = field
                       THEN doubled \cup {field} ELSE doubled
    /\ UNCHANGED <<active, tags, overrides, saved, task, view, crossed>>

(* A write that fails ends the call before memory is touched. *)
persist(s) ==
    /\ setter[s].pc = "persist"
    /\ \/ /\ saved' = With(saved, setter[s].field, setter[s].o)
          /\ setter' = [setter EXCEPT ![s].pc = "update"]
       \/ setter' = [setter EXCEPT ![s] = NoSetter] /\ UNCHANGED saved
    /\ UNCHANGED <<active, tags, overrides, task, view, moves, crossed, doubled>>

(* Mutant: the whole struct is written back as it was read by the caller. *)
update_overrides_whole(s) ==
    /\ setter[s].pc = "update"
    /\ overrides' = setter[s].o
    /\ setter' = [setter EXCEPT ![s] = IF overrides' # overrides THEN [NoSetter EXCEPT !.pc = "wake"] ELSE NoSetter]
    /\ UNCHANGED <<active, tags, saved, task, view, moves, crossed, doubled>>

(* The read and the write of the field are under one lock. *)
update_overrides(s) ==
    /\ setter[s].pc = "update"
    /\ overrides' = With(overrides, setter[s].field, setter[s].o)
    /\ setter' = [setter EXCEPT ![s] = IF overrides' # overrides THEN [NoSetter EXCEPT !.pc = "wake"] ELSE NoSetter]
    /\ UNCHANGED <<active, tags, saved, task, view, moves, crossed, doubled>>

notify_override(s) ==
    /\ setter[s].pc = "wake" /\ woken' = TRUE
    /\ setter' = [setter EXCEPT ![s] = NoSetter]
    /\ UNCHANGED <<active, tags, overrides, saved, task, screen, shown, moves, crossed, doubled>>

------------------------------------------------------------------------------
(* EscrowModeStream::next wakes, however many changes it missed, and rebuilds  *)
(* the snapshot: the tags, the overrides for the resolution, and the overrides *)
(* once more for the fields that show them.                                    *)
next ==
    /\ screen.pc = "away" /\ woken /\ woken' = FALSE
    /\ screen' = [screen EXCEPT !.pc = "tags"]
    /\ UNCHANGED <<active, tags, prefs, task, shown, moves, crossed>>

snapshot ==
    /\ \/ /\ screen.pc = "tags" /\ screen' = [screen EXCEPT !.pc = "over", !.tags = tags]
          /\ UNCHANGED shown
       \/ /\ screen.pc = "over" /\ screen' = [screen EXCEPT !.pc = "again", !.over = overrides]
          /\ UNCHANGED shown
       \/ /\ screen.pc = "again" /\ screen' = Away
          /\ shown' = Snapshot(screen.tags, screen.over, overrides)
    /\ UNCHANGED <<active, tags, prefs, task, woken, moves, crossed>>

(* A start reads the rows before the pool runs; the screen asks once. *)
rehydrate_escrow_overrides ==
    /\ Move /\ overrides' = saved /\ tags' = None
    /\ task' = [t \in Tasks |-> NoTask] /\ setter' = [s \in Setters |-> NoSetter]
    /\ woken' = FALSE /\ screen' = Away /\ shown' = Snapshot(None, saved, saved)
    /\ crossed' = FALSE /\ doubled' = {}
    /\ UNCHANGED <<active, saved>>

Next ==
    \/ \E t \in Tasks :
         \/ set_active_mostro_node(t) \/ clear(t) \/ on_pool_online(t)
         \/ fetch_and_set_node_capabilities(t) \/ apply_node_capabilities(t)
         \/ set_from_tags(t) \/ notify(t)
    \/ \E s \in Setters : set_override(s) \/ persist(s) \/ update_overrides(s) \/ notify_override(s)
    \/ next \/ snapshot \/ rehydrate_escrow_overrides

Spec == Init /\ [][Next]_vars

------------------------------------------------------------------------------
Switching == \E t \in Tasks : task[t].pc = "clear"

(* Cashu is open only because the node in use said so, mint and all, or the    *)
(* developer did: one node's mode never carries over to another, once the      *)
(* switch has cleared the slot (escrow_mode.rs: clear).  A store on another    *)
(* thread that checked its node before the switch is the exception.            *)
CashuByOwnNode ==
    is_cashu_usable(resolve(tags, overrides)) /\ ~Switching /\ ~crossed
      => \/ tags.node = active /\ Mode(tags) = "cashu"
         \/ overrides.force /\ (overrides.mint = "dev" \/ tags.node = active)

(* With no change under way or unread the screen shows what resolves now: no   *)
(* change goes by unseen, also when several are coalesced or one lands while   *)
(* the snapshot is being read (api/escrow.rs: next).                           *)
ScreenCurrent ==
    /\ ~woken /\ screen.pc = "away"
    /\ \A t \in Tasks : task[t].pc \notin {"wake", "told"}
    /\ \A s \in Setters : setter[s].pc # "wake"
    => shown = Snapshot(tags, overrides, overrides)

(* A setter of one field never discards what another one set: with none under  *)
(* way, memory holds what a restart will read, but for a field two calls set   *)
(* at once (update_overrides).                                                 *)
NothingDiscarded ==
    (\A s \in Setters : setter[s].pc \notin {"persist", "update"})
      => \A f \in {"force", "mint"} \ doubled : overrides[f] = saved[f]
=============================================================================
