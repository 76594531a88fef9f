----------------------------- MODULE OnlineSync -----------------------------
(***************************************************************************)
(* From relay statuses to the work that follows "the pool is online":      *)
(* the status monitor and add/remove publish a derived state through one   *)
(* gate (relay_pool.rs), a watcher turns each Online into a request        *)
(* (api/nostr.rs), and requests are coalesced into runs (coalesce.rs).     *)
(* Beside it the resume pass (api/nostr.rs resync): one pass at a time,    *)
(* and a call that waited while a pass ended reports that pass's outcome.  *)
(***************************************************************************)
EXTENDS Integers, Sequences, FiniteSets

CONSTANTS Relays,
          Capacity,    \* of the connection-state channel
          MaxMoves,    \* bound on status changes of the relays' sockets
          Callers,     \* concurrent calls of resync
          MaxPasses    \* bound on its passes

VARIABLES listed,      \* relays in the pool
          socket,      \* what the SDK knows of each
          status,      \* what the pool last recorded of each
          publishing,  \* publishers that changed the list and have yet to send
          last,        \* the gate: the state last sent
          chan,        \* states the watcher has not received
          watcher,     \* none, subscribed, watching
          armed,       \* a run waits for its window
          runs,        \* runs in flight
          unserved,    \* history: the pool became Online and no run began since
          misread,     \* history: the state read was recorded but not yet sent
          moves,
          passes,      \* passes finished (generation)
          begun,       \* number of the pass that runs, 0 when none
          caller       \* each call of resync: where it is, what it saw, its answer

poolVars == <<listed, socket, status, publishing, last, chan, moves>>
syncVars == <<watcher, armed, runs, misread>>
vars == <<listed, socket, status, publishing, last, chan, moves,
          watcher, armed, runs, unserved, misread>>
pullVars == <<passes, begun, caller>>

States == {"Online", "Reconnecting", "Offline"}
Statuses == {"Connecting", "Connected", "Disconnected"}
Publishers == {"monitor", "api"}

TypeOK ==
    /\ listed \subseteq Relays /\ listed # {}
    /\ socket \in [Relays -> Statuses] /\ status \in [Relays -> Statuses]
    /\ publishing \subseteq Publishers
    /\ last \in States
    /\ chan \in Seq(States) /\ Len(chan) <= Capacity
    /\ watcher \in {"none", "subscribed", "watching"}
    /\ armed \in BOOLEAN /\ unserved \in BOOLEAN /\ misread \in BOOLEAN
    /\ runs \in Nat /\ moves \in 0..MaxMoves

derive_connection_state(st, rs) ==
    CASE \E r \in rs : st[r] = "Connected" -> "Online"
      [] ~(\E r \in rs : st[r] = "Connected") /\ \E r \in rs : st[r] = "Connecting" -> "Reconnecting"
      [] OTHER -> "Offline"

(* RelayPool::new has sent the initial state; nobody listens yet. *)
Init ==
    /\ listed = Relays
    /\ socket = [r \in Relays |-> "Connecting"] /\ status = socket
    /\ publishing = {} /\ last = "Reconnecting" /\ chan = <<>>
    /\ watcher = "none" /\ armed = FALSE /\ runs = 0 /\ unserved = FALSE /\ moves = 0
    /\ misread = FALSE

-----------------------------------------------------------------------------
(* Publishers.                                                             *)

socket_moves(r) ==
    /\ r \in listed /\ moves < MaxMoves
    /\ \E s \in Statuses \ {socket[r]} : socket' = [socket EXCEPT ![r] = s]
    /\ moves' = moves + 1
    /\ UNCHANGED <<listed, status, publishing, last, chan, syncVars, unserved>>

(* One relay of a round of the monitor: look, record. *)
monitor_look(r) ==
    /\ r \in listed /\ status[r] # socket[r]
    /\ status' = [status EXCEPT ![r] = socket[r]]
    /\ publishing' = publishing \cup {"monitor"}
    /\ UNCHANGED <<listed, socket, last, chan, moves, syncVars, unserved>>

(* The pool keeps one relay; a relay added starts as Connecting. *)
add_relay_internal(r) ==
    /\ r \notin listed /\ moves < MaxMoves /\ moves' = moves + 1
    /\ listed' = listed \cup {r}
    /\ socket' = [socket EXCEPT ![r] = "Connecting"]
    /\ status' = [status EXCEPT ![r] = "Connecting"]
    /\ publishing' = publishing \cup {"api"}
    /\ UNCHANGED <<last, chan, syncVars, unserved>>

remove_relay(r) ==
    /\ r \in listed /\ Cardinality(listed) > 1
    /\ moves < MaxMoves /\ moves' = moves + 1
    /\ listed' = listed \ {r}
    /\ publishing' = publishing \cup {"api"}
    /\ UNCHANGED <<socket, status, last, chan, syncVars, unserved>>

(* Mutant: the gate is the monitor's own; add and remove send directly.     *)
broadcast_monitor_gate(p) ==
    LET state == derive_connection_state(status, listed) IN
    /\ p \in publishing /\ publishing' = publishing \ {p}
    /\ IF p = "monitor" /\ state = last
       THEN UNCHANGED <<last, chan, unserved>>
       ELSE /\ last' = IF p = "monitor" THEN state ELSE last
            /\ unserved' = (unserved \/ state = "Online")
            /\ chan' = IF watcher = "none" THEN chan
                       ELSE Append(IF Len(chan) = Capacity THEN Tail(chan) ELSE chan, state)
    /\ UNCHANGED <<listed, socket, status, moves, syncVars>>

(* broadcast_if_changed: derive and send under the read guard; a full      *)
(* channel drops its oldest state.                                         *)
broadcast_if_changed(p) ==
    LET state == derive_connection_state(status, listed) IN
    /\ p \in publishing /\ publishing' = publishing \ {p}
    /\ IF state = last
       THEN UNCHANGED <<last, chan, unserved>>
       ELSE /\ last' = state
            /\ unserved' = (unserved \/ state = "Online")
            /\ chan' = IF watcher = "none" THEN chan
                       ELSE Append(IF Len(chan) = Capacity THEN Tail(chan) ELSE chan, state)
    /\ UNCHANGED <<listed, socket, status, moves, syncVars>>

-----------------------------------------------------------------------------
(* The watcher and its runs.                                               *)

subscribe ==
    /\ watcher = "none" /\ watcher' = "subscribed"
    /\ UNCHANGED <<poolVars, armed, runs, misread, unserved>>

(* The window is disarmed before the run starts. *)
window_elapses ==
    /\ armed /\ armed' = FALSE
    /\ runs' = runs + 1 /\ unserved' = FALSE
    /\ UNCHANGED <<poolVars, watcher, misread>>

run_ends ==
    /\ runs > 0 /\ runs' = runs - 1
    /\ UNCHANGED <<poolVars, watcher, misread, armed, unserved>>

(* Mutant: the state is not read, only transitions count. *)
start_watching_blind ==
    /\ watcher = "subscribed" /\ watcher' = "watching"
    /\ UNCHANGED <<poolVars, armed, runs, misread, unserved>>

(* The state read after subscribing, handed to the watcher. *)
start_watching ==
    /\ watcher = "subscribed" /\ watcher' = "watching"
    /\ armed' = (armed \/ derive_connection_state(status, listed) = "Online")
    /\ misread' = (derive_connection_state(status, listed) # last)
    /\ UNCHANGED <<poolVars, runs, unserved>>

receive_state ==
    /\ watcher = "watching" /\ chan # <<>>
    /\ chan' = Tail(chan)
    /\ armed' = (armed \/ Head(chan) = "Online")
    /\ UNCHANGED <<listed, socket, status, publishing, last, moves, watcher, runs, misread, unserved>>

-----------------------------------------------------------------------------
Next ==
    \/ \E r \in Relays : \/ socket_moves(r) \/ monitor_look(r)
                         \/ add_relay_internal(r) \/ remove_relay(r)
    \/ \E p \in Publishers : broadcast_if_changed(p)
    \/ subscribe \/ start_watching \/ receive_state \/ window_elapses \/ run_ends

-----------------------------------------------------------------------------
(* The resume pass.  seen: the generation loaded; from: history, the pass  *)
(* that was running when the call was made; pass: the one it reports.      *)
CallRecords == [at : {"idle", "waiting", "running", "answered"},
                seen : 0..MaxPasses, from : 0..MaxPasses, pass : 0..MaxPasses]

PullTypes ==
    /\ passes \in 0..MaxPasses /\ begun \in 0..MaxPasses
    /\ caller \in [Callers -> CallRecords]

NoCall == [at |-> "idle", seen |-> 0, from |-> 0, pass |-> 0]

PullInit == passes = 0 /\ begun = 0 /\ caller = [c \in Callers |-> NoCall]

At(c, at) == caller[c].at = at

resync(c) ==
    /\ At(c, "idle")
    /\ caller' = [caller EXCEPT ![c] = [at |-> "waiting", seen |-> passes,
                                        from |-> begun, pass |-> 0]]
    /\ UNCHANGED <<passes, begun>>

Answer(c, pass) == caller' = [caller EXCEPT ![c].at = "answered", ![c].pass = pass]

Run(c) ==
    /\ passes < MaxPasses /\ begun' = passes + 1
    /\ caller' = [caller EXCEPT ![c].at = "running"]

(* Mutant: any earlier outcome will do. *)
take_lock_any(c) ==
    /\ At(c, "waiting") /\ begun = 0
    /\ IF passes > 0 THEN Answer(c, passes) /\ UNCHANGED begun ELSE Run(c)
    /\ UNCHANGED passes

take_lock(c) ==
    /\ At(c, "waiting") /\ begun = 0
    /\ IF passes # caller[c].seen THEN Answer(c, passes) /\ UNCHANGED begun ELSE Run(c)
    /\ UNCHANGED passes

pass_ends(c) ==
    /\ At(c, "running") /\ passes' = begun /\ begun' = 0
    /\ Answer(c, begun)

return(c) ==
    /\ At(c, "answered") /\ caller' = [caller EXCEPT ![c] = NoCall]
    /\ UNCHANGED <<passes, begun>>

PullNext == \E c \in Callers : resync(c) \/ take_lock(c) \/ pass_ends(c) \/ return(c)

Spec ==
    /\ Init /\ PullInit
    /\ [][\/ Next /\ UNCHANGED pullVars
          \/ PullNext /\ UNCHANGED vars]_<<vars, pullVars>>

-----------------------------------------------------------------------------
(* Properties.                                                             *)

(* An Online that no run has served yet is on its way to one: "the first   *)
(* Online has no receiver" and a duplicate dropped at the wrong gate would *)
(* leave book, capabilities and outbox waiting for a relay to drop.  The   *)
(* exception: the state read at the start was recorded by a round of the   *)
(* monitor that had not sent it, and sent nothing in the end.              *)
OnlineIsServed ==
    unserved /\ last = "Online" =>
        \/ watcher # "watching" /\ derive_connection_state(status, listed) = "Online"
        \/ armed \/ misread
        \/ \E i \in 1..Len(chan) : chan[i] = "Online"
        \/ publishing # {}
        \/ \E r \in listed : status[r] # socket[r]

(* What the channel says last is what the gate let through last, so a      *)
(* listener that catches up knows the pool's state.                        *)
ListenerUpToDate == chan # <<>> => chan[Len(chan)] = last

(* "Coalesced, a burst costs one run, plus at most one more for whatever   *)
(* arrived while it was in flight" (initialize).                           *)
OneMoreRun == runs <= 2

(* A call never reports an outcome that was ready before it: the pass it   *)
(* reports ended after the call was made.                                  *)
AnsweredAfterCall == \A c \in Callers : At(c, "answered") => caller[c].pass > caller[c].seen

(* "It started after the call was made, so its result is at least as fresh *)
(* as a new pass would be" (resync_with).                                  *)
CoalescedIsFresh == \A c \in Callers : At(c, "answered") => caller[c].pass > caller[c].from
=============================================================================
