------------------------------ MODULE LiveSubs ------------------------------
(***************************************************************************)
(* Long-lived relay subscriptions (nostr/live_subs.rs) and the polling     *)
(* monitor of the relay pool that triggers their repair (relay_pool.rs).   *)
(*                                                                         *)
(* The SDK keeps a registry per relay and sends it again on a reconnect;   *)
(* a REQ issued while the relay is down is dropped from that registry.     *)
(* LiveSubs records what is wanted; a repair re-issues what a relay lacks. *)
(* open, replace and close hold one lock and are one step each; a repair   *)
(* takes the lock once for its snapshot and once per subscription.         *)
(***************************************************************************)
EXTENDS Integers, FiniteSets

CONSTANTS Relays, Ids, Filters,
          Budget,        \* repairs of a CLOSED subscription per connection
          MaxDrops,      \* bound on lost connections
          MaxCalls       \* bound on calls of open, replace and close

VARIABLES desired,   \* what is wanted: a filter per id
          held,      \* each relay's registry
          up,        \* whether its socket is connected
          seen,      \* relays the monitor last saw connected
          notices,   \* relays reported connected, not yet received
          lagged,    \* the repair task's channel lost reports
          sweep,     \* repairs under way: the monitor's and a CLOSED one's
          timers,    \* repairs waiting for their delay
          spent,     \* repairs used since the relay connected
          drops, calls,
          refused,   \* history: REQs a connected relay did not take
          missed     \* history: REQs lost on a drop the monitor has not seen

registry == <<desired, held>>
repairs == <<notices, lagged, sweep, timers, spent>>
bounds == <<drops, calls>>
vars == <<desired, held, up, seen, notices, lagged, sweep, timers, spent,
          drops, calls, refused, missed>>

None == "none"
Pairs == Relays \X Ids

(* relays: still to visit; ids: candidates left on the relay visited. *)
Sweepers == {"monitor", "closed"}
Resting == [relays |-> {}, relay |-> None, ids |-> {}]

TypeOK ==
    /\ desired \in [Ids -> Filters \cup {None}]
    /\ held \in [Relays -> [Ids -> Filters \cup {None}]]
    /\ up \subseteq Relays /\ seen \subseteq Relays /\ notices \subseteq Relays
    /\ lagged \in BOOLEAN
    /\ sweep \in [Sweepers -> [relays : SUBSET Relays, relay : Relays \cup {None},
                               ids : SUBSET Ids]]
    /\ timers \subseteq Pairs /\ refused \subseteq Pairs /\ missed \subseteq Pairs
    /\ spent \in [Pairs -> 0..Budget]
    /\ drops \in 0..MaxDrops /\ calls \in 0..MaxCalls

Init ==
    /\ desired = [i \in Ids |-> None]
    /\ held = [r \in Relays |-> desired]
    /\ up \in SUBSET Relays /\ seen = {}
    /\ notices = {} /\ lagged = FALSE
    /\ sweep = [s \in Sweepers |-> Resting]
    /\ timers = {} /\ spent = [p \in Pairs |-> 0]
    /\ drops = 0 /\ calls = 0
    /\ refused = {} /\ missed = {}

Lacking(r, i) == desired[i] # None /\ held[r][i] # desired[i]

-----------------------------------------------------------------------------
(* The calls.                                                              *)

(* REQ for i under filter f, accepted by the relays in took: a relay must  *)
(* be connected, and the SDK refuses an id it already has (free: the       *)
(* relays that have none).                                                 *)
issue(i, f, took, free) ==
    /\ took \subseteq up \cap free
    /\ held' = [r \in Relays |-> [held[r] EXCEPT
                  ![i] = IF r \in took THEN f ELSE IF r \in free THEN None ELSE @]]

(* History: which REQs for i failed, and whether anyone will notice. *)
Note(i, failed) ==
    LET others(S) == {p \in S : p[2] # i}
    IN /\ refused' = others(refused) \cup {<<r, i>> : r \in failed \cap up}
       /\ missed' = others(missed) \cup {<<r, i>> : r \in (failed \ up) \cap seen}

Calling == calls < MaxCalls /\ calls' = calls + 1

(* Nothing is recorded when no relay took the REQ. *)
open(i, f) ==
    LET free == {r \in Relays : held[r][i] = None}
    IN \E took \in SUBSET (up \cap free) :
         /\ issue(i, f, took, free)
         /\ desired' = IF took = {} THEN desired ELSE [desired EXCEPT ![i] = f]
         /\ IF took = {} THEN UNCHANGED <<refused, missed>> ELSE Note(i, Relays \ took)

(* The id is closed first; with every relay down the REQ lands nowhere. *)
replace(i, f) ==
    \E took \in SUBSET up :
       /\ issue(i, f, took, Relays)
       /\ desired' = [desired EXCEPT ![i] = f]
       /\ Note(i, Relays \ took)

close(i) ==
    /\ desired' = [desired EXCEPT ![i] = None]
    /\ held' = [r \in Relays |-> [held[r] EXCEPT ![i] = None]]
    /\ Note(i, {})

(* A caller opens what is not open yet; it replaces to change a filter. *)
call(i) ==
    /\ Calling
    /\ \/ close(i)
       \/ \E f \in Filters : replace(i, f)
       \/ \E f \in Filters : (desired[i] \in {None, f} /\ open(i, f))
    /\ UNCHANGED <<up, seen, repairs, drops>>

-----------------------------------------------------------------------------
(* Relays and the status monitor, which polls.                             *)

connect(r) ==
    /\ r \notin up
    /\ up' = up \cup {r}
    /\ UNCHANGED <<registry, seen, repairs, bounds, refused, missed>>

disconnect(r) ==
    /\ r \in up /\ drops < MaxDrops
    /\ up' = up \ {r} /\ drops' = drops + 1
    /\ UNCHANGED <<registry, seen, repairs, calls, refused, missed>>

(* A report that the channel has no room for costs older ones. *)
send_connected(r) ==
    \/ notices' = notices \cup {r} /\ UNCHANGED lagged
    \/ notices' = {r} /\ notices # {} /\ lagged' = TRUE

poll(r) ==
    /\ r \in (up \ seen) \cup (seen \ up)
    /\ IF r \in up
       THEN /\ seen' = seen \cup {r}
            /\ send_connected(r)
            /\ refused' = {p \in refused : p[1] # r}
       ELSE /\ seen' = seen \ {r}
            /\ UNCHANGED <<notices, lagged, refused>>
    /\ missed' = {p \in missed : p[1] # r}
    /\ UNCHANGED <<registry, up, sweep, timers, spent, bounds>>

-----------------------------------------------------------------------------
(* Repair.                                                                 *)

(* A sweep with no candidate left goes to its next relay. *)
SetSweep(s, relays, r, ids) ==
    sweep' = [sweep EXCEPT ![s] = [relays |-> relays, ids |-> ids,
                                   relay |-> IF ids = {} THEN None ELSE r]]

(* spawn_repair: a relay that connected starts with a full budget. *)
receive_connected(r) ==
    /\ r \in notices /\ sweep["monitor"] = Resting
    /\ notices' = notices \ {r}
    /\ spent' = [p \in Pairs |-> IF p[1] = r THEN 0 ELSE spent[p]]
    /\ SetSweep("monitor", {r}, None, {})
    /\ UNCHANGED <<registry, up, seen, lagged, timers, bounds, refused, missed>>

(* Mutant: a lag is skipped. *)
skip_lag ==
    /\ lagged /\ sweep["monitor"] = Resting
    /\ lagged' = FALSE
    /\ UNCHANGED <<registry, up, seen, notices, sweep, timers, spent, bounds, refused, missed>>

(* Reports were lost: repair every relay. *)
receive_lagged ==
    /\ lagged /\ sweep["monitor"] = Resting
    /\ lagged' = FALSE
    /\ SetSweep("monitor", Relays, None, {})
    /\ UNCHANGED <<registry, up, seen, notices, timers, spent, bounds, refused, missed>>

(* What a repair that stops leaves behind on a relay that is down. *)
Abandoned(r, ids) ==
    missed' = missed \cup {<<r, i>> : i \in {j \in ids : r \in seen \ up /\ Lacking(r, j)}}

(* repair_relay: the snapshot of what the relay lacks. *)
snapshot(s, r) ==
    /\ r \in sweep[s].relays /\ sweep[s].relay = None
    /\ LET missing == {i \in Ids : Lacking(r, i)} IN
       /\ SetSweep(s, sweep[s].relays \ {r}, r, IF r \in up THEN missing ELSE {})
       /\ Abandoned(r, missing)
    /\ UNCHANGED <<registry, up, seen, notices, lagged, timers, spent, bounds, refused>>

(* Mutant: the repair trusts its snapshot.  It re-issues what was wanted.  *)
repair_unchecked(s, i) ==
    LET r == sweep[s].relay IN
    /\ r # None /\ i \in sweep[s].ids
    /\ SetSweep(s, sweep[s].relays, r, sweep[s].ids \ {i})
    /\ \E f \in Filters : held' = [held EXCEPT ![r][i] = f]
    /\ UNCHANGED <<desired, up, seen, notices, lagged, timers, spent, bounds, refused, missed>>

(* One candidate, judged again under the lock; a relay that is down ends   *)
(* the sweep of it, and one that refuses or times out keeps nothing.       *)
repair(s, i) ==
    LET r == sweep[s].relay IN
    /\ r # None /\ i \in sweep[s].ids
    /\ \/ /\ ~Lacking(r, i)
          /\ SetSweep(s, sweep[s].relays, r, sweep[s].ids \ {i})
          /\ UNCHANGED <<held, refused, missed>>
       \/ /\ Lacking(r, i) /\ r \notin up
          /\ SetSweep(s, sweep[s].relays, None, {})
          /\ Abandoned(r, sweep[s].ids)
          /\ UNCHANGED <<held, refused>>
       \/ /\ Lacking(r, i) /\ r \in up
          /\ SetSweep(s, sweep[s].relays, r, sweep[s].ids \ {i})
          /\ \/ /\ held' = [held EXCEPT ![r][i] = desired[i]]
                /\ refused' = refused \ {<<r, i>>} /\ missed' = missed \ {<<r, i>>}
             \/ /\ held' = [held EXCEPT ![r][i] = None]
                /\ refused' = refused \cup {<<r, i>>} /\ UNCHANGED missed
    /\ UNCHANGED <<desired, up, seen, notices, lagged, timers, spent, bounds>>

(* Mutant: the budget is not counted. *)
next_delay_unbounded(r, i) ==
    /\ timers' = timers \cup {<<r, i>>}
    /\ UNCHANGED <<spent, refused>>

(* closed_repairs: a growing delay, and after the last one none. *)
next_delay(r, i) ==
    IF spent[<<r, i>>] < Budget
    THEN /\ spent' = [spent EXCEPT ![<<r, i>>] = @ + 1]
         /\ timers' = timers \cup {<<r, i>>}
         /\ UNCHANGED refused
    ELSE refused' = refused \cup {<<r, i>>} /\ UNCHANGED <<spent, timers>>

(* The relay closes i on its own; the SDK forgets it there. *)
on_closed(r, i) ==
    /\ r \in up /\ held[r][i] # None
    /\ held' = [held EXCEPT ![r][i] = None]
    /\ IF desired[i] = None THEN UNCHANGED <<spent, timers, refused>> ELSE next_delay(r, i)
    /\ UNCHANGED <<desired, up, seen, notices, lagged, sweep, bounds, missed>>

closed_delay_elapsed(r, i) ==
    /\ <<r, i>> \in timers /\ sweep["closed"] = Resting
    /\ timers' = timers \ {<<r, i>>}
    /\ SetSweep("closed", {r}, None, {})
    /\ UNCHANGED <<registry, up, seen, notices, lagged, spent, bounds, refused, missed>>

-----------------------------------------------------------------------------
Environment == \E r \in Relays : \/ connect(r) \/ disconnect(r)
                                 \/ \E i \in Ids : on_closed(r, i)

sweep_step(s) ==
    \/ \E r \in Relays : snapshot(s, r)
    \/ \E i \in Ids : repair(s, i)

Repairing ==
    \/ \E r \in Relays : poll(r) \/ receive_connected(r)
    \/ receive_lagged
    \/ \E s \in Sweepers : sweep_step(s)
    \/ \E r \in Relays, i \in Ids : closed_delay_elapsed(r, i)

Next == (\E i \in Ids : call(i)) \/ Environment \/ Repairing

Spec == Init /\ [][Next]_vars

-----------------------------------------------------------------------------
(* Properties.                                                             *)

(* No relay holds a subscription nobody wants: a repair must not resurrect *)
(* what close() ended, nor a filter that replace() superseded (repair_     *)
(* relay: "a stale snapshot never overwrites it").                         *)
NothingUnwanted == \A r \in Relays, i \in Ids : held[r][i] \in {None, desired[i]}

(* Somebody is going to repair i on r. *)
RepairAhead(r, i) ==
    \/ r \notin seen \/ r \in notices \/ lagged
    \/ \E s \in Sweepers : r \in sweep[s].relays \/ (r = sweep[s].relay /\ i \in sweep[s].ids)
    \/ \E j \in Ids : <<r, j>> \in timers

(* What a connected relay lacks it will be given, unless it refused it     *)
(* while it was connected, or dropped and came back between two polls of   *)
(* the monitor, which then reports no connection ("the moment it connects" *)
(* is the moment the monitor notices).                                     *)
WantedIsRepaired ==
    \A r \in up, i \in Ids :
        Lacking(r, i) => RepairAhead(r, i) \/ <<r, i>> \in refused \cup missed

(* A relay over its subscription cap closes whatever it is sent: the       *)
(* budget keeps repairs from turning into a REQ loop, so the registries    *)
(* stop changing once callers and connections do.                          *)
ClosedNotLooped == <>[][held' = held]_vars
=============================================================================
