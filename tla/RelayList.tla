----------------------------- MODULE RelayList ------------------------------
(***************************************************************************)
(* Which relays the app uses: the pool's list and blacklist                *)
(* (relay_pool.rs), their stored rows, and the kind 10002 lists the active *)
(* node announces (api/nostr.rs, relay_list.rs).  The sync of an announced *)
(* list is the event loop's, one at a time; so are, in this model, the     *)
(* user's calls.  Each takes the locks step by step and nothing keeps the  *)
(* steps of the one from coming between those of the other.                *)
(***************************************************************************)
EXTENDS Integers, Sequences, FiniteSets

CONSTANTS Urls,
          Default,     \* the compiled-in relay
          Announced,   \* the node's lists, one set of relays per generation
          MaxCalls, MaxSyncs, MaxRestarts   \* bounds

VARIABLES rows,        \* the pool's list, in order
          client,      \* relays registered with the SDK
          blacklist,
          stored,      \* the storage row of each relay
          user,        \* the user's call under way
          sync,        \* the sync under way
          seen,        \* newest generation applied
          newest,      \* history: newest generation that arrived this session
          fresh,       \* history: generations that arrived as the newest
          given,       \* history: announced relays whose removal was answered
          raced,       \* history: relays a call and a sync worked on at once
          calls, syncs, restarts

vars == <<rows, client, blacklist, stored, user, sync, seen, newest, fresh, given, raced,
          calls, syncs, restarts>>

None == "none"
Sources == {"Default", "UserAdded", "MostroDiscovered"}
Row(u, s) == [url |-> u, source |-> s]
Rows == [url : Urls, source : Sources]
Blacklisted == "Blacklisted"
RowsOf(S) == {r \in Rows : r.url \in S}
Listed == {rows[i].url : i \in 1..Len(rows)}
Idle == [at |-> None, url |-> Default, source |-> None]
NoSync == [at |-> None, todo |-> {}, now |-> {}, added |-> {}, rows |-> {}]

TypeOK ==
    /\ rows \in Seq(Rows) /\ client \subseteq Urls /\ blacklist \subseteq Urls
    /\ stored \in [Urls -> Sources \cup {None, Blacklisted}]
    /\ user \in [at : {None, "unblacklist", "register", "push", "save",
                       "take", "blacklist", "drop", "forget"},
                 url : Urls, source : Sources \cup {None}]
    /\ sync \in [at : {None, "plan", "register", "push", "collect", "save"},
                 todo : SUBSET Urls, now : SUBSET Urls, added : SUBSET Urls, rows : SUBSET Rows]
    /\ seen \in 0..Len(Announced) /\ newest \in 0..Len(Announced)
    /\ fresh \subseteq 1..Len(Announced) /\ given \subseteq Urls /\ raced \subseteq Urls

Init ==
    /\ rows = <<Row(Default, "Default")>> /\ client = {Default} /\ blacklist = {}
    /\ stored = [u \in Urls |-> IF u = Default THEN "Default" ELSE None]
    /\ user = Idle /\ sync = NoSync /\ seen = 0 /\ newest = 0 /\ fresh = {} /\ given = {}
    /\ raced = {} /\ calls = 0 /\ syncs = 0 /\ restarts = 0

heard == <<newest, fresh>>
counters == <<calls, syncs, restarts>>

-----------------------------------------------------------------------------
(* The user's calls.                                                       *)

(* Refused when the relay is listed. *)
add_relay(u) ==
    /\ user.at = None /\ calls < MaxCalls /\ calls' = calls + 1
    /\ u \notin Listed
    /\ user' = [at |-> "unblacklist", url |-> u, source |-> "UserAdded"]
    /\ given' = given \ {u}
    /\ UNCHANGED <<rows, client, blacklist, stored, sync, seen, heard, syncs, restarts>>

user_unblacklist ==
    /\ user.at = "unblacklist" /\ user' = [user EXCEPT !.at = "register"]
    /\ blacklist' = blacklist \ {user.url}
    /\ UNCHANGED <<rows, client, stored, sync, seen, heard, given, counters>>

user_register ==
    /\ user.at = "register" /\ user' = [user EXCEPT !.at = "push"]
    /\ client' = client \cup {user.url}
    /\ UNCHANGED <<rows, blacklist, stored, sync, seen, heard, given, counters>>

user_push ==
    /\ user.at = "push" /\ user' = [user EXCEPT !.at = "save"]
    /\ rows' = Append(rows, Row(user.url, user.source))
    /\ UNCHANGED <<client, blacklist, stored, sync, seen, heard, given, counters>>

user_save ==
    /\ user.at = "save" /\ user' = Idle
    /\ stored' = [stored EXCEPT ![user.url] = user.source]
    /\ UNCHANGED <<rows, client, blacklist, sync, seen, heard, given, counters>>

(* The facade looks the row up first: its source decides what is stored. *)
remove_relay(u) ==
    /\ user.at = None /\ calls < MaxCalls /\ calls' = calls + 1
    /\ \E i \in 1..Len(rows) :
         /\ rows[i].url = u /\ \A j \in 1..(i - 1) : rows[j].url # u
         /\ user' = [at |-> "take", url |-> u, source |-> rows[i].source]
    /\ UNCHANGED <<rows, client, blacklist, stored, sync, seen, heard, given, syncs, restarts>>

(* The last relay is refused; the first row of the url goes. *)
user_take ==
    /\ user.at = "take"
    /\ IF Len(rows) <= 1 \/ user.url \notin Listed
       THEN user' = Idle /\ UNCHANGED rows
       ELSE \E i \in 1..Len(rows) :
              /\ rows[i].url = user.url /\ \A j \in 1..(i - 1) : rows[j].url # user.url
              /\ rows' = SubSeq(rows, 1, i - 1) \o SubSeq(rows, i + 1, Len(rows))
              /\ user' = [user EXCEPT !.at = IF rows[i].source = "MostroDiscovered"
                                             THEN "blacklist" ELSE "drop"]
    /\ UNCHANGED <<client, blacklist, stored, sync, seen, heard, given, counters>>

user_blacklist ==
    /\ user.at = "blacklist" /\ user' = [user EXCEPT !.at = "drop"]
    /\ blacklist' = blacklist \cup {user.url}
    /\ UNCHANGED <<rows, client, stored, sync, seen, heard, given, counters>>

(* A relay the SDK no longer has makes the call fail here. *)
user_drop ==
    /\ user.at = "drop"
    /\ user' = IF user.url \in client THEN [user EXCEPT !.at = "forget"] ELSE Idle
    /\ client' = client \ {user.url}
    /\ UNCHANGED <<rows, blacklist, stored, sync, seen, heard, given, counters>>

(* Mutant: the removed relay's row is deleted, whoever announced it. *)
removal_effect_delete ==
    /\ user.at = "forget" /\ user' = Idle
    /\ stored' = [stored EXCEPT ![user.url] = None]
    /\ given' = IF user.source = "MostroDiscovered" THEN given \cup {user.url} ELSE given
    /\ UNCHANGED <<rows, client, blacklist, sync, seen, heard, counters>>

(* An announced relay stays stored, as blacklisted. *)
removal_effect ==
    /\ user.at = "forget" /\ user' = Idle
    /\ IF user.source = "MostroDiscovered"
       THEN /\ stored' = [stored EXCEPT ![user.url] = Blacklisted]
            /\ given' = given \cup {user.url}
       ELSE stored' = [stored EXCEPT ![user.url] = None] /\ UNCHANGED given
    /\ UNCHANGED <<rows, client, blacklist, sync, seen, heard, counters>>

-----------------------------------------------------------------------------
(* The node's lists.  Relays deliver generations in any order, repeatedly. *)

Hear(g) ==
    IF g > newest THEN newest' = g /\ fresh' = fresh \cup {g} ELSE UNCHANGED heard

(* Mutant: every delivery is applied. *)
note_every_list(g) ==
    /\ sync.at = None /\ syncs < MaxSyncs /\ syncs' = syncs + 1
    /\ Hear(g)
    /\ seen' = g /\ sync' = [NoSync EXCEPT !.at = "plan", !.todo = Announced[g]]
    /\ UNCHANGED <<rows, client, blacklist, stored, user, given, calls, restarts>>

note_relay_list_generation(g) ==
    /\ sync.at = None /\ syncs < MaxSyncs /\ syncs' = syncs + 1
    /\ Hear(g)
    /\ IF g > seen
       THEN seen' = g /\ sync' = [NoSync EXCEPT !.at = "plan", !.todo = Announced[g]]
       ELSE UNCHANGED <<seen, sync>>
    /\ UNCHANGED <<rows, client, blacklist, stored, user, given, calls, restarts>>

(* What is left of the list goes on; with nothing left it is recorded. *)
Continue(todo, added) ==
    sync' = IF todo = {} THEN [sync EXCEPT !.todo = {}, !.now = {}, !.added = added,
                                           !.at = IF added = {} THEN None ELSE "collect"]
            ELSE [sync EXCEPT !.todo = todo, !.now = {}, !.added = added, !.at = "register"]

(* Mutant: the blacklist is not consulted. *)
plan_ignoring_blacklist ==
    /\ sync.at = "plan" /\ Continue(sync.todo \ Listed, {})
    /\ UNCHANGED <<rows, client, blacklist, stored, user, seen, heard, given, counters>>

(* plan_relay_sync: additive, what is neither listed nor blacklisted. *)
plan_relay_sync ==
    /\ sync.at = "plan" /\ Continue(sync.todo \ (Listed \cup blacklist), {})
    /\ UNCHANGED <<rows, client, blacklist, stored, user, seen, heard, given, counters>>

sync_register ==
    /\ sync.at = "register"
    /\ \E u \in sync.todo : /\ client' = client \cup {u}
                            /\ sync' = [sync EXCEPT !.at = "push", !.now = {u}]
    /\ UNCHANGED <<rows, blacklist, stored, user, seen, heard, given, counters>>

sync_push ==
    /\ sync.at = "push"
    /\ \E u \in sync.now :
         /\ rows' = Append(rows, Row(u, "MostroDiscovered"))
         /\ Continue(sync.todo \ {u}, sync.added \cup {u})
    /\ UNCHANGED <<client, blacklist, stored, user, seen, heard, given, counters>>

(* The rows to store are read back from the list. *)
sync_collect ==
    /\ sync.at = "collect"
    /\ LET found == {rows[i] : i \in {j \in 1..Len(rows) : rows[j].url \in sync.added}}
       IN sync' = IF found = {} THEN NoSync ELSE [sync EXCEPT !.at = "save", !.rows = found]
    /\ UNCHANGED <<rows, client, blacklist, stored, user, seen, heard, given, counters>>

sync_save ==
    /\ sync.at = "save"
    /\ \E r \in sync.rows :
         /\ stored' = [stored EXCEPT ![r.url] = r.source]
         /\ sync' = IF sync.rows = {r} THEN NoSync ELSE [sync EXCEPT !.rows = @ \ {r}]
    /\ UNCHANGED <<rows, client, blacklist, user, seen, heard, given, counters>>

-----------------------------------------------------------------------------
(* The app dies at any moment and starts again from its rows.              *)
Active == {u \in Urls : stored[u] \in Sources}

(* What still has to stay out: not what a race decided, nor the relay a     *)
(* start with no other one to use falls back on.                           *)
Standing == given \ (raced \cup IF Active = {} THEN {Default} ELSE {})

(* The compiled-in relay is stored again when no row is left. *)
seed_default_relays ==
    stored' = IF \A u \in Urls : stored[u] = None
              THEN [stored EXCEPT ![Default] = "Default"] ELSE stored

(* Mutant: the blacklist is not restored. *)
restore_rows_only ==
    /\ restarts < MaxRestarts /\ restarts' = restarts + 1
    /\ user' = Idle /\ sync' = NoSync /\ seen' = 0 /\ newest' = 0
    /\ client' = IF Active = {} THEN {Default} ELSE Active
    /\ \E s \in [1..Cardinality(client') -> RowsOf(client')] :
         /\ {s[i].url : i \in 1..Len(s)} = client'
         /\ \A i \in 1..Len(s) : s[i].source = IF Active = {} THEN "Default" ELSE stored[s[i].url]
         /\ rows' = s
    /\ blacklist' = {}
    /\ seed_default_relays
    /\ given' = Standing /\ raced' = {}
    /\ UNCHANGED <<fresh, calls, syncs>>

(* initialize and restore_persisted. *)
restore_persisted ==
    /\ restarts < MaxRestarts /\ restarts' = restarts + 1
    /\ user' = Idle /\ sync' = NoSync /\ seen' = 0 /\ newest' = 0
    /\ client' = IF Active = {} THEN {Default} ELSE Active
    /\ \E s \in [1..Cardinality(client') -> RowsOf(client')] :
         /\ {s[i].url : i \in 1..Len(s)} = client'
         /\ \A i \in 1..Len(s) : s[i].source = IF Active = {} THEN "Default" ELSE stored[s[i].url]
         /\ rows' = s
    /\ blacklist' = {u \in Urls : stored[u] = Blacklisted}
    /\ seed_default_relays
    /\ given' = Standing /\ raced' = {}
    /\ UNCHANGED <<fresh, calls, syncs>>

(* Relays the user's call and the sync, its plan made, are both at work on. *)
Racing ==
    IF user.at = None \/ sync.at = "plan" THEN {}
    ELSE {user.url} \cap (sync.todo \cup sync.now \cup sync.added \cup {r.url : r \in sync.rows})

Work ==
    \/ \E u \in Urls : add_relay(u) \/ remove_relay(u)
    \/ user_unblacklist \/ user_register \/ user_push \/ user_save
    \/ user_take \/ user_blacklist \/ user_drop \/ removal_effect
    \/ \E g \in 1..Len(Announced) : note_relay_list_generation(g)
    \/ plan_relay_sync \/ sync_register \/ sync_push \/ sync_collect \/ sync_save

Next ==
    \/ Work /\ raced' = raced \cup Racing'
    \/ restore_persisted

Spec == Init /\ [][Next]_vars

-----------------------------------------------------------------------------
(* Properties.                                                             *)

(* A relay of the node's that the user removed does not come back, not by  *)
(* the node's next list and not by a restart: "so the node's list cannot   *)
(* bring it back on the next start either" (remove_relay).  The code does  *)
(* not keep this: a sync planned before the removal, or between its two    *)
(* locks, adds and stores the relay again.                                 *)
RemovedStaysOut == \A u \in given : u \notin Listed /\ stored[u] \notin Sources

(* It comes back by no other way: not by a list that came later, not by a  *)
(* list being applied to other relays at that moment, not by a stop.       *)
BackOnlyByRace == \A u \in given \ raced : u \notin Listed /\ stored[u] \notin Sources

(* A list delivered after a newer one adds nothing: the relays the node    *)
(* announced are those of a list that arrived as the newest.               *)
StaleListIgnored ==
    \A i \in 1..Len(rows) : rows[i].source = "MostroDiscovered" =>
        \E g \in fresh : rows[i].url \in Announced[g]
=============================================================================
