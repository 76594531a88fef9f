---------------------------- MODULE NodeRegistry -----------------------------
(* The list of Mostro nodes the user picks from (src/rust/src/api/nodes.rs),   *)
(* the node in use (api/settings.rs), and what is cached of each node: its     *)
(* newest settings and its open orders (api/node_stats.rs).  The blobs are     *)
(* read, changed and written as a whole under one lock that no relay query     *)
(* holds, so every answer meets a list that may have changed.                  *)
(* Beside it the rating of one trade's counterparty (api/reputation.rs): the   *)
(* slot in memory is reserved before anything is sent and given back when the  *)
(* send fails; a marker in the trade row carries it over a restart.  Two       *)
(* screens may submit, and any screen may ask for the rating meanwhile.        *)
EXTENDS Naturals, FiniteSets

CONSTANTS Nodes,
          Trusted,     \* the nodes compiled in
          Promoted,    \* the node a later release compiles in
          Default,     \* the node in use when none was selected
          Callers,     \* calls in flight: selections, listings and fetches
          MaxMoves,    \* user moves, calls and restarts
          Submits,     \* calls of submit_rating
          Reads,       \* calls of get_rating_for_trade
          HasKey,      \* whether the trade's key index can be known: a set of BOOLEANs
          MaxFaults    \* restarts, failed writes, sends relays took without saying so

VARIABLES trusted,     \* the compiled-in registry of this release
          custom,      \* user-added nodes, and whether the user named them
          saved,       \* the selected node in the settings table, or None
          active,      \* the one in memory
          lock,        \* registry_lock: the caller that holds it, or None
          doing,        \* each caller
          info,        \* the cache of instance events: node to revision
          out,         \* what each node has published: its revisions, its order
          moves,
          heard,       \* history: revisions of a node stored since it is cached
          listed,      \* history: the node in use was listed when selected
          steady,      \* history: nodes listed all along since a fetch was answered
          mine,        \* the rating's slot: its owner, "row" when hydrated, or None
          rated_at,    \* the marker of the trade row
          privacy,     \* privacy_mode
          key,         \* trade_key_for_order finds an index
          sub,         \* each call of submit_rating
          read,        \* each call of get_rating_for_trade
          wire,        \* RateUser messages some relay has
          faults,
          excused      \* history: a message out whose marker was lost

vars == <<trusted, custom, saved, active, lock, doing, info, out, moves, heard, listed, steady>>
ratingVars == <<mine, rated_at, privacy, key, sub, read, wire, faults, excused>>

None == "none"

(* Revisions of a replaceable event: the second, and the order of the ids. *)
Revisions == [at : 1 .. 2, id : 1 .. 2]

Idle == [pc |-> "idle", node |-> None, asked |-> {}, got |-> <<>>, keep |-> {}, row |-> <<>>]

Listed == trusted \cup DOMAIN custom

TypeOK ==
    /\ trusted \subseteq Nodes
    /\ DOMAIN custom \subseteq Nodes /\ custom \in [DOMAIN custom -> BOOLEAN]
    /\ saved \in Nodes \cup {None} /\ active \in Nodes
    /\ lock \in Callers \cup {None}
    /\ \A c \in Callers :
         /\ doing[c].pc \in {"idle", "list", "relist", "persist", "switch", "fetch", "answered", "store"}
         /\ doing[c].node \in Nodes \cup {None} /\ doing[c].asked \subseteq Nodes
         /\ DOMAIN doing[c].got \subseteq Nodes /\ doing[c].keep \subseteq Nodes
    /\ DOMAIN info \subseteq Nodes /\ info \in [DOMAIN info -> Revisions]
    /\ \A n \in Nodes : out[n].revs \subseteq Revisions /\ out[n].order \in 0 .. 2
    /\ moves \in 0 .. MaxMoves /\ heard \in [Nodes -> SUBSET Revisions]
    /\ listed \in BOOLEAN /\ steady \in [Callers -> SUBSET Nodes]

Init ==
    /\ trusted = Trusted /\ custom = <<>>
    /\ saved = None /\ active = Default /\ lock = None
    /\ doing = [c \in Callers |-> Idle] /\ info = <<>>
    /\ out = [n \in Nodes |-> [revs |-> {}, order |-> 0]]
    /\ moves = 0 /\ heard = [n \in Nodes |-> {}]
    /\ listed = TRUE /\ steady = [c \in Callers |-> {}]

Move == moves < MaxMoves /\ moves' = moves + 1
registry == <<trusted, custom>>
selection == <<saved, active, listed>>

(* Nothing under the lock awaits but the store, so a load-modify-save is one   *)
(* step of a caller that finds the lock free.                                  *)
Free == lock = None

(* Promoted nodes leave the user's list, and the node in use is put on it.  It *)
(* was read before the lock was taken.                                         *)
normalised(seen) ==
    LET left == {n \in DOMAIN custom : n \notin trusted}
        all == left \cup (IF seen \in trusted \cup left THEN {} ELSE {seen})
    IN  [n \in all |-> IF n \in left THEN custom[n] ELSE FALSE]

list_mostro_nodes(c) ==
    \/ /\ doing[c].pc = "idle" /\ Move
       /\ doing' = [doing EXCEPT ![c].pc = "list", ![c].node = active]
       /\ UNCHANGED <<registry, selection, lock, info, out, heard, steady>>
    \/ /\ doing[c].pc = "list" /\ Free
       /\ custom' = normalised(doing[c].node)
       /\ doing' = [doing EXCEPT ![c] = Idle]
       /\ UNCHANGED <<trusted, selection, lock, info, out, moves, heard, steady>>

add_custom_mostro_node(n, named) ==
    /\ Free /\ Move /\ n \notin Listed
    /\ custom' = [x \in DOMAIN custom \cup {n} |-> IF x = n THEN named ELSE custom[x]]
    /\ UNCHANGED <<trusted, selection, lock, doing, info, out, heard, steady>>

(* Refused for the node in use, looked at under the lock. *)
remove_custom_mostro_node(n) ==
    /\ Free /\ Move /\ n \in DOMAIN custom /\ n \notin trusted /\ n # active
    /\ custom' = [x \in DOMAIN custom \ {n} |-> custom[x]]
    /\ steady' = [c \in Callers |-> steady[c] \ {n}]
    /\ UNCHANGED <<trusted, selection, lock, doing, info, out, heard>>

(* Mutant: the selection does not take the lock. *)
set_active_mostro_node_unlocked(c) ==
    \/ /\ doing[c].pc = "idle" /\ Move
       /\ \E n \in Nodes :
            /\ doing' = [doing EXCEPT ![c].pc = "switch", ![c].node = n,
                                     ![c].asked = Listed \cap {n}]
            /\ saved' = n
       /\ UNCHANGED <<registry, active, listed, lock, info, out, heard, steady>>
    \/ /\ doing[c].pc = "switch"
       /\ active' = doing[c].node /\ listed' = (doing[c].asked # {})
       /\ doing' = [doing EXCEPT ![c] = Idle]
       /\ UNCHANGED <<registry, saved, lock, info, out, moves, heard, steady>>

(* The selection is saved, then used, all under the registry's lock. *)
set_active_mostro_node(c) ==
    \/ /\ doing[c].pc = "idle" /\ Free /\ Move
       /\ \E n \in Nodes :
            /\ doing' = [doing EXCEPT ![c].pc = "switch", ![c].node = n,
                                     ![c].asked = Listed \cap {n}]
            /\ saved' = n
       /\ lock' = c
       /\ UNCHANGED <<registry, active, listed, info, out, heard, steady>>
    \/ /\ doing[c].pc = "switch"
       /\ active' = doing[c].node /\ listed' = (doing[c].asked # {})
       /\ lock' = (IF lock = c THEN None ELSE lock)
       /\ doing' = [doing EXCEPT ![c] = Idle]
       /\ UNCHANGED <<registry, saved, info, out, moves, heard, steady>>

(* Mutant: a tie goes to whichever came first. *)
supersedes_newer_second(r, held) == r.at > held.at

(* The newest second wins, and within it the lowest id. *)
supersedes(r, held) == r.at > held.at \/ (r.at = held.at /\ r.id < held.id)

newest_info(revs) == CHOOSE r \in revs : \A o \in revs \ {r} : ~supersedes(o, r)

merge_info(cache, fresh) ==
    [n \in DOMAIN cache \cup DOMAIN fresh |->
        IF n \in DOMAIN cache /\ (n \in DOMAIN fresh => ~supersedes(fresh[n], cache[n]))
        THEN cache[n] ELSE fresh[n]]

(* What the relays answer of the asked nodes: any of their revisions, none     *)
(* from a node that did not answer in time.                                    *)
Answers(asked) ==
    UNION {{[n \in S |-> newest_info(pick[n])] :
              pick \in {p \in [S -> SUBSET Revisions] :
                          \A n \in S : p[n] # {} /\ p[n] \subseteq out[n].revs}} :
           S \in SUBSET asked}

(* The warm-up at startup: the list, the query, the list as it is by then, and *)
(* the cache, of which nodes gone from that list are dropped.                  *)
refresh_mostro_node_info_cache(c) ==
    \/ /\ doing[c].pc = "idle" /\ Free /\ Move
       /\ custom' = normalised(active)
       /\ doing' = [doing EXCEPT ![c].pc = "fetch", ![c].asked = trusted \cup DOMAIN custom']
       /\ UNCHANGED <<trusted, selection, lock, info, out, heard, steady>>
    \/ /\ doing[c].pc = "fetch"
       /\ \E got \in Answers(doing[c].asked) :
            doing' = [doing EXCEPT ![c].pc = "relist", ![c].got = got]
       /\ steady' = [steady EXCEPT ![c] = Listed]
       /\ UNCHANGED <<registry, selection, lock, info, out, moves, heard>>

(* Mutant: the list from before the query is kept. *)
relist_from_before(c) ==
    /\ doing[c].pc = "relist" /\ Free
    /\ custom' = normalised(active)
    /\ doing' = [doing EXCEPT ![c].pc = "store", ![c].keep = doing[c].asked]
    /\ UNCHANGED <<trusted, selection, lock, info, out, moves, heard, steady>>

(* A list that fails leaves the one from before the query. *)
relist(c) ==
    /\ doing[c].pc = "relist" /\ Free
    /\ custom' = normalised(active)
    /\ doing' = [doing EXCEPT ![c].pc = "store", ![c].keep = trusted \cup DOMAIN custom']
    /\ UNCHANGED <<trusted, selection, lock, info, out, moves, heard, steady>>

(* Merged into the cache of this moment, then pruned. *)
store_info(c) ==
    LET fresh == doing[c].got
        keep == IF doing[c].keep = {} THEN Nodes ELSE doing[c].keep IN
    /\ doing[c].pc = "store" /\ Free
    /\ LET all == merge_info(info, fresh) IN
         /\ info' = [n \in DOMAIN all \cap keep |-> all[n]]
         /\ heard' = [n \in Nodes |->
                        IF n \notin DOMAIN all \cap keep THEN {}
                        ELSE heard[n] \cup (IF n \in DOMAIN fresh THEN {fresh[n]} ELSE {})]
    /\ doing' = [doing EXCEPT ![c] = Idle] /\ steady' = [steady EXCEPT ![c] = {}]
    /\ UNCHANGED <<registry, selection, lock, out, moves>>

(* Mutant: only the pending orders are asked for. *)
count_open_orders_pending(pending, recent) == pending # {}

(* An order is counted when the newest revision any of the two queries brought *)
(* is pending; a lagging relay still has an older one.                         *)
count_open_orders(pending, recent) ==
    LET all == pending \cup recent IN
    all # {} /\ (\A r \in all : r = 1)

(* The selector's own fetch, of the settings and of the orders; nothing is     *)
(* dropped from the cache.                                                     *)
fetch_mostro_node_stats(c) ==
    \/ /\ doing[c].pc = "idle" /\ Move
       /\ doing' = [doing EXCEPT ![c].pc = "answered", ![c].asked = Listed]
       /\ UNCHANGED <<registry, selection, lock, info, out, heard, steady>>
    \/ /\ doing[c].pc = "answered"
       /\ \E got \in Answers(doing[c].asked), n \in doing[c].asked, behind \in BOOLEAN :
            LET upto == out[n].order
                pending == IF upto = 1 \/ (upto = 2 /\ behind) THEN {1} ELSE {}
                recent == IF upto = 0 THEN {} ELSE {upto} IN
            doing' = [doing EXCEPT ![c].pc = "store", ![c].got = got, ![c].keep = {},
                       ![c].row = <<n, count_open_orders(pending, recent), upto>>]
       /\ UNCHANGED <<registry, selection, lock, info, out, moves, heard, steady>>

publish(n) ==
    /\ Move
    /\ \/ \E r \in Revisions \ out[n].revs : out' = [out EXCEPT ![n].revs = @ \cup {r}]
       \/ out[n].order < 2 /\ out' = [out EXCEPT ![n].order = @ + 1]
    /\ UNCHANGED <<registry, selection, lock, doing, info, heard, steady>>

(* A start takes the saved selection, and may be of a later release. *)
rehydrate_active_mostro_node ==
    /\ Move
    /\ trusted' \in {trusted, Trusted \cup Promoted}
    /\ active' = IF saved = None THEN Default ELSE saved
    /\ lock' = None /\ doing' = [c \in Callers |-> Idle]
    /\ listed' = (active' \in trusted' \cup DOMAIN custom)
    /\ steady' = [c \in Callers |-> {}]
    /\ UNCHANGED <<custom, saved, info, out, heard>>

Next ==
    \/ \E c \in Callers :
         \/ list_mostro_nodes(c) \/ set_active_mostro_node(c)
         \/ refresh_mostro_node_info_cache(c) \/ relist(c) \/ store_info(c)
         \/ fetch_mostro_node_stats(c)
    \/ \E n \in Nodes :
         \/ remove_custom_mostro_node(n) \/ publish(n)
         \/ \E named \in BOOLEAN : add_custom_mostro_node(n, named)
    \/ rehydrate_active_mostro_node

------------------------------------------------------------------------------
(* The rating.                                                                *)

RatingTypes ==
    /\ mine \in Submits \cup {"row", None} /\ rated_at \in BOOLEAN
    /\ privacy \in BOOLEAN /\ key \in BOOLEAN
    /\ sub \in [Submits -> {"idle", "check", "query", "found", "missing", "reserve", "send", "mark",
                            "done", "rated", "failed"}]
    /\ read \in [Reads -> {"idle", "check", "query", "found", "missing", "rated", "unrated"}]
    /\ wire \in 0 .. Cardinality(Submits) + MaxFaults + 1
    /\ faults \in 0 .. MaxFaults /\ excused \in BOOLEAN

RatingInit ==
    /\ mine = None /\ rated_at = FALSE
    /\ privacy \in BOOLEAN /\ key \in HasKey
    /\ sub = [c \in Submits |-> "idle"] /\ read = [r \in Reads |-> "idle"]
    /\ wire = 0 /\ faults = 0 /\ excused = FALSE

Fault == faults < MaxFaults /\ faults' = faults + 1

set_privacy_mode ==
    /\ privacy' = ~privacy
    /\ UNCHANGED <<mine, rated_at, key, sub, read, wire, faults, excused>>

(* hydrate_mine_from_db: has_mine, the row's marker, the slot if it is still   *)
(* free.  The steps of a call that are at pc, then go to next.                 *)
HydrateStep(pc, to, next) ==
    \/ pc = "check" /\ to = (IF mine # None THEN next ELSE "query") /\ UNCHANGED mine
    \/ pc = "query" /\ to = (IF rated_at THEN "found" ELSE "missing") /\ UNCHANGED mine
    \/ pc = "found" /\ to = next /\ mine' = IF mine = None THEN "row" ELSE mine
    \/ pc = "missing" /\ to = next /\ UNCHANGED mine

submit_rating(c) ==
    /\ sub[c] = "idle" /\ ~privacy
    /\ sub' = [sub EXCEPT ![c] = "check"]
    /\ UNCHANGED <<mine, rated_at, privacy, key, read, wire, faults, excused>>

hydrate_of_submit(c) ==
    \E to \in {"query", "found", "missing", "reserve"} :
        /\ HydrateStep(sub[c], to, "reserve") /\ sub' = [sub EXCEPT ![c] = to]
        /\ UNCHANGED <<rated_at, privacy, key, read, wire, faults, excused>>

(* Mutant: the slot is looked at, and taken only when the message is out. *)
try_insert_mine_late(c) ==
    /\ sub[c] = "reserve"
    /\ sub' = [sub EXCEPT ![c] = IF mine = None THEN "send" ELSE "rated"]
    /\ UNCHANGED <<mine, rated_at, privacy, key, read, wire, faults, excused>>

(* Checked and taken under one write lock.  Without a key the rating stays     *)
(* local: done.                                                                *)
try_insert_mine(c) ==
    /\ sub[c] = "reserve"
    /\ IF mine = None
         THEN mine' = c /\ sub' = [sub EXCEPT ![c] = IF key THEN "send" ELSE "done"]
         ELSE sub' = [sub EXCEPT ![c] = "rated"] /\ UNCHANGED mine
    /\ UNCHANGED <<rated_at, privacy, key, read, wire, faults, excused>>

(* Mutant: a failed send keeps the reservation. *)
keep_mine(c) == mine

remove_mine(c) == None

(* rate_user, then publish_event, which may report a failure although a relay  *)
(* took the message; the slot is free again on any error.                      *)
dispatch(c) ==
    /\ sub[c] = "send"
    /\ \/ sub' = [sub EXCEPT ![c] = "mark"] /\ wire' = wire + 1 /\ UNCHANGED <<mine, faults, excused>>
       \/ /\ sub' = [sub EXCEPT ![c] = "failed"] /\ mine' = remove_mine(c)
          /\ UNCHANGED <<wire, faults, excused>>
       \/ /\ Fault /\ sub' = [sub EXCEPT ![c] = "failed"] /\ mine' = remove_mine(c)
          /\ wire' = wire + 1 /\ excused' = TRUE
    /\ UNCHANGED <<rated_at, privacy, key, read>>

(* Best effort: the marker may not be written. *)
mark_trade_rated(c) ==
    /\ sub[c] = "mark" /\ sub' = [sub EXCEPT ![c] = "done"]
    /\ \/ rated_at' = TRUE /\ UNCHANGED <<faults, excused>>
       \/ Fault /\ excused' = TRUE /\ UNCHANGED rated_at
    /\ UNCHANGED <<mine, privacy, key, read, wire>>

get_rating_for_trade(r) ==
    \/ /\ read[r] = "idle" /\ read' = [read EXCEPT ![r] = "check"]
       /\ UNCHANGED <<mine, rated_at, privacy, key, sub, wire, faults, excused>>
    \/ \E to \in {"query", "found", "missing", "rated", "unrated"} :
         /\ HydrateStep(read[r], to, IF mine # None \/ read[r] = "found" THEN "rated" ELSE "unrated")
         /\ read' = [read EXCEPT ![r] = to]
         /\ UNCHANGED <<rated_at, privacy, key, sub, wire, faults, excused>>

(* The app stops and starts: memory is empty, privacy mode too until Dart sets *)
(* it again, and every call may be made again.                                 *)
restart ==
    /\ Fault /\ mine' = None /\ privacy' \in BOOLEAN
    /\ excused' = (excused \/ \E c \in Submits : sub[c] = "mark")
    /\ sub' = [c \in Submits |-> "idle"] /\ read' = [r \in Reads |-> "idle"]
    /\ UNCHANGED <<rated_at, key, wire>>

RatingNext ==
    \/ \E c \in Submits :
         \/ submit_rating(c) \/ hydrate_of_submit(c) \/ try_insert_mine(c)
         \/ dispatch(c) \/ mark_trade_rated(c)
    \/ \E r \in Reads : get_rating_for_trade(r)
    \/ set_privacy_mode \/ restart

Spec ==
    /\ Init /\ RatingInit
    /\ [][\/ Next /\ UNCHANGED ratingVars
          \/ RatingNext /\ UNCHANGED vars]_<<vars, ratingVars>>

------------------------------------------------------------------------------
(* A node that was on the list when the user selected it stays there while it  *)
(* is in use, whatever removals and listings run (nodes.rs: registry_lock).    *)
SelectedStaysListed == lock = None /\ listed => active \in Listed

(* The cache holds the revision relays retain among all it was given, in       *)
(* whatever order the answers came (node_stats.rs: supersedes).                *)
InfoIsNewest == \A n \in DOMAIN info :
    heard[n] # {} => info[n] = newest_info(heard[n])

(* A warm-up never drops what is cached of a node that was on the list from    *)
(* its answer on (node_stats.rs: "must not lose its cached event").            *)
ListedKeepsInfo == [][\A c \in Callers :
    doing[c].pc = "store" /\ doing'[c].pc = "idle" /\ moves' = moves
      => steady[c] \cap DOMAIN info \subseteq DOMAIN info']_vars

(* An order taken is not counted as open because a relay still has its older   *)
(* revision (node_stats.rs: dedup_latest).                                     *)
CountHonest == \A c \in Callers :
    doing[c].row # <<>> => (doing[c].row[2] <=> doing[c].row[3] = 1)

(* The node gets one rating of a trade, from however many screens and          *)
(* sessions, unless the marker of one that is out was lost or a send that      *)
(* reached a relay was reported failed (reputation.rs: submit_rating).         *)
RatedOnce == ~excused => wire <= 1

(* The slot is never left to a call that failed: the user can try again        *)
(* (reputation.rs: remove_mine).                                               *)
FailedCanRetry == \A c \in Submits : sub[c] = "failed" => mine # c
==============================================================================
