------------------------------ MODULE MCRelays -------------------------------
(* What is read from relays, side by side: live subscriptions, the Online    *)
(* watcher, the resume pass, the relay list, the list of nodes with what     *)
(* they published, ratings.  A behaviour moves one of them.                  *)
EXTENDS LiveSubs, Sequences

CONSTANTS
    Capacity, MaxMoves, Callers, MaxPasses, Urls, Default, Announced,
    ListMaxCalls, MaxSyncs, MaxRestarts, Nodes, Trusted, Promoted, RegistryDefault,
    RegistryCallers, Submits, Reads, HasKey, MaxFaults

VARIABLES
    part,    \* the component this behaviour is about
    \* OnlineSync
    listed, socket, status, publishing, last, chan, watcher, armed, runs, unserved,
    misread, moves, passes, begun, caller,
    \* RelayList
    rows, client, blacklist, stored, user, sync, list_seen, newest, fresh, given, raced,
    list_calls, syncs, restarts,
    \* NodeRegistry
    trusted, custom, saved, active, lock, doing, info, out, registry_moves, heard,
    registry_listed, steady,
    mine, rated_at, privacy, key, sub, read, wire, faults, excused

Online == INSTANCE OnlineSync

List == INSTANCE RelayList WITH
    MaxCalls <- ListMaxCalls, seen <- list_seen, calls <- list_calls

Registry == INSTANCE NodeRegistry WITH
    Default <- RegistryDefault, Callers <- RegistryCallers,
    moves <- registry_moves, listed <- registry_listed

(* A build has a compiled-in relay and a compiled-in node, in use at first. *)
ASSUME RelaysAssumption ==
    /\ Relays # {} /\ None \notin Filters \cup Relays
    /\ Default \in Urls /\ IsFiniteSet(Urls) /\ Announced \in Seq(SUBSET Urls)
    /\ Trusted \cup Promoted \subseteq Nodes /\ RegistryDefault \in Trusted
    /\ Registry!None \notin Nodes \cup RegistryCallers
    /\ IsFiniteSet(Submits) /\ {"row", Registry!None} \cap Submits = {} /\ HasKey \subseteq BOOLEAN
    /\ Capacity \in Nat \ {0}
    /\ {Budget, MaxDrops, MaxCalls, MaxMoves, MaxPasses, ListMaxCalls, MaxSyncs, MaxRestarts,
        MaxFaults} \subseteq Nat

MCAnnounced == <<{"x", "d"}, {"y"}>>

Parts == {"subs", "online", "resync", "list", "nodes", "rating"}

MCInit ==
    /\ part \in Parts
    /\ Init /\ Online!Init /\ Online!PullInit /\ List!Init /\ Registry!Init /\ Registry!RatingInit
    /\ part # "subs" => up = {}
    /\ part # "rating" => privacy /\ key

OnlineVars == <<listed, socket, status, publishing, last, chan, watcher, armed, runs, unserved,
      misread, moves>>
PullVars == <<passes, begun, caller>>
ListVars == <<rows, client, blacklist, stored, user, sync, list_seen, newest, fresh, given, raced,
      list_calls, syncs, restarts>>
RegistryVars == <<trusted, custom, saved, active, lock, doing, info, out, registry_moves, heard,
      registry_listed, steady>>
RatingVars == <<mine, rated_at, privacy, key, sub, read, wire, faults, excused>>

MCvars == <<part, vars, OnlineVars, PullVars, ListVars, RegistryVars, RatingVars>>

MCNext ==
    \/ part = "subs" /\ Next /\ UNCHANGED <<part, OnlineVars, PullVars, ListVars, RegistryVars, RatingVars>>
    \/ part = "online" /\ Online!Next /\ UNCHANGED <<part, vars, PullVars, ListVars, RegistryVars, RatingVars>>
    \/ part = "resync" /\ Online!PullNext /\ UNCHANGED <<part, vars, OnlineVars, ListVars, RegistryVars, RatingVars>>
    \/ part = "list" /\ List!Next /\ UNCHANGED <<part, vars, OnlineVars, PullVars, RegistryVars, RatingVars>>
    \/ part = "nodes" /\ Registry!Next /\ UNCHANGED <<part, vars, OnlineVars, PullVars, ListVars, RatingVars>>
    \/ part = "rating" /\ Registry!RatingNext /\ UNCHANGED <<part, vars, OnlineVars, PullVars, ListVars, RegistryVars>>

MCSpec == MCInit /\ [][MCNext]_MCvars

------------------------------------------------------------------------------
(* The live subscriptions have their types; a relay carries no REQ nobody   *)
(* wants, and a wanted one that an up relay lacks is still to be repaired.  *)
SubsSound == part = "subs" =>
    /\ TypeOK
    /\ NothingUnwanted
    /\ WantedIsRepaired

(* A relay that closes every REQ is not asked for ever, and a warm-up never    *)
(* drops what is cached of a node that stays on the list.                      *)
RelaySteps ==
    /\ ClosedNotLooped
    /\ Registry!ListedKeepsInfo

(* Types; no Online goes by without a run that serves it, and the listener  *)
(* ends up with the pool's state; a resync never answers with an outcome    *)
(* that was ready before the call; a relay the user removed comes back, by a *)
(* node's list or a restart, only if the removal and a list that names it    *)
(* were at work at once, and an older list never undoes a newer one.         *)
PoolSound ==
    /\ part = "online" => Online!TypeOK /\ Online!OnlineIsServed /\ Online!ListenerUpToDate
    /\ part = "resync" => Online!PullTypes /\ Online!AnsweredAfterCall
    /\ part = "list" => List!TypeOK /\ List!BackOnlyByRace /\ List!StaleListIgnored

(* Types; the node in use stays on the list, the newest settings of each node  *)
(* are kept and a taken order is not counted as open; a trade is rated once,  *)
(* and a rating that failed can be tried again.                               *)
NodesSound ==
    /\ part = "nodes" => Registry!TypeOK /\ Registry!SelectedStaysListed /\ Registry!InfoIsNewest /\ Registry!CountHonest
    /\ part = "rating" => Registry!RatingTypes /\ Registry!RatedOnce /\ Registry!FailedCanRetry
==============================================================================
