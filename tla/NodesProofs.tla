---------------------------- MODULE NodesProofs -----------------------------
(***************************************************************************)
(* Proofs about what follows the selected node or the identity: the switch *)
(* of nodes (NodeSwitch), the push registrations (PushRegs), the identity  *)
(* and its counter (Identity).  Of each, an invariant that every step      *)
(* keeps, one lemma per action or group of actions, and what the run       *)
(* checks as its consequence.                                              *)
(***************************************************************************)
EXTENDS MCNodes, FiniteSetTheorems, WellFoundedInduction, TLAPS

-----------------------------------------------------------------------------
(* The switch.                                                              *)

SwitchTypes ==
    /\ active \in Nodes /\ tags \in Nodes \cup {None}
    /\ retained \subseteq Nodes /\ keys \subseteq Keys /\ armed \in BOOLEAN
    /\ lock \in Tasks \cup {None}
    /\ filter \in [authors : SUBSET Nodes, keys : SUBSET Keys]
    /\ task \in [Tasks -> TaskRecords]
    /\ claims \subseteq Nodes /\ misspent \in BOOLEAN
    /\ wallet \in Nodes \cup {None} /\ connecting \in Nodes \cup {None}

(* A task is on its way somewhere only while it replaces the filter; the    *)
(* lock is held by the one that does, and nobody has seen a key not there.  *)
OnItsWay ==
    /\ \A t \in Tasks : \/ At(t, "lock") \/ At(t, "replace")
                        \/ task[t].then = "idle"
    /\ \A t \in Tasks : task[t].then \in {"idle", "set", "fetch"}
    /\ \A t \in Tasks : At(t, "replace") <=> lock = t
    /\ filter.keys \subseteq keys /\ \A t \in Tasks : task[t].view \subseteq keys

(* The tasks whose fetch is announced, and is still to end.                 *)
Fetching == {t \in Tasks : \/ At(t, "fetch") \/ At(t, "answer")
                           \/ task[t].then = "fetch"}
PendingIsCount == pending = Cardinality(Fetching)

(* Whoever replaces the filter last has every key.                          *)
LastCarriesAll ==
    ~armed /\ (\A t \in Tasks : ~At(t, "lock")) =>
        IF lock = None THEN filter.keys = keys ELSE task[lock].view = keys

(* Who goes for the filter has read the node it will listen to.            *)
NodeRead == \A t \in Tasks : At(t, "lock") \/ At(t, "replace") => task[t].node \in Nodes

SwitchInv ==
    /\ SwitchTypes /\ OnItsWay /\ NodeRead /\ PendingIsCount /\ LastCarriesAll
    /\ CapabilitiesOfActive /\ SpendsAtActiveMint

-----------------------------------------------------------------------------
(* The push registrations.                                                  *)
Jobs == [do : {"nothing", "register", "unregister"}, node : PushNodes \cup {PushNone}]
PassRecords == [on : BOOLEAN, deleting : BOOLEAN, token : Tokens \cup {PushNone},
                regs : [PushKeys -> Push!Registration], refusals : [PushNodes -> Push!Time],
                todo : [PushKeys -> Jobs], at : Push!Time, clean : BOOLEAN]

PushTypes ==
    /\ rows \in [PushKeys -> PushNodes \cup {PushNone}]
    /\ enabled \in BOOLEAN /\ token \in Tokens \cup {PushNone}
    /\ regs \in [PushKeys -> Push!Registration] /\ refusals \in [PushNodes -> Push!Time]
    /\ server \in [PushKeys -> Tokens \cup {PushNone}]
    /\ dirty \in BOOLEAN /\ scheduled \in BOOLEAN /\ waiting \in 0 .. 2
    /\ pass \in PassRecords /\ (pass.on \/ pass = Push!Free)
    /\ now \in 1 .. MaxTime /\ moves \in 0 .. MaxMoves /\ faults \in 0 .. MaxFaults
    /\ cleanAt \in Push!Time /\ forgotten \subseteq PushKeys /\ unheard \subseteq PushKeys
    /\ selected \subseteq PushNodes /\ again \subseteq PushNodes

(* What the client counts on: the copy of the pass, else what is stored.    *)
Copy == IF pass.on THEN pass.regs ELSE regs

(* A record the server never accepted is there for its backoff, and none is *)
(* of a time to come.                                                       *)
Sane(r) == (r.known /\ ~Push!is_registered(r) => r.next # Push!Never) /\ r.at <= now
RecordsSane == \A k \in PushKeys : Sane(regs[k]) /\ Sane(pass.regs[k])

(* A record that is owed no retry is of what the server took, and what the  *)
(* server took has a record, but for what it forgot or was not heard.       *)
RecordsTrue == \A k \in PushKeys :
    /\ Push!is_registered(Copy[k]) /\ Copy[k].next = Push!Never
         => server[k] = Copy[k].token \/ k \in forgotten
    /\ server[k] # PushNone => Push!is_registered(Copy[k]) \/ k \in unheard

(* Nobody asked for a pass since the one at work began, or ended.           *)
Unasked == waiting = 0 /\ ~scheduled
AskedIfDirty == dirty => ~Unasked

(* A pass works for the settings and rows it read, or somebody asked for    *)
(* another; no key is let go within its grace while push is on.             *)
PassIsCurrent == pass.on =>
    /\ pass.at \in 1 .. now
    /\ Unasked /\ ~pass.deleting => pass.token = IF enabled THEN token ELSE PushNone
    /\ pass.deleting => pass.token = PushNone
    /\ Unasked /\ pass.deleting => \A k \in PushKeys : rows[k] = PushNone
    /\ \A k \in PushKeys :
         /\ pass.todo[k].do = "register" => pass.token # PushNone
         /\ pass.todo[k].do = "unregister" /\ pass.token # PushNone
              => pass.at > pass.regs[k].unwanted + Grace

(* A wanted key's record as a pass at that time leaves it.                  *)
Kept(r, k, at) == /\ r.token = token /\ r.node = rows[k] /\ r.at = at
                  /\ r.next = Push!Never

(* While nothing failed, a wanted key is served or about to be ...          *)
Serving ==
    /\ pass.on /\ Unasked /\ pass.clean /\ pass.token # PushNone =>
         \A k \in PushKeys : rows[k] # PushNone =>
            \/ pass.todo[k] = [do |-> "register", node |-> rows[k]]
            \/ pass.todo[k].do = "nothing" /\ Kept(pass.regs[k], k, pass.at)
    /\ ~pass.on /\ Unasked /\ cleanAt # Push!Never /\ enabled /\ token # PushNone =>
         \A k \in PushKeys : rows[k] # PushNone => Kept(regs[k], k, cleanAt)

(* ... and with push off every key is let go, or about to be.               *)
Silencing ==
    /\ pass.on /\ pass.clean /\ pass.token = PushNone =>
         \A k \in PushKeys : \/ pass.todo[k].do = "unregister"
                             \/ server[k] = PushNone \/ k \in unheard
    /\ ~pass.on /\ Unasked /\ cleanAt # Push!Never /\ (~enabled \/ token = PushNone) =>
         \A k \in PushKeys : server[k] = PushNone \/ k \in unheard

Retrying == \A n \in selected : /\ refusals[n] = Push!Never
                                /\ pass.on => pass.refusals[n] = Push!Never

PushInv ==
    /\ PushTypes /\ RecordsSane /\ RecordsTrue /\ AskedIfDirty /\ PassIsCurrent
    /\ Serving /\ Silencing /\ Retrying

-----------------------------------------------------------------------------
(* The identity.                                                            *)
IdentTypes ==
    /\ {mem, stored, secure, take} \subseteq Ident!Key
    /\ announced \in 0 .. MaxIndex /\ teller \in 0 .. MaxIdentity
    /\ ident_keys \in [Orders -> Ident!Key] /\ keyMap \in [Orders -> Ident!Key]
    /\ swap \in [pc : {"none", "deleted", "cleanup", "created", "written"},
                 who : 0 .. MaxIdentity, fresh : BOOLEAN]
    /\ started \in BOOLEAN
    /\ ident_faults \in 0 .. MaxFaults /\ torn \subseteq 0 .. MaxIdentity
    /\ issued \subseteq Ident!Key /\ ident_forgotten \subseteq Ident!Identities
    /\ crossed \in BOOLEAN /\ misused \subseteq Orders

(* Where a replacement is.                                                  *)
Replacing ==
    /\ swap.pc = "none" => swap = Ident!NoSwap
    /\ swap.pc # "none" => started /\ swap.who # 0
    /\ ~started => mem = Ident!Nobody /\ take = Ident!Nobody
    /\ swap.pc \in {"deleted", "cleanup"} => mem = Ident!Nobody
    /\ swap.pc \in {"created", "written"} => mem.who = swap.who
    /\ swap.pc \in {"deleted", "cleanup"} => secure.who # 0
    /\ swap.pc = "written" => secure.who = swap.who
    /\ swap.pc = "none" /\ started => secure.who # 0
    /\ swap.pc = "none" /\ mem.who # 0 => mem.who = secure.who

(* What is stored was handed out, and what is announced too.                *)
HandedOut ==
    /\ stored = Ident!Nobody \/ stored \in issued
    /\ take = Ident!Nobody \/ take \in issued
    /\ announced # 0 => [who |-> teller, idx |-> announced] \in issued
    /\ \A k \in issued : k.who # 0

(* No key is past what a load will find, unless its counter was dropped:    *)
(* the mirror has it, or the row.  While another identity is in memory, or  *)
(* none, it is the mirror; an identity that is being installed has no key   *)
(* from before, or its row.                                                 *)
Behind(w, n) == \A k \in issued : k.who = w => k.idx <= n
Recoverable ==
    /\ mem.who # 0 /\ mem.who \notin ident_forgotten => Behind(mem.who, mem.idx)
    /\ secure.who \notin ident_forgotten =>
         Behind(secure.who, secure.idx) \/ (stored.who = secure.who /\ Behind(secure.who, stored.idx))
    /\ started /\ mem.who # secure.who /\ secure.who \notin ident_forgotten =>
         Behind(secure.who, secure.idx)
    /\ swap.pc \in {"created", "written"} /\ swap.who \notin ident_forgotten =>
         (\A k \in issued : k.who # swap.who) \/ stored = mem

(* A counter is of a key, but for the mirror of an identity that has        *)
(* another's; one that is being installed has its own.                      *)
Earned ==
    /\ mem.who # 0 /\ (mem.who \notin torn \/ swap.pc \in {"created", "written"}) =>
         mem.idx = 0 \/ mem \in issued
    /\ secure.who \notin torn => secure.idx = 0 \/ secure \in issued

(* A binding is of the identity in secure storage, or of the one about to   *)
(* be there, and there is none once the rows were cleaned up.               *)
Owned == ~crossed =>
    /\ take # Ident!Nobody => mem.who = take.who
    /\ \A o \in Orders : \/ ident_keys[o].who \in {0, secure.who}
                         \/ swap.pc = "created" /\ ident_keys[o].who = mem.who
    /\ swap.pc = "cleanup" \/ (started /\ mem.who = 0 /\ swap.pc = "none")
         => \A o \in Orders : ident_keys[o].who = 0
    /\ swap.pc \in {"created", "written"} => \A o \in Orders : ident_keys[o].who \in {0, mem.who}

IdentInv == IdentTypes /\ Replacing /\ HandedOut /\ Recoverable /\ Earned /\ Owned

-----------------------------------------------------------------------------
(* The number of fetches announced when one task moves.                     *)
LEMMA CountKept ==
    ASSUME PendingIsCount, UNCHANGED pending, Fetching' = Fetching
    PROVE  PendingIsCount'
  BY DEF PendingIsCount

LEMMA FetchingFinite == IsFiniteSet(Fetching) /\ Cardinality(Fetching) \in Nat
  <1>1. IsFiniteSet(Fetching) BY NodesAssumption, FS_Subset DEF Fetching
  <1>. QED BY <1>1, FS_CardinalityType

LEMMA CountRaised ==
    ASSUME PendingIsCount, NEW t \in Tasks, t \notin Fetching, Fetching' = Fetching \cup {t},
           pending' = pending + 1
    PROVE  PendingIsCount'
  BY FetchingFinite, FS_AddElement DEF PendingIsCount

LEMMA CountLowered ==
    ASSUME PendingIsCount, NEW t \in Fetching, Fetching' = Fetching \ {t}, pending' = pending - 1
    PROVE  PendingIsCount'
  BY FetchingFinite, FS_RemoveElement DEF PendingIsCount

(* A task that moves where it does not touch the lock.                      *)
LEMMA TaskMoves ==
    ASSUME SwitchTypes, OnItsWay, NEW t \in Tasks, NEW v \in TaskRecords,
           task' = [task EXCEPT ![t] = v], lock' = lock,
           v.at # "replace", ~At(t, "replace"), v.at = "lock" \/ v.then = "idle",
           v.then \in {"idle", "set", "fetch"}, v.view \subseteq keys,
           keys' = keys, filter' = filter
    PROVE  /\ task' \in [Tasks -> TaskRecords] /\ task'[t] = v
           /\ \A u \in Tasks \ {t} : task'[u] = task[u]
           /\ OnItsWay'
  <1>1. task' \in [Tasks -> TaskRecords] /\ task'[t] = v /\ \A u \in Tasks \ {t} : task'[u] = task[u]
    BY DEF SwitchTypes
  <1>. QED BY <1>1 DEF OnItsWay, At

(* Where a task goes: to a step, or to the lock for the node in use.        *)
LEMMA Stops == \A s \in Steps : /\ TaskAt(s) \in TaskRecords /\ TaskAt(s).at = s
                                /\ TaskAt(s).then = "idle" /\ TaskAt(s).view = {}
  BY DEF TaskAt, TaskRecords, Steps

LEMMA LockKeeps == SwitchInv /\ (\E t \in Tasks : dm_filter_lock(t)) => SwitchInv'
  <1>. SUFFICES ASSUME SwitchInv, NEW t \in Tasks, dm_filter_lock(t) PROVE SwitchInv'
    OBVIOUS
  <1>. USE DEF SwitchInv
  <1>1. /\ At(t, "lock") /\ lock = None /\ lock' = t
        /\ task' = [task EXCEPT ![t].at = "replace", ![t].view = keys]
        /\ UNCHANGED <<active, tags, pending, retained, keys, armed, filter, claims, wallet, connecting, misspent>>
    BY DEF dm_filter_lock, cache, users
  <1>2. task[t] \in TaskRecords /\ keys \subseteq Keys BY DEF SwitchTypes
  <1>3. /\ task'[t] \in TaskRecords /\ task'[t].at = "replace" /\ task'[t].then = task[t].then
        /\ task'[t].view = keys /\ \A u \in Tasks \ {t} : task'[u] = task[u]
        /\ task' \in [Tasks -> TaskRecords]
    BY <1>1, <1>2 DEF SwitchTypes, TaskRecords, Steps
  <1>4. SwitchTypes' BY <1>1, <1>3 DEF SwitchTypes
  <1>5. \A u \in Tasks : ~At(u, "replace") BY <1>1, NodesAssumption DEF OnItsWay
  <1>6. OnItsWay'
    <2>1. \A u \in Tasks : At(u, "replace")' <=> lock' = u BY <1>1, <1>3, <1>5 DEF At
    <2>. QED BY <2>1, <1>1, <1>3 DEF OnItsWay, At
  <1>7. PendingIsCount'
    <2>1. Fetching' = Fetching BY <1>1, <1>3 DEF Fetching, At
    <2>. QED BY <2>1, <1>1, CountKept
  <1>8. LastCarriesAll' BY <1>1, <1>3, NodesAssumption DEF LastCarriesAll
  <1>9. Switching => Switching' BY <1>1, <1>3 DEF Switching, At, Tasks
  <1>10. NodeRead' BY <1>1, <1>3 DEF NodeRead, At
  <1>. QED BY <1>1, <1>4, <1>6, <1>7, <1>8, <1>9, <1>10 DEF CapabilitiesOfActive, SpendsAtActiveMint

LEMMA ReplaceKeeps == SwitchInv /\ (\E t \in Tasks : replace_subscription(t)) => SwitchInv'
  <1>. SUFFICES ASSUME SwitchInv, NEW t \in Tasks, replace_subscription(t) PROVE SwitchInv'
    OBVIOUS
  <1>. USE DEF SwitchInv
  <1>1. /\ At(t, "replace") /\ task' = [task EXCEPT ![t] = TaskAt(task[t].then)] /\ lock' = None
        /\ filter' = IF task[t].view = {} THEN filter
                     ELSE [authors |-> {task[t].node} \cup retained, keys |-> task[t].view]
        /\ UNCHANGED <<active, tags, pending, retained, keys, armed, claims, wallet, connecting, misspent>>
    BY DEF replace_subscription, Goto, cache, users
  <1>2. task[t] \in TaskRecords /\ task[t].then \in {"idle", "set", "fetch"} /\ lock = t
        /\ task[t].view \subseteq keys
    BY <1>1 DEF SwitchTypes, OnItsWay
  <1>3. /\ task'[t] \in TaskRecords /\ task'[t].at = task[t].then /\ task'[t].then = "idle"
        /\ task'[t].view = {} /\ \A u \in Tasks \ {t} : task'[u] = task[u]
        /\ task' \in [Tasks -> TaskRecords]
    <2>1. task[t].then \in Steps BY <1>2 DEF Steps
    <2>. DEFINE v == TaskAt(task[t].then)
    <2>2. v \in TaskRecords /\ v.at = task[t].then /\ v.then = "idle" /\ v.view = {} BY <2>1, Stops
    <2>3. task' = [task EXCEPT ![t] = v] BY <1>1
    <2>. HIDE DEF v
    <2>. QED BY <2>2, <2>3 DEF SwitchTypes
  <1>4. /\ filter' \in [authors : SUBSET Nodes, keys : SUBSET Keys]
        /\ filter'.keys = IF task[t].view = {} THEN filter.keys ELSE task[t].view
    <2>1. CASE task[t].view = {} BY <2>1, <1>1 DEF SwitchTypes
    <2>2. CASE task[t].view # {}
      <3>1. task[t].node \in Nodes BY <1>1, <1>2, <2>2 DEF NodeRead
      <3>2. task[t].view \subseteq Keys /\ retained \subseteq Nodes BY <1>2 DEF TaskRecords, SwitchTypes
      <3>. QED BY <3>1, <3>2, <2>2, <1>1
    <2>. QED BY <2>1, <2>2
  <1>5. SwitchTypes' BY <1>1, <1>3, <1>4 DEF SwitchTypes
  <1>6. OnItsWay'
    <2>1. \A u \in Tasks : At(u, "replace")' <=> lock' = u
      BY <1>1, <1>2, <1>3, NodesAssumption DEF At, OnItsWay
    <2>2. \A u \in Tasks : \/ At(u, "lock")' \/ At(u, "replace")' \/ task'[u].then = "idle"
      BY <1>3 DEF OnItsWay, At
    <2>. QED BY <2>1, <2>2, <1>1, <1>2, <1>3, <1>4 DEF OnItsWay
  <1>7. PendingIsCount'
    <2>1. Fetching' = Fetching BY <1>1, <1>2, <1>3 DEF Fetching, At
    <2>. QED BY <2>1, <1>1, CountKept
  <1>8. LastCarriesAll'
    <2>. SUFFICES ASSUME ~armed, \A u \in Tasks : ~At(u, "lock")' PROVE filter'.keys = keys
      BY <1>1 DEF LastCarriesAll
    <2>1. \A u \in Tasks : ~At(u, "lock") BY <1>1, <1>3 DEF At
    <2>2. task[t].view = keys BY <2>1, <1>2, NodesAssumption DEF LastCarriesAll
    <2>. QED BY <2>2, <1>4 DEF OnItsWay
  <1>9. Switching => Switching' BY <1>1, <1>3 DEF Switching, At, Tasks
  <1>10. NodeRead' BY <1>1, <1>2, <1>3 DEF NodeRead, At
  <1>. QED BY <1>1, <1>5, <1>6, <1>7, <1>8, <1>9, <1>10 DEF CapabilitiesOfActive, SpendsAtActiveMint

(* A new key arms a refresh, and a refresh goes for the lock.               *)
LEMMA CoverageKeeps ==
    SwitchInv /\ ((\E k \in Keys : ensure_global_dm_coverage(k))
                  \/ (\E t \in Runs : resubscribe_global_dm_filter(t))) => SwitchInv'
  <1>1. ASSUME SwitchInv, NEW k \in Keys, ensure_global_dm_coverage(k) PROVE SwitchInv'
    <2>1. /\ keys' = keys \cup {k} /\ armed' = TRUE
          /\ UNCHANGED <<active, tags, pending, retained, lock, filter, task, claims, wallet, connecting, misspent>>
      BY <1>1 DEF ensure_global_dm_coverage, cache, users
    <2>2. SwitchTypes' BY <1>1, <2>1 DEF SwitchInv, SwitchTypes
    <2>3. OnItsWay'
      <3>1. filter.keys \subseteq keys' /\ \A t \in Tasks : task[t].view \subseteq keys'
        BY <1>1, <2>1 DEF SwitchInv, OnItsWay
      <3>. QED BY <1>1, <2>1, <3>1 DEF SwitchInv, OnItsWay, At
    <2>4. PendingIsCount'
      <3>1. Fetching' = Fetching BY <2>1 DEF Fetching, At
      <3>. QED BY <1>1, <2>1, <3>1, CountKept DEF SwitchInv
    <2>. QED BY <1>1, <2>1, <2>2, <2>3, <2>4
             DEF SwitchInv, LastCarriesAll, NodeRead, At, CapabilitiesOfActive, Switching, SpendsAtActiveMint
  <1>2. ASSUME SwitchInv, NEW t \in Runs, resubscribe_global_dm_filter(t) PROVE SwitchInv'
    <2>. DEFINE v == [at |-> "lock", node |-> active, then |-> "idle", view |-> {}]
    <2>1. /\ armed' = FALSE /\ At(t, "idle") /\ task' = [task EXCEPT ![t] = v]
          /\ UNCHANGED <<active, tags, pending, retained, keys, lock, filter, claims, wallet, connecting, misspent>>
      BY <1>2 DEF resubscribe_global_dm_filter, CallReplace, cache, users
    <2>2. v \in TaskRecords /\ v.at = "lock" /\ v.then = "idle" /\ v.node = active /\ v.view = {}
      BY <1>2 DEF SwitchInv, SwitchTypes, TaskRecords, Steps
    <2>3. t \in Tasks /\ task[t].then = "idle" BY <1>2, <2>1 DEF Tasks, SwitchInv, OnItsWay, At
    <2>. HIDE DEF v
    <2>4. /\ task' \in [Tasks -> TaskRecords] /\ task'[t] = v
          /\ OnItsWay' /\ \A u \in Tasks \ {t} : task'[u] = task[u]
      BY <1>2, <2>1, <2>2, <2>3, TaskMoves DEF SwitchInv, At
    <2>5. SwitchTypes' /\ NodeRead'
      BY <1>2, <2>1, <2>2, <2>4 DEF SwitchInv, SwitchTypes, NodeRead, At
    <2>6. PendingIsCount'
      <3>1. Fetching' = Fetching BY <2>1, <2>2, <2>3, <2>4 DEF Fetching, At
      <3>. QED BY <1>2, <2>1, <3>1, CountKept DEF SwitchInv
    <2>7. LastCarriesAll' BY <2>2, <2>3, <2>4 DEF LastCarriesAll, At
    <2>8. Switching => Switching' BY <2>1, <2>2, <2>3, <2>4 DEF Switching, At, Tasks
    <2>. QED BY <1>2, <2>1, <2>3, <2>4, <2>5, <2>6, <2>7, <2>8
             DEF SwitchInv, CapabilitiesOfActive, SpendsAtActiveMint
  <1>. QED BY <1>1, <1>2

(* The calls of a switch and of an Online, one move of a task each.         *)
LEMMA MoveKeeps ==
    ASSUME SwitchInv, NEW t \in Tasks, NEW v \in TaskRecords, task' = [task EXCEPT ![t] = v],
           UNCHANGED <<keys, armed, lock, filter, claims, wallet, connecting, misspent>>,
           active' \in Nodes, tags' \in Nodes \cup {None}, retained' \subseteq Nodes,
           task[t].at \notin {"lock", "replace"}, v.at # "replace",
           v.at = "lock" \/ v.then = "idle", v.then \in {"idle", "set", "fetch"},
           v.at = "lock" => v.node \in Nodes, v.view \subseteq keys, CapabilitiesOfActive',
           \/ UNCHANGED pending /\ Fetching' = Fetching
           \/ t \notin Fetching /\ Fetching' = Fetching \cup {t} /\ pending' = pending + 1
           \/ t \in Fetching /\ Fetching' = Fetching \ {t} /\ pending' = pending - 1
    PROVE  SwitchInv'
  <1>. USE DEF SwitchInv
  <1>1. /\ task' \in [Tasks -> TaskRecords] /\ task'[t] = v
        /\ OnItsWay' /\ \A u \in Tasks \ {t} : task'[u] = task[u]
    BY TaskMoves DEF At
  <1>2. SwitchTypes' BY <1>1 DEF SwitchTypes
  <1>3. NodeRead' BY <1>1 DEF NodeRead, At
  <1>4. PendingIsCount'
    BY CountKept, CountRaised, CountLowered
  <1>5. LastCarriesAll'
    <2>1. lock # t BY NodesAssumption DEF OnItsWay, At
    <2>2. lock # None => task'[lock] = task[lock] BY <1>1, <2>1 DEF SwitchTypes
    <2>3. (\A u \in Tasks : ~At(u, "lock")') => \A u \in Tasks : ~At(u, "lock") BY <1>1 DEF At
    <2>. QED BY <2>2, <2>3 DEF LastCarriesAll
  <1>. QED BY <1>1, <1>2, <1>3, <1>4, <1>5 DEF SpendsAtActiveMint

LEMMA SetActiveKeeps ==
    SwitchInv /\ (\E t \in Switchers, n \in Nodes : set_active_mostro_node(t, n)) => SwitchInv'
  <1>. SUFFICES ASSUME SwitchInv, NEW t \in Switchers, NEW n \in Nodes, set_active_mostro_node(t, n)
                PROVE  SwitchInv'
    OBVIOUS
  <1>. DEFINE w == [at |-> "lock", node |-> n, then |-> "set", view |-> {}]
  <1>1. /\ At(t, "idle") /\ active' = n
        /\ UNCHANGED <<tags, pending, keys, armed, lock, filter, claims, wallet, connecting, misspent>>
        /\ \/ retained' = retained \cup {active} /\ task' = [task EXCEPT ![t] = w]
           \/ retained' = retained /\ task' = [task EXCEPT ![t] = TaskAt("set")]
    BY DEF set_active_mostro_node, cache, coverage, users, Goto
  <1>2. t \in Tasks /\ task[t].then = "idle" /\ task[t].at = "idle"
    BY <1>1 DEF Tasks, SwitchInv, OnItsWay, At
  <1>3. w \in TaskRecords /\ w.at = "lock" /\ w.then = "set" /\ w.node = n /\ w.view = {}
    BY DEF TaskRecords, Steps
  <1>. HIDE DEF w
  <1>4. PICK v \in TaskRecords :
          /\ task' = [task EXCEPT ![t] = v] /\ v.view = {}
          /\ \/ v.at = "lock" /\ v.then = "set" /\ v.node = n
             \/ v.at = "set" /\ v.then = "idle"
    BY <1>1, <1>3, Stops DEF Steps
  <1>5. task'[t] = v /\ \A u \in Tasks \ {t} : task'[u] = task[u]
    BY <1>2, <1>4 DEF SwitchInv, SwitchTypes
  <1>6. Switching' BY <1>4, <1>5 DEF Switching, At
  <1>7. Fetching' = Fetching BY <1>2, <1>4, <1>5 DEF Fetching, At
  <1>8. retained' \subseteq Nodes /\ tags' \in Nodes \cup {None} /\ active' \in Nodes
    BY <1>1 DEF SwitchInv, SwitchTypes
  <1>. QED BY <1>1, <1>2, <1>4, <1>6, <1>7, <1>8, MoveKeeps DEF CapabilitiesOfActive

LEMMA RefreshKeeps == SwitchInv /\ (\E t \in Switchers : refresh_subscriptions(t)) => SwitchInv'
  <1>. SUFFICES ASSUME SwitchInv, NEW t \in Switchers, refresh_subscriptions(t) PROVE SwitchInv'
    OBVIOUS
  <1>. DEFINE v == [at |-> "lock", node |-> active, then |-> "fetch", view |-> {}]
  <1>1. /\ At(t, "set") /\ pending' = pending + 1 /\ tags' = None /\ task' = [task EXCEPT ![t] = v]
        /\ UNCHANGED <<active, retained, keys, armed, lock, filter, claims, wallet, connecting, misspent>>
    BY DEF refresh_subscriptions, CallReplace, coverage, users
  <1>2. t \in Tasks /\ task[t].then = "idle" /\ task[t].at = "set"
    BY <1>1 DEF Tasks, SwitchInv, OnItsWay, At
  <1>3. active \in Nodes /\ retained \subseteq Nodes BY DEF SwitchInv, SwitchTypes
  <1>4. v \in TaskRecords /\ v.at = "lock" /\ v.then = "fetch" /\ v.node = active /\ v.view = {}
    BY <1>3 DEF TaskRecords, Steps
  <1>. HIDE DEF v
  <1>5. task'[t] = v /\ \A u \in Tasks \ {t} : task'[u] = task[u]
    BY <1>1, <1>2, <1>4 DEF SwitchInv, SwitchTypes
  <1>6. t \notin Fetching /\ Fetching' = Fetching \cup {t} BY <1>2, <1>4, <1>5 DEF Fetching, At
  <1>. QED BY <1>1, <1>2, <1>3, <1>4, <1>6, MoveKeeps DEF CapabilitiesOfActive

LEMMA OnlineKeeps == SwitchInv /\ (\E t \in Onlines : on_pool_online(t)) => SwitchInv'
  <1>. SUFFICES ASSUME SwitchInv, NEW t \in Onlines, on_pool_online(t) PROVE SwitchInv'
    OBVIOUS
  <1>1. /\ At(t, "idle") /\ pending' = pending + 1 /\ task' = [task EXCEPT ![t] = TaskAt("fetch")]
        /\ UNCHANGED <<active, tags, retained, keys, armed, lock, filter, claims, wallet, connecting, misspent>>
    BY DEF on_pool_online, Goto, coverage, users
  <1>2. t \in Tasks /\ task[t].then = "idle" /\ task[t].at = "idle"
    BY <1>1 DEF Tasks, SwitchInv, OnItsWay, At
  <1>. DEFINE v == TaskAt("fetch")
  <1>3. v \in TaskRecords /\ v.at = "fetch" /\ v.then = "idle" /\ v.view = {} BY Stops DEF Steps
  <1>4. task' = [task EXCEPT ![t] = v] BY <1>1
  <1>. HIDE DEF v
  <1>5. task'[t] = v /\ \A u \in Tasks \ {t} : task'[u] = task[u]
    BY <1>2, <1>3, <1>4 DEF SwitchInv, SwitchTypes
  <1>6. t \notin Fetching /\ Fetching' = Fetching \cup {t} BY <1>2, <1>3, <1>5 DEF Fetching, At
  <1>7. CapabilitiesOfActive'
    <2>1. Switching => Switching' BY <1>1, <1>2, <1>3, <1>5 DEF Switching, At, Tasks
    <2>. QED BY <2>1, <1>1 DEF SwitchInv, CapabilitiesOfActive
  <1>8. active \in Nodes /\ retained \subseteq Nodes /\ tags \in Nodes \cup {None} BY DEF SwitchInv, SwitchTypes
  <1>. QED BY <1>1, <1>2, <1>3, <1>4, <1>6, <1>7, <1>8, MoveKeeps

LEMMA FetchKeeps ==
    SwitchInv /\ (\E t \in Switchers \cup Onlines : fetch_capabilities(t) \/ apply_node_capabilities(t))
      => SwitchInv'
  <1>. SUFFICES ASSUME SwitchInv, NEW t \in Switchers \cup Onlines,
                       fetch_capabilities(t) \/ apply_node_capabilities(t)
                PROVE  SwitchInv'
    OBVIOUS
  <1>0. t \in Tasks /\ active \in Nodes /\ retained \subseteq Nodes /\ tags \in Nodes \cup {None}
        /\ task[t] \in TaskRecords
    BY DEF Tasks, SwitchInv, SwitchTypes
  <1>1. /\ UNCHANGED <<active, retained, keys, armed, lock, filter, claims, wallet, connecting, misspent>>
        /\ task[t].at \in {"fetch", "answer"}
        /\ \/ /\ task' = [task EXCEPT ![t].at = "answer", ![t].node = active]
              /\ UNCHANGED <<pending, tags>>
           \/ /\ task' = [task EXCEPT ![t] = TaskAt("done")] /\ pending' = pending - 1
              /\ tags' = tags \/ tags' \in {active, None}
    BY DEF fetch_capabilities, apply_node_capabilities, Goto, coverage, users, At
  <1>2. task[t].then = "idle" /\ t \in Fetching /\ task[t].view \subseteq keys
    BY <1>0, <1>1 DEF SwitchInv, OnItsWay, Fetching, At
  <1>3. CASE /\ task' = [task EXCEPT ![t].at = "answer", ![t].node = active]
             /\ UNCHANGED <<pending, tags>>
    <2>. DEFINE v == [task[t] EXCEPT !.at = "answer", !.node = active]
    <2>1. v \in TaskRecords /\ v.at = "answer" /\ v.then = "idle" /\ v.view = task[t].view
      BY <1>0, <1>2 DEF TaskRecords, Steps
    <2>2. task' = [task EXCEPT ![t] = v] BY <1>3
    <2>. HIDE DEF v
    <2>3. task'[t] = v /\ \A u \in Tasks \ {t} : task'[u] = task[u]
      BY <1>0, <2>1, <2>2 DEF SwitchInv, SwitchTypes
    <2>4. Fetching' = Fetching BY <1>0, <1>1, <2>1, <2>3 DEF Fetching, At
    <2>5. Switching => Switching' BY <1>1, <1>2, <2>1, <2>3 DEF Switching, At, Tasks
    <2>6. CapabilitiesOfActive' BY <1>1, <1>3, <2>5 DEF SwitchInv, CapabilitiesOfActive
    <2>7. UNCHANGED pending /\ Fetching' = Fetching BY <1>3, <2>4
    <2>8. active' \in Nodes /\ tags' \in Nodes \cup {None} /\ retained' \subseteq Nodes
      BY <1>0, <1>1, <1>3
    <2>. QED BY <1>0, <1>1, <1>2, <2>1, <2>2, <2>6, <2>7, <2>8, MoveKeeps
  <1>4. CASE /\ task' = [task EXCEPT ![t] = TaskAt("done")] /\ pending' = pending - 1
             /\ tags' = tags \/ tags' \in {active, None}
    <2>. DEFINE v == TaskAt("done")
    <2>1. v \in TaskRecords /\ v.at = "done" /\ v.then = "idle" /\ v.view = {} BY Stops DEF Steps
    <2>2. task' = [task EXCEPT ![t] = v] BY <1>4
    <2>. HIDE DEF v
    <2>3. task'[t] = v /\ \A u \in Tasks \ {t} : task'[u] = task[u]
      BY <1>0, <2>1, <2>2 DEF SwitchInv, SwitchTypes
    <2>4. Fetching' = Fetching \ {t} BY <1>0, <2>1, <2>3 DEF Fetching, At
    <2>5. Switching => Switching' BY <1>1, <1>2, <2>1, <2>3 DEF Switching, At, Tasks
    <2>6. CapabilitiesOfActive' BY <1>1, <1>4, <2>5 DEF SwitchInv, CapabilitiesOfActive
    <2>. QED BY <1>0, <1>1, <1>2, <1>4, <2>1, <2>2, <2>4, <2>6, MoveKeeps
  <1>. QED BY <1>1, <1>3, <1>4

(* Claims and the wallet, which no task waits for: a wallet that is bound   *)
(* to what resolves spends at the node in use, but while it is switched.    *)
LEMMA UsersKeep ==
    SwitchInv /\ ((\E n \in Nodes : apply_payout_request(n) \/ get_for_once_settled(n))
                  \/ cashu_connect \/ cashu_connected \/ cashu_disconnect \/ active_wallet)
      => SwitchInv'
  <1>. SUFFICES ASSUME SwitchInv,
                       \/ \E n \in Nodes : apply_payout_request(n) \/ get_for_once_settled(n)
                       \/ cashu_connect \/ cashu_connected \/ cashu_disconnect \/ active_wallet
                PROVE  SwitchInv'
    OBVIOUS
  <1>1. /\ UNCHANGED <<active, tags, pending, retained, keys, armed, lock, filter, task>>
    BY DEF apply_payout_request, get_for_once_settled, cashu_connect, cashu_connected,
           cashu_disconnect, active_wallet, cache, coverage
  <1>2. claims' \subseteq Nodes /\ wallet' \in Nodes \cup {None} /\ connecting' \in Nodes \cup {None}
    BY DEF apply_payout_request, get_for_once_settled, cashu_connect, cashu_connected,
           cashu_disconnect, active_wallet, SwitchInv, SwitchTypes
  <1>3. misspent' = FALSE
    <2>1. misspent = FALSE BY DEF SwitchInv, SwitchTypes, SpendsAtActiveMint
    <2>2. CASE active_wallet
      BY <2>1, <2>2 DEF active_wallet, Spend, SwitchInv, CapabilitiesOfActive
    <2>3. CASE ~active_wallet
      BY <2>1, <2>3 DEF apply_payout_request, get_for_once_settled, cashu_connect, cashu_connected,
                        cashu_disconnect
    <2>. QED BY <2>2, <2>3
  <1>4. SwitchTypes' /\ OnItsWay' /\ NodeRead' /\ LastCarriesAll'
    BY <1>1, <1>2, <1>3 DEF SwitchInv, SwitchTypes, OnItsWay, NodeRead, LastCarriesAll, At
  <1>5. PendingIsCount'
    <2>1. Fetching' = Fetching BY <1>1 DEF Fetching, At
    <2>. QED BY <1>1, <2>1, CountKept DEF SwitchInv
  <1>6. CapabilitiesOfActive' BY <1>1 DEF SwitchInv, CapabilitiesOfActive, Switching, At
  <1>. QED BY <1>3, <1>4, <1>5, <1>6 DEF SwitchInv, SpendsAtActiveMint

LEMMA SwitchStart == Init => SwitchInv
  <1>. SUFFICES ASSUME Init PROVE SwitchInv
    OBVIOUS
  <1>1. /\ active = FirstNode /\ tags = None /\ pending = 0 /\ retained = {}
        /\ keys = FirstKeys /\ armed = FALSE /\ lock = None
        /\ filter = [authors |-> {FirstNode}, keys |-> FirstKeys]
        /\ task = [t \in Tasks |-> TaskAt("idle")]
        /\ claims = {} /\ wallet = None /\ connecting = None /\ misspent = FALSE
    BY DEF Init
  <1>2. /\ \A t \in Tasks : task[t].at = "idle" /\ task[t].then = "idle" /\ task[t].view = {}
        /\ task \in [Tasks -> TaskRecords]
    BY <1>1, Stops DEF Steps
  <1>3. SwitchTypes BY <1>1, <1>2, NodesAssumption DEF SwitchTypes
  <1>4. OnItsWay /\ NodeRead /\ LastCarriesAll
    BY <1>1, <1>2, NodesAssumption DEF OnItsWay, NodeRead, LastCarriesAll, At
  <1>5. PendingIsCount
    <2>1. Fetching = {} BY <1>2 DEF Fetching, At
    <2>. QED BY <1>1, <2>1, FS_EmptySet DEF PendingIsCount
  <1>. QED BY <1>1, <1>3, <1>4, <1>5 DEF SwitchInv, CapabilitiesOfActive, SpendsAtActiveMint

LEMMA SwitchNext == SwitchInv /\ [Next]_vars => SwitchInv'
  <1>. SUFFICES ASSUME SwitchInv, [Next]_vars PROVE SwitchInv'
    OBVIOUS
  <1>1. CASE Next
    BY <1>1, LockKeeps, ReplaceKeeps, CoverageKeeps, SetActiveKeeps, RefreshKeeps, OnlineKeeps,
       FetchKeeps, UsersKeep DEF Next
  <1>2. CASE UNCHANGED vars
    <2>1. UNCHANGED <<active, tags, pending, retained, keys, armed, lock, filter, task, claims, wallet,
                      connecting, misspent>>
      BY <1>2 DEF vars
    <2>2. Fetching' = Fetching BY <2>1 DEF Fetching, At
    <2>3. PendingIsCount' BY <2>1, <2>2, CountKept DEF SwitchInv
    <2>. QED BY <2>1, <2>3 DEF SwitchInv, SwitchTypes, OnItsWay, NodeRead, LastCarriesAll, At,
                               CapabilitiesOfActive, Switching, SpendsAtActiveMint
  <1>. QED BY <1>1, <1>2

(* Every derived key is heard once nothing refreshes the filter, the cached *)
(* capabilities and the mint in use are the active node's.                  *)
LEMMA SwitchHolds == SwitchInv => TypeOK /\ KeysCovered /\ CapabilitiesOfActive /\ SpendsAtActiveMint
  <1>. SUFFICES ASSUME SwitchInv PROVE TypeOK /\ KeysCovered
    BY DEF SwitchInv
  <1>1. pending \in Nat BY FetchingFinite DEF SwitchInv, PendingIsCount
  <1>2. TypeOK BY <1>1 DEF SwitchInv, SwitchTypes, TypeOK
  <1>3. KeysCovered
    <2>. SUFFICES ASSUME ~armed, \A t \in Tasks : task[t].at \notin {"lock", "replace"}
                  PROVE  filter.keys = keys
      BY DEF KeysCovered
    <2>1. lock = None BY DEF SwitchInv, SwitchTypes, OnItsWay, At
    <2>. QED BY <2>1 DEF SwitchInv, LastCarriesAll, At
  <1>. QED BY <1>2, <1>3

(* With nothing pending, no fetch is announced or under way.                *)
LEMMA NoneFetching ==
    SwitchInv /\ pending = 0 => \A t \in Tasks : ~At(t, "answer") /\ ~At(t, "fetch")
  <1>. SUFFICES ASSUME SwitchInv, pending = 0 PROVE Fetching = {}
    BY DEF Fetching
  <1>. QED BY FetchingFinite, FS_EmptySet DEF SwitchInv, PendingIsCount

-----------------------------------------------------------------------------
(* What push records start from.                                            *)
LEMMA Blanks ==
    /\ Push!Unknown \in Push!Registration /\ ~Push!Unknown.known /\ Push!Unknown.token = PushNone
    /\ Push!Unknown.at = 0
    /\ Push!Free \in PassRecords /\ ~Push!Free.on /\ \A k \in PushKeys : Push!Free.regs[k] = Push!Unknown
  <1>1. 0 \in Push!Time /\ 0 \in 0 .. MaxTime + 1 BY NodesAssumption DEF Push!Time
  <1>2. Push!Unknown \in Push!Registration /\ ~Push!Unknown.known /\ Push!Unknown.token = PushNone
        /\ Push!Unknown.at = 0
    BY <1>1 DEF Push!Unknown, Push!Registration, Push!Never
  <1>. QED BY <1>1, <1>2 DEF Push!Free, PassRecords, Jobs, Push!Never

(* Somebody asks for a pass: nothing is promised before it.                 *)
LEMMA AskedKeeps ==
    ASSUME PushInv, UNCHANGED <<regs, server, pass, cleanAt, forgotten, unheard>>,
           PushTypes', ~Unasked', now' >= now, Retrying'
    PROVE  PushInv'
  <1>. USE DEF PushInv
  <1>0. /\ now \in Nat /\ now' \in Nat
        /\ \A k \in PushKeys : regs[k].at \in Nat /\ pass.regs[k].at \in Nat
        /\ pass.at \in Nat
    BY DEF PushTypes, PassRecords, Push!Registration, Push!Time
  <1>1. RecordsSane' BY <1>0 DEF RecordsSane, Sane
  <1>2. RecordsTrue' BY DEF RecordsTrue, Copy
  <1>3. AskedIfDirty' BY DEF AskedIfDirty
  <1>4. PassIsCurrent' BY <1>0 DEF PassIsCurrent
  <1>5. Serving' BY DEF Serving
  <1>6. Silencing' BY DEF Silencing
  <1>. QED BY <1>1, <1>2, <1>3, <1>4, <1>5, <1>6

LEMMA AskKeeps ==
    PushInv /\ (\/ Push!Burst \/ Push!Timer \/ Push!set_push_token \/ Push!set_push_enabled
                \/ \E k \in PushKeys : Push!RowChanges(k)
                \/ \E n \in PushNodes : Push!clear_node_refusal(n)) => PushInv'
  <1>. USE DEF PushInv
  <1>1. ASSUME PushInv, Push!Burst PROVE PushInv'
    <2>1. /\ waiting < 2 /\ waiting' = waiting + 1 /\ scheduled' = FALSE
          /\ UNCHANGED <<rows, enabled, token, regs, refusals, server, dirty, pass, now, moves, faults,
                         cleanAt, forgotten, unheard, selected, again>>
      BY <1>1 DEF Push!Burst, Push!queue_reconcile
    <2>2. waiting' \in 0 .. 2 /\ waiting' > 0 BY <1>1, <2>1 DEF PushTypes
    <2>3. PushTypes' BY <1>1, <2>1, <2>2 DEF PushTypes
    <2>4. now \in Nat BY <1>1 DEF PushTypes
    <2>. QED BY <1>1, <2>1, <2>2, <2>3, <2>4, AskedKeeps DEF Unasked, Retrying
  <1>2. ASSUME PushInv, Push!Timer PROVE PushInv'
    <2>1. /\ waiting < 2 /\ waiting' = waiting + 1 /\ now < MaxTime /\ now' = now + 1
          /\ UNCHANGED <<rows, enabled, token, regs, refusals, server, dirty, scheduled, pass, moves, faults,
                         cleanAt, forgotten, unheard, selected, again>>
      BY <1>2 DEF Push!Timer, Push!queue_reconcile
    <2>2. waiting' \in 0 .. 2 /\ waiting' > 0 /\ now' \in 1 .. MaxTime /\ now' >= now
      BY <1>2, <2>1, NodesAssumption DEF PushTypes
    <2>3. PushTypes' BY <1>2, <2>1, <2>2 DEF PushTypes
    <2>. QED BY <1>2, <2>1, <2>2, <2>3, AskedKeeps DEF Unasked, Retrying
  <1>3. ASSUME PushInv, Push!set_push_token PROVE PushInv'
    <2>1. /\ waiting < 2 /\ waiting' = waiting + 1 /\ moves < MaxMoves /\ moves' = moves + 1
          /\ token' \in Tokens \cup {PushNone}
          /\ UNCHANGED <<rows, enabled, regs, refusals, server, dirty, scheduled, pass, now, faults,
                         cleanAt, forgotten, unheard, selected, again>>
      BY <1>3 DEF Push!set_push_token, Push!queue_reconcile, Push!move
    <2>2. waiting' \in 0 .. 2 /\ waiting' > 0 /\ moves' \in 0 .. MaxMoves
      BY <1>3, <2>1, NodesAssumption DEF PushTypes
    <2>3. PushTypes' BY <1>3, <2>1, <2>2 DEF PushTypes
    <2>4. now \in Nat BY <1>3 DEF PushTypes
    <2>. QED BY <1>3, <2>1, <2>2, <2>3, <2>4, AskedKeeps DEF Unasked, Retrying
  <1>4. ASSUME PushInv, Push!set_push_enabled PROVE PushInv'
    <2>1. /\ waiting < 2 /\ waiting' = waiting + 1 /\ moves < MaxMoves /\ moves' = moves + 1
          /\ enabled' = ~enabled
          /\ refusals' = IF enabled' THEN [n \in PushNodes |-> Push!Never] ELSE refusals
          /\ again' = IF enabled' THEN PushNodes ELSE again
          /\ UNCHANGED <<rows, token, regs, server, dirty, scheduled, pass, now, faults,
                         cleanAt, forgotten, unheard, selected>>
      BY <1>4 DEF Push!set_push_enabled, Push!queue_reconcile, Push!move
    <2>2. waiting' \in 0 .. 2 /\ waiting' > 0 /\ moves' \in 0 .. MaxMoves
      BY <1>4, <2>1, NodesAssumption DEF PushTypes
    <2>3. refusals' \in [PushNodes -> Push!Time]
      BY <1>4, <2>1, NodesAssumption DEF PushTypes, Push!Time, Push!Never
    <2>4. PushTypes' BY <1>4, <2>1, <2>2, <2>3 DEF PushTypes
    <2>5. Retrying' BY <1>4, <2>1 DEF Retrying, PushTypes
    <2>6. now \in Nat BY <1>4 DEF PushTypes
    <2>. QED BY <1>4, <2>1, <2>2, <2>4, <2>5, <2>6, AskedKeeps DEF Unasked
  <1>5. ASSUME PushInv, NEW k \in PushKeys, Push!RowChanges(k) PROVE PushInv'
    <2>1. /\ moves < MaxMoves /\ moves' = moves + 1 /\ dirty' = TRUE /\ scheduled' = TRUE
          /\ \E n \in PushNodes \cup {PushNone} : rows' = [rows EXCEPT ![k] = n]
          /\ UNCHANGED <<enabled, token, regs, refusals, server, waiting, pass, now, faults,
                         cleanAt, forgotten, unheard, selected, again>>
      BY <1>5 DEF Push!RowChanges, Push!move, Push!request_reconcile
    <2>2. moves' \in 0 .. MaxMoves /\ rows' \in [PushKeys -> PushNodes \cup {PushNone}]
      BY <1>5, <2>1, NodesAssumption DEF PushTypes
    <2>3. PushTypes' BY <1>5, <2>1, <2>2 DEF PushTypes
    <2>4. now \in Nat BY <1>5 DEF PushTypes
    <2>. QED BY <1>5, <2>1, <2>3, <2>4, AskedKeeps DEF Unasked, Retrying
  <1>6. ASSUME PushInv, NEW n \in PushNodes, Push!clear_node_refusal(n) PROVE PushInv'
    <2>1. /\ moves < MaxMoves /\ moves' = moves + 1 /\ dirty' = TRUE /\ scheduled' = TRUE
          /\ ~pass.on /\ refusals' = [refusals EXCEPT ![n] = Push!Never] /\ selected' = selected \cup {n}
          /\ UNCHANGED <<rows, enabled, token, regs, server, waiting, pass, now, faults,
                         cleanAt, forgotten, unheard, again>>
      BY <1>6 DEF Push!clear_node_refusal, Push!clear_unlocked, Push!move, Push!request_reconcile
    <2>2. moves' \in 0 .. MaxMoves BY <1>6, <2>1, NodesAssumption DEF PushTypes
    <2>3. refusals' \in [PushNodes -> Push!Time]
      BY <1>6, <2>1, NodesAssumption DEF PushTypes, Push!Time, Push!Never
    <2>4. PushTypes' BY <1>6, <2>1, <2>2, <2>3 DEF PushTypes
    <2>5. Retrying' BY <1>6, <2>1 DEF Retrying, PushTypes
    <2>6. now \in Nat BY <1>6 DEF PushTypes
    <2>. QED BY <1>6, <2>1, <2>4, <2>5, <2>6, AskedKeeps DEF Unasked
  <1>. QED BY <1>1, <1>2, <1>3, <1>4, <1>5, <1>6

-----------------------------------------------------------------------------
(* What a plan notes of a record, and the request it makes.                 *)
LEMMA NotedIs ==
    ASSUME NEW want \in PushNodes \cup {PushNone}, NEW r \in Push!Registration, NEW t \in Push!Time
    PROVE  LET n == Push!noted(want, r, t)
           IN  /\ n \in Push!Registration
               /\ Push!is_registered(n) => n.token = r.token
               /\ Push!is_registered(r) => /\ n.token = r.token /\ n.next = r.next
                                           /\ n.at = r.at /\ n.node = r.node
               /\ n.known /\ ~Push!is_registered(n) => r.known /\ ~Push!is_registered(r) /\ n.next = r.next
               /\ n.at = r.at \/ n.at = 0
               /\ want = PushNone /\ Push!is_registered(r) /\ r.unwanted # Push!Never => n = r
  <1>. DEFINE n == Push!noted(want, r, t)
  <1>1. CASE want # PushNone
    <2>1. n = [r EXCEPT !.unwanted = 0] BY <1>1 DEF Push!noted, Push!Never
    <2>2. n \in Push!Registration
      <3>1. 0 \in Push!Time BY NodesAssumption DEF Push!Time
      <3>. QED BY <2>1, <3>1 DEF Push!Registration
    <2>3. /\ n.token = r.token /\ n.next = r.next /\ n.at = r.at /\ n.node = r.node /\ n.known = r.known
      BY <2>1 DEF Push!Registration
    <2>. HIDE DEF n
    <2>. QED BY <1>1, <2>2, <2>3 DEF Push!is_registered, n
  <1>2. CASE want = PushNone /\ ~Push!is_registered(r)
    <2>1. n = Push!Unknown BY <1>2 DEF Push!noted
    <2>. HIDE DEF n
    <2>. QED BY <1>2, <2>1, Blanks DEF Push!is_registered, n
  <1>3. CASE want = PushNone /\ Push!is_registered(r) /\ r.unwanted = Push!Never
    <2>1. n = [r EXCEPT !.unwanted = t] BY <1>3 DEF Push!noted
    <2>2. n \in Push!Registration BY <2>1 DEF Push!Registration
    <2>3. /\ n.token = r.token /\ n.next = r.next /\ n.at = r.at /\ n.node = r.node /\ n.known = r.known
      BY <2>1 DEF Push!Registration
    <2>. HIDE DEF n
    <2>. QED BY <1>3, <2>2, <2>3 DEF Push!is_registered, n
  <1>4. CASE want = PushNone /\ Push!is_registered(r) /\ r.unwanted # Push!Never
    BY <1>4 DEF Push!noted
  <1>. QED BY <1>1, <1>2, <1>3, <1>4

LEMMA PlanIs ==
    ASSUME NEW k \in PushKeys, NEW want \in PushNodes \cup {PushNone}, NEW r \in Push!Registration,
           NEW tok \in Tokens \cup {PushNone}, NEW refused \in [PushNodes -> Push!Time],
           NEW t \in Push!Time
    PROVE  LET p == Push!plan(k, want, r, tok, refused, t)
           IN  /\ p \in Jobs
               /\ p.do = "unregister" => /\ want = PushNone /\ Push!is_registered(r)
                                         /\ r.unwanted # Push!Never /\ t > r.unwanted + Grace
               /\ want # PushNone /\ ~Push!refusal_active(refused[want], t) /\ ~Push!backing_off(r, t) =>
                    \/ p = [do |-> "register", node |-> want]
                    \/ /\ p.do = "nothing" /\ Push!is_registered(r)
                       /\ r.token = tok /\ r.node = want /\ ~(t > r.at) /\ r.next = Push!Never
  <1>1. CASE want # PushNone
    BY <1>1 DEF Push!plan, Push!due, Jobs
  <1>2. CASE want = PushNone
    BY <1>2 DEF Push!plan, Jobs
  <1>. QED BY <1>1, <1>2

(* A pass begins: the rules applied to what it loads.                       *)
LEMMA BeginsWith ==
    ASSUME PushInv, ~pass.on, NEW d \in BOOLEAN, Push!began(d)
    PROVE  LET on == enabled /\ token # PushNone /\ ~d
           IN  /\ pass' \in PassRecords /\ pass'.on /\ pass'.deleting = d /\ pass'.at = now
               /\ pass'.token = IF on THEN token ELSE PushNone
               /\ pass'.refusals = refusals
               /\ \A k \in PushKeys : pass'.regs[k] = IF on THEN Push!noted(rows[k], regs[k], now)
                                                      ELSE IF Push!is_registered(regs[k]) THEN regs[k]
                                                      ELSE Push!Unknown
               /\ \A k \in PushKeys : pass'.todo[k] =
                    IF on THEN Push!plan(k, rows[k], regs[k], token, refusals, now)
                    ELSE Push!off_plan(regs[k])
               /\ pass'.clean => ~on \/ \A k \in PushKeys : rows[k] # PushNone =>
                                    /\ ~Push!refusal_active(refusals[rows[k]], now)
                                    /\ ~Push!backing_off(regs[k], now)
  <1>. DEFINE on == enabled /\ token # PushNone /\ ~d
  <1>0. /\ \A k \in PushKeys : rows[k] \in PushNodes \cup {PushNone} /\ regs[k] \in Push!Registration
        /\ token \in Tokens \cup {PushNone} /\ refusals \in [PushNodes -> Push!Time] /\ now \in Push!Time
    <2>1. now \in Push!Time BY DEF PushInv, PushTypes, Push!Time
    <2>. QED BY <2>1 DEF PushInv, PushTypes
  <1>. DEFINE rr == [k \in PushKeys |-> IF on THEN Push!noted(rows[k], regs[k], now)
                                     ELSE IF Push!is_registered(regs[k]) THEN regs[k] ELSE Push!Unknown]
              tt == [k \in PushKeys |-> IF on THEN Push!plan(k, rows[k], regs[k], token, refusals, now)
                                     ELSE Push!off_plan(regs[k])]
              cl == ~on \/ \A k \in PushKeys : rows[k] # PushNone =>
                                    /\ ~Push!refusal_active(refusals[rows[k]], now)
                                    /\ ~Push!backing_off(regs[k], now)
  <1>1. rr \in [PushKeys -> Push!Registration]
    <2>1. \A k \in PushKeys : Push!noted(rows[k], regs[k], now) \in Push!Registration BY <1>0, NotedIs
    <2>. QED BY <1>0, <2>1, Blanks
  <1>2. tt \in [PushKeys -> Jobs]
    <2>1. \A k \in PushKeys : Push!plan(k, rows[k], regs[k], token, refusals, now) \in Jobs BY <1>0, PlanIs
    <2>2. \A k \in PushKeys : Push!off_plan(regs[k]) \in Jobs BY DEF Push!off_plan, Jobs
    <2>. QED BY <2>1, <2>2
  <1>3. pass' = [on |-> TRUE, deleting |-> d, token |-> IF on THEN token ELSE PushNone,
                 regs |-> rr, refusals |-> refusals, todo |-> tt, at |-> now, clean |-> cl]
    BY DEF Push!began
  <1>4. cl \in BOOLEAN OBVIOUS
  <1>5. \A k \in PushKeys : rr[k] = IF on THEN Push!noted(rows[k], regs[k], now)
                                     ELSE IF Push!is_registered(regs[k]) THEN regs[k] ELSE Push!Unknown
    OBVIOUS
  <1>6. \A k \in PushKeys : tt[k] = IF on THEN Push!plan(k, rows[k], regs[k], token, refusals, now)
                                     ELSE Push!off_plan(regs[k])
    OBVIOUS
  <1>7. (IF on THEN token ELSE PushNone) \in Tokens \cup {PushNone} BY <1>0
  <1>. HIDE DEF rr, tt
  <1>8. pass' \in PassRecords BY <1>0, <1>1, <1>2, <1>3, <1>4, <1>7 DEF PassRecords
  <1>. QED BY <1>3, <1>5, <1>6, <1>8

LEMMA BeginKeeps == PushInv /\ (Push!reconcile_push \/ Push!unregister_all) => PushInv'
  <1>. SUFFICES ASSUME PushInv, Push!reconcile_push \/ Push!unregister_all PROVE PushInv'
    OBVIOUS
  <1>. USE DEF PushInv
  <1>1. PICK d \in BOOLEAN :
          /\ ~pass.on /\ Push!began(d)
          /\ UNCHANGED <<enabled, token, regs, refusals, server, scheduled, now, faults, cleanAt,
                         forgotten, unheard, selected, again>>
          /\ \/ /\ ~d /\ waiting > 0 /\ waiting' = waiting - 1 /\ dirty' = FALSE
                /\ UNCHANGED <<rows, moves>>
             \/ /\ d /\ rows' = [k \in PushKeys |-> PushNone] /\ UNCHANGED <<dirty, waiting>>
                /\ moves < MaxMoves /\ moves' = moves + 1
    BY DEF Push!reconcile_push, Push!unregister_all, Push!move
  <1>. DEFINE on == enabled /\ token # PushNone /\ ~d
  <1>2. /\ pass' \in PassRecords /\ pass'.on /\ pass'.deleting = d /\ pass'.at = now
        /\ pass'.token = IF on THEN token ELSE PushNone
        /\ pass'.refusals = refusals
        /\ \A k \in PushKeys : pass'.regs[k] = IF on THEN Push!noted(rows[k], regs[k], now)
                                               ELSE IF Push!is_registered(regs[k]) THEN regs[k]
                                               ELSE Push!Unknown
        /\ \A k \in PushKeys : pass'.todo[k] =
             IF on THEN Push!plan(k, rows[k], regs[k], token, refusals, now)
             ELSE Push!off_plan(regs[k])
        /\ pass'.clean => ~on \/ \A k \in PushKeys : rows[k] # PushNone =>
                             /\ ~Push!refusal_active(refusals[rows[k]], now)
                             /\ ~Push!backing_off(regs[k], now)
    BY <1>1, BeginsWith
  <1>3. PushTypes'
    <2>0. waiting \in 0 .. 2 /\ moves \in 0 .. MaxMoves /\ dirty \in BOOLEAN BY DEF PushTypes
    <2>1. waiting' \in 0 .. 2 /\ moves' \in 0 .. MaxMoves /\ dirty' \in BOOLEAN
      <3>1. \/ waiting > 0 /\ waiting' = waiting - 1 /\ dirty' = FALSE /\ moves' = moves
            \/ UNCHANGED <<dirty, waiting>> /\ moves < MaxMoves /\ moves' = moves + 1
        BY <1>1
      <3>2. waiting' \in 0 .. 2 BY <2>0, <3>1
      <3>3. moves' \in 0 .. MaxMoves BY <2>0, <3>1, NodesAssumption
      <3>4. dirty' \in BOOLEAN BY <2>0, <3>1, Zenon
      <3>. QED BY <3>2, <3>3, <3>4
    <2>2. rows' \in [PushKeys -> PushNodes \cup {PushNone}] BY <1>1 DEF PushTypes
    <2>. QED BY <1>1, <1>2, <2>1, <2>2 DEF PushTypes
  <1>4. /\ now \in 1 .. MaxTime /\ now \in Push!Time /\ now \in Nat
        /\ \A k \in PushKeys : rows[k] \in PushNodes \cup {PushNone} /\ regs[k] \in Push!Registration
        /\ token \in Tokens \cup {PushNone} /\ refusals \in [PushNodes -> Push!Time]
    BY DEF PushTypes, Push!Time
  <1>5. ASSUME NEW k \in PushKeys
        PROVE  LET r == regs[k]
                   n == pass'.regs[k]
               IN  /\ Push!is_registered(n) <=> Push!is_registered(r)
                   /\ Push!is_registered(r) => /\ n.token = r.token /\ n.next = r.next
                                               /\ n.at = r.at /\ n.node = r.node
                   /\ n.known /\ ~Push!is_registered(n) => r.known /\ n.next = r.next
                   /\ n.at = r.at \/ n.at = 0
    <2>1. CASE on
      <3>. DEFINE n == Push!noted(rows[k], regs[k], now)
      <3>1. pass'.regs[k] = n BY <1>2, <2>1
      <3>2. /\ Push!is_registered(n) => n.token = regs[k].token
            /\ Push!is_registered(regs[k]) => /\ n.token = regs[k].token /\ n.next = regs[k].next
                                              /\ n.at = regs[k].at /\ n.node = regs[k].node
            /\ n.known /\ ~Push!is_registered(n) => regs[k].known /\ ~Push!is_registered(regs[k]) /\ n.next = regs[k].next
            /\ n.at = regs[k].at \/ n.at = 0
        BY <1>4, NotedIs
      <3>. HIDE DEF n
      <3>. QED BY <3>1, <3>2 DEF Push!is_registered
    <2>2. CASE ~on BY <1>2, <2>2, Blanks DEF Push!is_registered
    <2>. QED BY <2>1, <2>2
  <1>6. RecordsSane'
    <2>1. ASSUME NEW k \in PushKeys PROVE Sane(pass.regs[k])'
      BY <1>1, <1>4, <1>5 DEF RecordsSane, Sane, Push!Never
    <2>2. ASSUME NEW k \in PushKeys PROVE Sane(regs[k])' BY <1>1 DEF RecordsSane, Sane
    <2>. QED BY <2>1, <2>2 DEF RecordsSane
  <1>7. RecordsTrue' BY <1>1, <1>2, <1>5 DEF RecordsTrue, Copy
  <1>8. AskedIfDirty' BY <1>1 DEF AskedIfDirty, Unasked
  <1>9. ASSUME NEW k \in PushKeys, on
        PROVE  /\ pass'.todo[k].do = "unregister" => now > pass'.regs[k].unwanted + Grace
               /\ pass'.clean /\ rows[k] # PushNone =>
                   \/ pass'.todo[k] = [do |-> "register", node |-> rows[k]]
                   \/ /\ pass'.todo[k].do = "nothing" /\ pass'.regs[k].token = token
                      /\ pass'.regs[k].node = rows[k] /\ pass'.regs[k].at = now
                      /\ pass'.regs[k].next = Push!Never
    <2>. DEFINE p == Push!plan(k, rows[k], regs[k], token, refusals, now)
    <2>1. pass'.todo[k] = p /\ pass'.regs[k] = Push!noted(rows[k], regs[k], now) BY <1>2, <1>9
    <2>0. /\ rows[k] \in PushNodes \cup {PushNone} /\ regs[k] \in Push!Registration /\ now \in Push!Time
          /\ token \in Tokens \cup {PushNone} /\ refusals \in [PushNodes -> Push!Time]
      BY <1>4
    <2>2. /\ p.do = "unregister" => /\ rows[k] = PushNone /\ Push!is_registered(regs[k])
                                    /\ regs[k].unwanted # Push!Never /\ now > regs[k].unwanted + Grace
          /\ rows[k] # PushNone /\ ~Push!refusal_active(refusals[rows[k]], now) /\ ~Push!backing_off(regs[k], now) =>
                    \/ p = [do |-> "register", node |-> rows[k]]
                    \/ /\ p.do = "nothing" /\ Push!is_registered(regs[k])
                       /\ regs[k].token = token /\ regs[k].node = rows[k] /\ ~(now > regs[k].at)
                       /\ regs[k].next = Push!Never
      <3>. DEFINE want == rows[k]
                  r == regs[k]
      <3>1. want \in PushNodes \cup {PushNone} /\ r \in Push!Registration BY <2>0
      <3>. HIDE DEF want, r
      <3>2. LET q == Push!plan(k, want, r, token, refusals, now)
            IN  /\ q.do = "unregister" => /\ want = PushNone /\ Push!is_registered(r)
                                           /\ r.unwanted # Push!Never /\ now > r.unwanted + Grace
                /\ want # PushNone /\ ~Push!refusal_active(refusals[want], now) /\ ~Push!backing_off(r, now) =>
                    \/ q = [do |-> "register", node |-> want]
                    \/ /\ q.do = "nothing" /\ Push!is_registered(r)
                       /\ r.token = token /\ r.node = want /\ ~(now > r.at) /\ r.next = Push!Never
        BY <2>0, <3>1, PlanIs
      <3>. QED BY <3>2 DEF want, r
    <2>. HIDE DEF p
    <2>3. rows[k] = PushNone /\ Push!is_registered(regs[k]) /\ regs[k].unwanted # Push!Never
            => pass'.regs[k] = regs[k]
      BY <2>1 DEF Push!noted
    <2>4. regs[k].at <= now /\ regs[k].at \in Nat BY <1>4 DEF RecordsSane, Sane, Push!Registration, Push!Time
    <2>. QED BY <1>2, <1>4, <1>5, <1>9, <2>1, <2>2, <2>3, <2>4
  <1>10. ASSUME NEW k \in PushKeys, ~on
         PROVE  /\ pass'.todo[k].do # "register"
                /\ pass'.todo[k].do = "unregister" <=> Push!is_registered(regs[k])
    <2>1. pass'.todo[k] = Push!off_plan(regs[k]) BY <1>2, <1>10
    <2>. QED BY <2>1 DEF Push!off_plan
  <1>11. PassIsCurrent'
    <2>1. Unasked' /\ ~d => pass'.token = IF enabled' THEN token' ELSE PushNone BY <1>1, <1>2
    <2>2. d => \A k \in PushKeys : rows'[k] = PushNone BY <1>1
    <2>3. ASSUME NEW k \in PushKeys
          PROVE  /\ pass'.todo[k].do = "register" => pass'.token # PushNone
                 /\ pass'.todo[k].do = "unregister" /\ pass'.token # PushNone
                      => pass'.at > pass'.regs[k].unwanted + Grace
      <3>1. CASE on BY <3>1, <1>2, <1>9
      <3>2. CASE ~on BY <3>2, <1>2, <1>10
      <3>. QED BY <3>1, <3>2
    <2>4. pass'.at \in 1 .. now' BY <1>1, <1>2, <1>4
    <2>5. d => pass'.token = PushNone BY <1>2
    <2>. QED BY <1>2, <2>1, <2>2, <2>3, <2>4, <2>5 DEF PassIsCurrent
  <1>12. Serving'
    <2>. SUFFICES ASSUME on, pass'.clean, NEW k \in PushKeys, rows'[k] # PushNone
                  PROVE  \/ pass'.todo[k] = [do |-> "register", node |-> rows'[k]]
                         \/ pass'.todo[k].do = "nothing" /\ Kept(pass.regs[k], k, pass.at)'
      BY <1>2 DEF Serving
    <2>. QED BY <1>1, <1>2, <1>9 DEF Kept
  <1>13. Silencing' BY <1>1, <1>2, <1>4, <1>10 DEF Silencing, RecordsTrue, Copy
  <1>14. Retrying' BY <1>1, <1>2 DEF Retrying
  <1>. QED BY <1>3, <1>6, <1>7, <1>8, <1>11, <1>12, <1>13, <1>14

-----------------------------------------------------------------------------
(* A request is answered: the record it was about, what the server then     *)
(* holds, the refusals, and whether all went well.                          *)
Answers(k, r, rf, c) ==
    pass' = [pass EXCEPT !.todo = Push!answered(k), !.regs = [pass.regs EXCEPT ![k] = r],
                         !.refusals = rf, !.clean = c]

Answered(k, r, rf, c) ==
    /\ pass' \in PassRecords /\ pass'.on = pass.on /\ pass'.deleting = pass.deleting
    /\ pass'.token = pass.token /\ pass'.at = pass.at /\ pass'.refusals = rf /\ pass'.clean = c
    /\ pass'.regs[k] = r /\ (\A x \in PushKeys \ {k} : pass'.regs[x] = pass.regs[x])
    /\ pass'.todo[k].do = "nothing" /\ (\A x \in PushKeys \ {k} : pass'.todo[x] = pass.todo[x])

LEMMA AnswerMoves ==
    \A k \in PushKeys, r \in Push!Registration, rf \in [PushNodes -> Push!Time], c \in BOOLEAN :
      pass \in PassRecords /\ Answers(k, r, rf, c) => Answered(k, r, rf, c)
  <1>. SUFFICES ASSUME NEW k \in PushKeys, NEW r \in Push!Registration,
                       NEW rf \in [PushNodes -> Push!Time], NEW c \in BOOLEAN,
                       pass \in PassRecords, Answers(k, r, rf, c)
                PROVE  Answered(k, r, rf, c)
    OBVIOUS
  <1>1. pass.todo \in [PushKeys -> Jobs] /\ pass.regs \in [PushKeys -> Push!Registration] BY DEF PassRecords
  <1>. DEFINE tt == Push!answered(k)
              j == [pass.todo[k] EXCEPT !.do = "nothing"]
              rr == [pass.regs EXCEPT ![k] = r]
  <1>2. j \in Jobs /\ j.do = "nothing" BY <1>1 DEF Jobs
  <1>3. tt = [pass.todo EXCEPT ![k] = j] BY <1>1 DEF Push!answered
  <1>. HIDE DEF j
  <1>4. tt \in [PushKeys -> Jobs] /\ tt[k] = j /\ \A x \in PushKeys \ {k} : tt[x] = pass.todo[x]
    BY <1>1, <1>2, <1>3
  <1>5. rr \in [PushKeys -> Push!Registration] /\ rr[k] = r /\ \A x \in PushKeys \ {k} : rr[x] = pass.regs[x]
    BY <1>1
  <1>6. pass' = [pass EXCEPT !.todo = tt, !.regs = rr, !.refusals = rf, !.clean = c] BY DEF Answers
  <1>. HIDE DEF tt, rr
  <1>7. /\ pass' \in PassRecords /\ pass'.on = pass.on /\ pass'.deleting = pass.deleting
        /\ pass'.token = pass.token /\ pass'.at = pass.at /\ pass'.refusals = rf /\ pass'.clean = c
        /\ pass'.regs = rr /\ pass'.todo = tt
    BY <1>4, <1>5, <1>6 DEF PassRecords
  <1>. QED BY <1>2, <1>4, <1>5, <1>7 DEF Answered

LEMMA AnswerKeeps ==
    ASSUME PushInv, NEW k \in PushKeys, pass.on, pass.todo[k].do # "nothing",
           NEW r \in Push!Registration, NEW rf \in [PushNodes -> Push!Time], NEW c \in BOOLEAN,
           Answers(k, r, rf, c),
           UNCHANGED <<rows, enabled, token, regs, refusals, dirty, scheduled, waiting, now, moves, cleanAt>>,
           server' \in [PushKeys -> Tokens \cup {PushNone}], faults' \in 0 .. MaxFaults,
           forgotten' \subseteq PushKeys, unheard' \subseteq PushKeys, again' \subseteq again,
           \A x \in PushKeys \ {k} : /\ server'[x] = server[x] /\ (x \in forgotten => x \in forgotten')
                                     /\ (x \in unheard => x \in unheard'),
           Sane(r),
           Push!is_registered(r) /\ r.next = Push!Never => server'[k] = r.token \/ k \in forgotten',
           server'[k] # PushNone => Push!is_registered(r) \/ k \in unheard',
           c => /\ pass.clean
                /\ pass.todo[k].do = "register" => /\ r.token = pass.token /\ r.node = pass.todo[k].node
                                                   /\ r.at = pass.at /\ r.next = Push!Never
                /\ pass.token = PushNone => server'[k] = PushNone,
           selected' \subseteq selected, \A n \in selected' : rf[n] = pass.refusals[n]
    PROVE  PushInv'
  <1>. USE DEF PushInv
  <1>0. pass \in PassRecords BY DEF PushTypes
  <1>1. /\ pass' \in PassRecords /\ pass'.on = pass.on /\ pass'.deleting = pass.deleting
        /\ pass'.token = pass.token /\ pass'.at = pass.at /\ pass'.refusals = rf /\ pass'.clean = c
        /\ pass'.regs[k] = r /\ (\A x \in PushKeys \ {k} : pass'.regs[x] = pass.regs[x])
        /\ pass'.todo[k].do = "nothing" /\ (\A x \in PushKeys \ {k} : pass'.todo[x] = pass.todo[x])
    <2>1. Answered(k, r, rf, c) BY <1>0, AnswerMoves
    <2>. QED BY <2>1 DEF Answered
  <1>2. PushTypes' BY <1>1 DEF PushTypes
  <1>3. RecordsSane' BY <1>1 DEF RecordsSane, Sane
  <1>4. RecordsTrue' BY <1>1 DEF RecordsTrue, Copy
  <1>5. AskedIfDirty' BY DEF AskedIfDirty, Unasked
  <1>6. PassIsCurrent' BY <1>1 DEF PassIsCurrent, Unasked
  <1>7. Serving'
    <2>. SUFFICES ASSUME Unasked, c, pass.token # PushNone, NEW x \in PushKeys, rows[x] # PushNone
                  PROVE  \/ pass'.todo[x] = [do |-> "register", node |-> rows[x]]
                         \/ pass'.todo[x].do = "nothing" /\ Kept(pass.regs[x], x, pass.at)'
      BY <1>1 DEF Serving, Unasked
    <2>1. pass.token = token BY DEF PassIsCurrent
    <2>2. \/ pass.todo[x] = [do |-> "register", node |-> rows[x]]
          \/ pass.todo[x].do = "nothing" /\ Kept(pass.regs[x], x, pass.at)
      BY DEF Serving
    <2>. QED BY <1>1, <2>1, <2>2 DEF Kept
  <1>8. Silencing' BY <1>1 DEF Silencing, Unasked
  <1>9. Retrying' BY <1>1 DEF Retrying
  <1>. QED BY <1>2, <1>3, <1>4, <1>5, <1>6, <1>7, <1>8, <1>9

(* What a request that is still to be answered is about.                    *)
LEMMA Asked ==
    ASSUME PushInv, pass.on, NEW k \in PushKeys
    PROVE  /\ pass \in PassRecords /\ pass.todo[k] \in Jobs /\ pass.regs[k] \in Push!Registration
           /\ pass.refusals \in [PushNodes -> Push!Time] /\ pass.clean \in BOOLEAN
           /\ pass.token \in Tokens \cup {PushNone}
           /\ pass.at \in 1 .. now /\ now \in 1 .. MaxTime /\ pass.at \in Push!Time
           /\ pass.at + 1 \in 0 .. MaxTime + 1 /\ pass.at + 1 # 0
           /\ server \in [PushKeys -> Tokens \cup {PushNone}]
           /\ Sane(pass.regs[k])
           /\ pass.todo[k].do = "register" => pass.token # PushNone
           /\ Push!is_registered(pass.regs[k]) /\ pass.regs[k].next = Push!Never
                => server[k] = pass.regs[k].token \/ k \in forgotten
           /\ server[k] # PushNone => Push!is_registered(pass.regs[k]) \/ k \in unheard
  <1>1. pass \in PassRecords /\ now \in 1 .. MaxTime /\ server \in [PushKeys -> Tokens \cup {PushNone}]
    BY DEF PushInv, PushTypes
  <1>2. /\ pass.todo \in [PushKeys -> Jobs] /\ pass.regs \in [PushKeys -> Push!Registration]
        /\ pass.refusals \in [PushNodes -> Push!Time] /\ pass.clean \in BOOLEAN
        /\ pass.token \in Tokens \cup {PushNone}
    BY <1>1 DEF PassRecords
  <1>3. pass.at \in 1 .. now /\ (pass.todo[k].do = "register" => pass.token # PushNone)
    BY DEF PushInv, PassIsCurrent
  <1>4. MaxTime \in Nat BY NodesAssumption
  <1>5. pass.at \in Push!Time /\ pass.at + 1 \in 0 .. MaxTime + 1 /\ pass.at + 1 # 0
    BY <1>1, <1>3, <1>4 DEF Push!Time
  <1>6. Sane(pass.regs[k]) BY DEF PushInv, RecordsSane
  <1>7. /\ Push!is_registered(pass.regs[k]) /\ pass.regs[k].next = Push!Never
             => server[k] = pass.regs[k].token \/ k \in forgotten
        /\ server[k] # PushNone => Push!is_registered(pass.regs[k]) \/ k \in unheard
    BY DEF PushInv, RecordsTrue, Copy
  <1>. QED BY <1>1, <1>2, <1>3, <1>5, <1>6, <1>7

LEMMA AcceptedKeeps ==
    ASSUME PushInv, NEW k \in PushKeys, Push!reconcile_core(k), Push!request_accepted(k) PROVE PushInv'
  <1>0. /\ pass.on /\ pass.todo[k].do # "nothing"
        /\ UNCHANGED <<rows, enabled, token, regs, refusals, dirty, scheduled, waiting, now, moves, cleanAt>>
    BY DEF Push!reconcile_core
  <1>. DEFINE q == pass.regs[k]
              job == pass.todo[k]
              reg == job.do = "register"
              r == IF reg THEN [known |-> TRUE, token |-> pass.token, at |-> pass.at,
                                node |-> job.node, unwanted |-> q.unwanted, next |-> Push!Never]
                   ELSE Push!Unknown
              srv == IF reg THEN pass.token ELSE PushNone
              rf == pass.refusals
              c == pass.clean
  <1>1. /\ pass \in PassRecords /\ job \in Jobs /\ q \in Push!Registration
        /\ rf \in [PushNodes -> Push!Time] /\ c \in BOOLEAN
        /\ pass.token \in Tokens \cup {PushNone} /\ pass.at \in 1 .. now /\ pass.at \in Push!Time
        /\ server \in [PushKeys -> Tokens \cup {PushNone}]
        /\ reg => pass.token # PushNone
    BY <1>0, Asked
  <1>2. /\ server' = [server EXCEPT ![k] = srv] /\ unheard' = unheard \ {k} /\ forgotten' = forgotten \ {k}
        /\ UNCHANGED <<faults, selected, again>>
        /\ pass' = [pass EXCEPT !.todo = Push!answered(k), !.regs[k] = r]
    BY DEF Push!request_accepted
  <1>3. r \in Push!Registration
    BY <1>1, Blanks, NodesAssumption DEF Push!Registration, Jobs, Push!Never, Push!Time
  <1>4. /\ reg => r.token = pass.token /\ r.at = pass.at /\ r.node = job.node /\ r.next = Push!Never
        /\ ~reg => r.token = PushNone /\ ~r.known /\ r.at = 0
    <2>1. CASE reg BY <2>1
    <2>2. CASE ~reg
      <3>1. r = Push!Unknown BY <2>2
      <3>. HIDE DEF r
      <3>. QED BY <2>2, <3>1, Blanks
    <2>. QED BY <2>1, <2>2
  <1>5. Sane(r)
    <2>. HIDE DEF r
    <2>1. now \in Nat /\ 0 <= now BY DEF PushInv, PushTypes
    <2>2. CASE reg BY <2>2, <1>1, <1>4 DEF Sane, Push!is_registered
    <2>3. CASE ~reg BY <2>1, <2>3, <1>4 DEF Sane
    <2>. QED BY <2>2, <2>3
  <1>6. srv = r.token /\ srv \in Tokens \cup {PushNone} BY <1>1, <1>4
  <1>7. Answers(k, r, rf, c)
    <2>. HIDE DEF r
    <2>. QED BY <1>1, <1>2 DEF Answers, PassRecords
  <1>8. server' \in [PushKeys -> Tokens \cup {PushNone}] /\ server'[k] = srv
        /\ \A x \in PushKeys \ {k} : server'[x] = server[x]
    BY <1>1, <1>2, <1>6
  <1>9. pass.token = PushNone => srv = PushNone BY <1>1
  <1>10. /\ faults' \in 0 .. MaxFaults /\ forgotten' \subseteq PushKeys /\ unheard' \subseteq PushKeys
         /\ \A x \in PushKeys \ {k} : /\ x \in forgotten => x \in forgotten'
                                      /\ x \in unheard => x \in unheard'
    BY <1>2 DEF PushInv, PushTypes
  <1>11. c => /\ pass.clean
              /\ reg => r.token = pass.token /\ r.node = job.node /\ r.at = pass.at /\ r.next = Push!Never
              /\ pass.token = PushNone => server'[k] = PushNone
    BY <1>4, <1>8, <1>9
  <1>12. selected' \subseteq selected /\ again' \subseteq again /\ \A n \in selected' : rf[n] = pass.refusals[n]
    BY <1>2
  <1>13. /\ Push!is_registered(r) /\ r.next = Push!Never => server'[k] = r.token \/ k \in forgotten'
         /\ server'[k] # PushNone => Push!is_registered(r) \/ k \in unheard'
    BY <1>6, <1>8 DEF Push!is_registered
  <1>. HIDE DEF r, rf, c, srv
  <1>. QED BY <1>0, <1>1, <1>3, <1>5, <1>7, <1>8, <1>10, <1>11, <1>12, <1>13, AnswerKeeps

LEMMA FailedKeeps ==
    ASSUME PushInv, NEW k \in PushKeys, Push!reconcile_core(k), Push!request_failed(k) PROVE PushInv'
  <1>0. /\ pass.on /\ pass.todo[k].do # "nothing"
        /\ UNCHANGED <<rows, enabled, token, regs, refusals, dirty, scheduled, waiting, now, moves, cleanAt>>
    BY DEF Push!reconcile_core
  <1>. DEFINE q == pass.regs[k]
              job == pass.todo[k]
              r == [q EXCEPT !.known = TRUE, !.next = pass.at + 1,
                             !.node = IF q.known THEN @ ELSE job.node]
              rf == pass.refusals
  <1>1. /\ pass \in PassRecords /\ job \in Jobs /\ q \in Push!Registration
        /\ rf \in [PushNodes -> Push!Time]
        /\ pass.token \in Tokens \cup {PushNone} /\ pass.at \in 1 .. now
        /\ pass.at + 1 \in 0 .. MaxTime + 1 /\ pass.at + 1 # 0
        /\ server \in [PushKeys -> Tokens \cup {PushNone}] /\ Sane(q)
        /\ server[k] # PushNone => Push!is_registered(q) \/ k \in unheard
    BY <1>0, Asked
  <1>2. /\ faults < MaxFaults /\ faults' = faults + 1
        /\ \/ UNCHANGED <<server, unheard>>
           \/ server' = [server EXCEPT ![k] = pass.token] /\ unheard' = unheard \cup {k}
        /\ UNCHANGED <<forgotten, selected, again>>
        /\ pass' = [pass EXCEPT !.todo = Push!answered(k), !.clean = FALSE, !.regs[k] = r]
    BY DEF Push!request_failed
  <1>3. r \in Push!Registration /\ r.next = pass.at + 1 /\ r.at = q.at /\ r.token = q.token
    BY <1>1 DEF Push!Registration, Jobs
  <1>. HIDE DEF r
  <1>4. Sane(r) BY <1>1, <1>3 DEF Sane, Push!Never
  <1>5. Answers(k, r, rf, FALSE) BY <1>1, <1>2 DEF Answers, PassRecords
  <1>6. /\ server' \in [PushKeys -> Tokens \cup {PushNone}]
        /\ \A x \in PushKeys \ {k} : server'[x] = server[x]
        /\ server'[k] = server[k] \/ k \in unheard'
    BY <1>1, <1>2
  <1>7. faults' \in 0 .. MaxFaults BY <1>2, NodesAssumption DEF PushInv, PushTypes
  <1>8. /\ forgotten' \subseteq PushKeys /\ unheard' \subseteq PushKeys
        /\ \A x \in PushKeys \ {k} : /\ x \in forgotten => x \in forgotten'
                                     /\ x \in unheard => x \in unheard'
        /\ k \in unheard => k \in unheard'
    BY <1>2 DEF PushInv, PushTypes
  <1>9. selected' \subseteq selected /\ again' \subseteq again /\ \A n \in selected' : rf[n] = pass.refusals[n]
    BY <1>2
  <1>10. /\ Push!is_registered(r) /\ r.next = Push!Never => server'[k] = r.token \/ k \in forgotten'
         /\ server'[k] # PushNone => Push!is_registered(r) \/ k \in unheard'
    BY <1>1, <1>3, <1>6, <1>8 DEF Push!is_registered, Push!Never
  <1>11. FALSE \in BOOLEAN OBVIOUS
  <1>. HIDE DEF rf
  <1>. QED BY <1>0, <1>1, <1>3, <1>4, <1>5, <1>6, <1>7, <1>8, <1>9, <1>10, <1>11, AnswerKeeps

LEMMA RefusedKeeps ==
    ASSUME PushInv, NEW k \in PushKeys, Push!reconcile_core(k), Push!request_refused(k) PROVE PushInv'
  <1>0. /\ pass.on /\ pass.todo[k].do # "nothing"
        /\ UNCHANGED <<rows, enabled, token, regs, refusals, dirty, scheduled, waiting, now, moves, cleanAt>>
    BY DEF Push!reconcile_core
  <1>. DEFINE q == pass.regs[k]
              n == pass.todo[k].node
              rf == [pass.refusals EXCEPT ![n] = pass.at]
  <1>1. /\ pass \in PassRecords /\ q \in Push!Registration
        /\ pass.refusals \in [PushNodes -> Push!Time] /\ pass.at \in Push!Time
        /\ server \in [PushKeys -> Tokens \cup {PushNone}] /\ Sane(q)
        /\ Push!is_registered(q) /\ q.next = Push!Never => server[k] = q.token \/ k \in forgotten
        /\ server[k] # PushNone => Push!is_registered(q) \/ k \in unheard
    BY <1>0, Asked
  <1>2. /\ faults < MaxFaults /\ faults' = faults + 1
        /\ UNCHANGED <<server, forgotten, unheard>>
        /\ selected' = selected \ {n} /\ again' = again \ {n}
        /\ pass' = [pass EXCEPT !.todo = Push!answered(k), !.refusals[n] = pass.at, !.clean = FALSE]
    BY DEF Push!request_refused
  <1>3. rf \in [PushNodes -> Push!Time] BY <1>1
  <1>4. selected' \subseteq selected /\ again' \subseteq again /\ \A x \in selected' : rf[x] = pass.refusals[x]
    <2>1. selected \subseteq PushNodes BY DEF PushInv, PushTypes
    <2>. QED BY <1>1, <1>2, <2>1
  <1>5. [pass.regs EXCEPT ![k] = q] = pass.regs BY <1>1 DEF PassRecords
  <1>6. Answers(k, q, rf, FALSE)
    <2>1. pass' = [pass EXCEPT !.todo = Push!answered(k), !.refusals = rf, !.clean = FALSE] BY <1>2
    <2>2. pass.regs = [pass.regs EXCEPT ![k] = q] BY <1>5
    <2>. HIDE DEF q, rf
    <2>. DEFINE rr == [pass.regs EXCEPT ![k] = q]
    <2>3. pass.regs = rr BY <2>2
    <2>. HIDE DEF rr
    <2>4. pass' = [pass EXCEPT !.todo = Push!answered(k), !.regs = rr, !.refusals = rf, !.clean = FALSE]
      BY <1>1, <2>1, <2>3 DEF PassRecords
    <2>. QED BY <2>4 DEF Answers, rr
  <1>7. faults' \in 0 .. MaxFaults BY <1>2, NodesAssumption DEF PushInv, PushTypes
  <1>8. forgotten' \subseteq PushKeys /\ unheard' \subseteq PushKeys BY <1>2 DEF PushInv, PushTypes
  <1>9. FALSE \in BOOLEAN OBVIOUS
  <1>. HIDE DEF q, rf
  <1>. QED BY <1>0, <1>1, <1>2, <1>3, <1>4, <1>6, <1>7, <1>8, <1>9, AnswerKeeps

LEMMA RequestKeeps == PushInv /\ (\E k \in PushKeys : Push!reconcile_core(k)) => PushInv'
  BY AcceptedKeeps, FailedKeeps, RefusedKeeps DEF Push!reconcile_core

-----------------------------------------------------------------------------
(* The pass writes its copy back.                                           *)
LEMMA SaveKeeps == PushInv /\ Push!save_registrations => PushInv'
  <1>. SUFFICES ASSUME PushInv, Push!save_registrations PROVE PushInv'
    OBVIOUS
  <1>. USE DEF PushInv
  <1>1. /\ pass.on /\ \A k \in PushKeys : pass.todo[k].do = "nothing"
        /\ pass' = Push!Free /\ cleanAt' = IF pass.clean THEN pass.at ELSE Push!Never
        /\ waiting' = IF dirty /\ ~pass.deleting /\ waiting < 2 THEN waiting + 1 ELSE waiting
        /\ pass.deleting => /\ regs' = [k \in PushKeys |-> Push!Unknown]
                            /\ refusals' = [n \in PushNodes |-> Push!Never]
                            /\ unheard' = unheard \cup {k \in PushKeys : server[k] # PushNone}
        /\ ~pass.deleting => /\ regs' = pass.regs /\ unheard' = unheard
                             /\ refusals' = [n \in PushNodes |->
                                               IF pass.at < pass.refusals[n] + 2 * Refusal
                                               THEN pass.refusals[n] ELSE Push!Never]
        /\ UNCHANGED <<rows, enabled, token, server, dirty, scheduled, now, moves, faults,
                       forgotten, selected, again>>
    BY DEF Push!save_registrations
  <1>2. /\ pass.regs \in [PushKeys -> Push!Registration] /\ pass.refusals \in [PushNodes -> Push!Time]
        /\ pass.at \in 1 .. now /\ pass.at \in Push!Time /\ 0 \in Push!Time
        /\ waiting \in 0 .. 2
    <2>1. pass.at \in 1 .. now /\ now \in 1 .. MaxTime BY <1>1 DEF PassIsCurrent, PushTypes
    <2>. QED BY <2>1, NodesAssumption DEF PushTypes, PassRecords, Push!Time
  <1>3. waiting' \in 0 .. 2 /\ (waiting' = 0 => waiting = 0 /\ (pass.deleting \/ ~dirty))
    BY <1>1, <1>2
  <1>4. /\ regs' \in [PushKeys -> Push!Registration] /\ refusals' \in [PushNodes -> Push!Time]
        /\ unheard' \subseteq PushKeys /\ cleanAt' \in Push!Time
    <2>1. regs' \in [PushKeys -> Push!Registration] BY <1>1, <1>2, Blanks
    <2>2. refusals' \in [PushNodes -> Push!Time]
      <3>1. CASE pass.deleting BY <3>1, <1>1, <1>2 DEF Push!Never
      <3>2. CASE ~pass.deleting BY <3>2, <1>1, <1>2 DEF Push!Never
      <3>. QED BY <3>1, <3>2
    <2>3. unheard' \subseteq PushKeys BY <1>1 DEF PushTypes
    <2>. QED BY <1>1, <1>2, <2>1, <2>2, <2>3 DEF Push!Never
  <1>5. PushTypes' BY <1>1, <1>3, <1>4, Blanks DEF PushTypes
  <1>6. RecordsSane'
    <2>1. ASSUME NEW k \in PushKeys PROVE Sane(Push!Unknown)'
      BY <1>1, Blanks DEF Sane, PushTypes
    <2>2. ASSUME NEW k \in PushKeys PROVE Sane(pass.regs[k])' BY <1>1, <2>1, Blanks DEF Sane
    <2>3. ASSUME NEW k \in PushKeys PROVE Sane(regs[k])'
      <3>1. CASE pass.deleting
        <4>1. regs'[k] = Push!Unknown BY <3>1, <1>1
        <4>. QED BY <4>1, <2>1 DEF Sane
      <3>2. CASE ~pass.deleting BY <3>2, <1>1 DEF RecordsSane, Sane
      <3>. QED BY <3>1, <3>2
    <2>. QED BY <2>2, <2>3 DEF RecordsSane
  <1>7. RecordsTrue'
    <2>. SUFFICES ASSUME NEW k \in PushKeys
                  PROVE  /\ Push!is_registered(regs'[k]) /\ regs'[k].next = Push!Never
                              => server[k] = regs'[k].token \/ k \in forgotten
                         /\ server[k] # PushNone => Push!is_registered(regs'[k]) \/ k \in unheard'
      BY <1>1, Blanks DEF RecordsTrue, Copy
    <2>1. CASE pass.deleting
      <3>1. regs'[k] = Push!Unknown BY <2>1, <1>1
      <3>. QED BY <2>1, <3>1, <1>1, Blanks DEF Push!is_registered
    <2>2. CASE ~pass.deleting BY <2>2, <1>1 DEF RecordsTrue, Copy
    <2>. QED BY <2>1, <2>2
  <1>8. AskedIfDirty' BY <1>1, <1>3 DEF AskedIfDirty, Unasked
  <1>9. PassIsCurrent' BY <1>1, Blanks DEF PassIsCurrent
  <1>10. ASSUME Unasked', cleanAt' # Push!Never
         PROVE  /\ pass.clean /\ cleanAt' = pass.at /\ Unasked
                /\ pass.deleting => regs' = [k \in PushKeys |-> Push!Unknown]
                                    /\ \A k \in PushKeys : rows[k] = PushNone
                /\ ~pass.deleting => pass.token = IF enabled THEN token ELSE PushNone
                /\ pass.deleting => pass.token = PushNone
    <2>1. pass.clean /\ cleanAt' = pass.at BY <1>1, <1>10
    <2>2. Unasked BY <1>1, <1>3, <1>10 DEF Unasked
    <2>. QED BY <2>1, <2>2, <1>1 DEF PassIsCurrent
  <1>11. Serving'
    <2>. SUFFICES ASSUME Unasked', cleanAt' # Push!Never, enabled, token # PushNone,
                         NEW k \in PushKeys, rows[k] # PushNone
                  PROVE  Kept(regs[k], k, cleanAt)'
      BY <1>1, Blanks DEF Serving
    <2>1. ~pass.deleting /\ pass.token = token
      <3>1. ~pass.deleting BY <1>10
      <3>. QED BY <1>10, <3>1
    <2>2. pass.todo[k].do = "nothing" /\ pass.clean /\ Unasked BY <1>1, <1>10
    <2>3. \/ pass.todo[k] = [do |-> "register", node |-> rows[k]]
          \/ Kept(pass.regs[k], k, pass.at)
      BY <1>1, <2>1, <2>2 DEF Serving
    <2>4. Kept(pass.regs[k], k, pass.at) BY <2>2, <2>3
    <2>. QED BY <1>1, <1>10, <2>1, <2>4 DEF Kept
  <1>12. Silencing'
    <2>. SUFFICES ASSUME Unasked', cleanAt' # Push!Never, ~enabled \/ token = PushNone, NEW k \in PushKeys
                  PROVE  server[k] = PushNone \/ k \in unheard'
      BY <1>1, Blanks DEF Silencing
    <2>1. pass.token = PushNone BY <1>10
    <2>2. server[k] = PushNone \/ k \in unheard BY <1>1, <1>10, <2>1 DEF Silencing
    <2>. QED BY <1>1, <2>2
  <1>13. Retrying'
    <2>. SUFFICES ASSUME NEW n \in selected PROVE refusals'[n] = Push!Never
      BY <1>1, Blanks DEF Retrying
    <2>1. n \in PushNodes /\ pass.refusals[n] = Push!Never BY <1>1 DEF Retrying, PushTypes
    <2>. QED BY <1>1, <2>1
  <1>. QED BY <1>5, <1>6, <1>7, <1>8, <1>9, <1>11, <1>12, <1>13

(* The server forgets a key; the app stops.                                 *)
LEMMA ForgetKeeps == PushInv /\ (\E k \in PushKeys : Push!ServerForgets(k)) => PushInv'
  <1>. SUFFICES ASSUME PushInv, NEW k \in PushKeys, Push!ServerForgets(k) PROVE PushInv'
    OBVIOUS
  <1>. USE DEF PushInv
  <1>1. /\ faults < MaxFaults /\ faults' = faults + 1
        /\ server' = [server EXCEPT ![k] = PushNone] /\ forgotten' = forgotten \cup {k}
        /\ UNCHANGED <<rows, enabled, token, regs, refusals, dirty, scheduled, waiting, pass,
                       now, moves, cleanAt, unheard, selected, again>>
    BY DEF Push!ServerForgets, Push!fault
  <1>2. faults' \in 0 .. MaxFaults BY <1>1, NodesAssumption DEF PushTypes
  <1>3. /\ server \in [PushKeys -> Tokens \cup {PushNone}]
        /\ server' \in [PushKeys -> Tokens \cup {PushNone}] /\ server'[k] = PushNone
        /\ \A x \in PushKeys \ {k} : server'[x] = server[x]
    BY <1>1 DEF PushTypes
  <1>4. PushTypes' BY <1>1, <1>2, <1>3 DEF PushTypes
  <1>5. RecordsSane' BY <1>1 DEF RecordsSane, Sane
  <1>6. RecordsTrue' BY <1>1, <1>3 DEF RecordsTrue, Copy
  <1>7. AskedIfDirty' /\ PassIsCurrent' BY <1>1 DEF AskedIfDirty, PassIsCurrent, Unasked
  <1>8. Serving' BY <1>1 DEF Serving, Unasked, Kept
  <1>9. Silencing' BY <1>1, <1>3 DEF Silencing, Unasked
  <1>10. Retrying' BY <1>1 DEF Retrying
  <1>. QED BY <1>4, <1>5, <1>6, <1>7, <1>8, <1>9, <1>10

LEMMA RestartKeeps == PushInv /\ Push!Restart => PushInv'
  <1>. SUFFICES ASSUME PushInv, Push!Restart PROVE PushInv'
    OBVIOUS
  <1>. USE DEF PushInv
  <1>1. /\ faults < MaxFaults /\ faults' = faults + 1
        /\ unheard' = unheard \cup {k \in PushKeys : server[k] # PushNone /\ ~Push!is_registered(regs[k])}
        /\ forgotten' = forgotten \cup {k \in PushKeys : Push!is_registered(regs[k])
                                                         /\ server[k] # regs[k].token}
        /\ pass' = Push!Free /\ waiting' = 0 /\ dirty' = TRUE /\ scheduled' = TRUE
        /\ UNCHANGED <<rows, enabled, token, regs, refusals, server, now, moves, cleanAt, selected, again>>
    BY DEF Push!Restart, Push!fault, Push!request_reconcile
  <1>2. faults' \in 0 .. MaxFaults BY <1>1, NodesAssumption DEF PushTypes
  <1>3. PushTypes' BY <1>1, <1>2, Blanks DEF PushTypes
  <1>4. RecordsSane'
    <2>1. ASSUME NEW k \in PushKeys PROVE Sane(pass.regs[k])'
      BY <1>1, Blanks DEF Sane, PushTypes
    <2>. QED BY <1>1, <2>1 DEF RecordsSane, Sane
  <1>5. RecordsTrue' BY <1>1, Blanks DEF RecordsTrue, Copy
  <1>6. ~Unasked' BY <1>1 DEF Unasked
  <1>7. AskedIfDirty' /\ PassIsCurrent' BY <1>1, <1>6, Blanks DEF AskedIfDirty, PassIsCurrent
  <1>8. Serving' /\ Silencing' BY <1>1, <1>6, Blanks DEF Serving, Silencing
  <1>9. Retrying' BY <1>1, Blanks DEF Retrying
  <1>. QED BY <1>3, <1>4, <1>5, <1>7, <1>8, <1>9

LEMMA PushStart == Push!Init => PushInv
  <1>. SUFFICES ASSUME Push!Init PROVE PushInv
    OBVIOUS
  <1>1. /\ rows = [k \in PushKeys |-> PushNone] /\ enabled = TRUE /\ token = PushNone
        /\ regs = [k \in PushKeys |-> Push!Unknown] /\ refusals = [n \in PushNodes |-> Push!Never]
        /\ server = [k \in PushKeys |-> PushNone]
        /\ dirty = FALSE /\ scheduled = FALSE /\ waiting = 0
        /\ pass = Push!Free /\ now = 1 /\ moves = 0 /\ faults = 0
        /\ cleanAt = Push!Never /\ forgotten = {} /\ unheard = {} /\ selected = {} /\ again = {}
    BY DEF Push!Init
  <1>2. 0 \in Push!Time /\ 1 \in 1 .. MaxTime /\ 0 \in 0 .. MaxMoves /\ 0 \in 0 .. MaxFaults
    <2>1. MaxTime \in Nat \ {0} /\ MaxMoves \in Nat /\ MaxFaults \in Nat BY NodesAssumption
    <2>. QED BY <2>1 DEF Push!Time
  <1>3. PushTypes
    <2>0. enabled \in BOOLEAN /\ dirty \in BOOLEAN /\ scheduled \in BOOLEAN BY <1>1, Zenon
    <2>1. /\ waiting \in 0 .. 2
          /\ now \in 1 .. MaxTime /\ moves \in 0 .. MaxMoves /\ faults \in 0 .. MaxFaults
          /\ cleanAt \in Push!Time
      BY <1>1, <1>2 DEF Push!Never
    <2>2. /\ rows \in [PushKeys -> PushNodes \cup {PushNone}]
          /\ server \in [PushKeys -> Tokens \cup {PushNone}] /\ token \in Tokens \cup {PushNone}
          /\ regs \in [PushKeys -> Push!Registration] /\ refusals \in [PushNodes -> Push!Time]
      BY <1>1, <1>2, Blanks DEF Push!Never
    <2>3. forgotten \subseteq PushKeys /\ unheard \subseteq PushKeys
          /\ selected \subseteq PushNodes /\ again \subseteq PushNodes
      BY <1>1
    <2>. QED BY <1>1, <2>0, <2>1, <2>2, <2>3, Blanks DEF PushTypes
  <1>4. RecordsSane BY <1>1, Blanks DEF RecordsSane, Sane
  <1>5. RecordsTrue BY <1>1, Blanks DEF RecordsTrue, Copy, Push!is_registered
  <1>. QED BY <1>1, <1>3, <1>4, <1>5, Blanks
       DEF PushInv, AskedIfDirty, PassIsCurrent, Serving, Silencing, Retrying

LEMMA PushNext == PushInv /\ [Push!Next]_PushVars => PushInv'
  <1>. SUFFICES ASSUME PushInv, [Push!Next]_PushVars PROVE PushInv'
    OBVIOUS
  <1>1. CASE Push!Next
    BY <1>1, AskKeeps, BeginKeeps, RequestKeeps, SaveKeeps, ForgetKeeps, RestartKeeps DEF Push!Next
  <1>2. CASE UNCHANGED PushVars
    <2>1. /\ PushTypes' /\ RecordsSane' /\ RecordsTrue' /\ AskedIfDirty'
      BY <1>2 DEF PushVars, PushInv, PushTypes, RecordsSane, Sane, RecordsTrue, Copy, AskedIfDirty, Unasked
    <2>2. PassIsCurrent' /\ Serving' /\ Silencing' /\ Retrying'
      BY <1>2 DEF PushVars, PushInv, PassIsCurrent, Unasked, Serving, Kept, Silencing, Retrying
    <2>. QED BY <2>1, <2>2 DEF PushInv
  <1>. QED BY <1>1, <1>2

LEMMA PushHolds ==
    PushInv => Push!TypeOK /\ Push!ServedWhenQuiet /\ Push!SilentWhenOff /\ Push!SelectedNodeRetried
  <1>. SUFFICES ASSUME PushInv
                PROVE  Push!TypeOK /\ Push!ServedWhenQuiet /\ Push!SilentWhenOff /\ Push!SelectedNodeRetried
    OBVIOUS
  <1>1. Push!TypeOK BY DEF PushInv, PushTypes, RecordsSane, Sane, Push!TypeOK
  <1>2. Push!ServedWhenQuiet
    <2>. SUFFICES ASSUME ~pass.on, Unasked, cleanAt # Push!Never, enabled, token # PushNone,
                         NEW k \in PushKeys, rows[k] # PushNone
                  PROVE  /\ regs[k].token = token /\ regs[k].node = rows[k]
                         /\ server[k] = token \/ (k \in forgotten /\ regs[k].at = cleanAt)
      BY DEF Push!ServedWhenQuiet, Push!Quiet, Unasked
    <2>1. Kept(regs[k], k, cleanAt) BY DEF PushInv, Serving
    <2>. QED BY <2>1 DEF Kept, PushInv, RecordsTrue, Copy, Push!is_registered
  <1>3. Push!SilentWhenOff BY DEF PushInv, Silencing, Push!SilentWhenOff, Push!Quiet, Unasked
  <1>4. Push!SelectedNodeRetried BY DEF PushInv, Retrying, Push!SelectedNodeRetried
  <1>. QED BY <1>1, <1>2, <1>3, <1>4

(* No key the server holds is let go within its grace.                      *)
LEMMA GraceHolds ==
    PushInv => \A k \in PushKeys :
        pass.on /\ pass.token # PushNone /\ pass.todo[k].do = "unregister"
          => now > pass.regs[k].unwanted + Grace
  <1>. SUFFICES ASSUME PushInv, NEW k \in PushKeys, pass.on, pass.token # PushNone,
                       pass.todo[k].do = "unregister"
                PROVE  now > pass.regs[k].unwanted + Grace
    OBVIOUS
  <1>1. pass.at > pass.regs[k].unwanted + Grace /\ pass.at \in 1 .. now BY DEF PushInv, PassIsCurrent
  <1>2. pass.regs[k].unwanted \in Nat /\ now \in Nat /\ Grace \in Nat
    BY NodesAssumption DEF PushInv, PushTypes, PassRecords, Push!Registration, Push!Time
  <1>. QED BY <1>1, <1>2

-----------------------------------------------------------------------------
(* Least and greatest elements.                                             *)
LEMMA LeastOf == ASSUME NEW T \in SUBSET Nat, T # {} PROVE \E x \in T : \A y \in T : x <= y
  <1>. DEFINE R == OpToRel(<, Nat)
  <1>1. IsWellFoundedOn(R, Nat) BY NatLessThanWellFounded
  <1>. HIDE DEF R
  <1>2. PICK x \in T : \A y \in T : ~ (<<y, x>> \in R) BY <1>1, WFMin
  <1>3. \A y \in T : <<y, x>> \in R <=> y < x BY DEF R, OpToRel
  <1>4. \A y \in T : ~(y < x) BY <1>2, <1>3
  <1>5. \A y \in T : y \in Nat OBVIOUS
  <1>. QED BY <1>4, <1>5

LEMMA GreatestOf ==
    ASSUME NEW n \in Nat, NEW T \in SUBSET (0 .. n), T # {}
    PROVE  Ident!Max(T) \in T /\ \A y \in T : Ident!Max(T) >= y
  <1>. DEFINE U == {u \in Nat : \E x \in T : u = n - x}
  <1>1. U \in SUBSET Nat /\ \A y \in T : n - y \in U OBVIOUS
  <1>2. U # {} BY <1>1
  <1>3. PICK u \in U : \A v \in U : u <= v BY <1>1, <1>2, LeastOf
  <1>4. PICK x \in T : u = n - x OBVIOUS
  <1>5. \A y \in T : u <= n - y BY <1>1, <1>3
  <1>6. \A y \in T : x >= y BY <1>4, <1>5
  <1>. QED BY <1>6 DEF Ident!Max

LEMMA GreaterOf ==
    ASSUME NEW a \in 0 .. MaxIndex, NEW b \in 0 .. MaxIndex
    PROVE  /\ Ident!Max({a, b}) \in 0 .. MaxIndex /\ Ident!Max({a, b}) \in {a, b}
           /\ Ident!Max({a, b}) >= a /\ Ident!Max({a, b}) >= b
  <1>1. MaxIndex \in Nat /\ {a, b} \in SUBSET (0 .. MaxIndex) /\ {a, b} # {} BY NodesAssumption
  <1>2. Ident!Max({a, b}) \in {a, b} /\ \A y \in {a, b} : Ident!Max({a, b}) >= y BY <1>1, GreatestOf
  <1>. QED BY <1>2

LEMMA KeyTypes ==
    ASSUME IdentTypes
    PROVE  /\ mem \in Ident!Key /\ mem.who \in 0 .. MaxIdentity /\ mem.idx \in 0 .. MaxIndex
           /\ stored \in Ident!Key /\ stored.who \in 0 .. MaxIdentity /\ stored.idx \in 0 .. MaxIndex
           /\ secure \in Ident!Key /\ secure.who \in 0 .. MaxIdentity /\ secure.idx \in 0 .. MaxIndex
           /\ take \in Ident!Key /\ take.who \in 0 .. MaxIdentity
           /\ \A k \in issued : k \in Ident!Key /\ k.who \in 0 .. MaxIdentity /\ k.idx \in 0 .. MaxIndex
           /\ \A o \in Orders : ident_keys[o] \in Ident!Key /\ ident_keys[o].who \in 0 .. MaxIdentity
           /\ swap.pc \in {"none", "deleted", "cleanup", "created", "written"}
           /\ swap.who \in 0 .. MaxIdentity /\ swap.fresh \in BOOLEAN
           /\ Ident!Nobody \in Ident!Key /\ Ident!Nobody.who = 0 /\ Ident!Nobody.idx = 0
           /\ Ident!NoSwap.pc = "none" /\ Ident!NoSwap.who = 0
           /\ Ident!NoSwap \in [pc : {"none", "deleted", "cleanup", "created", "written"},
                                who : 0 .. MaxIdentity, fresh : BOOLEAN]
           /\ {MaxIndex, MaxIdentity, MaxFaults} \subseteq Nat /\ 1 \in 0 .. MaxIdentity
  <1>1. MaxIndex \in Nat /\ MaxIdentity \in Nat \ {0} /\ MaxFaults \in Nat BY NodesAssumption
  <1>2. 0 \in 0 .. MaxIdentity /\ 0 \in 0 .. MaxIndex /\ 1 \in 0 .. MaxIdentity BY <1>1
  <1>3. Ident!Nobody \in Ident!Key /\ Ident!Nobody.who = 0 /\ Ident!Nobody.idx = 0
    BY <1>2 DEF Ident!Nobody, Ident!Key
  <1>4. /\ Ident!NoSwap.pc = "none" /\ Ident!NoSwap.who = 0
        /\ Ident!NoSwap \in [pc : {"none", "deleted", "cleanup", "created", "written"},
                             who : 0 .. MaxIdentity, fresh : BOOLEAN]
    BY <1>2 DEF Ident!NoSwap
  <1>5. \A k \in Ident!Key : k.who \in 0 .. MaxIdentity /\ k.idx \in 0 .. MaxIndex BY DEF Ident!Key
  <1>6. /\ mem \in Ident!Key /\ stored \in Ident!Key /\ secure \in Ident!Key /\ take \in Ident!Key
        /\ \A k \in issued : k \in Ident!Key
        /\ \A o \in Orders : ident_keys[o] \in Ident!Key
    BY DEF IdentTypes
  <1>7. /\ swap.pc \in {"none", "deleted", "cleanup", "created", "written"}
        /\ swap.who \in 0 .. MaxIdentity /\ swap.fresh \in BOOLEAN
    BY DEF IdentTypes
  <1>. QED BY <1>1, <1>2, <1>3, <1>4, <1>5, <1>6, <1>7

(* A load: at or past both counters, by the counter passed or by the row of *)
(* the very identity.                                                       *)
LEMMA LoadIs ==
    ASSUME IdentInv, NEW w \in 0 .. MaxIdentity, NEW n \in 0 .. MaxIndex, w # 0, Ident!load(w, n)
    PROVE  /\ mem' \in Ident!Key /\ mem'.who = w /\ mem'.idx >= n
           /\ stored.who = w => mem'.idx >= stored.idx
           /\ mem'.idx = n \/ mem' \in issued
           /\ announced' \in 0 .. MaxIndex /\ teller' \in 0 .. MaxIdentity
           /\ announced' # 0 => [who |-> teller', idx |-> announced'] \in issued
  <1>. DEFINE c == Ident!reconcile_trade_key_index(n, w)
  <1>1. /\ mem' = [who |-> w, idx |-> c]
        /\ \/ c > n /\ announced' = c /\ teller' = w
           \/ announced' = announced /\ teller' = teller
    BY DEF Ident!load
  <1>2. stored.idx \in 0 .. MaxIndex /\ stored \in Ident!Key /\ announced \in 0 .. MaxIndex
        /\ teller \in 0 .. MaxIdentity /\ Ident!Nobody.who = 0
    BY KeyTypes DEF IdentInv, IdentTypes
  <1>3. c \in 0 .. MaxIndex /\ c >= n /\ (stored.who = w => c >= stored.idx)
        /\ (c = n \/ (stored.who = w /\ c = stored.idx))
    BY <1>2, GreaterOf DEF Ident!reconcile_trade_key_index
  <1>. HIDE DEF c
  <1>4. mem' \in Ident!Key /\ mem'.who = w /\ mem'.idx = c BY <1>1, <1>3 DEF Ident!Key
  <1>5. stored.who = w /\ c = stored.idx => mem' = stored BY <1>1, <1>2 DEF Ident!Key
  <1>6. stored.who = w => stored \in issued BY <1>2 DEF IdentInv, HandedOut
  <1>7. mem'.idx = n \/ mem' \in issued BY <1>3, <1>4, <1>5, <1>6
  <1>8. announced' \in 0 .. MaxIndex /\ teller' \in 0 .. MaxIdentity BY <1>1, <1>2, <1>3
  <1>9. announced' # 0 => [who |-> teller', idx |-> announced'] \in issued
    <2>1. CASE c > n /\ announced' = c /\ teller' = w
      <3>1. c # n BY <1>3, <2>1
      <3>. QED BY <1>1, <1>4, <1>7, <2>1, <3>1
    <2>2. CASE announced' = announced /\ teller' = teller BY <2>2 DEF IdentInv, HandedOut
    <2>. QED BY <1>1, <2>1, <2>2
  <1>. QED BY <1>3, <1>4, <1>7, <1>8, <1>9

LEMMA LaunchKeeps == IdentInv /\ Ident!initialize => IdentInv'
  <1>. SUFFICES ASSUME IdentInv, Ident!initialize PROVE IdentInv'
    OBVIOUS
  <1>0. IdentTypes /\ Replacing /\ HandedOut /\ Recoverable /\ Earned /\ Owned BY DEF IdentInv
  <1>1. /\ ~started /\ started' = TRUE
        /\ UNCHANGED <<stored, secure, ident_keys, keyMap, take, ident_faults, torn, issued,
                       ident_forgotten, crossed, misused>>
        /\ \/ /\ secure.who = 0
              /\ \E who \in Ident!Identities \ Ident!Known :
                   /\ mem' = [who |-> who, idx |-> 0]
                   /\ swap' = [pc |-> "created", who |-> who, fresh |-> TRUE]
              /\ UNCHANGED <<announced, teller>>
           \/ secure.who # 0 /\ Ident!load(secure.who, secure.idx) /\ UNCHANGED swap
    BY DEF Ident!initialize, Ident!history
  <1>2. swap = Ident!NoSwap /\ swap.pc = "none" /\ take = Ident!Nobody
    BY <1>0, <1>1 DEF Replacing
  <1>3. CASE secure.who = 0
    <2>1. PICK who \in Ident!Identities \ Ident!Known :
            /\ mem' = [who |-> who, idx |-> 0]
            /\ swap' = [pc |-> "created", who |-> who, fresh |-> TRUE]
      BY <1>1, <1>3
    <2>2. /\ who \in 0 .. MaxIdentity /\ who # 0 /\ 0 \in 0 .. MaxIndex
          /\ \A k \in issued : k.who # who
      <3>1. MaxIdentity \in Nat BY NodesAssumption
      <3>. QED BY <1>0, <2>1, <3>1, KeyTypes DEF Ident!Identities, Ident!Known
    <2>3. /\ mem' \in Ident!Key /\ mem'.who = who /\ mem'.idx = 0
          /\ announced' = announced /\ teller' = teller
          /\ swap' \in [pc : {"none", "deleted", "cleanup", "created", "written"},
                        who : 0 .. MaxIdentity, fresh : BOOLEAN]
          /\ swap'.pc = "created" /\ swap'.who = who
      BY <1>1, <1>3, <2>1, <2>2 DEF Ident!Key
    <2>4. IdentTypes' BY <1>0, <1>1, <2>3 DEF IdentTypes
    <2>5. Replacing' BY <1>0, <1>1, <1>3, <2>2, <2>3 DEF Replacing
    <2>6. HandedOut' BY <1>0, <1>1, <2>3 DEF HandedOut
    <2>7. Recoverable'
      <3>1. \A k \in issued : k.who # 0 BY <1>0 DEF HandedOut
      <3>. QED BY <1>1, <1>3, <2>2, <2>3, <3>1 DEF Recoverable, Behind
    <2>8. Earned' BY <1>0, <1>1, <2>3 DEF Earned
    <2>9. Owned' BY <1>0, <1>1, <1>2, <1>3, <2>2, <2>3 DEF Owned
    <2>. QED BY <2>4, <2>5, <2>6, <2>7, <2>8, <2>9 DEF IdentInv
  <1>4. CASE secure.who # 0
    <2>1. /\ secure.who \in 0 .. MaxIdentity /\ secure.idx \in 0 .. MaxIndex
          /\ Ident!load(secure.who, secure.idx) /\ swap' = swap
      BY <1>0, <1>1, <1>4, KeyTypes
    <2>. DEFINE w == secure.who
                n == secure.idx
    <2>2. /\ mem' \in Ident!Key /\ mem'.who = w /\ mem'.idx >= n
          /\ stored.who = w => mem'.idx >= stored.idx
          /\ mem'.idx = n \/ mem' \in issued
          /\ announced' \in 0 .. MaxIndex /\ teller' \in 0 .. MaxIdentity
          /\ announced' # 0 => [who |-> teller', idx |-> announced'] \in issued
      BY <1>4, <2>1, LoadIs
    <2>3. IdentTypes' BY <1>0, <1>1, <2>1, <2>2 DEF IdentTypes
    <2>4. Replacing' BY <1>0, <1>1, <1>2, <1>4, <2>1, <2>2 DEF Replacing
    <2>5. HandedOut' BY <1>0, <1>1, <2>2 DEF HandedOut
    <2>6. w \notin ident_forgotten => \A k \in issued : k.who = w => k.idx <= mem'.idx
      <3>. SUFFICES ASSUME w \notin ident_forgotten, NEW k \in issued, k.who = w PROVE k.idx <= mem'.idx
        OBVIOUS
      <3>1. k.idx \in Nat /\ n \in Nat /\ stored.idx \in Nat /\ mem'.idx \in Nat
        BY <1>0, <2>2, KeyTypes DEF Ident!Key
      <3>2. k.idx <= n \/ (stored.who = w /\ k.idx <= stored.idx) BY <1>0 DEF Recoverable, Behind
      <3>. QED BY <2>2, <3>1, <3>2
    <2>7. Recoverable' BY <1>0, <1>1, <1>2, <2>1, <2>2, <2>6 DEF Recoverable, Behind
    <2>8. Earned'
      <3>1. n = 0 \/ secure \in issued \/ w \in torn BY <1>0 DEF Earned
      <3>2. mem'.idx = n => mem' = secure
        BY <1>0, <2>2, KeyTypes DEF Ident!Key
      <3>. QED BY <1>0, <1>1, <1>2, <2>1, <2>2, <3>1, <3>2 DEF Earned
    <2>9. Owned' BY <1>0, <1>1, <1>2, <1>4, <2>1, <2>2 DEF Owned
    <2>. QED BY <2>3, <2>4, <2>5, <2>7, <2>8, <2>9 DEF IdentInv
  <1>. QED BY <1>3, <1>4

LEMMA DeriveKeeps == IdentInv /\ Ident!derive_trade_key => IdentInv'
  <1>. SUFFICES ASSUME IdentInv, Ident!derive_trade_key PROVE IdentInv'
    OBVIOUS
  <1>0. IdentTypes /\ Replacing /\ HandedOut /\ Recoverable /\ Earned /\ Owned BY DEF IdentInv
  <1>1. /\ mem.who # 0 /\ take = Ident!Nobody /\ mem.idx < MaxIndex
        /\ mem' = [mem EXCEPT !.idx = @ + 1]
        /\ stored' = mem' /\ announced' = mem'.idx /\ take' = mem' /\ teller' = mem.who
        /\ issued' = issued \cup {mem'}
        /\ UNCHANGED <<secure, ident_keys, keyMap, swap, started, ident_faults, torn, ident_forgotten,
                       crossed, misused>>
    BY DEF Ident!derive_trade_key
  <1>2. /\ mem \in Ident!Key /\ mem.idx \in 0 .. MaxIndex /\ mem.who \in 0 .. MaxIdentity
        /\ MaxIndex \in Nat /\ Ident!Nobody.who = 0
    BY <1>0, <1>1, KeyTypes
  <1>3. /\ mem' \in Ident!Key /\ mem'.who = mem.who /\ mem'.idx = mem.idx + 1
        /\ mem'.idx \in 0 .. MaxIndex /\ mem'.who # 0
        /\ mem' = [who |-> teller', idx |-> announced']
    BY <1>1, <1>2 DEF Ident!Key
  <1>4. /\ started /\ swap.pc \in {"none", "created", "written"}
        /\ swap.pc \in {"none", "written"} => mem.who = secure.who
        /\ swap.pc \in {"created", "written"} => mem.who = swap.who
    BY <1>0, <1>1, <1>2, KeyTypes DEF Replacing
  <1>5. IdentTypes' BY <1>0, <1>1, <1>2, <1>3 DEF IdentTypes
  <1>6. Replacing' BY <1>0, <1>1, <1>2, <1>3, <1>4 DEF Replacing
  <1>7. HandedOut' BY <1>0, <1>1, <1>3 DEF HandedOut
  <1>8. mem.who \notin ident_forgotten => \A k \in issued' : k.who = mem.who => k.idx <= mem'.idx
    <2>. SUFFICES ASSUME mem.who \notin ident_forgotten, NEW k \in issued', k.who = mem.who
                  PROVE  k.idx <= mem'.idx
      OBVIOUS
    <2>1. CASE k \in issued
      <3>1. k.idx \in Nat BY <1>0, <2>1, KeyTypes
      <3>2. k.idx <= mem.idx BY <1>0, <1>1, <2>1 DEF Recoverable, Behind
      <3>. QED BY <1>2, <1>3, <3>1, <3>2
    <2>2. CASE k = mem' BY <1>3, <2>2
    <2>. QED BY <1>1, <2>1, <2>2
  <1>9. Recoverable'
    <2>1. CASE mem.who = secure.who BY <1>1, <1>3, <1>4, <1>8, <2>1 DEF Recoverable, Behind
    <2>2. CASE mem.who # secure.who
      <3>1. secure.who \notin ident_forgotten => \A k \in issued' : k.who = secure.who => k.idx <= secure.idx
        BY <1>0, <1>1, <1>3, <1>4, <2>2 DEF Recoverable, Behind
      <3>. QED BY <1>1, <1>3, <1>8, <3>1 DEF Recoverable, Behind
    <2>. QED BY <2>1, <2>2
  <1>10. Earned' BY <1>0, <1>1, <1>3 DEF Earned
  <1>11. Owned' BY <1>0, <1>1, <1>3, <1>4 DEF Owned
  <1>. QED BY <1>5, <1>6, <1>7, <1>9, <1>10, <1>11 DEF IdentInv

LEMMA BindKeeps ==
    IdentInv /\ (\E o \in Orders : Ident!store_trade_key_index(o) \/ Ident!sign_for_order(o)) => IdentInv'
  <1>. SUFFICES ASSUME IdentInv, NEW o \in Orders,
                       Ident!store_trade_key_index(o) \/ Ident!sign_for_order(o)
                PROVE  IdentInv'
    OBVIOUS
  <1>0. IdentTypes /\ Replacing /\ HandedOut /\ Recoverable /\ Earned /\ Owned BY DEF IdentInv
  <1>1. CASE Ident!store_trade_key_index(o)
    <2>1. /\ take # Ident!Nobody /\ take' = Ident!Nobody /\ keyMap' = [keyMap EXCEPT ![o] = take]
          /\ \/ ident_keys' = [ident_keys EXCEPT ![o] = take] /\ ident_faults' = ident_faults
             \/ ident_keys' = ident_keys /\ ident_faults < MaxFaults /\ ident_faults' = ident_faults + 1
          /\ UNCHANGED <<mem, stored, secure, announced, teller, swap, started, torn, issued,
                         ident_forgotten, crossed, misused>>
      BY <1>1 DEF Ident!store_trade_key_index, Ident!history
    <2>2. take \in Ident!Key /\ Ident!Nobody \in Ident!Key BY <1>0, KeyTypes
    <2>3. ident_faults' \in 0 .. MaxFaults BY <1>0, <2>1, NodesAssumption DEF IdentTypes
    <2>4. keyMap' \in [Orders -> Ident!Key] /\ ident_keys' \in [Orders -> Ident!Key]
      BY <1>0, <2>1, <2>2 DEF IdentTypes
    <2>5. IdentTypes' BY <1>0, <2>1, <2>2, <2>3, <2>4 DEF IdentTypes
    <2>6. Replacing' BY <1>0, <2>1 DEF Replacing
    <2>7. HandedOut' BY <1>0, <2>1 DEF HandedOut
    <2>8. Recoverable' BY <1>0, <2>1 DEF Recoverable, Behind
    <2>9. Earned' BY <1>0, <2>1 DEF Earned
    <2>10. Owned'
      <3>. SUFFICES ASSUME ~crossed PROVE Owned'
        BY <2>1 DEF Owned
      <3>1. mem.who = take.who /\ mem.who # 0
        BY <1>0, <2>1 DEF Owned, HandedOut
      <3>2. swap.pc \in {"none", "created", "written"} /\ (swap.pc # "created" => mem.who = secure.who)
        BY <1>0, <3>1, KeyTypes DEF Replacing
      <3>3. \A x \in Orders : ident_keys'[x] = ident_keys[x] \/ ident_keys'[x] = take
        BY <1>0, <2>1 DEF IdentTypes
      <3>. QED BY <1>0, <2>1, <3>1, <3>2, <3>3 DEF Owned
    <2>. QED BY <2>5, <2>6, <2>7, <2>8, <2>9, <2>10 DEF IdentInv
  <1>2. CASE Ident!sign_for_order(o)
    <2>1. /\ keyMap' = [keyMap EXCEPT ![o] = Ident!get_trade_key_index(o)]
          /\ misused' \in {misused, misused \cup {o}}
          /\ UNCHANGED <<mem, stored, secure, announced, teller, ident_keys, swap, take, started, ident_faults,
                         torn, issued, ident_forgotten, crossed>>
      BY <1>2 DEF Ident!sign_for_order
    <2>2. Ident!get_trade_key_index(o) \in Ident!Key BY <1>0 DEF IdentTypes, Ident!get_trade_key_index
    <2>3. keyMap' \in [Orders -> Ident!Key] BY <1>0, <2>1, <2>2 DEF IdentTypes
    <2>4. misused' \subseteq Orders BY <1>0, <2>1 DEF IdentTypes
    <2>5. IdentTypes' BY <1>0, <2>1, <2>3, <2>4 DEF IdentTypes
    <2>. QED BY <1>0, <2>1, <2>5 DEF IdentInv, Replacing, HandedOut, Recoverable, Behind, Earned, Owned
  <1>. QED BY <1>1, <1>2

LEMMA MirrorKeeps == IdentInv /\ Ident!saveTradeKeyIndex => IdentInv'
  <1>. SUFFICES ASSUME IdentInv, Ident!saveTradeKeyIndex PROVE IdentInv'
    OBVIOUS
  <1>0. IdentTypes /\ Replacing /\ HandedOut /\ Recoverable /\ Earned /\ Owned BY DEF IdentInv
  <1>1. /\ announced # 0 /\ announced' = 0 /\ teller' = 0
        /\ secure' = [secure EXCEPT !.idx = Ident!Max({secure.idx, announced})]
        /\ torn' = IF announced > secure.idx /\ teller # secure.who THEN torn \cup {secure.who} ELSE torn
        /\ UNCHANGED <<mem, stored, ident_keys, keyMap, swap, take, started, ident_faults, issued,
                       ident_forgotten, crossed, misused>>
    BY DEF Ident!saveTradeKeyIndex
  <1>2. secure \in Ident!Key /\ secure.idx \in 0 .. MaxIndex /\ announced \in 0 .. MaxIndex
        /\ MaxIndex \in Nat /\ secure.who \in 0 .. MaxIdentity /\ 0 \in 0 .. MaxIdentity
    BY <1>0, KeyTypes DEF IdentTypes
  <1>. DEFINE m == Ident!Max({secure.idx, announced})
  <1>3. m \in 0 .. MaxIndex /\ m >= secure.idx /\ m \in {secure.idx, announced} BY <1>2, GreaterOf
  <1>. HIDE DEF m
  <1>4. secure' \in Ident!Key /\ secure'.who = secure.who /\ secure'.idx = m
    BY <1>1, <1>2, <1>3 DEF Ident!Key, m
  <1>5. torn' \subseteq 0 .. MaxIdentity /\ torn \subseteq torn'
    <2>1. torn \subseteq 0 .. MaxIdentity BY <1>0 DEF IdentTypes
    <2>2. torn' = torn \/ torn' = torn \cup {secure.who} BY <1>1
    <2>. QED BY <1>2, <2>1, <2>2
  <1>6. IdentTypes' BY <1>0, <1>1, <1>2, <1>4, <1>5 DEF IdentTypes
  <1>7. Replacing' BY <1>0, <1>1, <1>4 DEF Replacing
  <1>8. HandedOut' BY <1>0, <1>1 DEF HandedOut
  <1>9. \A k \in issued : k.idx <= secure.idx => k.idx <= m
    <2>1. \A k \in issued : k.idx \in Nat BY <1>0, KeyTypes
    <2>. QED BY <1>2, <1>3, <2>1
  <1>10. Recoverable' BY <1>0, <1>1, <1>4, <1>9 DEF Recoverable, Behind
  <1>11. secure.who \notin torn' => secure'.idx = 0 \/ secure' \in issued
    <2>. SUFFICES ASSUME secure.who \notin torn' PROVE secure'.idx = 0 \/ secure' \in issued
      OBVIOUS
    <2>1. CASE m = secure.idx
      <3>1. secure' = secure BY <1>2, <1>4, <2>1 DEF Ident!Key
      <3>. QED BY <1>0, <1>5, <3>1 DEF Earned
    <2>2. CASE m = announced /\ m # secure.idx
      <3>1. announced > secure.idx BY <1>2, <1>3, <2>2
      <3>2. teller = secure.who BY <1>1, <3>1
      <3>3. secure' = [who |-> teller, idx |-> announced] BY <1>4, <2>2, <3>2 DEF Ident!Key
      <3>. QED BY <1>0, <1>1, <3>3 DEF HandedOut
    <2>. QED BY <1>3, <2>1, <2>2
  <1>12. Earned' BY <1>0, <1>1, <1>4, <1>5, <1>11 DEF Earned
  <1>13. Owned' BY <1>0, <1>1, <1>4 DEF Owned
  <1>. QED BY <1>6, <1>7, <1>8, <1>10, <1>12, <1>13 DEF IdentInv

-----------------------------------------------------------------------------
(* The identity is replaced.                                                *)
LEMMA DeleteKeeps == IdentInv /\ Ident!delete_identity => IdentInv'
  <1>. SUFFICES ASSUME IdentInv, Ident!delete_identity PROVE IdentInv'
    OBVIOUS
  <1>0. IdentTypes /\ Replacing /\ HandedOut /\ Recoverable /\ Earned /\ Owned BY DEF IdentInv
  <1>1. PICK who \in Ident!Identities, fresh \in BOOLEAN :
          swap' = [pc |-> IF mem.who = 0 THEN "cleanup" ELSE "deleted", who |-> who, fresh |-> fresh]
    BY DEF Ident!delete_identity
  <1>2. /\ started /\ swap = Ident!NoSwap /\ mem' = Ident!Nobody
        /\ ident_forgotten' = IF mem.who # 0 /\ secure # mem THEN ident_forgotten \cup {mem.who}
                              ELSE ident_forgotten
        /\ crossed' = (crossed \/ take # Ident!Nobody)
        /\ UNCHANGED <<stored, secure, announced, teller, ident_keys, keyMap, take, started, ident_faults,
                       torn, issued, misused>>
    BY DEF Ident!delete_identity
  <1>3. /\ who \in 0 .. MaxIdentity /\ who # 0 /\ swap.pc = "none" /\ Ident!Nobody \in Ident!Key
        /\ Ident!Nobody.who = 0 /\ mem.who \in 0 .. MaxIdentity
    BY <1>0, <1>2, KeyTypes DEF Ident!Identities
  <1>4. /\ swap' \in [pc : {"none", "deleted", "cleanup", "created", "written"},
                      who : 0 .. MaxIdentity, fresh : BOOLEAN]
        /\ swap'.pc = (IF mem.who = 0 THEN "cleanup" ELSE "deleted") /\ swap'.who = who
    BY <1>1, <1>3
  <1>5. ident_forgotten' \subseteq Ident!Identities /\ ident_forgotten \subseteq ident_forgotten'
    <2>1. mem.who # 0 => mem.who \in Ident!Identities BY <1>0, <1>3, KeyTypes DEF Ident!Identities
    <2>2. ident_forgotten \subseteq Ident!Identities BY <1>0 DEF IdentTypes
    <2>. QED BY <1>2, <2>1, <2>2
  <1>6. crossed' \in BOOLEAN /\ (~crossed' => ~crossed /\ take = Ident!Nobody) BY <1>0, <1>2, Zenon DEF IdentTypes
  <1>7. IdentTypes' BY <1>0, <1>2, <1>3, <1>4, <1>5, <1>6 DEF IdentTypes
  <1>8. Replacing' BY <1>0, <1>2, <1>3, <1>4 DEF Replacing
  <1>9. HandedOut' BY <1>0, <1>2 DEF HandedOut
  <1>10. mem.who # 0 /\ secure.who \notin ident_forgotten' => secure = mem /\ Behind(secure.who, secure.idx)
    BY <1>0, <1>2, <1>3, <1>5 DEF Replacing, Recoverable
  <1>11. Recoverable' BY <1>0, <1>2, <1>3, <1>4, <1>5, <1>10 DEF Recoverable, Behind
  <1>12. Earned' BY <1>0, <1>2, <1>3, <1>4 DEF Earned
  <1>13. Owned' BY <1>0, <1>2, <1>3, <1>4, <1>6 DEF Owned
  <1>. QED BY <1>7, <1>8, <1>9, <1>11, <1>12, <1>13 DEF IdentInv

LEMMA CleanupKeeps == IdentInv /\ Ident!delete_identity_cleanup => IdentInv'
  <1>. SUFFICES ASSUME IdentInv, Ident!delete_identity_cleanup PROVE IdentInv'
    OBVIOUS
  <1>0. IdentTypes /\ Replacing /\ HandedOut /\ Recoverable /\ Earned /\ Owned BY DEF IdentInv
  <1>1. /\ swap.pc = "deleted" /\ swap' = [swap EXCEPT !.pc = "cleanup"]
        /\ \/ stored' = Ident!Nobody \/ stored' = stored
        /\ \/ ident_keys' = [o \in Orders |-> Ident!Nobody] /\ crossed' = crossed
           \/ ident_keys' = ident_keys /\ crossed' = TRUE
        /\ \/ ident_faults' = ident_faults
           \/ ident_faults < MaxFaults /\ ident_faults' = ident_faults + 1
        /\ UNCHANGED <<mem, secure, announced, teller, keyMap, take, started, torn, issued,
                       ident_forgotten, misused>>
    BY DEF Ident!delete_identity_cleanup
  <1>2. Ident!Nobody \in Ident!Key /\ Ident!Nobody.who = 0 BY <1>0, KeyTypes
  <1>3. /\ swap' \in [pc : {"none", "deleted", "cleanup", "created", "written"},
                      who : 0 .. MaxIdentity, fresh : BOOLEAN]
        /\ swap'.pc = "cleanup" /\ swap'.who = swap.who
    BY <1>0, <1>1 DEF IdentTypes
  <1>4. ident_faults' \in 0 .. MaxFaults BY <1>0, <1>1, NodesAssumption DEF IdentTypes
  <1>5. ident_keys' \in [Orders -> Ident!Key] BY <1>0, <1>1, <1>2 DEF IdentTypes
  <1>6. crossed' \in BOOLEAN BY <1>0, <1>1, Zenon DEF IdentTypes
  <1>7. ~crossed' => ~crossed /\ \A o \in Orders : ident_keys'[o] = Ident!Nobody
    <2>1. CASE ident_keys' = [o \in Orders |-> Ident!Nobody] /\ crossed' = crossed BY <2>1
    <2>2. CASE crossed' = TRUE BY <2>2, Zenon
    <2>. QED BY <1>1, <2>1, <2>2
  <1>8. IdentTypes' BY <1>0, <1>1, <1>2, <1>3, <1>4, <1>5, <1>6 DEF IdentTypes
  <1>9. Replacing' BY <1>0, <1>1, <1>3 DEF Replacing
  <1>10. HandedOut' BY <1>0, <1>1 DEF HandedOut
  <1>11. Recoverable'
    <2>1. started /\ mem.who = 0 /\ secure.who # 0 BY <1>0, <1>1, <1>2 DEF Replacing
    <2>. QED BY <1>0, <1>1, <1>3, <2>1 DEF Recoverable, Behind
  <1>12. Earned' BY <1>0, <1>1, <1>3 DEF Earned
  <1>13. Owned'
    <2>1. ~crossed => take = Ident!Nobody
      <3>1. mem.who = 0 BY <1>0, <1>1, <1>2 DEF Replacing
      <3>. QED BY <1>0, <3>1 DEF Owned, HandedOut
    <2>. QED BY <1>1, <1>2, <1>3, <1>7, <2>1 DEF Owned
  <1>. QED BY <1>8, <1>9, <1>10, <1>11, <1>12, <1>13 DEF IdentInv

LEMMA InstallKeeps == IdentInv /\ Ident!install_identity => IdentInv'
  <1>. SUFFICES ASSUME IdentInv, Ident!install_identity PROVE IdentInv'
    OBVIOUS
  <1>0. IdentTypes /\ Replacing /\ HandedOut /\ Recoverable /\ Earned /\ Owned BY DEF IdentInv
  <1>. DEFINE w == swap.who
  <1>1. /\ swap.pc = "cleanup" /\ swap' = [swap EXCEPT !.pc = "created"]
        /\ \/ mem' = [who |-> w, idx |-> 0] /\ announced' = announced /\ teller' = teller
           \/ Ident!load(w, 0)
        /\ ident_forgotten' = IF Ident!Derived(w) = {} THEN ident_forgotten
                              ELSE ident_forgotten \cup {w}
        /\ UNCHANGED <<stored, secure, ident_keys, keyMap, take, started, ident_faults, torn, issued,
                       crossed, misused>>
    BY DEF Ident!install_identity
  <1>2. /\ w \in 0 .. MaxIdentity /\ w # 0 /\ 0 \in 0 .. MaxIndex /\ announced \in 0 .. MaxIndex
        /\ mem = Ident!Nobody /\ mem.who = 0 /\ started /\ secure.who # 0
    BY <1>0, <1>1, KeyTypes DEF Replacing, IdentTypes
  <1>3. /\ swap' \in [pc : {"none", "deleted", "cleanup", "created", "written"},
                      who : 0 .. MaxIdentity, fresh : BOOLEAN]
        /\ swap'.pc = "created" /\ swap'.who = w
    BY <1>0, <1>1 DEF IdentTypes
  <1>4. /\ mem' \in Ident!Key /\ mem'.who = w
        /\ mem'.idx = 0 \/ mem' \in issued
        /\ announced' \in 0 .. MaxIndex /\ teller' \in 0 .. MaxIdentity
        /\ announced' # 0 => [who |-> teller', idx |-> announced'] \in issued
    <2>1. CASE mem' = [who |-> w, idx |-> 0] /\ announced' = announced /\ teller' = teller
      BY <1>0, <1>2, <2>1 DEF Ident!Key, IdentTypes, HandedOut
    <2>2. CASE Ident!load(w, 0) BY <1>2, <2>2, LoadIs
    <2>. QED BY <1>1, <2>1, <2>2
  <1>5. /\ ident_forgotten' \subseteq Ident!Identities /\ ident_forgotten \subseteq ident_forgotten'
        /\ w \notin ident_forgotten' => Ident!Derived(w) = {}
    BY <1>0, <1>1, <1>2 DEF IdentTypes, Ident!Identities
  <1>6. w \notin ident_forgotten' => \A k \in issued : k.who # w BY <1>5 DEF Ident!Derived
  <1>7. ~crossed => take = Ident!Nobody BY <1>0, <1>2 DEF Owned, HandedOut
  <1>8. IdentTypes' BY <1>0, <1>1, <1>2, <1>3, <1>4, <1>5 DEF IdentTypes
  <1>9. Replacing' BY <1>0, <1>1, <1>2, <1>3, <1>4 DEF Replacing
  <1>10. HandedOut' BY <1>0, <1>1, <1>4 DEF HandedOut
  <1>11. Recoverable' BY <1>0, <1>1, <1>2, <1>3, <1>4, <1>5, <1>6 DEF Recoverable, Behind
  <1>12. Earned' BY <1>0, <1>1, <1>4 DEF Earned
  <1>13. Owned' BY <1>0, <1>1, <1>3, <1>7 DEF Owned
  <1>. QED BY <1>8, <1>9, <1>10, <1>11, <1>12, <1>13 DEF IdentInv

LEMMA ImportFailsKeeps == IdentInv /\ Ident!import_fails => IdentInv'
  <1>. SUFFICES ASSUME IdentInv, Ident!import_fails PROVE IdentInv'
    OBVIOUS
  <1>0. IdentTypes /\ Replacing /\ HandedOut /\ Recoverable /\ Earned /\ Owned BY DEF IdentInv
  <1>1. /\ swap.pc = "cleanup" /\ ident_faults < MaxFaults /\ ident_faults' = ident_faults + 1
        /\ swap' = Ident!NoSwap
        /\ UNCHANGED <<mem, stored, secure, announced, teller, ident_keys, keyMap, take, started,
                       torn, issued, ident_forgotten, crossed, misused>>
    BY DEF Ident!import_fails, Ident!history
  <1>2. ident_faults' \in 0 .. MaxFaults BY <1>0, <1>1, NodesAssumption DEF IdentTypes
  <1>3. /\ swap' \in [pc : {"none", "deleted", "cleanup", "created", "written"},
                      who : 0 .. MaxIdentity, fresh : BOOLEAN]
        /\ swap'.pc = "none" /\ Ident!Nobody.who = 0
    BY <1>0, <1>1, KeyTypes
  <1>4. mem = Ident!Nobody /\ secure.who # 0 BY <1>0, <1>1 DEF Replacing
  <1>5. IdentTypes' BY <1>0, <1>1, <1>2, <1>3 DEF IdentTypes
  <1>6. Replacing' BY <1>0, <1>1, <1>3, <1>4 DEF Replacing
  <1>7. HandedOut' /\ Earned' BY <1>0, <1>1, <1>3, <1>4 DEF HandedOut, Earned
  <1>8. Recoverable' BY <1>0, <1>1, <1>3 DEF Recoverable, Behind
  <1>9. Owned' BY <1>0, <1>1, <1>3, <1>4 DEF Owned
  <1>. QED BY <1>5, <1>6, <1>7, <1>8, <1>9 DEF IdentInv

LEMMA WriteKeeps == IdentInv /\ (Ident!write_mnemonic \/ Ident!write_counter) => IdentInv'
  <1>. SUFFICES ASSUME IdentInv, Ident!write_mnemonic \/ Ident!write_counter PROVE IdentInv'
    OBVIOUS
  <1>0. IdentTypes /\ Replacing /\ HandedOut /\ Recoverable /\ Earned /\ Owned BY DEF IdentInv
  <1>1. UNCHANGED <<mem, stored, announced, teller, ident_keys, keyMap, take, started, ident_faults,
                    issued, ident_forgotten, crossed, misused>>
    BY DEF Ident!write_mnemonic, Ident!write_counter
  <1>2. \/ /\ swap.pc = "created" /\ swap' = [swap EXCEPT !.pc = "written"]
           /\ secure' = [secure EXCEPT !.who = swap.who] /\ torn' = torn \cup {swap.who}
        \/ /\ swap.pc = "written" /\ swap' = Ident!NoSwap /\ secure' = [secure EXCEPT !.idx = 0]
           /\ torn' = torn \ {secure.who}
    BY DEF Ident!write_mnemonic, Ident!write_counter
  <1>3. /\ secure \in Ident!Key /\ swap.who \in 0 .. MaxIdentity /\ 0 \in 0 .. MaxIndex
        /\ swap \in [pc : {"none", "deleted", "cleanup", "created", "written"},
                     who : 0 .. MaxIdentity, fresh : BOOLEAN]
        /\ Ident!NoSwap.pc = "none"
        /\ Ident!NoSwap \in [pc : {"none", "deleted", "cleanup", "created", "written"},
                             who : 0 .. MaxIdentity, fresh : BOOLEAN]
    BY <1>0, KeyTypes DEF IdentTypes
  <1>4. /\ secure' \in Ident!Key
        /\ swap' \in [pc : {"none", "deleted", "cleanup", "created", "written"},
                      who : 0 .. MaxIdentity, fresh : BOOLEAN]
        /\ secure'.who = swap.who /\ swap.pc \in {"created", "written"}
        /\ \/ swap'.pc = "written" /\ swap'.who = swap.who /\ torn' = torn \cup {swap.who}
           \/ /\ swap'.pc = "none" /\ swap' = Ident!NoSwap /\ secure'.idx = 0
              /\ torn' = torn \ {swap.who}
    <2>1. CASE swap.pc = "created" /\ swap' = [swap EXCEPT !.pc = "written"]
               /\ secure' = [secure EXCEPT !.who = swap.who] /\ torn' = torn \cup {swap.who}
      BY <1>3, <2>1 DEF Ident!Key
    <2>2. CASE swap.pc = "written" /\ swap' = Ident!NoSwap /\ secure' = [secure EXCEPT !.idx = 0]
               /\ torn' = torn \ {secure.who}
      <3>1. secure.who = swap.who BY <1>0, <2>2 DEF Replacing
      <3>. QED BY <1>3, <2>2, <3>1 DEF Ident!Key
    <2>. QED BY <1>2, <2>1, <2>2
  <1>5. started /\ swap.who # 0 /\ mem.who = swap.who BY <1>0, <1>4 DEF Replacing
  <1>6. swap.who \notin ident_forgotten => (\A k \in issued : k.who # swap.who) \/ stored = mem
    BY <1>0, <1>4 DEF Recoverable
  <1>7. ~crossed => \A o \in Orders : ident_keys[o].who \in {0, swap.who}
    BY <1>0, <1>4, <1>5 DEF Owned
  <1>8. mem.idx = 0 \/ mem \in issued BY <1>0, <1>4, <1>5 DEF Earned
  <1>9. IdentTypes'
    <2>1. torn' \subseteq 0 .. MaxIdentity BY <1>0, <1>3, <1>4 DEF IdentTypes
    <2>. QED BY <1>0, <1>1, <1>4, <2>1 DEF IdentTypes
  <1>10. Replacing' BY <1>0, <1>1, <1>4, <1>5 DEF Replacing
  <1>11. HandedOut' BY <1>0, <1>1 DEF HandedOut
  <1>12. Earned' BY <1>1, <1>4, <1>8 DEF Earned
  <1>13. Recoverable'
    <2>1. swap.who \notin ident_forgotten /\ stored = mem =>
            stored.who = swap.who /\ \A k \in issued : k.who = swap.who => k.idx <= stored.idx
      BY <1>0, <1>5 DEF Recoverable, Behind
    <2>. QED BY <1>0, <1>1, <1>4, <1>5, <1>6, <2>1 DEF Recoverable, Behind
  <1>14. Owned' BY <1>0, <1>1, <1>4, <1>5, <1>7 DEF Owned
  <1>. QED BY <1>9, <1>10, <1>11, <1>12, <1>13, <1>14 DEF IdentInv

LEMMA StopKeeps == IdentInv /\ Ident!Stop => IdentInv'
  <1>. SUFFICES ASSUME IdentInv, Ident!Stop PROVE IdentInv'
    OBVIOUS
  <1>0. IdentTypes /\ Replacing /\ HandedOut /\ Recoverable /\ Earned /\ Owned BY DEF IdentInv
  <1>1. /\ ident_faults < MaxFaults /\ ident_faults' = ident_faults + 1
        /\ crossed' = (crossed \/ (swap.pc = "created" /\ \E o \in Orders : ident_keys[o].who = mem.who))
        /\ mem' = Ident!Nobody /\ announced' = 0 /\ teller' = 0
        /\ swap' = Ident!NoSwap /\ take' = Ident!Nobody
        /\ started' = FALSE /\ keyMap' = [o \in Orders |-> Ident!Nobody]
        /\ UNCHANGED <<stored, secure, ident_keys, torn, issued, ident_forgotten, misused>>
    BY DEF Ident!Stop
  <1>2. ident_faults' \in 0 .. MaxFaults BY <1>0, <1>1, NodesAssumption DEF IdentTypes
  <1>3. /\ swap' \in [pc : {"none", "deleted", "cleanup", "created", "written"},
                      who : 0 .. MaxIdentity, fresh : BOOLEAN]
        /\ swap'.pc = "none" /\ Ident!Nobody.who = 0 /\ Ident!Nobody \in Ident!Key
        /\ announced' \in 0 .. MaxIndex /\ teller' \in 0 .. MaxIdentity /\ mem'.who = 0
    BY <1>0, <1>1, KeyTypes
  <1>4. keyMap' \in [Orders -> Ident!Key] BY <1>1, <1>3
  <1>5. started' \in BOOLEAN BY <1>1, Zenon
  <1>6. crossed' \in BOOLEAN BY <1>0, <1>1, Zenon DEF IdentTypes
  <1>7. ~crossed' => ~crossed /\ ~(swap.pc = "created" /\ \E o \in Orders : ident_keys[o].who = mem.who)
    BY <1>1, Zenon
  <1>8. ~crossed' => \A o \in Orders : ident_keys[o].who \in {0, secure.who}
    BY <1>0, <1>7 DEF Owned
  <1>9. IdentTypes' BY <1>0, <1>1, <1>2, <1>3, <1>4, <1>5, <1>6 DEF IdentTypes
  <1>10. Replacing' BY <1>0, <1>1, <1>3 DEF Replacing
  <1>11. HandedOut' /\ Earned' BY <1>0, <1>1, <1>3 DEF HandedOut, Earned
  <1>12. Recoverable' BY <1>0, <1>1, <1>3, <1>5 DEF Recoverable, Behind
  <1>13. Owned'
    <2>1. ~started' BY <1>1
    <2>. QED BY <1>1, <1>3, <1>8, <2>1 DEF Owned
  <1>. QED BY <1>9, <1>10, <1>11, <1>12, <1>13 DEF IdentInv

LEMMA IdentStart == Ident!Init => IdentInv
  <1>. SUFFICES ASSUME Ident!Init PROVE IdentInv
    OBVIOUS
  <1>1. /\ mem = Ident!Nobody /\ stored = Ident!Nobody /\ secure = Ident!Nobody /\ announced = 0
        /\ ident_keys = [o \in Orders |-> Ident!Nobody] /\ keyMap = [o \in Orders |-> Ident!Nobody]
        /\ swap = Ident!NoSwap /\ take = Ident!Nobody /\ started = FALSE /\ ident_faults = 0
        /\ teller = 0 /\ torn = {} /\ issued = {} /\ ident_forgotten = {} /\ crossed = FALSE /\ misused = {}
    BY DEF Ident!Init
  <1>2. MaxIndex \in Nat /\ MaxIdentity \in Nat /\ MaxFaults \in Nat BY NodesAssumption
  <1>3. 0 \in 0 .. MaxIdentity /\ 0 \in 0 .. MaxIndex /\ 0 \in 0 .. MaxFaults BY <1>2
  <1>4. Ident!Nobody \in Ident!Key /\ Ident!Nobody.who = 0 BY <1>3 DEF Ident!Nobody, Ident!Key
  <1>5. /\ Ident!NoSwap \in [pc : {"none", "deleted", "cleanup", "created", "written"},
                             who : 0 .. MaxIdentity, fresh : BOOLEAN]
        /\ Ident!NoSwap.pc = "none"
    BY <1>3 DEF Ident!NoSwap
  <1>6. ident_keys \in [Orders -> Ident!Key] /\ keyMap \in [Orders -> Ident!Key]
        /\ \A o \in Orders : ident_keys[o].who = 0
    BY <1>1, <1>4
  <1>7. started \in BOOLEAN /\ crossed \in BOOLEAN BY <1>1, Zenon
  <1>8. IdentTypes BY <1>1, <1>3, <1>4, <1>5, <1>6, <1>7 DEF IdentTypes
  <1>9. Replacing BY <1>1, <1>4, <1>5 DEF Replacing
  <1>10. HandedOut /\ Recoverable BY <1>1, <1>4, <1>5 DEF HandedOut, Recoverable, Behind
  <1>11. Earned BY <1>1, <1>3, <1>4, <1>5 DEF Earned, Ident!Nobody
  <1>12. Owned BY <1>1, <1>6 DEF Owned
  <1>. QED BY <1>8, <1>9, <1>10, <1>11, <1>12 DEF IdentInv

LEMMA IdentNext == IdentInv /\ [Ident!Next]_IdentVars => IdentInv'
  <1>. SUFFICES ASSUME IdentInv, [Ident!Next]_IdentVars PROVE IdentInv'
    OBVIOUS
  <1>1. CASE Ident!Next
    BY <1>1, LaunchKeeps, DeriveKeeps, BindKeeps, MirrorKeeps, DeleteKeeps, CleanupKeeps, InstallKeeps,
       ImportFailsKeeps, WriteKeeps, StopKeeps DEF Ident!Next
  <1>2. CASE UNCHANGED IdentVars
    <2>1. IdentTypes' BY <1>2 DEF IdentVars, IdentInv, IdentTypes
    <2>2. Replacing' /\ HandedOut' /\ Earned' BY <1>2 DEF IdentVars, IdentInv, Replacing, HandedOut, Earned
    <2>3. Recoverable' /\ Owned' BY <1>2 DEF IdentVars, IdentInv, Recoverable, Behind, Owned
    <2>. QED BY <2>1, <2>2, <2>3 DEF IdentInv
  <1>. QED BY <1>1, <1>2

LEMMA IdentHolds ==
    IdentInv => Ident!TypeOK /\ Ident!CounterNotBehind /\ Ident!CounterNotInherited
                /\ Ident!StoredBindingsOwned
  <1>. SUFFICES ASSUME IdentInv
                PROVE  Ident!TypeOK /\ Ident!CounterNotBehind /\ Ident!CounterNotInherited
                       /\ Ident!StoredBindingsOwned
    OBVIOUS
  <1>0. IdentTypes /\ Replacing /\ HandedOut /\ Recoverable /\ Earned /\ Owned BY DEF IdentInv
  <1>1. Ident!TypeOK
    <2>1. {swap.fresh, started} \subseteq BOOLEAN BY <1>0, KeyTypes DEF IdentTypes
    <2>. QED BY <1>0, <2>1, KeyTypes DEF IdentTypes, Ident!TypeOK
  <1>2. Ident!CounterNotBehind
    BY <1>0 DEF Recoverable, Behind, Ident!CounterNotBehind, Ident!Derived
  <1>3. Ident!CounterNotInherited
    BY <1>0 DEF Earned, Ident!CounterNotInherited, Ident!Derived
  <1>4. Ident!StoredBindingsOwned
    <2>. SUFFICES ASSUME ~crossed, mem.who # 0, NEW o \in Orders
                  PROVE  ident_keys[o].who \in {0, mem.who}
      BY DEF Ident!StoredBindingsOwned
    <2>1. swap.pc \in {"none", "created", "written"} BY <1>0, KeyTypes DEF Replacing
    <2>2. CASE swap.pc = "none" BY <1>0, <2>2 DEF Replacing, Owned
    <2>3. CASE swap.pc \in {"created", "written"} BY <1>0, <2>3 DEF Owned
    <2>. QED BY <2>1, <2>2, <2>3
  <1>. QED BY <1>1, <1>2, <1>3, <1>4

-----------------------------------------------------------------------------
(* A behaviour is of one part, and that part's invariant holds of it.       *)
NodesInv ==
    /\ part \in Parts
    /\ part = "switch" => SwitchInv
    /\ part = "push" => PushInv
    /\ part = "identity" => IdentInv

LEMMA NodesKeep == MCSpec => []NodesInv
  <1>1. MCInit => NodesInv
    <2>. SUFFICES ASSUME MCInit PROVE NodesInv
      OBVIOUS
    <2>1. part \in Parts /\ Init /\ Push!Init /\ Ident!Init BY DEF MCInit
    <2>. QED BY <2>1, SwitchStart, PushStart, IdentStart DEF NodesInv
  <1>2. NodesInv /\ [MCNext]_MCvars => NodesInv'
    <2>. SUFFICES ASSUME NodesInv, [MCNext]_MCvars PROVE NodesInv'
      OBVIOUS
    <2>1. /\ part' = part /\ part \in Parts
          /\ part = "switch" => [Next]_vars
          /\ part = "push" => [Push!Next]_PushVars
          /\ part = "identity" => [Ident!Next]_IdentVars
      BY DEF MCNext, MCvars, NodesInv
    <2>2. CASE part = "switch" BY <2>1, <2>2, SwitchNext DEF NodesInv
    <2>3. CASE part = "push" BY <2>1, <2>3, PushNext DEF NodesInv
    <2>4. CASE part = "identity" BY <2>1, <2>4, IdentNext DEF NodesInv
    <2>. QED BY <2>1, <2>2, <2>3, <2>4 DEF Parts
  <1>. QED BY <1>1, <1>2, PTL DEF MCSpec

(* However switches, fetches, refreshes, claims and wallets interleave: a   *)
(* derived key is in the message filter once no refresh is armed or at      *)
(* work, and the cached capabilities and the mint in use are those of the   *)
(* active node (replace_subscription_for, cashu_connect).                   *)
THEOREM SwitchIsSound == MCSpec => []SwitchSound
  <1>1. NodesInv => SwitchSound BY SwitchHolds DEF NodesInv, SwitchSound
  <1>. QED BY <1>1, NodesKeep, PTL

(* Whatever the rows, settings, requests, faults and restarts: once nothing *)
(* asks for a pass and the last one left nothing undone, every wanted key   *)
(* is served, or none when push is off; no pass takes back the retry of a   *)
(* node just selected (reconcile_with, request_reconcile).                  *)
THEOREM PushIsSound == MCSpec => []PushSound
  <1>1. NodesInv => PushSound BY PushHolds DEF NodesInv, PushSound
  <1>. QED BY <1>1, NodesKeep, PTL

(* Wherever an import or the app stops: the trade-key counter is at or past *)
(* every key handed out unless it was dropped before it was mirrored, it is *)
(* zero or the index of a key of the very identity unless secure storage    *)
(* mirrors another's, and a stored binding is of the identity that is there *)
(* unless one may have crossed over (reconcile_trade_key_index,             *)
(* delete_identity).                                                        *)
THEOREM IdentityIsSound == MCSpec => []IdentitySound
  <1>1. NodesInv => IdentitySound BY IdentHolds DEF NodesInv, IdentitySound
  <1>. QED BY <1>1, NodesKeep, PTL

(* A payout claim of the active node is not priced without its policy while *)
(* the fetch that brings it is still to come, and no pass lets a key go     *)
(* within its grace (get_for_once_settled, plan).                           *)
THEOREM NodesKeepWaiting == MCSpec => NodeSteps
  <1>. DEFINE Waits == \A n \in Nodes : PricedBlind(n) =>
                          \A t \in Switchers \cup Onlines :
                              ~(At(t, "answer") /\ task[t].node = n) /\ ~At(t, "fetch")
              Graced == \A k \in PushKeys :
                          pass.on /\ pass.token # PushNone /\ pass'.on
                          /\ pass.todo[k].do = "unregister" /\ server'[k] = PushNone
                          /\ server[k] # PushNone => now > pass.regs[k].unwanted + Grace
  <1>1. NodesInv /\ [MCNext]_MCvars => [Waits]_vars
    <2>. SUFFICES ASSUME NodesInv, [MCNext]_MCvars, vars' # vars PROVE Waits
      OBVIOUS
    <2>1. part = "switch" /\ Next BY DEF MCNext, MCvars
    <2>2. SwitchInv BY <2>1 DEF NodesInv
    <2>. SUFFICES ASSUME NEW n \in Nodes, PricedBlind(n)
                  PROVE  \A t \in Tasks : ~At(t, "answer") /\ ~At(t, "fetch")
      BY DEF Tasks
    <2>3. claims' # claims /\ ~(claims \subseteq claims') BY DEF PricedBlind
    <2>4. ASSUME NEW t \in Tasks,
                 \/ dm_filter_lock(t) \/ replace_subscription(t) \/ resubscribe_global_dm_filter(t)
                 \/ refresh_subscriptions(t) \/ (\E m \in Nodes : set_active_mostro_node(t, m))
                 \/ on_pool_online(t) \/ fetch_capabilities(t) \/ apply_node_capabilities(t)
          PROVE  claims' = claims
      BY <2>4 DEF users, dm_filter_lock, replace_subscription, resubscribe_global_dm_filter,
         refresh_subscriptions, set_active_mostro_node, on_pool_online, fetch_capabilities,
         apply_node_capabilities
    <2>5. (\E k \in Keys : ensure_global_dm_coverage(k)) \/ cashu_connect \/ cashu_connected
            \/ cashu_disconnect \/ active_wallet => claims' = claims
      BY DEF users, ensure_global_dm_coverage, cashu_connect, cashu_connected, cashu_disconnect, active_wallet
    <2>6. PICK m \in Nodes : apply_payout_request(m) \/ get_for_once_settled(m)
      BY <2>1, <2>3, <2>4, <2>5 DEF Next, Tasks
    <2>7. pending = 0 BY <2>3, <2>6 DEF apply_payout_request, get_for_once_settled
    <2>. QED BY <2>2, <2>7, NoneFetching
  <1>2. NodesInv /\ [MCNext]_MCvars => [Graced]_(Push!vars)
    <2>. SUFFICES ASSUME NodesInv, [MCNext]_MCvars, Push!vars' # Push!vars PROVE Graced
      OBVIOUS
    <2>1. PushVars' # PushVars BY DEF PushVars, Push!vars
    <2>2. part = "push" BY <2>1 DEF MCNext, MCvars
    <2>3. PushInv BY <2>2 DEF NodesInv
    <2>. QED BY <2>3, GraceHolds
  <1>3. MCSpec => ClaimWaitsForPolicy BY <1>1, NodesKeep, PTL DEF MCSpec, ClaimWaitsForPolicy
  <1>4. MCSpec => Push!GraceKept BY <1>2, NodesKeep, PTL DEF MCSpec, Push!GraceKept
  <1>. QED BY <1>3, <1>4 DEF NodeSteps
=============================================================================
