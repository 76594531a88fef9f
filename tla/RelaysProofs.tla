---------------------------- MODULE RelaysProofs -----------------------------
(***************************************************************************)
(* Proofs about MCRelays, one part after the other: the live subscriptions *)
(* (LiveSubs), the run that serves an Online and the resume pass           *)
(* (OnlineSync), the relay list (RelayList), the nodes and the ratings     *)
(* (NodeRegistry).                                                         *)
(***************************************************************************)
EXTENDS MCRelays, FiniteSetTheorems, SequenceTheorems, TLAPS

------------------------------------------------------------------------------
(* The live subscriptions.                                                  *)

(* What a relay lacks it will be given, up or down: a relay that is down    *)
(* and was seen up has the loss on record.                                  *)
LackingIsRepaired == \A r \in Relays, i \in Ids :
    Lacking(r, i) => RepairAhead(r, i) \/ <<r, i>> \in refused \cup missed

SubsInv == TypeOK /\ NothingUnwanted /\ LackingIsRepaired

------------------------------------------------------------------------------
(* The run that serves an Online.                                           *)

Derived == Online!derive_connection_state(status, listed)

(* With nothing to publish the gate has let through what is recorded.       *)
GateIsCurrent == publishing = {} => last = Derived

(* A watcher that watches is on its way to the run, or has it in its        *)
(* channel; one that does not yet will find the state when it starts.       *)
ServedWhenWatching ==
    watcher = "watching" /\ unserved /\ last = "Online" =>
        armed \/ misread \/ \E i \in 1 .. Len(chan) : chan[i] = "Online"

NothingBeforeSubscribe == watcher = "none" => chan = <<>>

OnlineInv == /\ Online!TypeOK /\ GateIsCurrent /\ ServedWhenWatching /\ NothingBeforeSubscribe
             /\ Online!ListenerUpToDate

(* One pass runs at a time, numbered after those that finished, and no call *)
(* has seen more passes than there are.                                     *)
OnePass ==
    /\ begun \in {0, passes + 1}
    /\ \A c \in Callers : /\ caller[c].seen <= passes
                          /\ Online!At(c, "running") => begun # 0
    /\ \A c, d \in Callers : Online!At(c, "running") /\ Online!At(d, "running") => c = d

PullInv == Online!PullTypes /\ OnePass /\ Online!AnsweredAfterCall

------------------------------------------------------------------------------
(* The relay list.  What a call and a sync work on at the same moment can   *)
(* come out either way; the parts below are about every other relay.        *)

Url(i) == rows[i].url
RowsOnce ==
    /\ rows # <<>>
    /\ \A i, j \in 1 .. Len(rows) : Url(i) = Url(j) /\ Url(i) \notin raced => i = j

ListTypes ==
    /\ rows \in Seq(List!Rows) /\ client \subseteq Urls /\ blacklist \subseteq Urls
    /\ stored \in [Urls -> List!Sources \cup {List!None, List!Blacklisted}]
    /\ user \in [at : {List!None, "unblacklist", "register", "push", "save",
                       "take", "blacklist", "drop", "forget"},
                 url : Urls, source : List!Sources \cup {List!None}]
    /\ sync \in [at : {List!None, "plan", "register", "push", "collect", "save"},
                 todo : SUBSET Urls, now : SUBSET Urls, added : SUBSET Urls, rows : SUBSET List!Rows]
    /\ list_seen \in 0 .. Len(Announced) /\ newest = list_seen
    /\ fresh \subseteq 1 .. Len(Announced) /\ given \subseteq Urls /\ raced \subseteq Urls

(* What a planned sync has to do with; a call on one of these is raced.     *)
Applied == sync.todo \cup sync.now \cup sync.added \cup {r.url : r \in sync.rows}
Noted == user.at # List!None /\ sync.at # "plan" /\ user.url \in Applied => user.url \in raced

(* Each works on relays that are not on the list, or on the one it takes    *)
(* off.                                                                     *)
CallKnows ==
    /\ user.at \in {"unblacklist", "register", "push", "save"} => user.source = "UserAdded"
    /\ user.at # List!None /\ user.url \notin raced =>
         /\ user.at \in {"unblacklist", "register", "push", "blacklist", "drop", "forget"} =>
              user.url \notin List!Listed
         /\ user.at \in {"drop", "forget"} /\ user.source = "MostroDiscovered" => user.url \in blacklist
         /\ user.at = "take" => \E i \in 1 .. Len(rows) : Url(i) = user.url /\ rows[i].source = user.source
         /\ user.url \notin given
SyncKnows ==
    /\ sync.at \in {"register", "push"} => sync.todo \cap (List!Listed \cup blacklist) \subseteq raced
    /\ sync.at = "push" => \E u \in sync.todo : sync.now = {u}
    /\ sync.at = "plan" => sync.added = {}
    /\ sync.added \subseteq List!Listed \cup raced
    /\ \A r \in sync.rows : r.url \in List!Listed \cup raced
    /\ sync.at # "save" => sync.rows = {}
    /\ sync.at = List!None => sync = List!NoSync

(* A relay removed as announced is off the list and blacklisted; the store  *)
(* says so too, for a restart.                                              *)
RemovedStands == \A u \in given \ raced :
    u \notin List!Listed /\ u \in blacklist /\ stored[u] = List!Blacklisted

(* Whatever is marked announced was in a list that came as the newest.      *)
Fresh(u) == \E g \in fresh : u \in Announced[g]
AnnouncedFresh ==
    /\ \A i \in 1 .. Len(rows) : rows[i].source = "MostroDiscovered" => Fresh(Url(i))
    /\ \A u \in Urls : stored[u] = "MostroDiscovered" => Fresh(u)
    /\ \A u \in sync.todo : Fresh(u)
    /\ \A r \in sync.rows : r.source = "MostroDiscovered" => Fresh(r.url)

ListInv == /\ ListTypes /\ RowsOnce /\ Noted /\ CallKnows /\ SyncKnows
           /\ RemovedStands /\ AnnouncedFresh

------------------------------------------------------------------------------
(* The nodes.                                                               *)

Gots == UNION {[S -> Registry!Revisions] : S \in SUBSET Nodes}
Counts == {<<>>} \cup (Nodes \X BOOLEAN \X (0 .. 2))
Doings == [pc : {"idle", "list", "relist", "persist", "switch", "fetch", "answered", "store"},
           node : Nodes \cup {Registry!None}, asked : SUBSET Nodes, got : Gots,
           keep : SUBSET Nodes, row : Counts]
Lists == UNION {[S -> BOOLEAN] : S \in SUBSET Nodes}
NodeTypes ==
    /\ trusted \subseteq Nodes /\ custom \in Lists /\ info \in Gots
    /\ saved \in Nodes \cup {Registry!None} /\ active \in Nodes
    /\ lock \in RegistryCallers \cup {Registry!None}
    /\ doing \in [RegistryCallers -> Doings]
    /\ out \in [Nodes -> [revs : SUBSET Registry!Revisions, order : 0 .. 2]]
    /\ registry_moves \in 0 .. MaxMoves /\ heard \in [Nodes -> SUBSET Registry!Revisions]
    /\ registry_listed \in BOOLEAN /\ steady \in [RegistryCallers -> SUBSET Nodes]

InUseListed == registry_listed => active \in Registry!Listed

CacheIsNewest ==
    /\ \A n \in Nodes : n \in DOMAIN info <=> heard[n] # {}
    /\ \A n \in DOMAIN info : info[n] = Registry!newest_info(heard[n])

(* Who selects a node holds the lock; a warm-up keeps what was listed all   *)
(* along since its answer; a count is that of the newest revision.          *)
CallerStands(c) ==
    /\ doing[c].pc = "switch" =>
         /\ lock = c /\ doing[c].node \in Nodes
         /\ doing[c].asked # {} => doing[c].node \in Registry!Listed
    /\ doing[c].pc = "list" => doing[c].node \in Nodes
    /\ steady[c] \subseteq Registry!Listed
    /\ doing[c].pc \notin {"relist", "store"} => steady[c] = {}
    /\ doing[c].pc = "store" => doing[c].keep = {} \/ steady[c] \subseteq doing[c].keep
    /\ doing[c].row # <<>> => (doing[c].row[2] <=> doing[c].row[3] = 1)

RegistryInv == NodeTypes /\ InUseListed /\ CacheIsNewest /\ \A c \in RegistryCallers : CallerStands(c)

------------------------------------------------------------------------------
(* The rating.                                                              *)

(* The slot is held by the call that is sending or marking, and by none     *)
(* that failed.                                                             *)
SlotHeld == \A c \in Submits :
    /\ sub[c] \in {"send", "mark"} => mine = c
    /\ mine = c => sub[c] \in {"send", "mark", "done"}

(* One message a session, and one more a fault.                             *)
Sent == \E c \in Submits : mine = c /\ sub[c] \in {"mark", "done"}
WireBounded == wire <= faults + 1 /\ (~Sent => wire <= faults)

(* A message out is marked in the row or is about to be; with the marker in *)
(* the row nobody finds the slot free.                                      *)
MarkerTrue == ~excused =>
    /\ wire <= 1
    /\ wire = 1 => rated_at \/ \E c \in Submits : sub[c] = "mark"
    /\ \A c \in Submits : sub[c] = "send" => wire = 0 /\ ~rated_at
    /\ \A c \in Submits : sub[c] = "mark" => wire = 1
    /\ rated_at => wire = 1
    /\ rated_at /\ mine = Registry!None => \A c \in Submits : sub[c] \notin {"missing", "reserve"}

RatingInv == Registry!RatingTypes /\ SlotHeld /\ WireBounded /\ MarkerTrue

RelaysInv ==
    /\ part \in Parts
    /\ part = "subs" => SubsInv
    /\ part = "online" => OnlineInv
    /\ part = "resync" => PullInv
    /\ part = "list" => ListInv
    /\ part = "nodes" => RegistryInv
    /\ part = "rating" => RatingInv
------------------------------------------------------------------------------
(* Live subscriptions: what the calls do.                                   *)

LEMMA SweepTypes ==
    ASSUME TypeOK, NEW s \in Sweepers
    PROVE  sweep[s] \in [relays : SUBSET Relays, relay : Relays \cup {None}, ids : SUBSET Ids]
  BY DEF TypeOK

LEMMA SetSweepKeepsType ==
    ASSUME TypeOK, NEW s \in Sweepers, NEW rs \in SUBSET Relays, NEW r \in Relays \cup {None},
           NEW is \in SUBSET Ids, SetSweep(s, rs, r, is)
    PROVE  sweep' \in [Sweepers -> [relays : SUBSET Relays, relay : Relays \cup {None}, ids : SUBSET Ids]]
  BY DEF TypeOK, SetSweep

LEMMA IssueIs ==
    ASSUME TypeOK, NEW i \in Ids, NEW f \in Filters, NEW took, NEW free, issue(i, f, took, free)
    PROVE  /\ took \subseteq up /\ took \subseteq free
           /\ held' \in [Relays -> [Ids -> Filters \cup {None}]]
           /\ \A r \in Relays : held'[r][i] = IF r \in took THEN f ELSE IF r \in free THEN None ELSE held[r][i]
           /\ \A r \in Relays, j \in Ids : j # i => held'[r][j] = held[r][j]
  BY DEF TypeOK, issue

LEMMA NoteIs ==
    ASSUME TypeOK, NEW i \in Ids, NEW failed \in SUBSET Relays, Note(i, failed)
    PROVE  /\ refused' \subseteq Pairs /\ missed' \subseteq Pairs
           /\ \A r \in failed : r \in up => <<r, i>> \in refused'
           /\ \A r \in failed : r \in seen \ up => <<r, i>> \in missed'
           /\ \A r \in Relays, j \in Ids : j # i /\ <<r, j>> \in refused => <<r, j>> \in refused'
           /\ \A r \in Relays, j \in Ids : j # i /\ <<r, j>> \in missed => <<r, j>> \in missed'
  <1>1. refused' \subseteq Pairs /\ missed' \subseteq Pairs
    BY DEF TypeOK, Note, Pairs
  <1>. QED BY <1>1 DEF Note

(* A call touches one id: the others stand as they stood.                   *)
Touches(i) ==
    /\ UNCHANGED <<up, seen, repairs, drops>>
    /\ desired' \in [Ids -> Filters \cup {None}] /\ held' \in [Relays -> [Ids -> Filters \cup {None}]]
    /\ refused' \subseteq Pairs /\ missed' \subseteq Pairs /\ calls' \in 0 .. MaxCalls
    /\ \A j \in Ids : j # i => desired'[j] = desired[j]
    /\ \A r \in Relays, j \in Ids : j # i => held'[r][j] = held[r][j]
    /\ \A r \in Relays, j \in Ids : j # i /\ <<r, j>> \in refused => <<r, j>> \in refused'
    /\ \A r \in Relays, j \in Ids : j # i /\ <<r, j>> \in missed => <<r, j>> \in missed'

Backed(r, i) ==
    /\ held[r][i] \in {None, desired[i]}
    /\ Lacking(r, i) => RepairAhead(r, i) \/ <<r, i>> \in refused \cup missed

LEMMA CallKeeps ==
    ASSUME SubsInv, NEW i \in Ids, Touches(i), \A r \in Relays : Backed(r, i)'
    PROVE  SubsInv'
  <1>1. TypeOK'
    BY DEF SubsInv, TypeOK, repairs, Touches
  <1>2. NothingUnwanted'
    BY DEF SubsInv, NothingUnwanted, Touches, Backed
  <1>3. LackingIsRepaired'
    <2>. SUFFICES ASSUME NEW r \in Relays, NEW j \in Ids, Lacking(r, j)'
                  PROVE  RepairAhead(r, j)' \/ <<r, j>> \in refused' \cup missed'
      BY DEF LackingIsRepaired
    <2>1. CASE j = i
      BY <2>1 DEF Backed
    <2>2. CASE j # i
      <3>1. Lacking(r, j)
        BY <2>2 DEF Lacking, Touches
      <3>2. RepairAhead(r, j) \/ <<r, j>> \in refused \cup missed
        BY <3>1 DEF SubsInv, LackingIsRepaired
      <3>3. RepairAhead(r, j) => RepairAhead(r, j)'
        BY DEF RepairAhead, repairs, Touches
      <3>. QED BY <2>2, <3>2, <3>3 DEF Touches
    <2>. QED BY <2>1, <2>2
  <1>. QED BY <1>1, <1>2, <1>3 DEF SubsInv

LEMMA CallKeepsSubs ==
    ASSUME SubsInv, NEW i \in Ids, call(i)
    PROVE  SubsInv'
  <1>. USE RelaysAssumption
  <1>0. /\ UNCHANGED <<up, seen, repairs, drops>> /\ calls' \in 0 .. MaxCalls
        /\ TypeOK /\ NothingUnwanted /\ desired \in [Ids -> Filters \cup {None}]
    BY DEF call, Calling, SubsInv, TypeOK
  <1>1. CASE close(i)
    <2>1. /\ desired' \in [Ids -> Filters \cup {None}] /\ held' \in [Relays -> [Ids -> Filters \cup {None}]]
          /\ \A j \in Ids : j # i => desired'[j] = desired[j]
          /\ \A r \in Relays, j \in Ids : j # i => held'[r][j] = held[r][j]
          /\ \A r \in Relays : held'[r][i] = None /\ desired'[i] = None
      BY <1>0, <1>1 DEF close, TypeOK
    <2>2. Note(i, {})
      BY <1>1 DEF close
    <2>n. /\ refused' \subseteq Pairs /\ missed' \subseteq Pairs
          /\ \A r \in Relays, j \in Ids : j # i /\ <<r, j>> \in refused => <<r, j>> \in refused'
          /\ \A r \in Relays, j \in Ids : j # i /\ <<r, j>> \in missed => <<r, j>> \in missed'
      BY <1>0, <2>2, NoteIs
    <2>3. Touches(i)
      BY <1>0, <2>1, <2>n DEF Touches
    <2>4. \A r \in Relays : Backed(r, i)'
      BY <2>1 DEF Backed, Lacking
    <2>. QED BY <2>3, <2>4, CallKeeps
  <1>2. ASSUME NEW f \in Filters, replace(i, f) PROVE SubsInv'
    <2>1. PICK took \in SUBSET up : issue(i, f, took, Relays) /\ Note(i, Relays \ took)
      BY <1>2 DEF replace
    <2>2. desired' = [desired EXCEPT ![i] = f]
      BY <1>2 DEF replace
    <2>3. ASSUME NEW r \in Relays PROVE Backed(r, i)'
      <3>1. r \in took => held'[r][i] = desired'[i]
        BY <1>0, <2>1, <2>2, IssueIs
      <3>2. r \notin took => held'[r][i] = None
        BY <1>0, <2>1, <2>2, IssueIs
      <3>3. r \notin took => <<r, i>> \in refused' \cup missed' \/ r \notin seen'
        BY <1>0, <2>1, NoteIs
      <3>. QED BY <3>1, <3>2, <3>3 DEF Lacking, RepairAhead, Backed
    <2>5. /\ held' \in [Relays -> [Ids -> Filters \cup {None}]]
          /\ \A r \in Relays, j \in Ids : j # i => held'[r][j] = held[r][j]
      BY <1>0, <2>1, IssueIs
    <2>6. /\ desired' \in [Ids -> Filters \cup {None}]
          /\ \A j \in Ids : j # i => desired'[j] = desired[j]
      BY <1>0, <2>2
    <2>n. /\ refused' \subseteq Pairs /\ missed' \subseteq Pairs
          /\ \A r \in Relays, j \in Ids : j # i /\ <<r, j>> \in refused => <<r, j>> \in refused'
          /\ \A r \in Relays, j \in Ids : j # i /\ <<r, j>> \in missed => <<r, j>> \in missed'
      BY <1>0, <2>1, NoteIs
    <2>7. Touches(i)
      BY <1>0, <2>5, <2>6, <2>n DEF Touches
    <2>. QED BY <2>3, <2>7, CallKeeps
  <1>3. ASSUME NEW f \in Filters, desired[i] \in {None, f}, open(i, f) PROVE SubsInv'
    <2>. DEFINE free == {r \in Relays : held[r][i] = None}
    <2>1. PICK took \in SUBSET (up \cap free) :
             /\ issue(i, f, took, free)
             /\ desired' = IF took = {} THEN desired ELSE [desired EXCEPT ![i] = f]
             /\ IF took = {} THEN UNCHANGED <<refused, missed>> ELSE Note(i, Relays \ took)
      BY <1>3 DEF open
    <2>i. /\ held' \in [Relays -> [Ids -> Filters \cup {None}]]
          /\ \A r \in Relays : held'[r][i] = IF r \in took THEN f ELSE IF r \in free THEN None ELSE held[r][i]
          /\ \A r \in Relays, j \in Ids : j # i => held'[r][j] = held[r][j]
      BY <1>0, <2>1, IssueIs
    <2>2. CASE took = {}
      <3>1. \A r \in Relays : held'[r][i] = held[r][i]
        BY <2>i, <2>2
      <3>2. refused' = refused /\ missed' = missed /\ desired' = desired
        BY <2>1, <2>2
      <3>3. \A r \in Relays : Backed(r, i)
        BY <1>0 DEF Backed, SubsInv, NothingUnwanted, LackingIsRepaired
      <3>4. ASSUME NEW r \in Relays PROVE Backed(r, i)'
        <4>1. (Lacking(r, i)' <=> Lacking(r, i)) /\ (RepairAhead(r, i) => RepairAhead(r, i)')
          BY <1>0, <3>1, <3>2 DEF Lacking, RepairAhead, repairs
        <4>. QED BY <3>1, <3>2, <3>3, <4>1 DEF Backed
      <3>5. Touches(i)
        BY <1>0, <2>i, <3>2 DEF Touches, TypeOK
      <3>. QED BY <3>4, <3>5, CallKeeps
    <2>3. CASE took # {}
      <3>1. Note(i, Relays \ took) /\ desired' = [desired EXCEPT ![i] = f]
        BY <2>1, <2>3
      <3>2. ASSUME NEW r \in Relays PROVE Backed(r, i)'
        <4>1. r \in took \/ r \notin free => held'[r][i] = desired'[i]
          BY <1>0, <1>3, <2>i, <3>1 DEF NothingUnwanted
        <4>2. r \notin took /\ r \in free => held'[r][i] = None
          BY <2>i
        <4>3. r \notin took => <<r, i>> \in refused' \cup missed' \/ r \notin seen'
          BY <1>0, <3>1, NoteIs
        <4>. QED BY <4>1, <4>2, <4>3 DEF Lacking, RepairAhead, Backed
      <3>3. Touches(i)
        <4>1. /\ desired' \in [Ids -> Filters \cup {None}]
              /\ \A j \in Ids : j # i => desired'[j] = desired[j]
          BY <1>0, <3>1
        <4>n. /\ refused' \subseteq Pairs /\ missed' \subseteq Pairs
              /\ \A r \in Relays, j \in Ids : j # i /\ <<r, j>> \in refused => <<r, j>> \in refused'
              /\ \A r \in Relays, j \in Ids : j # i /\ <<r, j>> \in missed => <<r, j>> \in missed'
          BY <1>0, <3>1, NoteIs
        <4>. QED BY <1>0, <2>i, <4>1, <4>n DEF Touches
      <3>. QED BY <3>2, <3>3, CallKeeps
    <2>. QED BY <2>2, <2>3
  <1>. QED BY <1>1, <1>2, <1>3 DEF call

------------------------------------------------------------------------------
(* Live subscriptions: relays, the monitor and the repairs.                 *)

(* A step that leaves what is wanted and what is held alone keeps the rest  *)
(* when somebody still comes by, or what is on record stays on record.      *)
LEMMA RepairStays ==
    ASSUME SubsInv, TypeOK', UNCHANGED registry,
           \A r \in Relays, i \in Ids : RepairAhead(r, i) /\ Lacking(r, i)
              => RepairAhead(r, i)' \/ <<r, i>> \in refused' \cup missed',
           \A r \in Relays, i \in Ids : <<r, i>> \in refused \cup missed
              => RepairAhead(r, i)' \/ <<r, i>> \in refused' \cup missed'
    PROVE  SubsInv'
  <1>1. NothingUnwanted'
    BY DEF SubsInv, NothingUnwanted, registry
  <1>2. LackingIsRepaired'
    <2>. SUFFICES ASSUME NEW r \in Relays, NEW i \in Ids, Lacking(r, i)'
                  PROVE  RepairAhead(r, i)' \/ <<r, i>> \in refused' \cup missed'
      BY DEF LackingIsRepaired
    <2>1. Lacking(r, i)
      BY DEF Lacking, registry
    <2>. QED BY <2>1 DEF SubsInv, LackingIsRepaired
  <1>. QED BY <1>1, <1>2 DEF SubsInv

LEMMA EnvironmentKeepsSubs ==
    ASSUME SubsInv, NEW r \in Relays, connect(r) \/ disconnect(r) \/ poll(r)
    PROVE  SubsInv'
  <1>. USE RelaysAssumption
  <1>0. TypeOK /\ UNCHANGED <<registry, sweep, timers>>
    BY DEF SubsInv, connect, disconnect, poll, repairs, registry
  <1>1. TypeOK'
    <2>1. /\ up' \subseteq Relays /\ seen' \subseteq Relays /\ notices' \subseteq Relays /\ lagged' \in BOOLEAN
      BY <1>0 DEF TypeOK, connect, disconnect, poll, send_connected, repairs
    <2>2. refused' \subseteq refused /\ missed' \subseteq missed /\ spent' = spent
      BY DEF connect, disconnect, poll, repairs
    <2>3. drops' \in 0 .. MaxDrops /\ calls' = calls
      BY <1>0 DEF TypeOK, connect, disconnect, poll, bounds
    <2>. QED BY <1>0, <2>1, <2>2, <2>3 DEF TypeOK, registry
  <1>2. CASE connect(r) \/ disconnect(r)
    <2>1. \A q \in Relays, i \in Ids : RepairAhead(q, i) => RepairAhead(q, i)'
      BY <1>2 DEF connect, disconnect, RepairAhead, repairs
    <2>2. refused' = refused /\ missed' = missed
      BY <1>2 DEF connect, disconnect
    <2>. QED BY <1>0, <1>1, <2>1, <2>2, RepairStays
  <1>3. CASE poll(r)
    <2>1. ASSUME NEW i \in Ids PROVE RepairAhead(r, i)'
      BY <1>3 DEF poll, send_connected, RepairAhead
    <2>2. ASSUME NEW q \in Relays, NEW i \in Ids, q # r
          PROVE  /\ RepairAhead(q, i) => RepairAhead(q, i)'
                 /\ <<q, i>> \in refused \cup missed => <<q, i>> \in refused' \cup missed'
      <3>1. q \notin seen => q \notin seen'
        BY <1>3, <2>2 DEF poll
      <3>2. q \in notices \/ lagged => q \in notices' \/ lagged'
        BY <1>3, <2>2 DEF poll, send_connected
      <3>3. sweep' = sweep /\ timers' = timers
        BY <1>0
      <3>4. <<q, i>> \in refused \cup missed => <<q, i>> \in refused' \cup missed'
        BY <1>3, <2>2 DEF poll
      <3>. QED BY <3>1, <3>2, <3>3, <3>4 DEF RepairAhead
    <2>3. \A q \in Relays, i \in Ids :
             /\ RepairAhead(q, i) => RepairAhead(q, i)' \/ <<q, i>> \in refused' \cup missed'
             /\ <<q, i>> \in refused \cup missed => RepairAhead(q, i)' \/ <<q, i>> \in refused' \cup missed'
      BY <2>1, <2>2
    <2>. QED BY <1>0, <1>1, <2>3, RepairStays
  <1>. QED BY <1>2, <1>3

(* A repair is started by a report, a lag, or a delay that elapsed.         *)
LEMMA StartKeepsSubs ==
    ASSUME SubsInv,
           \/ \E r \in Relays : receive_connected(r)
           \/ receive_lagged
           \/ \E r \in Relays, i \in Ids : closed_delay_elapsed(r, i)
    PROVE  SubsInv'
  <1>. USE RelaysAssumption
  <1>0. /\ TypeOK /\ UNCHANGED <<desired, held, up, seen, refused, missed, drops, calls>>
        /\ "monitor" \in Sweepers /\ "closed" \in Sweepers
    BY DEF SubsInv, receive_connected, receive_lagged, closed_delay_elapsed, registry, bounds, Sweepers
  <1>1. ASSUME NEW s \in Sweepers, NEW rs \in SUBSET Relays, sweep[s] = Resting, SetSweep(s, rs, None, {}),
               notices' \subseteq notices, timers' \subseteq timers, lagged' \in BOOLEAN,
               spent' \in [Pairs -> 0 .. Budget],
               \A q \in Relays : q \in notices \ notices' => q \in rs,
               \A q \in Relays, i \in Ids : <<q, i>> \in timers \ timers' => q \in rs,
               lagged /\ ~lagged' => rs = Relays
        PROVE  SubsInv'
    <2>0. {} \in SUBSET Ids
      OBVIOUS
    <2>1. sweep' \in [Sweepers -> [relays : SUBSET Relays, relay : Relays \cup {None}, ids : SUBSET Ids]]
      BY <1>0, <1>1, <2>0, SetSweepKeepsType
    <2>2. TypeOK'
      BY <1>0, <1>1, <2>1 DEF TypeOK
    <2>3. sweep' = [sweep EXCEPT ![s] = [relays |-> rs, ids |-> {}, relay |-> None]]
      BY <1>1 DEF SetSweep
    <2>4. sweep'[s].relays = rs /\ \A t \in Sweepers : t # s => sweep'[t] = sweep[t]
      BY <1>0, <2>3 DEF TypeOK
    <2>5. ASSUME NEW q \in Relays, NEW i \in Ids, RepairAhead(q, i)
          PROVE  RepairAhead(q, i)'
      <3>1. CASE q \notin seen
        BY <3>1, <1>0 DEF RepairAhead
      <3>2. CASE q \in notices \/ lagged
        <4>1. q \in notices' \/ lagged' \/ q \in rs
          BY <3>2, <1>1
        <4>. QED BY <4>1, <2>4 DEF RepairAhead
      <3>3. ASSUME NEW t \in Sweepers, q \in sweep[t].relays \/ (q = sweep[t].relay /\ i \in sweep[t].ids)
            PROVE  RepairAhead(q, i)'
        <4>1. t # s
          BY <3>3, <1>1 DEF Resting
        <4>2. sweep'[t] = sweep[t]
          BY <4>1, <2>4
        <4>. QED BY <3>3, <4>2 DEF RepairAhead
      <3>4. ASSUME NEW j \in Ids, <<q, j>> \in timers PROVE RepairAhead(q, i)'
        <4>1. <<q, j>> \in timers' \/ q \in rs
          BY <3>4, <1>1
        <4>. QED BY <4>1, <2>4 DEF RepairAhead
      <3>. QED BY <2>5, <3>1, <3>2, <3>3, <3>4 DEF RepairAhead
    <2>. QED BY <1>0, <2>2, <2>5, RepairStays DEF registry
  <1>2. ASSUME NEW r \in Relays, receive_connected(r) PROVE SubsInv'
    <2>1. /\ sweep["monitor"] = Resting /\ SetSweep("monitor", {r}, None, {})
          /\ notices' \subseteq notices /\ timers' = timers /\ lagged' = lagged
          /\ \A q \in Relays : q \in notices \ notices' => q \in {r}
      BY <1>2 DEF receive_connected
    <2>2. spent' \in [Pairs -> 0 .. Budget] /\ lagged \in BOOLEAN
      BY <1>0, <1>2 DEF receive_connected, TypeOK
    <2>. QED BY <1>0, <1>1, <2>1, <2>2
  <1>3. CASE receive_lagged
    <2>1. /\ sweep["monitor"] = Resting /\ SetSweep("monitor", Relays, None, {})
          /\ notices' = notices /\ timers' = timers /\ lagged' = FALSE /\ spent' = spent
      BY <1>3 DEF receive_lagged
    <2>2. spent' \in [Pairs -> 0 .. Budget]
      BY <1>0, <2>1 DEF TypeOK
    <2>. QED BY <1>0, <1>1, <2>1, <2>2
  <1>4. ASSUME NEW r \in Relays, NEW i \in Ids, closed_delay_elapsed(r, i) PROVE SubsInv'
    <2>1. /\ sweep["closed"] = Resting /\ SetSweep("closed", {r}, None, {})
          /\ notices' = notices /\ timers' \subseteq timers /\ lagged' = lagged /\ spent' = spent
          /\ \A q \in Relays, j \in Ids : <<q, j>> \in timers \ timers' => q \in {r}
      BY <1>4 DEF closed_delay_elapsed
    <2>2. spent' \in [Pairs -> 0 .. Budget] /\ lagged \in BOOLEAN
      BY <1>0, <2>1 DEF TypeOK
    <2>. QED BY <1>0, <1>1, <2>1, <2>2
  <1>. QED BY <1>2, <1>3, <1>4

(* A sweep looks at one relay, then at what it lacked, one by one.          *)
LEMMA SnapshotKeepsSubs ==
    ASSUME SubsInv, NEW s \in Sweepers, NEW r \in Relays, snapshot(s, r)
    PROVE  SubsInv'
  <1>. USE RelaysAssumption
  <1>. DEFINE missing == {i \in Ids : Lacking(r, i)}
              ids == IF r \in up THEN missing ELSE {}
  <1>0. /\ TypeOK /\ UNCHANGED <<desired, held, up, seen, notices, lagged, timers, spent, drops, calls, refused>>
        /\ SetSweep(s, sweep[s].relays \ {r}, r, ids) /\ Abandoned(r, missing)
        /\ sweep[s].relay = None /\ sweep[s].relays \in SUBSET Relays
    BY DEF SubsInv, snapshot, registry, bounds, TypeOK
  <1>1. missed' = missed \cup {<<r, i>> : i \in {j \in missing : r \in seen \ up /\ Lacking(r, j)}}
    BY <1>0 DEF Abandoned
  <1>2. sweep' \in [Sweepers -> [relays : SUBSET Relays, relay : Relays \cup {None}, ids : SUBSET Ids]]
    <2>1. sweep[s].relays \ {r} \in SUBSET Relays /\ ids \in SUBSET Ids
      BY <1>0
    <2>. QED BY <1>0, <2>1, SetSweepKeepsType
  <1>3. TypeOK'
    <2>1. missed' \subseteq Pairs
      BY <1>0, <1>1 DEF TypeOK, Pairs
    <2>. QED BY <1>0, <1>2, <2>1 DEF TypeOK
  <1>4. /\ sweep'[s].relays = sweep[s].relays \ {r} /\ sweep'[s].ids = ids
        /\ sweep'[s].relay = IF ids = {} THEN None ELSE r
        /\ \A t \in Sweepers : t # s => sweep'[t] = sweep[t]
    BY <1>0 DEF SetSweep, TypeOK
  <1>5. ASSUME NEW q \in Relays, NEW i \in Ids, RepairAhead(q, i), Lacking(q, i)
        PROVE  RepairAhead(q, i)' \/ <<q, i>> \in refused' \cup missed'
    <2>1. CASE q = r
      <3>1. i \in missing
        BY <1>5, <2>1
      <3>2. CASE r \in up
        <4>1. i \in sweep'[s].ids /\ sweep'[s].relay = r
          BY <3>1, <3>2, <1>4
        <4>. QED BY <2>1, <4>1 DEF RepairAhead
      <3>3. CASE r \notin up
        <4>1. r \in seen => <<r, i>> \in missed'
          BY <1>1, <1>5, <2>1, <3>1, <3>3
        <4>. QED BY <1>0, <2>1, <4>1 DEF RepairAhead
      <3>. QED BY <3>2, <3>3
    <2>2. CASE q # r
      <3>1. CASE q \notin seen \/ q \in notices \/ lagged \/ \E j \in Ids : <<q, j>> \in timers
        BY <1>0, <3>1 DEF RepairAhead
      <3>2. ASSUME NEW t \in Sweepers, q \in sweep[t].relays \/ (q = sweep[t].relay /\ i \in sweep[t].ids)
            PROVE  RepairAhead(q, i)'
        <4>1. CASE t = s
          BY <1>0, <1>4, <2>2, <3>2, <4>1 DEF RepairAhead
        <4>2. CASE t # s
          BY <1>4, <3>2, <4>2 DEF RepairAhead
        <4>. QED BY <4>1, <4>2
      <3>. QED BY <1>5, <3>1, <3>2 DEF RepairAhead
    <2>. QED BY <2>1, <2>2
  <1>6. refused' = refused /\ missed \subseteq missed' /\ UNCHANGED registry
    BY <1>0, <1>1 DEF registry
  <1>. QED BY <1>3, <1>5, <1>6, RepairStays

LEMMA RepairKeepsSubs ==
    ASSUME SubsInv, NEW s \in Sweepers, NEW i \in Ids, repair(s, i)
    PROVE  SubsInv'
  <1>. USE RelaysAssumption
  <1>. DEFINE r == sweep[s].relay
              ids == sweep[s].ids \ {i}
  <1>0. /\ TypeOK /\ UNCHANGED <<desired, up, seen, notices, lagged, timers, spent, drops, calls>>
        /\ r # None /\ i \in sweep[s].ids
    BY DEF SubsInv, repair, bounds
  <1>1. r \in Relays /\ ids \in SUBSET Ids /\ sweep[s].relays \in SUBSET Relays
    BY <1>0 DEF TypeOK
  <1>. HIDE DEF r, ids
  <1>2. ASSUME SetSweep(s, sweep[s].relays, r, ids)
        PROVE  /\ sweep' \in [Sweepers -> [relays : SUBSET Relays, relay : Relays \cup {None}, ids : SUBSET Ids]]
               /\ \A q \in Relays, j \in Ids : RepairAhead(q, j) => RepairAhead(q, j)' \/ (q = r /\ j = i)
    <2>1. sweep' \in [Sweepers -> [relays : SUBSET Relays, relay : Relays \cup {None}, ids : SUBSET Ids]]
      BY <1>0, <1>1, <1>2, SetSweepKeepsType
    <2>2. /\ sweep'[s].relays = sweep[s].relays /\ sweep'[s].ids = ids
          /\ sweep'[s].relay = IF ids = {} THEN None ELSE r
          /\ \A t \in Sweepers : t # s => sweep'[t] = sweep[t]
      BY <1>0, <1>2 DEF SetSweep, TypeOK
    <2>3. ASSUME NEW q \in Relays, NEW j \in Ids, RepairAhead(q, j), ~(q = r /\ j = i)
          PROVE  RepairAhead(q, j)'
      <3>1. CASE q \notin seen \/ q \in notices \/ lagged \/ \E k \in Ids : <<q, k>> \in timers
        BY <1>0, <3>1 DEF RepairAhead
      <3>2. ASSUME NEW t \in Sweepers, q \in sweep[t].relays \/ (q = sweep[t].relay /\ j \in sweep[t].ids)
            PROVE  RepairAhead(q, j)'
        <4>1. CASE t = s
          <5>1. q \in sweep[s].relays => q \in sweep'[s].relays
            BY <2>2
          <5>2. q = r /\ j \in sweep[s].ids => j \in sweep'[s].ids /\ sweep'[s].relay = r
            BY <2>2, <2>3 DEF ids
          <5>. QED BY <3>2, <4>1, <5>1, <5>2 DEF RepairAhead, r
        <4>2. CASE t # s
          BY <2>2, <3>2, <4>2 DEF RepairAhead
        <4>. QED BY <4>1, <4>2
      <3>. QED BY <2>3, <3>1, <3>2 DEF RepairAhead
    <2>. QED BY <2>1, <2>3
  <1>3. CASE ~Lacking(r, i) /\ SetSweep(s, sweep[s].relays, r, ids) /\ UNCHANGED <<held, refused, missed>>
    <2>1. TypeOK'
      BY <1>0, <1>2, <1>3 DEF TypeOK
    <2>2. UNCHANGED registry
      BY <1>0, <1>3 DEF registry
    <2>3. \A q \in Relays, j \in Ids : RepairAhead(q, j) /\ Lacking(q, j)
             => RepairAhead(q, j)' \/ <<q, j>> \in refused' \cup missed'
      BY <1>2, <1>3
    <2>. QED BY <1>3, <2>1, <2>2, <2>3, RepairStays
  <1>4. CASE /\ Lacking(r, i) /\ r \notin up /\ SetSweep(s, sweep[s].relays, None, {})
             /\ Abandoned(r, sweep[s].ids) /\ UNCHANGED <<held, refused>>
    <2>1. missed' = missed \cup {<<r, j>> : j \in {k \in sweep[s].ids : r \in seen \ up /\ Lacking(r, k)}}
      BY <1>4 DEF Abandoned
    <2>2. sweep' \in [Sweepers -> [relays : SUBSET Relays, relay : Relays \cup {None}, ids : SUBSET Ids]]
      <3>1. {} \in SUBSET Ids
        OBVIOUS
      <3>. QED BY <1>0, <1>1, <1>4, <3>1, SetSweepKeepsType
    <2>3. TypeOK'
      <3>1. missed' \subseteq Pairs
        BY <1>0, <1>1, <2>1 DEF TypeOK, Pairs
      <3>. QED BY <1>0, <1>4, <2>2, <3>1 DEF TypeOK
    <2>4. /\ sweep'[s].relays = sweep[s].relays
          /\ \A t \in Sweepers : t # s => sweep'[t] = sweep[t]
      BY <1>0, <1>4 DEF SetSweep, TypeOK
    <2>5. ASSUME NEW q \in Relays, NEW j \in Ids, RepairAhead(q, j), Lacking(q, j)
          PROVE  RepairAhead(q, j)' \/ <<q, j>> \in refused' \cup missed'
      <3>1. CASE q \notin seen \/ q \in notices \/ lagged \/ \E k \in Ids : <<q, k>> \in timers
        BY <1>0, <3>1 DEF RepairAhead
      <3>2. ASSUME NEW t \in Sweepers, q \in sweep[t].relays \/ (q = sweep[t].relay /\ j \in sweep[t].ids)
            PROVE  RepairAhead(q, j)' \/ <<q, j>> \in missed' \/ q \notin seen
        <4>1. CASE t = s
          <5>1. q \in sweep[s].relays => q \in sweep'[s].relays
            BY <2>4
          <5>2. q = r /\ j \in sweep[s].ids /\ q \in seen => <<q, j>> \in missed'
            BY <1>4, <2>1, <2>5
          <5>. QED BY <3>2, <4>1, <5>1, <5>2 DEF RepairAhead, r
        <4>2. CASE t # s
          BY <2>4, <3>2, <4>2 DEF RepairAhead
        <4>. QED BY <4>1, <4>2
      <3>. QED BY <2>5, <3>1, <3>2 DEF RepairAhead
    <2>6. refused' = refused /\ missed \subseteq missed' /\ UNCHANGED registry
      BY <1>0, <1>4, <2>1 DEF registry
    <2>. QED BY <2>3, <2>5, <2>6, RepairStays
  <1>5. CASE /\ Lacking(r, i) /\ r \in up /\ SetSweep(s, sweep[s].relays, r, ids)
             /\ \/ /\ held' = [held EXCEPT ![r][i] = desired[i]]
                   /\ refused' = refused \ {<<r, i>>} /\ missed' = missed \ {<<r, i>>}
                \/ /\ held' = [held EXCEPT ![r][i] = None]
                   /\ refused' = refused \cup {<<r, i>>} /\ UNCHANGED missed
    <2>1. /\ held' \in [Relays -> [Ids -> Filters \cup {None}]]
          /\ \A q \in Relays, j \in Ids : ~(q = r /\ j = i) => held'[q][j] = held[q][j]
          /\ held'[r][i] \in {None, desired[i]}
          /\ held'[r][i] = desired[i] \/ <<r, i>> \in refused'
      <3>1. PICK v \in {None, desired[i]} : /\ held' = [held EXCEPT ![r][i] = v]
                                            /\ v = desired[i] \/ <<r, i>> \in refused'
        BY <1>5
      <3>2. v \in Filters \cup {None} /\ held \in [Relays -> [Ids -> Filters \cup {None}]]
        BY <1>0 DEF TypeOK
      <3>3. held' = [held EXCEPT ![r] = [held[r] EXCEPT ![i] = v]]
        BY <3>1, <3>2, <1>1
      <3>. QED BY <1>1, <3>1, <3>2, <3>3
    <2>2. TypeOK'
      <3>1. refused' \subseteq Pairs /\ missed' \subseteq Pairs
        BY <1>0, <1>1, <1>5 DEF TypeOK, Pairs
      <3>. QED BY <1>0, <1>2, <1>5, <2>1, <3>1 DEF TypeOK
    <2>3. NothingUnwanted'
      BY <1>0, <2>1 DEF SubsInv, NothingUnwanted
    <2>4. LackingIsRepaired'
      <3>. SUFFICES ASSUME NEW q \in Relays, NEW j \in Ids, Lacking(q, j)'
                    PROVE  RepairAhead(q, j)' \/ <<q, j>> \in refused' \cup missed'
        BY DEF LackingIsRepaired
      <3>1. CASE q = r /\ j = i
        BY <1>0, <2>1, <3>1 DEF Lacking
      <3>2. CASE ~(q = r /\ j = i)
        <4>1. Lacking(q, j)
          BY <1>0, <2>1, <3>2 DEF Lacking
        <4>2. RepairAhead(q, j) \/ <<q, j>> \in refused \cup missed
          BY <4>1 DEF SubsInv, LackingIsRepaired
        <4>3. <<q, j>> \in refused \cup missed => <<q, j>> \in refused' \cup missed'
          BY <1>5, <3>2
        <4>. QED BY <1>2, <1>5, <3>2, <4>2, <4>3
      <3>. QED BY <3>1, <3>2
    <2>. QED BY <2>2, <2>3, <2>4 DEF SubsInv
  <1>. QED BY <1>3, <1>4, <1>5 DEF repair, r, ids

LEMMA ClosedKeepsSubs ==
    ASSUME SubsInv, NEW r \in Relays, NEW i \in Ids, on_closed(r, i)
    PROVE  SubsInv'
  <1>. USE RelaysAssumption
  <1>0. /\ TypeOK /\ UNCHANGED <<desired, up, seen, notices, lagged, sweep, drops, calls, missed>>
        /\ held' = [held EXCEPT ![r][i] = None]
    BY DEF SubsInv, on_closed, bounds
  <1>1. /\ timers \subseteq timers' /\ timers' \subseteq Pairs /\ refused \subseteq refused' /\ refused' \subseteq Pairs
        /\ spent' \in [Pairs -> 0 .. Budget]
        /\ desired[i] # None => <<r, i>> \in timers' \/ <<r, i>> \in refused'
    <2>1. <<r, i>> \in Pairs
      BY DEF Pairs
    <2>2. timers \subseteq Pairs /\ refused \subseteq Pairs /\ spent \in [Pairs -> 0 .. Budget] /\ Budget \in Nat
      BY <1>0 DEF TypeOK
    <2>3. CASE desired[i] = None
      BY <2>2, <2>3 DEF on_closed
    <2>4. CASE desired[i] # None /\ spent[<<r, i>>] < Budget
      <3>1. /\ spent' = [spent EXCEPT ![<<r, i>>] = @ + 1]
            /\ timers' = timers \cup {<<r, i>>} /\ refused' = refused
        BY <2>4 DEF on_closed, next_delay
      <3>2. spent[<<r, i>>] + 1 \in 0 .. Budget
        BY <2>1, <2>2, <2>4
      <3>. QED BY <2>1, <2>2, <3>1, <3>2
    <2>5. CASE desired[i] # None /\ ~(spent[<<r, i>>] < Budget)
      <3>1. spent' = spent /\ timers' = timers /\ refused' = refused \cup {<<r, i>>}
        BY <2>5 DEF on_closed, next_delay
      <3>. QED BY <2>1, <2>2, <3>1
    <2>. QED BY <2>3, <2>4, <2>5
  <1>2. /\ held' \in [Relays -> [Ids -> Filters \cup {None}]]
        /\ \A q \in Relays, j \in Ids : ~(q = r /\ j = i) => held'[q][j] = held[q][j]
        /\ held'[r][i] = None
    BY <1>0 DEF TypeOK
  <1>3. TypeOK'
    BY <1>0, <1>1, <1>2 DEF TypeOK
  <1>4. NothingUnwanted'
    BY <1>0, <1>2 DEF SubsInv, NothingUnwanted
  <1>5. LackingIsRepaired'
    <2>. SUFFICES ASSUME NEW q \in Relays, NEW j \in Ids, Lacking(q, j)'
                  PROVE  RepairAhead(q, j)' \/ <<q, j>> \in refused' \cup missed'
      BY DEF LackingIsRepaired
    <2>1. CASE q = r /\ j = i
      BY <1>0, <1>1, <2>1 DEF Lacking, RepairAhead
    <2>2. CASE ~(q = r /\ j = i)
      <3>1. Lacking(q, j)
        BY <1>0, <1>2, <2>2 DEF Lacking
      <3>2. RepairAhead(q, j) => RepairAhead(q, j)'
        BY <1>0, <1>1 DEF RepairAhead
      <3>. QED BY <1>0, <1>1, <3>1, <3>2 DEF SubsInv, LackingIsRepaired
    <2>. QED BY <2>1, <2>2
  <1>. QED BY <1>3, <1>4, <1>5 DEF SubsInv

LEMMA SubsInit == Init => SubsInv
  <1>. USE RelaysAssumption
  <1>. SUFFICES ASSUME Init PROVE SubsInv
    OBVIOUS
  <1>1. TypeOK
    <2>1. Resting \in [relays : SUBSET Relays, relay : Relays \cup {None}, ids : SUBSET Ids]
      BY DEF Resting
    <2>2. sweep \in [Sweepers -> [relays : SUBSET Relays, relay : Relays \cup {None}, ids : SUBSET Ids]]
      BY <2>1 DEF Init
    <2>3. desired \in [Ids -> Filters \cup {None}] /\ held \in [Relays -> [Ids -> Filters \cup {None}]]
      BY DEF Init
    <2>4. /\ up \subseteq Relays /\ seen = {} /\ notices = {} /\ timers = {} /\ refused = {} /\ missed = {}
          /\ lagged = FALSE /\ drops = 0 /\ calls = 0 /\ spent \in [Pairs -> 0 .. Budget]
      BY DEF Init
    <2>5. 0 \in 0 .. MaxDrops /\ 0 \in 0 .. MaxCalls /\ FALSE \in BOOLEAN
      OBVIOUS
    <2>6. lagged \in BOOLEAN /\ drops \in 0 .. MaxDrops /\ calls \in 0 .. MaxCalls
      BY <2>4, <2>5
    <2>. QED BY <2>2, <2>3, <2>4, <2>6 DEF TypeOK
  <1>2. NothingUnwanted /\ LackingIsRepaired
    BY DEF Init, NothingUnwanted, LackingIsRepaired, Lacking
  <1>. QED BY <1>1, <1>2 DEF SubsInv

LEMMA SubsStep == SubsInv /\ Next => SubsInv'
  <1>. SUFFICES ASSUME SubsInv, Next PROVE SubsInv'
    OBVIOUS
  <1>1. CASE \E i \in Ids : call(i)
    BY <1>1, CallKeepsSubs
  <1>2. CASE Environment
    BY <1>2, EnvironmentKeepsSubs, ClosedKeepsSubs DEF Environment
  <1>3. CASE Repairing
    BY <1>3, EnvironmentKeepsSubs, StartKeepsSubs, SnapshotKeepsSubs, RepairKeepsSubs
       DEF Repairing, sweep_step
  <1>. QED BY <1>1, <1>2, <1>3 DEF Next

LEMMA SubsStutter == SubsInv /\ UNCHANGED vars => SubsInv'
  <1>. SUFFICES ASSUME SubsInv, UNCHANGED vars PROVE SubsInv'
    OBVIOUS
  <1>1. TypeOK'
    BY DEF SubsInv, vars, TypeOK
  <1>2. \A r \in Relays, i \in Ids : RepairAhead(r, i) => RepairAhead(r, i)'
    BY DEF vars, RepairAhead
  <1>3. UNCHANGED registry /\ refused' = refused /\ missed' = missed
    BY DEF vars, registry
  <1>. QED BY <1>1, <1>2, <1>3, RepairStays

------------------------------------------------------------------------------
(* The run that serves an Online.                                           *)

LEMMA DerivedIsState ==
    ASSUME NEW st, NEW rs
    PROVE  Online!derive_connection_state(st, rs) \in Online!States
  <1>1. CASE \E r \in rs : st[r] = "Connected"
    BY <1>1 DEF Online!derive_connection_state, Online!States
  <1>2. CASE ~(\E r \in rs : st[r] = "Connected") /\ \E r \in rs : st[r] = "Connecting"
    BY <1>2 DEF Online!derive_connection_state, Online!States
  <1>3. CASE ~(\E r \in rs : st[r] = "Connected") /\ ~(\E r \in rs : st[r] = "Connecting")
    BY <1>3 DEF Online!derive_connection_state, Online!States
  <1>. QED BY <1>1, <1>2, <1>3

(* What a publisher does to the channel.                                    *)
Pushed(c, s) == Append(IF Len(c) = Capacity THEN Tail(c) ELSE c, s)

LEMMA PushedIs ==
    ASSUME NEW c \in Seq(Online!States), Len(c) <= Capacity, NEW s \in Online!States
    PROVE  /\ Pushed(c, s) \in Seq(Online!States) /\ Len(Pushed(c, s)) <= Capacity
           /\ Len(Pushed(c, s)) > 0 /\ Pushed(c, s)[Len(Pushed(c, s))] = s
  <1>. USE RelaysAssumption
  <1>1. CASE Len(c) = Capacity
    <2>1. c # <<>> /\ Tail(c) \in Seq(Online!States) /\ Len(Tail(c)) = Capacity - 1
      BY <1>1
    <2>. QED BY <1>1, <2>1 DEF Pushed
  <1>2. CASE Len(c) # Capacity
    BY <1>2 DEF Pushed
  <1>. QED BY <1>1, <1>2

LEMMA OnlineInit == Online!Init => OnlineInv
  <1>. USE RelaysAssumption
  <1>. SUFFICES ASSUME Online!Init PROVE OnlineInv
    OBVIOUS
  <1>1. Online!TypeOK
    <2>1. chan \in Seq(Online!States) /\ Len(chan) <= Capacity
      BY DEF Online!Init
    <2>2. /\ socket \in [Relays -> Online!Statuses] /\ status \in [Relays -> Online!Statuses]
          /\ last \in Online!States /\ publishing \subseteq Online!Publishers /\ watcher = "none"
          /\ listed = Relays /\ armed = FALSE /\ unserved = FALSE /\ misread = FALSE /\ runs = 0
          /\ moves \in 0 .. MaxMoves
      BY DEF Online!Init, Online!Statuses, Online!States
    <2>. QED BY <2>1, <2>2 DEF Online!TypeOK
  <1>2. Derived = "Reconnecting"
    BY DEF Online!Init, Derived, Online!derive_connection_state
  <1>3. GateIsCurrent /\ ServedWhenWatching /\ NothingBeforeSubscribe /\ Online!ListenerUpToDate
    BY <1>2 DEF Online!Init, GateIsCurrent, ServedWhenWatching, NothingBeforeSubscribe, Online!ListenerUpToDate
  <1>. QED BY <1>1, <1>3 DEF OnlineInv

LEMMA OnlineCardinality == \A S : Online!Cardinality(S) = Cardinality(S)
  BY DEF Online!Cardinality, Cardinality

(* A change of the pool: the channel and the watcher stay.                  *)
LEMMA PoolKeepsOnline ==
    ASSUME OnlineInv, NEW r \in Relays,
           \/ Online!socket_moves(r) \/ Online!monitor_look(r)
           \/ Online!add_relay_internal(r) \/ Online!remove_relay(r)
    PROVE  OnlineInv'
  <1>. USE RelaysAssumption
  <1>0. /\ Online!TypeOK /\ UNCHANGED <<last, chan, watcher, armed, runs, misread, unserved>>
    BY DEF OnlineInv, Online!socket_moves, Online!monitor_look, Online!add_relay_internal, Online!remove_relay,
           Online!syncVars
  <1>1. /\ socket' \in [Relays -> Online!Statuses] /\ status' \in [Relays -> Online!Statuses]
        /\ publishing' \subseteq Online!Publishers /\ moves' \in 0 .. MaxMoves
        /\ listed' \subseteq Relays
    <2>1. CASE Online!socket_moves(r)
      BY <1>0, <2>1 DEF Online!socket_moves, Online!TypeOK, Online!syncVars
    <2>2. CASE Online!monitor_look(r)
      BY <1>0, <2>2 DEF Online!monitor_look, Online!TypeOK, Online!Publishers, Online!syncVars
    <2>3. CASE Online!add_relay_internal(r)
      BY <1>0, <2>3 DEF Online!add_relay_internal, Online!TypeOK, Online!Publishers, Online!Statuses, Online!syncVars
    <2>4. CASE Online!remove_relay(r)
      BY <1>0, <2>4 DEF Online!remove_relay, Online!TypeOK, Online!Publishers, Online!syncVars
    <2>. QED BY <2>1, <2>2, <2>3, <2>4
  <1>2. listed' # {}
    <2>1. CASE Online!remove_relay(r)
      <3>1. r \in listed /\ Cardinality(listed) > 1 /\ listed' = listed \ {r}
        BY <2>1, OnlineCardinality DEF Online!remove_relay
      <3>2. listed = {r} => Cardinality(listed) = 1
        BY FS_Singleton
      <3>. QED BY <3>1, <3>2
    <2>2. CASE ~Online!remove_relay(r)
      BY <1>0, <2>2 DEF Online!TypeOK, Online!socket_moves, Online!monitor_look, Online!add_relay_internal
    <2>. QED BY <2>1, <2>2
  <1>3. Online!TypeOK'
    BY <1>0, <1>1, <1>2 DEF Online!TypeOK
  <1>4. GateIsCurrent'
    <2>1. publishing' # {} \/ (publishing' = publishing /\ status' = status /\ listed' = listed)
      BY DEF Online!socket_moves, Online!monitor_look, Online!add_relay_internal, Online!remove_relay
    <2>. QED BY <1>0, <2>1 DEF OnlineInv, GateIsCurrent, Derived
  <1>5. ServedWhenWatching' /\ NothingBeforeSubscribe' /\ Online!ListenerUpToDate'
    BY <1>0 DEF OnlineInv, ServedWhenWatching, NothingBeforeSubscribe, Online!ListenerUpToDate
  <1>. QED BY <1>3, <1>4, <1>5 DEF OnlineInv

LEMMA BroadcastKeepsOnline ==
    ASSUME OnlineInv, NEW p, Online!broadcast_if_changed(p)
    PROVE  OnlineInv'
  <1>. USE RelaysAssumption
  <1>0. /\ Online!TypeOK /\ UNCHANGED <<listed, socket, status, moves, watcher, armed, runs, misread>>
        /\ publishing' \subseteq publishing
    BY DEF OnlineInv, Online!broadcast_if_changed, Online!syncVars
  <1>1. Derived \in Online!States
    BY DerivedIsState DEF Derived
  <1>2. CASE Derived = last
    <2>1. UNCHANGED <<last, chan, unserved>>
      BY <1>2 DEF Online!broadcast_if_changed, Derived
    <2>2. Online!TypeOK'
      BY <1>0, <2>1 DEF Online!TypeOK
    <2>3. Derived' = Derived
      BY <1>0 DEF Derived
    <2>4. GateIsCurrent' /\ ServedWhenWatching' /\ NothingBeforeSubscribe' /\ Online!ListenerUpToDate'
      BY <1>0, <1>2, <2>1, <2>3
         DEF OnlineInv, GateIsCurrent, ServedWhenWatching, NothingBeforeSubscribe, Online!ListenerUpToDate
    <2>. QED BY <2>2, <2>4 DEF OnlineInv
  <1>3. CASE Derived # last
    <2>1. /\ last' = Derived /\ unserved' = (unserved \/ Derived = "Online")
          /\ chan' = IF watcher = "none" THEN chan ELSE Pushed(chan, Derived)
      BY <1>3 DEF Online!broadcast_if_changed, Derived, Pushed
    <2>2. chan \in Seq(Online!States) /\ Len(chan) <= Capacity
      BY <1>0 DEF Online!TypeOK
    <2>3. /\ Pushed(chan, Derived) \in Seq(Online!States) /\ Len(Pushed(chan, Derived)) <= Capacity
          /\ Len(Pushed(chan, Derived)) > 0
          /\ Pushed(chan, Derived)[Len(Pushed(chan, Derived))] = Derived
      BY <1>1, <2>2, PushedIs
    <2>4. Online!TypeOK'
      <3>1. chan' \in Seq(Online!States) /\ Len(chan') <= Capacity
        BY <2>1, <2>2, <2>3
      <3>2. last' \in Online!States /\ unserved' \in BOOLEAN
        BY <1>1, <2>1
      <3>. QED BY <1>0, <3>1, <3>2 DEF Online!TypeOK
    <2>5. GateIsCurrent'
      BY <1>0, <2>1 DEF GateIsCurrent, Derived
    <2>6. ServedWhenWatching'
      <3>. SUFFICES ASSUME watcher' = "watching", last' = "Online"
                    PROVE  \E i \in 1 .. Len(chan') : chan'[i] = "Online"
        BY DEF ServedWhenWatching
      <3>1. chan' = Pushed(chan, Derived) /\ Derived = "Online"
        BY <1>0, <2>1
      <3>2. Len(chan') \in 1 .. Len(chan')
        BY <2>3, <3>1
      <3>. QED BY <2>3, <3>1, <3>2
    <2>7. NothingBeforeSubscribe'
      BY <1>0, <2>1 DEF OnlineInv, NothingBeforeSubscribe
    <2>8. Online!ListenerUpToDate'
      <3>1. CASE watcher = "none"
        BY <1>0, <2>7, <3>1 DEF NothingBeforeSubscribe, Online!ListenerUpToDate
      <3>2. CASE watcher # "none"
        BY <2>1, <2>3, <3>2 DEF Online!ListenerUpToDate
      <3>. QED BY <3>1, <3>2
    <2>. QED BY <2>4, <2>5, <2>6, <2>7, <2>8 DEF OnlineInv
  <1>. QED BY <1>2, <1>3

LEMMA WatcherKeepsOnline ==
    ASSUME OnlineInv,
           \/ Online!subscribe \/ Online!start_watching \/ Online!receive_state
           \/ Online!window_elapses \/ Online!run_ends
    PROVE  OnlineInv'
  <1>. USE RelaysAssumption
  <1>0. /\ Online!TypeOK /\ UNCHANGED <<listed, socket, status, moves, publishing, last>>
        /\ chan \in Seq(Online!States) /\ Len(chan) <= Capacity /\ runs \in Nat
    BY DEF OnlineInv, Online!TypeOK, Online!subscribe, Online!start_watching, Online!receive_state,
           Online!window_elapses, Online!run_ends, Online!poolVars
  <1>1. Derived' = Derived /\ GateIsCurrent'
    BY <1>0 DEF OnlineInv, GateIsCurrent, Derived
  <1>2. CASE Online!receive_state
    <2>1. /\ watcher = "watching" /\ watcher' = "watching" /\ chan # <<>> /\ chan' = Tail(chan)
          /\ armed' = (armed \/ Head(chan) = "Online") /\ UNCHANGED <<runs, misread, unserved>>
      BY <1>2 DEF Online!receive_state
    <2>2. /\ Tail(chan) \in Seq(Online!States) /\ Len(Tail(chan)) = Len(chan) - 1 /\ Head(chan) = chan[1]
          /\ \A i \in 1 .. Len(Tail(chan)) : Tail(chan)[i] = chan[i + 1]
      BY <1>0, <2>1
    <2>3. Online!TypeOK'
      <3>1. armed' \in BOOLEAN /\ chan' \in Seq(Online!States) /\ Len(chan') <= Capacity
        BY <1>0, <2>1, <2>2
      <3>. QED BY <1>0, <2>1, <3>1 DEF Online!TypeOK
    <2>4. ServedWhenWatching'
      <3>. SUFFICES ASSUME unserved', last' = "Online", ~armed', ~misread'
                    PROVE  \E i \in 1 .. Len(chan') : chan'[i] = "Online"
        BY DEF ServedWhenWatching
      <3>1. PICK i \in 1 .. Len(chan) : chan[i] = "Online"
        BY <1>0, <2>1 DEF OnlineInv, ServedWhenWatching
      <3>2. i # 1
        BY <2>1, <2>2, <3>1
      <3>3. i - 1 \in 1 .. Len(chan') /\ chan'[i - 1] = chan[i]
        BY <1>0, <2>1, <2>2, <3>1, <3>2
      <3>. QED BY <3>1, <3>3
    <2>5. NothingBeforeSubscribe'
      BY <2>1 DEF NothingBeforeSubscribe
    <2>6. Online!ListenerUpToDate'
      <3>. SUFFICES ASSUME chan' # <<>> PROVE chan'[Len(chan')] = last'
        BY DEF Online!ListenerUpToDate
      <3>1. Len(Tail(chan)) > 0
        BY <2>1, <2>2
      <3>2. Tail(chan)[Len(Tail(chan))] = chan[Len(chan)]
        BY <1>0, <2>2, <3>1
      <3>. QED BY <1>0, <2>1, <3>2 DEF OnlineInv, Online!ListenerUpToDate
    <2>. QED BY <1>1, <2>3, <2>4, <2>5, <2>6 DEF OnlineInv
  <1>3. CASE Online!start_watching
    <2>1. /\ watcher = "subscribed" /\ watcher' = "watching" /\ chan' = chan
          /\ armed' = (armed \/ Derived = "Online") /\ misread' = (Derived # last)
          /\ UNCHANGED <<runs, unserved>>
      BY <1>3 DEF Online!start_watching, Derived, Online!poolVars
    <2>2. Online!TypeOK'
      <3>1. armed' \in BOOLEAN /\ misread' \in BOOLEAN
        BY <2>1
      <3>. QED BY <1>0, <2>1, <3>1 DEF Online!TypeOK
    <2>3. ServedWhenWatching'
      BY <1>0, <2>1 DEF ServedWhenWatching
    <2>4. NothingBeforeSubscribe' /\ Online!ListenerUpToDate'
      BY <1>0, <2>1 DEF OnlineInv, NothingBeforeSubscribe, Online!ListenerUpToDate
    <2>. QED BY <1>1, <2>2, <2>3, <2>4 DEF OnlineInv
  <1>4. CASE Online!subscribe \/ Online!window_elapses \/ Online!run_ends
    <2>1. chan' = chan /\ misread' = misread
      BY <1>4 DEF Online!subscribe, Online!window_elapses, Online!run_ends, Online!poolVars
    <2>2. /\ watcher' = watcher \/ (watcher = "none" /\ watcher' = "subscribed")
          /\ unserved' => unserved /\ armed' = armed
      BY <1>4 DEF Online!subscribe, Online!window_elapses, Online!run_ends, Online!poolVars
    <2>3. armed' \in BOOLEAN /\ unserved' \in BOOLEAN /\ runs' \in Nat
      <3>1. CASE Online!subscribe
        BY <1>0, <3>1 DEF Online!TypeOK, Online!subscribe
      <3>2. CASE Online!window_elapses
        <4>1. armed' = FALSE /\ unserved' = FALSE
          BY <3>2, Zenon DEF Online!window_elapses
        <4>2. runs' = runs + 1
          BY <3>2, Zenon DEF Online!window_elapses
        <4>3. armed' \in BOOLEAN /\ unserved' \in BOOLEAN
          BY <4>1, Zenon
        <4>4. runs' \in Nat
          BY <1>0, <4>2
        <4>. QED BY <4>3, <4>4
      <3>3. CASE Online!run_ends
        BY <1>0, <3>3 DEF Online!TypeOK, Online!run_ends
      <3>. QED BY <1>4, <3>1, <3>2, <3>3
    <2>4. Online!TypeOK'
      BY <1>0, <2>1, <2>2, <2>3 DEF Online!TypeOK
    <2>5. ServedWhenWatching' /\ NothingBeforeSubscribe' /\ Online!ListenerUpToDate'
      BY <1>0, <2>1, <2>2
         DEF OnlineInv, ServedWhenWatching, NothingBeforeSubscribe, Online!ListenerUpToDate
    <2>. QED BY <1>1, <2>4, <2>5 DEF OnlineInv
  <1>. QED BY <1>2, <1>3, <1>4

LEMMA OnlineStep == OnlineInv /\ Online!Next => OnlineInv'
  BY PoolKeepsOnline, BroadcastKeepsOnline, WatcherKeepsOnline DEF Online!Next

LEMMA OnlineStutter == OnlineInv /\ UNCHANGED OnlineVars => OnlineInv'
  BY DEF OnlineInv, OnlineVars, Online!TypeOK, GateIsCurrent, Derived, ServedWhenWatching,
         NothingBeforeSubscribe, Online!ListenerUpToDate

LEMMA OnlineServes == OnlineInv => Online!OnlineIsServed
  <1>. SUFFICES ASSUME OnlineInv, unserved, last = "Online", publishing = {}
                PROVE  \/ watcher # "watching" /\ Derived = "Online"
                       \/ armed \/ misread
                       \/ \E i \in 1 .. Len(chan) : chan[i] = "Online"
    BY DEF Online!OnlineIsServed, Derived
  <1>. QED BY DEF OnlineInv, GateIsCurrent, ServedWhenWatching

------------------------------------------------------------------------------
(* The resume pass.                                                         *)

LEMMA PullInit == Online!PullInit => PullInv
  <1>. USE RelaysAssumption
  <1>. SUFFICES ASSUME Online!PullInit PROVE PullInv
    OBVIOUS
  <1>1. Online!NoCall \in Online!CallRecords
    BY DEF Online!NoCall, Online!CallRecords
  <1>2. Online!PullTypes
    BY <1>1 DEF Online!PullTypes, Online!PullInit
  <1>3. \A c \in Callers : caller[c] = Online!NoCall
    BY DEF Online!PullInit
  <1>4. OnePass /\ Online!AnsweredAfterCall
    BY <1>3 DEF Online!PullInit, OnePass, Online!AnsweredAfterCall, Online!At, Online!NoCall
  <1>. QED BY <1>2, <1>4 DEF PullInv

(* What one call does to the pass: it goes to the record k.                 *)
CallMoves(c, k) ==
    /\ k \in Online!CallRecords /\ caller' = [caller EXCEPT ![c] = k]
    /\ passes' \in 0 .. MaxPasses /\ begun' \in 0 .. MaxPasses /\ begun' \in {0, passes' + 1}
    /\ passes <= passes' /\ k.seen <= passes'
    /\ k.at = "answered" => k.pass > k.seen
    /\ k.at = "running" => begun = 0 /\ begun' # 0
    /\ begun' = begun \/ begun = 0 \/ Online!At(c, "running")

LEMMA CallKeepsPull ==
    ASSUME PullInv, NEW c \in Callers, NEW k, CallMoves(c, k)
    PROVE  PullInv'
  <1>. USE RelaysAssumption
  <1>0. /\ passes \in 0 .. MaxPasses /\ begun \in 0 .. MaxPasses /\ begun \in {0, passes + 1}
        /\ caller \in [Callers -> Online!CallRecords] /\ \A d \in Callers : caller[d].seen <= passes
        /\ k \in Online!CallRecords /\ caller' = [caller EXCEPT ![c] = k]
        /\ passes' \in 0 .. MaxPasses /\ begun' \in 0 .. MaxPasses /\ begun' \in {0, passes' + 1}
        /\ passes <= passes' /\ k.seen <= passes'
        /\ k.at = "answered" => k.pass > k.seen
        /\ k.at = "running" => begun = 0 /\ begun' # 0
        /\ begun' = begun \/ begun = 0 \/ caller[c].at = "running"
    BY DEF PullInv, Online!PullTypes, OnePass, CallMoves, Online!At
  <1>1. caller'[c] = k /\ \A d \in Callers : d # c => caller'[d] = caller[d]
    BY <1>0
  <1>2. Online!PullTypes'
    BY <1>0 DEF Online!PullTypes
  <1>3. ASSUME NEW d \in Callers
        PROVE  /\ caller'[d].seen <= passes'
               /\ caller'[d].at = "running" => begun' # 0
               /\ caller'[d].at = "answered" => caller'[d].pass > caller'[d].seen
    <2>1. CASE d = c
      BY <1>0, <1>1, <2>1
    <2>2. CASE d # c
      <3>1. caller'[d] = caller[d] /\ caller[d].seen \in Nat
        BY <1>0, <1>1, <2>2 DEF Online!CallRecords
      <3>2. caller[d].seen <= passes'
        BY <1>0, <3>1
      <3>3. caller[d].at = "running" => begun' # 0
        BY <1>0, <2>2 DEF PullInv, OnePass, Online!At
      <3>4. caller[d].at = "answered" => caller[d].pass > caller[d].seen
        BY DEF PullInv, Online!AnsweredAfterCall, Online!At
      <3>. QED BY <3>1, <3>2, <3>3, <3>4
    <2>. QED BY <2>1, <2>2
  <1>4. ASSUME NEW d \in Callers, NEW e \in Callers, caller'[d].at = "running", caller'[e].at = "running"
        PROVE  d = e
    <2>1. ASSUME NEW f \in Callers, f # c, caller'[f].at = "running" PROVE caller'[c].at # "running"
      BY <1>0, <1>1, <2>1 DEF PullInv, OnePass, Online!At
    <2>2. CASE d # c /\ e # c
      BY <1>1, <1>4, <2>2 DEF PullInv, OnePass, Online!At
    <2>. QED BY <1>4, <2>1, <2>2
  <1>5. OnePass'
    BY <1>0, <1>3, <1>4 DEF OnePass, Online!At
  <1>6. Online!AnsweredAfterCall'
    BY <1>3 DEF Online!AnsweredAfterCall, Online!At
  <1>. QED BY <1>2, <1>5, <1>6 DEF PullInv

LEMMA PullStep == PullInv /\ Online!PullNext => PullInv'
  <1>. USE RelaysAssumption
  <1>. SUFFICES ASSUME PullInv, Online!PullNext PROVE PullInv'
    OBVIOUS
  <1>1. PICK c \in Callers : \/ Online!resync(c) \/ Online!take_lock(c) \/ Online!pass_ends(c) \/ Online!return(c)
    BY DEF Online!PullNext
  <1>2. /\ passes \in 0 .. MaxPasses /\ begun \in 0 .. MaxPasses /\ begun \in {0, passes + 1}
        /\ caller \in [Callers -> Online!CallRecords] /\ \A d \in Callers : caller[d].seen <= passes
    BY DEF PullInv, Online!PullTypes, OnePass
  <1>3. /\ caller[c] \in Online!CallRecords
        /\ caller[c].seen \in 0 .. MaxPasses /\ caller[c].from \in 0 .. MaxPasses /\ caller[c].pass \in 0 .. MaxPasses
    BY <1>2 DEF Online!CallRecords
  <1>5. CASE Online!resync(c)
    <2>. DEFINE k == [at |-> "waiting", seen |-> passes, from |-> begun, pass |-> 0]
    <2>1. k \in Online!CallRecords /\ k.seen = passes /\ k.at = "waiting"
      BY <1>2 DEF Online!CallRecords
    <2>2. caller' = [caller EXCEPT ![c] = k] /\ passes' = passes /\ begun' = begun
      BY <1>5 DEF Online!resync
    <2>. HIDE DEF k
    <2>3. CallMoves(c, k)
      BY <1>2, <2>1, <2>2 DEF CallMoves
    <2>. QED BY <2>3, CallKeepsPull
  <1>6. CASE Online!take_lock(c) /\ passes # caller[c].seen
    <2>. DEFINE k == [caller[c] EXCEPT !.at = "answered", !.pass = passes]
    <2>1. k \in Online!CallRecords /\ k.seen = caller[c].seen /\ k.at = "answered" /\ k.pass = passes
      BY <1>2, <1>3 DEF Online!CallRecords
    <2>2. caller' = [caller EXCEPT ![c] = k] /\ passes' = passes /\ begun' = begun
      BY <1>2, <1>6 DEF Online!take_lock, Online!Answer
    <2>3. passes > caller[c].seen
      BY <1>2, <1>3, <1>6
    <2>. HIDE DEF k
    <2>4. CallMoves(c, k)
      BY <1>2, <1>3, <2>1, <2>2, <2>3 DEF CallMoves
    <2>. QED BY <2>4, CallKeepsPull
  <1>7. CASE Online!take_lock(c) /\ passes = caller[c].seen
    <2>. DEFINE k == [caller[c] EXCEPT !.at = "running"]
    <2>1. k \in Online!CallRecords /\ k.seen = caller[c].seen /\ k.at = "running"
      BY <1>2, <1>3 DEF Online!CallRecords
    <2>2. /\ caller' = [caller EXCEPT ![c] = k] /\ passes' = passes /\ begun = 0 /\ begun' = passes + 1
          /\ passes < MaxPasses
      BY <1>2, <1>7 DEF Online!take_lock, Online!Run
    <2>3. begun' \in 0 .. MaxPasses /\ begun' # 0 /\ begun' \in {0, passes' + 1}
      BY <1>2, <2>2
    <2>. HIDE DEF k
    <2>4. CallMoves(c, k)
      BY <1>2, <1>3, <2>1, <2>2, <2>3 DEF CallMoves
    <2>. QED BY <2>4, CallKeepsPull
  <1>8. CASE Online!pass_ends(c)
    <2>. DEFINE k == [caller[c] EXCEPT !.at = "answered", !.pass = begun]
    <2>1. k \in Online!CallRecords /\ k.seen = caller[c].seen /\ k.at = "answered" /\ k.pass = begun
      BY <1>2, <1>3 DEF Online!CallRecords
    <2>2. /\ caller' = [caller EXCEPT ![c] = k] /\ passes' = begun /\ begun' = 0 /\ Online!At(c, "running")
      BY <1>2, <1>8 DEF Online!pass_ends, Online!Answer
    <2>3. begun = passes + 1
      BY <1>2, <2>2 DEF PullInv, OnePass
    <2>4. begun > caller[c].seen /\ passes <= begun
      BY <1>2, <1>3, <2>3
    <2>. HIDE DEF k
    <2>5. CallMoves(c, k)
      BY <1>2, <1>3, <2>1, <2>2, <2>3, <2>4 DEF CallMoves
    <2>. QED BY <2>5, CallKeepsPull
  <1>9. CASE Online!return(c)
    <2>1. /\ Online!NoCall \in Online!CallRecords /\ Online!NoCall.seen = 0 /\ Online!NoCall.at = "idle"
      BY DEF Online!NoCall, Online!CallRecords
    <2>2. caller' = [caller EXCEPT ![c] = Online!NoCall] /\ passes' = passes /\ begun' = begun
      BY <1>9 DEF Online!return
    <2>3. CallMoves(c, Online!NoCall)
      BY <1>2, <2>1, <2>2 DEF CallMoves
    <2>. QED BY <2>3, CallKeepsPull
  <1>. QED BY <1>1, <1>5, <1>6, <1>7, <1>8, <1>9 DEF Online!take_lock

LEMMA PullStutter == PullInv /\ UNCHANGED PullVars => PullInv'
  BY DEF PullInv, PullVars, Online!PullTypes, OnePass, Online!AnsweredAfterCall, Online!At

------------------------------------------------------------------------------
(* The rating.                                                              *)

LEMMA RegistryCardinality == \A S : Registry!Cardinality(S) = Cardinality(S)
  BY DEF Registry!Cardinality, Cardinality

LEMMA RatingInitHolds == Registry!RatingInit => RatingInv
  <1>. USE RelaysAssumption
  <1>. SUFFICES ASSUME Registry!RatingInit PROVE RatingInv
    OBVIOUS
  <1>1. /\ Cardinality(Submits) \in Nat /\ wire = 0 /\ faults = 0 /\ mine = Registry!None
        /\ excused = FALSE /\ rated_at = FALSE
        /\ \A c \in Submits : sub[c] = "idle"
    BY FS_CardinalityType DEF Registry!RatingInit
  <1>2. wire \in 0 .. Cardinality(Submits) + MaxFaults + 1 /\ faults \in 0 .. MaxFaults
    BY <1>1
  <1>3. /\ excused \in BOOLEAN /\ rated_at \in BOOLEAN /\ privacy \in BOOLEAN /\ key \in BOOLEAN
    BY Zenon DEF Registry!RatingInit
  <1>4. Registry!RatingTypes
    BY <1>2, <1>3, RegistryCardinality DEF Registry!RatingTypes, Registry!RatingInit
  <1>5. SlotHeld /\ WireBounded /\ MarkerTrue
    BY <1>1 DEF SlotHeld, WireBounded, MarkerTrue, Sent
  <1>. QED BY <1>4, <1>5 DEF RatingInv

(* Nobody is in the middle of a rating when the slot is free.               *)
LEMMA FreeSlotIdle ==
    ASSUME RatingInv, mine \notin Submits
    PROVE  ~Sent /\ \A c \in Submits : sub[c] \notin {"send", "mark"}
  BY DEF RatingInv, SlotHeld, Sent

LEMMA HolderOnly ==
    ASSUME RatingInv, NEW c \in Submits, mine = c
    PROVE  /\ Sent <=> sub[c] \in {"mark", "done"}
           /\ \A d \in Submits : d # c => sub[d] \notin {"send", "mark"}
  BY DEF RatingInv, SlotHeld, Sent

(* A call that is not the holder moves among the steps before the slot.     *)
LEMMA BystanderKeepsRating ==
    ASSUME RatingInv, NEW c \in Submits, mine # c, NEW to, sub' = [sub EXCEPT ![c] = to],
           to \in {"check", "query", "found", "missing", "reserve", "rated"},
           mine' = mine \/ (mine = Registry!None /\ mine' = "row"),
           ~excused /\ rated_at /\ mine' = Registry!None => to \notin {"missing", "reserve"},
           UNCHANGED <<rated_at, privacy, key, read, wire, faults, excused>>
    PROVE  RatingInv'
  <1>. USE RelaysAssumption
  <1>1. /\ mine' \in Submits \cup {"row", Registry!None} /\ sub'[c] = to
        /\ \A d \in Submits : d # c => sub'[d] = sub[d]
        /\ sub[c] \notin {"send", "mark"}
    BY DEF RatingInv, Registry!RatingTypes, SlotHeld
  <1>2. Registry!RatingTypes'
    BY <1>1 DEF RatingInv, Registry!RatingTypes
  <1>3. SlotHeld'
    BY <1>1 DEF RatingInv, SlotHeld
  <1>4. Sent' <=> Sent
    BY <1>1 DEF Sent
  <1>5. WireBounded'
    BY <1>4 DEF RatingInv, WireBounded
  <1>6. MarkerTrue'
    BY <1>1 DEF RatingInv, MarkerTrue
  <1>. QED BY <1>2, <1>3, <1>5, <1>6 DEF RatingInv

LEMMA SubmitKeepsRating ==
    ASSUME RatingInv, NEW c \in Submits, Registry!submit_rating(c) \/ Registry!hydrate_of_submit(c)
    PROVE  RatingInv'
  <1>1. CASE Registry!submit_rating(c)
    <2>1. sub[c] = "idle" /\ sub' = [sub EXCEPT ![c] = "check"] /\ mine' = mine
      BY <1>1 DEF Registry!submit_rating
    <2>2. mine # c
      BY <2>1 DEF RatingInv, SlotHeld
    <2>. QED BY <1>1, <2>1, <2>2, BystanderKeepsRating DEF Registry!submit_rating
  <1>2. CASE Registry!hydrate_of_submit(c)
    <2>1. PICK to \in {"query", "found", "missing", "reserve"} :
            /\ Registry!HydrateStep(sub[c], to, "reserve") /\ sub' = [sub EXCEPT ![c] = to]
            /\ UNCHANGED <<rated_at, privacy, key, read, wire, faults, excused>>
      BY <1>2 DEF Registry!hydrate_of_submit
    <2>2. /\ sub[c] \in {"check", "query", "found", "missing"}
          /\ mine' = mine \/ (mine = Registry!None /\ mine' = "row")
      BY <2>1 DEF Registry!HydrateStep
    <2>3. mine # c
      BY <2>2 DEF RatingInv, SlotHeld
    <2>4. ~excused /\ rated_at /\ mine' = Registry!None => to \notin {"missing", "reserve"}
      BY <2>1, RelaysAssumption DEF RatingInv, MarkerTrue, Registry!HydrateStep, Registry!None
    <2>. QED BY <2>1, <2>2, <2>3, <2>4, BystanderKeepsRating
  <1>. QED BY <1>1, <1>2

LEMMA InsertKeepsRating ==
    ASSUME RatingInv, NEW c \in Submits, Registry!try_insert_mine(c)
    PROVE  RatingInv'
  <1>. USE RelaysAssumption
  <1>0. sub[c] = "reserve" /\ mine # c
    BY DEF Registry!try_insert_mine, RatingInv, SlotHeld
  <1>1. CASE mine # Registry!None
    <2>1. sub' = [sub EXCEPT ![c] = "rated"] /\ mine' = mine
      BY <1>1 DEF Registry!try_insert_mine
    <2>. QED BY <1>0, <1>1, <2>1, BystanderKeepsRating DEF Registry!try_insert_mine
  <1>2. CASE mine = Registry!None
    <2>. DEFINE to == IF key THEN "send" ELSE "done"
    <2>1. /\ mine' = c /\ sub' = [sub EXCEPT ![c] = to]
          /\ UNCHANGED <<rated_at, privacy, key, read, wire, faults, excused>>
      BY <1>2 DEF Registry!try_insert_mine
    <2>2. to \in {"send", "done"}
      OBVIOUS
    <2>. HIDE DEF to
    <2>3. /\ sub'[c] = to /\ \A d \in Submits : d # c => sub'[d] = sub[d]
          /\ \A d \in Submits : sub[d] \notin {"send", "mark"}
      BY <1>2, <2>1, FreeSlotIdle DEF RatingInv, Registry!RatingTypes
    <2>4. Registry!RatingTypes'
      BY <2>1, <2>2 DEF RatingInv, Registry!RatingTypes
    <2>5. SlotHeld'
      BY <2>1, <2>2, <2>3 DEF RatingInv, SlotHeld
    <2>6. ~Sent /\ wire \in Nat /\ faults \in Nat
      BY <1>2, FreeSlotIdle DEF RatingInv, Registry!RatingTypes
    <2>7. WireBounded'
      BY <2>1, <2>6 DEF RatingInv, WireBounded
    <2>8. MarkerTrue'
      BY <1>0, <1>2, <2>1, <2>2, <2>3, <2>6 DEF RatingInv, MarkerTrue
    <2>. QED BY <2>4, <2>5, <2>7, <2>8 DEF RatingInv
  <1>. QED BY <1>1, <1>2

LEMMA OneMoreThan == \A w, f, g \in Nat : w <= f + 1 /\ f <= g => w <= g + 1
  OBVIOUS

LEMMA OneMore == \A m, n \in Nat : m <= n => m <= n + 1
  OBVIOUS

LEMMA DispatchKeepsRating ==
    ASSUME RatingInv, NEW c \in Submits, Registry!dispatch(c)
    PROVE  RatingInv'
  <1>. USE RelaysAssumption
  <1>0. /\ sub[c] = "send" /\ mine = c /\ UNCHANGED <<rated_at, privacy, key, read>>
        /\ wire \in Nat /\ faults \in 0 .. MaxFaults /\ DOMAIN sub = Submits
    BY DEF Registry!dispatch, RatingInv, SlotHeld, Registry!RatingTypes
  <1>1. ~Sent /\ \A d \in Submits : d # c => sub[d] \notin {"send", "mark"}
    BY <1>0, HolderOnly
  <1>2. wire <= faults
    BY <1>0, <1>1 DEF RatingInv, WireBounded
  <1>3. ~excused => wire = 0 /\ ~rated_at
    BY <1>0 DEF RatingInv, MarkerTrue
  <1>4. CASE /\ sub' = [sub EXCEPT ![c] = "mark"] /\ wire' = wire + 1
             /\ UNCHANGED <<mine, faults, excused>>
    <2>1. sub'[c] = "mark" /\ \A d \in Submits : d # c => sub'[d] = sub[d]
      BY <1>0, <1>4
    <2>2. SlotHeld' /\ Sent'
      BY <1>0, <1>1, <1>4, <2>1 DEF SlotHeld, Sent
    <2>3. WireBounded'
      BY <1>0, <1>2, <1>4, <2>2 DEF WireBounded
    <2>4. Registry!RatingTypes'
      <3>1. wire' \in 0 .. Registry!Cardinality(Submits) + MaxFaults + 1
        <4>1. Cardinality(Submits) \in Nat
          BY FS_CardinalityType
        <4>. QED BY <1>0, <1>2, <1>4, <4>1, RegistryCardinality
      <3>. QED BY <1>0, <1>4, <3>1 DEF RatingInv, Registry!RatingTypes
    <2>5. MarkerTrue'
      BY <1>0, <1>1, <1>3, <1>4, <2>1 DEF MarkerTrue, Registry!None
    <2>. QED BY <2>2, <2>3, <2>4, <2>5 DEF RatingInv
  <1>5. CASE /\ sub' = [sub EXCEPT ![c] = "failed"] /\ mine' = Registry!None
             /\ \/ UNCHANGED <<wire, faults, excused>>
                \/ faults' = faults + 1 /\ faults < MaxFaults /\ wire' = wire + 1 /\ excused' = TRUE
    <2>1. sub'[c] = "failed" /\ \A d \in Submits : d # c => sub'[d] = sub[d]
      BY <1>0, <1>5
    <2>2. SlotHeld' /\ ~Sent'
      BY <1>0, <1>1, <1>5, <2>1 DEF SlotHeld, Sent, Registry!None
    <2>3. wire' <= faults' /\ wire' \in Nat /\ faults' \in 0 .. MaxFaults /\ faults' \in Nat
      BY <1>0, <1>2, <1>5
    <2>4. WireBounded'
      <3>1. wire' \in Nat /\ faults' \in Nat /\ wire' <= faults'
        BY <2>3
      <3>2. wire' <= faults' + 1
        BY <3>1, OneMore
      <3>. QED BY <2>2, <3>1, <3>2 DEF WireBounded
    <2>5. Registry!RatingTypes'
      <3>1. wire' \in 0 .. Registry!Cardinality(Submits) + MaxFaults + 1
        <4>1. Cardinality(Submits) \in Nat
          BY FS_CardinalityType
        <4>. QED BY <2>3, <4>1, RegistryCardinality
      <3>2. excused' \in BOOLEAN
        BY <1>5, Zenon DEF RatingInv, Registry!RatingTypes
      <3>. QED BY <1>0, <1>5, <2>3, <3>1, <3>2 DEF RatingInv, Registry!RatingTypes
    <2>6. MarkerTrue'
      BY <1>0, <1>1, <1>3, <1>5, <2>1 DEF MarkerTrue
    <2>. QED BY <2>2, <2>4, <2>5, <2>6 DEF RatingInv
  <1>. QED BY <1>4, <1>5 DEF Registry!dispatch, Registry!remove_mine, Registry!Fault

LEMMA MarkKeepsRating ==
    ASSUME RatingInv, NEW c \in Submits, Registry!mark_trade_rated(c)
    PROVE  RatingInv'
  <1>. USE RelaysAssumption
  <1>0. /\ sub[c] = "mark" /\ sub' = [sub EXCEPT ![c] = "done"] /\ mine = c
        /\ UNCHANGED <<mine, privacy, key, read, wire>> /\ DOMAIN sub = Submits
        /\ faults \in 0 .. MaxFaults /\ wire \in Nat
    BY DEF Registry!mark_trade_rated, RatingInv, SlotHeld, Registry!RatingTypes
  <1>1. /\ sub'[c] = "done" /\ \A d \in Submits : d # c => sub'[d] = sub[d]
        /\ \A d \in Submits : d # c => sub[d] \notin {"send", "mark"}
    BY <1>0, HolderOnly
  <1>2. \/ rated_at' = TRUE /\ UNCHANGED <<faults, excused>>
        \/ faults' = faults + 1 /\ faults < MaxFaults /\ excused' = TRUE /\ UNCHANGED rated_at
    BY DEF Registry!mark_trade_rated, Registry!Fault
  <1>3. /\ faults' \in 0 .. MaxFaults /\ faults <= faults'
        /\ faults \in Nat /\ faults' \in Nat
    BY <1>0, <1>2
  <1>4. rated_at' \in BOOLEAN /\ excused' \in BOOLEAN
    BY <1>2, Zenon DEF RatingInv, Registry!RatingTypes
  <1>5. Registry!RatingTypes'
    BY <1>0, <1>3, <1>4 DEF RatingInv, Registry!RatingTypes
  <1>6. SlotHeld' /\ Sent /\ Sent'
    BY <1>0, <1>1 DEF SlotHeld, Sent
  <1>7. WireBounded'
    <2>1. wire <= faults + 1
      BY DEF RatingInv, WireBounded
    <2>2. wire' \in Nat /\ wire' = wire
      BY <1>0
    <2>3. wire' <= faults' + 1
      BY <1>0, <1>3, <2>1, <2>2, OneMoreThan
    <2>. QED BY <1>6, <2>3 DEF WireBounded
  <1>8. MarkerTrue'
    BY <1>0, <1>1, <1>2 DEF RatingInv, MarkerTrue, Registry!None
  <1>. QED BY <1>5, <1>6, <1>7, <1>8 DEF RatingInv

LEMMA ReadKeepsRating ==
    ASSUME RatingInv, NEW r \in Reads, Registry!get_rating_for_trade(r)
    PROVE  RatingInv'
  <1>. USE RelaysAssumption
  <1>1. /\ UNCHANGED <<rated_at, privacy, key, sub, wire, faults, excused>>
        /\ mine' = mine \/ (mine = Registry!None /\ mine' = "row")
    BY DEF Registry!get_rating_for_trade, Registry!HydrateStep
  <1>2. /\ read' \in [Reads -> {"idle", "check", "query", "found", "missing", "rated", "unrated"}]
    BY DEF RatingInv, Registry!RatingTypes, Registry!get_rating_for_trade
  <1>3. Registry!RatingTypes'
    BY <1>1, <1>2 DEF RatingInv, Registry!RatingTypes
  <1>4. SlotHeld' /\ (Sent' <=> Sent)
    BY <1>1 DEF RatingInv, SlotHeld, Sent
  <1>5. WireBounded' /\ MarkerTrue'
    BY <1>1, <1>4 DEF RatingInv, WireBounded, MarkerTrue
  <1>. QED BY <1>3, <1>4, <1>5 DEF RatingInv

LEMMA RestartKeepsRating ==
    ASSUME RatingInv, Registry!restart \/ Registry!set_privacy_mode
    PROVE  RatingInv'
  <1>. USE RelaysAssumption
  <1>1. CASE Registry!set_privacy_mode
    <2>1. UNCHANGED <<mine, rated_at, key, sub, read, wire, faults, excused>>
      BY <1>1 DEF Registry!set_privacy_mode
    <2>2. privacy' \in BOOLEAN
      BY <1>1, Zenon DEF Registry!set_privacy_mode
    <2>. QED BY <2>1, <2>2 DEF RatingInv, Registry!RatingTypes, SlotHeld, Sent, WireBounded, MarkerTrue
  <1>2. CASE Registry!restart
    <2>1. /\ mine' = Registry!None /\ UNCHANGED <<rated_at, key, wire>>
          /\ faults' = faults + 1 /\ faults < MaxFaults
          /\ sub' = [d \in Submits |-> "idle"] /\ read' = [r \in Reads |-> "idle"]
          /\ excused' = (excused \/ \E d \in Submits : sub[d] = "mark")
      BY <1>2 DEF Registry!restart, Registry!Fault
    <2>2. faults \in Nat /\ faults' \in 0 .. MaxFaults /\ wire \in Nat
      BY <2>1 DEF RatingInv, Registry!RatingTypes
    <2>3. privacy' \in BOOLEAN /\ excused' \in BOOLEAN
      BY <1>2, Zenon DEF Registry!restart
    <2>4. Registry!RatingTypes'
      BY <2>1, <2>2, <2>3 DEF RatingInv, Registry!RatingTypes
    <2>5. SlotHeld' /\ ~Sent'
      BY <2>1 DEF SlotHeld, Sent, Registry!None
    <2>6. WireBounded'
      BY <2>1, <2>2, <2>5 DEF RatingInv, WireBounded
    <2>7. MarkerTrue'
      BY <2>1 DEF RatingInv, MarkerTrue
    <2>. QED BY <2>4, <2>5, <2>6, <2>7 DEF RatingInv
  <1>. QED BY <1>1, <1>2

LEMMA RatingStep == RatingInv /\ Registry!RatingNext => RatingInv'
  BY SubmitKeepsRating, InsertKeepsRating, DispatchKeepsRating, MarkKeepsRating, ReadKeepsRating,
     RestartKeepsRating DEF Registry!RatingNext

LEMMA RatingStutter == RatingInv /\ UNCHANGED RatingVars => RatingInv'
  BY DEF RatingInv, RatingVars, Registry!RatingTypes, SlotHeld, Sent, WireBounded, MarkerTrue

LEMMA RatingServes == RatingInv => Registry!RatedOnce /\ Registry!FailedCanRetry
  BY DEF RatingInv, MarkerTrue, SlotHeld, Registry!RatedOnce, Registry!FailedCanRetry

------------------------------------------------------------------------------
(* The nodes: what a set of revisions comes to.                             *)

LEMMA SupersedesIsOrder ==
    /\ \A a, b \in Registry!Revisions : a = b \/ Registry!supersedes(a, b) \/ Registry!supersedes(b, a)
    /\ \A a, b \in Registry!Revisions : Registry!supersedes(a, b) => ~Registry!supersedes(b, a)
    /\ \A a, b, c \in Registry!Revisions :
         Registry!supersedes(a, b) /\ Registry!supersedes(b, c) => Registry!supersedes(a, c)
  BY DEF Registry!Revisions, Registry!supersedes

LEMMA NewestIs ==
    ASSUME NEW S \in SUBSET Registry!Revisions, S # {}
    PROVE  /\ Registry!newest_info(S) \in S
           /\ \A o \in S \ {Registry!newest_info(S)} : ~Registry!supersedes(o, Registry!newest_info(S))
  <1>. DEFINE Best(r) == \A o \in S \ {r} : ~Registry!supersedes(o, r)
              R(a, i) == [at |-> a, id |-> i]
  <1>1. \A r \in Registry!Revisions : r \in {R(2, 1), R(2, 2), R(1, 1), R(1, 2)}
    BY DEF Registry!Revisions
  <1>2. \E r \in S : Best(r)
    <2>1. CASE R(2, 1) \in S
      <3>1. Best(R(2, 1))
        BY <1>1 DEF Registry!supersedes
      <3>. QED BY <2>1, <3>1
    <2>2. CASE R(2, 1) \notin S /\ R(2, 2) \in S
      <3>1. Best(R(2, 2))
        BY <1>1, <2>2 DEF Registry!supersedes
      <3>. QED BY <2>2, <3>1
    <2>3. CASE R(2, 1) \notin S /\ R(2, 2) \notin S /\ R(1, 1) \in S
      <3>1. Best(R(1, 1))
        BY <1>1, <2>3 DEF Registry!supersedes
      <3>. QED BY <2>3, <3>1
    <2>4. CASE R(2, 1) \notin S /\ R(2, 2) \notin S /\ R(1, 1) \notin S
      <3>1. S = {R(1, 2)}
        BY <1>1, <2>4
      <3>. QED BY <3>1
    <2>. QED BY <2>1, <2>2, <2>3, <2>4
  <1>. HIDE DEF Best
  <1>3. Registry!newest_info(S) = CHOOSE r \in S : Best(r)
    BY DEF Registry!newest_info, Best
  <1>4. Registry!newest_info(S) \in S /\ Best(Registry!newest_info(S))
    BY <1>2, <1>3
  <1>. QED BY <1>4 DEF Best

LEMMA NewestUnique ==
    ASSUME NEW S \in SUBSET Registry!Revisions, NEW r \in S,
           \A o \in S \ {r} : ~Registry!supersedes(o, r)
    PROVE  Registry!newest_info(S) = r
  <1>. DEFINE q == Registry!newest_info(S)
  <1>1. q \in S /\ \A o \in S \ {q} : ~Registry!supersedes(o, q)
    BY NewestIs
  <1>. HIDE DEF q
  <1>2. q = r
    BY <1>1, SupersedesIsOrder
  <1>. QED BY <1>2 DEF q

(* One more revision is kept exactly when it supersedes the one held.       *)
LEMMA NewestJoin ==
    ASSUME NEW H \in SUBSET Registry!Revisions, H # {}, NEW f \in Registry!Revisions
    PROVE  Registry!newest_info(H \cup {f}) =
             IF Registry!supersedes(f, Registry!newest_info(H)) THEN f ELSE Registry!newest_info(H)
  <1>. DEFINE q == Registry!newest_info(H)
  <1>1. q \in H /\ q \in Registry!Revisions /\ \A o \in H \ {q} : ~Registry!supersedes(o, q)
    BY NewestIs
  <1>. HIDE DEF q
  <1>2. CASE Registry!supersedes(f, q)
    <2>1. \A o \in (H \cup {f}) \ {f} : ~Registry!supersedes(o, f)
      BY <1>1, <1>2, SupersedesIsOrder
    <2>2. Registry!newest_info(H \cup {f}) = f
      BY <2>1, NewestUnique
    <2>. QED BY <1>2, <2>2 DEF q
  <1>3. CASE ~Registry!supersedes(f, q)
    <2>1. \A o \in (H \cup {f}) \ {q} : ~Registry!supersedes(o, q)
      BY <1>1, <1>3
    <2>2. Registry!newest_info(H \cup {f}) = q
      BY <1>1, <2>1, NewestUnique
    <2>. QED BY <1>3, <2>2 DEF q
  <1>. QED BY <1>2, <1>3

LEMMA NewestOne ==
    ASSUME NEW f \in Registry!Revisions
    PROVE  Registry!newest_info({f}) = f
  BY NewestUnique

LEMMA GotsAre ==
    \A f : f \in Gots <=> DOMAIN f \subseteq Nodes /\ f \in [DOMAIN f -> Registry!Revisions]
  BY DEF Gots

LEMMA AnswersAreGots ==
    ASSUME NodeTypes, NEW asked \in SUBSET Nodes, NEW got \in Registry!Answers(asked)
    PROVE  got \in Gots
  <1>1. PICK S \in SUBSET asked : got \in
          {[n \in S |-> Registry!newest_info(pick[n])] :
              pick \in {p \in [S -> SUBSET Registry!Revisions] :
                          \A n \in S : p[n] # {} /\ p[n] \subseteq out[n].revs}}
    BY DEF Registry!Answers
  <1>2. PICK pick \in [S -> SUBSET Registry!Revisions] :
          /\ \A n \in S : pick[n] # {}
          /\ got = [n \in S |-> Registry!newest_info(pick[n])]
    BY <1>1
  <1>3. \A n \in S : got[n] \in Registry!Revisions
    <2>. SUFFICES ASSUME NEW n \in S PROVE got[n] \in Registry!Revisions
      OBVIOUS
    <2>1. pick[n] \in SUBSET Registry!Revisions /\ pick[n] # {} /\ got[n] = Registry!newest_info(pick[n])
      BY <1>2
    <2>2. Registry!newest_info(pick[n]) \in pick[n]
      BY <2>1, NewestIs
    <2>. QED BY <2>1, <2>2
  <1>4. got \in [S -> Registry!Revisions] /\ DOMAIN got = S /\ S \subseteq Nodes
    BY <1>2, <1>3
  <1>. QED BY <1>4, GotsAre

LEMMA IdleIsDoing == Registry!Idle \in Doings
  <1>1. <<>> \in Gots
    <2>1. DOMAIN <<>> = {}
      OBVIOUS
    <2>2. <<>> = [n \in {} |-> n]
      BY <2>1
    <2>. QED BY <2>1, <2>2, GotsAre
  <1>. QED BY <1>1 DEF Registry!Idle, Doings, Counts

LEMMA ListsAre ==
    \A f : f \in Lists <=> DOMAIN f \subseteq Nodes /\ f \in [DOMAIN f -> BOOLEAN]
  BY DEF Lists

LEMMA NothingIsList == <<>> \in Lists /\ <<>> \in Gots /\ DOMAIN <<>> = {}
  <1>1. DOMAIN <<>> = {}
    OBVIOUS
  <1>2. <<>> = [n \in {} |-> n]
    BY <1>1
  <1>. QED BY <1>1, <1>2, GotsAre, ListsAre

LEMMA NodesAreTyped == NodeTypes => Registry!TypeOK
  <1>. SUFFICES ASSUME NodeTypes PROVE Registry!TypeOK
    OBVIOUS
  <1>1. /\ DOMAIN custom \subseteq Nodes /\ custom \in [DOMAIN custom -> BOOLEAN]
        /\ DOMAIN info \subseteq Nodes /\ info \in [DOMAIN info -> Registry!Revisions]
    BY ListsAre, GotsAre DEF NodeTypes
  <1>2. ASSUME NEW c \in RegistryCallers
        PROVE  /\ doing[c].pc \in {"idle", "list", "relist", "persist", "switch", "fetch", "answered", "store"}
               /\ doing[c].node \in Nodes \cup {Registry!None} /\ doing[c].asked \subseteq Nodes
               /\ DOMAIN doing[c].got \subseteq Nodes /\ doing[c].keep \subseteq Nodes
    <2>1. doing[c] \in Doings
      BY DEF NodeTypes
    <2>2. doing[c].got \in Gots
      BY <2>1 DEF Doings
    <2>3. DOMAIN doing[c].got \subseteq Nodes
      BY <2>2, GotsAre
    <2>. QED BY <2>1, <2>3 DEF Doings
  <1>3. \A n \in Nodes : out[n].revs \subseteq Registry!Revisions /\ out[n].order \in 0 .. 2
    BY DEF NodeTypes
  <1>. QED BY <1>1, <1>2, <1>3 DEF NodeTypes, Registry!TypeOK

LEMMA NodesInit == Registry!Init => RegistryInv
  <1>. USE RelaysAssumption
  <1>. SUFFICES ASSUME Registry!Init PROVE RegistryInv
    OBVIOUS
  <1>1. NodeTypes
    <2>1. custom \in Lists /\ info \in Gots
      BY NothingIsList DEF Registry!Init
    <2>2. doing \in [RegistryCallers -> Doings] /\ steady \in [RegistryCallers -> SUBSET Nodes]
      BY IdleIsDoing DEF Registry!Init
    <2>3. out \in [Nodes -> [revs : SUBSET Registry!Revisions, order : 0 .. 2]]
      BY DEF Registry!Init
    <2>4. registry_moves \in 0 .. MaxMoves /\ heard \in [Nodes -> SUBSET Registry!Revisions]
      BY DEF Registry!Init
    <2>5. registry_listed \in BOOLEAN
      BY Zenon DEF Registry!Init
    <2>. QED BY <2>1, <2>2, <2>3, <2>4, <2>5 DEF NodeTypes, Registry!Init
  <1>2. InUseListed
    BY DEF InUseListed, Registry!Listed, Registry!Init
  <1>3. CacheIsNewest
    BY NothingIsList DEF CacheIsNewest, Registry!Init
  <1>4. \A c \in RegistryCallers : CallerStands(c)
    BY DEF CallerStands, Registry!Init, Registry!Idle
  <1>. QED BY <1>1, <1>2, <1>3, <1>4 DEF RegistryInv

(* The list after a normalisation has every node it had, and the one in use. *)
LEMMA NormalisedGrows ==
    ASSUME NodeTypes, NEW n \in Nodes, custom' = Registry!normalised(n), trusted' = trusted
    PROVE  custom' \in Lists /\ Registry!Listed \subseteq Registry!Listed'
  <1>. DEFINE left == {m \in DOMAIN custom : m \notin trusted}
              all == left \cup (IF n \in trusted \cup left THEN {} ELSE {n})
  <1>1. custom' = [m \in all |-> IF m \in left THEN custom[m] ELSE FALSE]
    BY DEF Registry!normalised
  <1>2. left \subseteq all /\ all \subseteq Nodes
    BY ListsAre DEF NodeTypes
  <1>3. \A m \in left : custom[m] \in BOOLEAN
    BY ListsAre DEF NodeTypes
  <1>4. \A m : m \in left <=> m \in DOMAIN custom /\ m \notin trusted
    OBVIOUS
  <1>. HIDE DEF left, all
  <1>5. DOMAIN custom' = all
    BY <1>1
  <1>6. \A m \in all : (IF m \in left THEN custom[m] ELSE FALSE) \in BOOLEAN
    BY <1>3, Zenon
  <1>7. custom' \in [all -> BOOLEAN]
    BY <1>1, <1>6, Zenon
  <1>8. custom' \in Lists
    BY <1>2, <1>5, <1>7, ListsAre
  <1>. QED BY <1>2, <1>4, <1>5, <1>8 DEF Registry!Listed

(* A caller the step is not about stands as it stood.                       *)
LEMMA CallerKeeps ==
    ASSUME NEW c, CallerStands(c), doing'[c] = doing[c], steady'[c] = steady[c],
           Registry!Listed \subseteq Registry!Listed', doing[c].pc = "switch" => lock' = lock
    PROVE  CallerStands(c)'
  BY DEF CallerStands

(* The list may have grown and one caller moves, its record k, its witness  *)
(* set t.                                                                   *)
CallerMoves(c, k, t) ==
    /\ doing' = [doing EXCEPT ![c] = k] /\ steady' = [steady EXCEPT ![c] = t]
    /\ k \in Doings /\ t \subseteq Nodes /\ t \subseteq Registry!Listed'
    /\ trusted' = trusted /\ custom' \in Lists /\ Registry!Listed \subseteq Registry!Listed'
    /\ UNCHANGED <<saved, active, lock, registry_listed, info, out, heard>>
    /\ registry_moves' \in 0 .. MaxMoves
    /\ k.pc # "switch"
    /\ k.pc = "list" => k.node \in Nodes
    /\ k.pc \notin {"relist", "store"} => t = {}
    /\ k.pc = "store" => k.keep = {} \/ t \subseteq k.keep
    /\ k.row # <<>> => (k.row[2] <=> k.row[3] = 1)

LEMMA MoveKeepsRegistry ==
    ASSUME RegistryInv, NEW c \in RegistryCallers, NEW k, NEW t, CallerMoves(c, k, t)
    PROVE  RegistryInv'
  <1>1. /\ doing'[c] = k /\ steady'[c] = t
        /\ \A d \in RegistryCallers : d # c => doing'[d] = doing[d] /\ steady'[d] = steady[d]
    BY DEF RegistryInv, NodeTypes, CallerMoves
  <1>2. NodeTypes'
    BY DEF RegistryInv, NodeTypes, CallerMoves
  <1>3. InUseListed'
    BY DEF RegistryInv, InUseListed, CallerMoves
  <1>4. CacheIsNewest'
    BY DEF RegistryInv, CacheIsNewest, CallerMoves
  <1>5. CallerStands(c)'
    BY <1>1 DEF CallerStands, CallerMoves
  <1>6. ASSUME NEW d \in RegistryCallers, d # c PROVE CallerStands(d)'
    <2>1. CallerStands(d)
      BY DEF RegistryInv
    <2>2. lock' = lock /\ Registry!Listed \subseteq Registry!Listed'
      BY DEF CallerMoves
    <2>. QED BY <1>1, <1>6, <2>1, <2>2, CallerKeeps
  <1>. QED BY <1>2, <1>3, <1>4, <1>5, <1>6 DEF RegistryInv

LEMMA CallerIs ==
    ASSUME RegistryInv, NEW c \in RegistryCallers
    PROVE  /\ doing[c] \in Doings /\ doing = [doing EXCEPT ![c] = doing[c]]
           /\ steady[c] \subseteq Nodes /\ steady = [steady EXCEPT ![c] = steady[c]]
           /\ CallerStands(c) /\ NodeTypes /\ Registry!Listed \subseteq Nodes
           /\ registry_moves \in 0 .. MaxMoves
  <1>1. Registry!Listed \subseteq Nodes
    BY ListsAre DEF RegistryInv, NodeTypes, Registry!Listed
  <1>. QED BY <1>1 DEF RegistryInv, NodeTypes

LEMMA MoveIs == ASSUME registry_moves \in 0 .. MaxMoves, Registry!Move PROVE registry_moves' \in 0 .. MaxMoves
  BY RelaysAssumption DEF Registry!Move

LEMMA IdleFits == /\ Registry!Idle \in Doings /\ Registry!Idle.pc = "idle" /\ Registry!Idle.row = <<>>
  BY IdleIsDoing DEF Registry!Idle

LEMMA ListKeepsRegistry ==
    ASSUME RegistryInv, NEW c \in RegistryCallers, Registry!list_mostro_nodes(c)
    PROVE  RegistryInv'
  <1>0. /\ doing[c] \in Doings /\ NodeTypes /\ CallerStands(c) /\ registry_moves \in 0 .. MaxMoves
        /\ steady[c] \subseteq Nodes /\ steady = [steady EXCEPT ![c] = steady[c]]
    BY CallerIs
  <1>1. CASE /\ doing[c].pc = "idle" /\ Registry!Move
             /\ doing' = [doing EXCEPT ![c].pc = "list", ![c].node = active]
             /\ UNCHANGED <<Registry!registry, Registry!selection, lock, info, out, heard, steady>>
    <2>. DEFINE k == [doing[c] EXCEPT !.pc = "list", !.node = active]
    <2>1. /\ k \in Doings /\ k.pc = "list" /\ k.node \in Nodes /\ k.row = doing[c].row
      BY <1>0 DEF Doings, NodeTypes
    <2>2. doing' = [doing EXCEPT ![c] = k]
      BY <1>0, <1>1 DEF Doings, NodeTypes
    <2>. HIDE DEF k
    <2>3. /\ UNCHANGED <<trusted, custom, saved, active, registry_listed>>
          /\ registry_moves' \in 0 .. MaxMoves /\ steady[c] = {} /\ Registry!Listed' = Registry!Listed
      BY <1>0, <1>1, MoveIs DEF Registry!registry, Registry!selection, CallerStands, Registry!Listed
    <2>4. CallerMoves(c, k, steady[c])
      BY <1>0, <1>1, <2>1, <2>2, <2>3 DEF CallerMoves, CallerStands, NodeTypes
    <2>. QED BY <2>4, MoveKeepsRegistry
  <1>2. CASE /\ doing[c].pc = "list" /\ Registry!Free
             /\ custom' = Registry!normalised(doing[c].node)
             /\ doing' = [doing EXCEPT ![c] = Registry!Idle]
             /\ UNCHANGED <<trusted, Registry!selection, lock, info, out, registry_moves, heard, steady>>
    <2>1. doing[c].node \in Nodes /\ steady[c] = {}
      BY <1>0, <1>2 DEF CallerStands
    <2>2. custom' \in Lists /\ Registry!Listed \subseteq Registry!Listed'
      BY <1>0, <1>2, <2>1, NormalisedGrows
    <2>3. CallerMoves(c, Registry!Idle, steady[c])
      BY <1>0, <1>2, <2>1, <2>2, IdleFits DEF CallerMoves, Registry!selection
    <2>. QED BY <2>3, MoveKeepsRegistry, IdleFits
  <1>. QED BY <1>1, <1>2 DEF Registry!list_mostro_nodes

LEMMA RefreshKeepsRegistry ==
    ASSUME RegistryInv, NEW c \in RegistryCallers,
           Registry!refresh_mostro_node_info_cache(c) \/ Registry!relist(c)
    PROVE  RegistryInv'
  <1>0. /\ doing[c] \in Doings /\ NodeTypes /\ CallerStands(c) /\ registry_moves \in 0 .. MaxMoves
        /\ steady[c] \subseteq Nodes /\ steady = [steady EXCEPT ![c] = steady[c]]
        /\ active \in Nodes /\ DOMAIN doing = RegistryCallers /\ Registry!Listed \subseteq Nodes
    BY CallerIs DEF NodeTypes
  <1>1. CASE /\ doing[c].pc = "idle" /\ Registry!Free /\ Registry!Move
             /\ custom' = Registry!normalised(active)
             /\ doing' = [doing EXCEPT ![c].pc = "fetch", ![c].asked = trusted \cup DOMAIN custom']
             /\ UNCHANGED <<trusted, Registry!selection, lock, info, out, heard, steady>>
    <2>1. custom' \in Lists /\ Registry!Listed \subseteq Registry!Listed' /\ DOMAIN custom' \subseteq Nodes
      BY <1>0, <1>1, NormalisedGrows, ListsAre
    <2>. DEFINE k == [doing[c] EXCEPT !.pc = "fetch", !.asked = trusted \cup DOMAIN custom']
    <2>2. k \in Doings /\ k.pc = "fetch" /\ k.row = doing[c].row
      BY <1>0, <2>1 DEF Doings, NodeTypes
    <2>3. doing' = [doing EXCEPT ![c] = k]
      BY <1>0, <1>1 DEF Doings
    <2>. HIDE DEF k
    <2>4. registry_moves' \in 0 .. MaxMoves /\ steady[c] = {}
      BY <1>0, <1>1, MoveIs DEF CallerStands
    <2>5. CallerMoves(c, k, steady[c])
      BY <1>0, <1>1, <2>1, <2>2, <2>3, <2>4 DEF CallerMoves, CallerStands, Registry!selection
    <2>. QED BY <2>5, MoveKeepsRegistry
  <1>2. ASSUME NEW got \in Registry!Answers(doing[c].asked), doing[c].pc = "fetch",
               doing' = [doing EXCEPT ![c].pc = "relist", ![c].got = got],
               steady' = [steady EXCEPT ![c] = Registry!Listed],
               UNCHANGED <<Registry!registry, Registry!selection, lock, info, out, registry_moves, heard>>
        PROVE  RegistryInv'
    <2>1. got \in Gots
      BY <1>0, AnswersAreGots DEF Doings
    <2>. DEFINE k == [doing[c] EXCEPT !.pc = "relist", !.got = got]
    <2>2. k \in Doings /\ k.pc = "relist" /\ k.row = doing[c].row
      BY <1>0, <2>1 DEF Doings
    <2>3. doing' = [doing EXCEPT ![c] = k]
      BY <1>0, <1>2 DEF Doings
    <2>. HIDE DEF k
    <2>4. /\ UNCHANGED <<trusted, custom, saved, active, registry_listed, lock, info, out, registry_moves, heard>>
          /\ Registry!Listed' = Registry!Listed
      BY <1>2 DEF Registry!registry, Registry!selection, Registry!Listed
    <2>5. CallerMoves(c, k, Registry!Listed)
      BY <1>0, <1>2, <2>2, <2>3, <2>4 DEF CallerMoves, CallerStands, NodeTypes
    <2>. QED BY <2>5, MoveKeepsRegistry
  <1>3. CASE Registry!relist(c)
    <2>1. /\ custom' = Registry!normalised(active) /\ trusted' = trusted /\ doing[c].pc = "relist"
          /\ doing' = [doing EXCEPT ![c].pc = "store", ![c].keep = trusted \cup DOMAIN custom']
          /\ UNCHANGED <<trusted, saved, active, registry_listed, lock, info, out, registry_moves, heard, steady>>
      BY <1>3 DEF Registry!relist, Registry!selection
    <2>2. custom' \in Lists /\ Registry!Listed \subseteq Registry!Listed' /\ DOMAIN custom' \subseteq Nodes
      BY <1>0, <2>1, NormalisedGrows, ListsAre
    <2>3. Registry!Listed' = trusted \cup DOMAIN custom'
      BY <2>1 DEF Registry!Listed
    <2>. DEFINE k == [doing[c] EXCEPT !.pc = "store", !.keep = trusted \cup DOMAIN custom']
    <2>4. k \in Doings /\ k.pc = "store" /\ k.keep = Registry!Listed' /\ k.row = doing[c].row
      BY <1>0, <2>2, <2>3 DEF Doings, NodeTypes
    <2>5. doing' = [doing EXCEPT ![c] = k]
      BY <1>0, <2>1 DEF Doings
    <2>. HIDE DEF k
    <2>6. steady[c] \subseteq Registry!Listed'
      BY <1>0, <2>2 DEF CallerStands
    <2>7. CallerMoves(c, k, steady[c])
      BY <1>0, <2>1, <2>2, <2>4, <2>5, <2>6 DEF CallerMoves, CallerStands
    <2>. QED BY <2>7, MoveKeepsRegistry
  <1>. QED BY <1>1, <1>2, <1>3 DEF Registry!refresh_mostro_node_info_cache

LEMMA StatsKeepRegistry ==
    ASSUME RegistryInv, NEW c \in RegistryCallers, Registry!fetch_mostro_node_stats(c)
    PROVE  RegistryInv'
  <1>0. /\ doing[c] \in Doings /\ NodeTypes /\ CallerStands(c) /\ registry_moves \in 0 .. MaxMoves
        /\ steady[c] \subseteq Nodes /\ steady = [steady EXCEPT ![c] = steady[c]]
        /\ DOMAIN doing = RegistryCallers /\ Registry!Listed \subseteq Nodes /\ custom \in Lists
    BY CallerIs DEF NodeTypes
  <1>1. /\ UNCHANGED <<trusted, custom, saved, active, registry_listed, lock, info, out, heard, steady>>
        /\ Registry!Listed' = Registry!Listed
    BY DEF Registry!fetch_mostro_node_stats, Registry!registry, Registry!selection, Registry!Listed
  <1>2. CASE /\ doing[c].pc = "idle" /\ Registry!Move
             /\ doing' = [doing EXCEPT ![c].pc = "answered", ![c].asked = Registry!Listed]
    <2>. DEFINE k == [doing[c] EXCEPT !.pc = "answered", !.asked = Registry!Listed]
    <2>1. k \in Doings /\ k.pc = "answered" /\ k.row = doing[c].row
      BY <1>0 DEF Doings
    <2>2. doing' = [doing EXCEPT ![c] = k]
      BY <1>0, <1>2 DEF Doings
    <2>. HIDE DEF k
    <2>3. registry_moves' \in 0 .. MaxMoves /\ steady[c] = {}
      BY <1>0, <1>2, MoveIs DEF CallerStands
    <2>4. CallerMoves(c, k, steady[c])
      BY <1>0, <1>1, <1>2, <2>1, <2>2, <2>3 DEF CallerMoves, CallerStands
    <2>. QED BY <2>4, MoveKeepsRegistry
  <1>3. ASSUME doing[c].pc = "answered", registry_moves' = registry_moves,
               NEW got \in Registry!Answers(doing[c].asked), NEW n \in doing[c].asked, NEW pending, NEW recent,
               pending \in SUBSET {1}, recent = (IF out[n].order = 0 THEN {} ELSE {out[n].order}),
               out[n].order = 1 => pending = {1}, out[n].order = 0 => pending = {},
               doing' = [doing EXCEPT ![c].pc = "store", ![c].got = got, ![c].keep = {},
                           ![c].row = <<n, Registry!count_open_orders(pending, recent), out[n].order>>]
        PROVE  RegistryInv'
    <2>1. got \in Gots /\ n \in Nodes
      BY <1>0, <1>3, AnswersAreGots DEF Doings
    <2>. DEFINE counted == Registry!count_open_orders(pending, recent)
    <2>2. out[n].order \in 0 .. 2
      BY <1>0, <2>1 DEF NodeTypes
    <2>3. counted <=> out[n].order = 1
      <3>1. CASE out[n].order = 0
        BY <1>3, <3>1 DEF Registry!count_open_orders
      <3>2. CASE out[n].order = 1
        BY <1>3, <3>2 DEF Registry!count_open_orders
      <3>3. CASE out[n].order = 2
        BY <1>3, <3>3 DEF Registry!count_open_orders
      <3>. QED BY <2>2, <3>1, <3>2, <3>3
    <2>4. counted \in BOOLEAN
      BY Zenon DEF Registry!count_open_orders
    <2>. HIDE DEF counted
    <2>. DEFINE row == <<n, counted, out[n].order>>
                k == [doing[c] EXCEPT !.pc = "store", !.got = got, !.keep = {}, !.row = row]
    <2>5. row \in Counts /\ (row[2] <=> row[3] = 1)
      BY <2>1, <2>2, <2>3, <2>4 DEF Counts
    <2>6. doing' = [doing EXCEPT ![c] = k]
      BY <1>0, <1>3 DEF Doings, counted
    <2>. HIDE DEF row
    <2>7. k \in Doings /\ k.pc = "store" /\ k.keep = {} /\ k.row = row
      BY <1>0, <2>1, <2>5 DEF Doings
    <2>. HIDE DEF k
    <2>8. steady[c] = {}
      BY <1>0, <1>3 DEF CallerStands
    <2>9. CallerMoves(c, k, steady[c])
      BY <1>0, <1>1, <1>3, <2>5, <2>6, <2>7, <2>8 DEF CallerMoves
    <2>. QED BY <2>9, MoveKeepsRegistry
  <1>4. CASE ~(/\ doing[c].pc = "idle" /\ Registry!Move
               /\ doing' = [doing EXCEPT ![c].pc = "answered", ![c].asked = Registry!Listed])
    <2>1. PICK got \in Registry!Answers(doing[c].asked), n \in doing[c].asked, behind \in BOOLEAN :
            LET upto == out[n].order
                pending == IF upto = 1 \/ (upto = 2 /\ behind) THEN {1} ELSE {}
                recent == IF upto = 0 THEN {} ELSE {upto} IN
            doing' = [doing EXCEPT ![c].pc = "store", ![c].got = got, ![c].keep = {},
                       ![c].row = <<n, Registry!count_open_orders(pending, recent), upto>>]
      BY <1>4 DEF Registry!fetch_mostro_node_stats
    <2>2. doing[c].pc = "answered" /\ registry_moves' = registry_moves
      BY <1>4 DEF Registry!fetch_mostro_node_stats
    <2>. DEFINE upto == out[n].order
                pending == IF upto = 1 \/ (upto = 2 /\ behind) THEN {1} ELSE {}
                recent == IF upto = 0 THEN {} ELSE {upto}
    <2>3. doing' = [doing EXCEPT ![c].pc = "store", ![c].got = got, ![c].keep = {},
                      ![c].row = <<n, Registry!count_open_orders(pending, recent), upto>>]
      BY <2>1
    <2>4. /\ pending \in SUBSET {1} /\ recent = (IF out[n].order = 0 THEN {} ELSE {out[n].order})
          /\ out[n].order = 1 => pending = {1}
          /\ out[n].order = 0 => pending = {}
      OBVIOUS
    <2>. HIDE DEF pending, recent
    <2>. QED BY <1>3, <2>2, <2>3, <2>4
  <1>. QED BY <1>2, <1>4

LEMMA SelectKeepsRegistry ==
    ASSUME RegistryInv, NEW c \in RegistryCallers, Registry!set_active_mostro_node(c)
    PROVE  RegistryInv'
  <1>. USE RelaysAssumption
  <1>0. /\ doing[c] \in Doings /\ NodeTypes /\ CallerStands(c) /\ registry_moves \in 0 .. MaxMoves
        /\ DOMAIN doing = RegistryCallers /\ custom \in Lists
    BY CallerIs DEF NodeTypes
  <1>1. /\ UNCHANGED <<trusted, custom, info, out, heard, steady>> /\ Registry!Listed' = Registry!Listed
    BY DEF Registry!set_active_mostro_node, Registry!registry, Registry!Listed
  <1>2. ASSUME NEW n \in Nodes, doing[c].pc = "idle", lock = Registry!None, registry_moves' \in 0 .. MaxMoves,
               doing' = [doing EXCEPT ![c].pc = "switch", ![c].node = n,
                                     ![c].asked = Registry!Listed \cap {n}],
               saved' = n, lock' = c, UNCHANGED <<active, registry_listed>>
        PROVE  RegistryInv'
    <2>. DEFINE k == [doing[c] EXCEPT !.pc = "switch", !.node = n, !.asked = Registry!Listed \cap {n}]
    <2>1. /\ k \in Doings /\ k.pc = "switch" /\ k.node = n /\ k.row = doing[c].row
          /\ k.asked = Registry!Listed \cap {n}
      BY <1>0 DEF Doings
    <2>2. doing' = [doing EXCEPT ![c] = k]
      BY <1>0, <1>2 DEF Doings
    <2>. HIDE DEF k
    <2>3. doing'[c] = k /\ \A d \in RegistryCallers : d # c => doing'[d] = doing[d]
      BY <1>0, <2>2
    <2>4. NodeTypes'
      <3>1. doing' \in [RegistryCallers -> Doings]
        BY <1>0, <2>1, <2>2 DEF NodeTypes
      <3>2. saved' \in Nodes /\ active' \in Nodes /\ lock' \in RegistryCallers /\ registry_listed' = registry_listed
        BY <1>0, <1>2 DEF NodeTypes
      <3>. QED BY <1>0, <1>1, <1>2, <3>1, <3>2 DEF NodeTypes
    <2>5. InUseListed' /\ CacheIsNewest'
      BY <1>1, <1>2 DEF RegistryInv, InUseListed, CacheIsNewest
    <2>6. CallerStands(c)'
      BY <1>0, <1>1, <1>2, <2>1, <2>3 DEF CallerStands
    <2>7. ASSUME NEW d \in RegistryCallers, d # c PROVE CallerStands(d)'
      <3>1. CallerStands(d) /\ doing[d].pc # "switch"
        BY <1>2 DEF RegistryInv, CallerStands
      <3>. QED BY <1>1, <2>3, <2>7, <3>1, CallerKeeps
    <2>. QED BY <2>4, <2>5, <2>6, <2>7 DEF RegistryInv
  <1>3. CASE /\ doing[c].pc = "switch"
             /\ active' = doing[c].node /\ registry_listed' = (doing[c].asked # {})
             /\ lock' = (IF lock = c THEN Registry!None ELSE lock)
             /\ doing' = [doing EXCEPT ![c] = Registry!Idle]
             /\ UNCHANGED <<saved, registry_moves>>
    <2>1. /\ lock = c /\ lock' = Registry!None /\ doing[c].node \in Nodes
          /\ registry_listed' => active' \in Registry!Listed
          /\ steady[c] = {}
      BY <1>0, <1>3 DEF CallerStands
    <2>2. doing'[c] = Registry!Idle /\ \A d \in RegistryCallers : d # c => doing'[d] = doing[d]
      BY <1>0, <1>3
    <2>3. registry_listed' \in BOOLEAN
      BY <1>3, Zenon
    <2>4. NodeTypes'
      BY <1>0, <1>1, <1>3, <2>1, <2>3, IdleFits DEF NodeTypes
    <2>5. InUseListed' /\ CacheIsNewest'
      BY <1>1, <2>1 DEF RegistryInv, InUseListed, CacheIsNewest
    <2>6. CallerStands(c)'
      BY <1>1, <2>1, <2>2, IdleFits DEF CallerStands
    <2>7. ASSUME NEW d \in RegistryCallers, d # c PROVE CallerStands(d)'
      <3>1. CallerStands(d) /\ doing[d].pc # "switch"
        BY <2>1, <2>7 DEF RegistryInv, CallerStands
      <3>. QED BY <1>1, <2>2, <2>7, <3>1, CallerKeeps
    <2>. QED BY <2>4, <2>5, <2>6, <2>7 DEF RegistryInv
  <1>4. CASE doing[c].pc = "idle"
    <2>1. PICK n \in Nodes : /\ doing' = [doing EXCEPT ![c].pc = "switch", ![c].node = n,
                                                      ![c].asked = Registry!Listed \cap {n}]
                             /\ saved' = n
      BY <1>4 DEF Registry!set_active_mostro_node
    <2>2. lock = Registry!None /\ lock' = c /\ UNCHANGED <<active, registry_listed>> /\ Registry!Move
      BY <1>4 DEF Registry!set_active_mostro_node, Registry!Free
    <2>. QED BY <1>0, <1>2, <1>4, <2>1, <2>2, MoveIs
  <1>5. doing[c].pc = "idle" \/ doing[c].pc = "switch"
    BY Zenon DEF Registry!set_active_mostro_node
  <1>6. CASE doing[c].pc = "switch"
    <2>1. doing[c].pc # "idle"
      BY <1>6
    <2>. QED BY <1>3, <2>1, Zenon DEF Registry!set_active_mostro_node
  <1>. QED BY <1>4, <1>5, <1>6

(* The user's list changes, every caller's record stays.                    *)
LEMMA EditKeepsRegistry ==
    ASSUME RegistryInv, NEW n \in Nodes,
           \/ \E named \in BOOLEAN : Registry!add_custom_mostro_node(n, named)
           \/ Registry!remove_custom_mostro_node(n)
           \/ Registry!publish(n)
    PROVE  RegistryInv'
  <1>0. /\ NodeTypes /\ DOMAIN custom \subseteq Nodes /\ custom \in [DOMAIN custom -> BOOLEAN]
        /\ registry_moves \in 0 .. MaxMoves
    BY ListsAre DEF RegistryInv, NodeTypes
  <1>1. ASSUME NEW named \in BOOLEAN, Registry!add_custom_mostro_node(n, named) PROVE RegistryInv'
    <2>1. /\ custom' = [x \in DOMAIN custom \cup {n} |-> IF x = n THEN named ELSE custom[x]]
          /\ UNCHANGED <<trusted, saved, active, registry_listed, lock, doing, info, out, heard, steady>>
          /\ registry_moves' \in 0 .. MaxMoves
      BY <1>0, <1>1, MoveIs DEF Registry!add_custom_mostro_node, Registry!selection
    <2>2. \A x \in DOMAIN custom \cup {n} : (IF x = n THEN named ELSE custom[x]) \in BOOLEAN
      BY <1>0, Zenon
    <2>3. custom' \in [DOMAIN custom \cup {n} -> BOOLEAN] /\ DOMAIN custom' = DOMAIN custom \cup {n}
      BY <2>1, <2>2, Zenon
    <2>4. custom' \in Lists
      BY <1>0, <2>3, ListsAre
    <2>5. Registry!Listed \subseteq Registry!Listed'
      BY <2>1, <2>3 DEF Registry!Listed
    <2>6. NodeTypes' /\ InUseListed' /\ CacheIsNewest'
      BY <2>1, <2>4, <2>5 DEF RegistryInv, NodeTypes, InUseListed, CacheIsNewest
    <2>7. \A d \in RegistryCallers : CallerStands(d)'
      BY <2>1, <2>5, CallerKeeps DEF RegistryInv
    <2>. QED BY <2>6, <2>7 DEF RegistryInv
  <1>2. CASE Registry!remove_custom_mostro_node(n)
    <2>1. /\ custom' = [x \in DOMAIN custom \ {n} |-> custom[x]]
          /\ steady' = [c \in RegistryCallers |-> steady[c] \ {n}]
          /\ n # active /\ lock = Registry!None
          /\ UNCHANGED <<trusted, saved, active, registry_listed, lock, doing, info, out, heard>>
          /\ registry_moves' \in 0 .. MaxMoves
      BY <1>0, <1>2, MoveIs DEF Registry!remove_custom_mostro_node, Registry!selection, Registry!Free
    <2>2. \A x \in DOMAIN custom \ {n} : custom[x] \in BOOLEAN
      BY <1>0
    <2>3. custom' \in [DOMAIN custom \ {n} -> BOOLEAN] /\ DOMAIN custom' = DOMAIN custom \ {n}
      BY <2>1, <2>2, Zenon
    <2>4. custom' \in Lists
      BY <1>0, <2>3, ListsAre
    <2>5. Registry!Listed' \cup {n} = Registry!Listed \cup {n}
      BY <2>1, <2>3 DEF Registry!Listed
    <2>6. NodeTypes'
      BY <2>1, <2>4 DEF RegistryInv, NodeTypes
    <2>7. InUseListed' /\ CacheIsNewest'
      BY <2>1, <2>5 DEF RegistryInv, InUseListed, CacheIsNewest
    <2>8. ASSUME NEW d \in RegistryCallers PROVE CallerStands(d)'
      <3>1. CallerStands(d) /\ doing'[d] = doing[d] /\ steady'[d] = steady[d] \ {n}
        BY <2>1 DEF RegistryInv
      <3>2. doing[d].pc # "switch"
        BY <2>1, <3>1, RelaysAssumption DEF CallerStands
      <3>. QED BY <2>1, <2>5, <3>1, <3>2 DEF CallerStands
    <2>. QED BY <2>6, <2>7, <2>8 DEF RegistryInv
  <1>3. CASE Registry!publish(n)
    <2>1. /\ UNCHANGED <<trusted, custom, saved, active, registry_listed, lock, doing, info, heard, steady>>
          /\ registry_moves' \in 0 .. MaxMoves /\ Registry!Listed' = Registry!Listed
      BY <1>0, <1>3, MoveIs DEF Registry!publish, Registry!registry, Registry!selection, Registry!Listed
    <2>2. out' \in [Nodes -> [revs : SUBSET Registry!Revisions, order : 0 .. 2]]
      <3>1. out[n] \in [revs : SUBSET Registry!Revisions, order : 0 .. 2]
        BY <1>0 DEF NodeTypes
      <3>2. CASE \E r \in Registry!Revisions \ out[n].revs : out' = [out EXCEPT ![n].revs = @ \cup {r}]
        BY <1>0, <3>1, <3>2 DEF NodeTypes
      <3>3. CASE out[n].order < 2 /\ out' = [out EXCEPT ![n].order = @ + 1]
        BY <1>0, <3>1, <3>3 DEF NodeTypes
      <3>. QED BY <1>3, <3>2, <3>3 DEF Registry!publish
    <2>3. NodeTypes' /\ InUseListed' /\ CacheIsNewest'
      BY <2>1, <2>2 DEF RegistryInv, NodeTypes, InUseListed, CacheIsNewest
    <2>4. \A d \in RegistryCallers : CallerStands(d)'
      BY <2>1, CallerKeeps DEF RegistryInv
    <2>. QED BY <2>3, <2>4 DEF RegistryInv
  <1>. QED BY <1>1, <1>2, <1>3

LEMMA StartKeepsRegistry ==
    ASSUME RegistryInv, Registry!rehydrate_active_mostro_node
    PROVE  RegistryInv'
  <1>0. NodeTypes /\ registry_moves \in 0 .. MaxMoves
    BY DEF RegistryInv, NodeTypes
  <1>1. /\ trusted' \subseteq Nodes /\ active' \in Nodes /\ registry_moves' \in 0 .. MaxMoves
        /\ lock' = Registry!None /\ doing' = [c \in RegistryCallers |-> Registry!Idle]
        /\ steady' = [c \in RegistryCallers |-> {}]
        /\ UNCHANGED <<custom, saved, info, out, heard>>
    BY <1>0, MoveIs, RelaysAssumption DEF Registry!rehydrate_active_mostro_node, NodeTypes
  <1>2. registry_listed' = (active' \in Registry!Listed')
    BY <1>1 DEF Registry!rehydrate_active_mostro_node, Registry!Listed
  <1>3. registry_listed' \in BOOLEAN
    <2>. DEFINE b == active' \in Registry!Listed'
    <2>1. b \in BOOLEAN
      OBVIOUS
    <2>. QED BY <1>2, <2>1
  <1>4. NodeTypes'
    BY <1>0, <1>1, <1>3, IdleFits DEF NodeTypes
  <1>5. InUseListed' /\ CacheIsNewest'
    BY <1>1, <1>2 DEF RegistryInv, InUseListed, CacheIsNewest
  <1>6. \A c \in RegistryCallers : CallerStands(c)'
    BY <1>1, IdleFits DEF CallerStands
  <1>. QED BY <1>4, <1>5, <1>6 DEF RegistryInv

(* What the store leaves: the merged cache, pruned.                         *)
LEMMA StoreIs ==
    ASSUME RegistryInv, NEW c \in RegistryCallers, Registry!store_info(c)
    PROVE  LET keep == IF doing[c].keep = {} THEN Nodes ELSE doing[c].keep
               news == doing[c].got
               all == (DOMAIN info \cup DOMAIN news) \cap keep IN
           /\ DOMAIN info' = all /\ all \subseteq Nodes
           /\ \A n \in all : /\ info'[n] = IF n \in DOMAIN info /\ (n \in DOMAIN news => ~Registry!supersedes(news[n], info[n]))
                                           THEN info[n] ELSE news[n]
                             /\ heard'[n] = heard[n] \cup (IF n \in DOMAIN news THEN {news[n]} ELSE {})
           /\ \A n \in Nodes \ all : heard'[n] = {}
           /\ heard' = [n \in Nodes |-> heard'[n]]
           /\ news \in Gots /\ info \in Gots
  <1>. DEFINE keep == IF doing[c].keep = {} THEN Nodes ELSE doing[c].keep
              news == doing[c].got
              all == (DOMAIN info \cup DOMAIN news) \cap keep
              m == Registry!merge_info(info, news)
  <1>1. news \in Gots /\ info \in Gots /\ keep \subseteq Nodes
    BY CallerIs DEF Doings, NodeTypes
  <1>2. all \subseteq Nodes
    BY <1>1
  <1>3. /\ info' = [n \in DOMAIN m \cap keep |-> m[n]]
        /\ heard' = [n \in Nodes |-> IF n \notin DOMAIN m \cap keep THEN {}
                        ELSE heard[n] \cup (IF n \in DOMAIN news THEN {news[n]} ELSE {})]
    BY DEF Registry!store_info
  <1>4. /\ DOMAIN m = DOMAIN info \cup DOMAIN news
        /\ \A n \in DOMAIN m :
             m[n] = IF n \in DOMAIN info /\ (n \in DOMAIN news => ~Registry!supersedes(news[n], info[n]))
                    THEN info[n] ELSE news[n]
    BY DEF Registry!merge_info
  <1>. HIDE DEF m, keep
  <1>. QED BY <1>1, <1>2, <1>3, <1>4 DEF keep

LEMMA StoreKeepsRegistry ==
    ASSUME RegistryInv, NEW c \in RegistryCallers, Registry!store_info(c)
    PROVE  RegistryInv'
  <1>. DEFINE keep == IF doing[c].keep = {} THEN Nodes ELSE doing[c].keep
              news == doing[c].got
              all == (DOMAIN info \cup DOMAIN news) \cap keep
  <1>1. /\ DOMAIN info' = all /\ all \subseteq Nodes
        /\ \A n \in all : /\ info'[n] = IF n \in DOMAIN info /\ (n \in DOMAIN news => ~Registry!supersedes(news[n], info[n]))
                                        THEN info[n] ELSE news[n]
                          /\ heard'[n] = heard[n] \cup (IF n \in DOMAIN news THEN {news[n]} ELSE {})
        /\ \A n \in Nodes \ all : heard'[n] = {}
        /\ heard' = [n \in Nodes |-> heard'[n]]
        /\ news \in Gots /\ info \in Gots
    BY StoreIs
  <1>2. /\ doing' = [doing EXCEPT ![c] = Registry!Idle] /\ steady' = [steady EXCEPT ![c] = {}]
        /\ UNCHANGED <<trusted, custom, saved, active, registry_listed, lock, out, registry_moves>>
        /\ Registry!Listed' = Registry!Listed
    BY DEF Registry!store_info, Registry!registry, Registry!selection, Registry!Listed
  <1>3. NodeTypes
    BY DEF RegistryInv
  <1>4. all \subseteq DOMAIN info \cup DOMAIN news
    OBVIOUS
  <1>5. /\ \A n \in DOMAIN info : info[n] \in Registry!Revisions
        /\ \A n \in DOMAIN news : news[n] \in Registry!Revisions
    BY <1>1, GotsAre
  <1>. HIDE DEF all, news
  <1>6. ASSUME NEW n \in all
        PROVE  /\ info'[n] = Registry!newest_info(heard'[n]) /\ heard'[n] # {}
               /\ heard'[n] \subseteq Registry!Revisions /\ info'[n] \in Registry!Revisions
    <2>0. n \in Nodes /\ heard[n] \in SUBSET Registry!Revisions
      BY <1>1, <1>3 DEF NodeTypes
    <2>1. CASE n \in DOMAIN info
      <3>1. heard[n] # {} /\ info[n] = Registry!newest_info(heard[n])
        BY <2>0, <2>1 DEF RegistryInv, CacheIsNewest
      <3>2. CASE n \in DOMAIN news
        <4>1. heard'[n] = heard[n] \cup {news[n]} /\ news[n] \in Registry!Revisions
          BY <1>1, <1>5, <3>2
        <4>2. info'[n] = IF Registry!supersedes(news[n], info[n]) THEN news[n] ELSE info[n]
          BY <1>1, <2>1, <3>2
        <4>3. Registry!newest_info(heard[n] \cup {news[n]}) =
                IF Registry!supersedes(news[n], info[n]) THEN news[n] ELSE info[n]
          BY <2>0, <3>1, <4>1, NewestJoin
        <4>. QED BY <1>5, <2>0, <2>1, <4>1, <4>2, <4>3
      <3>3. CASE n \notin DOMAIN news
        BY <1>1, <1>5, <2>0, <2>1, <3>1, <3>3
      <3>. QED BY <3>2, <3>3
    <2>2. CASE n \notin DOMAIN info
      <3>1. heard[n] = {} /\ n \in DOMAIN news
        BY <1>4, <2>0, <2>2 DEF RegistryInv, CacheIsNewest
      <3>2. heard'[n] = {news[n]} /\ info'[n] = news[n] /\ news[n] \in Registry!Revisions
        BY <1>1, <1>5, <2>2, <3>1
      <3>. QED BY <3>2, NewestOne
    <2>. QED BY <2>1, <2>2
  <1>7. info' \in Gots
    <2>1. info' = [n \in DOMAIN info' |-> info'[n]]
      BY DEF Registry!store_info
    <2>2. info' \in [DOMAIN info' -> Registry!Revisions]
      BY <1>1, <1>6, <2>1
    <2>. QED BY <1>1, <2>2, GotsAre
  <1>8. heard' \in [Nodes -> SUBSET Registry!Revisions]
    BY <1>1, <1>6
  <1>9. NodeTypes'
    BY <1>2, <1>3, <1>7, <1>8, IdleFits DEF NodeTypes
  <1>10. InUseListed'
    BY <1>2 DEF RegistryInv, InUseListed
  <1>11. CacheIsNewest'
    BY <1>1, <1>6 DEF CacheIsNewest
  <1>12. \A d \in RegistryCallers : CallerStands(d)'
    <2>1. /\ doing'[c] = Registry!Idle /\ steady'[c] = {}
          /\ \A d \in RegistryCallers : d # c => doing'[d] = doing[d] /\ steady'[d] = steady[d]
      BY <1>2, <1>3 DEF NodeTypes
    <2>2. CallerStands(c)'
      BY <2>1, IdleFits DEF CallerStands
    <2>3. ASSUME NEW d \in RegistryCallers, d # c PROVE CallerStands(d)'
      <3>1. CallerStands(d)
        BY DEF RegistryInv
      <3>. QED BY <1>2, <2>1, <2>3, <3>1, CallerKeeps
    <2>. QED BY <2>2, <2>3
  <1>. QED BY <1>9, <1>10, <1>11, <1>12 DEF RegistryInv

LEMMA RegistryStep == RegistryInv /\ Registry!Next => RegistryInv'
  BY ListKeepsRegistry, SelectKeepsRegistry, RefreshKeepsRegistry, StatsKeepRegistry, StoreKeepsRegistry,
     EditKeepsRegistry, StartKeepsRegistry DEF Registry!Next

LEMMA RegistryStutter == RegistryInv /\ UNCHANGED RegistryVars => RegistryInv'
  <1>. SUFFICES ASSUME RegistryInv, UNCHANGED RegistryVars PROVE RegistryInv'
    OBVIOUS
  <1>1. /\ UNCHANGED <<trusted, custom, saved, active, lock, doing, info, out, registry_moves, heard,
                      registry_listed, steady>>
        /\ Registry!Listed' = Registry!Listed
    BY DEF RegistryVars, Registry!Listed
  <1>2. NodeTypes' /\ InUseListed' /\ CacheIsNewest'
    BY <1>1 DEF RegistryInv, NodeTypes, InUseListed, CacheIsNewest
  <1>3. \A c \in RegistryCallers : CallerStands(c)'
    BY <1>1, CallerKeeps DEF RegistryInv
  <1>. QED BY <1>2, <1>3 DEF RegistryInv

LEMMA RegistryServes ==
    RegistryInv => /\ Registry!TypeOK /\ Registry!SelectedStaysListed
                   /\ Registry!InfoIsNewest /\ Registry!CountHonest
  <1>. SUFFICES ASSUME RegistryInv
                PROVE  /\ Registry!TypeOK /\ Registry!SelectedStaysListed
                       /\ Registry!InfoIsNewest /\ Registry!CountHonest
    OBVIOUS
  <1>1. Registry!TypeOK
    BY NodesAreTyped DEF RegistryInv
  <1>2. Registry!SelectedStaysListed /\ Registry!InfoIsNewest
    BY DEF RegistryInv, InUseListed, CacheIsNewest, Registry!SelectedStaysListed, Registry!InfoIsNewest
  <1>3. Registry!CountHonest
    BY DEF RegistryInv, CallerStands, Registry!CountHonest
  <1>. QED BY <1>1, <1>2, <1>3

(* A warm-up's store never drops what is cached of a node listed all along. *)
LEMMA StoreKeepsInfo ==
    ASSUME RegistryInv, Registry!Next, NEW c \in RegistryCallers,
           doing[c].pc = "store", doing'[c].pc = "idle", registry_moves' = registry_moves
    PROVE  steady[c] \cap DOMAIN info \subseteq DOMAIN info'
  <1>0. /\ registry_moves \in Nat /\ DOMAIN doing = RegistryCallers
        /\ steady[c] \subseteq Nodes /\ CallerStands(c)
    BY DEF RegistryInv, NodeTypes
  <1>1. ~Registry!Move
    BY <1>0 DEF Registry!Move
  <1>2. CASE Registry!store_info(c)
    <2>. DEFINE keep == IF doing[c].keep = {} THEN Nodes ELSE doing[c].keep
    <2>1. DOMAIN info' = (DOMAIN info \cup DOMAIN doing[c].got) \cap keep
      BY <1>2, StoreIs
    <2>2. steady[c] \subseteq keep
      BY <1>0 DEF CallerStands
    <2>. QED BY <2>1, <2>2
  <1>3. CASE \E d \in RegistryCallers : d # c /\ Registry!store_info(d)
    <2>1. doing'[c] = doing[c]
      BY <1>0, <1>3 DEF Registry!store_info
    <2>. QED BY <2>1
  <1>4. CASE \E d \in RegistryCallers :
               \/ Registry!list_mostro_nodes(d) \/ Registry!set_active_mostro_node(d)
               \/ Registry!refresh_mostro_node_info_cache(d) \/ Registry!relist(d)
               \/ Registry!fetch_mostro_node_stats(d)
    <2>1. info' = info
      BY <1>4 DEF Registry!list_mostro_nodes, Registry!set_active_mostro_node,
                  Registry!refresh_mostro_node_info_cache, Registry!relist, Registry!fetch_mostro_node_stats
    <2>. QED BY <2>1
  <1>. QED BY <1>1, <1>2, <1>3, <1>4
       DEF Registry!Next, Registry!add_custom_mostro_node, Registry!remove_custom_mostro_node,
           Registry!publish, Registry!rehydrate_active_mostro_node

------------------------------------------------------------------------------
(* The relay list: what happens to the rows.                                *)

LEMMA ListCardinality == \A S : List!Cardinality(S) = Cardinality(S)
  BY DEF List!Cardinality, Cardinality

LEMMA ListedIs ==
    ASSUME NEW u
    PROVE  u \in List!Listed <=> \E i \in 1 .. Len(rows) : Url(i) = u
  BY DEF List!Listed, Url

LEMMA SameRows ==
    ASSUME rows' = rows
    PROVE  /\ List!Listed' = List!Listed
           /\ raced \subseteq raced' /\ RowsOnce => RowsOnce'
  BY DEF List!Listed, RowsOnce, Url

LEMMA AppendIs ==
    ASSUME rows \in Seq(List!Rows), RowsOnce, NEW u \in Urls, u \notin List!Listed \/ u \in raced',
           raced \subseteq raced',
           NEW source \in List!Sources, rows' = Append(rows, List!Row(u, source))
    PROVE  /\ rows' \in Seq(List!Rows) /\ RowsOnce' /\ List!Listed' = List!Listed \cup {u}
           /\ \A j \in 1 .. Len(rows') : \/ rows'[j] = List!Row(u, source)
                                         \/ \E m \in 1 .. Len(rows) : rows'[j] = rows[m]
           /\ \A m \in 1 .. Len(rows) : m \in 1 .. Len(rows') /\ rows'[m] = rows[m]
  <1>. DEFINE n == Len(rows)
  <1>1. List!Row(u, source) \in List!Rows /\ List!Row(u, source).url = u
    BY DEF List!Row, List!Rows
  <1>2. /\ rows' \in Seq(List!Rows) /\ n \in Nat /\ Len(rows') = n + 1
        /\ \A j \in 1 .. n : rows'[j] = rows[j]
        /\ rows'[n + 1] = List!Row(u, source)
    BY <1>1
  <1>. HIDE DEF n
  <1>3. \A j \in 1 .. n + 1 : j \in 1 .. n \/ j = n + 1
    BY <1>2
  <1>4. \A i \in 1 .. n : rows[i].url # u \/ u \in raced'
    BY DEF List!Listed, n
  <1>5. RowsOnce'
    <2>1. rows' # <<>>
      BY <1>2
    <2>2. \A i, j \in 1 .. n + 1 : rows'[i].url = rows'[j].url /\ rows'[i].url \notin raced' => i = j
      BY <1>1, <1>2, <1>3, <1>4 DEF RowsOnce, Url, n
    <2>. QED BY <1>2, <2>1, <2>2 DEF RowsOnce, Url
  <1>6. List!Listed' = List!Listed \cup {u}
    <2>1. List!Listed' = {rows'[i].url : i \in 1 .. n + 1}
      BY <1>2 DEF List!Listed
    <2>2. List!Listed = {rows[i].url : i \in 1 .. n}
      BY DEF List!Listed, n
    <2>3. n + 1 \in 1 .. n + 1 /\ \A i \in 1 .. n : i \in 1 .. n + 1
      BY <1>2
    <2>. QED BY <1>1, <1>2, <1>3, <2>1, <2>2, <2>3
  <1>7. \A j \in 1 .. n + 1 : \/ rows'[j] = List!Row(u, source)
                              \/ \E m \in 1 .. n : rows'[j] = rows[m]
    BY <1>2, <1>3
  <1>8. \A m \in 1 .. n : m \in 1 .. n + 1
    BY <1>2
  <1>. QED BY <1>2, <1>5, <1>6, <1>7, <1>8 DEF n

(* A sequence without its i-th element.                                     *)
LEMMA JoinIs ==
    ASSUME NEW S, NEW s \in Seq(S), NEW i \in 1 .. Len(s), NEW a \in Seq(S), NEW b \in Seq(S),
           Len(a) = i - 1, \A j \in 1 .. i - 1 : a[j] = s[j],
           Len(b) = Len(s) - i, \A j \in 1 .. Len(s) - i : b[j] = s[i + j]
    PROVE  /\ a \o b \in Seq(S) /\ Len(a \o b) = Len(s) - 1
           /\ \A j \in 1 .. Len(s) - 1 : (a \o b)[j] = s[IF j < i THEN j ELSE j + 1]
  <1>0. Len(s) \in Nat /\ i \in Nat /\ i <= Len(s) /\ i >= 1
    OBVIOUS
  <1>1. a \in Seq(S) /\ Len(a) = i - 1 /\ \A j \in 1 .. i - 1 : a[j] = s[j]
    OBVIOUS
  <1>2. b \in Seq(S) /\ Len(b) = Len(s) - i /\ \A j \in 1 .. Len(s) - i : b[j] = s[i + j]
    OBVIOUS
  <1>3. /\ a \o b \in Seq(S) /\ Len(a \o b) = Len(a) + Len(b)
        /\ \A j \in 1 .. Len(a) + Len(b) : (a \o b)[j] = IF j <= Len(a) THEN a[j] ELSE b[j - Len(a)]
    BY <1>1, <1>2, ConcatProperties
  <1>4. Len(a) + Len(b) = Len(s) - 1
    BY <1>0, <1>1, <1>2
  <1>5. ASSUME NEW j \in 1 .. Len(s) - 1 PROVE (a \o b)[j] = s[IF j < i THEN j ELSE j + 1]
    <2>1. CASE j < i
      <3>1. j <= Len(a) /\ j \in 1 .. i - 1
        BY <1>0, <1>1, <2>1
      <3>. QED BY <1>1, <1>3, <1>4, <2>1, <3>1
    <2>2. CASE ~(j < i)
      <3>1. ~(j <= Len(a)) /\ j - (i - 1) \in 1 .. Len(s) - i /\ i + (j - (i - 1)) = j + 1
        BY <1>0, <1>1, <2>2
      <3>2. (a \o b)[j] = b[j - (i - 1)]
        BY <1>1, <1>3, <1>4, <3>1
      <3>3. b[j - (i - 1)] = s[j + 1]
        BY <1>2, <3>1
      <3>. QED BY <2>2, <3>2, <3>3
    <2>. QED BY <2>1, <2>2
  <1>. QED BY <1>3, <1>4, <1>5

Cut(s, i) == SubSeq(s, 1, i - 1) \o SubSeq(s, i + 1, Len(s))

LEMMA CutIs ==
    ASSUME NEW S, NEW s \in Seq(S), NEW i \in 1 .. Len(s)
    PROVE  /\ Cut(s, i) \in Seq(S) /\ Len(Cut(s, i)) = Len(s) - 1
           /\ \A j \in 1 .. Len(s) - 1 : Cut(s, i)[j] = s[IF j < i THEN j ELSE j + 1]
  <1>. DEFINE a == SubSeq(s, 1, i - 1)
              b == SubSeq(s, i + 1, Len(s))
  <1>1. a \in Seq(S) /\ Len(a) = i - 1 /\ \A j \in 1 .. i - 1 : a[j] = s[j]
    OBVIOUS
  <1>2. b \in Seq(S) /\ Len(b) = Len(s) - i /\ \A j \in 1 .. Len(s) - i : b[j] = s[i + j]
    OBVIOUS
  <1>3. Cut(s, i) = a \o b
    BY DEF Cut
  <1>. HIDE DEF a, b
  <1>4. /\ a \o b \in Seq(S) /\ Len(a \o b) = Len(s) - 1
        /\ \A j \in 1 .. Len(s) - 1 : (a \o b)[j] = s[IF j < i THEN j ELSE j + 1]
    BY <1>1, <1>2, JoinIs
  <1>. QED BY <1>3, <1>4, Zenon

LEMMA RemoveIs ==
    ASSUME rows \in Seq(List!Rows), RowsOnce, NEW i \in 1 .. Len(rows), Len(rows) > 1, rows' = Cut(rows, i),
           raced \subseteq raced'
    PROVE  /\ rows' \in Seq(List!Rows) /\ RowsOnce'
           /\ \A u : u # Url(i) => (u \in List!Listed' <=> u \in List!Listed)
           /\ Url(i) \notin raced' => Url(i) \notin List!Listed'
           /\ \A j \in 1 .. Len(rows') : \E m \in 1 .. Len(rows) : rows'[j] = rows[m]
  <1>. DEFINE n == Len(rows)
              at(j) == IF j < i THEN j ELSE j + 1
  <1>0. n \in Nat /\ i \in Nat /\ i <= n /\ i >= 1 /\ n > 1
    OBVIOUS
  <1>4. /\ rows' \in Seq(List!Rows) /\ Len(rows') = n - 1
        /\ \A j \in 1 .. n - 1 : rows'[j] = rows[at(j)]
    BY CutIs
  <1>5. \A j \in 1 .. n - 1 : rows'[j] = rows[at(j)]
    BY <1>4
  <1>6. /\ \A j \in 1 .. n - 1 : at(j) \in 1 .. n /\ at(j) # i
        /\ \A j, k \in 1 .. n - 1 : at(j) = at(k) => j = k
        /\ \A m \in 1 .. n : m # i => \E j \in 1 .. n - 1 : at(j) = m
    <2>1. \A m \in 1 .. n : m # i => \E j \in 1 .. n - 1 : at(j) = m
      <3>. SUFFICES ASSUME NEW m \in 1 .. n, m # i PROVE \E j \in 1 .. n - 1 : at(j) = m
        OBVIOUS
      <3>1. CASE m < i
        BY <1>0, <3>1
      <3>2. CASE m > i
        <4>1. m - 1 \in 1 .. n - 1 /\ at(m - 1) = m
          BY <1>0, <3>2
        <4>. QED BY <4>1
      <3>. QED BY <1>0, <3>1, <3>2
    <2>. QED BY <1>0, <2>1
  <1>. HIDE DEF at, n
  <1>7. RowsOnce'
    <2>1. rows' # <<>>
      <3>1. Len(rows') # 0 /\ Len(<<>>) = 0
        BY <1>0, <1>4
      <3>. QED BY <3>1
    <2>2. \A j, k \in 1 .. n - 1 : rows'[j].url = rows'[k].url /\ rows'[j].url \notin raced' => j = k
      <3>. SUFFICES ASSUME NEW j \in 1 .. n - 1, NEW k \in 1 .. n - 1, rows'[j].url = rows'[k].url,
                           rows'[j].url \notin raced'
                    PROVE  j = k
        OBVIOUS
      <3>1. Url(at(j)) = Url(at(k)) /\ at(j) \in 1 .. n /\ at(k) \in 1 .. n /\ Url(at(j)) \notin raced
        BY <1>5, <1>6 DEF Url
      <3>2. at(j) = at(k)
        BY <3>1 DEF RowsOnce, n
      <3>. QED BY <1>6, <3>2
    <2>. QED BY <1>4, <2>1, <2>2 DEF RowsOnce, Url
  <1>8. /\ \A u : u # Url(i) => (u \in List!Listed' <=> u \in List!Listed)
        /\ Url(i) \notin raced' => Url(i) \notin List!Listed'
    <2>1. List!Listed' = {rows'[j].url : j \in 1 .. n - 1}
      BY <1>4 DEF List!Listed
    <2>2. List!Listed = {rows[m].url : m \in 1 .. n}
      BY DEF List!Listed, n
    <2>3. \A u \in List!Listed' : u \in List!Listed /\ (u = Url(i) => u \in raced')
      <3>. SUFFICES ASSUME NEW j \in 1 .. n - 1
                    PROVE  rows'[j].url \in List!Listed /\ (rows'[j].url = Url(i) => rows'[j].url \in raced')
        BY <2>1
      <3>1. rows'[j].url = Url(at(j)) /\ at(j) \in 1 .. n /\ at(j) # i
        BY <1>5, <1>6 DEF Url
      <3>2. Url(at(j)) # Url(i) \/ Url(at(j)) \in raced
        BY <3>1 DEF RowsOnce, n
      <3>. QED BY <2>2, <3>1, <3>2 DEF Url
    <2>4. \A u \in List!Listed : u # Url(i) => u \in List!Listed'
      <3>. SUFFICES ASSUME NEW m \in 1 .. n, rows[m].url # Url(i) PROVE rows[m].url \in List!Listed'
        BY <2>2
      <3>1. PICK j \in 1 .. n - 1 : at(j) = m
        BY <1>6 DEF Url
      <3>. QED BY <1>5, <2>1, <3>1
    <2>. QED BY <2>3, <2>4
  <1>9. \A j \in 1 .. n - 1 : \E m \in 1 .. n : rows'[j] = rows[m]
    BY <1>5, <1>6
  <1>. QED BY <1>4, <1>7, <1>8, <1>9 DEF n

(* The rows a start reads: each active relay once, in some order.           *)
LEMMA ReadBackIs ==
    ASSUME NEW C \in SUBSET Urls, C # {}, rows' \in [1 .. List!Cardinality(C) -> List!RowsOf(C)],
           {rows'[i].url : i \in 1 .. Len(rows')} = C
    PROVE  /\ rows' \in Seq(List!Rows) /\ RowsOnce' /\ List!Listed' = C
  <1>. DEFINE N == Cardinality(C)
              f == [i \in 1 .. N |-> rows'[i].url]
  <1>1. IsFiniteSet(C) /\ N \in Nat
    BY FS_Subset, FS_CardinalityType, RelaysAssumption
  <1>2. rows' \in [1 .. N -> List!Rows]
    <2>1. rows' \in [1 .. N -> List!RowsOf(C)] /\ List!RowsOf(C) \subseteq List!Rows
      BY ListCardinality DEF List!RowsOf
    <2>. QED BY <2>1
  <1>. HIDE DEF N
  <1>3. rows' \in Seq(List!Rows) /\ Len(rows') = N
    BY <1>1, <1>2
  <1>4. List!Listed' = C
    BY DEF List!Listed
  <1>5. f \in Surjection(1 .. N, C)
    BY <1>3 DEF Surjection
  <1>6. IsFiniteSet(1 .. N) /\ Cardinality(1 .. N) = N
    BY <1>1, FS_Interval
  <1>7. f \in Injection(1 .. N, C)
    BY <1>5, <1>6, FS_Surjection DEF N
  <1>8. \A i, j \in 1 .. N : rows'[i].url = rows'[j].url => i = j
    BY <1>7 DEF Injection, IsInjective
  <1>9. rows' # <<>>
    BY <1>3, <1>4 DEF List!Listed
  <1>. QED BY <1>3, <1>4, <1>8, <1>9 DEF RowsOnce, Url

------------------------------------------------------------------------------
(* The relay list: the user's calls.                                        *)

LEMMA ListInitHolds == List!Init => ListInv
  <1>. USE RelaysAssumption
  <1>. SUFFICES ASSUME List!Init PROVE ListInv
    OBVIOUS
  <1>1. /\ rows \in Seq(List!Rows) /\ Len(rows) = 1 /\ rows[1].url = Default /\ rows[1].source = "Default"
    BY DEF List!Init, List!Row, List!Rows, List!Sources
  <1>2. user \in [at : {List!None, "unblacklist", "register", "push", "save",
                        "take", "blacklist", "drop", "forget"},
                  url : Urls, source : List!Sources \cup {List!None}] /\ user.at = List!None
    BY DEF List!Init, List!Idle
  <1>3. /\ sync \in [at : {List!None, "plan", "register", "push", "collect", "save"},
                     todo : SUBSET Urls, now : SUBSET Urls, added : SUBSET Urls, rows : SUBSET List!Rows]
        /\ sync = List!NoSync
    BY DEF List!Init, List!NoSync
  <1>4. stored \in [Urls -> List!Sources \cup {List!None, List!Blacklisted}] /\ stored[Default] = "Default"
    BY DEF List!Init, List!Sources
  <1>5. ListTypes
    BY <1>1, <1>2, <1>3, <1>4 DEF List!Init, ListTypes
  <1>6. List!Listed = {Default}
    BY <1>1 DEF List!Listed
  <1>7. RowsOnce
    <2>1. Len(rows) # Len(<<>>)
      BY <1>1
    <2>2. \A i \in 1 .. Len(rows) : i = 1
      BY <1>1
    <2>. QED BY <2>1, <2>2 DEF RowsOnce
  <1>8. Noted /\ CallKnows /\ RemovedStands
    BY <1>2 DEF Noted, CallKnows, RemovedStands, List!Init, List!None
  <1>9. SyncKnows
    BY <1>3 DEF SyncKnows, List!NoSync, List!None
  <1>10. AnnouncedFresh
    BY <1>1, <1>3 DEF AnnouncedFresh, List!Init, List!NoSync, List!None, Url
  <1>. QED BY <1>5, <1>7, <1>8, <1>9, <1>10 DEF ListInv

UserRecords == [at : {List!None, "unblacklist", "register", "push", "save",
                      "take", "blacklist", "drop", "forget"},
                url : Urls, source : List!Sources \cup {List!None}]

(* What the history of races adds: nothing leaves it but by a restart.      *)
Noting == /\ raced \subseteq raced' /\ raced' \subseteq raced \cup {user'.url}
          /\ Noted'

LEMMA NotingIs ==
    ASSUME raced' = raced \cup List!Racing'
    PROVE  Noting
  <1>1. List!Racing' \subseteq {user'.url}
    BY DEF List!Racing
  <1>2. user'.at # List!None /\ sync'.at # "plan" /\ user'.url \in Applied' => user'.url \in List!Racing'
    BY DEF List!Racing, Applied
  <1>. QED BY <1>1, <1>2 DEF Noting, Noted

(* A step of a call moves at most the relay the call is about.              *)
CallStep ==
    /\ sync' = sync /\ UNCHANGED <<list_seen, newest, fresh>> /\ Noting
    /\ rows' \in Seq(List!Rows) /\ RowsOnce'
    /\ client' \subseteq Urls /\ blacklist' \subseteq Urls /\ given' \subseteq Urls
    /\ stored' \in [Urls -> List!Sources \cup {List!None, List!Blacklisted}]
    /\ user' \in UserRecords
    /\ \A i \in 1 .. Len(rows') : rows'[i].source = "MostroDiscovered" => Fresh(rows'[i].url)
    /\ \A u \in Urls : stored'[u] = "MostroDiscovered" => Fresh(u)
    /\ \A u \in Urls : user.at = List!None \/ u # user.url =>
         (u \in List!Listed' <=> u \in List!Listed) /\ (u \in blacklist' <=> u \in blacklist)

LEMMA CallStepKeeps ==
    ASSUME ListInv, CallStep, CallKnows', RemovedStands'
    PROVE  ListInv'
  <1>1. ListTypes'
    <2>1. user'.url \in Urls
      BY DEF CallStep, UserRecords
    <2>2. raced' \subseteq Urls
      BY <2>1 DEF ListInv, ListTypes, CallStep, Noting
    <2>. QED BY <2>2 DEF ListInv, ListTypes, CallStep, UserRecords
  <1>2. SyncKnows'
    <2>1. /\ raced \subseteq raced' /\ sync' = sync
          /\ sync.todo \subseteq Urls /\ sync.added \subseteq Urls /\ \A r \in sync.rows : r.url \in Urls
      BY DEF ListInv, ListTypes, CallStep, Noting, List!Rows
    <2>2. ASSUME NEW u \in Applied, u \in Urls, sync.at # "plan", u \notin raced'
          PROVE  (u \in List!Listed' <=> u \in List!Listed) /\ (u \in blacklist' <=> u \in blacklist)
      <3>1. user.at = List!None \/ u # user.url
        BY <2>1, <2>2 DEF ListInv, Noted
      <3>. QED BY <2>2, <3>1 DEF CallStep
    <2>3. sync.at \in {"register", "push"} => sync.todo \cap (List!Listed' \cup blacklist') \subseteq raced'
      BY <2>1, <2>2 DEF ListInv, SyncKnows, Applied
    <2>4. sync.added \subseteq List!Listed' \cup raced'
      BY <2>1, <2>2 DEF ListInv, SyncKnows, Applied
    <2>5. \A r \in sync.rows : r.url \in List!Listed' \cup raced'
      BY <2>1, <2>2 DEF ListInv, SyncKnows, Applied
    <2>. QED BY <2>1, <2>3, <2>4, <2>5 DEF ListInv, SyncKnows
  <1>3. \A u : Fresh(u) => Fresh(u)'
    BY DEF CallStep, Fresh
  <1>4. AnnouncedFresh'
    BY <1>3 DEF ListInv, CallStep, AnnouncedFresh, Url
  <1>. QED BY <1>1, <1>2, <1>4 DEF ListInv, CallStep, Noting

LEMMA ListFacts ==
    ASSUME ListInv
    PROVE  /\ rows \in Seq(List!Rows) /\ RowsOnce
           /\ client \subseteq Urls /\ blacklist \subseteq Urls /\ given \subseteq Urls
           /\ stored \in [Urls -> List!Sources \cup {List!None, List!Blacklisted}]
           /\ user \in UserRecords /\ user.url \in Urls
           /\ \A i \in 1 .. Len(rows) : rows[i].source = "MostroDiscovered" => Fresh(rows[i].url)
           /\ \A u \in Urls : stored[u] = "MostroDiscovered" => Fresh(u)
           /\ List!Listed \subseteq Urls /\ \A i \in 1 .. Len(rows) : rows[i] \in List!Rows
           /\ Noted /\ CallKnows /\ RemovedStands
  <1>1. \A i \in 1 .. Len(rows) : rows[i] \in List!Rows
    BY DEF ListInv, ListTypes
  <1>2. List!Listed \subseteq Urls
    BY <1>1 DEF List!Listed, List!Rows
  <1>3. \A i \in 1 .. Len(rows) : rows[i].source = "MostroDiscovered" => Fresh(rows[i].url)
    BY DEF ListInv, AnnouncedFresh, Url
  <1>. QED BY <1>1, <1>2, <1>3 DEF ListInv, ListTypes, AnnouncedFresh, UserRecords

LEMMA AddKeepsList ==
    ASSUME ListInv, Noting, NEW u \in Urls, List!add_relay(u)
    PROVE  ListInv'
  <1>1. /\ user.at = List!None /\ u \notin List!Listed
        /\ user' = [at |-> "unblacklist", url |-> u, source |-> "UserAdded"]
        /\ given' = given \ {u} /\ raced \subseteq raced'
        /\ UNCHANGED <<rows, client, blacklist, stored, sync, list_seen, newest, fresh>>
        /\ List!Listed' = List!Listed
    BY SameRows DEF List!add_relay, List!heard, Noting
  <1>2. CallStep
    BY <1>1, ListFacts, SameRows DEF CallStep, UserRecords, List!Sources
  <1>3. CallKnows'
    BY <1>1 DEF CallKnows, List!None
  <1>4. RemovedStands'
    BY <1>1, ListFacts DEF RemovedStands
  <1>. QED BY <1>2, <1>3, <1>4, CallStepKeeps

LEMMA LiftKeepsList ==
    ASSUME ListInv, Noting, List!user_unblacklist \/ List!user_register \/ List!user_save
    PROVE  ListInv'
  <1>0. /\ user.at \in {"unblacklist", "register", "save"} /\ user.at # List!None
        /\ UNCHANGED <<rows, list_seen, newest, fresh, given, sync>> /\ List!Listed' = List!Listed
        /\ raced \subseteq raced'
    BY SameRows DEF List!user_unblacklist, List!user_register, List!user_save, List!heard, List!None, Noting
  <1>1. /\ user.source = "UserAdded" /\ user.url \in Urls
        /\ user.url \notin raced => user.url \notin given /\ (user.at # "save" => user.url \notin List!Listed)
    BY <1>0, ListFacts DEF CallKnows
  <1>2. CASE List!user_unblacklist \/ List!user_register
    <2>1. /\ stored' = stored /\ client' \subseteq Urls /\ blacklist' \subseteq Urls
          /\ user' = [user EXCEPT !.at = "register"] \/ user' = [user EXCEPT !.at = "push"]
          /\ \A u : u # user.url => (u \in blacklist' <=> u \in blacklist)
          /\ user.at # "save"
      BY <1>1, <1>2, ListFacts DEF List!user_unblacklist, List!user_register
    <2>2. /\ user' \in UserRecords /\ user'.at \in {"register", "push"}
          /\ user'.url = user.url /\ user'.source = user.source
      BY <2>1, ListFacts DEF UserRecords
    <2>3. CallStep
      BY <1>0, <1>1, <2>1, <2>2, ListFacts, SameRows DEF CallStep
    <2>4. CallKnows'
      BY <1>0, <1>1, <2>1, <2>2 DEF CallKnows
    <2>5. RemovedStands'
      BY <1>0, <1>1, <2>1, ListFacts DEF RemovedStands
    <2>. QED BY <2>3, <2>4, <2>5, CallStepKeeps
  <1>3. CASE List!user_save
    <2>1. /\ stored' = [stored EXCEPT ![user.url] = user.source] /\ user' = List!Idle
          /\ UNCHANGED <<client, blacklist>> /\ user.at = "save"
      BY <1>3 DEF List!user_save
    <2>2. user' \in UserRecords /\ user'.at = List!None
      BY <2>1, RelaysAssumption DEF UserRecords, List!Idle
    <2>3. /\ stored' \in [Urls -> List!Sources \cup {List!None, List!Blacklisted}]
          /\ stored'[user.url] = "UserAdded" /\ \A u \in Urls : u # user.url => stored'[u] = stored[u]
      BY <1>1, <2>1, ListFacts DEF List!Sources
    <2>4. CallStep
      BY <1>0, <1>1, <2>1, <2>2, <2>3, ListFacts, SameRows DEF CallStep
    <2>5. CallKnows'
      BY <2>2 DEF CallKnows, List!None
    <2>6. RemovedStands'
      BY <1>0, <1>1, <2>1, <2>3, ListFacts DEF RemovedStands
    <2>. QED BY <2>4, <2>5, <2>6, CallStepKeeps
  <1>. QED BY <1>2, <1>3

LEMMA PushKeepsList ==
    ASSUME ListInv, Noting, List!user_push
    PROVE  ListInv'
  <1>1. /\ user.at = "push" /\ user' = [user EXCEPT !.at = "save"]
        /\ rows' = Append(rows, List!Row(user.url, user.source)) /\ raced \subseteq raced'
        /\ UNCHANGED <<client, blacklist, stored, sync, list_seen, newest, fresh, given>>
    BY DEF List!user_push, List!heard, Noting
  <1>2. /\ user.at # List!None /\ user.source = "UserAdded" /\ user.url \in Urls
        /\ user.url \notin raced' => user.url \notin List!Listed /\ user.url \notin given
    BY <1>1, ListFacts DEF CallKnows, List!None
  <1>3. /\ user' \in UserRecords /\ user'.at = "save" /\ user'.url = user.url /\ user'.source = user.source
    BY <1>1, ListFacts DEF UserRecords
  <1>4. /\ rows' \in Seq(List!Rows) /\ RowsOnce' /\ List!Listed' = List!Listed \cup {user.url}
        /\ \A j \in 1 .. Len(rows') : \/ rows'[j] = List!Row(user.url, user.source)
                                      \/ \E m \in 1 .. Len(rows) : rows'[j] = rows[m]
    <2>1. user.source \in List!Sources
      BY <1>2 DEF List!Sources
    <2>. QED BY <1>1, <1>2, <2>1, ListFacts, AppendIs
  <1>5. \A i \in 1 .. Len(rows') : rows'[i].source = "MostroDiscovered" => Fresh(rows'[i].url)
    BY <1>2, <1>4, ListFacts DEF List!Row
  <1>6. CallStep
    BY <1>1, <1>2, <1>3, <1>4, <1>5, ListFacts DEF CallStep
  <1>7. CallKnows'
    BY <1>1, <1>2, <1>3 DEF CallKnows
  <1>8. RemovedStands'
    BY <1>1, <1>2, <1>4, ListFacts DEF RemovedStands
  <1>. QED BY <1>6, <1>7, <1>8, CallStepKeeps

LEMMA RemoveKeepsList ==
    ASSUME ListInv, Noting, NEW u \in Urls, List!remove_relay(u)
    PROVE  ListInv'
  <1>1. PICK i \in 1 .. Len(rows) : /\ rows[i].url = u
                                    /\ user' = [at |-> "take", url |-> u, source |-> rows[i].source]
    BY DEF List!remove_relay
  <1>2. /\ user.at = List!None /\ raced \subseteq raced'
        /\ UNCHANGED <<rows, client, blacklist, stored, sync, list_seen, newest, fresh, given>>
        /\ List!Listed' = List!Listed
    BY SameRows DEF List!remove_relay, List!heard, Noting
  <1>3. user' \in UserRecords /\ user'.at = "take" /\ user'.url = u /\ user'.source = rows[i].source
    BY <1>1, ListFacts DEF UserRecords, List!Rows
  <1>4. CallStep
    BY <1>2, <1>3, ListFacts, SameRows DEF CallStep
  <1>5. CallKnows'
    <2>1. u \in List!Listed
      BY <1>1 DEF List!Listed
    <2>2. u \notin raced => u \notin given
      BY <2>1, ListFacts DEF RemovedStands
    <2>. QED BY <1>1, <1>2, <1>3, <2>2 DEF CallKnows, Url
  <1>6. RemovedStands'
    BY <1>2, ListFacts DEF RemovedStands
  <1>. QED BY <1>4, <1>5, <1>6, CallStepKeeps

LEMMA TakeKeepsList ==
    ASSUME ListInv, Noting, List!user_take
    PROVE  ListInv'
  <1>1. /\ user.at = "take" /\ user.at # List!None /\ raced \subseteq raced'
        /\ user.url \notin raced => user.url \notin given
        /\ UNCHANGED <<client, blacklist, stored, sync, list_seen, newest, fresh, given>>
    BY ListFacts DEF List!user_take, List!heard, List!None, CallKnows, Noting
  <1>2. CASE user' = List!Idle /\ rows' = rows
    <2>1. user' \in UserRecords /\ user'.at = List!None /\ List!Listed' = List!Listed
      BY <1>2, SameRows, RelaysAssumption DEF UserRecords, List!Idle
    <2>2. CallStep
      BY <1>1, <1>2, <2>1, ListFacts, SameRows DEF CallStep, Noting
    <2>3. CallKnows'
      BY <2>1 DEF CallKnows, List!None
    <2>4. RemovedStands'
      BY <1>1, <2>1, ListFacts DEF RemovedStands
    <2>. QED BY <2>2, <2>3, <2>4, CallStepKeeps
  <1>3. ASSUME NEW i \in 1 .. Len(rows), Len(rows) > 1, rows[i].url = user.url, rows' = Cut(rows, i),
               user' = [user EXCEPT !.at = IF rows[i].source = "MostroDiscovered" THEN "blacklist" ELSE "drop"]
        PROVE  ListInv'
    <2>1. /\ rows' \in Seq(List!Rows) /\ RowsOnce'
          /\ \A u : u # user.url => (u \in List!Listed' <=> u \in List!Listed)
          /\ user.url \notin raced' => user.url \notin List!Listed'
          /\ \A j \in 1 .. Len(rows') : \E m \in 1 .. Len(rows) : rows'[j] = rows[m]
      BY <1>1, <1>3, ListFacts, RemoveIs DEF Url
    <2>2. user.url \notin raced => user.source = rows[i].source
      <3>. SUFFICES ASSUME user.url \notin raced PROVE user.source = rows[i].source
        OBVIOUS
      <3>1. PICK j \in 1 .. Len(rows) : rows[j].url = user.url /\ rows[j].source = user.source
        BY <1>1, ListFacts DEF CallKnows, Url
      <3>2. j = i
        BY <1>3, <3>1, ListFacts DEF RowsOnce, Url
      <3>. QED BY <3>1, <3>2
    <2>3. /\ user' \in UserRecords /\ user'.url = user.url /\ user'.source = user.source
          /\ user'.at \in {"blacklist", "drop"}
          /\ user'.at = "drop" /\ user.url \notin raced => user'.source # "MostroDiscovered"
      BY <1>3, <2>2, ListFacts DEF UserRecords
    <2>4. CallStep
      BY <1>1, <2>1, <2>3, ListFacts DEF CallStep, Noting
    <2>5. CallKnows'
      BY <1>1, <2>1, <2>3 DEF CallKnows
    <2>6. RemovedStands'
      BY <1>1, <2>1, ListFacts DEF RemovedStands
    <2>. QED BY <2>4, <2>5, <2>6, CallStepKeeps
  <1>4. CASE ~(Len(rows) <= 1 \/ user.url \notin List!Listed)
    <2>1. PICK i \in 1 .. Len(rows) :
              /\ rows[i].url = user.url
              /\ rows' = SubSeq(rows, 1, i - 1) \o SubSeq(rows, i + 1, Len(rows))
              /\ user' = [user EXCEPT !.at = IF rows[i].source = "MostroDiscovered"
                                             THEN "blacklist" ELSE "drop"]
      BY <1>4, Zenon DEF List!user_take
    <2>2. rows' = Cut(rows, i)
      BY <2>1, Zenon DEF Cut
    <2>3. Len(rows) > 1
      BY <1>4, ListFacts
    <2>. QED BY <1>3, <2>1, <2>2, <2>3
  <1>. QED BY <1>2, <1>4 DEF List!user_take

LEMMA DropKeepsList ==
    ASSUME ListInv, Noting, List!user_blacklist \/ List!user_drop \/ List!removal_effect
    PROVE  ListInv'
  <1>1. /\ user.at \in {"blacklist", "drop", "forget"} /\ user.at # List!None
        /\ UNCHANGED <<rows, list_seen, newest, fresh, sync>> /\ List!Listed' = List!Listed
        /\ raced \subseteq raced'
    BY SameRows DEF List!user_blacklist, List!user_drop, List!removal_effect, List!heard, List!None, Noting
  <1>2. /\ user.url \in Urls
        /\ user.url \notin raced => user.url \notin given /\ user.url \notin List!Listed
    BY <1>1, ListFacts DEF CallKnows
  <1>3. CASE List!user_blacklist
    <2>1. /\ user' = [user EXCEPT !.at = "drop"] /\ blacklist' = blacklist \cup {user.url}
          /\ UNCHANGED <<client, stored, given>>
      BY <1>3 DEF List!user_blacklist
    <2>2. user' \in UserRecords /\ user'.at = "drop" /\ user'.url = user.url
      BY <2>1, ListFacts DEF UserRecords
    <2>3. CallStep
      BY <1>1, <1>2, <2>1, <2>2, ListFacts, SameRows DEF CallStep
    <2>4. CallKnows'
      BY <1>1, <1>2, <2>1, <2>2 DEF CallKnows
    <2>5. RemovedStands'
      BY <1>1, <1>2, <2>1, ListFacts DEF RemovedStands
    <2>. QED BY <2>3, <2>4, <2>5, CallStepKeeps
  <1>4. CASE List!user_drop
    <2>1. /\ user' = [user EXCEPT !.at = "forget"] \/ user' = List!Idle
          /\ client' = client \ {user.url} /\ user.at = "drop"
          /\ UNCHANGED <<blacklist, stored, given>>
      BY <1>4 DEF List!user_drop
    <2>2. /\ user' \in UserRecords
          /\ user'.at = List!None \/ (user'.at = "forget" /\ user'.url = user.url /\ user'.source = user.source)
      BY <2>1, ListFacts, RelaysAssumption DEF UserRecords, List!Idle
    <2>3. CallStep
      BY <1>1, <1>2, <2>1, <2>2, ListFacts, SameRows DEF CallStep
    <2>4. CallKnows'
      BY <1>1, <1>2, <2>1, <2>2, ListFacts DEF CallKnows, List!None
    <2>5. RemovedStands'
      BY <1>1, <1>2, <2>1, ListFacts DEF RemovedStands
    <2>. QED BY <2>3, <2>4, <2>5, CallStepKeeps
  <1>5. CASE List!removal_effect
    <2>1. /\ user' = List!Idle /\ user.at = "forget" /\ UNCHANGED <<client, blacklist>>
          /\ \/ /\ user.source = "MostroDiscovered" /\ given' = given \cup {user.url}
                /\ stored' = [stored EXCEPT ![user.url] = List!Blacklisted]
             \/ /\ given' = given /\ stored' = [stored EXCEPT ![user.url] = List!None]
      BY <1>5 DEF List!removal_effect
    <2>2. user' \in UserRecords /\ user'.at = List!None
      BY <2>1, RelaysAssumption DEF UserRecords, List!Idle
    <2>3. /\ stored' \in [Urls -> List!Sources \cup {List!None, List!Blacklisted}]
          /\ \A u \in Urls : u # user.url => stored'[u] = stored[u]
          /\ stored'[user.url] \in {List!None, List!Blacklisted} /\ given' \subseteq Urls
          /\ user.url \in given' \ raced => stored'[user.url] = List!Blacklisted /\ user.url \in blacklist
      BY <1>1, <1>2, <2>1, ListFacts DEF CallKnows
    <2>4. CallStep
      BY <1>1, <1>2, <2>1, <2>2, <2>3, ListFacts, SameRows DEF CallStep, List!None, List!Blacklisted
    <2>5. CallKnows'
      BY <2>2 DEF CallKnows, List!None
    <2>6. RemovedStands'
      BY <1>1, <1>2, <2>1, <2>3, ListFacts DEF RemovedStands
    <2>. QED BY <2>4, <2>5, <2>6, CallStepKeeps
  <1>. QED BY <1>3, <1>4, <1>5

------------------------------------------------------------------------------
(* The relay list: the node's lists and the restart.                        *)

SyncRecords == [at : {List!None, "plan", "register", "push", "collect", "save"},
                todo : SUBSET Urls, now : SUBSET Urls, added : SUBSET Urls, rows : SUBSET List!Rows]

(* A step of a sync adds to the list, never the relay of a call but raced.  *)
SyncStep ==
    /\ user' = user /\ UNCHANGED <<blacklist, given>> /\ Noting
    /\ list_seen' \in 0 .. Len(Announced) /\ newest' = list_seen'
    /\ fresh' \subseteq 1 .. Len(Announced) /\ fresh \subseteq fresh'
    /\ rows' \in Seq(List!Rows) /\ RowsOnce' /\ client' \subseteq Urls
    /\ stored' \in [Urls -> List!Sources \cup {List!None, List!Blacklisted}]
    /\ sync' \in SyncRecords
    /\ \A i \in 1 .. Len(rows) : i \in 1 .. Len(rows') /\ rows'[i] = rows[i]
    /\ user.at # List!None /\ user.url \in List!Listed' => user.url \in List!Listed \cup raced

LEMMA SyncStepKeeps ==
    ASSUME ListInv, SyncStep, SyncKnows', RemovedStands', AnnouncedFresh'
    PROVE  ListInv'
  <1>1. ListTypes'
    <2>1. raced' \subseteq Urls
      BY ListFacts DEF ListInv, ListTypes, SyncStep, Noting
    <2>. QED BY <2>1 DEF ListInv, ListTypes, SyncStep, SyncRecords
  <1>2. CallKnows'
    <2>. SUFFICES ASSUME user.at # List!None, user.url \notin raced'
                  PROVE  /\ user.at \in {"unblacklist", "register", "push", "blacklist", "drop", "forget"} =>
                              user.url \notin List!Listed'
                         /\ user.at \in {"drop", "forget"} /\ user.source = "MostroDiscovered" =>
                              user.url \in blacklist
                         /\ user.at = "take" => \E i \in 1 .. Len(rows') :
                              rows'[i].url = user.url /\ rows'[i].source = user.source
                         /\ user.url \notin given
      BY ListFacts DEF CallKnows, SyncStep, Url
    <2>1. user.url \notin raced
      BY DEF SyncStep, Noting
    <2>2. user.at = "take" => \E i \in 1 .. Len(rows') : rows'[i].url = user.url /\ rows'[i].source = user.source
      BY <2>1, ListFacts DEF CallKnows, SyncStep, Url
    <2>. QED BY <2>1, <2>2, ListFacts DEF CallKnows, SyncStep
  <1>. QED BY <1>1, <1>2 DEF ListInv, SyncStep, Noting

LEMMA SyncFacts ==
    ASSUME ListInv
    PROVE  /\ sync \in SyncRecords /\ SyncKnows /\ AnnouncedFresh
           /\ list_seen \in 0 .. Len(Announced) /\ newest = list_seen /\ fresh \subseteq 1 .. Len(Announced)
           /\ \A r \in sync.rows : r \in List!Rows /\ r.url \in Urls /\ r.source \in List!Sources
           /\ Len(Announced) \in Nat /\ \A g \in 1 .. Len(Announced) : Announced[g] \subseteq Urls
  BY RelaysAssumption DEF ListInv, ListTypes, SyncRecords, List!Rows

LEMMA FreshGrows == ASSUME NEW u, fresh \subseteq fresh', Fresh(u) PROVE Fresh(u)'
  BY DEF Fresh

LEMMA NoteKeepsList ==
    ASSUME ListInv, Noting, NEW g \in 1 .. Len(Announced), List!note_relay_list_generation(g)
    PROVE  ListInv'
  <1>1. /\ sync.at = List!None /\ sync = List!NoSync /\ raced \subseteq raced'
        /\ UNCHANGED <<rows, client, blacklist, stored, user, given>> /\ List!Listed' = List!Listed
    BY SyncFacts, SameRows DEF List!note_relay_list_generation, SyncKnows, Noting
  <1>2. RemovedStands'
    BY <1>1, ListFacts DEF RemovedStands
  <1>3. CASE g > list_seen
    <2>1. /\ newest' = g /\ fresh' = fresh \cup {g} /\ list_seen' = g
          /\ sync' = [List!NoSync EXCEPT !.at = "plan", !.todo = Announced[g]]
      BY <1>3, SyncFacts DEF List!note_relay_list_generation, List!Hear
    <2>2. /\ sync' \in SyncRecords /\ sync'.at = "plan" /\ sync'.todo = Announced[g]
          /\ sync'.added = {} /\ sync'.rows = {}
      BY <2>1, SyncFacts DEF SyncRecords, List!NoSync
    <2>3. SyncStep
      BY <1>1, <2>1, <2>2, SyncFacts, ListFacts, SameRows DEF SyncStep
    <2>4. SyncKnows'
      BY <2>2 DEF SyncKnows, List!None
    <2>5. AnnouncedFresh'
      <3>1. \A u \in sync'.todo : Fresh(u)'
        BY <2>1, <2>2 DEF Fresh
      <3>2. fresh \subseteq fresh'
        BY <2>1
      <3>. QED BY <1>1, <2>2, <3>1, <3>2, FreshGrows, SyncFacts DEF AnnouncedFresh, Url
    <2>. QED BY <1>2, <2>3, <2>4, <2>5, SyncStepKeeps
  <1>4. CASE ~(g > list_seen)
    <2>1. UNCHANGED <<newest, fresh, list_seen, sync>>
      BY <1>4, SyncFacts DEF List!note_relay_list_generation, List!Hear, List!heard
    <2>2. SyncStep
      BY <1>1, <2>1, SyncFacts, ListFacts, SameRows DEF SyncStep
    <2>3. SyncKnows'
      BY <1>1, <2>1, SyncFacts DEF SyncKnows
    <2>4. AnnouncedFresh'
      BY <1>1, <2>1, SyncFacts DEF AnnouncedFresh, Url, Fresh
    <2>. QED BY <1>2, <2>2, <2>3, <2>4, SyncStepKeeps
  <1>. QED BY <1>3, <1>4

(* What goes on of a sync.                                                  *)
LEMMA ContinueIs ==
    ASSUME sync \in SyncRecords, sync.rows = {}, NEW todo \in SUBSET Urls, NEW added \in SUBSET Urls,
           List!Continue(todo, added)
    PROVE  /\ sync' \in SyncRecords /\ sync'.todo = todo /\ sync'.added = added /\ sync'.rows = {}
           /\ \/ sync'.at = "register"
              \/ todo = {} /\ added # {} /\ sync'.at = "collect"
              \/ todo = {} /\ added = {} /\ sync' = List!NoSync
  <1>1. CASE todo = {}
    <2>1. sync' = [sync EXCEPT !.todo = {}, !.now = {}, !.added = added,
                               !.at = IF added = {} THEN List!None ELSE "collect"]
      BY <1>1 DEF List!Continue
    <2>2. added = {} => sync' = List!NoSync
      BY <2>1 DEF SyncRecords, List!NoSync
    <2>. QED BY <1>1, <2>1, <2>2 DEF SyncRecords
  <1>2. CASE todo # {}
    <2>1. sync' = [sync EXCEPT !.todo = todo, !.now = {}, !.added = added, !.at = "register"]
      BY <1>2 DEF List!Continue
    <2>. QED BY <2>1 DEF SyncRecords
  <1>. QED BY <1>1, <1>2

LEMMA PlanKeepsList ==
    ASSUME ListInv, Noting, List!plan_relay_sync
    PROVE  ListInv'
  <1>1. /\ sync.at = "plan" /\ sync.rows = {} /\ raced \subseteq raced'
        /\ UNCHANGED <<rows, client, blacklist, stored, user, list_seen, newest, fresh, given>>
        /\ List!Listed' = List!Listed
    BY SyncFacts, SameRows DEF List!plan_relay_sync, List!heard, List!None, SyncKnows, Noting
  <1>. DEFINE todo == sync.todo \ (List!Listed \cup blacklist)
  <1>2. todo \in SUBSET Urls /\ todo \subseteq sync.todo /\ List!Continue(todo, {})
    BY SyncFacts DEF List!plan_relay_sync, SyncRecords
  <1>3. todo \cap (List!Listed \cup blacklist) = {}
    OBVIOUS
  <1>. HIDE DEF todo
  <1>4. /\ sync' \in SyncRecords /\ sync'.todo = todo /\ sync'.added = {} /\ sync'.rows = {}
        /\ sync'.at = "register" \/ sync' = List!NoSync
    BY <1>1, <1>2, SyncFacts, ContinueIs
  <1>5. SyncStep
    BY <1>1, <1>4, SyncFacts, ListFacts, SameRows DEF SyncStep
  <1>6. SyncKnows'
    BY <1>1, <1>3, <1>4 DEF SyncKnows, List!NoSync, List!None
  <1>7. RemovedStands'
    BY <1>1, ListFacts DEF RemovedStands
  <1>8. AnnouncedFresh'
    BY <1>1, <1>2, <1>4, SyncFacts DEF AnnouncedFresh, Url, Fresh
  <1>. QED BY <1>5, <1>6, <1>7, <1>8, SyncStepKeeps

LEMMA RegisterKeepsList ==
    ASSUME ListInv, Noting, List!sync_register
    PROVE  ListInv'
  <1>1. PICK u \in sync.todo : /\ client' = client \cup {u}
                               /\ sync' = [sync EXCEPT !.at = "push", !.now = {u}]
    BY DEF List!sync_register
  <1>2. /\ sync.at = "register" /\ sync.rows = {} /\ u \in Urls /\ raced \subseteq raced'
        /\ UNCHANGED <<rows, blacklist, stored, user, list_seen, newest, fresh, given>>
        /\ List!Listed' = List!Listed
    BY SyncFacts, SameRows DEF List!sync_register, List!heard, List!None, SyncKnows, SyncRecords, Noting
  <1>3. /\ sync' \in SyncRecords /\ sync'.at = "push" /\ sync'.now = {u} /\ sync'.todo = sync.todo
        /\ sync'.added = sync.added /\ sync'.rows = {}
    BY <1>1, <1>2, SyncFacts DEF SyncRecords
  <1>4. SyncStep
    BY <1>1, <1>2, <1>3, SyncFacts, ListFacts, SameRows DEF SyncStep
  <1>5. SyncKnows'
    BY <1>2, <1>3, SyncFacts DEF SyncKnows, List!None
  <1>6. RemovedStands'
    BY <1>2, ListFacts DEF RemovedStands
  <1>7. AnnouncedFresh'
    BY <1>2, <1>3, SyncFacts DEF AnnouncedFresh, Url, Fresh
  <1>. QED BY <1>4, <1>5, <1>6, <1>7, SyncStepKeeps

LEMMA SyncPushKeepsList ==
    ASSUME ListInv, Noting, List!sync_push
    PROVE  ListInv'
  <1>1. PICK u \in sync.now : /\ rows' = Append(rows, List!Row(u, "MostroDiscovered"))
                              /\ List!Continue(sync.todo \ {u}, sync.added \cup {u})
    BY DEF List!sync_push
  <1>2. /\ sync.at = "push" /\ sync.rows = {} /\ raced \subseteq raced'
        /\ UNCHANGED <<client, blacklist, stored, user, list_seen, newest, fresh, given>>
    BY SyncFacts DEF List!sync_push, List!heard, List!None, SyncKnows, Noting
  <1>3. /\ u \in sync.todo /\ u \in Urls /\ Fresh(u)
        /\ u \notin raced => u \notin List!Listed /\ u \notin blacklist /\ u \notin given
        /\ sync.todo \cap (List!Listed \cup blacklist) \subseteq raced /\ sync.added \subseteq List!Listed \cup raced
        /\ user.at # List!None /\ user.url = u => u \in raced
    <2>1. u \in sync.todo
      BY <1>2, SyncFacts DEF SyncKnows
    <2>2. u \in Urls
      BY <2>1, SyncFacts DEF SyncRecords
    <2>3. user.at # List!None /\ user.url = u => u \in raced
      BY <1>2, <2>1, ListFacts DEF Noted, Applied
    <2>. QED BY <1>2, <2>1, <2>2, <2>3, SyncFacts, ListFacts DEF SyncKnows, AnnouncedFresh, RemovedStands
  <1>4. /\ rows' \in Seq(List!Rows) /\ RowsOnce' /\ List!Listed' = List!Listed \cup {u}
        /\ \A j \in 1 .. Len(rows') : \/ rows'[j] = List!Row(u, "MostroDiscovered")
                                      \/ \E m \in 1 .. Len(rows) : rows'[j] = rows[m]
        /\ \A m \in 1 .. Len(rows) : m \in 1 .. Len(rows') /\ rows'[m] = rows[m]
    <2>1. "MostroDiscovered" \in List!Sources
      BY DEF List!Sources
    <2>. QED BY <1>1, <1>2, <1>3, <2>1, ListFacts, AppendIs
  <1>5. /\ sync.todo \ {u} \in SUBSET Urls /\ sync.added \cup {u} \in SUBSET Urls
    BY <1>3, SyncFacts DEF SyncRecords
  <1>6. /\ sync' \in SyncRecords /\ sync'.todo = sync.todo \ {u} /\ sync'.added = sync.added \cup {u}
        /\ sync'.rows = {} /\ sync'.at \in {"register", "collect"}
    BY <1>1, <1>2, <1>5, SyncFacts, ContinueIs
  <1>7. SyncStep
    BY <1>2, <1>3, <1>4, <1>6, SyncFacts, ListFacts DEF SyncStep
  <1>8. SyncKnows'
    BY <1>2, <1>3, <1>4, <1>6 DEF SyncKnows, List!None
  <1>9. RemovedStands'
    BY <1>2, <1>3, <1>4, ListFacts DEF RemovedStands
  <1>10. AnnouncedFresh'
    <2>1. \A v : Fresh(v)' <=> Fresh(v)
      BY <1>2 DEF Fresh
    <2>2. \A i \in 1 .. Len(rows') : rows'[i].source = "MostroDiscovered" => Fresh(rows'[i].url)
      BY <1>3, <1>4, ListFacts DEF List!Row
    <2>. QED BY <1>2, <1>6, <2>1, <2>2, SyncFacts DEF AnnouncedFresh, Url
  <1>. QED BY <1>7, <1>8, <1>9, <1>10, SyncStepKeeps

LEMMA CollectKeepsList ==
    ASSUME ListInv, Noting, List!sync_collect
    PROVE  ListInv'
  <1>. DEFINE found == {rows[i] : i \in {j \in 1 .. Len(rows) : rows[j].url \in sync.added}}
  <1>1. /\ sync.at = "collect" /\ raced \subseteq raced'
        /\ UNCHANGED <<rows, client, blacklist, stored, user, list_seen, newest, fresh, given>>
        /\ List!Listed' = List!Listed
        /\ sync' = IF found = {} THEN List!NoSync ELSE [sync EXCEPT !.at = "save", !.rows = found]
    BY SameRows DEF List!sync_collect, List!heard, Noting
  <1>2. found \subseteq List!Rows /\ \A r \in found : r.url \in List!Listed
    BY ListFacts DEF List!Listed
  <1>3. \A r \in found : r.source = "MostroDiscovered" => Fresh(r.url)
    BY ListFacts
  <1>. HIDE DEF found
  <1>4. /\ sync' \in SyncRecords /\ sync'.todo \subseteq sync.todo /\ sync'.added \subseteq sync.added
        /\ \/ sync' = List!NoSync /\ found = {} /\ sync'.rows = {}
           \/ sync'.at = "save" /\ sync'.rows = found
    BY <1>1, <1>2, SyncFacts DEF SyncRecords, List!NoSync
  <1>5. SyncStep
    BY <1>1, <1>4, SyncFacts, ListFacts, SameRows DEF SyncStep
  <1>6. SyncKnows'
    BY <1>1, <1>2, <1>4, SyncFacts DEF SyncKnows, List!None, List!NoSync
  <1>7. RemovedStands'
    BY <1>1, ListFacts DEF RemovedStands
  <1>8. AnnouncedFresh'
    <2>1. \A v : Fresh(v)' <=> Fresh(v)
      BY <1>1 DEF Fresh
    <2>. QED BY <1>1, <1>3, <1>4, <2>1, SyncFacts DEF AnnouncedFresh, Url
  <1>. QED BY <1>5, <1>6, <1>7, <1>8, SyncStepKeeps

LEMMA SaveKeepsList ==
    ASSUME ListInv, Noting, List!sync_save
    PROVE  ListInv'
  <1>1. PICK r \in sync.rows :
           /\ stored' = [stored EXCEPT ![r.url] = r.source]
           /\ sync' = IF sync.rows = {r} THEN List!NoSync ELSE [sync EXCEPT !.rows = @ \ {r}]
    BY DEF List!sync_save
  <1>2. /\ sync.at = "save" /\ raced \subseteq raced'
        /\ UNCHANGED <<rows, client, blacklist, user, list_seen, newest, fresh, given>>
        /\ List!Listed' = List!Listed
    BY SameRows DEF List!sync_save, List!heard, Noting
  <1>3. /\ r \in List!Rows /\ r.url \in Urls /\ r.source \in List!Sources
        /\ r.url \in given => r.url \in raced
        /\ r.source = "MostroDiscovered" => Fresh(r.url)
    BY SyncFacts, ListFacts DEF SyncKnows, RemovedStands, AnnouncedFresh
  <1>4. /\ stored' \in [Urls -> List!Sources \cup {List!None, List!Blacklisted}]
        /\ stored'[r.url] = r.source /\ \A u \in Urls : u # r.url => stored'[u] = stored[u]
    BY <1>1, <1>3, ListFacts
  <1>5. /\ sync' \in SyncRecords /\ sync'.todo \subseteq sync.todo /\ sync'.added \subseteq sync.added
        /\ sync'.rows = sync.rows \ {r}
        /\ sync' = List!NoSync \/ sync'.at = "save"
        /\ sync'.rows # {} => sync'.at = "save"
    <2>1. CASE sync.rows = {r}
      BY <1>1, <2>1 DEF SyncRecords, List!NoSync
    <2>2. CASE sync.rows # {r}
      BY <1>1, <1>2, <2>2, SyncFacts DEF SyncRecords
    <2>. QED BY <2>1, <2>2
  <1>6. SyncStep
    BY <1>2, <1>4, <1>5, SyncFacts, ListFacts, SameRows DEF SyncStep
  <1>7. SyncKnows'
    BY <1>2, <1>5, SyncFacts DEF SyncKnows, List!None, List!NoSync
  <1>8. RemovedStands'
    BY <1>2, <1>3, <1>4, ListFacts DEF RemovedStands
  <1>9. AnnouncedFresh'
    <2>1. \A v : Fresh(v)' <=> Fresh(v)
      BY <1>2 DEF Fresh
    <2>2. \A u \in Urls : stored'[u] = "MostroDiscovered" => Fresh(u)
      BY <1>3, <1>4, ListFacts
    <2>. QED BY <1>2, <1>5, <2>1, <2>2, SyncFacts DEF AnnouncedFresh, Url
  <1>. QED BY <1>6, <1>7, <1>8, <1>9, SyncStepKeeps

LEMMA RestoreKeepsList ==
    ASSUME ListInv, List!restore_persisted
    PROVE  ListInv'
  <1>. USE RelaysAssumption
  <1>. DEFINE A == List!Active
              C == IF A = {} THEN {Default} ELSE A
  <1>1. C # {} /\ C \subseteq Urls
    BY DEF List!Active
  <1>2. /\ user' = List!Idle /\ sync' = List!NoSync /\ list_seen' = 0 /\ newest' = 0
        /\ client' = C /\ blacklist' = {u \in Urls : stored[u] = List!Blacklisted}
        /\ given' = List!Standing /\ raced' = {} /\ fresh' = fresh
    BY DEF List!restore_persisted
  <1>3. /\ rows' \in [1 .. List!Cardinality(C) -> List!RowsOf(C)]
        /\ {rows'[i].url : i \in 1 .. Len(rows')} = C
        /\ \A i \in 1 .. Len(rows') : rows'[i].source = IF A = {} THEN "Default" ELSE stored[rows'[i].url]
    <2>1. PICK s \in [1 .. List!Cardinality(client') -> List!RowsOf(client')] :
            /\ {s[i].url : i \in 1 .. Len(s)} = client'
            /\ \A i \in 1 .. Len(s) : s[i].source = IF A = {} THEN "Default" ELSE stored[s[i].url]
            /\ rows' = s
      BY DEF List!restore_persisted
    <2>2. client' = C
      BY <1>2
    <2>3. \A i \in 1 .. Len(rows') : rows'[i].source = IF A = {} THEN "Default" ELSE stored[rows'[i].url]
      BY <2>1
    <2>. HIDE DEF C, A
    <2>. QED BY <2>1, <2>2, <2>3
  <1>4. /\ \A u : u \in List!Standing => u \in given /\ u \notin raced /\ u \notin C /\ stored[u] = List!Blacklisted
    <2>. SUFFICES ASSUME NEW u \in List!Standing PROVE u \in given \ raced /\ u \notin C /\ stored[u] = List!Blacklisted
      OBVIOUS
    <2>1. u \in given \ raced /\ (A = {} => u # Default)
      BY DEF List!Standing
    <2>2. stored[u] = List!Blacklisted
      BY <2>1, ListFacts DEF RemovedStands
    <2>3. u \notin A
      BY <2>2 DEF List!Active, List!Blacklisted, List!Sources
    <2>. QED BY <2>1, <2>2, <2>3
  <1>5. /\ stored' \in [Urls -> List!Sources \cup {List!None, List!Blacklisted}]
        /\ \A u \in Urls : stored'[u] = "MostroDiscovered" => stored[u] = "MostroDiscovered"
        /\ \A u \in Urls : stored[u] # List!None => stored' = stored
    BY ListFacts DEF List!restore_persisted, List!seed_default_relays, List!Sources
  <1>6. \A i \in 1 .. Len(rows') : rows'[i].source = "MostroDiscovered" => Fresh(rows'[i].url)
    <2>1. \A i \in 1 .. Len(rows') : rows'[i].url \in Urls
      BY <1>1, <1>3
    <2>. QED BY <1>3, <2>1, ListFacts
  <1>. HIDE DEF C, A
  <1>7. rows' \in Seq(List!Rows) /\ RowsOnce' /\ List!Listed' = C
    BY <1>1, <1>3, ReadBackIs
  <1>8. user' \in UserRecords /\ user'.at = List!None
    BY <1>2 DEF UserRecords, List!Idle
  <1>9. ListTypes'
    <2>1. sync' \in SyncRecords
      BY <1>2 DEF SyncRecords, List!NoSync
    <2>2. Len(Announced) \in Nat
      OBVIOUS
    <2>3. given' \subseteq Urls
      BY <1>2, <1>4, ListFacts
    <2>. QED BY <1>1, <1>2, <1>5, <1>7, <1>8, <2>1, <2>2, <2>3, ListFacts, SyncFacts
             DEF ListTypes, SyncRecords, UserRecords
  <1>10. Noted' /\ CallKnows'
    BY <1>8 DEF Noted, CallKnows, List!None
  <1>11. SyncKnows'
    BY <1>2 DEF SyncKnows, List!NoSync, List!None
  <1>12. RemovedStands'
    <2>1. List!Blacklisted # List!None
      BY DEF List!Blacklisted, List!None
    <2>. QED BY <1>2, <1>4, <1>5, <1>7, <2>1, ListFacts DEF RemovedStands
  <1>13. AnnouncedFresh'
    <2>1. \A v : Fresh(v)' <=> Fresh(v)
      BY <1>2 DEF Fresh
    <2>. QED BY <1>2, <1>5, <1>6, <2>1, ListFacts DEF AnnouncedFresh, Url, List!NoSync
  <1>. QED BY <1>7, <1>9, <1>10, <1>11, <1>12, <1>13 DEF ListInv

LEMMA ListStep == ListInv /\ List!Next => ListInv'
  <1>. SUFFICES ASSUME ListInv, List!Next PROVE ListInv'
    OBVIOUS
  <1>1. CASE List!Work /\ raced' = raced \cup List!Racing'
    <2>1. Noting
      BY <1>1, NotingIs
    <2>. QED BY <1>1, <2>1, AddKeepsList, LiftKeepsList, PushKeepsList, RemoveKeepsList, TakeKeepsList,
             DropKeepsList, NoteKeepsList, PlanKeepsList, RegisterKeepsList, SyncPushKeepsList,
             CollectKeepsList, SaveKeepsList
         DEF List!Work
  <1>. QED BY <1>1, RestoreKeepsList DEF List!Next

LEMMA ListStutter == ListInv /\ UNCHANGED ListVars => ListInv'
  <1>. SUFFICES ASSUME ListInv, UNCHANGED ListVars PROVE ListInv'
    OBVIOUS
  <1>1. /\ UNCHANGED <<rows, client, blacklist, stored, user, sync, list_seen, newest, fresh, given, raced>>
        /\ List!Listed' = List!Listed
    BY SameRows DEF ListVars
  <1>2. ListTypes' /\ RowsOnce' /\ Noted'
    BY <1>1 DEF ListInv, ListTypes, Noted, Applied, RowsOnce, Url
  <1>3. CallKnows' /\ SyncKnows' /\ RemovedStands'
    BY <1>1 DEF ListInv, CallKnows, SyncKnows, RemovedStands, Url
  <1>4. AnnouncedFresh'
    BY <1>1 DEF ListInv, AnnouncedFresh, Fresh, Url
  <1>. QED BY <1>2, <1>3, <1>4 DEF ListInv

LEMMA ListServes == ListInv => List!TypeOK /\ List!BackOnlyByRace /\ List!StaleListIgnored
  <1>. SUFFICES ASSUME ListInv PROVE List!TypeOK /\ List!BackOnlyByRace /\ List!StaleListIgnored
    OBVIOUS
  <1>1. List!TypeOK
    BY DEF ListInv, ListTypes, List!TypeOK
  <1>2. List!BackOnlyByRace
    BY DEF ListInv, RemovedStands, List!BackOnlyByRace, List!Blacklisted, List!Sources
  <1>3. List!StaleListIgnored
    BY DEF ListInv, AnnouncedFresh, Fresh, Url, List!StaleListIgnored
  <1>. QED BY <1>1, <1>2, <1>3

------------------------------------------------------------------------------
(* All parts.                                                               *)

LEMMA RelaysStart == MCInit => RelaysInv
  BY SubsInit, OnlineInit, PullInit, ListInitHolds, NodesInit, RatingInitHolds DEF MCInit, RelaysInv

LEMMA RelaysNext == RelaysInv /\ [MCNext]_MCvars => RelaysInv'
  <1>. SUFFICES ASSUME RelaysInv, [MCNext]_MCvars PROVE RelaysInv'
    OBVIOUS
  <1>1. part' = part /\ part \in Parts
    BY DEF RelaysInv, MCNext, MCvars
  <1>2. part = "subs" => SubsInv'
    <2>. SUFFICES ASSUME part = "subs" PROVE SubsInv'
      OBVIOUS
    <2>1. Next \/ UNCHANGED vars BY DEF MCNext, MCvars
    <2>. QED BY <2>1, SubsStep, SubsStutter DEF RelaysInv
  <1>3. part = "online" => OnlineInv'
    <2>. SUFFICES ASSUME part = "online" PROVE OnlineInv'
      OBVIOUS
    <2>1. Online!Next \/ UNCHANGED OnlineVars BY DEF MCNext, MCvars
    <2>. QED BY <2>1, OnlineStep, OnlineStutter DEF RelaysInv
  <1>4. part = "resync" => PullInv'
    <2>. SUFFICES ASSUME part = "resync" PROVE PullInv'
      OBVIOUS
    <2>1. Online!PullNext \/ UNCHANGED PullVars BY DEF MCNext, MCvars
    <2>. QED BY <2>1, PullStep, PullStutter DEF RelaysInv
  <1>5. part = "list" => ListInv'
    <2>. SUFFICES ASSUME part = "list" PROVE ListInv'
      OBVIOUS
    <2>1. List!Next \/ UNCHANGED ListVars BY DEF MCNext, MCvars
    <2>. QED BY <2>1, ListStep, ListStutter DEF RelaysInv
  <1>6. part = "nodes" => RegistryInv'
    <2>. SUFFICES ASSUME part = "nodes" PROVE RegistryInv'
      OBVIOUS
    <2>1. Registry!Next \/ UNCHANGED RegistryVars BY DEF MCNext, MCvars
    <2>. QED BY <2>1, RegistryStep, RegistryStutter DEF RelaysInv
  <1>7. part = "rating" => RatingInv'
    <2>. SUFFICES ASSUME part = "rating" PROVE RatingInv'
      OBVIOUS
    <2>1. Registry!RatingNext \/ UNCHANGED RatingVars BY DEF MCNext, MCvars
    <2>. QED BY <2>1, RatingStep, RatingStutter DEF RelaysInv
  <1>. QED BY <1>1, <1>2, <1>3, <1>4, <1>5, <1>6, <1>7 DEF RelaysInv

LEMMA RelaysKeep == MCSpec => []RelaysInv
  <1>. QED BY RelaysStart, RelaysNext, PTL DEF MCSpec

(* However relays come up, drop, refuse and close REQs, and whatever calls  *)
(* change the wanted filters meanwhile: no relay carries a REQ nobody       *)
(* wants, and a wanted one that an up relay lacks is still to be repaired   *)
(* (live_subs.rs: reconcile, the reconnect and CLOSED handling).            *)
THEOREM SubsAreSound == MCSpec => []SubsSound
  <1>1. RelaysInv => SubsSound
    <2>. SUFFICES ASSUME RelaysInv, part = "subs" PROVE TypeOK /\ NothingUnwanted /\ WantedIsRepaired
      BY DEF SubsSound
    <2>1. SubsInv /\ up \subseteq Relays
      BY DEF RelaysInv, SubsInv, TypeOK
    <2>. QED BY <2>1 DEF SubsInv, LackingIsRepaired, WantedIsRepaired
  <1>. QED BY <1>1, RelaysKeep, PTL

(* No Online goes by unserved, whatever is broadcast and misread; a resync  *)
(* never answers with an outcome that was ready before the call; however    *)
(* the steps of calls, list syncs and restarts mix, a relay the user        *)
(* removed comes back only if the removal and a list that names it were at  *)
(* work at once, and an older list never undoes a newer one (relay_pool.rs, *)
(* api/nostr.rs, resync.rs).                                                *)
THEOREM PoolIsSound == MCSpec => []PoolSound
  <1>1. RelaysInv => PoolSound
    <2>. SUFFICES ASSUME RelaysInv PROVE PoolSound
      OBVIOUS
    <2>1. part = "online" => Online!TypeOK /\ Online!OnlineIsServed /\ Online!ListenerUpToDate
      BY OnlineServes DEF RelaysInv, OnlineInv
    <2>2. part = "resync" => Online!PullTypes /\ Online!AnsweredAfterCall
      BY DEF RelaysInv, PullInv
    <2>3. part = "list" => List!TypeOK /\ List!BackOnlyByRace /\ List!StaleListIgnored
      BY ListServes DEF RelaysInv
    <2>. QED BY <2>1, <2>2, <2>3 DEF PoolSound
  <1>. QED BY <1>1, RelaysKeep, PTL

(* However callers select, list, refresh and edit nodes at once: the node   *)
(* in use stays on the list, what is kept of a node is its newest settings  *)
(* and a taken order is not counted as open; and of any number of calls a   *)
(* trade is rated once, one that failed leaving it to be tried again        *)
(* (mostro_nodes.rs, node_stats.rs, api/reputation.rs).                     *)
THEOREM NodesAreSound == MCSpec => []NodesSound
  <1>1. RelaysInv => NodesSound
    <2>. SUFFICES ASSUME RelaysInv PROVE NodesSound
      OBVIOUS
    <2>1. part = "nodes" => /\ Registry!TypeOK /\ Registry!SelectedStaysListed
                            /\ Registry!InfoIsNewest /\ Registry!CountHonest
      BY RegistryServes DEF RelaysInv
    <2>2. part = "rating" => Registry!RatingTypes /\ Registry!RatedOnce /\ Registry!FailedCanRetry
      BY RatingServes DEF RelaysInv, RatingInv
    <2>. QED BY <2>1, <2>2 DEF NodesSound
  <1>. QED BY <1>1, RelaysKeep, PTL

(* A warm-up never drops what is cached of a node that was on the list from *)
(* its answer on (node_stats.rs: "must not lose its cached event").         *)
THEOREM InfoIsKept == MCSpec => Registry!ListedKeepsInfo
  <1>. DEFINE Kept == \A c \in RegistryCallers :
                        doing[c].pc = "store" /\ doing'[c].pc = "idle" /\ registry_moves' = registry_moves
                          => steady[c] \cap DOMAIN info \subseteq DOMAIN info'
  <1>1. RelaysInv /\ [MCNext]_MCvars => [Kept]_(Registry!vars)
    <2>. SUFFICES ASSUME RelaysInv, [MCNext]_MCvars, Registry!vars' # Registry!vars PROVE Kept
      OBVIOUS
    <2>1. ~UNCHANGED RegistryVars
      BY DEF RegistryVars, Registry!vars
    <2>2. part = "nodes" /\ Registry!Next
      BY <2>1 DEF MCNext, MCvars
    <2>3. RegistryInv
      BY <2>2 DEF RelaysInv
    <2>4. ASSUME NEW c \in RegistryCallers,
                 doing[c].pc = "store", doing'[c].pc = "idle", registry_moves' = registry_moves
          PROVE  steady[c] \cap DOMAIN info \subseteq DOMAIN info'
      BY <2>2, <2>3, <2>4, StoreKeepsInfo
    <2>. QED BY <2>4
  <1>2. MCSpec => [][Kept]_(Registry!vars)
    BY <1>1, RelaysKeep, PTL DEF MCSpec
  <1>. QED BY <1>2 DEF Registry!ListedKeepsInfo
=============================================================================
