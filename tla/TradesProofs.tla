---------------------------- MODULE TradesProofs ----------------------------
(***************************************************************************)
(* Proofs about the parts of a trade: the d-tag watcher, the key counter,  *)
(* the session, the copy of the order book, the dispute and the chats, for *)
(* any number of takes, calls, nodes, orders, changes, solvers, messages   *)
(* and restarts.                                                           *)
(***************************************************************************)
EXTENDS MCTrades, FiniteSets, FiniteSetTheorems, TLAPS

(***************************************************************************)
(* The single-order watcher.                                               *)
(***************************************************************************)
Stage(g) == watch_task[g].stage

(* The order lock: a take under way still has a generation to hand out,    *)
(* and a release that took the claim keeps it until the REQ is closed.     *)
WatchLocks == /\ lock = "take" => gen < MaxGen
              /\ owned => lock = "release" /\ claim = 0
              /\ releases <= ends

(* While no claim changed hands in transit: only the owner opens the REQ,  *)
(* nobody owns it while it is closed, and it is free for who will open it. *)
OwnerOnly(g) ==
    /\ Stage(g) \in {"spawned", "opening"} => claim = g
    /\ Stage(g) = "closing" => claim = 0
    /\ claim = g => Stage(g) \in {"spawned", "opening", "listening", "leaving"}
    /\ Stage(g) = "spawned" /\ ~watch_task[g].replaced => req = Watch!None
    /\ Watch!Served(g)

WatchInv == /\ Watch!TypeOK /\ WatchLocks /\ Watch!ReqHasOwner
            /\ raced \/ \A g \in Watch!Gens : OwnerOnly(g)

WatchState == <<row, node, lock, claim, gen, watch_task, req, releases, owned, switches, ends, raced>>
TaskType == [stage : Watch!Stages, replaced : BOOLEAN, watched : Nodes]

(* A step of one task. *)
LEMMA TaskIs ==
    ASSUME WatchInv, NEW g \in Watch!Gens, NEW s \in Watch!Stages, Watch!Go(g, s)
    PROVE  /\ watch_task' \in [Watch!Gens -> TaskType]
           /\ watch_task'[g] = [watch_task[g] EXCEPT !.stage = s] /\ Stage(g)' = s
           /\ watch_task'[g].replaced = watch_task[g].replaced
           /\ watch_task'[g].watched = watch_task[g].watched
           /\ \A h \in Watch!Gens \ {g} : watch_task'[h] = watch_task[h]
<1>1. watch_task \in [Watch!Gens -> TaskType]
  BY DEF WatchInv, Watch!TypeOK, TaskType
<1>2. watch_task' = [watch_task EXCEPT ![g].stage = s]
  BY DEF Watch!Go
<1> QED
  BY <1>1, <1>2 DEF TaskType, Stage

LEMMA TakingKeeps == WatchInv /\ Watch!Taking => WatchInv'
<1> SUFFICES ASSUME WatchInv, Watch!Taking PROVE WatchInv'
  OBVIOUS
<1> USE DEF WatchInv
<1>1. CASE Watch!persist_confirmed_take
  <2>1. /\ lock = "free" /\ gen < MaxGen /\ lock' = "take" /\ row' = "live"
        /\ UNCHANGED <<node, claim, gen, watch_task, req, releases, owned, switches, ends, raced>>
    BY <1>1 DEF Watch!persist_confirmed_take
  <2>2. WatchLocks' /\ Watch!TypeOK'
    BY <2>1 DEF WatchLocks, Watch!TypeOK
  <2> QED
    BY <2>1, <2>2 DEF Watch!ReqHasOwner, OwnerOnly, Watch!Served, Watch!At, Watch!Current, Stage
<1>2. CASE Watch!subscribe_single_order
  <2>0. /\ gen \in Nat /\ gen < MaxGen /\ MaxGen \in Nat /\ watch_task \in [Watch!Gens -> TaskType]
        /\ claim \in 0 .. gen /\ ~owned
    BY <1>2, TradesAssumption
       DEF Watch!TypeOK, WatchLocks, TaskType, Watch!subscribe_single_order
  <2> PICK g \in Watch!Gens : g = gen + 1
    BY <2>0 DEF Watch!Gens
  <2>1. /\ lock = "take" /\ gen' = g /\ claim' = g /\ raced' = (raced \/ Watch!InTransit)
        /\ watch_task' = [watch_task EXCEPT ![g].stage = "spawned", ![g].replaced = claim # 0]
        /\ lock' = "free"
        /\ UNCHANGED <<row, node, req, releases, owned, switches, ends>>
    BY <1>2 DEF Watch!subscribe_single_order
  <2>2. /\ watch_task \in [Watch!Gens -> TaskType] /\ claim \in 0 .. gen /\ ~owned
    BY <2>0
  <2>3. g \in 0 .. MaxGen /\ g # 0 /\ g \in Nat
    BY <2>0 DEF Watch!Gens
  <2>4. /\ watch_task' \in [Watch!Gens -> TaskType]
        /\ Stage(g)' = "spawned" /\ watch_task'[g].replaced = (claim # 0)
        /\ \A h \in Watch!Gens \ {g} : watch_task'[h] = watch_task[h]
    <3> DEFINE new == [watch_task[g] EXCEPT !.stage = "spawned", !.replaced = (claim # 0)]
    <3>1. watch_task[g] \in TaskType
      BY <2>2, <2>3
    <3>2. (claim # 0) \in BOOLEAN
      OBVIOUS
    <3>3. new \in TaskType /\ new.stage = "spawned" /\ new.replaced = (claim # 0)
      BY <3>1, <3>2 DEF TaskType, Watch!Stages
    <3>4. watch_task' = [watch_task EXCEPT ![g] = new]
      BY <2>1, <2>2, <2>3, <3>1
    <3> HIDE DEF new
    <3>5. watch_task'[g] = new
      BY <2>2, <2>3, <3>4
    <3>6. watch_task' \in [Watch!Gens -> TaskType]
      BY <2>2, <2>3, <3>3, <3>4
    <3>7. \A h \in Watch!Gens \ {g} : watch_task'[h] = watch_task[h]
      BY <2>2, <2>3, <3>4
    <3>8. Stage(g)' = watch_task'[g].stage
      BY DEF Stage
    <3> QED
      BY <3>3, <3>5, <3>6, <3>7, <3>8
  <2>5. Watch!TypeOK'
    <3>1. claim' \in 0 .. gen' /\ gen' \in 0 .. MaxGen
      BY <2>1, <2>2, <2>3
    <3>2. raced' \in BOOLEAN
      BY <2>1 DEF Watch!TypeOK, Watch!InTransit
    <3> QED
      BY <2>1, <2>4, <3>1, <3>2 DEF Watch!TypeOK, TaskType
  <2>6. WatchLocks' /\ Watch!ReqHasOwner'
    BY <2>1, <2>2, <2>3 DEF WatchLocks, Watch!ReqHasOwner
  <2>7. ASSUME ~raced' PROVE \A h \in Watch!Gens : OwnerOnly(h)'
    <3>1. ~raced /\ \A h \in Watch!Gens : Stage(h) \notin {"spawned", "opening", "closing"}
      BY <2>1, <2>7 DEF Watch!InTransit, Stage, Watch!TypeOK
    <3>2. claim = 0 => req = Watch!None
      BY <2>2, <3>1 DEF Watch!ReqHasOwner, Watch!At, Stage
    <3>3. OwnerOnly(g)'
      <4>1. /\ claim' = g /\ Stage(g)' = "spawned" /\ req' = req
            /\ watch_task'[g].replaced = (claim # 0)
        BY <2>1, <2>4
      <4>2. ~watch_task'[g].replaced => req' = Watch!None
        BY <3>2, <4>1
      <4> QED
        BY <4>1, <4>2, <2>3 DEF OwnerOnly, Watch!Served, Watch!At, Watch!Current, Stage
    <3>4. ASSUME NEW h \in Watch!Gens \ {g} PROVE OwnerOnly(h)'
      <4>1. claim' # h /\ watch_task'[h] = watch_task[h]
        BY <2>1, <2>4
      <4> QED
        BY <3>1, <4>1 DEF OwnerOnly, Watch!Served, Watch!At, Watch!Current, Stage
    <3>5. TAKE h \in Watch!Gens
    <3>6. CASE h = g
      BY <3>3, <3>6
    <3>7. CASE h # g
      BY <3>4, <3>7
    <3> QED
      BY <3>6, <3>7
  <2> QED
    BY <2>5, <2>6, <2>7
<1> QED
  BY <1>1, <1>2 DEF Watch!Taking

LEMMA EndingKeeps == WatchInv /\ Watch!Ending => WatchInv'
<1> SUFFICES ASSUME WatchInv, Watch!Ending PROVE WatchInv'
  OBVIOUS
<1> USE DEF WatchInv
<1>1. /\ ends < MaxEnds /\ ends' = ends + 1 /\ releases' = releases + 1 /\ row' \in {"over", row}
      /\ UNCHANGED <<node, lock, claim, gen, watch_task, req, owned, switches, raced>>
  BY DEF Watch!Ending, Watch!trade_ends, Watch!terminal_replayed
<1>2. WatchLocks' /\ Watch!TypeOK'
  <2>1. releases' \in 0 .. MaxEnds /\ ends' \in 0 .. MaxEnds /\ releases' <= ends'
    BY <1>1, TradesAssumption DEF Watch!TypeOK, WatchLocks
  <2> QED
    BY <1>1, <2>1 DEF WatchLocks, Watch!TypeOK
<1> QED
  BY <1>1, <1>2 DEF Watch!ReqHasOwner, OwnerOnly, Watch!Served, Watch!At, Watch!Current, Stage

LEMMA ReleasingKeeps == WatchInv /\ Watch!Releasing => WatchInv'
<1> SUFFICES ASSUME WatchInv, Watch!Releasing PROVE WatchInv'
  OBVIOUS
<1> USE DEF WatchInv
<1>0. releases \in 0 .. MaxEnds /\ ends \in 0 .. MaxEnds /\ claim \in 0 .. gen /\ gen \in 0 .. MaxGen
      /\ MaxEnds \in Nat /\ MaxGen \in Nat
  BY TradesAssumption DEF Watch!TypeOK
<1>1. CASE Watch!claim_finished_trade_release
  <2>1. /\ lock = "free" /\ releases > 0 /\ releases' = releases - 1
        /\ UNCHANGED <<row, node, gen, watch_task, req, switches, ends>>
        /\ \/ /\ lock' = "release" /\ owned' = TRUE /\ claim' = 0
              /\ raced' = (raced \/ Watch!InTransit)
           \/ UNCHANGED <<lock, owned, claim, raced>>
    BY <1>1 DEF Watch!claim_finished_trade_release
  <2>2. /\ releases' \in 0 .. MaxEnds /\ releases' <= ends' /\ claim' \in 0 .. gen'
        /\ raced' \in BOOLEAN
    <3>1. releases' \in 0 .. MaxEnds /\ releases' <= ends' /\ claim' \in 0 .. gen'
      BY <1>0, <2>1 DEF WatchLocks
    <3>2. raced' \in BOOLEAN
      BY <2>1 DEF Watch!TypeOK, Watch!InTransit
    <3> QED
      BY <3>1, <3>2
  <2>3. Watch!TypeOK'
    BY <2>1, <2>2 DEF Watch!TypeOK
  <2>4. WatchLocks'
    BY <2>1, <2>2 DEF WatchLocks
  <2>5. Watch!ReqHasOwner'
    BY <2>1 DEF Watch!ReqHasOwner, Watch!At
  <2>6. ASSUME ~raced', NEW h \in Watch!Gens PROVE OwnerOnly(h)'
    <3>1. ~raced /\ watch_task' = watch_task /\ req' = req
      BY <2>1, <2>6 DEF Watch!TypeOK
    <3>2. CASE claim' = 0 /\ ~Watch!InTransit
      <4>1. h # 0 /\ Stage(h) \notin {"spawned", "opening", "closing"}
        BY <3>2 DEF Watch!InTransit, Stage, Watch!Gens
      <4> QED
        BY <3>1, <3>2, <4>1 DEF OwnerOnly, Watch!Served, Watch!At, Watch!Current, Stage
    <3>3. CASE claim' = claim
      BY <3>1, <3>3 DEF OwnerOnly, Watch!Served, Watch!At, Watch!Current, Stage
    <3> QED
      BY <2>1, <2>6, <3>2, <3>3
  <2> QED
    BY <2>3, <2>4, <2>5, <2>6
<1>2. CASE Watch!close_released
  <2>1. /\ owned /\ req' = Watch!None /\ owned' = FALSE /\ lock' = "free" /\ claim = 0
        /\ UNCHANGED <<row, node, claim, gen, watch_task, releases, switches, ends, raced>>
    BY <1>2 DEF Watch!close_released, WatchLocks
  <2>2. Watch!TypeOK' /\ WatchLocks' /\ Watch!ReqHasOwner'
    BY <2>1 DEF Watch!TypeOK, WatchLocks, Watch!ReqHasOwner
  <2>3. ASSUME ~raced', NEW h \in Watch!Gens PROVE OwnerOnly(h)'
    <3>1. h # 0 /\ OwnerOnly(h) /\ claim' = 0 /\ watch_task' = watch_task
      BY <2>1, <2>3 DEF Watch!Gens
    <3> QED
      BY <2>1, <3>1 DEF OwnerOnly, Watch!Served, Watch!At, Watch!Current, Stage
  <2> QED
    BY <2>2, <2>3
<1> QED
  BY <1>1, <1>2 DEF Watch!Releasing

LEMMA SwitchKeeps == ASSUME WatchInv, NEW n \in Nodes, Watch!set_active_node(n) PROVE WatchInv'
<1> USE DEF WatchInv
<1>1. /\ switches' = switches + 1 /\ switches < MaxSwitches /\ node' = n
      /\ UNCHANGED <<row, lock, claim, gen, watch_task, req, releases, owned, ends, raced>>
  BY DEF Watch!set_active_node
<1>2. switches' \in 0 .. MaxSwitches
  BY <1>1, TradesAssumption DEF Watch!TypeOK
<1>3. Watch!TypeOK' /\ WatchLocks'
  BY <1>1, <1>2 DEF WatchLocks, Watch!TypeOK
<1> QED
  BY <1>1, <1>3 DEF Watch!ReqHasOwner, OwnerOnly, Watch!Served, Watch!At, Watch!Current, Stage

(* What another task's step may not disturb: the claim and the REQ may go,  *)
(* but only when the task that steps owned them.                            *)
LEMMA OthersKeep ==
    ASSUME NEW g \in Watch!Gens, NEW h \in Watch!Gens \ {g}, OwnerOnly(h),
           watch_task'[h] = watch_task[h],
           \/ UNCHANGED <<claim, req>>
           \/ claim' = 0 /\ claim = g /\ UNCHANGED req
           \/ claim' = claim /\ claim \in {0, g}
    PROVE  OwnerOnly(h)'
<1>1. h # 0 /\ h # g
  BY DEF Watch!Gens
<1>2. CASE UNCHANGED <<claim, req>>
  BY <1>2 DEF OwnerOnly, Watch!Served, Watch!At, Watch!Current, Stage
<1>3. CASE claim # h /\ claim' # h
  BY <1>1, <1>3 DEF OwnerOnly, Watch!Served, Watch!At, Watch!Current, Stage
<1> QED
  BY <1>1, <1>2, <1>3

(* A task's step that does not touch the claim, and takes the task from    *)
(* listening to leaving.                                                    *)
LEMMA LeavingKeeps ==
    ASSUME WatchInv, NEW g \in Watch!Gens, Stage(g) = "listening", Watch!Go(g, "leaving"),
           UNCHANGED <<row, node, lock, claim, gen, req, releases, owned, switches, ends, raced>>
    PROVE  WatchInv'
<1>1. "leaving" \in Watch!Stages
  BY DEF Watch!Stages
<1>2. /\ watch_task' \in [Watch!Gens -> TaskType] /\ Stage(g)' = "leaving"
      /\ \A h \in Watch!Gens \ {g} : watch_task'[h] = watch_task[h]
  BY <1>1, TaskIs
<1> USE DEF WatchInv
<1>3. Watch!TypeOK' /\ WatchLocks'
  BY <1>2 DEF WatchLocks, Watch!TypeOK, TaskType
<1>4. Watch!ReqHasOwner'
  <2>1. ASSUME NEW h \in Watch!Gens, Watch!At(h, "closing") PROVE Watch!At(h, "closing")'
    <3>1. h # g
      BY <2>1 DEF Watch!At, Stage
    <3> QED
      BY <1>2, <2>1, <3>1 DEF Watch!At
  <2> QED
    BY <2>1 DEF Watch!ReqHasOwner
<1>5. ASSUME ~raced' PROVE \A h \in Watch!Gens : OwnerOnly(h)'
  <2>1. TAKE h \in Watch!Gens
  <2>2. CASE h = g
    BY <1>2, <1>5, <2>2 DEF OwnerOnly, Watch!Served, Watch!At, Watch!Current, Stage
  <2>3. CASE h # g
    BY <1>2, <1>5, <2>3, OthersKeep
  <2> QED
    BY <2>2, <2>3
<1> QED
  BY <1>3, <1>4, <1>5

LEMMA StartKeeps == ASSUME WatchInv, NEW g \in Watch!Gens, Watch!start(g) PROVE WatchInv'
<1> USE DEF WatchInv
<1> DEFINE new == [watch_task[g] EXCEPT !.stage = "opening", !.watched = node]
<1>1. /\ Stage(g) = "spawned" /\ watch_task' = [watch_task EXCEPT ![g].stage = "opening", ![g].watched = node]
      /\ UNCHANGED <<row, node, lock, claim, gen, req, releases, owned, switches, ends, raced>>
  BY DEF Watch!start, Watch!At, Stage
<1>2. watch_task \in [Watch!Gens -> TaskType] /\ watch_task[g] \in TaskType /\ node \in Nodes
  BY DEF Watch!TypeOK, TaskType
<1>3. new \in TaskType /\ new.stage = "opening" /\ new.replaced = watch_task[g].replaced
  BY <1>2 DEF TaskType, Watch!Stages
<1>4. watch_task' = [watch_task EXCEPT ![g] = new]
  BY <1>1, <1>2
<1> HIDE DEF new
<1>5. /\ watch_task' \in [Watch!Gens -> TaskType] /\ watch_task'[g] = new
      /\ \A h \in Watch!Gens \ {g} : watch_task'[h] = watch_task[h]
  BY <1>2, <1>3, <1>4
<1>6. Watch!TypeOK' /\ WatchLocks'
  BY <1>1, <1>5 DEF WatchLocks, Watch!TypeOK, TaskType
<1>7. Watch!ReqHasOwner'
  <2>1. ASSUME NEW h \in Watch!Gens, Watch!At(h, "closing") PROVE Watch!At(h, "closing")'
    <3>1. h # g
      BY <1>1, <2>1 DEF Watch!At, Stage
    <3> QED
      BY <1>5, <2>1, <3>1 DEF Watch!At
  <2> QED
    BY <1>1, <2>1 DEF Watch!ReqHasOwner
<1>8. ASSUME ~raced' PROVE \A h \in Watch!Gens : OwnerOnly(h)'
  <2>1. TAKE h \in Watch!Gens
  <2>2. CASE h = g
    <3>1. claim' = g /\ req' = req /\ (~watch_task'[g].replaced => req' = Watch!None)
      BY <1>1, <1>3, <1>5, <1>8 DEF OwnerOnly
    <3>2. Stage(g)' = "opening"
      BY <1>3, <1>5 DEF Stage
    <3> QED
      BY <2>2, <3>1, <3>2 DEF OwnerOnly, Watch!Served, Watch!At, Watch!Current, Stage
  <2>3. CASE h # g
    BY <1>1, <1>5, <1>8, <2>3, OthersKeep
  <2> QED
    BY <2>2, <2>3
<1> QED
  BY <1>6, <1>7, <1>8

LEMMA OpenedKeeps == ASSUME WatchInv, NEW g \in Watch!Gens, Watch!opened(g) PROVE WatchInv'
<1>0. "listening" \in Watch!Stages /\ "done" \in Watch!Stages
  BY DEF Watch!Stages
<1>1. /\ Stage(g) = "opening"
      /\ UNCHANGED <<row, node, lock, gen, releases, owned, switches, ends, raced>>
  BY DEF Watch!opened, Watch!At, Stage
<1>2. CASE /\ watch_task[g].replaced \/ req = Watch!None
           /\ req' = watch_task[g].watched /\ Watch!Go(g, "listening") /\ claim' = claim
  <2>1. /\ watch_task' \in [Watch!Gens -> TaskType] /\ Stage(g)' = "listening"
        /\ watch_task'[g].watched = watch_task[g].watched
        /\ \A h \in Watch!Gens \ {g} : watch_task'[h] = watch_task[h]
    BY <1>0, <1>2, TaskIs
  <2> USE DEF WatchInv
  <2>2. watch_task[g].watched \in Nodes
    BY DEF Watch!TypeOK
  <2>3. Watch!TypeOK' /\ WatchLocks'
    BY <1>1, <1>2, <2>1, <2>2 DEF WatchLocks, Watch!TypeOK, TaskType
  <2>4. raced \/ claim = g
    BY <1>1 DEF OwnerOnly
  <2>5. Watch!ReqHasOwner'
    BY <1>1, <1>2, <2>4 DEF Watch!ReqHasOwner, Watch!Gens
  <2>6. ASSUME ~raced' PROVE \A h \in Watch!Gens : OwnerOnly(h)'
    <3>1. TAKE h \in Watch!Gens
    <3>2. CASE h = g
      <4>1. claim' = g /\ req' = watch_task'[g].watched
        BY <1>1, <1>2, <2>1, <2>4, <2>6
      <4> QED
        BY <2>1, <3>2, <4>1 DEF OwnerOnly, Watch!Served, Watch!At, Watch!Current, Stage, Watch!Gens
    <3>3. CASE h # g
      BY <1>1, <1>2, <2>1, <2>4, <2>6, <3>3, OthersKeep
    <3> QED
      BY <3>2, <3>3
  <2> QED
    BY <2>3, <2>5, <2>6
<1>3. CASE /\ ~watch_task[g].replaced /\ Watch!Go(g, "done") /\ req' = req
           /\ claim' = IF Watch!Current(g) THEN 0 ELSE claim
  <2>1. /\ watch_task' \in [Watch!Gens -> TaskType] /\ Stage(g)' = "done"
        /\ \A h \in Watch!Gens \ {g} : watch_task'[h] = watch_task[h]
    BY <1>0, <1>3, TaskIs
  <2> USE DEF WatchInv
  <2>2. claim' = claim \/ (claim = g /\ claim' = 0)
    BY <1>3 DEF Watch!Current
  <2>3. claim \in 0 .. gen /\ gen \in Nat
    BY TradesAssumption DEF Watch!TypeOK
  <2>4. Watch!TypeOK' /\ WatchLocks'
    <3>1. claim' \in 0 .. gen'
      BY <1>1, <2>2, <2>3
    <3> QED
      BY <1>1, <1>3, <2>1, <2>2, <3>1 DEF WatchLocks, Watch!TypeOK, TaskType
  <2>5. raced \/ (claim = g /\ req = Watch!None)
    BY <1>1, <1>3 DEF OwnerOnly, Watch!Served, Watch!At, Watch!Current, Stage
  <2>6. Watch!ReqHasOwner'
    BY <1>1, <1>3, <2>5 DEF Watch!ReqHasOwner
  <2>7. ASSUME ~raced' PROVE \A h \in Watch!Gens : OwnerOnly(h)'
    <3>0. claim = g /\ claim' = 0
      BY <1>1, <1>3, <2>5, <2>7 DEF Watch!Current
    <3>1. TAKE h \in Watch!Gens
    <3>2. CASE h = g
      <4>1. g # 0
        BY DEF Watch!Gens
      <4> QED
        BY <2>1, <3>0, <3>2, <4>1 DEF OwnerOnly, Watch!Served, Watch!At, Watch!Current, Stage
    <3>3. CASE h # g
      BY <1>1, <1>3, <2>1, <2>7, <3>0, <3>3, OthersKeep
    <3> QED
      BY <3>2, <3>3
  <2> QED
    BY <2>4, <2>6, <2>7
<1> QED
  BY <1>2, <1>3 DEF Watch!opened

LEMMA ReleaseKeeps ==
    ASSUME WatchInv, NEW g \in Watch!Gens, Watch!release_single_order_task(g) PROVE WatchInv'
<1>0. "closing" \in Watch!Stages /\ "done" \in Watch!Stages
  BY DEF Watch!Stages
<1>1. /\ Stage(g) = "leaving"
      /\ UNCHANGED <<row, node, lock, gen, req, releases, owned, switches, ends, raced>>
  BY DEF Watch!release_single_order_task, Watch!At, Stage
<1> DEFINE s == IF claim = g THEN "closing" ELSE "done"
<1>2. /\ Watch!Go(g, s) /\ s \in Watch!Stages
      /\ claim' = IF claim = g THEN 0 ELSE claim
  BY <1>0 DEF Watch!release_single_order_task, Watch!Current
<1>3. /\ watch_task' \in [Watch!Gens -> TaskType] /\ Stage(g)' = s
      /\ \A h \in Watch!Gens \ {g} : watch_task'[h] = watch_task[h]
  BY <1>2, TaskIs
<1> USE DEF WatchInv
<1>4. claim \in 0 .. gen /\ gen \in Nat
  BY TradesAssumption DEF Watch!TypeOK
<1>5. Watch!TypeOK' /\ WatchLocks'
  <2>1. claim' \in 0 .. gen'
    BY <1>1, <1>2, <1>4
  <2>2. owned' => claim' = 0
    BY <1>1, <1>2 DEF WatchLocks
  <2> QED
    BY <1>1, <1>3, <2>1, <2>2 DEF WatchLocks, Watch!TypeOK, TaskType
<1>6. Watch!ReqHasOwner'
  <2>1. CASE claim = g
    BY <1>3, <2>1 DEF Watch!ReqHasOwner, Watch!At, Stage
  <2>2. CASE claim # g
    <3>1. ASSUME NEW h \in Watch!Gens, Watch!At(h, "closing") PROVE Watch!At(h, "closing")'
      <4>1. h # g
        BY <1>1, <3>1 DEF Watch!At, Stage
      <4> QED
        BY <1>3, <3>1, <4>1 DEF Watch!At
    <3> QED
      BY <1>1, <1>2, <2>2, <3>1 DEF Watch!ReqHasOwner
  <2> QED
    BY <2>1, <2>2
<1>7. ASSUME ~raced' PROVE \A h \in Watch!Gens : OwnerOnly(h)'
  <2>1. TAKE h \in Watch!Gens
  <2>2. CASE h = g
    <3>1. claim' # g /\ (claim = g => claim' = 0)
      BY <1>2 DEF Watch!Gens
    <3> QED
      BY <1>3, <2>2, <3>1 DEF OwnerOnly, Watch!Served, Watch!At, Watch!Current, Stage
  <2>3. CASE h # g
    <3>1. UNCHANGED <<claim, req>> \/ (claim' = 0 /\ claim = g /\ UNCHANGED req)
      BY <1>1, <1>2
    <3>2. OwnerOnly(h) /\ watch_task'[h] = watch_task[h]
      BY <1>1, <1>3, <1>7, <2>3
    <3> QED
      BY <2>3, <3>1, <3>2, OthersKeep
  <2> QED
    BY <2>2, <2>3
<1> QED
  BY <1>5, <1>6, <1>7

LEMMA CloseKeeps == ASSUME WatchInv, NEW g \in Watch!Gens, Watch!close(g) PROVE WatchInv'
<1>1. /\ Stage(g) = "closing" /\ Watch!Go(g, "done") /\ req' = Watch!None
      /\ UNCHANGED <<row, node, lock, claim, gen, releases, owned, switches, ends, raced>>
  BY DEF Watch!close, Watch!At, Stage
<1>2. /\ watch_task' \in [Watch!Gens -> TaskType] /\ Stage(g)' = "done"
      /\ \A h \in Watch!Gens \ {g} : watch_task'[h] = watch_task[h]
  <2>1. "done" \in Watch!Stages
    BY DEF Watch!Stages
  <2> QED
    BY <1>1, <2>1, TaskIs
<1> USE DEF WatchInv
<1>3. Watch!TypeOK' /\ WatchLocks' /\ Watch!ReqHasOwner'
  BY <1>1, <1>2 DEF WatchLocks, Watch!TypeOK, TaskType, Watch!ReqHasOwner
<1>4. ASSUME ~raced' PROVE \A h \in Watch!Gens : OwnerOnly(h)'
  <2>0. claim = 0 /\ g # 0 /\ claim' = 0
    BY <1>1, <1>4 DEF OwnerOnly, Watch!Gens
  <2>1. TAKE h \in Watch!Gens
  <2>2. CASE h = g
    BY <1>2, <2>0, <2>2 DEF OwnerOnly, Watch!Served, Watch!At, Watch!Current, Stage
  <2>3. CASE h # g
    BY <1>1, <1>2, <1>4, <2>0, <2>3, OthersKeep
  <2> QED
    BY <2>2, <2>3
<1> QED
  BY <1>3, <1>4

LEMMA WatchStep == WatchInv /\ Watch!Next => WatchInv'
<1> SUFFICES ASSUME WatchInv, Watch!Next PROVE WatchInv'
  OBVIOUS
<1>1. CASE Watch!Taking
  BY <1>1, TakingKeeps
<1>2. CASE Watch!Ending
  BY <1>2, EndingKeeps
<1>3. CASE Watch!Releasing
  BY <1>3, ReleasingKeeps
<1>4. CASE \E n \in Nodes : Watch!set_active_node(n)
  BY <1>4, SwitchKeeps
<1>5. ASSUME NEW g \in Watch!Gens, Watch!watcher(g) PROVE WatchInv'
  <2>1. CASE Watch!start(g)
    BY <2>1, StartKeeps
  <2>2. CASE Watch!opened(g)
    BY <2>2, OpenedKeeps
  <2>3. CASE Watch!event(g)
    BY <2>3, LeavingKeeps DEF Watch!event, Watch!At, Stage
  <2>4. CASE Watch!idle_timeout(g)
    BY <2>4, LeavingKeeps DEF Watch!idle_timeout, Watch!At, Stage
  <2>5. CASE Watch!release_single_order_task(g)
    BY <2>5, ReleaseKeeps
  <2>6. CASE Watch!close(g)
    BY <2>6, CloseKeeps
  <2> QED
    BY <1>5, <2>1, <2>2, <2>3, <2>4, <2>5, <2>6 DEF Watch!watcher
<1> QED
  BY <1>1, <1>2, <1>3, <1>4, <1>5 DEF Watch!Next

LEMMA WatchStutter == WatchInv /\ UNCHANGED WatchVars => WatchInv'
<1> SUFFICES ASSUME WatchInv, UNCHANGED WatchVars PROVE WatchInv'
  OBVIOUS
<1> QED
  BY DEF WatchVars, WatchInv, WatchLocks, OwnerOnly, Stage, Watch!TypeOK, Watch!ReqHasOwner,
         Watch!Served, Watch!At, Watch!Current

LEMMA WatchInit == Watch!Init => WatchInv
<1> SUFFICES ASSUME Watch!Init PROVE WatchInv
  OBVIOUS
<1>1. \A g \in Watch!Gens : g # 0 /\ watch_task[g] = [stage |-> "idle", replaced |-> FALSE, watched |-> node]
  BY DEF Watch!Init, Watch!Gens
<1>2. Watch!TypeOK /\ WatchLocks /\ Watch!ReqHasOwner
  <2>1. watch_task \in [Watch!Gens -> TaskType]
    BY DEF Watch!Init, TaskType, Watch!Stages
  <2>2. Watch!TypeOK
    <3>1. /\ claim \in 0 .. gen /\ gen \in 0 .. MaxGen /\ releases \in 0 .. MaxEnds
          /\ switches \in 0 .. MaxSwitches /\ ends \in 0 .. MaxEnds
      BY TradesAssumption DEF Watch!Init
    <3>2. /\ row \in {"live", "over"} /\ node \in Nodes /\ lock \in {"free", "take", "release"}
          /\ req \in Nodes \cup {Watch!None}
      BY DEF Watch!Init
    <3>3. owned \in BOOLEAN /\ raced \in BOOLEAN
      BY DEF Watch!Init
    <3> QED
      BY <2>1, <3>1, <3>2, <3>3 DEF Watch!TypeOK, TaskType
  <2> QED
    BY <2>2 DEF Watch!Init, WatchLocks, Watch!ReqHasOwner
<1>3. \A g \in Watch!Gens : OwnerOnly(g)
  BY <1>1 DEF Watch!Init, OwnerOnly, Watch!Served, Watch!At, Watch!Current, Stage
<1> QED
  BY <1>2, <1>3 DEF WatchInv

(* The task that owns the order listens to an open REQ of its own filter,   *)
(* and no d-tag REQ is left open without a task, for any number of takes,   *)
(* ends, replays and node switches (single_order_tasks, release_single_     *)
(* order_task and claim_finished_trade_release in api/orders.rs), unless a  *)
(* claim changed hands between the two steps of an exit.                    *)
THEOREM OwnerListens == MCSpec => []WatchSound
<1>1. MCInit => WatchInv
  BY WatchInit DEF MCInit
<1>2. WatchInv /\ [MCNext]_MCvars => WatchInv'
  <2> SUFFICES ASSUME WatchInv, [MCNext]_MCvars PROVE WatchInv'
    OBVIOUS
  <2>1. Watch!Next \/ UNCHANGED WatchVars
    BY DEF MCNext, MCvars
  <2> QED
    BY <2>1, WatchStep, WatchStutter
<1>3. WatchInv => WatchSound
  BY DEF WatchInv, WatchSound, Watch!WatcherOwnsReq, OwnerOnly
<1> QED
  BY <1>1, <1>2, <1>3, PTL DEF MCSpec

(***************************************************************************)
(* The trade-key counter.                                                  *)
(***************************************************************************)
(* Every index that was handed out is in the database and below the counter *)
(* in memory, which never falls behind the database.                        *)
Consumed ==
    readFailed \/ /\ \A u \in used : u <= db /\ (mem # 0 => u <= mem)
                  /\ mem # 0 => db <= mem

(* Memory is ahead of the database only after a write that failed. *)
Written == keptAhead \/ readFailed \/ (promised <= db /\ (mem # 0 => mem = db))

(* A retry derives above the answer it was given, and nothing is under way  *)
(* while no identity is loaded.                                             *)
CallSound(c) ==
    /\ call[c].step = "raise" => call[c].floor = call[c].answer
    /\ call[c].retried /\ call[c].step = "derive" => call[c].answer <= mem
    /\ call[c].retried /\ call[c].step = "send" => call[c].answer < call[c].index
    /\ mem = 0 => call[c] = Index!Idle

IndexInv ==
    /\ Index!TypeOK /\ Index!KeyHandedOnce /\ Index!RetryAboveAnswer
    /\ Consumed /\ Written /\ \A c \in Callers : CallSound(c)

(* What a call may become, with the counter at m. *)
Fits(k, m) ==
    /\ k \in Index!Call
    /\ k.step \in {"ask", "asked", "raise"} => ~k.retried
    /\ k.step = "raise" => k.floor = k.answer
    /\ k.retried /\ k.step = "derive" => k.answer <= m
    /\ k.retried /\ k.step = "send" => k.answer < k.index

IndexNumbers ==
    /\ mem \in Index!Index /\ db \in Index!Index /\ mirror \in Index!Index
    /\ announced \in Index!Index /\ daemon \in Index!Index
    /\ failures \in 0 .. MaxFailures /\ restarts \in 0 .. MaxRestarts
    /\ elsewhere \in 0 .. MaxElsewhere
    /\ used \subseteq Index!Index /\ promised \in Index!Index
    /\ reused \in BOOLEAN /\ keptAhead \in BOOLEAN
    /\ readFailed \in BOOLEAN /\ retryRefused \in BOOLEAN

Told == readFailed \/ (mirror <= db /\ announced <= db)

IndexRest == /\ IndexNumbers /\ Told /\ Index!KeyHandedOnce /\ Index!RetryAboveAnswer
             /\ Consumed /\ Written

LEMMA IndexIs ==
    IndexInv <=> /\ IndexRest /\ call \in [Callers -> Index!Call]
                 /\ \A c \in Callers : Fits(call[c], mem) /\ (mem = 0 => call[c] = Index!Idle)
  BY DEF IndexInv, IndexRest, Index!TypeOK, IndexNumbers, Told, CallSound, Fits

LEMMA IndexIsNat == Index!Index \subseteq Nat /\ MaxIndex \in Index!Index
  BY TradesAssumption DEF Index!Index

LEMMA IdleFits == \A m \in Nat : Fits(Index!Idle, m)
<1>1. Index!Idle \in Index!Call
  BY TradesAssumption DEF Index!Idle, Index!Call, Index!Index
<1> QED
  BY <1>1 DEF Fits, Index!Idle

(* A call's own step: the counter only rises while the others wait. *)
LEMMA CallsKeep ==
    ASSUME IndexInv, NEW c \in Callers, NEW k,
           call' = [call EXCEPT ![c] = k], mem # 0, mem' \in Index!Index, mem <= mem',
           Fits(k, mem'), IndexRest'
    PROVE  IndexInv'
<1>1. call \in [Callers -> Index!Call] /\ \A d \in Callers : Fits(call[d], mem)
  BY IndexIs
<1>2. call' \in [Callers -> Index!Call]
  BY <1>1 DEF Fits
<1>3. mem \in Nat /\ mem' \in Nat
  BY IndexIsNat DEF IndexInv, Index!TypeOK
<1>4. ASSUME NEW d \in Callers PROVE Fits(call'[d], mem')
  <2>1. CASE d = c
    BY <1>1, <2>1
  <2>2. CASE d # c
    <3>1. call'[d] = call[d] /\ Fits(call[d], mem)
      BY <1>1, <2>2
    <3>2. call[d].answer \in Nat
      BY <1>1, IndexIsNat DEF Index!Call
    <3> QED
      BY <1>3, <3>1, <3>2 DEF Fits
  <2> QED
    BY <2>1, <2>2
<1> QED
  BY <1>2, <1>3, <1>4 DEF IndexInv, IndexRest, Index!TypeOK, IndexNumbers, Told, CallSound, Fits

LEMMA MaxOfTwo == \A a, b \in Nat : Index!Max({a, b}) = IF a >= b THEN a ELSE b
<1> SUFFICES ASSUME NEW a \in Nat, NEW b \in Nat
             PROVE  Index!Max({a, b}) = IF a >= b THEN a ELSE b
  OBVIOUS
<1> DEFINE m == IF a >= b THEN a ELSE b
<1>1. m \in {a, b} /\ \A y \in {a, b} : m >= y
  OBVIOUS
<1>2. \A x \in {a, b} : (\A y \in {a, b} : x >= y) => x = m
  OBVIOUS
<1> QED
  BY <1>1, <1>2 DEF Index!Max

LEMMA StartCallKeeps == ASSUME IndexInv, NEW c \in Callers, Index!Start(c) PROVE IndexInv'
<1> DEFINE k == [call[c] EXCEPT !.step = "derive"]
<1>1. mem # 0 /\ call[c] = Index!Idle /\ call \in [Callers -> Index!Call] /\ mem \in Index!Index
  BY DEF Index!Start, Index!Unloaded, IndexInv, Index!TypeOK
<1>2. call' = [call EXCEPT ![c] = k]
  BY <1>1 DEF Index!Start
<1>3. Fits(k, mem)
  <2>1. ~call[c].retried
    BY <1>1 DEF Index!Idle
  <2> QED
    BY <1>1, <2>1 DEF Fits, Index!Call
<1>4. UNCHANGED <<mem, db, mirror, announced, daemon, failures, restarts, elsewhere,
                 used, promised, reused, keptAhead, readFailed, retryRefused>>
  BY DEF Index!Start
<1>5. IndexRest'
  BY <1>4, IndexIs DEF IndexRest, IndexNumbers, Told, Index!KeyHandedOnce,
                       Index!RetryAboveAnswer, Consumed, Written
<1> HIDE DEF k
<1>6. mem' = mem /\ mem <= mem'
  BY <1>1, <1>4, IndexIsNat
<1> QED
  BY <1>1, <1>2, <1>3, <1>5, <1>6, CallsKeep

(* A step that only moves one call on. *)
LEMMA CallMoves ==
    ASSUME IndexInv, NEW c \in Callers, NEW k, call' = [call EXCEPT ![c] = k], Fits(k, mem),
           mem # 0,
           UNCHANGED <<mem, db, mirror, announced, failures, restarts, elsewhere, used,
                       promised, reused, keptAhead, readFailed>>,
           daemon' \in Index!Index, retryRefused' = FALSE \/ retryRefused' = retryRefused
    PROVE  IndexInv'
<1>1. IndexRest'
  <2>1. IndexRest /\ retryRefused' = FALSE
    BY IndexIs DEF IndexRest, Index!RetryAboveAnswer
  <2>2. IndexNumbers'
    BY <2>1 DEF IndexRest, IndexNumbers
  <2> QED
    BY <2>1, <2>2 DEF IndexRest, Told, Index!KeyHandedOnce, Index!RetryAboveAnswer, Consumed, Written
<1>2. mem \in Nat /\ mem' = mem
  BY IndexIsNat DEF IndexInv, Index!TypeOK
<1>3. mem' \in Index!Index /\ mem <= mem' /\ Fits(k, mem')
  BY <1>2 DEF IndexInv, Index!TypeOK
<1> QED
  BY <1>1, <1>3, CallsKeep

LEMMA AttemptKeeps == ASSUME IndexInv, NEW c \in Callers, Index!attempt(c) PROVE IndexInv'
<1>1. /\ call[c] \in Index!Call /\ Fits(call[c], mem) /\ call[c].step = "send" /\ mem # 0
      /\ call[c].index \in Index!Index /\ call[c].answer \in Nat /\ daemon \in Nat
      /\ call[c].index \in Nat /\ mem \in Nat
  BY IndexIs, IndexIsNat DEF Index!attempt, IndexRest, IndexNumbers, Index!Idle, Index!Call
<1>2. UNCHANGED <<mem, db, mirror, announced, failures, restarts, elsewhere, used,
                  promised, reused, keptAhead, readFailed>>
  BY DEF Index!attempt
<1>3. CASE call[c].index > daemon
  <2>1. daemon' = call[c].index /\ call' = [call EXCEPT ![c] = Index!Idle] /\ UNCHANGED retryRefused
    BY <1>3 DEF Index!attempt
  <2> QED
    BY <1>1, <1>2, <2>1, IdleFits, CallMoves
<1>4. CASE ~(call[c].index > daemon)
  <2> DEFINE k == IF call[c].retried THEN Index!Idle ELSE [call[c] EXCEPT !.step = "ask"]
  <2>1. /\ call' = [call EXCEPT ![c] = k] /\ daemon' = daemon
        /\ retryRefused' = (retryRefused \/ (call[c].retried /\ daemon = call[c].answer))
    BY <1>4 DEF Index!attempt
  <2>2. Fits(k, mem)
    <3>1. CASE call[c].retried
      BY <1>1, <3>1, IdleFits
    <3>2. CASE ~call[c].retried
      BY <1>1, <3>2 DEF Fits, Index!Call
    <3> QED
      BY <3>1, <3>2
  <2>3. ~(call[c].retried /\ daemon = call[c].answer)
    BY <1>1, <1>4 DEF Fits
  <2>4. ~retryRefused /\ daemon \in Index!Index
    BY DEF IndexInv, Index!RetryAboveAnswer, Index!TypeOK
  <2>5. retryRefused' = FALSE
    BY <2>1, <2>3, <2>4
  <2> HIDE DEF k
  <2> QED
    BY <1>1, <1>2, <2>1, <2>2, <2>4, <2>5, CallMoves
<1> QED
  BY <1>3, <1>4

LEMMA AnswerKeeps == ASSUME IndexInv, NEW c \in Callers, Index!last_trade_index(c) PROVE IndexInv'
<1>1. /\ call[c] \in Index!Call /\ Fits(call[c], mem) /\ call[c].step = "asked" /\ mem # 0
      /\ daemon \in Index!Index /\ mem \in Nat
  BY IndexIs, IndexIsNat DEF Index!last_trade_index, IndexRest, IndexNumbers, Index!Idle, Fits
<1>2. UNCHANGED <<mem, db, mirror, announced, daemon, failures, restarts, elsewhere, used,
                  promised, reused, keptAhead, readFailed, retryRefused>>
  BY DEF Index!last_trade_index
<1> DEFINE k == [call[c] EXCEPT !.step = "raise", !.answer = daemon, !.floor = daemon]
<1>3. Fits(k, mem)
  BY <1>1 DEF Fits, Index!Call
<1>4. call' = [call EXCEPT ![c] = k] \/ call' = [call EXCEPT ![c] = Index!Idle]
  <2>1. call \in [Callers -> Index!Call]
    BY IndexIs
  <2> QED
    BY <2>1 DEF Index!last_trade_index
<1>5. daemon' \in Index!Index
  BY <1>1, <1>2
<1> HIDE DEF k
<1> QED
  BY <1>1, <1>2, <1>3, <1>4, <1>5, IdleFits, CallMoves

LEMMA RaiseKeeps == ASSUME IndexInv, NEW c \in Callers, Index!retry_after_resync(c) PROVE IndexInv'
<1> DEFINE floor == call[c].floor
           k == [call[c] EXCEPT !.step = "derive", !.retried = TRUE]
<1>1. /\ call[c] \in Index!Call /\ Fits(call[c], mem) /\ call[c].step = "raise" /\ mem # 0
      /\ call \in [Callers -> Index!Call] /\ IndexRest
  BY IndexIs DEF Index!retry_after_resync, Index!Unloaded
<1>2. /\ mem \in Index!Index /\ db \in Index!Index /\ floor \in Index!Index /\ promised \in Index!Index
      /\ mem \in Nat /\ db \in Nat /\ floor \in Nat /\ promised \in Nat /\ call[c].answer = floor
      /\ mirror \in Nat /\ announced \in Nat
  BY <1>1, IndexIsNat DEF IndexRest, IndexNumbers, Index!Call, Fits
<1>3. UNCHANGED <<mirror, daemon, restarts, elsewhere, used, reused, keptAhead, readFailed, retryRefused>>
  BY DEF Index!retry_after_resync
<1>4. CASE /\ Index!ensure_at_least(floor, FALSE) /\ failures' = failures
           /\ call' = [call EXCEPT ![c].step = "derive", ![c].retried = TRUE]
           /\ promised' = Index!Max({promised, floor})
  <2>1. promised' = IF promised >= floor THEN promised ELSE floor
    BY <1>2, <1>4, MaxOfTwo
  <2>2. \/ floor <= mem /\ UNCHANGED <<mem, db, announced>>
        \/ ~(floor <= mem) /\ mem' = floor /\ db' = floor /\ announced' = floor
    BY <1>4 DEF Index!ensure_at_least
  <2>3. /\ mem' \in Index!Index /\ db' \in Index!Index /\ announced' \in Index!Index
        /\ mem <= mem' /\ floor <= mem' /\ promised' \in Index!Index
    <3>1. promised' \in Index!Index
      BY <1>2, <2>1
    <3>2. CASE floor <= mem /\ UNCHANGED <<mem, db, announced>>
      BY <1>1, <1>2, <3>1, <3>2 DEF IndexRest, IndexNumbers
    <3>3. CASE ~(floor <= mem) /\ mem' = floor /\ db' = floor /\ announced' = floor
      BY <1>2, <3>1, <3>3
    <3> QED
      BY <2>2, <3>2, <3>3
  <2>4. IndexNumbers'
    BY <1>1, <1>3, <1>4, <2>3 DEF IndexRest, IndexNumbers
  <2>5. Consumed'
    <3>1. used \subseteq Nat
      BY <1>1, IndexIsNat DEF IndexRest, IndexNumbers
    <3> QED
      BY <1>1, <1>2, <1>3, <2>2, <3>1 DEF IndexRest, Consumed
  <2>6. Told'
    BY <1>1, <1>2, <1>3, <2>2 DEF IndexRest, Told, Consumed
  <2>7. Written'
    BY <1>1, <1>2, <1>3, <2>1, <2>2 DEF IndexRest, Written
  <2>8. IndexRest'
    BY <1>1, <1>3, <2>4, <2>5, <2>6, <2>7 DEF IndexRest, Index!KeyHandedOnce, Index!RetryAboveAnswer
  <2>9. call' = [call EXCEPT ![c] = k]
    BY <1>1, <1>4
  <2>10. Fits(k, mem')
    BY <1>1, <1>2, <2>3 DEF Fits, Index!Call
  <2> HIDE DEF k, floor
  <2> QED
    BY <1>1, <2>3, <2>8, <2>9, <2>10, CallsKeep
<1>5. CASE /\ failures < MaxFailures /\ Index!ensure_at_least(floor, TRUE) /\ failures' = failures + 1
           /\ call' = [call EXCEPT ![c] = Index!Idle] /\ promised' = promised
  <2>1. UNCHANGED <<mem, db, announced>>
    BY <1>5 DEF Index!ensure_at_least
  <2>2. failures' \in 0 .. MaxFailures
    BY <1>1, <1>5, TradesAssumption DEF IndexRest, IndexNumbers
  <2>3. IndexNumbers'
    BY <1>1, <1>3, <1>5, <2>1, <2>2 DEF IndexRest, IndexNumbers
  <2>4. IndexRest'
    BY <1>1, <1>3, <1>5, <2>1, <2>3 DEF IndexRest, Told, Index!KeyHandedOnce,
                                        Index!RetryAboveAnswer, Consumed, Written
  <2>5. mem' \in Index!Index /\ mem <= mem' /\ Fits(Index!Idle, mem')
    BY <1>2, <2>1, IdleFits
  <2> QED
    BY <1>1, <1>5, <2>4, <2>5, CallsKeep
<1> QED
  BY <1>4, <1>5 DEF Index!retry_after_resync

(* The three ways a derivation ends. *)
LEMMA DerivedKeeps ==
    ASSUME IndexInv, NEW c \in Callers, NEW onward \in {"send", "asked"}, Index!derived(c, onward),
           mem # 0, mem < MaxIndex, call[c].step \in {"derive", "ask"},
           onward = "asked" => call[c].step = "ask", onward = "send" => call[c].step = "derive"
    PROVE  IndexInv'
<1> DEFINE k == [call[c] EXCEPT !.step = onward, !.index = mem + 1]
<1>1. /\ call[c] \in Index!Call /\ Fits(call[c], mem) /\ call \in [Callers -> Index!Call] /\ IndexRest
  BY IndexIs
<1>2. /\ mem' = mem + 1 /\ db' = mem + 1 /\ announced' = mem + 1
      /\ call' = [call EXCEPT ![c].step = onward, ![c].index = mem + 1]
      /\ reused' = (reused \/ mem + 1 \in used) /\ used' = used \union {mem + 1}
      /\ UNCHANGED <<mirror, daemon, failures, restarts, elsewhere, promised, keptAhead,
                     readFailed, retryRefused>>
  BY DEF Index!derived
<1>3. /\ mem \in Nat /\ db \in Nat /\ mirror \in Nat /\ promised \in Nat /\ used \subseteq Nat
      /\ mem + 1 \in Index!Index /\ call[c].answer \in Nat
  BY <1>1, IndexIsNat, TradesAssumption DEF IndexRest, IndexNumbers, Index!Call, Index!Index
<1>4. readFailed \/ mem + 1 \notin used
  BY <1>1, <1>3 DEF IndexRest, Consumed
<1>5. Index!KeyHandedOnce'
  BY <1>1, <1>2, <1>4 DEF IndexRest, Index!KeyHandedOnce
<1>6. IndexNumbers'
  <2>1. reused' \in BOOLEAN
    BY <1>1, <1>2 DEF IndexRest, IndexNumbers
  <2>2. used' \subseteq Index!Index
    BY <1>1, <1>2, <1>3 DEF IndexRest, IndexNumbers
  <2> QED
    BY <1>1, <1>2, <1>3, <2>1, <2>2 DEF IndexRest, IndexNumbers
<1>7. Told' /\ Consumed' /\ Written'
  <2>1. Told'
    BY <1>1, <1>2, <1>3, mem # 0 DEF IndexRest, Told, Consumed
  <2>2. Consumed'
    BY <1>1, <1>2, <1>3, mem # 0 DEF IndexRest, Consumed
  <2>3. Written'
    BY <1>1, <1>2, <1>3, mem # 0 DEF IndexRest, Written
  <2> QED
    BY <2>1, <2>2, <2>3
<1>8. IndexRest'
  BY <1>1, <1>2, <1>5, <1>6, <1>7 DEF IndexRest, Index!RetryAboveAnswer
<1>9. call' = [call EXCEPT ![c] = k]
  BY <1>1, <1>2
<1>10. Fits(k, mem')
  <2>1. k \in Index!Call
    BY <1>1, <1>3 DEF Index!Call
  <2>2. k.step = onward /\ k.index = mem + 1 /\ k.retried = call[c].retried /\ k.answer = call[c].answer
    BY <1>1 DEF Index!Call
  <2> HIDE DEF k
  <2>3. onward = "asked" => ~k.retried
    BY <1>1, <2>2 DEF Fits
  <2>4. onward = "send" /\ k.retried => k.answer < k.index
    BY <1>1, <1>3, <2>2 DEF Fits
  <2> QED
    BY <2>1, <2>2, <2>3, <2>4 DEF Fits
<1> HIDE DEF k
<1>11. mem' \in Index!Index /\ mem <= mem'
  BY <1>2, <1>3
<1> QED
  BY <1>8, <1>9, <1>10, <1>11, CallsKeep

LEMMA DeriveKeeps == ASSUME IndexInv, NEW c \in Callers, Index!derive_trade_key(c) PROVE IndexInv'
<1>1. mem # 0 /\ mem < MaxIndex
  BY DEF Index!derive_trade_key, Index!Unloaded
<1>2. CASE call[c].step = "derive" /\ Index!derived(c, "send")
  BY <1>1, <1>2, DerivedKeeps
<1>3. CASE call[c].step = "ask" /\ Index!derived(c, "asked")
  BY <1>1, <1>3, DerivedKeeps
<1>4. CASE Index!derive_fails(c)
  <2>1. /\ mem' = mem + 1 /\ keptAhead' = TRUE /\ failures < MaxFailures /\ failures' = failures + 1
        /\ call' = [call EXCEPT ![c] = Index!Idle]
        /\ UNCHANGED <<db, mirror, announced, daemon, restarts, elsewhere, used, promised,
                       reused, readFailed, retryRefused>>
    BY <1>4 DEF Index!derive_fails
  <2>2. IndexRest
    BY IndexIs
  <2>3. /\ mem \in Nat /\ db \in Nat /\ used \subseteq Nat /\ mem' \in Index!Index /\ mem <= mem'
        /\ failures' \in 0 .. MaxFailures
    BY <1>1, <2>1, <2>2, IndexIsNat, TradesAssumption DEF IndexRest, IndexNumbers, Index!Index
  <2>4. IndexNumbers'
    BY <2>1, <2>2, <2>3 DEF IndexRest, IndexNumbers
  <2>5. Consumed'
    BY <1>1, <2>1, <2>2, <2>3 DEF IndexRest, Consumed
  <2>6. IndexRest'
    BY <2>1, <2>2, <2>4, <2>5 DEF IndexRest, Told, Index!KeyHandedOnce, Index!RetryAboveAnswer, Written
  <2>7. Fits(Index!Idle, mem')
    BY <2>1, <2>3, IdleFits
  <2> QED
    BY <1>1, <2>1, <2>3, <2>6, <2>7, CallsKeep
<1> QED
  BY <1>2, <1>3, <1>4 DEF Index!derive_trade_key

(* Steps that leave the calls alone. *)
LEMMA CallsStay ==
    ASSUME IndexInv, call' = call, mem' = mem, IndexRest' PROVE IndexInv'
BY IndexIs DEF IndexInv, IndexRest, Index!TypeOK, IndexNumbers, Told, CallSound, Fits

LEMMA CopiesKeep ==
    ASSUME IndexInv, Index!MirrorWrites \/ Index!OtherDevice PROVE IndexInv'
<1>1. IndexRest
  BY IndexIs
<1>2. CASE Index!MirrorWrites
  <2>1. /\ mirror' = announced /\ announced' = 0
        /\ UNCHANGED <<mem, db, call, daemon, failures, restarts, elsewhere, used, promised,
                       reused, keptAhead, readFailed, retryRefused>>
    BY <1>2 DEF Index!MirrorWrites
  <2>2. IndexNumbers'
    BY <1>1, <2>1, TradesAssumption DEF IndexRest, IndexNumbers, Index!Index
  <2>3. Told'
    <3>1. db \in Nat
      BY <1>1, IndexIsNat DEF IndexRest, IndexNumbers
    <3> QED
      BY <1>1, <2>1, <3>1 DEF IndexRest, Told
  <2>4. IndexRest'
    BY <1>1, <2>1, <2>2, <2>3 DEF IndexRest, Index!KeyHandedOnce, Index!RetryAboveAnswer, Consumed, Written
  <2> QED
    BY <2>1, <2>4, CallsStay
<1>3. CASE Index!OtherDevice
  <2>1. /\ daemon' \in daemon + 1 .. MaxIndex /\ elsewhere < MaxElsewhere /\ elsewhere' = elsewhere + 1
        /\ UNCHANGED <<mem, db, mirror, announced, call, failures, restarts, used, promised,
                       reused, keptAhead, readFailed, retryRefused>>
    BY <1>3 DEF Index!OtherDevice
  <2>2. daemon' \in Index!Index /\ elsewhere' \in 0 .. MaxElsewhere
    BY <1>1, <2>1, TradesAssumption DEF IndexRest, IndexNumbers, Index!Index
  <2>3. IndexNumbers'
    BY <1>1, <2>1, <2>2 DEF IndexRest, IndexNumbers
  <2>4. IndexRest'
    BY <1>1, <2>1, <2>3 DEF IndexRest, Told, Index!KeyHandedOnce, Index!RetryAboveAnswer, Consumed, Written
  <2> QED
    BY <2>1, <2>4, CallsStay
<1> QED
  BY <1>2, <1>3

LEMMA RestartKeeps ==
    ASSUME IndexInv, Index!Stop \/ Index!load_identity_from_mnemonic PROVE IndexInv'
<1>1. IndexRest /\ IndexNumbers /\ (mem = 0 => \A c \in Callers : call[c] = Index!Idle)
  BY IndexIs DEF IndexRest
<1>2. mem \in Nat /\ db \in Nat /\ mirror \in Nat /\ used \subseteq Nat /\ 0 \in Index!Index
      /\ call \in [Callers -> Index!Call] /\ promised \in Nat /\ announced \in Nat
  BY <1>1, IndexIs, IndexIsNat, TradesAssumption DEF IndexNumbers, Index!Index
<1>3. ASSUME call' \in [Callers -> Index!Call], \A c \in Callers : call'[c] = Index!Idle, IndexRest'
      PROVE  IndexInv'
  <2>1. mem' \in Nat
    BY <1>3, IndexIsNat DEF IndexRest, IndexNumbers
  <2>2. \A c \in Callers : Fits(call'[c], mem')
    BY <1>3, <2>1, IdleFits
  <2> QED
    BY <1>3, <2>1, <2>2
       DEF IndexInv, IndexRest, Index!TypeOK, IndexNumbers, Told, CallSound, Fits
<1>4. CASE Index!Stop
  <2>1. /\ mem' = 0 /\ announced' = 0 /\ call' = [c \in Callers |-> Index!Idle]
        /\ restarts < MaxRestarts /\ restarts' = restarts + 1
        /\ UNCHANGED <<db, mirror, daemon, failures, elsewhere, used, promised, reused,
                       keptAhead, readFailed, retryRefused>>
    BY <1>4 DEF Index!Stop, Index!Unloaded
  <2>2. restarts' \in 0 .. MaxRestarts
    BY <1>1, <2>1, TradesAssumption DEF IndexNumbers
  <2>3. IndexNumbers'
    BY <1>1, <1>2, <2>1, <2>2 DEF IndexNumbers
  <2>4. Told' /\ Consumed' /\ Written'
    BY <1>1, <1>2, <2>1 DEF IndexRest, Told, Consumed, Written
  <2>5. IndexRest'
    BY <1>1, <2>1, <2>3, <2>4 DEF IndexRest, Index!KeyHandedOnce, Index!RetryAboveAnswer
  <2>6. call' \in [Callers -> Index!Call] /\ \A c \in Callers : call'[c] = Index!Idle
    BY <1>2, <2>1, IdleFits DEF Fits
  <2> QED
    BY <1>3, <2>5, <2>6
<1>5. CASE Index!load_identity_from_mnemonic
  <2>1. /\ mem = 0
        /\ UNCHANGED <<db, mirror, call, daemon, restarts, elsewhere, used, promised,
                       reused, keptAhead, retryRefused>>
    BY <1>5 DEF Index!load_identity_from_mnemonic, Index!Unloaded
  <2>2. \A c \in Callers : call'[c] = Index!Idle
    BY <1>1, <2>1
  <2>3. CASE /\ mem' = Index!reconcile(mirror, db) /\ announced' = IF mem' > mirror THEN mem' ELSE 0
             /\ UNCHANGED <<failures, readFailed>>
    <3>1. mem' = IF mirror >= db THEN mirror ELSE db
      BY <1>2, <2>3, MaxOfTwo DEF Index!reconcile
    <3>2. mem' \in Index!Index /\ mem' \in Nat
      BY <1>1, <1>2, <3>1 DEF IndexNumbers
    <3>3. announced' \in Index!Index /\ announced' \in {0, mem'}
      BY <1>2, <2>3, <3>2
    <3>4. IndexNumbers'
      BY <1>1, <2>1, <2>3, <3>2, <3>3 DEF IndexNumbers
    <3>5. readFailed \/ mem' = db
      BY <1>1, <1>2, <3>1 DEF IndexRest, Told
    <3>6. Told' /\ Consumed' /\ Written'
      BY <1>1, <1>2, <2>1, <2>3, <3>3, <3>5 DEF IndexRest, Told, Consumed, Written
    <3>7. IndexRest'
      BY <1>1, <2>1, <2>3, <3>4, <3>6 DEF IndexRest, Index!KeyHandedOnce, Index!RetryAboveAnswer
    <3> QED
      BY <1>2, <1>3, <2>1, <2>2, <3>7
  <2>4. CASE /\ failures < MaxFailures /\ failures' = failures + 1
             /\ mem' = mirror /\ readFailed' = TRUE /\ announced' = announced
    <3>1. failures' \in 0 .. MaxFailures
      BY <1>1, <2>4, TradesAssumption DEF IndexNumbers
    <3>2. IndexNumbers'
      BY <1>1, <2>1, <2>4, <3>1 DEF IndexNumbers
    <3>3. IndexRest'
      BY <1>1, <2>1, <2>4, <3>2 DEF IndexRest, Index!KeyHandedOnce, Index!RetryAboveAnswer,
                                    Told, Consumed, Written
    <3> QED
      BY <1>2, <1>3, <2>1, <2>2, <3>3
  <2> QED
    BY <1>5, <2>3, <2>4 DEF Index!load_identity_from_mnemonic
<1> QED
  BY <1>4, <1>5

LEMMA IndexStep == IndexInv /\ Index!Next => IndexInv'
BY StartCallKeeps, DeriveKeeps, AttemptKeeps, AnswerKeeps, RaiseKeeps, CopiesKeep, RestartKeeps
   DEF Index!Next

LEMMA IndexStutter == IndexInv /\ UNCHANGED IndexVars => IndexInv'
<1> SUFFICES ASSUME IndexInv, UNCHANGED IndexVars PROVE IndexInv'
  OBVIOUS
<1>1. IndexRest'
  BY IndexIs DEF IndexVars, IndexRest, IndexNumbers, Told, Index!KeyHandedOnce,
                 Index!RetryAboveAnswer, Consumed, Written
<1> QED
  BY <1>1, CallsStay DEF IndexVars

LEMMA IndexInit == Index!Init => IndexInv
<1> SUFFICES ASSUME Index!Init PROVE IndexInv
  OBVIOUS
<1>1. {0, 1} \subseteq Index!Index
  BY TradesAssumption DEF Index!Index
<1>2. IndexNumbers
  <2>1. /\ mem \in Index!Index /\ db \in Index!Index /\ mirror \in Index!Index
        /\ announced \in Index!Index /\ daemon \in Index!Index /\ used \subseteq Index!Index
        /\ promised \in Index!Index
    BY <1>1 DEF Index!Init
  <2>2. /\ failures \in 0 .. MaxFailures /\ restarts \in 0 .. MaxRestarts
        /\ elsewhere \in 0 .. MaxElsewhere
    BY TradesAssumption DEF Index!Init
  <2>3. /\ reused \in BOOLEAN /\ keptAhead \in BOOLEAN /\ readFailed \in BOOLEAN
        /\ retryRefused \in BOOLEAN
    BY DEF Index!Init
  <2> QED
    BY <2>1, <2>2, <2>3 DEF IndexNumbers
<1>3. Told /\ Consumed /\ Written /\ Index!KeyHandedOnce /\ Index!RetryAboveAnswer
  BY DEF Index!Init, Told, Consumed, Written, Index!KeyHandedOnce, Index!RetryAboveAnswer
<1>4. /\ call \in [Callers -> Index!Call] /\ mem = 1
      /\ \A c \in Callers : call[c] = Index!Idle /\ Fits(call[c], mem)
  BY IdleFits DEF Index!Init, Fits
<1>5. IndexRest
  BY <1>2, <1>3 DEF IndexRest
<1> QED
  BY <1>4, <1>5, IndexIs

(***************************************************************************)
(* The session.                                                            *)
(***************************************************************************)
(* The lock's holder: a handler of the order's own take, the reply of a new *)
(* take before its row is written, and the tail of that take.               *)
Handling == peer_lock.step \in {"read", "create", "update"}
Own == (peer_lock.step = "free" /\ wiped < take) \/ (Handling /\ ~peer_lock.reply)
Replying == (Handling /\ peer_lock.reply) \/ peer_lock.step = "revealed"
Finishing == peer_lock.step \in {"install", "replay"}

Inserting == api.step = "insert"
Unspoiled == take \in revealed \ overStale

Sessions == [idx : 0 .. take, key : 0 .. take]
Locks == [step : {"free", "read", "create", "update", "revealed", "install", "replay", "remove"},
          idx : 0 .. take, copy : Sessions, reply : BOOLEAN]

PeerShapes ==
    /\ peer_lock \in Locks
    /\ revealed \subseteq 1 .. take
    /\ peer_row.peer => peer_row.idx # 0
    /\ Inserting => api.row.idx # 0
    /\ peer_lock.step = "free" => peer_lock = Peer!Free
    /\ peer_lock.step \notin {"free", "remove"} => peer_lock.idx = take /\ wiped < take
    /\ peer_lock.step \in {"create", "update"} => take \in revealed
    /\ peer_lock.step = "remove" => wiped = take
    /\ peer_lock.step \in {"free", "remove"} /\ wiped = take => peer_row.idx = 0

(* The order has its take's row; the session is that take's, or there is    *)
(* none and the chat API holds that take's row; what it revealed is in the  *)
(* row.                                                                     *)
OwnSound == Own =>
    /\ peer_row.idx = take /\ session.idx \in {0, take}
    /\ Inserting /\ api.row.idx # take => session.idx = take
    /\ Inserting /\ api.row.idx = take => peer_row.peer
    /\ Peer!Keyed(session) \/ Unspoiled \/ peer_lock.step \in {"create", "update"} => peer_row.peer

(* A new take's reply: the row is an earlier one's or none.  A reveal that  *)
(* met nothing of an earlier take is in a session of this take.             *)
ReplySound == Replying =>
    /\ peer_row.idx # take
    /\ Inserting => api.row.idx # take
    /\ peer_lock.step = "read" => take \notin revealed
    /\ peer_lock.step \in {"read", "create"} => session.idx # take
    /\ Unspoiled /\ peer_lock.step = "update" => session.idx = take
    /\ Unspoiled /\ peer_lock.step = "revealed" => session.idx = take /\ Peer!Keyed(session)

(* The tail of the take, with the row just written. *)
TailSound == Finishing =>
    /\ peer_row.idx = take /\ ~peer_row.peer
    /\ Inserting => api.row.idx # take
    /\ Unspoiled => session.idx = take /\ Peer!Keyed(session)
    /\ peer_lock.step = "replay" => session.idx = take

(* A key of another index than the session's is only met before the tail of *)
(* a take has replaced that session.                                        *)
KeySound == Peer!Keyed(session) =>
    \/ session.key = session.idx
    \/ peer_lock.step \in {"revealed", "install"} /\ session.idx # take

(* Nobody changes the session a handler has read and is about to write. *)
CopyCurrent == peer_lock.step = "update" =>
    session = peer_lock.copy /\ session.idx # 0 /\ session.key = 0

PeerInv == /\ Peer!TypeOK /\ PeerShapes /\ OwnSound /\ ReplySound /\ TailSound
           /\ KeySound /\ CopyCurrent

LEMMA FreeIs ==
    /\ Peer!Free.step = "free" /\ Peer!Free.idx = 0 /\ Peer!Free.reply = FALSE
    /\ Peer!Free.copy = Peer!NoSession
    /\ \A s, i, b : LET f == [Peer!Free EXCEPT !.step = s, !.idx = i, !.reply = b]
                    IN  f.step = s /\ f.idx = i /\ f.reply = b /\ f.copy = Peer!NoSession
BY DEF Peer!Free

(* Where a handler's lock goes when it is done. *)
LEMMA AfterIs ==
    ASSUME take \in Nat, NEW b \in BOOLEAN
    PROVE  /\ Peer!After(b) \in Locks
           /\ b => /\ Peer!After(b).step = "revealed" /\ Peer!After(b).idx = take
                   /\ Peer!After(b).reply = FALSE
           /\ ~b => Peer!After(b) = Peer!Free /\ Peer!After(b).step = "free"
<1>1. 0 \in 0 .. take /\ take \in 0 .. take
  OBVIOUS
<1>2. Peer!NoSession \in Sessions
  BY <1>1 DEF Peer!NoSession, Sessions
<1> QED
  BY <1>1, <1>2 DEF Peer!After, Peer!Free, Locks

LEMMA PeerNumbers ==
    PeerInv => /\ take \in Nat /\ wiped \in Nat /\ wiped <= take /\ session \in Sessions
               /\ session.idx \in Nat /\ session.key \in Nat /\ peer_row.idx \in Nat
               /\ peer_row.idx <= take /\ session.idx <= take
               /\ peer_row \in [idx : 0 .. take, peer : BOOLEAN] /\ peer_lock \in Locks
               /\ MaxTakes \in Nat /\ take <= MaxTakes
  BY TradesAssumption DEF PeerInv, Peer!TypeOK, Sessions, PeerShapes

LEMMA TakeReplyKeeps == PeerInv /\ Peer!take_reply => PeerInv'
<1> SUFFICES ASSUME PeerInv, Peer!take_reply PROVE PeerInv'
  OBVIOUS
<1>1. /\ peer_lock.step = "free" /\ take < MaxTakes /\ take' = take + 1
      /\ UNCHANGED <<peer_row, session, wiped, api, sent, revealed, overStale, sends, faults>>
      /\ peer_lock'.idx = take + 1 /\ peer_lock' \in Locks'
      /\ \/ peer_lock'.step = "revealed"
         \/ peer_lock'.step = "read" /\ peer_lock'.reply
  <2>1. take \in Nat /\ take < MaxTakes /\ take' = take + 1
    BY PeerNumbers DEF Peer!take_reply
  <2>2. Peer!NoSession \in Sessions'
    BY <2>1 DEF Peer!NoSession, Sessions
  <2>3. \/ peer_lock' = [Peer!Free EXCEPT !.step = "revealed", !.idx = take + 1]
        \/ peer_lock' = [Peer!Free EXCEPT !.step = "read", !.idx = take + 1, !.reply = TRUE]
    BY DEF Peer!take_reply, Peer!begin_reveal
  <2>4. /\ peer_lock'.idx = take + 1 /\ peer_lock' \in Locks'
        /\ \/ peer_lock'.step = "revealed"
           \/ peer_lock'.step = "read" /\ peer_lock'.reply
    <3>0. take + 1 \in 0 .. take'
      BY <2>1
    <3>1. CASE peer_lock' = [Peer!Free EXCEPT !.step = "revealed", !.idx = take + 1]
      <4>1. peer_lock' = [step |-> "revealed", idx |-> take + 1, copy |-> Peer!NoSession, reply |-> FALSE]
        BY <3>1 DEF Peer!Free
      <4> QED
        BY <2>2, <3>0, <4>1 DEF Locks
    <3>2. CASE peer_lock' = [Peer!Free EXCEPT !.step = "read", !.idx = take + 1, !.reply = TRUE]
      <4>1. peer_lock' = [step |-> "read", idx |-> take + 1, copy |-> Peer!NoSession, reply |-> TRUE]
        BY <3>2 DEF Peer!Free
      <4> QED
        BY <2>2, <3>0, <4>1 DEF Locks
    <3> QED
      BY <2>3, <3>1, <3>2
  <2> QED
    BY <2>1, <2>4 DEF Peer!take_reply, Peer!history, Peer!Free
<1>2. take \in Nat /\ take' \in 0 .. MaxTakes /\ 0 .. take \subseteq 0 .. take' /\ wiped < take'
  BY <1>1, PeerNumbers
<1>3. peer_row.idx < take' /\ session.idx < take' /\ take' \notin revealed
  BY <1>1, PeerNumbers DEF PeerInv, PeerShapes
<1>4. Peer!TypeOK'
  <2>1. peer_row' \in [idx : 0 .. take', peer : BOOLEAN] /\ session' \in [idx : 0 .. take', key : 0 .. take']
    BY <1>1, <1>2 DEF PeerInv, Peer!TypeOK
  <2>2. /\ peer_lock'.step \in {"free", "read", "create", "update", "revealed", "install", "replay", "remove"}
        /\ peer_lock'.idx \in 0 .. take' /\ peer_lock'.copy \in [idx : 0 .. take', key : 0 .. take']
        /\ peer_lock'.reply \in BOOLEAN
    BY <1>1 DEF Locks, Sessions
  <2>3. api'.row \in [idx : 0 .. take', peer : BOOLEAN] /\ wiped' \in 0 .. take'
    BY <1>1, <1>2 DEF PeerInv, Peer!TypeOK
  <2> QED
    BY <1>1, <1>2, <2>1, <2>2, <2>3 DEF PeerInv, Peer!TypeOK, Peer!Keyed
<1>5. PeerShapes'
  <2>1. revealed' \subseteq 1 .. take'
    BY <1>1, <1>2 DEF PeerInv, PeerShapes
  <2> QED
    BY <1>1, <1>2, <2>1 DEF PeerInv, PeerShapes, Inserting
<1>6. OwnSound' /\ TailSound' /\ CopyCurrent'
  BY <1>1 DEF OwnSound, TailSound, CopyCurrent, Own, Handling, Finishing
<1>7. ReplySound'
  <2>1. Inserting => api.row.idx # take'
    BY <1>1, PeerNumbers DEF PeerInv, Peer!TypeOK
  <2>2. ~Unspoiled' /\ peer_row'.idx # take' /\ take' \notin revealed' /\ session'.idx # take'
    BY <1>1, <1>2, <1>3, PeerNumbers DEF Unspoiled
  <2>3. Inserting' => api'.row.idx # take'
    BY <1>1, <2>1 DEF Inserting
  <2> QED
    BY <2>2, <2>3 DEF ReplySound
<1>8. KeySound'
  BY <1>1 DEF PeerInv, KeySound, Peer!Keyed
<1> QED
  BY <1>4, <1>5, <1>6, <1>7, <1>8 DEF PeerInv

(* The types, when the last take stays the last. *)
LEMMA PeerTypes ==
    ASSUME PeerInv, UNCHANGED <<take, sends, faults>>, peer_lock' \in Locks,
           peer_row' \in [idx : 0 .. take, peer : BOOLEAN], session' \in Sessions,
           session'.idx = 0 => session'.key = 0, wiped' \in 0 .. take,
           api'.step \in {"idle", "looked", "insert"}, api'.row \in [idx : 0 .. take, peer : BOOLEAN],
           sent' \in {"nothing", "published", "local"},
           revealed' \subseteq Peer!Takes, overStale' \subseteq revealed'
    PROVE  Peer!TypeOK' /\ peer_lock' \in Locks'
BY DEF PeerInv, Peer!TypeOK, Locks, Sessions, Peer!Keyed

LEMMA DaemonMessageKeeps == PeerInv /\ Peer!daemon_message => PeerInv'
<1> SUFFICES ASSUME PeerInv, Peer!daemon_message PROVE PeerInv'
  OBVIOUS
<1>0. take \in Nat /\ Peer!NoSession \in Sessions /\ take \in 0 .. take
  BY PeerNumbers DEF Peer!NoSession, Sessions
<1>1. /\ peer_lock.step = "free" /\ wiped < take
      /\ UNCHANGED <<peer_row, session, take, wiped, api, sent, revealed, overStale, sends, faults>>
      /\ peer_lock' = [Peer!Free EXCEPT !.step = "read", !.idx = take, !.reply = FALSE]
  BY DEF Peer!daemon_message, Peer!history, Peer!Free, Peer!begin_reveal
<1>2. peer_lock' \in Locks /\ peer_lock'.step = "read" /\ peer_lock'.idx = take /\ peer_lock'.reply = FALSE
  BY <1>0, <1>1 DEF Peer!Free, Locks
<1>3. Peer!TypeOK' /\ peer_lock' \in Locks'
  BY <1>1, <1>2 DEF PeerInv, Peer!TypeOK, Locks, Sessions, Peer!Keyed
<1>4. PeerShapes'
  BY <1>1, <1>2, <1>3 DEF PeerInv, PeerShapes, Inserting
<1>5. OwnSound'
  BY <1>1, <1>2 DEF PeerInv, OwnSound, Own, Handling, Inserting, Unspoiled, Peer!Keyed
<1>6. ReplySound' /\ TailSound' /\ CopyCurrent'
  BY <1>1, <1>2 DEF ReplySound, TailSound, CopyCurrent, Replying, Handling, Finishing
<1>7. KeySound'
  BY <1>1 DEF PeerInv, KeySound, Peer!Keyed
<1> QED
  BY <1>3, <1>4, <1>5, <1>6, <1>7 DEF PeerInv

LEMMA CaptureKeeps == PeerInv /\ Peer!capture => PeerInv'
<1> SUFFICES ASSUME PeerInv, Peer!capture PROVE PeerInv'
  OBVIOUS
<1>0. /\ take \in Nat /\ peer_lock.step = "read" /\ peer_lock.idx = take /\ wiped < take
      /\ peer_lock \in Locks /\ session \in Sessions /\ peer_lock.reply \in BOOLEAN
      /\ peer_row \in [idx : 0 .. take, peer : BOOLEAN] /\ wiped \in 0 .. take
      /\ take \in Peer!Takes
  BY PeerNumbers DEF Peer!capture, PeerInv, PeerShapes, Locks, Peer!TypeOK, Peer!Takes
<1>1. /\ UNCHANGED <<session, take, wiped, api, sent, sends, faults>>
      /\ revealed' = revealed \cup {take}
      /\ overStale' = IF {session.idx, peer_row.idx} \subseteq {0, take}
                      THEN overStale ELSE overStale \cup {take}
  BY <1>0 DEF Peer!capture
<1>2. overStale' \subseteq revealed' /\ revealed' \subseteq Peer!Takes /\ revealed' \subseteq 1 .. take
  BY <1>0, <1>1 DEF PeerInv, Peer!TypeOK, PeerShapes
<1>3. Unspoiled' => session.idx \in {0, take} /\ peer_row.idx \in {0, take}
  BY <1>1 DEF Unspoiled
<1>4. CASE session.key # 0
  <2>1. peer_lock' = Peer!After(peer_lock.reply) /\ peer_row' = peer_row
    BY <1>4 DEF Peer!capture, Peer!Keyed
  <2>2. /\ peer_lock' \in Locks
        /\ peer_lock.reply => peer_lock'.step = "revealed" /\ peer_lock'.idx = take /\ peer_lock'.reply = FALSE
        /\ ~peer_lock.reply => peer_lock' = Peer!Free /\ peer_lock'.step = "free"
    BY <1>0, <2>1, AfterIs
  <2>3. Peer!TypeOK' /\ peer_lock' \in Locks'
    BY <1>0, <1>1, <1>2, <2>1, <2>2, PeerTypes DEF PeerInv, Peer!TypeOK, Peer!Keyed
  <2>4. PeerShapes'
    BY <1>0, <1>1, <1>2, <2>1, <2>2, <2>3 DEF PeerInv, PeerShapes, Inserting, Peer!Free
  <2>5. OwnSound'
    BY <1>0, <1>1, <1>4, <2>1, <2>2
       DEF PeerInv, OwnSound, Own, Handling, Inserting, Unspoiled, Peer!Keyed
  <2>6. ReplySound'
    <3>1. session.idx # 0
      BY <1>4 DEF PeerInv, Peer!TypeOK, Peer!Keyed
    <3> QED
      BY <1>0, <1>1, <1>3, <1>4, <2>1, <2>2, <3>1
         DEF PeerInv, ReplySound, Replying, Handling, Inserting, Peer!Keyed
  <2>7. TailSound' /\ CopyCurrent'
    BY <2>2 DEF TailSound, CopyCurrent, Finishing
  <2>8. KeySound'
    BY <1>0, <1>1 DEF PeerInv, KeySound, Peer!Keyed
  <2> QED
    BY <2>3, <2>4, <2>5, <2>6, <2>7, <2>8 DEF PeerInv
<1>5. CASE session.key = 0
  <2> DEFINE s == IF session.idx # 0 THEN "update" ELSE "create"
  <2>1. /\ peer_lock' = [peer_lock EXCEPT !.step = s, !.copy = session]
        /\ peer_row' = IF peer_row.idx # 0 THEN [peer_row EXCEPT !.peer = TRUE] ELSE peer_row
    BY <1>5 DEF Peer!capture, Peer!Keyed, Peer!Exists
  <2>2. /\ peer_lock' \in Locks /\ peer_lock'.step = s /\ peer_lock'.idx = take
        /\ peer_lock'.copy = session /\ peer_lock'.reply = peer_lock.reply
    BY <1>0, <2>1 DEF Locks
  <2>3. /\ peer_row' \in [idx : 0 .. take, peer : BOOLEAN] /\ peer_row'.idx = peer_row.idx
        /\ peer_row'.peer = (peer_row.idx # 0 \/ peer_row.peer)
    BY <1>0, <2>1
  <2>4. Peer!TypeOK' /\ peer_lock' \in Locks'
    BY <1>0, <1>1, <1>2, <2>2, <2>3, PeerTypes DEF PeerInv, Peer!TypeOK, Peer!Keyed
  <2>5. PeerShapes'
    BY <1>0, <1>1, <1>2, <2>2, <2>3, <2>4 DEF PeerInv, PeerShapes, Inserting
  <2>6. OwnSound'
    BY <1>0, <1>1, <2>2, <2>3 DEF PeerInv, OwnSound, Own, Handling, Inserting
  <2>7. ReplySound'
    BY <1>0, <1>1, <1>3, <2>2, <2>3 DEF PeerInv, ReplySound, Replying, Handling, Inserting
  <2>8. TailSound'
    BY <2>2 DEF TailSound, Finishing
  <2>9. KeySound' /\ CopyCurrent'
    BY <1>1, <1>5, <2>2 DEF KeySound, CopyCurrent, Peer!Keyed
  <2> QED
    BY <2>4, <2>5, <2>6, <2>7, <2>8, <2>9 DEF PeerInv
<1> QED
  BY <1>0, <1>4, <1>5

LEMMA CreateKeeps == PeerInv /\ Peer!create_session => PeerInv'
<1> SUFFICES ASSUME PeerInv, Peer!create_session PROVE PeerInv'
  OBVIOUS
<1>0. /\ take \in Nat /\ peer_lock.step = "create" /\ peer_lock.idx = take /\ wiped < take
      /\ peer_lock \in Locks /\ session \in Sessions /\ peer_lock.reply \in BOOLEAN
      /\ peer_row \in [idx : 0 .. take, peer : BOOLEAN] /\ wiped \in 0 .. take
      /\ take \in Peer!Takes /\ 0 \in 0 .. take /\ take \in 0 .. take /\ take # 0
  BY PeerNumbers DEF Peer!create_session, PeerInv, PeerShapes, Locks, Peer!TypeOK, Peer!Takes
<1>1. UNCHANGED <<peer_row, take, wiped, api, sent, revealed, sends, faults>>
  BY DEF Peer!create_session
<1>2. CASE session.idx # 0
  <2>1. /\ peer_lock' = Peer!After(peer_lock.reply) /\ session' = session
        /\ overStale' = IF session.idx = take THEN overStale ELSE overStale \cup {take}
    BY <1>0, <1>2 DEF Peer!create_session, Peer!Exists
  <2>2. /\ peer_lock' \in Locks
        /\ peer_lock.reply => peer_lock'.step = "revealed" /\ peer_lock'.idx = take /\ peer_lock'.reply = FALSE
        /\ ~peer_lock.reply => peer_lock' = Peer!Free /\ peer_lock'.step = "free"
    BY <1>0, <2>1, AfterIs
  <2>3. take \in revealed /\ overStale' \subseteq revealed
    BY <1>0, <2>1 DEF PeerInv, PeerShapes, Peer!TypeOK
  <2>4. Peer!TypeOK' /\ peer_lock' \in Locks'
    BY <1>0, <1>1, <2>1, <2>2, <2>3, PeerTypes DEF PeerInv, Peer!TypeOK, Peer!Keyed
  <2>5. PeerShapes'
    BY <1>0, <1>1, <2>1, <2>2, <2>4 DEF PeerInv, PeerShapes, Inserting, Peer!Free
  <2>6. OwnSound'
    BY <1>0, <1>1, <2>1, <2>2 DEF PeerInv, OwnSound, Own, Handling, Inserting, Peer!Keyed
  <2>7. KeySound'
    BY <1>0, <1>1, <2>1 DEF PeerInv, KeySound, Peer!Keyed
  <2>8. ReplySound'
    BY <1>0, <1>1, <2>1, <2>2 DEF PeerInv, ReplySound, Replying, Handling, Inserting, Unspoiled, Peer!Keyed
  <2>9. TailSound' /\ CopyCurrent'
    BY <2>2 DEF TailSound, CopyCurrent, Finishing
  <2> QED
    BY <2>4, <2>5, <2>6, <2>7, <2>8, <2>9 DEF PeerInv
<1>3. CASE session.idx = 0
  <2> DEFINE s == [idx |-> take, key |-> 0]
  <2>1. /\ peer_lock' = [peer_lock EXCEPT !.step = "update", !.copy = s] /\ session' = s
        /\ overStale' = overStale
    BY <1>0, <1>3 DEF Peer!create_session, Peer!Exists
  <2>2. s \in Sessions /\ s.idx = take /\ s.key = 0
    BY <1>0 DEF Sessions
  <2> HIDE DEF s
  <2>3. /\ peer_lock' \in Locks /\ peer_lock'.step = "update" /\ peer_lock'.idx = take
        /\ peer_lock'.copy = s /\ peer_lock'.reply = peer_lock.reply
    BY <1>0, <2>1, <2>2 DEF Locks
  <2>4. Peer!TypeOK' /\ peer_lock' \in Locks'
    BY <1>0, <1>1, <2>1, <2>2, <2>3, PeerTypes DEF PeerInv, Peer!TypeOK
  <2>5. PeerShapes'
    BY <1>0, <1>1, <2>1, <2>3, <2>4 DEF PeerInv, PeerShapes, Inserting
  <2>6. OwnSound'
    BY <1>0, <1>1, <2>1, <2>2, <2>3
       DEF PeerInv, OwnSound, Own, Handling, Inserting, Unspoiled, Peer!Keyed
  <2>7. ReplySound'
    BY <1>0, <1>1, <2>1, <2>2, <2>3
       DEF PeerInv, ReplySound, Replying, Handling, Inserting, Unspoiled
  <2>8. TailSound' /\ KeySound' /\ CopyCurrent'
    BY <1>0, <2>1, <2>2, <2>3 DEF TailSound, Finishing, KeySound, CopyCurrent, Peer!Keyed
  <2> QED
    BY <2>4, <2>5, <2>6, <2>7, <2>8 DEF PeerInv
<1> QED
  BY <1>2, <1>3

LEMMA UpdateKeeps == PeerInv /\ Peer!update_session => PeerInv'
<1> SUFFICES ASSUME PeerInv, Peer!update_session PROVE PeerInv'
  OBVIOUS
<1>0. /\ take \in Nat /\ peer_lock.step = "update" /\ peer_lock.idx = take /\ wiped < take
      /\ peer_lock \in Locks /\ session \in Sessions /\ peer_lock.reply \in BOOLEAN
      /\ peer_row \in [idx : 0 .. take, peer : BOOLEAN] /\ take # 0 /\ take \in 0 .. take
      /\ session = peer_lock.copy /\ session.idx # 0 /\ session.key = 0
  <2>1. /\ peer_lock.step = "update" /\ peer_lock.idx = take /\ wiped < take
        /\ session = peer_lock.copy /\ session.idx # 0 /\ session.key = 0
    BY DEF Peer!update_session, PeerInv, PeerShapes, CopyCurrent
  <2>2. /\ take \in Nat /\ wiped \in Nat /\ peer_lock \in Locks /\ session \in Sessions
        /\ peer_row \in [idx : 0 .. take, peer : BOOLEAN]
    BY PeerNumbers
  <2> QED
    BY <2>1, <2>2 DEF Locks
<1>1. /\ peer_lock' = Peer!After(peer_lock.reply) /\ session' = [session EXCEPT !.key = take]
      /\ UNCHANGED <<peer_row, take, wiped, api, sent, revealed, overStale, sends, faults>>
  BY <1>0 DEF Peer!update_session, Peer!Exists, Peer!history
<1>2. /\ peer_lock' \in Locks
      /\ peer_lock.reply => peer_lock'.step = "revealed" /\ peer_lock'.idx = take /\ peer_lock'.reply = FALSE
      /\ ~peer_lock.reply => peer_lock' = Peer!Free /\ peer_lock'.step = "free"
  BY <1>0, <1>1, AfterIs
<1>3. session' \in Sessions /\ session'.idx = session.idx /\ session'.key = take
  BY <1>0, <1>1 DEF Sessions
<1>4. Peer!TypeOK' /\ peer_lock' \in Locks'
  BY <1>0, <1>1, <1>2, <1>3, PeerTypes DEF PeerInv, Peer!TypeOK
<1>5. PeerShapes'
  BY <1>0, <1>1, <1>2, <1>4 DEF PeerInv, PeerShapes, Inserting, Peer!Free
<1>6. OwnSound'
  BY <1>0, <1>1, <1>2, <1>3
     DEF PeerInv, OwnSound, Own, Handling, Inserting, Unspoiled, Peer!Keyed
<1>7. ReplySound'
  BY <1>0, <1>1, <1>2, <1>3
     DEF PeerInv, ReplySound, Replying, Handling, Inserting, Unspoiled, Peer!Keyed
<1>8. TailSound' /\ CopyCurrent'
  BY <1>2 DEF TailSound, CopyCurrent, Finishing
<1>9. KeySound'
  <2>1. CASE peer_lock.reply
    BY <1>1, <1>2, <1>3, <2>1 DEF KeySound
  <2>2. CASE ~peer_lock.reply
    <3>1. session.idx = take
      BY <1>0, <2>2 DEF PeerInv, OwnSound, Own, Handling
    <3> QED
      BY <1>3, <3>1 DEF KeySound
  <2> QED
    BY <1>0, <2>1, <2>2
<1> QED
  BY <1>4, <1>5, <1>6, <1>7, <1>8, <1>9 DEF PeerInv

(* The tail of a take. *)
LEMMA PersistKeeps == PeerInv /\ Peer!persist_confirmed_take => PeerInv'
<1> SUFFICES ASSUME PeerInv, Peer!persist_confirmed_take PROVE PeerInv'
  OBVIOUS
<1>0. /\ peer_lock.step = "revealed" /\ peer_lock.idx = take /\ wiped < take
      /\ take \in Nat /\ wiped \in Nat /\ peer_lock \in Locks /\ session \in Sessions
  <2>1. peer_lock.step = "revealed" /\ peer_lock.idx = take /\ wiped < take
    BY DEF Peer!persist_confirmed_take, PeerInv, PeerShapes
  <2> QED
    BY <2>1, PeerNumbers
<1>1. /\ peer_row' = [idx |-> take, peer |-> FALSE] /\ peer_lock' = [peer_lock EXCEPT !.step = "install"]
      /\ UNCHANGED <<session, take, wiped, api, sent, revealed, overStale, sends, faults>>
  BY <1>0 DEF Peer!persist_confirmed_take, Peer!history
<1>2. /\ peer_lock' \in Locks /\ peer_lock'.step = "install" /\ peer_lock'.idx = take
      /\ take \in 0 .. take /\ take # 0
  BY <1>0, <1>1 DEF Locks
<1>3. peer_row' \in [idx : 0 .. take, peer : BOOLEAN] /\ peer_row'.idx = take /\ peer_row'.peer = FALSE
  BY <1>1, <1>2
<1>4. Peer!TypeOK' /\ peer_lock' \in Locks'
  BY <1>0, <1>1, <1>2, <1>3, PeerTypes DEF PeerInv, Peer!TypeOK, Peer!Keyed
<1>5. PeerShapes'
  BY <1>0, <1>1, <1>2, <1>3, <1>4 DEF PeerInv, PeerShapes, Inserting
<1>6. OwnSound' /\ ReplySound' /\ CopyCurrent'
  BY <1>2 DEF OwnSound, ReplySound, CopyCurrent, Own, Replying, Handling
<1>7. TailSound'
  BY <1>0, <1>1, <1>2, <1>3
     DEF PeerInv, TailSound, Finishing, ReplySound, Replying, Inserting, Unspoiled, Peer!Keyed
<1>8. KeySound'
  BY <1>0, <1>1, <1>2 DEF PeerInv, KeySound, Peer!Keyed
<1> QED
  BY <1>4, <1>5, <1>6, <1>7, <1>8 DEF PeerInv

LEMMA InstallKeeps == PeerInv /\ Peer!install_session => PeerInv'
<1> SUFFICES ASSUME PeerInv, Peer!install_session PROVE PeerInv'
  OBVIOUS
<1>0. /\ peer_lock.step = "install" /\ peer_lock.idx = take /\ wiped < take
      /\ take \in Nat /\ wiped \in Nat /\ peer_lock \in Locks /\ session \in Sessions
  <2>1. peer_lock.step = "install" /\ peer_lock.idx = take /\ wiped < take
    BY DEF Peer!install_session, PeerInv, PeerShapes
  <2> QED
    BY <2>1, PeerNumbers
<1>1. /\ session' = IF session.idx = take THEN session ELSE [idx |-> take, key |-> 0]
      /\ peer_lock' = [peer_lock EXCEPT !.step = "replay"]
      /\ UNCHANGED <<peer_row, take, wiped, api, sent, revealed, overStale, sends, faults>>
  BY <1>0 DEF Peer!install_session, Peer!history
<1>2. /\ peer_lock' \in Locks /\ peer_lock'.step = "replay" /\ peer_lock'.idx = take
      /\ take \in 0 .. take /\ 0 \in 0 .. take /\ take # 0
  BY <1>0, <1>1 DEF Locks
<1>3. /\ session' \in Sessions /\ session'.idx = take
      /\ session' = session \/ session'.key = 0
      /\ session.idx = take => session' = session
  BY <1>0, <1>1, <1>2 DEF Sessions
<1>4. Peer!TypeOK' /\ peer_lock' \in Locks'
  BY <1>0, <1>1, <1>2, <1>3, PeerTypes DEF PeerInv, Peer!TypeOK
<1>5. PeerShapes'
  BY <1>0, <1>1, <1>2, <1>4 DEF PeerInv, PeerShapes, Inserting
<1>6. OwnSound' /\ ReplySound' /\ CopyCurrent'
  BY <1>2 DEF OwnSound, ReplySound, CopyCurrent, Own, Replying, Handling
<1>7. TailSound'
  BY <1>0, <1>1, <1>2, <1>3 DEF PeerInv, TailSound, Finishing, Inserting, Unspoiled, Peer!Keyed
<1>8. KeySound'
  BY <1>0, <1>1, <1>3 DEF PeerInv, KeySound, Peer!Keyed
<1> QED
  BY <1>4, <1>5, <1>6, <1>7, <1>8 DEF PeerInv

LEMMA ReplayKeeps == PeerInv /\ Peer!replay_reveal => PeerInv'
<1> SUFFICES ASSUME PeerInv, Peer!replay_reveal PROVE PeerInv'
  OBVIOUS
<1>0. /\ peer_lock.step = "replay" /\ peer_lock.idx = take /\ wiped < take
      /\ take \in Nat /\ wiped \in Nat /\ peer_lock \in Locks /\ session \in Sessions
      /\ peer_row \in [idx : 0 .. take, peer : BOOLEAN]
  <2>1. peer_lock.step = "replay" /\ peer_lock.idx = take /\ wiped < take
    BY DEF Peer!replay_reveal, PeerInv, PeerShapes
  <2> QED
    BY <2>1, PeerNumbers
<1>1. /\ peer_row' = IF session.key # 0 THEN [peer_row EXCEPT !.peer = TRUE] ELSE peer_row
      /\ peer_lock' = Peer!Free
      /\ UNCHANGED <<session, take, wiped, api, sent, revealed, overStale, sends, faults>>
  BY DEF Peer!replay_reveal, Peer!history, Peer!Keyed
<1>2. peer_lock' \in Locks /\ peer_lock'.step = "free" /\ take # 0
  <2>1. 0 \in 0 .. take
    BY <1>0
  <2>2. Peer!NoSession \in Sessions
    BY <2>1 DEF Peer!NoSession, Sessions
  <2> QED
    BY <1>0, <1>1, <2>1, <2>2 DEF Peer!Free, Locks
<1>3. /\ peer_row' \in [idx : 0 .. take, peer : BOOLEAN] /\ peer_row'.idx = take
      /\ session.key # 0 => peer_row'.peer
  BY <1>0, <1>1 DEF PeerInv, TailSound, Finishing
<1>4. Peer!TypeOK' /\ peer_lock' \in Locks'
  BY <1>0, <1>1, <1>2, <1>3, PeerTypes DEF PeerInv, Peer!TypeOK, Peer!Keyed
<1>5. PeerShapes'
  BY <1>0, <1>1, <1>2, <1>3, <1>4 DEF PeerInv, PeerShapes, Inserting
<1>6. OwnSound'
  BY <1>0, <1>1, <1>2, <1>3
     DEF PeerInv, OwnSound, Own, Handling, TailSound, Finishing, Inserting, Unspoiled, Peer!Keyed
<1>7. ReplySound' /\ TailSound' /\ CopyCurrent'
  BY <1>2 DEF ReplySound, TailSound, CopyCurrent, Replying, Handling, Finishing
<1>8. KeySound'
  BY <1>0, <1>1 DEF PeerInv, KeySound, Peer!Keyed
<1> QED
  BY <1>4, <1>5, <1>6, <1>7, <1>8 DEF PeerInv

(* The daemon's cancel. *)
LEMMA WipeRowKeeps == PeerInv /\ Peer!wipe_row => PeerInv'
<1> SUFFICES ASSUME PeerInv, Peer!wipe_row PROVE PeerInv'
  OBVIOUS
<1>0. /\ peer_lock.step = "free" /\ peer_row.idx # 0 /\ peer_row.idx = take
      /\ take \in Nat /\ wiped \in Nat
  <2>1. peer_lock.step = "free" /\ peer_row.idx # 0
    BY DEF Peer!wipe_row, Peer!Free, Peer!Exists
  <2>2. take \in Nat /\ wiped \in Nat /\ wiped <= take
    BY PeerNumbers
  <2>3. wiped < take
    BY <2>1, <2>2 DEF PeerInv, PeerShapes
  <2> QED
    BY <2>1, <2>2, <2>3 DEF PeerInv, OwnSound, Own
<1>1. /\ peer_row' = Peer!NoRow /\ wiped' = take /\ peer_lock' = [Peer!Free EXCEPT !.step = "remove"]
      /\ UNCHANGED <<session, take, api, sent, revealed, overStale, sends, faults>>
  BY <1>0 DEF Peer!wipe_row, Peer!history
<1>2. peer_lock' \in Locks /\ peer_lock'.step = "remove"
  <2>1. 0 \in 0 .. take
    BY <1>0
  <2>2. Peer!NoSession \in Sessions
    BY <2>1 DEF Peer!NoSession, Sessions
  <2>3. peer_lock' = [step |-> "remove", idx |-> 0, copy |-> Peer!NoSession, reply |-> FALSE]
    BY <1>1 DEF Peer!Free
  <2> QED
    BY <2>1, <2>2, <2>3 DEF Locks
<1>3. /\ peer_row' \in [idx : 0 .. take, peer : BOOLEAN] /\ peer_row'.idx = 0 /\ peer_row'.peer = FALSE
      /\ take \in 0 .. take
  BY <1>0, <1>1 DEF Peer!NoRow
<1>4. Peer!TypeOK' /\ peer_lock' \in Locks'
  BY <1>0, <1>1, <1>2, <1>3, PeerTypes, PeerNumbers DEF PeerInv, Peer!TypeOK, Peer!Keyed
<1>5. PeerShapes'
  BY <1>0, <1>1, <1>2, <1>3, <1>4 DEF PeerInv, PeerShapes, Inserting
<1>6. OwnSound' /\ ReplySound' /\ TailSound' /\ CopyCurrent'
  BY <1>2 DEF OwnSound, ReplySound, TailSound, CopyCurrent, Own, Replying, Finishing, Handling
<1>7. KeySound'
  BY <1>0, <1>1 DEF PeerInv, KeySound, Peer!Keyed
<1> QED
  BY <1>4, <1>5, <1>6, <1>7 DEF PeerInv

LEMMA RemoveKeeps == PeerInv /\ Peer!remove_session => PeerInv'
<1> SUFFICES ASSUME PeerInv, Peer!remove_session PROVE PeerInv'
  OBVIOUS
<1>0. peer_lock.step = "remove" /\ wiped = take /\ peer_row.idx = 0 /\ take \in Nat
  BY PeerNumbers DEF Peer!remove_session, PeerInv, PeerShapes
<1>1. /\ session' = Peer!NoSession /\ peer_lock' = Peer!Free
      /\ UNCHANGED <<peer_row, take, wiped, api, sent, revealed, overStale, sends, faults>>
  BY DEF Peer!remove_session, Peer!history
<1>2. /\ peer_lock' \in Locks /\ peer_lock'.step = "free"
      /\ session' \in Sessions /\ session'.idx = 0 /\ session'.key = 0
  <2>1. 0 \in 0 .. take
    BY <1>0
  <2>2. Peer!NoSession \in Sessions /\ Peer!NoSession.idx = 0 /\ Peer!NoSession.key = 0
    BY <2>1 DEF Peer!NoSession, Sessions
  <2> QED
    BY <1>1, <2>1, <2>2 DEF Peer!Free, Locks
<1>3. Peer!TypeOK' /\ peer_lock' \in Locks'
  BY <1>0, <1>1, <1>2, PeerTypes DEF PeerInv, Peer!TypeOK
<1>4. PeerShapes'
  BY <1>0, <1>1, <1>2, <1>3 DEF PeerInv, PeerShapes, Inserting
<1>5. OwnSound' /\ ReplySound' /\ TailSound' /\ CopyCurrent' /\ KeySound'
  BY <1>0, <1>1, <1>2
     DEF OwnSound, ReplySound, TailSound, CopyCurrent, KeySound, Own, Replying, Finishing,
         Handling, Peer!Keyed
<1> QED
  BY <1>3, <1>4, <1>5 DEF PeerInv

(* The chat API: it takes no lock. *)
LEMMA GetSessionKeeps == PeerInv /\ Peer!api_get_session => PeerInv'
<1> SUFFICES ASSUME PeerInv, Peer!api_get_session PROVE PeerInv'
  OBVIOUS
<1>1. /\ sends' = sends + 1 /\ sends < MaxSends
      /\ UNCHANGED <<peer_row, session, peer_lock, take, wiped, revealed, overStale, faults>>
      /\ sent' \in {sent, "published", "local"}
      /\ \/ api' = api
         \/ api'.step = "looked" /\ api'.row = Peer!NoRow
  BY DEF Peer!api_get_session
<1>2. /\ Inserting' => Inserting /\ api' = api
      /\ api'.step \in {"idle", "looked", "insert"} /\ api'.row \in [idx : 0 .. take, peer : BOOLEAN]
  <2>1. take \in Nat /\ Peer!NoRow \in [idx : 0 .. take, peer : BOOLEAN]
    BY PeerNumbers DEF Peer!NoRow
  <2> QED
    BY <1>1, <2>1 DEF PeerInv, Peer!TypeOK, Inserting
<1>3. sends' \in 0 .. MaxSends
  BY <1>1, TradesAssumption DEF PeerInv, Peer!TypeOK
<1>4. Peer!TypeOK'
  BY <1>1, <1>2, <1>3 DEF PeerInv, Peer!TypeOK, Peer!Keyed
<1>5. PeerShapes' /\ KeySound' /\ CopyCurrent'
  BY <1>1, <1>2 DEF PeerInv, PeerShapes, KeySound, CopyCurrent, Peer!Keyed, Locks, Sessions
<1>6. OwnSound' /\ ReplySound' /\ TailSound'
  BY <1>1, <1>2 DEF PeerInv, OwnSound, ReplySound, TailSound, Own, Replying, Finishing, Handling,
                    Unspoiled, Peer!Keyed
<1> QED
  BY <1>4, <1>5, <1>6 DEF PeerInv

LEMMA ReadRowKeeps == PeerInv /\ Peer!api_read_row => PeerInv'
<1> SUFFICES ASSUME PeerInv, Peer!api_read_row PROVE PeerInv'
  OBVIOUS
<1>0. take \in Nat /\ Peer!NoRow \in [idx : 0 .. take, peer : BOOLEAN]
  BY PeerNumbers DEF Peer!NoRow
<1>1. /\ UNCHANGED <<peer_row, session, peer_lock, take, wiped, revealed, overStale, sends, faults>>
      /\ sent' \in {sent, "local"} /\ api.step = "looked"
      /\ \/ peer_row.peer /\ api' = [step |-> "insert", row |-> peer_row]
         \/ api' = [step |-> "idle", row |-> Peer!NoRow]
  BY DEF Peer!api_read_row, Peer!Rebuildable
<1>2. /\ Inserting' => api'.row = peer_row /\ peer_row.peer
      /\ api'.step \in {"idle", "looked", "insert"} /\ api'.row \in [idx : 0 .. take, peer : BOOLEAN]
  BY <1>0, <1>1 DEF PeerInv, Peer!TypeOK, Inserting
<1>3. Peer!TypeOK'
  BY <1>1, <1>2 DEF PeerInv, Peer!TypeOK, Peer!Keyed
<1>4. PeerShapes' /\ KeySound' /\ CopyCurrent'
  BY <1>1, <1>2 DEF PeerInv, PeerShapes, KeySound, CopyCurrent, Peer!Keyed, Locks, Sessions
<1>5. OwnSound'
  BY <1>1, <1>2 DEF PeerInv, OwnSound, Own, Handling, Unspoiled, Peer!Keyed
<1>6. ReplySound' /\ TailSound'
  BY <1>1, <1>2 DEF PeerInv, ReplySound, TailSound, Replying, Finishing, Handling, Unspoiled, Peer!Keyed
<1> QED
  BY <1>3, <1>4, <1>5, <1>6 DEF PeerInv

LEMMA InsertKeeps == PeerInv /\ Peer!create_session_with_peer => PeerInv'
<1> SUFFICES ASSUME PeerInv, Peer!create_session_with_peer PROVE PeerInv'
  OBVIOUS
<1> DEFINE i == api.row.idx
<1>0. /\ take \in Nat /\ Peer!NoRow \in [idx : 0 .. take, peer : BOOLEAN] /\ Inserting
      /\ session \in Sessions /\ i \in 0 .. take /\ i # 0
  <2>1. Inserting
    BY DEF Peer!create_session_with_peer, Inserting
  <2> QED
    BY <2>1, PeerNumbers DEF Peer!NoRow, PeerInv, Peer!TypeOK, PeerShapes
<1>1. /\ UNCHANGED <<peer_row, peer_lock, take, wiped, revealed, overStale, sends, faults>>
      /\ session' = IF session.idx # 0 THEN session ELSE [idx |-> i, key |-> i]
      /\ api' = [step |-> "idle", row |-> Peer!NoRow]
      /\ sent' \in {"published", "local"}
  BY DEF Peer!create_session_with_peer, Peer!Exists
<1>2. ~Inserting'
  BY <1>1 DEF Inserting
<1>3. CASE session.idx # 0
  <2>1. session' = session
    BY <1>1, <1>3
  <2>2. Peer!TypeOK'
    BY <1>0, <1>1, <2>1 DEF PeerInv, Peer!TypeOK, Peer!Keyed
  <2>3. PeerShapes' /\ KeySound' /\ CopyCurrent'
    BY <1>1, <1>2, <2>1 DEF PeerInv, PeerShapes, KeySound, CopyCurrent, Peer!Keyed, Locks, Sessions
  <2>4. OwnSound' /\ ReplySound' /\ TailSound'
    BY <1>1, <1>2, <2>1 DEF PeerInv, OwnSound, ReplySound, TailSound, Own, Replying, Finishing,
                            Handling, Unspoiled, Peer!Keyed
  <2> QED
    BY <2>2, <2>3, <2>4 DEF PeerInv
<1>4. CASE session.idx = 0
  <2>1. session' \in Sessions /\ session'.idx = i /\ session'.key = i /\ session.key = 0
    BY <1>0, <1>1, <1>4 DEF Sessions, PeerInv, Peer!TypeOK, Peer!Keyed
  <2>2. Peer!TypeOK'
    BY <1>0, <1>1, <2>1 DEF PeerInv, Peer!TypeOK, Peer!Keyed, Sessions
  <2>3. PeerShapes' /\ KeySound'
    BY <1>1, <1>2, <2>1 DEF PeerInv, PeerShapes, KeySound, Locks, Sessions
  <2>4. CopyCurrent'
    BY <1>1, <1>4 DEF PeerInv, CopyCurrent
  <2>5. OwnSound'
    BY <1>0, <1>1, <1>2, <1>4, <2>1
       DEF PeerInv, PeerShapes, OwnSound, Own, Handling, Unspoiled, Peer!Keyed
  <2>6. ReplySound'
    BY <1>0, <1>1, <1>2, <1>4, <2>1
       DEF PeerInv, CopyCurrent, ReplySound, Replying, Handling, Unspoiled, Peer!Keyed
  <2>7. TailSound'
    BY <1>0, <1>1, <1>2, <1>4, <2>1
       DEF PeerInv, PeerShapes, TailSound, Finishing, Unspoiled, Peer!Keyed
  <2> QED
    BY <2>2, <2>3, <2>4, <2>5, <2>6, <2>7 DEF PeerInv
<1> QED
  BY <1>3, <1>4

(* The sweep and a restart: only between two handlers. *)
LEMMA FaultKeeps == PeerInv /\ (Peer!cleanup_stale_sessions \/ Peer!restart) => PeerInv'
<1> SUFFICES ASSUME PeerInv, Peer!cleanup_stale_sessions \/ Peer!restart PROVE PeerInv'
  OBVIOUS
<1>0. take \in Nat /\ Peer!NoRow \in [idx : 0 .. take, peer : BOOLEAN] /\ 0 \in 0 .. take
  BY PeerNumbers DEF Peer!NoRow
<1>1. /\ peer_lock = Peer!Free /\ faults < MaxFaults /\ faults' = faults + 1
      /\ session' = Peer!NoSession
      /\ UNCHANGED <<peer_row, peer_lock, take, wiped, sends>>
      /\ revealed' = revealed \/ revealed' = {}
      /\ overStale' = IF revealed' = revealed THEN overStale ELSE {}
      /\ sent' \in {"nothing", sent}
      /\ api'.step = "idle" /\ api'.row \in {api.row, Peer!NoRow}
  <2>1. CASE Peer!cleanup_stale_sessions
    BY <2>1 DEF Peer!cleanup_stale_sessions, Peer!history
  <2>2. CASE Peer!restart
    <3>1. revealed = {} => overStale = {}
      BY DEF PeerInv, Peer!TypeOK
    <3> QED
      BY <2>2, <3>1 DEF Peer!restart
  <2> QED
    BY <2>1, <2>2
<1>2. /\ session' \in Sessions /\ session'.idx = 0 /\ session'.key = 0 /\ peer_lock.step = "free"
      /\ ~Inserting' /\ faults' \in 0 .. MaxFaults
  <2>1. Peer!NoSession \in Sessions /\ Peer!NoSession.idx = 0 /\ Peer!NoSession.key = 0
    BY <1>0 DEF Peer!NoSession, Sessions
  <2>2. faults' \in 0 .. MaxFaults
    BY <1>1, TradesAssumption DEF PeerInv, Peer!TypeOK
  <2> QED
    BY <1>1, <2>1, <2>2 DEF Peer!Free, Inserting
<1>3. revealed' \subseteq revealed /\ overStale' \subseteq revealed' /\ (Unspoiled' => Unspoiled)
  BY <1>1 DEF PeerInv, Peer!TypeOK, Unspoiled
<1>4. Peer!TypeOK'
  BY <1>0, <1>1, <1>2, <1>3 DEF PeerInv, Peer!TypeOK, Peer!Keyed, Sessions
<1>5. PeerShapes'
  BY <1>1, <1>2, <1>3 DEF PeerInv, PeerShapes, Locks, Sessions
<1>6. OwnSound'
  BY <1>1, <1>2, <1>3 DEF PeerInv, OwnSound, Own, Handling, Peer!Keyed
<1>7. ReplySound' /\ TailSound' /\ CopyCurrent' /\ KeySound'
  BY <1>1, <1>2 DEF ReplySound, TailSound, CopyCurrent, KeySound, Replying, Finishing, Handling, Peer!Keyed
<1> QED
  BY <1>4, <1>5, <1>6, <1>7 DEF PeerInv

LEMMA PeerStep == PeerInv /\ Peer!Next => PeerInv'
BY TakeReplyKeeps, DaemonMessageKeeps, CaptureKeeps, CreateKeeps, UpdateKeeps, PersistKeeps,
   InstallKeeps, ReplayKeeps, WipeRowKeeps, RemoveKeeps, GetSessionKeeps, ReadRowKeeps,
   InsertKeeps, FaultKeeps DEF Peer!Next

LEMMA PeerStutter == PeerInv /\ UNCHANGED PeerVars => PeerInv'
<1> SUFFICES ASSUME PeerInv, UNCHANGED PeerVars PROVE PeerInv'
  OBVIOUS
<1>1. UNCHANGED <<peer_row, session, peer_lock, take, wiped, api, sent, revealed, overStale, sends, faults>>
  BY DEF PeerVars
<1>2. Peer!TypeOK'
  BY <1>1 DEF PeerInv, Peer!TypeOK, Peer!Keyed
<1>3. PeerShapes' /\ KeySound' /\ CopyCurrent'
  BY <1>1 DEF PeerInv, PeerShapes, KeySound, CopyCurrent, Peer!Keyed, Locks, Sessions, Inserting
<1>4. OwnSound' /\ ReplySound' /\ TailSound'
  BY <1>1 DEF PeerInv, OwnSound, ReplySound, TailSound, Own, Replying, Finishing, Handling,
              Unspoiled, Peer!Keyed, Inserting
<1> QED
  BY <1>2, <1>3, <1>4 DEF PeerInv

LEMMA PeerInit == Peer!Init => PeerInv
<1> SUFFICES ASSUME Peer!Init PROVE PeerInv
  OBVIOUS
<1>1. /\ peer_row = [idx |-> 0, peer |-> FALSE] /\ session = [idx |-> 0, key |-> 0]
      /\ take = 0 /\ wiped = 0 /\ revealed = {} /\ overStale = {}
      /\ peer_lock = [step |-> "free", idx |-> 0, copy |-> [idx |-> 0, key |-> 0], reply |-> FALSE]
      /\ peer_lock = Peer!Free /\ api = [step |-> "idle", row |-> [idx |-> 0, peer |-> FALSE]]
      /\ sent = "nothing" /\ sends = 0 /\ faults = 0
  BY DEF Peer!Init, Peer!NoRow, Peer!NoSession, Peer!Free
<1>2. peer_lock \in Locks /\ session \in Sessions
  BY <1>1 DEF Locks, Sessions
<1>3. Peer!TypeOK
  <2>1. /\ peer_row \in [idx : 0 .. take, peer : BOOLEAN] /\ session \in [idx : 0 .. take, key : 0 .. take]
        /\ api.row \in [idx : 0 .. take, peer : BOOLEAN] /\ wiped \in 0 .. take
    BY <1>1
  <2>2. take \in 0 .. MaxTakes /\ sends \in 0 .. MaxSends /\ faults \in 0 .. MaxFaults
    BY <1>1, TradesAssumption
  <2> QED
    BY <1>1, <1>2, <2>1, <2>2 DEF Peer!TypeOK, Peer!Keyed, Locks, Sessions
<1>4. PeerShapes
  BY <1>1, <1>2 DEF PeerShapes, Inserting
<1>5. OwnSound /\ ReplySound /\ TailSound /\ KeySound /\ CopyCurrent
  BY <1>1 DEF OwnSound, ReplySound, TailSound, KeySound, CopyCurrent, Own, Replying, Finishing,
              Handling, Peer!Keyed
<1> QED
  BY <1>3, <1>4, <1>5 DEF PeerInv

(* No trade key is handed out twice, a resync that reported success is      *)
(* durable, and its one retry is above the daemon's answer (identity.rs,    *)
(* trade_index.rs), for any number of callers, indexes, failed writes and   *)
(* restarts; and a session is that of the order's row and of its key, and a *)
(* reveal reaches the row (session.rs, messages.rs), for any number of      *)
(* retakes beside the chat API, the sweep and restarts.                     *)
THEOREM KeysAndSessions == MCSpec => []KeysSound
<1>1. MCInit => IndexInv /\ PeerInv
  BY IndexInit, PeerInit DEF MCInit
<1>2. IndexInv /\ PeerInv /\ [MCNext]_MCvars => IndexInv' /\ PeerInv'
  <2> SUFFICES ASSUME IndexInv, PeerInv, [MCNext]_MCvars PROVE IndexInv' /\ PeerInv'
    OBVIOUS
  <2>1. Index!Next \/ UNCHANGED IndexVars
    BY DEF MCNext, MCvars
  <2>2. Peer!Next \/ UNCHANGED PeerVars
    BY DEF MCNext, MCvars
  <2> QED
    BY <2>1, <2>2, IndexStep, IndexStutter, PeerStep, PeerStutter
<1>3. IndexInv /\ PeerInv => KeysSound
  <2> SUFFICES ASSUME IndexInv, PeerInv PROVE KeysSound
    OBVIOUS
  <2>1. Index!TypeOK /\ Index!KeyHandedOnce /\ Index!ResyncDurable /\ Index!RetryAboveAnswer
    BY DEF IndexInv, Written, Index!ResyncDurable
  <2>2. Peer!TypeOK
    BY DEF PeerInv
  <2>3. ASSUME peer_lock = Peer!Free
        PROVE  /\ Peer!Keyed(session) => session.key = session.idx
               /\ session.idx # 0 /\ peer_row.idx # 0 => session.idx = peer_row.idx
               /\ peer_row.idx \in revealed \ overStale => peer_row.peer
    <3>1. /\ peer_lock.step = "free" /\ take \in Nat /\ wiped \in Nat /\ wiped <= take
          /\ revealed \subseteq 1 .. take
      BY <2>3, FreeIs, PeerNumbers DEF PeerInv, PeerShapes
    <3>2. CASE wiped = take
      BY <3>1, <3>2 DEF PeerInv, PeerShapes, KeySound
    <3>3. CASE wiped < take
      <4>1. OwnSound /\ Own
        BY <3>1, <3>3 DEF PeerInv, Own
      <4> QED
        BY <3>1, <4>1 DEF PeerInv, OwnSound, KeySound, Unspoiled
    <3> QED
      BY <3>1, <3>2, <3>3
  <2> QED
    BY <2>1, <2>2, <2>3
       DEF KeysSound, Peer!KeyOfIndex, Peer!SessionOfRow, Peer!RevealReachesRow, Peer!Exists
<1> QED
  BY <1>1, <1>2, <1>3, PTL DEF MCSpec

(***************************************************************************)
(* The order book and its copy.                                            *)
(***************************************************************************)
Numbered(d) == d.kind \in {"Upserted", "Removed"}
Changed(book, d) == [book EXCEPT ![d.order] = IF d.kind = "Upserted" THEN d.version ELSE "none"]

(* A delta under way tells what its change did. *)
DeltasTrue == \A i \in 1 .. Len(queue) : Numbered(queue[i]) =>
    /\ queue[i].revision \in 1 .. Len(past) - 1
    /\ past[queue[i].revision + 1] = Changed(past[queue[i].revision], queue[i])

(* The copy is the book as it was when it had the copy's revision. *)
CopyTrue == feed.pc \in {"next", "resync"} =>
    /\ feed.at \in 1 .. Len(past) /\ feed.copy = past[feed.at]
    /\ feed.revision = bridge_revision(feed.at - 1)

NothingShown == feed.pc \in {"off", "subscribed"} => feed.at = 0 /\ ~feed.shown /\ ~feed.flush

(* While nothing was lost, the change before the one a delta tells of is    *)
(* told by an earlier one, unless the consumer has it or will start over;   *)
(* and so is the last change of the book.                                   *)
Following == feed.pc = "next" /\ ~lagged
Foretold(r, n) == \E j \in 1 .. n : queue[j].kind = "Reset" \/ (Numbered(queue[j]) /\ queue[j].revision = r)
NoGap == Following => \A i \in 1 .. Len(queue) :
    Numbered(queue[i]) /\ feed.revision + 1 < queue[i].revision /\ Carried(queue[i].revision)
        => Foretold(queue[i].revision - 1, i - 1)
LastTold == Following /\ feed.at < Len(past) => Foretold(Len(past) - 1, Len(queue))

(* The screen shows the copy, or will with the next flush; so it will the   *)
(* empty book of a node that was confirmed.                                 *)
ScreenFollows == feed.shown => feed.flush \/ feed.ui = feed.copy
ConfirmationTold == Following /\ loaded /\ ~feed.shown /\ ~feed.flush =>
    \E j \in 1 .. Len(queue) : queue[j].kind = "Loaded"

BookInv == /\ TypeOK /\ DeltasTrue /\ CopyTrue /\ NothingShown /\ NoGap /\ LastTold
           /\ ScreenFollows /\ ConfirmationTold

LEMMA PastGrows ==
    ASSUME NEW b \in Books, past \in Seq(Books), past' = Append(past, b)
    PROVE  /\ past' \in Seq(Books) /\ Len(past) \in Nat /\ Len(past') = Len(past) + 1
           /\ \A i \in 1 .. Len(past) : past'[i] = past[i]
           /\ past'[Len(past) + 1] = b
  OBVIOUS

(* What a broadcast does to the channel: it is appended, or it overwrites   *)
(* the oldest delta, and the consumer has lost one.                         *)
LEMMA BroadcastIs ==
    ASSUME TypeOK, NEW d \in OrderBookDelta, broadcast(d)
    PROVE  /\ queue' \in Seq(OrderBookDelta) /\ Len(queue') <= Capacity /\ lagged' \in BOOLEAN
           /\ \/ feed.pc = "off" /\ queue' = queue /\ lagged' = lagged
              \/ /\ lagged' = lagged /\ Len(queue') = Len(queue) + 1 /\ queue'[Len(queue) + 1] = d
                 /\ \A i \in 1 .. Len(queue) : queue'[i] = queue[i]
              \/ /\ lagged' = TRUE /\ Len(queue') = Len(queue) /\ queue'[Len(queue)] = d
                 /\ Len(queue) > 0
                 /\ \A i \in 1 .. Len(queue) - 1 : queue'[i] = queue[i + 1]
<1>1. /\ queue \in Seq(OrderBookDelta) /\ Len(queue) \in Nat /\ Len(queue) <= Capacity
      /\ lagged \in BOOLEAN /\ Capacity \in Nat /\ Capacity > 0
  BY BookAssumption DEF TypeOK
<1>2. CASE feed.pc = "off"
  BY <1>1, <1>2 DEF broadcast
<1>3. CASE feed.pc # "off" /\ Len(queue) < Capacity
  <2>1. queue' = Append(queue, d) /\ lagged' = lagged
    BY <1>3 DEF broadcast
  <2> QED
    BY <1>1, <1>3, <2>1
<1>4. CASE feed.pc # "off" /\ ~(Len(queue) < Capacity)
  <2>1. queue' = Append(Tail(queue), d) /\ lagged' = TRUE
    BY <1>4 DEF broadcast
  <2>2. /\ Tail(queue) \in Seq(OrderBookDelta) /\ Len(Tail(queue)) = Len(queue) - 1 /\ Len(queue) > 0
        /\ \A i \in 1 .. Len(queue) - 1 : Tail(queue)[i] = queue[i + 1]
    BY <1>1, <1>4
  <2> DEFINE t == Tail(queue)
  <2> HIDE DEF t
  <2>3. /\ Append(t, d) \in Seq(OrderBookDelta) /\ Len(Append(t, d)) = Len(t) + 1
        /\ \A i \in 1 .. Len(t) : Append(t, d)[i] = t[i]
        /\ Append(t, d)[Len(t) + 1] = d
    BY <2>2 DEF t
  <2>4. Len(t) = Len(queue) - 1 /\ \A i \in 1 .. Len(queue) - 1 : t[i] = queue[i + 1]
    BY <2>2 DEF t
  <2>5. queue' = Append(t, d)
    BY <2>1 DEF t
  <2>6. /\ queue' \in Seq(OrderBookDelta) /\ Len(queue') = Len(queue) /\ queue'[Len(queue)] = d
        /\ \A i \in 1 .. Len(queue) - 1 : queue'[i] = queue[i + 1]
    BY <1>1, <2>3, <2>4, <2>5
  <2> QED
    BY <1>1, <2>1, <2>2, <2>6
<1> QED
  BY <1>2, <1>3, <1>4

(* What a broadcast of the change it made keeps, and what it tells. *)
LEMMA ChangeKeeps ==
    ASSUME BookInv, NEW b \in Books, NEW d \in OrderBookDelta,
           past' = Append(past, b), broadcast(d), feed' = feed,
           d.kind # "Loaded",
           Numbered(d) => d.revision = Len(past) /\ b = Changed(orders, d),
           loaded' => loaded
    PROVE  /\ DeltasTrue' /\ CopyTrue' /\ NothingShown' /\ NoGap' /\ LastTold'
           /\ ScreenFollows' /\ ConfirmationTold'
           /\ past' \in Seq(Books) /\ Len(past') > 0 /\ queue' \in Seq(OrderBookDelta)
           /\ Len(queue') <= Capacity /\ lagged' \in BOOLEAN
<1>1. /\ past' \in Seq(Books) /\ Len(past) \in Nat /\ Len(past) > 0 /\ Len(past') = Len(past) + 1
      /\ \A i \in 1 .. Len(past) : past'[i] = past[i]
      /\ past'[Len(past) + 1] = b
  BY PastGrows DEF BookInv, TypeOK
<1>2. /\ queue' \in Seq(OrderBookDelta) /\ Len(queue') <= Capacity /\ lagged' \in BOOLEAN
      /\ \/ feed.pc = "off" /\ queue' = queue /\ lagged' = lagged
         \/ /\ lagged' = lagged /\ Len(queue') = Len(queue) + 1 /\ queue'[Len(queue) + 1] = d
            /\ \A i \in 1 .. Len(queue) : queue'[i] = queue[i]
         \/ /\ lagged' = TRUE /\ Len(queue') = Len(queue) /\ queue'[Len(queue)] = d
            /\ Len(queue) > 0
            /\ \A i \in 1 .. Len(queue) - 1 : queue'[i] = queue[i + 1]
  BY BroadcastIs DEF BookInv
<1>3. Len(queue) \in Nat
  BY DEF BookInv, TypeOK
<1>4. d.kind = "Reset" \/ (Numbered(d) /\ d.revision = Len(past))
  BY DEF OrderBookDelta, Numbered
<1>5. DeltasTrue'
  <2>1. ASSUME NEW e, Numbered(e), e = d \/ \E k \in 1 .. Len(queue) : e = queue[k]
        PROVE  e.revision \in 1 .. Len(past') - 1 /\ past'[e.revision + 1] = Changed(past'[e.revision], e)
    <3>1. CASE e = d
      BY <1>1, <2>1, <3>1 DEF orders
    <3>2. ASSUME NEW k \in 1 .. Len(queue), e = queue[k]
          PROVE  e.revision \in 1 .. Len(past') - 1 /\ past'[e.revision + 1] = Changed(past'[e.revision], e)
      <4>1. e.revision \in 1 .. Len(past) - 1 /\ past[e.revision + 1] = Changed(past[e.revision], e)
        BY <2>1, <3>2 DEF BookInv, DeltasTrue
      <4> QED
        BY <1>1, <4>1
    <3> QED
      BY <2>1, <3>1, <3>2
  <2>2. ASSUME NEW i \in 1 .. Len(queue') PROVE queue'[i] = d \/ \E k \in 1 .. Len(queue) : queue'[i] = queue[k]
    <3>1. CASE queue' = queue
      BY <3>1
    <3>2. CASE /\ Len(queue') = Len(queue) + 1 /\ queue'[Len(queue) + 1] = d
               /\ \A k \in 1 .. Len(queue) : queue'[k] = queue[k]
      <4>1. i \in 1 .. Len(queue) \/ i = Len(queue) + 1
        BY <1>3, <3>2
      <4> QED
        BY <3>2, <4>1
    <3>3. CASE /\ Len(queue') = Len(queue) /\ queue'[Len(queue)] = d
               /\ \A k \in 1 .. Len(queue) - 1 : queue'[k] = queue[k + 1]
      <4>1. (i \in 1 .. Len(queue) - 1 /\ i + 1 \in 1 .. Len(queue)) \/ i = Len(queue)
        BY <1>3, <3>3
      <4> QED
        BY <3>3, <4>1
    <3> QED
      BY <1>2, <3>1, <3>2, <3>3
  <2> QED
    BY <2>1, <2>2 DEF DeltasTrue
<1>6. CopyTrue' /\ NothingShown' /\ ScreenFollows'
  BY <1>1 DEF BookInv, CopyTrue, NothingShown, ScreenFollows, bridge_revision, Carried
<1>7. ASSUME Following'
      PROVE  /\ Following /\ Len(queue') = Len(queue) + 1 /\ queue'[Len(queue) + 1] = d
             /\ \A i \in 1 .. Len(queue) : queue'[i] = queue[i]
  BY <1>2, <1>7 DEF Following
<1>8. ASSUME NEW r, NEW n \in 0 .. Len(queue), Following', Foretold(r, n)
      PROVE  \E j \in 1 .. n : queue'[j].kind = "Reset" \/ (Numbered(queue'[j]) /\ queue'[j].revision = r)
  <2>1. PICK j \in 1 .. n : queue[j].kind = "Reset" \/ (Numbered(queue[j]) /\ queue[j].revision = r)
    BY <1>8 DEF Foretold
  <2>2. j \in 1 .. Len(queue)
    BY <1>3
  <2>3. queue'[j] = queue[j]
    BY <1>7, <1>8, <2>2
  <2> QED
    BY <2>1, <2>3
<1>9. LastTold'
  <2> SUFFICES ASSUME Following' PROVE Foretold(Len(past) - 1, Len(queue))'
    BY DEF LastTold
  <2>1. Len(queue) + 1 \in 1 .. Len(queue') /\ queue'[Len(queue) + 1] = d /\ Len(past') - 1 = Len(past)
    BY <1>1, <1>3, <1>7
  <2> QED
    BY <1>4, <2>1 DEF Foretold
<1>10. NoGap'
  <2> SUFFICES ASSUME Following', NEW i \in 1 .. Len(queue'), Numbered(queue'[i]),
                      feed.revision + 1 < queue'[i].revision, Carried(queue'[i].revision)
               PROVE  \E j \in 1 .. i - 1 : \/ queue'[j].kind = "Reset"
                                            \/ Numbered(queue'[j]) /\ queue'[j].revision = queue'[i].revision - 1
    BY DEF NoGap, Foretold
  <2>1. CASE i \in 1 .. Len(queue)
    <3>1. Foretold(queue[i].revision - 1, i - 1)
      BY <1>7, <2>1 DEF BookInv, NoGap
    <3>2. i - 1 \in 0 .. Len(queue) /\ queue'[i] = queue[i]
      BY <1>3, <1>7, <2>1
    <3> QED
      BY <1>8, <3>1, <3>2
  <2>2. CASE i = Len(queue) + 1
    <3>1. queue'[i] = d /\ d.revision = Len(past) /\ Len(past) < RevisionLimit
      BY <1>7, <2>2, <1>4 DEF Carried, Numbered
    <3>2. feed.at < Len(past)
      <4>1. feed.at \in 1 .. Len(past) /\ feed.revision = bridge_revision(feed.at - 1)
        BY <1>7 DEF BookInv, CopyTrue, Following
      <4> QED
        BY <1>1, <3>1, <4>1, BookAssumption DEF bridge_revision, Carried
    <3>3. Foretold(Len(past) - 1, Len(queue))
      BY <1>7, <3>2 DEF BookInv, LastTold
    <3>4. Len(queue) \in 0 .. Len(queue) /\ i - 1 = Len(queue)
      BY <1>3, <2>2
    <3> QED
      BY <1>8, <3>1, <3>3, <3>4
  <2> QED
    BY <1>3, <1>7, <2>1, <2>2
<1>11. ConfirmationTold'
  <2> SUFFICES ASSUME Following', loaded', ~feed.shown, ~feed.flush
               PROVE  \E j \in 1 .. Len(queue') : queue'[j].kind = "Loaded"
    BY DEF ConfirmationTold
  <2>1. PICK j \in 1 .. Len(queue) : queue[j].kind = "Loaded"
    BY <1>7 DEF BookInv, ConfirmationTold
  <2>2. j \in 1 .. Len(queue') /\ queue'[j] = queue[j]
    BY <1>3, <1>7
  <2> QED
    BY <2>1, <2>2
<1> QED
  BY <1>1, <1>2, <1>5, <1>6, <1>9, <1>10, <1>11

BookCore == /\ past \in Seq(Books) /\ Len(past) > 0 /\ queue \in Seq(OrderBookDelta)
            /\ Len(queue) <= Capacity /\ lagged \in BOOLEAN
            /\ DeltasTrue /\ CopyTrue /\ NothingShown /\ NoGap /\ LastTold
            /\ ScreenFollows /\ ConfirmationTold

BookTasks == /\ loaded \in BOOLEAN /\ active \in Nodes
             /\ ingesting = NoEvent \/ ingesting \in [order : Orders, version : Versions]
             /\ task \in [Tasks -> [pc : {"idle", "clearing", "reading", "fetching"},
                                    node : Nodes \cup {"none"}]]
             /\ feed \in Feed /\ feeds \in Nat

LEMMA BookIs == BookInv <=> BookCore /\ BookTasks
  BY DEF BookInv, BookCore, BookTasks, TypeOK

(* How the book may change in one step. *)
Grows == past' = past \/ \E b \in Books : past' = Append(past, b)

LEMMA StillKeeps ==
    ASSUME BookInv, UNCHANGED <<past, queue, lagged, feed>>, loaded' => loaded
    PROVE  BookCore' /\ Grows
BY DEF BookInv, BookCore, TypeOK, DeltasTrue, CopyTrue, NothingShown, NoGap, LastTold, Foretold,
       ScreenFollows, ConfirmationTold, Following, bridge_revision, Carried, Grows

LEMMA OneChange ==
    ASSUME BookInv, NEW b \in Books, NEW d \in OrderBookDelta, change(b, d), feed' = feed,
           d.kind # "Loaded", Numbered(d) => d.revision = Len(past) /\ b = Changed(orders, d),
           loaded' => loaded
    PROVE  BookCore' /\ Grows
<1>1. past' = Append(past, b) /\ broadcast(d)
  BY DEF change
<1> QED
  BY <1>1, ChangeKeeps DEF BookCore, Grows

LEMMA BookHolds ==
    ASSUME BookInv PROVE orders \in Books /\ Len(past) \in Nat /\ revision + 1 = Len(past) /\ Len(past) # 0
BY DEF BookInv, TypeOK, orders, revision

LEMMA UpsertKeeps ==
    ASSUME BookInv, NEW o \in Orders, NEW v \in Versions, upsert(o, v), feed' = feed, loaded' => loaded
    PROVE  BookCore' /\ Grows
<1>1. CASE orders[o] = v
  BY <1>1, StillKeeps DEF upsert, Unchanged
<1>2. CASE orders[o] # v
  <2> DEFINE b == [orders EXCEPT ![o] = v]
             d == [kind |-> "Upserted", revision |-> revision + 1, order |-> o, version |-> v]
  <2>1. change(b, d)
    BY <1>2 DEF upsert
  <2>2. b \in Books
    BY BookHolds DEF Books
  <2>3. d \in OrderBookDelta /\ d.kind # "Loaded" /\ d.revision = Len(past) /\ b = Changed(orders, d)
    BY BookHolds DEF OrderBookDelta, Changed
  <2> HIDE DEF b, d
  <2> QED
    BY <2>1, <2>2, <2>3, OneChange
<1> QED
  BY <1>1, <1>2

LEMMA RemoveOrderKeeps ==
    ASSUME BookInv, NEW o \in Orders, remove(o), feed' = feed, loaded' => loaded
    PROVE  BookCore' /\ Grows
<1>1. CASE orders[o] = "none"
  BY <1>1, StillKeeps DEF remove, Unchanged
<1>2. CASE orders[o] # "none"
  <2> DEFINE b == [orders EXCEPT ![o] = "none"]
             d == [kind |-> "Removed", revision |-> revision + 1, order |-> o]
  <2>1. change(b, d)
    BY <1>2 DEF remove
  <2>2. b \in Books
    BY BookHolds DEF Books
  <2>3. d \in OrderBookDelta /\ d.kind # "Loaded" /\ d.revision = Len(past) /\ b = Changed(orders, d)
    BY BookHolds DEF OrderBookDelta, Changed
  <2> HIDE DEF b, d
  <2> QED
    BY <2>1, <2>2, <2>3, OneChange
<1> QED
  BY <1>1, <1>2

LEMMA IngestedKeeps ==
    ASSUME BookInv, NEW o \in Orders, NEW v \in Versions, apply_ingested_order(o, v),
           feed' = feed, loaded' => loaded
    PROVE  BookCore' /\ Grows
BY UpsertKeeps, RemoveOrderKeeps DEF apply_ingested_order

LEMMA ClearKeeps ==
    ASSUME BookInv, replace_all(Empty), feed' = feed, loaded' => loaded
    PROVE  BookCore' /\ Grows
<1> DEFINE d == [kind |-> "Reset"]
<1>1. change(Empty, d) /\ Empty \in Books
  BY DEF replace_all, Empty, Books
<1>2. d \in OrderBookDelta /\ d.kind # "Loaded" /\ ~Numbered(d)
  BY DEF OrderBookDelta, Numbered
<1> HIDE DEF d
<1> QED
  BY <1>1, <1>2, OneChange

(* The relay's confirmation. *)
LEMMA LoadedKeeps ==
    ASSUME BookInv, publish_on_stored_events_end PROVE BookCore' /\ Grows
<1> DEFINE d == [kind |-> "Loaded"]
<1>0. d \in OrderBookDelta /\ d.kind = "Loaded" /\ ~Numbered(d)
  BY DEF OrderBookDelta, Numbered
<1>1. broadcast(d) /\ past' = past /\ feed' = feed
  BY DEF publish_on_stored_events_end
<1> HIDE DEF d
<1>2. /\ queue' \in Seq(OrderBookDelta) /\ Len(queue') <= Capacity /\ lagged' \in BOOLEAN
      /\ \/ feed.pc = "off" /\ queue' = queue /\ lagged' = lagged
         \/ /\ lagged' = lagged /\ Len(queue') = Len(queue) + 1 /\ queue'[Len(queue) + 1] = d
            /\ \A i \in 1 .. Len(queue) : queue'[i] = queue[i]
         \/ /\ lagged' = TRUE /\ Len(queue') = Len(queue) /\ queue'[Len(queue)] = d
            /\ Len(queue) > 0
            /\ \A i \in 1 .. Len(queue) - 1 : queue'[i] = queue[i + 1]
  BY <1>0, <1>1, BroadcastIs DEF BookInv
<1>3. Len(queue) \in Nat
  BY DEF BookInv, TypeOK
<1>4. ASSUME NEW i \in 1 .. Len(queue')
      PROVE  queue'[i] = d \/ \E k \in 1 .. Len(queue) : queue'[i] = queue[k]
  <2>1. CASE queue' = queue
    BY <2>1
  <2>2. CASE /\ Len(queue') = Len(queue) + 1 /\ queue'[Len(queue) + 1] = d
             /\ \A k \in 1 .. Len(queue) : queue'[k] = queue[k]
    <3>1. i \in 1 .. Len(queue) \/ i = Len(queue) + 1
      BY <1>3, <2>2
    <3> QED
      BY <2>2, <3>1
  <2>3. CASE /\ Len(queue') = Len(queue) /\ queue'[Len(queue)] = d
             /\ \A k \in 1 .. Len(queue) - 1 : queue'[k] = queue[k + 1]
    <3>1. (i \in 1 .. Len(queue) - 1 /\ i + 1 \in 1 .. Len(queue)) \/ i = Len(queue)
      BY <1>3, <2>3
    <3> QED
      BY <2>3, <3>1
  <2> QED
    BY <1>2, <2>1, <2>2, <2>3
<1>5. DeltasTrue'
  BY <1>0, <1>1, <1>4 DEF BookInv, DeltasTrue
<1>6. CopyTrue' /\ NothingShown' /\ ScreenFollows'
  BY <1>1 DEF BookInv, CopyTrue, NothingShown, ScreenFollows, bridge_revision, Carried
<1>7. ASSUME Following'
      PROVE  /\ Following /\ Len(queue') = Len(queue) + 1 /\ queue'[Len(queue) + 1] = d
             /\ \A i \in 1 .. Len(queue) : queue'[i] = queue[i]
  BY <1>1, <1>2, <1>7 DEF Following
<1>8. ASSUME NEW r, NEW n \in 0 .. Len(queue), Following', Foretold(r, n)
      PROVE  \E j \in 1 .. n : queue'[j].kind = "Reset" \/ (Numbered(queue'[j]) /\ queue'[j].revision = r)
  <2>1. PICK j \in 1 .. n : queue[j].kind = "Reset" \/ (Numbered(queue[j]) /\ queue[j].revision = r)
    BY <1>8 DEF Foretold
  <2>2. j \in 1 .. Len(queue)
    BY <1>3
  <2>3. queue'[j] = queue[j]
    BY <1>7, <1>8, <2>2
  <2> QED
    BY <2>1, <2>3
<1>9. LastTold'
  <2> SUFFICES ASSUME Following', feed.at < Len(past)
               PROVE  \E j \in 1 .. Len(queue') : \/ queue'[j].kind = "Reset"
                                                  \/ Numbered(queue'[j]) /\ queue'[j].revision = Len(past) - 1
    BY <1>1 DEF LastTold, Foretold
  <2>1. Foretold(Len(past) - 1, Len(queue)) /\ Len(queue) \in 0 .. Len(queue)
    BY <1>3, <1>7 DEF BookInv, LastTold
  <2>2. PICK j \in 1 .. Len(queue) :
           queue'[j].kind = "Reset" \/ (Numbered(queue'[j]) /\ queue'[j].revision = Len(past) - 1)
    BY <1>8, <2>1
  <2>3. j \in 1 .. Len(queue')
    BY <1>3, <1>7
  <2> QED
    BY <2>2, <2>3
<1>10. NoGap'
  <2> SUFFICES ASSUME Following', NEW i \in 1 .. Len(queue'), Numbered(queue'[i]),
                      feed.revision + 1 < queue'[i].revision, Carried(queue'[i].revision)
               PROVE  \E j \in 1 .. i - 1 : \/ queue'[j].kind = "Reset"
                                            \/ Numbered(queue'[j]) /\ queue'[j].revision = queue'[i].revision - 1
    BY <1>1 DEF NoGap, Foretold
  <2>1. i \in 1 .. Len(queue) /\ queue'[i] = queue[i]
    BY <1>0, <1>3, <1>7
  <2>2. Foretold(queue[i].revision - 1, i - 1)
    BY <1>7, <2>1 DEF BookInv, NoGap
  <2>3. i - 1 \in 0 .. Len(queue)
    BY <1>3, <2>1
  <2> QED
    BY <1>8, <2>1, <2>2, <2>3
<1>11. ConfirmationTold'
  <2> SUFFICES ASSUME Following' PROVE \E j \in 1 .. Len(queue') : queue'[j].kind = "Loaded"
    BY DEF ConfirmationTold
  <2>1. Len(queue) + 1 \in 1 .. Len(queue') /\ queue'[Len(queue) + 1] = d
    BY <1>3, <1>7
  <2> QED
    BY <1>0, <2>1
<1>12. past' \in Seq(Books) /\ Len(past') > 0 /\ Grows
  BY <1>1 DEF BookInv, TypeOK, Grows
<1> QED
  BY <1>2, <1>5, <1>6, <1>9, <1>10, <1>11, <1>12 DEF BookCore

(* The consumer: what it takes from the channel, and what it does to its    *)
(* copy.                                                                    *)
CatchesUp == \/ UNCHANGED <<feed.at, feed.copy>>
             \/ feed'.at = 0
             \/ feed'.at \in 1 .. Len(past) /\ feed.at <= feed'.at /\ feed'.copy = past[feed'.at]

LEMMA SubscribeKeeps ==
    ASSUME BookInv, subscribe_deltas \/ dispose
    PROVE  BookCore' /\ feed' \in Feed /\ feeds' \in Nat /\ feed'.at = 0 /\ past' = past
<1>1. /\ queue' = << >> /\ lagged' = FALSE /\ past' = past /\ loaded' = loaded
      /\ feed' = [Closed EXCEPT !.pc = "subscribed"] \/ feed' = Closed
      /\ feeds' \in Nat
  BY BookIs DEF subscribe_deltas, dispose, book_vars, BookTasks
<1>2. /\ feed' \in Feed /\ feed'.pc \in {"off", "subscribed"} /\ feed'.at = 0
      /\ ~feed'.shown /\ ~feed'.flush
  <2>1. Empty \in Books
    BY DEF Empty, Books
  <2>2. Closed \in Feed /\ Closed.pc = "off" /\ Closed.at = 0 /\ ~Closed.shown /\ ~Closed.flush
    BY <2>1 DEF Closed, Feed
  <2>3. CASE feed' = Closed
    BY <2>2, <2>3
  <2>4. CASE feed' = [Closed EXCEPT !.pc = "subscribed"]
    BY <2>2, <2>4 DEF Feed
  <2> QED
    BY <1>1, <2>3, <2>4
<1>3. queue' \in Seq(OrderBookDelta) /\ Len(queue') = 0 /\ Len(queue') <= Capacity
  BY <1>1, BookAssumption
<1>4. DeltasTrue' /\ CopyTrue' /\ NothingShown' /\ NoGap' /\ LastTold' /\ ScreenFollows' /\ ConfirmationTold'
  BY <1>2, <1>3 DEF DeltasTrue, CopyTrue, NothingShown, NoGap, LastTold, Following, ScreenFollows,
                    ConfirmationTold
<1> QED
  BY <1>1, <1>2, <1>3, <1>4, BookIs DEF BookCore

LEMMA SnapshotKeeps ==
    ASSUME BookInv, restart
    PROVE  BookCore' /\ feed' \in Feed /\ CatchesUp /\ past' = past /\ feeds' = feeds
<1> DEFINE show == WorthShowing
           first == feed.pc = "subscribed"
<1>1. /\ feed.pc \in {"subscribed", "resync"}
      /\ feed' = [feed EXCEPT !.pc = "next", !.copy = orders, !.at = Len(past),
                              !.revision = bridge_revision(revision),
                              !.shown = @ \/ (first /\ show),
                              !.ui = IF first /\ show THEN orders ELSE @,
                              !.flush = @ \/ (~first /\ (feed.shown \/ show))]
      /\ UNCHANGED <<past, loaded, queue, lagged, feeds>>
  BY DEF restart, book_vars
<1>2. /\ feed \in Feed /\ orders \in Books /\ Len(past) \in Nat /\ Len(past) # 0 /\ revision = Len(past) - 1
      /\ revision \in Nat /\ bridge_revision(revision) \in Nat /\ orders = past[Len(past)]
      /\ show \in BOOLEAN /\ first \in BOOLEAN /\ Len(queue) \in Nat
  <2>1. feed \in Feed /\ Len(queue) \in Nat /\ loaded \in BOOLEAN
    BY DEF BookInv, TypeOK
  <2>2. orders \in Books /\ Len(past) \in Nat /\ Len(past) # 0 /\ revision = Len(past) - 1 /\ revision \in Nat
    BY BookHolds DEF revision
  <2>3. bridge_revision(revision) \in Nat
    BY <2>2, BookAssumption DEF bridge_revision
  <2>4. show \in BOOLEAN
    BY <2>1 DEF WorthShowing
  <2> QED
    BY <2>1, <2>2, <2>3, <2>4 DEF orders
<1> HIDE DEF show, first
<1>3. /\ feed'.pc = "next" /\ feed'.copy = orders /\ feed'.at = Len(past)
      /\ feed'.revision = bridge_revision(revision)
      /\ feed'.shown = (feed.shown \/ (first /\ show))
      /\ feed'.ui = IF first /\ show THEN orders ELSE feed.ui
      /\ feed'.flush = (feed.flush \/ (~first /\ (feed.shown \/ show)))
  BY <1>1, <1>2 DEF Feed
<1>4. feed' \in Feed
  <2>1. feed'.shown \in BOOLEAN /\ feed'.flush \in BOOLEAN /\ feed'.ui \in Books
    BY <1>2, <1>3 DEF Feed
  <2>2. feed.shown \in BOOLEAN /\ feed.flush \in BOOLEAN
    BY <1>2 DEF Feed
  <2> DEFINE u == IF first /\ show THEN orders ELSE feed.ui
             s == feed.shown \/ (first /\ show)
             f == feed.flush \/ (~first /\ (feed.shown \/ show))
  <2>3. u \in Books /\ s \in BOOLEAN /\ f \in BOOLEAN
    BY <1>2, <2>2 DEF Feed
  <2>4. feed' = [feed EXCEPT !.pc = "next", !.copy = orders, !.at = Len(past),
                             !.revision = bridge_revision(revision), !.shown = s, !.ui = u, !.flush = f]
    BY <1>1, <1>2 DEF Feed
  <2> HIDE DEF u, s, f
  <2> QED
    BY <1>2, <2>3, <2>4 DEF Feed
<1>5. CopyTrue' /\ NothingShown'
  BY <1>1, <1>2, <1>3 DEF CopyTrue, NothingShown, bridge_revision, Carried
<1>6. DeltasTrue' /\ LastTold'
  BY <1>1, <1>2, <1>3 DEF BookInv, DeltasTrue, LastTold
<1>7. NoGap'
  <2> SUFFICES ASSUME NEW i \in 1 .. Len(queue), Numbered(queue[i]),
                      bridge_revision(revision) + 1 < queue[i].revision, Carried(queue[i].revision)
               PROVE  FALSE
    BY <1>1, <1>3 DEF NoGap
  <2>1. queue[i].revision \in 1 .. Len(past) - 1
    BY DEF BookInv, DeltasTrue
  <2> QED
    BY <1>2, <2>1, BookAssumption DEF bridge_revision, Carried
<1>8. ScreenFollows'
  <2>1. first => ~feed.shown
    BY <1>1 DEF BookInv, NothingShown, first
  <2> QED
    BY <1>3, <2>1 DEF ScreenFollows
<1>9. ConfirmationTold'
  <2>1. loaded => show
    BY DEF WorthShowing, show
  <2> QED
    BY <1>1, <1>3, <2>1 DEF ConfirmationTold
<1>10. CatchesUp
  <2>1. feed.at <= Len(past)
    BY <1>1, <1>2 DEF BookInv, CopyTrue, NothingShown
  <2> QED
    BY <1>2, <1>3, <2>1 DEF CatchesUp
<1> QED
  BY <1>1, <1>4, <1>5, <1>6, <1>7, <1>8, <1>9, <1>10, BookIs DEF BookCore

LEMMA EmitKeeps ==
    ASSUME BookInv, emit
    PROVE  BookCore' /\ feed' \in Feed /\ CatchesUp /\ past' = past /\ feeds' = feeds
<1>1. /\ feed.flush /\ feed' = [feed EXCEPT !.flush = FALSE, !.shown = TRUE, !.ui = feed.copy]
      /\ UNCHANGED <<past, loaded, queue, lagged, feeds>> /\ feed \in Feed
  BY DEF emit, book_vars, BookInv, TypeOK
<1>2. /\ feed' \in Feed /\ feed'.pc = feed.pc /\ feed'.at = feed.at /\ feed'.copy = feed.copy
      /\ feed'.revision = feed.revision /\ feed'.shown /\ ~feed'.flush /\ feed'.ui = feed.copy
  BY <1>1 DEF Feed
<1>3. feed.pc \notin {"off", "subscribed"}
  BY <1>1 DEF BookInv, NothingShown
<1>4. DeltasTrue' /\ CopyTrue' /\ NothingShown' /\ ScreenFollows' /\ ConfirmationTold'
  BY <1>1, <1>2, <1>3 DEF BookInv, DeltasTrue, CopyTrue, NothingShown, ScreenFollows,
                          ConfirmationTold, bridge_revision, Carried
<1>5. NoGap' /\ LastTold'
  BY <1>1, <1>2 DEF BookInv, NoGap, LastTold, Following, Foretold
<1> QED
  BY <1>1, <1>2, <1>4, <1>5, BookIs DEF BookCore, CatchesUp

(* The oldest delta is taken from a channel that lost none. *)
LEMMA TakeOne ==
    ASSUME BookInv, Following, queue # << >>, queue' = Tail(queue)
    PROVE  /\ Head(queue) = queue[1] /\ queue[1] \in OrderBookDelta /\ Len(queue) \in Nat /\ Len(queue) > 0
           /\ queue' \in Seq(OrderBookDelta) /\ Len(queue') = Len(queue) - 1 /\ Len(queue') <= Capacity
           /\ \A i \in 1 .. Len(queue) - 1 : i + 1 \in 1 .. Len(queue) /\ queue'[i] = queue[i + 1]
<1>1. queue \in Seq(OrderBookDelta) /\ Len(queue) <= Capacity /\ Capacity \in Nat
  BY BookAssumption DEF BookInv, TypeOK
<1>2. /\ Head(queue) = queue[1] /\ queue[1] \in OrderBookDelta /\ Len(queue) \in Nat /\ Len(queue) > 0
      /\ Tail(queue) \in Seq(OrderBookDelta) /\ Len(Tail(queue)) = Len(queue) - 1
  BY <1>1
<1>3. \A i \in 1 .. Len(queue) - 1 : i + 1 \in 1 .. Len(queue) /\ Tail(queue)[i] = queue[i + 1]
  BY <1>1, <1>2
<1> QED
  BY <1>1, <1>2, <1>3

(* What the rest of the channel tells, once the head has been dealt with.   *)
LEMMA TailTells ==
    ASSUME BookInv, Following, queue # << >>, queue' = Tail(queue), past' = past,
           feed'.pc = "next" => /\ queue[1].kind # "Reset" /\ feed.revision <= feed'.revision
                                /\ Numbered(queue[1]) => queue[1].revision <= feed'.revision,
           feed'.revision \in Nat
    PROVE  DeltasTrue' /\ (feed'.pc = "next" => NoGap')
<1>1. /\ Len(queue) \in Nat /\ Len(queue) > 0 /\ Len(queue') = Len(queue) - 1
      /\ \A i \in 1 .. Len(queue) - 1 : i + 1 \in 1 .. Len(queue) /\ queue'[i] = queue[i + 1]
      /\ feed.revision \in Nat
  BY TakeOne DEF BookInv, TypeOK, Feed
<1>2. DeltasTrue'
  BY <1>1 DEF BookInv, DeltasTrue
<1>3. ASSUME feed'.pc = "next" PROVE NoGap'
  <2> SUFFICES ASSUME NEW i \in 1 .. Len(queue'), Numbered(queue'[i]),
                      feed'.revision + 1 < queue'[i].revision, Carried(queue'[i].revision)
               PROVE  \E j \in 1 .. i - 1 : \/ queue'[j].kind = "Reset"
                                            \/ Numbered(queue'[j]) /\ queue'[j].revision = queue'[i].revision - 1
    BY DEF NoGap, Foretold
  <2> DEFINE r == queue'[i].revision - 1
  <2>1. i + 1 \in 1 .. Len(queue) /\ queue'[i] = queue[i + 1] /\ queue[i + 1].revision \in Nat
    BY <1>1 DEF BookInv, DeltasTrue
  <2>2. Foretold(r, i)
    <3>1. feed.revision + 1 < queue[i + 1].revision
      BY <1>1, <1>3, <2>1
    <3>2. Foretold(queue[i + 1].revision - 1, (i + 1) - 1)
      BY <2>1, <3>1 DEF BookInv, NoGap
    <3> QED
      BY <2>1, <3>2
  <2>3. PICK j \in 1 .. i : queue[j].kind = "Reset" \/ (Numbered(queue[j]) /\ queue[j].revision = r)
    BY <2>2 DEF Foretold
  <2>4. j # 1
    BY <1>3, <2>1, <2>3
  <2>5. j - 1 \in 1 .. i - 1 /\ queue'[j - 1] = queue[j]
    <3>1. j - 1 \in 1 .. Len(queue) - 1 /\ (j - 1) + 1 = j
      BY <1>1, <2>4
    <3> QED
      BY <1>1, <2>4, <3>1
  <2> QED
    BY <2>3, <2>5
<1> QED
  BY <1>2, <1>3

LEMMA LastStillTold ==
    ASSUME BookInv, Following, queue # << >>, queue' = Tail(queue), past' = past,
           queue[1].kind # "Reset", Numbered(queue[1]) => queue[1].revision # Len(past) - 1,
           feed.at < Len(past)
    PROVE  Foretold(Len(past) - 1, Len(queue))'
<1>1. /\ Len(queue) \in Nat /\ Len(queue) > 0 /\ Len(queue') = Len(queue) - 1
      /\ \A i \in 1 .. Len(queue) - 1 : i + 1 \in 1 .. Len(queue) /\ queue'[i] = queue[i + 1]
  BY TakeOne
<1>2. PICK j \in 1 .. Len(queue) : queue[j].kind = "Reset" \/ (Numbered(queue[j]) /\ queue[j].revision = Len(past) - 1)
  BY DEF BookInv, LastTold, Foretold
<1>3. j - 1 \in 1 .. Len(queue') /\ queue'[j - 1] = queue[j]
  <2>1. j # 1
    BY <1>2
  <2>2. j - 1 \in 1 .. Len(queue) - 1 /\ (j - 1) + 1 = j
    BY <1>1, <2>1
  <2> QED
    BY <1>1, <2>2
<1> QED
  BY <1>2, <1>3 DEF Foretold

LEMMA NextKeeps ==
    ASSUME BookInv, next
    PROVE  BookCore' /\ feed' \in Feed /\ CatchesUp /\ past' = past /\ feeds' = feeds
<1>1. feed.pc = "next" /\ UNCHANGED <<past, loaded, feeds>> /\ feed \in Feed /\ feed.at \in Nat
      /\ feed.revision \in Nat /\ past \in Seq(Books) /\ Len(past) \in Nat /\ Len(past) > 0
  BY DEF next, book_vars, BookInv, TypeOK, Feed
<1>2. feed.at \in 1 .. Len(past) /\ feed.copy = past[feed.at] /\ feed.revision = bridge_revision(feed.at - 1)
  BY <1>1 DEF BookInv, CopyTrue
<1>3. /\ Resync \in Feed /\ Resync.pc = "resync" /\ Resync.at = feed.at /\ Resync.copy = feed.copy
      /\ Resync.revision = feed.revision /\ Resync.shown = feed.shown /\ Resync.flush = feed.flush
      /\ Resync.ui = feed.ui
  BY <1>1 DEF Resync, Feed
<1>4. ASSUME feed' = Resync, queue' \in Seq(OrderBookDelta), Len(queue') <= Capacity,
             lagged' \in BOOLEAN, DeltasTrue'
      PROVE  BookCore' /\ feed' \in Feed /\ CatchesUp
  <2>1. CopyTrue' /\ NothingShown' /\ ScreenFollows'
    BY <1>1, <1>2, <1>3, <1>4 DEF BookInv, CopyTrue, NothingShown, ScreenFollows, bridge_revision, Carried
  <2>2. NoGap' /\ LastTold' /\ ConfirmationTold'
    BY <1>3, <1>4 DEF NoGap, LastTold, ConfirmationTold, Following
  <2> QED
    BY <1>1, <1>3, <1>4, <2>1, <2>2 DEF BookCore, CatchesUp
<1>5. CASE lagged
  <2>1. feed' = Resync /\ lagged' = FALSE /\ queue' = queue
    BY <1>5 DEF next
  <2>2. DeltasTrue' /\ queue' \in Seq(OrderBookDelta) /\ Len(queue') <= Capacity
    BY <1>1, <2>1 DEF BookInv, DeltasTrue, TypeOK
  <2> QED
    BY <1>1, <1>4, <2>1, <2>2
<1>6. CASE ~lagged
  <2> DEFINE d == queue[1]
  <2>0. Following /\ queue # << >> /\ queue' = Tail(queue) /\ lagged' = lagged
        /\ feed' = applied(Head(queue))
    BY <1>1, <1>6 DEF next, Following
  <2>1. /\ Head(queue) = d /\ d \in OrderBookDelta /\ Len(queue) \in Nat /\ Len(queue) > 0
        /\ queue' \in Seq(OrderBookDelta) /\ Len(queue') = Len(queue) - 1 /\ Len(queue') <= Capacity
        /\ \A i \in 1 .. Len(queue) - 1 : i + 1 \in 1 .. Len(queue) /\ queue'[i] = queue[i + 1]
    BY <2>0, TakeOne
  <2>2. /\ lagged' \in BOOLEAN /\ d.kind \in {"Loaded", "Reset", "Upserted", "Removed"}
        /\ feed' = applied(d)
    <3>1. lagged' \in BOOLEAN
      BY <2>0 DEF BookInv, TypeOK
    <3>2. d.kind \in {"Loaded", "Reset", "Upserted", "Removed"}
      BY <2>1 DEF OrderBookDelta
    <3> QED
      BY <2>0, <2>1, <3>1, <3>2
  <2>3. Numbered(d) =>
          /\ d.revision \in 1 .. Len(past) - 1 /\ d.revision \in Nat
          /\ past[d.revision + 1] = Changed(past[d.revision], d)
    BY <2>1 DEF BookInv, DeltasTrue
  <2> HIDE DEF d
  <2>4. CASE d.kind = "Loaded"
    <3>1. feed' = [feed EXCEPT !.flush = @ \/ ~feed.shown]
      BY <2>2, <2>4 DEF applied
    <3>2. /\ feed' \in Feed /\ feed'.pc = "next" /\ feed'.at = feed.at /\ feed'.copy = feed.copy
          /\ feed'.revision = feed.revision /\ feed'.shown = feed.shown /\ feed'.ui = feed.ui
          /\ feed'.flush = (feed.flush \/ ~feed.shown)
      <4> DEFINE f == feed.flush \/ ~feed.shown
      <4>1. f \in BOOLEAN
        BY <1>1 DEF Feed
      <4>2. feed' = [feed EXCEPT !.flush = f]
        BY <1>1, <3>1 DEF Feed
      <4> HIDE DEF f
      <4>3. /\ feed' \in Feed /\ feed'.pc = "next" /\ feed'.at = feed.at /\ feed'.copy = feed.copy
            /\ feed'.revision = feed.revision /\ feed'.shown = feed.shown /\ feed'.ui = feed.ui
            /\ feed'.flush = f
        BY <1>1, <4>1, <4>2 DEF Feed
      <4> QED
        BY <4>3 DEF f
    <3>3. ~Numbered(d) /\ queue[1].kind # "Reset" /\ ~Numbered(queue[1])
      BY <2>4 DEF Numbered, d
    <3>4. DeltasTrue' /\ NoGap'
      BY <1>1, <2>0, <3>2, <3>3, TailTells
    <3>5. LastTold'
      <4>1. feed.at < Len(past) => Foretold(Len(past) - 1, Len(queue))'
        BY <1>1, <2>0, <3>3, LastStillTold
      <4> QED
        BY <1>1, <3>2, <4>1 DEF LastTold, Foretold
    <3>6. CopyTrue' /\ NothingShown' /\ ScreenFollows' /\ ConfirmationTold'
      BY <1>1, <1>2, <3>2 DEF BookInv, CopyTrue, NothingShown, ScreenFollows, ConfirmationTold,
                              bridge_revision, Carried
    <3> QED
      BY <1>1, <2>1, <2>2, <3>2, <3>4, <3>5, <3>6 DEF BookCore, CatchesUp
  <2>5. CASE d.kind = "Reset" \/ (Numbered(d) /\ ~Carried(d.revision))
    <3>1. feed' = Resync
      <4>1. CASE d.kind = "Reset"
        BY <2>2, <4>1 DEF applied
      <4>2. CASE Numbered(d) /\ ~Carried(d.revision)
        BY <2>2, <4>2 DEF applied, Numbered
      <4> QED
        BY <2>5, <4>1, <4>2
    <3>2. DeltasTrue'
      BY <1>1, <1>3, <2>0, <3>1, TailTells
    <3> QED
      BY <1>1, <1>4, <2>1, <2>2, <3>1, <3>2
  <2>6. CASE Numbered(d) /\ Carried(d.revision) /\ Stale(d)
    <3>1. feed' = feed
      BY <2>2, <2>6 DEF applied, Numbered
    <3>2. queue[1].kind # "Reset" /\ queue[1].revision <= feed.revision
      BY <2>6 DEF Numbered, Stale, d
    <3>3. DeltasTrue' /\ NoGap'
      BY <1>1, <2>0, <3>1, <3>2, TailTells
    <3>4. LastTold'
      <4>1. feed.at < Len(past) => d.revision # Len(past) - 1
        BY <1>1, <1>2, <2>3, <2>6, BookAssumption DEF Stale, Carried, bridge_revision
      <4>2. feed.at < Len(past) => Foretold(Len(past) - 1, Len(queue))'
        BY <1>1, <2>0, <3>2, <4>1, LastStillTold DEF d
      <4> QED
        BY <1>1, <3>1, <4>2 DEF LastTold, Foretold
    <3>5. CopyTrue' /\ NothingShown' /\ ScreenFollows'
      BY <1>1, <3>1 DEF BookInv, CopyTrue, NothingShown, ScreenFollows, bridge_revision, Carried
    <3>6. ConfirmationTold'
      <4> SUFFICES ASSUME loaded, ~feed.shown, ~feed.flush
                   PROVE  \E j \in 1 .. Len(queue') : queue'[j].kind = "Loaded"
        BY <1>1, <3>1 DEF ConfirmationTold
      <4>1. PICK j \in 1 .. Len(queue) : queue[j].kind = "Loaded"
        BY <2>0 DEF BookInv, ConfirmationTold
      <4>2. j # 1
        BY <2>6, <4>1 DEF Numbered, d
      <4>3. j - 1 \in 1 .. Len(queue) - 1 /\ (j - 1) + 1 = j
        BY <2>1, <4>2
      <4> QED
        BY <2>1, <4>1, <4>3
    <3> QED
      BY <1>1, <2>1, <2>2, <3>1, <3>3, <3>4, <3>5, <3>6 DEF BookCore, CatchesUp
  <2>7. CASE Numbered(d) /\ Carried(d.revision) /\ ~Stale(d)
    <3>1. feed' = [feed EXCEPT !.revision = d.revision, !.at = @ + 1, !.flush = TRUE,
                               !.copy[d.order] = IF d.kind = "Upserted" THEN d.version ELSE "none"]
      BY <2>2, <2>7 DEF applied, Numbered
    <3>2. d.revision = feed.at /\ feed.at + 1 \in 1 .. Len(past) /\ Carried(feed.at)
      <4>1. d.revision <= feed.revision + 1
        <5> SUFFICES ASSUME feed.revision + 1 < d.revision PROVE FALSE
          BY <1>1, <2>3, <2>7
        <5>1. Foretold(d.revision - 1, 0)
          BY <2>0, <2>1, <2>7 DEF BookInv, NoGap, d
        <5> QED
          BY <5>1 DEF Foretold
      <4>2. d.revision = feed.revision + 1
        BY <1>1, <2>3, <2>7, <4>1 DEF Stale
      <4> QED
        BY <1>1, <1>2, <2>3, <2>7, <4>2, BookAssumption DEF bridge_revision, Carried
    <3>3. Changed(feed.copy, d) = past[feed.at + 1] /\ Changed(feed.copy, d) \in Books
      BY <1>1, <1>2, <2>3, <2>7, <3>2
    <3>4. feed' = [feed EXCEPT !.revision = feed.at, !.at = feed.at + 1, !.flush = TRUE,
                               !.copy = Changed(feed.copy, d)]
      BY <1>1, <3>1, <3>2 DEF Feed, Changed
    <3>5. /\ feed' \in Feed /\ feed'.pc = "next" /\ feed'.at = feed.at + 1
          /\ feed'.copy = Changed(feed.copy, d) /\ feed'.revision = feed.at
          /\ feed'.shown = feed.shown /\ feed'.ui = feed.ui /\ feed'.flush
      <4> DEFINE c == Changed(feed.copy, d)
      <4>1. c \in Books /\ feed.at + 1 \in Nat
        BY <1>1, <3>3
      <4>2. feed' = [feed EXCEPT !.revision = feed.at, !.at = feed.at + 1, !.flush = TRUE, !.copy = c]
        BY <3>4
      <4> HIDE DEF c
      <4>3. feed' \in Feed
        BY <1>1, <4>1, <4>2 DEF Feed
      <4>4. /\ feed'.pc = "next" /\ feed'.at = feed.at + 1 /\ feed'.copy = c
            /\ feed'.revision = feed.at /\ feed'.shown = feed.shown /\ feed'.ui = feed.ui
            /\ feed'.flush
        BY <1>1, <4>2 DEF Feed
      <4> QED
        BY <4>3, <4>4 DEF c
    <3>6. queue[1].kind # "Reset" /\ queue[1].revision = feed.at /\ feed.revision <= feed.at
      BY <1>1, <1>2, <2>7, <3>2, BookAssumption DEF Numbered, d, Carried, bridge_revision
    <3>7. DeltasTrue' /\ NoGap'
      BY <1>1, <2>0, <3>5, <3>6, TailTells
    <3>8. LastTold'
      <4>1. feed.at + 1 < Len(past) => feed.at < Len(past) /\ queue[1].revision # Len(past) - 1
        BY <1>1, <3>6
      <4>2. feed.at + 1 < Len(past) => Foretold(Len(past) - 1, Len(queue))'
        BY <1>1, <2>0, <3>6, <4>1, LastStillTold
      <4> QED
        BY <1>1, <3>5, <4>2 DEF LastTold, Foretold
    <3>9. CopyTrue'
      BY <1>1, <3>2, <3>3, <3>5 DEF CopyTrue, bridge_revision
    <3>10. NothingShown' /\ ScreenFollows' /\ ConfirmationTold'
      BY <3>5 DEF NothingShown, ScreenFollows, ConfirmationTold
    <3>11. CatchesUp
      BY <1>1, <3>2, <3>3, <3>5 DEF CatchesUp
    <3> QED
      BY <1>1, <2>1, <2>2, <3>5, <3>7, <3>8, <3>9, <3>10, <3>11 DEF BookCore
  <2> QED
    BY <1>1, <2>2, <2>4, <2>5, <2>6, <2>7 DEF Numbered
<1> QED
  BY <1>1, <1>5, <1>6

(* The book's own steps, with the tasks that take them. *)
LEMMA TaskStep ==
    ASSUME BookInv, NEW t \in Tasks,
           NEW k \in [pc : {"idle", "clearing", "reading", "fetching"}, node : Nodes \cup {"none"}],
           task' = [task EXCEPT ![t] = k]
    PROVE  task' \in [Tasks -> [pc : {"idle", "clearing", "reading", "fetching"},
                                node : Nodes \cup {"none"}]]
BY BookIs DEF BookTasks

LEMMA ProducerKeeps ==
    ASSUME BookInv,
           \/ \E o \in Orders : write_trade_entry(o)
           \/ \E o \in Orders, v \in Versions : accept_event(o, v)
           \/ ingest_order_event \/ publish_on_stored_events_end
    PROVE  BookInv' /\ Grows /\ feed' = feed
<1>1. BookTasks
  BY BookIs
<1>2. CASE \E o \in Orders : write_trade_entry(o)
  <2>1. PICK o \in Orders : write_trade_entry(o)
    BY <1>2
  <2>2. UNCHANGED <<loaded, active, ingesting, task, feed, feeds>>
    BY <2>1 DEF write_trade_entry
  <2>3. remove(o) \/ \E v \in Versions : upsert(o, v)
    BY <2>1 DEF write_trade_entry
  <2>4. BookCore' /\ Grows
    BY <2>2, <2>3, RemoveOrderKeeps, UpsertKeeps
  <2>5. BookTasks'
    BY <1>1, <2>2 DEF BookTasks
  <2> QED
    BY <2>2, <2>4, <2>5, BookIs DEF BookInv, BookCore, BookTasks, TypeOK
<1>3. CASE \E o \in Orders, v \in Versions : accept_event(o, v)
  <2>1. PICK o \in Orders, v \in Versions : accept_event(o, v)
    BY <1>3
  <2>2. /\ ingesting' = [order |-> o, version |-> v]
        /\ UNCHANGED <<past, loaded, active, task, queue, lagged, feed, feeds>>
    BY <2>1 DEF accept_event, book_vars, feed_vars
  <2>3. BookCore' /\ Grows
    BY <2>2, StillKeeps
  <2>4. BookTasks'
    BY <1>1, <2>2 DEF BookTasks
  <2> QED
    BY <2>2, <2>3, <2>4 DEF BookInv, BookCore, BookTasks, TypeOK
<1>4. CASE ingest_order_event
  <2>1. /\ ingesting # NoEvent /\ ingesting' = NoEvent
        /\ apply_ingested_order(ingesting.order, ingesting.version)
        /\ UNCHANGED <<loaded, active, task, feed, feeds>>
    BY <1>4 DEF ingest_order_event
  <2>2. ingesting.order \in Orders /\ ingesting.version \in Versions
    BY <1>1, <2>1 DEF BookTasks
  <2>3. BookCore' /\ Grows
    BY <2>1, <2>2, IngestedKeeps
  <2>4. BookTasks'
    BY <1>1, <2>1 DEF BookTasks
  <2> QED
    BY <2>1, <2>3, <2>4 DEF BookInv, BookCore, BookTasks, TypeOK
<1>5. CASE publish_on_stored_events_end
  <2>1. loaded' = TRUE /\ UNCHANGED <<past, active, ingesting, task, feed, feeds>>
    BY <1>5 DEF publish_on_stored_events_end
  <2>2. BookCore' /\ Grows
    BY <1>5, LoadedKeeps
  <2>3. BookTasks'
    BY <1>1, <2>1 DEF BookTasks
  <2> QED
    BY <2>1, <2>2, <2>3 DEF BookInv, BookCore, BookTasks, TypeOK
<1> QED
  BY <1>2, <1>3, <1>4, <1>5

LEMMA TasksKeep ==
    ASSUME BookInv, NEW t \in Tasks,
           \/ \E n \in Nodes : set_active_mostro_node(t, n)
           \/ clear(t) \/ restart_orders_subscription(t)
           \/ refetch_active_node_orders(t) \/ end_refetch(t)
           \/ \E o \in Orders, v \in Versions : ingest_fetched(t, o, v)
    PROVE  BookInv' /\ Grows /\ feed' = feed
<1>0. BookTasks
  BY BookIs
<1>1. ASSUME BookCore', BookTasks' PROVE BookInv'
  BY <1>1 DEF BookInv, BookCore, BookTasks, TypeOK
<1>2. CASE \E n \in Nodes : set_active_mostro_node(t, n)
  <2>1. PICK n \in Nodes : set_active_mostro_node(t, n)
    BY <1>2
  <2>2. /\ active' = n /\ task' = [task EXCEPT ![t] = [pc |-> "clearing", node |-> "none"]]
        /\ UNCHANGED <<past, loaded, ingesting, queue, lagged, feed, feeds>>
    BY <2>1 DEF set_active_mostro_node, Goto, book_vars, feed_vars
  <2>3. task' \in [Tasks -> [pc : {"idle", "clearing", "reading", "fetching"}, node : Nodes \cup {"none"}]]
    BY <2>2, TaskStep
  <2>4. BookTasks'
    BY <1>0, <2>2, <2>3 DEF BookTasks
  <2> QED
    BY <1>1, <2>2, <2>4, StillKeeps
<1>3. CASE clear(t)
  <2>1. /\ loaded' = FALSE /\ replace_all(Empty)
        /\ task' = [task EXCEPT ![t] = [pc |-> "reading", node |-> "none"]]
        /\ UNCHANGED <<active, ingesting, feed, feeds>>
    BY <1>3 DEF clear, Goto
  <2>2. task' \in [Tasks -> [pc : {"idle", "clearing", "reading", "fetching"}, node : Nodes \cup {"none"}]]
    BY <2>1, TaskStep
  <2>3. BookTasks'
    BY <1>0, <2>1, <2>2 DEF BookTasks
  <2> QED
    BY <1>1, <2>1, <2>3, ClearKeeps
<1>4. CASE restart_orders_subscription(t) \/ refetch_active_node_orders(t) \/ end_refetch(t)
  <2>1. /\ \/ task' = [task EXCEPT ![t] = [pc |-> "reading", node |-> "none"]]
           \/ task' = [task EXCEPT ![t] = [pc |-> "fetching", node |-> active]]
           \/ task' = [task EXCEPT ![t] = NoTask]
        /\ UNCHANGED <<past, loaded, active, ingesting, queue, lagged, feed, feeds>>
    BY <1>4 DEF restart_orders_subscription, refetch_active_node_orders, end_refetch, Goto,
                book_vars, feed_vars
  <2>2. task' \in [Tasks -> [pc : {"idle", "clearing", "reading", "fetching"}, node : Nodes \cup {"none"}]]
    BY <1>0, <2>1, TaskStep DEF NoTask, BookTasks
  <2>3. BookTasks'
    BY <1>0, <2>1, <2>2 DEF BookTasks
  <2> QED
    BY <1>1, <2>1, <2>3, StillKeeps
<1>5. CASE \E o \in Orders, v \in Versions : ingest_fetched(t, o, v)
  <2>1. PICK o \in Orders, v \in Versions : ingest_fetched(t, o, v)
    BY <1>5
  <2>2. apply_ingested_order(o, v) /\ UNCHANGED <<loaded, active, ingesting, task, feed, feeds>>
    BY <2>1 DEF ingest_fetched
  <2>3. BookTasks'
    BY <1>0, <2>2 DEF BookTasks
  <2> QED
    BY <1>1, <2>2, <2>3, IngestedKeeps
<1> QED
  BY <1>2, <1>3, <1>4, <1>5

LEMMA ConsumerKeeps ==
    ASSUME BookInv, subscribe_deltas \/ Consume \/ dispose
    PROVE  BookInv' /\ CatchesUp /\ past' = past
<1>1. BookTasks /\ UNCHANGED <<loaded, active, ingesting, task>>
  BY BookIs DEF subscribe_deltas, Consume, dispose, restart, next, emit, book_vars
<1>2. BookCore' /\ feed' \in Feed /\ feeds' \in Nat /\ CatchesUp /\ past' = past
  BY <1>1, SubscribeKeeps, SnapshotKeeps, NextKeeps, EmitKeeps DEF Consume, CatchesUp, BookTasks
<1>3. BookTasks'
  BY <1>1, <1>2 DEF BookTasks
<1> QED
  BY <1>2, <1>3 DEF BookInv, BookCore, BookTasks, TypeOK

(* Every step of the book and its copy is one of the abstract replica. *)
LEMMA BookStep ==
    ASSUME BookInv, Next
    PROVE  BookInv' /\ [Replica!Change \/ Replica!CatchUp \/ Replica!Leave]_<<past, feed.at, feed.copy>>
<1>1. BookInv' /\ ((Grows /\ feed' = feed) \/ (CatchesUp /\ past' = past))
  BY ProducerKeeps, TasksKeep, ConsumerKeeps DEF Next
<1>2. CASE Grows /\ feed' = feed
  BY <1>1, <1>2 DEF Grows, Replica!Change
<1>3. CASE CatchesUp /\ past' = past
  BY <1>1, <1>3 DEF CatchesUp, Replica!CatchUp, Replica!Leave
<1> QED
  BY <1>1, <1>2, <1>3

LEMMA BookStutter == BookInv /\ UNCHANGED vars => BookInv'
<1> SUFFICES ASSUME BookInv, UNCHANGED vars PROVE BookInv'
  OBVIOUS
<1>1. BookCore' /\ BookTasks'
  BY BookIs, StillKeeps DEF vars, BookTasks
<1> QED
  BY <1>1 DEF BookInv, BookCore, BookTasks, TypeOK

LEMMA BookInit == Init => BookInv /\ Replica!Init
<1> SUFFICES ASSUME Init PROVE BookInv /\ Replica!Init
  OBVIOUS
<1>1. /\ past = <<Empty>> /\ loaded = FALSE /\ active \in Nodes /\ ingesting = NoEvent
      /\ task = [t \in Tasks |-> NoTask] /\ queue = << >> /\ lagged = FALSE /\ feed = Closed /\ feeds = 0
  BY DEF Init
<1>2. Empty \in Books
  BY DEF Empty, Books
<1>3. past \in Seq(Books) /\ Len(past) = 1 /\ queue \in Seq(OrderBookDelta) /\ Len(queue) = 0
  BY <1>1, <1>2
<1>4. Closed \in Feed /\ Closed.pc = "off" /\ Closed.at = 0 /\ ~Closed.shown /\ ~Closed.flush
  BY <1>2 DEF Closed, Feed
<1>5. BookTasks
  <2>1. NoTask \in [pc : {"idle", "clearing", "reading", "fetching"}, node : Nodes \cup {"none"}]
    BY DEF NoTask
  <2> QED
    BY <1>1, <1>4, <2>1 DEF BookTasks
<1>6. BookCore
  <2>1. past \in Seq(Books) /\ Len(past) > 0 /\ queue \in Seq(OrderBookDelta)
    <3>1. Len(past) = 1 => Len(past) > 0
      OBVIOUS
    <3> QED
      BY <1>3, <3>1
  <2>5. Len(queue) <= Capacity
    <3>1. \A n \in Nat \ {0} : 0 <= n
      OBVIOUS
    <3> QED
      BY <1>3, <3>1, BookAssumption
  <2>6. lagged \in BOOLEAN
    BY <1>1
  <2>2. feed.pc = "off" /\ feed.at = 0 /\ ~feed.shown /\ ~feed.flush
    BY <1>1, <1>4
  <2>3. DeltasTrue
    BY <1>3 DEF DeltasTrue
  <2>4. CopyTrue /\ NothingShown /\ NoGap /\ LastTold /\ ScreenFollows /\ ConfirmationTold
    BY <2>2 DEF CopyTrue, NothingShown, NoGap, LastTold, ScreenFollows, ConfirmationTold, Following
  <2> QED
    BY <2>1, <2>3, <2>4, <2>5, <2>6 DEF BookCore
<1>7. Replica!Init
  BY <1>1, <1>2, <1>4 DEF Replica!Init
<1> QED
  BY <1>5, <1>6, <1>7, BookIs

LEMMA BookShows == BookInv => BookSound
<1> SUFFICES ASSUME BookInv PROVE TypeOK /\ ScreenAgrees /\ ConfirmedBookShown
  BY DEF BookSound
<1>1. TypeOK
  BY DEF BookInv
<1>2. ASSUME Quiet PROVE (feed.shown => feed.ui = orders) /\ (loaded => feed.shown)
  <2>1. Following /\ Len(queue) = 0 /\ ~feed.flush
    BY <1>2 DEF Quiet, Following
  <2>2. feed.at = Len(past)
    <3>1. feed.at \in 1 .. Len(past) /\ Len(past) \in Nat
      BY <1>1, <2>1 DEF BookInv, CopyTrue, Following, TypeOK
    <3>2. ~(feed.at < Len(past))
      BY <2>1 DEF BookInv, LastTold, Foretold
    <3> QED
      BY <3>1, <3>2
  <2>3. feed.copy = orders
    BY <2>1, <2>2 DEF BookInv, CopyTrue, Following, orders
  <2> QED
    BY <2>1, <2>3 DEF BookInv, ScreenFollows, ConfirmationTold
<1> QED
  BY <1>1, <1>2 DEF ScreenAgrees, ConfirmedBookShown

(* The screen shows the book, whatever the relays, the trades and the node  *)
(* switches did to it, what a bounded channel lost, and where the range of  *)
(* the revisions ended (OrderDeltaStream::next, order_book_feed.dart).      *)
THEOREM BookShown == MCSpec => []BookSound
<1>1. MCInit => BookInv
  BY BookInit DEF MCInit
<1>2. BookInv /\ [MCNext]_MCvars => BookInv'
  <2> SUFFICES ASSUME BookInv, [MCNext]_MCvars PROVE BookInv'
    OBVIOUS
  <2>1. Next \/ UNCHANGED vars
    BY DEF MCNext, MCvars
  <2> QED
    BY <2>1, BookStep, BookStutter
<1> QED
  BY <1>1, <1>2, BookShows, PTL DEF MCSpec

(***************************************************************************)
(* The dispute.  An assignment is applied to a live trade only, and a       *)
(* rehydration restores nothing for a trade it saw finished.                *)
(***************************************************************************)
ScanTrue ==
    /\ took.stage \in {"live", "stored", "persisted"} => dispute_row = "live"
    /\ scan.stage \in {"solver", "origin"} => scan.row # "over"
    /\ scan.row = "over" => dispute_row = "over"
    /\ scan.stage = "origin" => scan.admin # Dispute!None

(* The daemon assigns a solver to a dispute that is open. *)
Assigned ==
    /\ took.stage # "idle" => took.solver \in net
    /\ assigned => net # {}
    /\ net # {} => opened # Dispute!None

(* A record that is not this client's own is the placeholder of a solver's  *)
(* assignment, so an acceptance claims it; once owned it stays so.          *)
InReview == record.status = "InReview" /\ record.admin # Dispute!None
RecordTrue ==
    /\ Dispute!Absent \/ record.mine \/ Dispute!is_peer_placeholder(record)
    /\ Dispute!AcceptedIsMine
    /\ took.stage \in {"stored", "persisted"} => InReview

(* The solver this client was told of is in the settings of a live trade,   *)
(* and whatever record there is names one; once a pass has ended there is   *)
(* a record, and a listener.                                                *)
SolverTrue ==
    /\ dispute_row = "live" /\ (assigned \/ took.stage = "persisted") => admin_key # Dispute!None
    /\ assigned /\ ~Dispute!Absent => InReview
    /\ assigned /\ opening \in {"accepted", "late"} => InReview
    /\ assigned /\ dispute_row = "live" /\ scan.stage = "arm" => InReview
    /\ assigned /\ dispute_row = "live" /\ armed => InReview /\ listener # Dispute!None

DisputeInv == /\ Dispute!TypeOK /\ ScanTrue /\ Assigned /\ RecordTrue /\ SolverTrue

DisputeRecord == [status : {Dispute!None, "Open", "InReview"}, mine : BOOLEAN, reason : BOOLEAN,
                  admin : Solvers \cup {Dispute!None}]
Handler == [stage : {"idle", "received", "live", "stored", "persisted"},
            solver : Solvers \cup {Dispute!None}]
Pass == [stage : {"idle", "listed", "solver", "origin", "arm"}, row : {"live", "over"},
         admin : Solvers \cup {Dispute!None}, mine : BOOLEAN]
DisputePlain ==
    /\ dispute_row \in {"live", "over"}
    /\ admin_key \in Solvers \cup {Dispute!None} /\ listener \in Solvers \cup {Dispute!None}
    /\ opening \in {"idle", "waiting", "accepted", "marking", "late", "late marking"}
    /\ opened \in {Dispute!None, "me", "peer"}
    /\ net \subseteq Solvers /\ seen \subseteq net
    /\ dispute_restarts \in 0 .. DisputeMaxRestarts
DisputeFlags ==
    origin \in BOOLEAN /\ dispute_owned \in BOOLEAN /\ assigned \in BOOLEAN /\ armed \in BOOLEAN
DisputeRecords == record \in DisputeRecord /\ took \in Handler /\ scan \in Pass

LEMMA DisputeIs ==
    /\ DisputeInv <=> /\ DisputePlain /\ DisputeFlags /\ DisputeRecords
                      /\ ScanTrue /\ Assigned /\ RecordTrue /\ SolverTrue
    /\ DisputeInv' <=> /\ DisputePlain' /\ DisputeFlags' /\ DisputeRecords'
                       /\ ScanTrue' /\ Assigned' /\ RecordTrue' /\ SolverTrue'
<1>1. /\ Dispute!TypeOK <=> DisputePlain /\ DisputeFlags /\ DisputeRecords
      /\ Dispute!TypeOK' <=> DisputePlain' /\ DisputeFlags' /\ DisputeRecords'
  BY DEF Dispute!TypeOK, DisputePlain, DisputeFlags, DisputeRecords, DisputeRecord, Handler, Pass
<1> QED
  BY <1>1 DEF DisputeInv

LEMMA DisputeInit == Dispute!Init => DisputeInv
<1> SUFFICES ASSUME Dispute!Init PROVE DisputeInv
  OBVIOUS
<1>1. DisputePlain
  BY TradesAssumption DEF Dispute!Init, DisputePlain
<1>2. DisputeFlags
  BY DEF Dispute!Init, DisputeFlags
<1>3. DisputeRecords
  BY DEF Dispute!Init, DisputeRecords, DisputeRecord, Handler, Pass, Dispute!NoRecord,
         Dispute!NoTook, Dispute!NoScan
<1>4. ScanTrue /\ Assigned /\ RecordTrue /\ SolverTrue
  BY DEF Dispute!Init, ScanTrue, Assigned, RecordTrue, SolverTrue, Dispute!NoRecord, Dispute!NoTook,
         Dispute!NoScan, Dispute!Absent, Dispute!AcceptedIsMine, Dispute!None
<1> QED
  BY <1>1, <1>2, <1>3, <1>4, DisputeIs

LEMMA DisputeStutter == DisputeInv /\ UNCHANGED DisputeVars => DisputeInv'
<1> SUFFICES ASSUME DisputeInv, UNCHANGED DisputeVars PROVE DisputeInv'
  OBVIOUS
<1>1. DisputePlain' /\ DisputeFlags' /\ DisputeRecords'
  BY DisputeIs DEF DisputeVars, DisputePlain, DisputeFlags, DisputeRecords
<1>2. ScanTrue' /\ Assigned'
  BY DisputeIs DEF DisputeVars, ScanTrue, Assigned
<1>3. RecordTrue' /\ SolverTrue'
  BY DisputeIs DEF DisputeVars, RecordTrue, SolverTrue, InReview, Dispute!Absent,
         Dispute!AcceptedIsMine, Dispute!is_peer_placeholder
<1> QED
  BY <1>1, <1>2, <1>3, DisputeIs

(* The rows, keys and stages the clauses are about. *)
LEMMA DisputeFacts ==
    ASSUME DisputeInv
    PROVE  /\ DisputePlain /\ DisputeFlags /\ DisputeRecords
           /\ record.status \in {Dispute!None, "Open", "InReview"} /\ record.mine \in BOOLEAN
           /\ record.admin \in Solvers \cup {Dispute!None}
           /\ took.stage \in {"idle", "received", "live", "stored", "persisted"}
           /\ took.solver \in Solvers \cup {Dispute!None}
           /\ scan.stage \in {"idle", "listed", "solver", "origin", "arm"}
           /\ scan.row \in {"live", "over"} /\ scan.admin \in Solvers \cup {Dispute!None}
           /\ Dispute!None \notin Solvers
<1>1. DisputePlain /\ DisputeFlags /\ DisputeRecords
  BY DisputeIs
<1>2. Dispute!None \notin Solvers
  BY TradesAssumption DEF Dispute!None
<1> QED
  BY <1>1, <1>2 DEF DisputeRecords, DisputeRecord, Handler, Pass

(* The handler and the pass move on. *)
LEMMA TookStep ==
    ASSUME took \in Handler, NEW s \in {"idle", "received", "live", "stored", "persisted"},
           took' = [took EXCEPT !.stage = s]
    PROVE  took' \in Handler /\ took'.stage = s /\ took'.solver = took.solver
  BY DEF Handler

LEMMA PassStep ==
    ASSUME scan \in Pass, NEW s \in {"idle", "listed", "solver", "origin", "arm"},
           scan' = [scan EXCEPT !.stage = s]
    PROVE  scan' \in Pass /\ scan'.stage = s /\ scan'.row = scan.row /\ scan'.admin = scan.admin
  BY DEF Pass

(* What the client's own acceptance makes of the record. *)
LEMMA ClaimedIs ==
    ASSUME record \in DisputeRecord, NEW b \in BOOLEAN,
           record' = CASE Dispute!Absent -> [status |-> "Open", mine |-> TRUE, reason |-> b,
                                             admin |-> Dispute!None]
                       [] Dispute!is_peer_placeholder(record) -> Dispute!Claimed(record, b)
                       [] OTHER -> record
    PROVE  /\ record' \in DisputeRecord
           /\ ~Dispute!Absent => record'.status = record.status /\ record'.admin = record.admin
           /\ Dispute!Absent => record'.status = "Open"
           /\ Dispute!Absent \/ Dispute!is_peer_placeholder(record) => record'.mine
           /\ ~Dispute!Absent /\ ~Dispute!is_peer_placeholder(record) => record' = record
<1>1. CASE Dispute!Absent
  <2>1. ~Dispute!is_peer_placeholder(record)
    BY <1>1 DEF Dispute!Absent, Dispute!is_peer_placeholder, Dispute!None
  <2>2. record' = [status |-> "Open", mine |-> TRUE, reason |-> b, admin |-> Dispute!None]
    BY <1>1, <2>1
  <2> QED
    BY <1>1, <2>1, <2>2 DEF DisputeRecord, Dispute!None
<1>2. CASE ~Dispute!Absent /\ Dispute!is_peer_placeholder(record)
  <2>1. record' = [record EXCEPT !.mine = TRUE, !.reason = b]
    BY <1>2 DEF Dispute!Claimed
  <2> QED
    BY <1>2, <2>1 DEF DisputeRecord, Dispute!Absent, Dispute!None
<1>3. CASE ~Dispute!Absent /\ ~Dispute!is_peer_placeholder(record)
  BY <1>3
<1> QED
  BY <1>1, <1>2, <1>3

LEMMA OpeningKeeps == DisputeInv /\ Dispute!Opening => DisputeInv'
<1> SUFFICES ASSUME DisputeInv, Dispute!Opening PROVE DisputeInv'
  OBVIOUS
<1>1. CASE Dispute!open_dispute
  <2>1. /\ opening' = "waiting"
        /\ UNCHANGED <<dispute_row, admin_key, origin, record, listener, took, scan, opened,
                       net, seen, dispute_restarts, dispute_owned, assigned, armed>>
    BY <1>1, DisputeFacts DEF Dispute!open_dispute, Dispute!settings, Dispute!daemon,
       Dispute!history, DisputeRecords
  <2>2. DisputePlain'
    BY <2>1, DisputeFacts DEF DisputePlain
  <2>3. DisputeFlags'
    BY <2>1, DisputeFacts DEF DisputeFlags
  <2>4. DisputeRecords'
    BY <2>1, DisputeFacts DEF DisputeRecords
  <2>5. ScanTrue' /\ Assigned'
    BY <2>1, DisputeFacts DEF DisputeInv, DisputePlain, ScanTrue, Assigned
  <2>6. RecordTrue' /\ SolverTrue'
    BY <2>1, DisputeFacts DEF DisputeInv, DisputePlain, ScanTrue, Assigned, RecordTrue,
       SolverTrue, InReview, Dispute!Absent, Dispute!AcceptedIsMine,
       Dispute!is_peer_placeholder, Dispute!None
  <2> QED
    BY <2>2, <2>3, <2>4, <2>5, <2>6, DisputeIs
<1>2. CASE Dispute!daemon_accepts
  <2>1. /\ opened = Dispute!None /\ opened' = "me"
        /\ opening' \in {"accepted", "late"}
        /\ UNCHANGED <<dispute_row, admin_key, origin, record, listener, took, scan, net, seen,
                       dispute_restarts, dispute_owned, assigned, armed>>
    BY <1>2, DisputeFacts DEF Dispute!daemon_accepts, Dispute!settings, Dispute!daemon,
       Dispute!history, DisputeRecords
  <2>2. DisputePlain'
    BY <2>1, DisputeFacts DEF DisputePlain
  <2>3. DisputeFlags'
    BY <2>1, DisputeFacts DEF DisputeFlags
  <2>4. DisputeRecords'
    BY <2>1, DisputeFacts DEF DisputeRecords
  <2>5. ScanTrue' /\ Assigned'
    BY <2>1, DisputeFacts DEF DisputeInv, DisputePlain, ScanTrue, Assigned
  <2>6. RecordTrue' /\ SolverTrue'
    BY <2>1, DisputeFacts DEF DisputeInv, DisputePlain, ScanTrue, Assigned, RecordTrue,
       SolverTrue, InReview, Dispute!Absent, Dispute!AcceptedIsMine,
       Dispute!is_peer_placeholder, Dispute!None
  <2> QED
    BY <2>2, <2>3, <2>4, <2>5, <2>6, DisputeIs
<1>3. CASE Dispute!daemon_refuses
  <2>1. /\ opening' = "idle"
        /\ UNCHANGED <<dispute_row, admin_key, origin, record, listener, took, scan, opened,
                       net, seen, dispute_restarts, dispute_owned, assigned, armed>>
    BY <1>3, DisputeFacts DEF Dispute!daemon_refuses, Dispute!settings, Dispute!daemon,
       Dispute!history, DisputeRecords
  <2>2. DisputePlain'
    BY <2>1, DisputeFacts DEF DisputePlain
  <2>3. DisputeFlags'
    BY <2>1, DisputeFacts DEF DisputeFlags
  <2>4. DisputeRecords'
    BY <2>1, DisputeFacts DEF DisputeRecords
  <2>5. ScanTrue' /\ Assigned'
    BY <2>1, DisputeFacts DEF DisputeInv, DisputePlain, ScanTrue, Assigned
  <2>6. RecordTrue' /\ SolverTrue'
    BY <2>1, DisputeFacts DEF DisputeInv, DisputePlain, ScanTrue, Assigned, RecordTrue,
       SolverTrue, InReview, Dispute!Absent, Dispute!AcceptedIsMine,
       Dispute!is_peer_placeholder, Dispute!None
  <2> QED
    BY <2>2, <2>3, <2>4, <2>5, <2>6, DisputeIs
<1>4. CASE Dispute!try_insert_if_absent_or_resolved
  <2>1. /\ record' \in DisputeRecord
        /\ ~Dispute!Absent => record'.status = record.status /\ record'.admin = record.admin
        /\ Dispute!Absent => record'.status = "Open"
        /\ Dispute!Absent \/ Dispute!is_peer_placeholder(record) => record'.mine
        /\ ~Dispute!Absent /\ ~Dispute!is_peer_placeholder(record) => record' = record
        /\ dispute_owned' = TRUE
        /\ opening = "accepted" /\ opening' \in {"marking", "idle"}
        /\ UNCHANGED <<dispute_row, admin_key, origin, listener, took, scan, opened, net, seen,
                       dispute_restarts, assigned, armed>>
    BY <1>4, DisputeFacts, ClaimedIs DEF Dispute!try_insert_if_absent_or_resolved,
       Dispute!settings, Dispute!daemon, Dispute!history, DisputeRecords
  <2>2. DisputePlain'
    BY <2>1, DisputeFacts DEF DisputePlain
  <2>3. DisputeFlags'
    BY <2>1, DisputeFacts DEF DisputeFlags
  <2>4. DisputeRecords'
    BY <2>1, DisputeFacts DEF DisputeRecords
  <2>5. ScanTrue' /\ Assigned'
    BY <2>1, DisputeFacts DEF DisputeInv, DisputePlain, ScanTrue, Assigned
  <2>6. RecordTrue' /\ SolverTrue'
    BY <2>1, DisputeFacts DEF DisputeInv, DisputePlain, ScanTrue, Assigned, RecordTrue,
       SolverTrue, InReview, Dispute!Absent, Dispute!AcceptedIsMine,
       Dispute!is_peer_placeholder, Dispute!None
  <2> QED
    BY <2>2, <2>3, <2>4, <2>5, <2>6, DisputeIs
<1>5. CASE Dispute!record_late_acceptance
  <2>1. /\ record' \in DisputeRecord
        /\ ~Dispute!Absent => record'.status = record.status /\ record'.admin = record.admin
        /\ Dispute!Absent => record'.status = "Open"
        /\ Dispute!Absent \/ Dispute!is_peer_placeholder(record) => record'.mine
        /\ ~Dispute!Absent /\ ~Dispute!is_peer_placeholder(record) => record' = record
        /\ dispute_owned' = TRUE
        /\ opening = "late" /\ opening' = "late marking"
        /\ UNCHANGED <<dispute_row, admin_key, origin, listener, took, scan, opened, net, seen,
                       dispute_restarts, assigned, armed>>
    BY <1>5, DisputeFacts, ClaimedIs DEF Dispute!record_late_acceptance, Dispute!settings,
       Dispute!daemon, Dispute!history, DisputeRecords
  <2>2. DisputePlain'
    BY <2>1, DisputeFacts DEF DisputePlain
  <2>3. DisputeFlags'
    BY <2>1, DisputeFacts DEF DisputeFlags
  <2>4. DisputeRecords'
    BY <2>1, DisputeFacts DEF DisputeRecords
  <2>5. ScanTrue' /\ Assigned'
    BY <2>1, DisputeFacts DEF DisputeInv, DisputePlain, ScanTrue, Assigned
  <2>6. RecordTrue' /\ SolverTrue'
    BY <2>1, DisputeFacts DEF DisputeInv, DisputePlain, ScanTrue, Assigned, RecordTrue,
       SolverTrue, InReview, Dispute!Absent, Dispute!AcceptedIsMine,
       Dispute!is_peer_placeholder, Dispute!None
  <2> QED
    BY <2>2, <2>3, <2>4, <2>5, <2>6, DisputeIs
<1>6. CASE Dispute!persist_dispute_origin
  <2>1. /\ origin' = TRUE /\ opening' = "idle"
        /\ UNCHANGED <<dispute_row, admin_key, record, listener, took, scan, opened, net, seen,
                       dispute_restarts, dispute_owned, assigned, armed>>
    BY <1>6, DisputeFacts DEF Dispute!persist_dispute_origin, Dispute!settings,
       Dispute!daemon, Dispute!history, DisputeRecords
  <2>2. DisputePlain'
    BY <2>1, DisputeFacts DEF DisputePlain
  <2>3. DisputeFlags'
    BY <2>1, DisputeFacts DEF DisputeFlags
  <2>4. DisputeRecords'
    BY <2>1, DisputeFacts DEF DisputeRecords
  <2>5. ScanTrue' /\ Assigned'
    BY <2>1, DisputeFacts DEF DisputeInv, DisputePlain, ScanTrue, Assigned
  <2>6. RecordTrue' /\ SolverTrue'
    BY <2>1, DisputeFacts DEF DisputeInv, DisputePlain, ScanTrue, Assigned, RecordTrue,
       SolverTrue, InReview, Dispute!Absent, Dispute!AcceptedIsMine,
       Dispute!is_peer_placeholder, Dispute!None
  <2> QED
    BY <2>2, <2>3, <2>4, <2>5, <2>6, DisputeIs
<1> QED
  BY <1>1, <1>2, <1>3, <1>4, <1>5, <1>6 DEF Dispute!Opening

LEMMA AssigningKeeps == DisputeInv /\ Dispute!Assigning => DisputeInv'
<1> SUFFICES ASSUME DisputeInv, Dispute!Assigning PROVE DisputeInv'
  OBVIOUS
<1>1. CASE \E s \in Solvers : Dispute!receive(s)
  <2>0. PICK s \in Solvers : Dispute!receive(s)
    BY <1>1
  <2>1. /\ took.stage = "idle" /\ s \in net
        /\ seen' = seen \cup {s}
        /\ took' \in Handler /\ took'.stage = "received" /\ took'.solver = s
        /\ UNCHANGED <<dispute_row, admin_key, origin, record, listener, opening, scan, opened,
                       net, dispute_restarts, dispute_owned, assigned, armed>>
    BY <2>0, DisputeFacts DEF Dispute!receive, Dispute!settings, Dispute!daemon,
       Dispute!history, DisputeRecords, Handler
  <2>2. DisputePlain'
    BY <2>1, DisputeFacts DEF DisputePlain
  <2>3. DisputeFlags'
    BY <2>1, DisputeFacts DEF DisputeFlags
  <2>4. DisputeRecords'
    BY <2>1, DisputeFacts DEF DisputeRecords
  <2>5. ScanTrue' /\ Assigned'
    BY <2>1, DisputeFacts DEF DisputeInv, DisputePlain, ScanTrue, Assigned
  <2>6. RecordTrue' /\ SolverTrue'
    BY <2>1, DisputeFacts DEF DisputeInv, DisputePlain, ScanTrue, Assigned, RecordTrue,
       SolverTrue, InReview, Dispute!Absent, Dispute!AcceptedIsMine,
       Dispute!is_peer_placeholder, Dispute!None
  <2> QED
    BY <2>2, <2>3, <2>4, <2>5, <2>6, DisputeIs
<1>2. CASE Dispute!persisted_order_is_finished
  <2>1. /\ took.stage = "received" /\ took' \in Handler
        /\ \/ /\ dispute_row = "over" /\ took'.stage = "idle"
              /\ admin_key' = Dispute!None /\ origin' = FALSE
           \/ /\ dispute_row # "over" /\ took'.stage = "live" /\ took'.solver = took.solver
              /\ UNCHANGED <<admin_key, origin>>
        /\ UNCHANGED <<dispute_row, record, listener, opening, scan, opened, net, seen,
                       dispute_restarts, dispute_owned, assigned, armed>>
    BY <1>2, DisputeFacts, TookStep DEF Dispute!persisted_order_is_finished, Dispute!settings,
       Dispute!daemon, Dispute!history, DisputeRecords, Dispute!TookGoes, Dispute!NoTook,
       Handler
  <2>2. DisputePlain'
    BY <2>1, DisputeFacts DEF DisputePlain
  <2>3. DisputeFlags'
    BY <2>1, DisputeFacts DEF DisputeFlags
  <2>4. DisputeRecords'
    BY <2>1, DisputeFacts DEF DisputeRecords
  <2>5. ScanTrue' /\ Assigned'
    BY <2>1, DisputeFacts DEF DisputeInv, DisputePlain, ScanTrue, Assigned
  <2>6. RecordTrue' /\ SolverTrue'
    BY <2>1, DisputeFacts DEF DisputeInv, DisputePlain, ScanTrue, Assigned, RecordTrue,
       SolverTrue, InReview, Dispute!Absent, Dispute!AcceptedIsMine,
       Dispute!is_peer_placeholder, Dispute!None
  <2> QED
    BY <2>2, <2>3, <2>4, <2>5, <2>6, DisputeIs
<1>3. CASE Dispute!upsert_or_update
  <2>1. /\ took.stage = "live"
        /\ record' \in DisputeRecord /\ record'.status = "InReview" /\ record'.admin = took.solver
        /\ Dispute!Absent => ~record'.mine /\ ~record'.reason
        /\ ~Dispute!Absent => record'.mine = record.mine /\ record'.reason = record.reason
        /\ took' \in Handler /\ took'.stage = "stored" /\ took'.solver = took.solver
        /\ UNCHANGED <<dispute_row, admin_key, origin, listener, opening, scan, opened, net,
                       seen, dispute_restarts, dispute_owned, assigned, armed>>
    BY <1>3, DisputeFacts, TookStep DEF Dispute!upsert_or_update, Dispute!settings,
       Dispute!daemon, Dispute!history, DisputeRecords, Dispute!TookGoes, Dispute!NoRecord,
       DisputeRecord
  <2>2. DisputePlain'
    BY <2>1, DisputeFacts DEF DisputePlain
  <2>3. DisputeFlags'
    BY <2>1, DisputeFacts DEF DisputeFlags
  <2>4. DisputeRecords'
    BY <2>1, DisputeFacts DEF DisputeRecords
  <2>5. ScanTrue' /\ Assigned'
    BY <2>1, DisputeFacts DEF DisputeInv, DisputePlain, ScanTrue, Assigned
  <2>6. RecordTrue' /\ SolverTrue'
    BY <2>1, DisputeFacts DEF DisputeInv, DisputePlain, ScanTrue, Assigned, RecordTrue,
       SolverTrue, InReview, Dispute!Absent, Dispute!AcceptedIsMine,
       Dispute!is_peer_placeholder, Dispute!None
  <2> QED
    BY <2>2, <2>3, <2>4, <2>5, <2>6, DisputeIs
<1>4. CASE Dispute!persist_admin_pubkey
  <2>1. /\ took.stage = "stored" /\ admin_key' = took.solver
        /\ took' \in Handler /\ took'.stage = "persisted" /\ took'.solver = took.solver
        /\ UNCHANGED <<dispute_row, origin, record, listener, opening, scan, opened, net, seen,
                       dispute_restarts, dispute_owned, assigned, armed>>
    BY <1>4, DisputeFacts, TookStep DEF Dispute!persist_admin_pubkey, Dispute!settings,
       Dispute!daemon, Dispute!history, DisputeRecords, Dispute!TookGoes
  <2>2. DisputePlain'
    BY <2>1, DisputeFacts DEF DisputePlain
  <2>3. DisputeFlags'
    BY <2>1, DisputeFacts DEF DisputeFlags
  <2>4. DisputeRecords'
    BY <2>1, DisputeFacts DEF DisputeRecords
  <2>5. ScanTrue' /\ Assigned'
    BY <2>1, DisputeFacts DEF DisputeInv, DisputePlain, ScanTrue, Assigned
  <2>6. RecordTrue' /\ SolverTrue'
    BY <2>1, DisputeFacts DEF DisputeInv, DisputePlain, ScanTrue, Assigned, RecordTrue,
       SolverTrue, InReview, Dispute!Absent, Dispute!AcceptedIsMine,
       Dispute!is_peer_placeholder, Dispute!None
  <2> QED
    BY <2>2, <2>3, <2>4, <2>5, <2>6, DisputeIs
<1>5. CASE Dispute!derive_admin_shared_key
  <2>1. /\ took.stage = "persisted" /\ took' \in Handler /\ took'.stage = "idle"
        /\ listener' = IF listener = Dispute!None THEN took.solver ELSE listener
        /\ assigned' = TRUE
        /\ UNCHANGED <<dispute_row, admin_key, origin, record, opening, scan, opened, net,
                       seen, dispute_restarts, dispute_owned, armed>>
    BY <1>5, DisputeFacts DEF Dispute!derive_admin_shared_key, Dispute!settings,
       Dispute!daemon, Dispute!history, DisputeRecords, Dispute!Listen, Dispute!NoTook,
       Handler
  <2>2. DisputePlain'
    BY <2>1, DisputeFacts DEF DisputePlain
  <2>3. DisputeFlags'
    BY <2>1, DisputeFacts DEF DisputeFlags
  <2>4. DisputeRecords'
    BY <2>1, DisputeFacts DEF DisputeRecords
  <2>5. ScanTrue' /\ Assigned'
    BY <2>1, DisputeFacts DEF DisputeInv, DisputePlain, ScanTrue, Assigned
  <2>6. RecordTrue' /\ SolverTrue'
    BY <2>1, DisputeFacts DEF DisputeInv, DisputePlain, ScanTrue, Assigned, RecordTrue,
       SolverTrue, InReview, Dispute!Absent, Dispute!AcceptedIsMine,
       Dispute!is_peer_placeholder, Dispute!None
  <2> QED
    BY <2>2, <2>3, <2>4, <2>5, <2>6, DisputeIs
<1> QED
  BY <1>1, <1>2, <1>3, <1>4, <1>5 DEF Dispute!Assigning

LEMMA RehydratingKeeps == DisputeInv /\ Dispute!Rehydrating => DisputeInv'
<1> SUFFICES ASSUME DisputeInv, Dispute!Rehydrating PROVE DisputeInv'
  OBVIOUS
<1>1. CASE Dispute!list_trades
  <2>1. /\ scan' \in Pass /\ scan'.stage = "listed" /\ scan'.row = dispute_row
        /\ UNCHANGED <<dispute_row, admin_key, origin, record, listener, opening, took, opened,
                       net, seen, dispute_restarts, dispute_owned, assigned, armed>>
    BY <1>1, DisputeFacts DEF Dispute!list_trades, Dispute!settings, Dispute!daemon,
       Dispute!history, DisputeRecords, DisputePlain, Dispute!NoScan, Pass
  <2>2. DisputePlain'
    BY <2>1, DisputeFacts DEF DisputePlain
  <2>3. DisputeFlags'
    BY <2>1, DisputeFacts DEF DisputeFlags
  <2>4. DisputeRecords'
    BY <2>1, DisputeFacts DEF DisputeRecords
  <2>5. ScanTrue' /\ Assigned'
    BY <2>1, DisputeFacts DEF DisputeInv, DisputePlain, ScanTrue, Assigned
  <2>6. RecordTrue' /\ SolverTrue'
    BY <2>1, DisputeFacts DEF DisputeInv, DisputePlain, ScanTrue, Assigned, RecordTrue,
       SolverTrue, InReview, Dispute!Absent, Dispute!AcceptedIsMine,
       Dispute!is_peer_placeholder, Dispute!None
  <2> QED
    BY <2>2, <2>3, <2>4, <2>5, <2>6, DisputeIs
<1>2. CASE Dispute!judge
  <2>1. /\ scan' \in Pass /\ scan'.row = scan.row /\ scan'.admin = scan.admin
        /\ \/ ~Dispute!Absent /\ scan'.stage = "arm" /\ UNCHANGED <<admin_key, origin>>
           \/ /\ scan.row = "over" /\ scan'.stage = "arm"
              /\ admin_key' = Dispute!None /\ origin' = FALSE
           \/ scan.row # "over" /\ scan'.stage = "solver" /\ UNCHANGED <<admin_key, origin>>
        /\ UNCHANGED <<dispute_row, record, listener, opening, took, opened, net, seen,
                       dispute_restarts, dispute_owned, assigned, armed>>
    BY <1>2, DisputeFacts, PassStep DEF Dispute!judge, Dispute!settings, Dispute!daemon,
       Dispute!history, DisputeRecords, Dispute!ScanGoes
  <2>2. DisputePlain'
    BY <2>1, DisputeFacts DEF DisputePlain
  <2>3. DisputeFlags'
    BY <2>1, DisputeFacts DEF DisputeFlags
  <2>4. DisputeRecords'
    BY <2>1, DisputeFacts DEF DisputeRecords
  <2>5. ScanTrue' /\ Assigned'
    BY <2>1, DisputeFacts DEF DisputeInv, DisputePlain, ScanTrue, Assigned
  <2>6. RecordTrue' /\ SolverTrue'
    BY <2>1, DisputeFacts DEF DisputeInv, DisputePlain, ScanTrue, Assigned, RecordTrue,
       SolverTrue, InReview, Dispute!Absent, Dispute!AcceptedIsMine,
       Dispute!is_peer_placeholder, Dispute!None
  <2> QED
    BY <2>2, <2>3, <2>4, <2>5, <2>6, DisputeIs
<1>3. CASE Dispute!read_solver
  <2>1. /\ scan.stage = "solver" /\ scan' \in Pass
        /\ scan'.row = scan.row /\ scan'.admin = admin_key
        /\ scan'.stage = IF admin_key = Dispute!None THEN "arm" ELSE "origin"
        /\ UNCHANGED <<dispute_row, admin_key, origin, record, listener, opening, took, opened,
                       net, seen, dispute_restarts, dispute_owned, assigned, armed>>
    BY <1>3, DisputeFacts DEF Dispute!read_solver, Dispute!settings, Dispute!daemon,
       Dispute!history, DisputeRecords, DisputePlain, DisputeFlags, Pass
  <2>2. DisputePlain'
    BY <2>1, DisputeFacts DEF DisputePlain
  <2>3. DisputeFlags'
    BY <2>1, DisputeFacts DEF DisputeFlags
  <2>4. DisputeRecords'
    BY <2>1, DisputeFacts DEF DisputeRecords
  <2>5. ScanTrue' /\ Assigned'
    BY <2>1, DisputeFacts DEF DisputeInv, DisputePlain, ScanTrue, Assigned
  <2>6. RecordTrue' /\ SolverTrue'
    BY <2>1, DisputeFacts DEF DisputeInv, DisputePlain, ScanTrue, Assigned, RecordTrue,
       SolverTrue, InReview, Dispute!Absent, Dispute!AcceptedIsMine,
       Dispute!is_peer_placeholder, Dispute!None
  <2> QED
    BY <2>2, <2>3, <2>4, <2>5, <2>6, DisputeIs
<1>4. CASE Dispute!restore
  <2>1. /\ scan.stage = "origin" /\ record' \in DisputeRecord
        /\ ~Dispute!Absent => record' = record
        /\ Dispute!Absent => /\ record'.status = "InReview" /\ record'.admin = scan.admin
                             /\ ~record'.reason
        /\ scan' \in Pass /\ scan'.stage = "arm" /\ scan'.row = scan.row /\ scan'.admin = scan.admin
        /\ UNCHANGED <<dispute_row, admin_key, origin, listener, opening, took, opened, net,
                       seen, dispute_restarts, dispute_owned, assigned, armed>>
    BY <1>4, DisputeFacts, PassStep DEF Dispute!restore, Dispute!settings, Dispute!daemon,
       Dispute!history, DisputeRecords, Dispute!ScanGoes, DisputeRecord, Pass
  <2>2. DisputePlain'
    BY <2>1, DisputeFacts DEF DisputePlain
  <2>3. DisputeFlags'
    BY <2>1, DisputeFacts DEF DisputeFlags
  <2>4. DisputeRecords'
    BY <2>1, DisputeFacts DEF DisputeRecords
  <2>5. ScanTrue' /\ Assigned'
    BY <2>1, DisputeFacts DEF DisputeInv, DisputePlain, ScanTrue, Assigned
  <2>6. RecordTrue' /\ SolverTrue'
    BY <2>1, DisputeFacts DEF DisputeInv, DisputePlain, ScanTrue, Assigned, RecordTrue,
       SolverTrue, InReview, Dispute!Absent, Dispute!AcceptedIsMine,
       Dispute!is_peer_placeholder, Dispute!None
  <2> QED
    BY <2>2, <2>3, <2>4, <2>5, <2>6, DisputeIs
<1>5. CASE Dispute!arm
  <2>1. /\ scan.stage = "arm" /\ scan' \in Pass /\ scan'.stage = "idle" /\ scan'.row = "live"
        /\ record.status = "InReview" =>
               listener' = IF listener = Dispute!None THEN record.admin ELSE listener
        /\ record.status # "InReview" => listener' = listener
        /\ armed' = TRUE
        /\ UNCHANGED <<dispute_row, admin_key, origin, record, opening, took, opened, net,
                       seen, dispute_restarts, dispute_owned, assigned>>
    BY <1>5, DisputeFacts DEF Dispute!arm, Dispute!settings, Dispute!daemon, Dispute!history,
       DisputeRecords, Dispute!NoScan, Dispute!Listen, Pass
  <2>2. DisputePlain'
    BY <2>1, DisputeFacts DEF DisputePlain
  <2>3. DisputeFlags'
    BY <2>1, DisputeFacts DEF DisputeFlags
  <2>4. DisputeRecords'
    BY <2>1, DisputeFacts DEF DisputeRecords
  <2>5. ScanTrue' /\ Assigned'
    BY <2>1, DisputeFacts DEF DisputeInv, DisputePlain, ScanTrue, Assigned
  <2>6. RecordTrue' /\ SolverTrue'
    BY <2>1, DisputeFacts DEF DisputeInv, DisputePlain, ScanTrue, Assigned, RecordTrue,
       SolverTrue, InReview, Dispute!Absent, Dispute!AcceptedIsMine,
       Dispute!is_peer_placeholder, Dispute!None
  <2> QED
    BY <2>2, <2>3, <2>4, <2>5, <2>6, DisputeIs
<1> QED
  BY <1>1, <1>2, <1>3, <1>4, <1>5 DEF Dispute!Rehydrating

LEMMA DisputeStep == DisputeInv /\ Dispute!Next => DisputeInv'
<1> SUFFICES ASSUME DisputeInv, Dispute!Next PROVE DisputeInv'
  OBVIOUS
<1>1. CASE Dispute!peer_opens
  <2>1. /\ opened' = "peer"
        /\ UNCHANGED <<dispute_row, admin_key, origin, record, listener, opening, took, scan,
                       net, seen, dispute_restarts, dispute_owned, assigned, armed>>
    BY <1>1, DisputeFacts DEF Dispute!peer_opens, Dispute!settings, Dispute!daemon,
       Dispute!history, DisputeRecords
  <2>2. DisputePlain'
    BY <2>1, DisputeFacts DEF DisputePlain
  <2>3. DisputeFlags'
    BY <2>1, DisputeFacts DEF DisputeFlags
  <2>4. DisputeRecords'
    BY <2>1, DisputeFacts DEF DisputeRecords
  <2>5. ScanTrue' /\ Assigned'
    BY <2>1, DisputeFacts DEF DisputeInv, DisputePlain, ScanTrue, Assigned, Dispute!None
  <2>6. RecordTrue' /\ SolverTrue'
    BY <2>1, DisputeFacts DEF DisputeInv, DisputePlain, ScanTrue, Assigned, RecordTrue,
       SolverTrue, InReview, Dispute!Absent, Dispute!AcceptedIsMine,
       Dispute!is_peer_placeholder, Dispute!None
  <2> QED
    BY <2>2, <2>3, <2>4, <2>5, <2>6, DisputeIs
<1>2. CASE \E s \in Solvers : Dispute!solver_takes(s)
  <2>0. PICK s \in Solvers : Dispute!solver_takes(s)
    BY <1>2
  <2>1. /\ opened # Dispute!None /\ net' = net \cup {s} /\ s \in net'
        /\ UNCHANGED <<dispute_row, admin_key, origin, record, listener, opening, took, scan,
                       opened, seen, dispute_restarts, dispute_owned, assigned,
                       armed>>
    BY <2>0, DisputeFacts DEF Dispute!solver_takes, Dispute!settings, Dispute!daemon,
       Dispute!history, DisputeRecords
  <2>2. DisputePlain'
    BY <2>1, DisputeFacts DEF DisputePlain
  <2>3. DisputeFlags'
    BY <2>1, DisputeFacts DEF DisputeFlags
  <2>4. DisputeRecords'
    BY <2>1, DisputeFacts DEF DisputeRecords
  <2>5. ScanTrue' /\ Assigned'
    <3>1. ScanTrue'
      BY <2>1, DisputeIs DEF ScanTrue
    <3>2. net \subseteq net' /\ net' # {} /\ opened' # Dispute!None
      BY <2>1
    <3>3. Assigned'
      BY <2>1, <3>2, DisputeIs DEF Assigned
    <3> QED
      BY <3>1, <3>3
  <2>6. RecordTrue' /\ SolverTrue'
    BY <2>1, DisputeFacts DEF DisputeInv, DisputePlain, ScanTrue, Assigned, RecordTrue,
       SolverTrue, InReview, Dispute!Absent, Dispute!AcceptedIsMine,
       Dispute!is_peer_placeholder, Dispute!None
  <2> QED
    BY <2>2, <2>3, <2>4, <2>5, <2>6, DisputeIs
<1>3. CASE Dispute!verdict
  <2>1. /\ took.stage = "idle" /\ dispute_row' = "over" /\ listener' = Dispute!None
        /\ UNCHANGED <<admin_key, origin, record, opening, took, scan, opened, net, seen,
                       dispute_restarts, dispute_owned, assigned, armed>>
    BY <1>3, DisputeFacts DEF Dispute!verdict, Dispute!settings, Dispute!daemon,
       Dispute!history, DisputeRecords
  <2>2. DisputePlain'
    BY <2>1, DisputeFacts DEF DisputePlain
  <2>3. DisputeFlags'
    BY <2>1, DisputeFacts DEF DisputeFlags
  <2>4. DisputeRecords'
    BY <2>1, DisputeFacts DEF DisputeRecords
  <2>5. ScanTrue' /\ Assigned'
    BY <2>1, DisputeFacts DEF DisputeInv, DisputePlain, ScanTrue, Assigned
  <2>6. RecordTrue' /\ SolverTrue'
    BY <2>1, DisputeFacts DEF DisputeInv, DisputePlain, ScanTrue, Assigned, RecordTrue,
       SolverTrue, InReview, Dispute!Absent, Dispute!AcceptedIsMine,
       Dispute!is_peer_placeholder, Dispute!None
  <2> QED
    BY <2>2, <2>3, <2>4, <2>5, <2>6, DisputeIs
<1>4. CASE Dispute!restart
  <2>1. /\ dispute_restarts < DisputeMaxRestarts /\ dispute_restarts' = dispute_restarts + 1
        /\ record' \in DisputeRecord /\ record'.status = Dispute!None
        /\ listener' = Dispute!None /\ opening' = "idle" /\ seen' = {}
        /\ took' \in Handler /\ took'.stage = "idle"
        /\ scan' \in Pass /\ scan'.stage = "idle" /\ scan'.row = "live"
        /\ dispute_owned' = FALSE /\ armed' = FALSE
        /\ UNCHANGED <<dispute_row, admin_key, origin, opened, net, assigned>>
    BY <1>4, DisputeFacts DEF Dispute!restart, Dispute!settings, Dispute!daemon,
       Dispute!history, DisputeRecords, Dispute!NoRecord, Dispute!NoTook, Dispute!NoScan,
       DisputeRecord, Handler, Pass
  <2>7. dispute_restarts' \in 0 .. DisputeMaxRestarts
    <3>1. dispute_restarts \in 0 .. DisputeMaxRestarts
      BY DisputeFacts DEF DisputePlain
    <3>2. dispute_restarts < DisputeMaxRestarts /\ dispute_restarts' = dispute_restarts + 1
      BY <2>1
    <3> QED
      BY <3>1, <3>2, TradesAssumption
  <2>2. DisputePlain'
    BY <2>1, DisputeFacts, <2>7 DEF DisputePlain
  <2>3. DisputeFlags'
    BY <2>1, DisputeFacts DEF DisputeFlags
  <2>4. DisputeRecords'
    BY <2>1, DisputeFacts DEF DisputeRecords
  <2>5. ScanTrue' /\ Assigned'
    BY <2>1, DisputeFacts DEF DisputeInv, DisputePlain, ScanTrue, Assigned
  <2>6. RecordTrue' /\ SolverTrue'
    BY <2>1, DisputeFacts DEF DisputeInv, DisputePlain, ScanTrue, Assigned, RecordTrue,
       SolverTrue, InReview, Dispute!Absent, Dispute!AcceptedIsMine,
       Dispute!is_peer_placeholder, Dispute!None
  <2> QED
    BY <2>2, <2>3, <2>4, <2>5, <2>6, DisputeIs
<1> QED
  BY <1>1, <1>2, <1>3, <1>4, OpeningKeeps, AssigningKeeps, RehydratingKeeps DEF Dispute!Next

(* What finished stays so: no step brings its record back but the answer to *)
(* this client's own request.                                               *)
LEMMA ClosedStays ==
    ASSUME DisputeInv, Dispute!Next,
           dispute_row = "over", Dispute!Absent, scan.row = "over", opening \notin {"accepted", "late"}
    PROVE  Dispute!Absent'
<1>1. took.stage \notin {"live", "stored", "persisted"} /\ scan.stage \notin {"solver", "origin"}
  BY DisputeIs DEF ScanTrue
<1>2. record' = record \/ record' = Dispute!NoRecord
  BY <1>1 DEF Dispute!Next, Dispute!Opening, Dispute!Assigning, Dispute!Rehydrating, Dispute!open_dispute,
     Dispute!daemon_accepts, Dispute!daemon_refuses, Dispute!try_insert_if_absent_or_resolved,
     Dispute!record_late_acceptance, Dispute!persist_dispute_origin, Dispute!receive,
     Dispute!persisted_order_is_finished, Dispute!upsert_or_update, Dispute!persist_admin_pubkey,
     Dispute!derive_admin_shared_key, Dispute!list_trades, Dispute!judge, Dispute!read_solver,
     Dispute!restore, Dispute!arm, Dispute!peer_opens, Dispute!solver_takes, Dispute!verdict,
     Dispute!restart
<1> QED
  BY <1>2 DEF Dispute!Absent, Dispute!NoRecord

(* The home screen's copy of the book implements the replica, and a         *)
(* finished trade's dispute does not come back, for any book and channel    *)
(* and any number of solvers, replays and restarts.                         *)
THEOREM TradesForward == MCSpec => TradeSteps
<1>1. MCInit => BookInv /\ DisputeInv /\ Replica!Init
  BY BookInit, DisputeInit DEF MCInit
<1>2. BookInv /\ DisputeInv /\ [MCNext]_MCvars =>
        /\ BookInv' /\ DisputeInv'
        /\ [Replica!Change \/ Replica!CatchUp \/ Replica!Leave]_<<past, feed.at, feed.copy>>
        /\ [dispute_row = "over" /\ Dispute!Absent /\ scan.row = "over"
              /\ opening \notin {"accepted", "late"} => Dispute!Absent']_Dispute!vars
  <2> SUFFICES ASSUME BookInv, DisputeInv, [MCNext]_MCvars
               PROVE  /\ BookInv' /\ DisputeInv'
                      /\ [Replica!Change \/ Replica!CatchUp \/ Replica!Leave]_<<past, feed.at, feed.copy>>
                      /\ [dispute_row = "over" /\ Dispute!Absent /\ scan.row = "over"
                            /\ opening \notin {"accepted", "late"} => Dispute!Absent']_Dispute!vars
    OBVIOUS
  <2>1. (Next \/ UNCHANGED vars) /\ (Dispute!Next \/ UNCHANGED DisputeVars)
    BY DEF MCNext, MCvars
  <2>2. BookInv' /\ [Replica!Change \/ Replica!CatchUp \/ Replica!Leave]_<<past, feed.at, feed.copy>>
    <3>1. CASE Next
      BY <3>1, BookStep
    <3>2. CASE UNCHANGED vars
      BY <3>2, BookStutter DEF vars
    <3> QED
      BY <2>1, <3>1, <3>2
  <2>3. /\ DisputeInv'
        /\ [dispute_row = "over" /\ Dispute!Absent /\ scan.row = "over"
              /\ opening \notin {"accepted", "late"} => Dispute!Absent']_Dispute!vars
    <3>1. CASE Dispute!Next
      BY <3>1, DisputeStep, ClosedStays
    <3>2. CASE UNCHANGED DisputeVars
      <4>1. UNCHANGED Dispute!vars
        BY <3>2 DEF DisputeVars, Dispute!vars, Dispute!settings, Dispute!daemon, Dispute!history
      <4> QED
        BY <3>2, <4>1, DisputeStutter
    <3> QED
      BY <2>1, <3>1, <3>2
  <2> QED
    BY <2>2, <2>3
<1> QED
  BY <1>1, <1>2, PTL DEF MCSpec, TradeSteps, CopyMovesForward, Replica!Spec, Dispute!FinishedStaysClosed

(***************************************************************************)
(* The chat.                                                                *)
(***************************************************************************)
RoomTask == [stage : Room!Stages, channel : Channels, cursor : {0} \cup Room!Msgs,
             seen : SUBSET Room!Msgs, msg : {0} \cup Room!Msgs]

(* A task that has an event in hand remembers it, and it is one of its own  *)
(* channel.                                                                 *)
InHand(t) == room_task[t].stage \in {"checking", "storing", "writing"}
EventsOwn == \A t \in Room!ChatTasks :
    /\ t > room_gen => room_task[t].stage = "none"
    /\ InHand(t) => /\ room_task[t].msg \in Room!Msgs /\ room_task[t].msg \in room_task[t].seen
                    /\ ChannelOf[room_task[t].msg] = room_task[t].channel

(* Until a stopped listener overlaps with its successor, a channel has one. *)
OneListener == ~overlapped => \A t, u \in Room!ChatTasks :
    t # u /\ room_task[t].stage # "none" /\ room_task[u].stage # "none" =>
        room_task[t].channel # room_task[u].channel

(* The tasks that will not push m any more: no more copies are listed than  *)
(* there are of them, and somebody wrote what the table holds.              *)
Spent(m) == {t \in Room!ChatTasks :
    /\ t <= room_gen
    /\ \/ room_task[t].stage = "none"
       \/ /\ m \in room_task[t].seen
          /\ ~(room_task[t].stage \in {"checking", "storing"} /\ room_task[t].msg = m)}
CopiesCounted == \A m \in Room!Msgs :
    /\ room_mem[m] <= Cardinality(Spent(m))
    /\ m \in table \cup nonDurable => Spent(m) # {}

ChatInv == /\ Room!TypeOK /\ EventsOwn /\ OneListener /\ CopiesCounted
           /\ Room!MemoryOnlyKnown /\ Room!CursorOnDurable

RoomSets ==
    /\ room_sent \subseteq Room!Msgs /\ nonDurable \subseteq Room!Msgs /\ table \subseteq Room!Msgs
    /\ stopping \subseteq Channels
    /\ cursorRow \in [Channels -> {0} \cup Room!Msgs]
    /\ room_req \in [Channels -> {Room!NoReq, 0} \cup Room!Msgs]
RoomClaims == room_active \in [Channels -> 0 .. room_gen] /\ room_gen \in 0 .. MaxTasks
RoomCounts ==
    /\ room_failures \in 0 .. RoomMaxFailures /\ refusals \in 0 .. MaxRefusals
    /\ stops \in 0 .. MaxStops /\ room_restarts \in 0 .. MaxRestarts
RoomFlags == hydrated \in BOOLEAN /\ overlapped \in BOOLEAN
RoomTasks == room_task \in [Room!ChatTasks -> RoomTask]
Copies == room_mem \in [Room!Msgs -> 0 .. MaxTasks]

LEMMA ChatIs ==
    /\ ChatInv <=> /\ RoomSets /\ RoomClaims /\ RoomCounts /\ RoomFlags /\ RoomTasks /\ Copies
                   /\ EventsOwn /\ OneListener /\ CopiesCounted
                   /\ Room!MemoryOnlyKnown /\ Room!CursorOnDurable
    /\ ChatInv' <=> /\ RoomSets' /\ RoomClaims' /\ RoomCounts' /\ RoomFlags' /\ RoomTasks' /\ Copies'
                    /\ EventsOwn' /\ OneListener' /\ CopiesCounted'
                    /\ Room!MemoryOnlyKnown' /\ Room!CursorOnDurable'
<1>1. /\ Room!TypeOK <=> RoomSets /\ RoomClaims /\ RoomCounts /\ RoomFlags /\ RoomTasks /\ Copies
      /\ Room!TypeOK' <=> RoomSets' /\ RoomClaims' /\ RoomCounts' /\ RoomFlags' /\ RoomTasks' /\ Copies'
  BY DEF Room!TypeOK, RoomSets, RoomClaims, RoomCounts, RoomFlags, RoomTasks, Copies, RoomTask
<1> QED
  BY <1>1 DEF ChatInv

LEMMA RoomConstants ==
    /\ MaxTasks \in Nat /\ RoomMaxFailures \in Nat /\ MaxRefusals \in Nat /\ MaxStops \in Nat
    /\ MaxRestarts \in Nat
    /\ Room!Msgs \subseteq Nat \ {0} /\ Room!ChatTasks \subseteq Nat \ {0}
    /\ \A m \in Room!Msgs : ChannelOf[m] \in Channels
    /\ Room!NoTask \in RoomTask /\ Room!NoTask.stage = "none" /\ Room!NoTask.seen = {}
<1>1. ChannelOf \in Seq(Channels) /\ Channels # {} /\ MaxTasks \in Nat
  BY TradesAssumption
<1>2. (CHOOSE c \in Channels : TRUE) \in Channels
  BY <1>1
<1>3. Room!NoTask \in RoomTask /\ Room!NoTask.stage = "none" /\ Room!NoTask.seen = {}
  BY <1>2 DEF Room!NoTask, RoomTask, Room!Stages
<1>4. Room!Msgs \subseteq Nat \ {0} /\ \A m \in Room!Msgs : ChannelOf[m] \in Channels
  BY <1>1 DEF Room!Msgs
<1>5. Room!ChatTasks \subseteq Nat \ {0}
  BY <1>1 DEF Room!ChatTasks
<1> QED
  BY <1>1, <1>3, <1>4, <1>5, TradesAssumption

LEMMA RoomInit == Room!Init => ChatInv
<1> SUFFICES ASSUME Room!Init PROVE ChatInv
  OBVIOUS
<1>1. RoomSets /\ RoomFlags
  BY DEF Room!Init, RoomSets, RoomFlags
<1>2. RoomClaims
  BY RoomConstants DEF Room!Init, RoomClaims
<1>3. RoomCounts
  BY RoomConstants DEF Room!Init, RoomCounts
<1>4. RoomTasks /\ \A t \in Room!ChatTasks : room_task[t].stage = "none"
  BY RoomConstants DEF Room!Init, RoomTasks
<1>5. Copies
  BY RoomConstants DEF Room!Init, Copies
<1>6. EventsOwn /\ OneListener
  BY <1>4 DEF EventsOwn, OneListener, InHand
<1>7. \A m \in Room!Msgs : Spent(m) = {}
  <2>1. \A t \in Room!ChatTasks : ~(t <= room_gen)
    BY RoomConstants DEF Room!Init
  <2> QED
    BY <2>1 DEF Spent
<1>8. CopiesCounted
  BY <1>7, FS_EmptySet DEF Room!Init, CopiesCounted
<1>9. Room!MemoryOnlyKnown /\ Room!CursorOnDurable
  BY DEF Room!Init, Room!MemoryOnlyKnown, Room!CursorOnDurable
<1> QED
  BY <1>1, <1>2, <1>3, <1>4, <1>5, <1>6, <1>8, <1>9, ChatIs

LEMMA RoomStutter == ChatInv /\ UNCHANGED RoomVars => ChatInv'
<1> SUFFICES ASSUME ChatInv, UNCHANGED RoomVars PROVE ChatInv'
  OBVIOUS
<1>1. RoomSets' /\ RoomClaims' /\ RoomCounts' /\ RoomFlags' /\ RoomTasks' /\ Copies'
  BY ChatIs DEF RoomVars, RoomSets, RoomClaims, RoomCounts, RoomFlags, RoomTasks, Copies
<1>2. EventsOwn' /\ OneListener'
  BY ChatIs DEF RoomVars, EventsOwn, OneListener, InHand
<1>3. CopiesCounted'
  BY ChatIs DEF RoomVars, CopiesCounted, Spent
<1>4. Room!MemoryOnlyKnown' /\ Room!CursorOnDurable'
  BY ChatIs DEF RoomVars, Room!MemoryOnlyKnown, Room!CursorOnDurable, Room!At
<1> QED
  BY <1>1, <1>2, <1>3, <1>4, ChatIs

(* The tasks that are done with a message are finitely many.                *)
LEMMA SpentFinite ==
    ASSUME NEW m
    PROVE  /\ IsFiniteSet(Spent(m)) /\ Cardinality(Spent(m)) \in Nat /\ Cardinality(Spent(m)) <= MaxTasks
           /\ IsFiniteSet(Spent(m)') /\ Cardinality(Spent(m)') \in Nat
           /\ Cardinality(Spent(m)') <= MaxTasks
<1>1. IsFiniteSet(Room!ChatTasks) /\ Cardinality(Room!ChatTasks) = MaxTasks
  BY RoomConstants, FS_Interval DEF Room!ChatTasks
<1>2. Spent(m) \in SUBSET Room!ChatTasks /\ Spent(m)' \in SUBSET Room!ChatTasks
  BY DEF Spent
<1>3. IsFiniteSet(Spent(m)) /\ Cardinality(Spent(m)) <= MaxTasks
  BY <1>1, <1>2, FS_Subset
<1>4. IsFiniteSet(Spent(m)') /\ Cardinality(Spent(m)') <= MaxTasks
  BY <1>1, <1>2, FS_Subset
<1> QED
  BY <1>3, <1>4, FS_CardinalityType

(* No copy was pushed: whoever was done with a message still is.            *)
LEMMA CountKept ==
    ASSUME ChatInv, room_mem' = room_mem,
           \A m \in Room!Msgs : Spent(m) \subseteq Spent(m)',
           \A m \in (table' \cup nonDurable') \ (table \cup nonDurable) : Spent(m)' # {}
    PROVE  CopiesCounted' /\ Copies'
<1>1. ASSUME NEW m \in Room!Msgs
      PROVE  /\ room_mem'[m] <= Cardinality(Spent(m)')
             /\ m \in table' \cup nonDurable' => Spent(m)' # {}
  <2>1. /\ room_mem[m] <= Cardinality(Spent(m)) /\ room_mem[m] \in 0 .. MaxTasks
        /\ m \in table \cup nonDurable => Spent(m) # {}
    BY ChatIs DEF CopiesCounted, Copies
  <2>2. Cardinality(Spent(m)) <= Cardinality(Spent(m)')
    BY SpentFinite, FS_Subset
  <2>3. room_mem'[m] <= Cardinality(Spent(m)')
    BY <2>1, <2>2, SpentFinite, RoomConstants
  <2> QED
    BY <2>1, <2>3
<1>2. CopiesCounted'
  BY <1>1 DEF CopiesCounted
<1> QED
  BY <1>2, ChatIs DEF Copies

(* A step of one task: it keeps its channel and remembers what it saw; an   *)
(* event in hand is one of its channel, and one it takes up it had not seen. *)
Moved(t) ==
    /\ room_task' \in [Room!ChatTasks -> RoomTask]
    /\ \A u \in Room!ChatTasks \ {t} : room_task'[u] = room_task[u]
    /\ room_task[t].stage # "none"
    /\ room_task'[t].stage # "none" => /\ room_task'[t].channel = room_task[t].channel
                                       /\ room_task[t].seen \subseteq room_task'[t].seen
    /\ InHand(t)' => /\ room_task'[t].msg \in Room!Msgs /\ room_task'[t].msg \in room_task'[t].seen
                     /\ ChannelOf[room_task'[t].msg] = room_task'[t].channel
    /\ room_task'[t].stage \in {"checking", "storing"} =>
         \/ room_task'[t].msg \notin room_task[t].seen
         \/ /\ room_task[t].stage \in {"checking", "storing"}
            /\ room_task'[t].msg = room_task[t].msg

LEMMA MovedKeeps ==
    ASSUME ChatInv, NEW t \in Room!ChatTasks, Moved(t), room_gen' = room_gen, overlapped' = overlapped
    PROVE  /\ RoomTasks' /\ EventsOwn' /\ OneListener'
           /\ \A m \in Room!Msgs : Spent(m) \subseteq Spent(m)'
<1>1. t <= room_gen
  BY ChatIs, RoomConstants DEF EventsOwn, Moved, RoomClaims
<1>2. EventsOwn'
  <2> SUFFICES ASSUME NEW u \in Room!ChatTasks
               PROVE  /\ u > room_gen' => room_task'[u].stage = "none"
                      /\ InHand(u)' => /\ room_task'[u].msg \in Room!Msgs
                                       /\ room_task'[u].msg \in room_task'[u].seen
                                       /\ ChannelOf[room_task'[u].msg] = room_task'[u].channel
    BY DEF EventsOwn
  <2>1. CASE u = t
    BY <1>1, <2>1, RoomConstants, ChatIs DEF Moved, RoomClaims
  <2>2. CASE u # t
    BY <2>2, ChatIs DEF Moved, EventsOwn, InHand
  <2> QED
    BY <2>1, <2>2
<1>3. OneListener'
  BY ChatIs DEF OneListener, Moved
<1>4. ASSUME NEW m \in Room!Msgs, NEW u \in Spent(m) PROVE u \in Spent(m)'
  <2>1. CASE u = t
    BY <2>1, <1>4 DEF Spent, Moved
  <2>2. CASE u # t
    BY <2>2, <1>4 DEF Spent, Moved
  <2> QED
    BY <2>1, <2>2
<1> QED
  BY <1>2, <1>3, <1>4 DEF RoomTasks, Moved

(* What the record of a task is.                                            *)
LEMMA RoomTaskIs ==
    ASSUME ChatInv, NEW t \in Room!ChatTasks
    PROVE  /\ room_task[t] \in RoomTask
           /\ room_task[t].stage \in Room!Stages /\ room_task[t].channel \in Channels
           /\ room_task[t].cursor \in {0} \cup Room!Msgs /\ room_task[t].msg \in {0} \cup Room!Msgs
           /\ room_task[t].seen \subseteq Room!Msgs
           /\ InHand(t) => /\ room_task[t].msg \in Room!Msgs /\ room_task[t].msg \in room_task[t].seen
                           /\ ChannelOf[room_task[t].msg] = room_task[t].channel
<1>1. room_task[t] \in RoomTask
  BY ChatIs DEF RoomTasks
<1> QED
  BY <1>1, ChatIs DEF RoomTask, EventsOwn

(* The ways a task's record moves on. *)
Becomes(t, s, k, seen_, m) ==
    /\ room_task' \in [Room!ChatTasks -> RoomTask]
    /\ \A u \in Room!ChatTasks \ {t} : room_task'[u] = room_task[u]
    /\ room_task'[t].stage = s /\ room_task'[t].channel = room_task[t].channel
    /\ room_task'[t].cursor = k /\ room_task'[t].seen = seen_ /\ room_task'[t].msg = m

LEMMA TaskForms ==
    ASSUME ChatInv, NEW t \in Room!ChatTasks, NEW s \in Room!Stages, NEW k \in {0} \cup Room!Msgs,
           NEW m \in {0} \cup Room!Msgs, NEW S \in SUBSET Room!Msgs
    PROVE  /\ Room!Go(t, s) =>
                Becomes(t, s, room_task[t].cursor, room_task[t].seen, room_task[t].msg)
           /\ room_task' = [room_task EXCEPT ![t].stage = s, ![t].cursor = k] =>
                Becomes(t, s, k, room_task[t].seen, room_task[t].msg)
           /\ room_task' = [room_task EXCEPT ![t].stage = s, ![t].msg = m, ![t].seen = S] =>
                Becomes(t, s, room_task[t].cursor, S, m)
           /\ room_task' = [room_task EXCEPT ![t].stage = s, ![t].seen = S] =>
                Becomes(t, s, room_task[t].cursor, S, room_task[t].msg)
           /\ room_task' = [room_task EXCEPT ![t].stage = s, ![t].msg = m, ![t].cursor = k] =>
                Becomes(t, s, k, room_task[t].seen, m)
           /\ room_task' = [room_task EXCEPT ![t].stage = s, ![t].msg = m] =>
                Becomes(t, s, room_task[t].cursor, room_task[t].seen, m)
<1> DEFINE p == room_task[t]
<1>1. p \in RoomTask /\ room_task \in [Room!ChatTasks -> RoomTask]
  BY RoomTaskIs, ChatIs DEF RoomTasks
<1>2. ASSUME NEW r \in RoomTask, room_task' = [room_task EXCEPT ![t] = r], r.channel = p.channel
      PROVE  Becomes(t, r.stage, r.cursor, r.seen, r.msg)
  BY <1>1, <1>2 DEF Becomes
<1>3. /\ [p EXCEPT !.stage = s] \in RoomTask
      /\ [p EXCEPT !.stage = s, !.cursor = k] \in RoomTask
      /\ [p EXCEPT !.stage = s, !.msg = m, !.seen = S] \in RoomTask
      /\ [p EXCEPT !.stage = s, !.seen = S] \in RoomTask
      /\ [p EXCEPT !.stage = s, !.msg = m, !.cursor = k] \in RoomTask
      /\ [p EXCEPT !.stage = s, !.msg = m] \in RoomTask
  BY <1>1 DEF RoomTask
<1>4. Room!Go(t, s) => Becomes(t, s, p.cursor, p.seen, p.msg)
  <2> SUFFICES ASSUME Room!Go(t, s) PROVE Becomes(t, s, p.cursor, p.seen, p.msg)
    OBVIOUS
  <2> DEFINE r == [p EXCEPT !.stage = s]
  <2>1. r \in RoomTask /\ room_task' = [room_task EXCEPT ![t] = r]
    BY <1>1, <1>3 DEF Room!Go
  <2>2. r.stage = s /\ r.channel = p.channel /\ r.cursor = p.cursor /\ r.seen = p.seen /\ r.msg = p.msg
    BY <1>1 DEF RoomTask
  <2> QED
    BY <1>2, <2>1, <2>2
<1>5. ASSUME room_task' = [room_task EXCEPT ![t].stage = s, ![t].cursor = k]
      PROVE  Becomes(t, s, k, p.seen, p.msg)
  <2> DEFINE r == [p EXCEPT !.stage = s, !.cursor = k]
  <2>1. r \in RoomTask /\ room_task' = [room_task EXCEPT ![t] = r]
    BY <1>1, <1>3, <1>5
  <2>2. r.stage = s /\ r.channel = p.channel /\ r.cursor = k /\ r.seen = p.seen /\ r.msg = p.msg
    BY <1>1 DEF RoomTask
  <2> QED
    BY <1>2, <2>1, <2>2
<1>6. ASSUME room_task' = [room_task EXCEPT ![t].stage = s, ![t].msg = m, ![t].seen = S]
      PROVE  Becomes(t, s, p.cursor, S, m)
  <2> DEFINE r == [p EXCEPT !.stage = s, !.msg = m, !.seen = S]
  <2>1. r \in RoomTask /\ room_task' = [room_task EXCEPT ![t] = r]
    BY <1>1, <1>3, <1>6
  <2>2. r.stage = s /\ r.channel = p.channel /\ r.cursor = p.cursor /\ r.seen = S /\ r.msg = m
    BY <1>1 DEF RoomTask
  <2> QED
    BY <1>2, <2>1, <2>2
<1>7. ASSUME room_task' = [room_task EXCEPT ![t].stage = s, ![t].seen = S]
      PROVE  Becomes(t, s, p.cursor, S, p.msg)
  <2> DEFINE r == [p EXCEPT !.stage = s, !.seen = S]
  <2>1. r \in RoomTask /\ room_task' = [room_task EXCEPT ![t] = r]
    BY <1>1, <1>3, <1>7
  <2>2. r.stage = s /\ r.channel = p.channel /\ r.cursor = p.cursor /\ r.seen = S /\ r.msg = p.msg
    BY <1>1 DEF RoomTask
  <2> QED
    BY <1>2, <2>1, <2>2
<1>8. ASSUME room_task' = [room_task EXCEPT ![t].stage = s, ![t].msg = m, ![t].cursor = k]
      PROVE  Becomes(t, s, k, p.seen, m)
  <2> DEFINE r == [p EXCEPT !.stage = s, !.msg = m, !.cursor = k]
  <2>1. r \in RoomTask /\ room_task' = [room_task EXCEPT ![t] = r]
    BY <1>1, <1>3, <1>8
  <2>2. r.stage = s /\ r.channel = p.channel /\ r.cursor = k /\ r.seen = p.seen /\ r.msg = m
    BY <1>1 DEF RoomTask
  <2> QED
    BY <1>2, <2>1, <2>2
<1>9. ASSUME room_task' = [room_task EXCEPT ![t].stage = s, ![t].msg = m]
      PROVE  Becomes(t, s, p.cursor, p.seen, m)
  <2> DEFINE r == [p EXCEPT !.stage = s, !.msg = m]
  <2>1. r \in RoomTask /\ room_task' = [room_task EXCEPT ![t] = r]
    BY <1>1, <1>3, <1>9
  <2>2. r.stage = s /\ r.channel = p.channel /\ r.cursor = p.cursor /\ r.seen = p.seen /\ r.msg = m
    BY <1>1 DEF RoomTask
  <2> QED
    BY <1>2, <2>1, <2>2
<1> QED
  BY <1>4, <1>5, <1>6, <1>7, <1>8, <1>9

LEMMA TaskEnds ==
    ASSUME ChatInv, NEW t \in Room!ChatTasks, room_task[t].stage # "none",
           room_task' = [room_task EXCEPT ![t] = Room!NoTask]
    PROVE  Moved(t)
<1>1. room_task' \in [Room!ChatTasks -> RoomTask] /\ room_task'[t].stage = "none"
  BY RoomConstants, ChatIs DEF RoomTasks
<1> QED
  BY <1>1, ChatIs DEF Moved, InHand, RoomTasks

(* What the store and the cursors keep through a step of a listener. *)
LEMMA MemoryKept ==
    ASSUME ChatInv, NEW t \in Room!ChatTasks, Moved(t), room_mem' = room_mem,
           table \cup nonDurable \subseteq table' \cup nonDurable',
           room_task[t].stage = "writing" => room_task[t].msg \in table' \cup nonDurable'
    PROVE  Room!MemoryOnlyKnown'
<1> SUFFICES ASSUME NEW m \in Room!Msgs, room_mem'[m] > 0, m \notin table', m \notin nonDurable'
             PROVE  \E u \in Room!ChatTasks : Room!At(u, "writing")' /\ room_task'[u].msg = m
  BY DEF Room!MemoryOnlyKnown
<1>1. PICK u \in Room!ChatTasks : room_task[u].stage = "writing" /\ room_task[u].msg = m
  BY ChatIs DEF Room!MemoryOnlyKnown, Room!At
<1>2. u # t
  BY <1>1
<1> QED
  BY <1>1, <1>2 DEF Moved, Room!At

LEMMA CursorKept ==
    ASSUME ChatInv, NEW t \in Room!ChatTasks, InHand(t), overlapped' = overlapped, table \subseteq table',
           \/ cursorRow' = cursorRow
           \/ cursorRow' = [cursorRow EXCEPT ![room_task[t].channel] = room_task[t].msg],
           ~overlapped => room_task[t].msg \in table'
    PROVE  Room!CursorOnDurable'
<1>1. ChannelOf[room_task[t].msg] = room_task[t].channel /\ cursorRow \in [Channels -> {0} \cup Room!Msgs]
  BY RoomTaskIs, ChatIs DEF RoomSets
<1>2. ~overlapped => \A c \in Channels : cursorRow[c] # 0 =>
        cursorRow[c] \in table /\ ChannelOf[cursorRow[c]] = c
  BY ChatIs DEF Room!CursorOnDurable
<1>3. \A c \in Channels : \/ cursorRow'[c] = cursorRow[c]
                          \/ cursorRow'[c] = room_task[t].msg /\ c = room_task[t].channel
  BY <1>1
<1> QED
  BY <1>1, <1>2, <1>3 DEF Room!CursorOnDurable

(* A step that leaves the store and the cursors alone. *)
LEMMA ControlKeeps ==
    ASSUME ChatInv, NEW t \in Room!ChatTasks, Moved(t), room_task[t].stage # "writing",
           UNCHANGED <<room_mem, hydrated, nonDurable, table, cursorRow, room_gen, overlapped, room_sent>>,
           stopping' = stopping, RoomCounts', room_active' \in [Channels -> 0 .. room_gen],
           room_req' \in [Channels -> {Room!NoReq, 0} \cup Room!Msgs]
    PROVE  ChatInv'
<1>1. RoomSets' /\ RoomClaims' /\ RoomFlags'
  BY ChatIs DEF RoomSets, RoomClaims, RoomFlags
<1>2. RoomTasks' /\ EventsOwn' /\ OneListener' /\ \A m \in Room!Msgs : Spent(m) \subseteq Spent(m)'
  BY MovedKeeps
<1>3. CopiesCounted' /\ Copies'
  BY <1>2, CountKept
<1>4. Room!MemoryOnlyKnown'
  BY MemoryKept
<1>5. Room!CursorOnDurable'
  BY ChatIs DEF Room!CursorOnDurable
<1> QED
  BY <1>1, <1>2, <1>3, <1>4, <1>5, ChatIs

(* The listener's own steps: opening, leaving, taking up an event. *)
LEMMA ListenerKeeps ==
    ASSUME ChatInv, NEW t \in Room!ChatTasks,
           \/ Room!open_req(t) \/ Room!open_fails(t) \/ Room!chat_is_current(t) \/ Room!wake(t)
           \/ Room!release_chat(t) \/ Room!close_req(t) \/ Room!unknown(t)
           \/ \E m \in Room!Msgs : Room!receive(t, m) \/ Room!refuse(t, m)
    PROVE  ChatInv'
<1> DEFINE p == room_task[t]
<1>0. /\ p \in RoomTask /\ p.stage \in Room!Stages /\ p.channel \in Channels
      /\ p.cursor \in {0} \cup Room!Msgs /\ p.msg \in {0} \cup Room!Msgs /\ p.seen \in SUBSET Room!Msgs
      /\ cursorRow[p.channel] \in {0} \cup Room!Msgs
      /\ room_active \in [Channels -> 0 .. room_gen] /\ room_gen \in Nat
      /\ room_req \in [Channels -> {Room!NoReq, 0} \cup Room!Msgs] /\ RoomCounts
  BY RoomTaskIs, ChatIs, RoomConstants DEF RoomSets, RoomClaims
<1> HIDE DEF p
<1>1. ASSUME Moved(t), p.stage # "writing",
             UNCHANGED <<room_sent, Room!store, cursorRow, room_active, room_gen, stopping, Room!bounds>>,
             room_req' \in [Channels -> {Room!NoReq, 0} \cup Room!Msgs]
      PROVE  ChatInv'
  <2>1. UNCHANGED <<room_mem, hydrated, nonDurable, table, cursorRow, room_gen, overlapped, room_sent>>
        /\ stopping' = stopping /\ room_active' \in [Channels -> 0 .. room_gen]
    BY <1>0, <1>1 DEF Room!store, Room!bounds
  <2>2. RoomCounts'
    BY <1>0, <1>1 DEF Room!bounds, RoomCounts
  <2> QED
    BY <1>1, <2>1, <2>2, ControlKeeps DEF p
<1>2. CASE Room!open_req(t)
  <2>1. /\ p.stage = "claimed" /\ room_req' = [room_req EXCEPT ![p.channel] = cursorRow[p.channel]]
        /\ room_task' = [room_task EXCEPT ![t].stage = "looping", ![t].cursor = cursorRow[p.channel]]
        /\ UNCHANGED <<room_sent, Room!store, cursorRow, room_active, room_gen, stopping, Room!bounds>>
    BY <1>2 DEF Room!open_req, Room!At, p
  <2>2. Becomes(t, "looping", cursorRow[p.channel], p.seen, p.msg)
    BY <1>0, <2>1, TaskForms DEF Room!Stages, p
  <2>3. Moved(t)
    BY <2>1, <2>2 DEF Moved, Becomes, InHand, p
  <2>4. room_req' \in [Channels -> {Room!NoReq, 0} \cup Room!Msgs]
    BY <1>0, <2>1
  <2> QED
    BY <1>1, <2>1, <2>3, <2>4
<1>3. CASE Room!open_fails(t) \/ Room!chat_is_current(t) \/ Room!wake(t) \/ Room!unknown(t)
  <2>1. /\ \/ p.stage \in {"claimed", "looping", "waiting"} /\ \E s \in {"leaving", "waiting", "looping"} : Room!Go(t, s)
           \/ p.stage = "checking" /\ Room!Go(t, "storing")
        /\ UNCHANGED <<room_sent, Room!store, cursorRow, room_active, room_req, room_gen, stopping, Room!bounds>>
    BY <1>3 DEF Room!open_fails, Room!chat_is_current, Room!wake, Room!unknown, Room!At, p
  <2>2. PICK s \in {"leaving", "waiting", "looping", "storing"} :
            Room!Go(t, s) /\ (s = "storing" => p.stage = "checking") /\ p.stage \notin {"none", "writing"}
    BY <2>1
  <2>3. Becomes(t, s, p.cursor, p.seen, p.msg)
    BY <1>0, <2>2, TaskForms DEF Room!Stages, p
  <2>4. Moved(t)
    BY <1>0, <2>1, <2>2, <2>3, RoomTaskIs DEF Moved, Becomes, InHand, p
  <2> QED
    BY <1>0, <1>1, <2>1, <2>4
<1>4. CASE Room!release_chat(t)
  <2>1. /\ p.stage = "leaving"
        /\ \/ room_active' = [room_active EXCEPT ![p.channel] = 0] /\ Room!Go(t, "closing")
           \/ room_active' = room_active /\ room_task' = [room_task EXCEPT ![t] = Room!NoTask]
        /\ UNCHANGED <<room_sent, Room!store, cursorRow, room_req, room_gen, stopping, Room!bounds>>
    BY <1>4 DEF Room!release_chat, Room!At, p
  <2>2. Moved(t)
    <3>1. CASE Room!Go(t, "closing")
      <4>1. Becomes(t, "closing", p.cursor, p.seen, p.msg)
        BY <1>0, <3>1, TaskForms DEF Room!Stages, p
      <4> QED
        BY <2>1, <4>1 DEF Moved, Becomes, InHand, p
    <3>2. CASE room_task' = [room_task EXCEPT ![t] = Room!NoTask]
      BY <2>1, <3>2, TaskEnds DEF p
    <3> QED
      BY <2>1, <3>1, <3>2
  <2>3. room_active' \in [Channels -> 0 .. room_gen]
    BY <1>0, <2>1
  <2>4. /\ UNCHANGED <<room_mem, hydrated, nonDurable, table, cursorRow, room_gen, overlapped, room_sent>>
        /\ stopping' = stopping
        /\ RoomCounts'
    BY <1>0, <2>1 DEF Room!store, Room!bounds, RoomCounts
  <2> QED
    BY <1>0, <2>1, <2>2, <2>3, <2>4, ControlKeeps DEF p
<1>5. CASE Room!close_req(t)
  <2>1. /\ p.stage = "closing" /\ room_req' = [room_req EXCEPT ![p.channel] = Room!NoReq]
        /\ room_task' = [room_task EXCEPT ![t] = Room!NoTask]
        /\ UNCHANGED <<room_sent, Room!store, cursorRow, room_active, room_gen, stopping, Room!bounds>>
    BY <1>5 DEF Room!close_req, Room!At, p
  <2>2. Moved(t)
    BY <2>1, TaskEnds DEF p
  <2>3. room_req' \in [Channels -> {Room!NoReq, 0} \cup Room!Msgs]
    BY <1>0, <2>1
  <2> QED
    BY <1>1, <2>1, <2>2, <2>3
<1>6. ASSUME NEW m \in Room!Msgs, Room!receive(t, m) PROVE ChatInv'
  <2>1. /\ p.stage = "waiting" /\ m \notin p.seen /\ ChannelOf[m] = p.channel
        /\ room_task' = [room_task EXCEPT ![t].stage = "checking", ![t].msg = m, ![t].seen = @ \cup {m}]
        /\ UNCHANGED <<room_sent, Room!store, cursorRow, room_active, room_req, room_gen, stopping, Room!bounds>>
    BY <1>6 DEF Room!receive, Room!Deliverable, Room!At, p
  <2>2. room_task' = [room_task EXCEPT ![t].stage = "checking", ![t].msg = m, ![t].seen = p.seen \cup {m}]
    BY <2>1, ChatIs DEF RoomTasks, RoomTask, p
  <2>3. Becomes(t, "checking", p.cursor, p.seen \cup {m}, m)
    BY <1>0, <2>2, TaskForms DEF Room!Stages, p
  <2>4. Moved(t)
    BY <2>1, <2>3 DEF Moved, Becomes, InHand, p
  <2> QED
    BY <1>0, <1>1, <2>1, <2>4
<1>7. ASSUME NEW m \in Room!Msgs, Room!refuse(t, m) PROVE ChatInv'
  <2>1. PICK s \in {"looping", "leaving"} :
          room_task' = [room_task EXCEPT ![t].stage = s, ![t].seen = @ \cup {m}]
    BY <1>7 DEF Room!refuse
  <2>2. /\ p.stage = "waiting" /\ refusals < MaxRefusals /\ refusals' = refusals + 1
        /\ UNCHANGED <<room_sent, Room!store, cursorRow, room_active, room_req, room_gen, stopping,
                       room_failures, stops, room_restarts, overlapped>>
    BY <1>7 DEF Room!refuse, Room!Deliverable, Room!At, p
  <2>3. room_task' = [room_task EXCEPT ![t].stage = s, ![t].seen = p.seen \cup {m}]
    BY <2>1, ChatIs DEF RoomTasks, RoomTask, p
  <2>4. Becomes(t, s, p.cursor, p.seen \cup {m}, p.msg)
    BY <1>0, <2>3, TaskForms DEF Room!Stages, p
  <2>5. Moved(t)
    BY <2>2, <2>4 DEF Moved, Becomes, InHand, p
  <2>6. RoomCounts'
    BY <1>0, <2>2, RoomConstants DEF RoomCounts
  <2>7. /\ UNCHANGED <<room_mem, hydrated, nonDurable, table, cursorRow, room_gen, overlapped, room_sent>>
        /\ stopping' = stopping
        /\ room_active' \in [Channels -> 0 .. room_gen]
        /\ room_req' \in [Channels -> {Room!NoReq, 0} \cup Room!Msgs]
    BY <1>0, <2>2 DEF Room!store
  <2> QED
    BY <2>2, <2>5, <2>6, <2>7, ControlKeeps DEF p
<1> QED
  BY <1>2, <1>3, <1>4, <1>5, <1>6, <1>7
(* advance_cursor: the event leaves the task's hand, and the cursor goes to *)
(* it or stays.                                                             *)
LEMMA Advanced ==
    ASSUME ChatInv, NEW t \in Room!ChatTasks, InHand(t), Room!advance_cursor(t)
    PROVE  /\ Moved(t) /\ room_task'[t].stage = "looping" /\ room_task'[t].seen = room_task[t].seen
           /\ \/ cursorRow' = cursorRow
              \/ cursorRow' = [cursorRow EXCEPT ![room_task[t].channel] = room_task[t].msg]
           /\ cursorRow' \in [Channels -> {0} \cup Room!Msgs]
           /\ room_failures' \in 0 .. RoomMaxFailures
<1> DEFINE p == room_task[t]
           k == IF p.msg > p.cursor THEN p.msg ELSE p.cursor
<1>1. /\ p \in RoomTask /\ p.channel \in Channels /\ p.msg \in Room!Msgs /\ p.seen \in SUBSET Room!Msgs
      /\ p.cursor \in {0} \cup Room!Msgs /\ room_task \in [Room!ChatTasks -> RoomTask]
      /\ cursorRow \in [Channels -> {0} \cup Room!Msgs] /\ room_failures \in 0 .. RoomMaxFailures
  BY RoomTaskIs, ChatIs DEF RoomSets, RoomCounts, RoomTasks
<1>2. room_task' = [room_task EXCEPT ![t].stage = "looping", ![t].msg = 0, ![t].cursor = k]
  BY <1>1 DEF Room!advance_cursor, RoomTask
<1>3. k \in {0} \cup Room!Msgs
  BY <1>1
<1>4. /\ cursorRow' = cursorRow \/ cursorRow' = [cursorRow EXCEPT ![p.channel] = p.msg]
      /\ room_failures' = room_failures \/ (room_failures < RoomMaxFailures /\ room_failures' = room_failures + 1)
  BY DEF Room!advance_cursor, Room!cursor_key
<1> HIDE DEF k
<1>5. Becomes(t, "looping", k, p.seen, 0)
  BY <1>1, <1>2, <1>3, TaskForms DEF Room!Stages
<1>6. Moved(t) /\ room_task'[t].stage = "looping" /\ room_task'[t].seen = p.seen
  BY <1>5 DEF Moved, Becomes, InHand
<1>7. room_failures' \in 0 .. RoomMaxFailures
  BY <1>1, <1>4, RoomConstants
<1>8. cursorRow' \in [Channels -> {0} \cup Room!Msgs]
  BY <1>1, <1>4
<1> QED
  BY <1>4, <1>6, <1>7, <1>8

(* drop_event: it leaves the task's hand, and nothing else happens to it. *)
LEMMA Dropped ==
    ASSUME ChatInv, NEW t \in Room!ChatTasks, InHand(t), Room!drop_event(t)
    PROVE  Moved(t) /\ room_task'[t].stage = "looping" /\ room_task'[t].seen = room_task[t].seen
<1>1. room_task[t].cursor \in {0} \cup Room!Msgs /\ room_task[t].seen \in SUBSET Room!Msgs
  BY RoomTaskIs
<1>2. Becomes(t, "looping", room_task[t].cursor, room_task[t].seen, 0)
  BY <1>1, TaskForms DEF Room!drop_event, Room!Stages
<1> QED
  BY <1>2 DEF Moved, Becomes, InHand

(* Whoever has an event and lets go of it will not push it again. *)
LEMMA LetGo ==
    ASSUME ChatInv, NEW t \in Room!ChatTasks, InHand(t), room_gen' = room_gen,
           room_task'[t].stage \notin {"checking", "storing"}, room_task[t].seen \subseteq room_task'[t].seen,
           NEW m, m = room_task[t].msg
    PROVE  t \in Spent(m)'
<1>1. t <= room_gen /\ m \in room_task[t].seen
  BY RoomTaskIs, ChatIs, RoomConstants DEF EventsOwn, InHand, RoomClaims
<1> QED
  BY <1>1 DEF Spent

(* A listener alone in its channel that finds its event listed, and not     *)
(* marked as unwritten, finds it in the table.                              *)
LEMMA KnownIsDurable ==
    ASSUME ChatInv, NEW t \in Room!ChatTasks, room_task[t].stage = "checking",
           Room!is_known(room_task[t].msg), room_task[t].msg \notin nonDurable, ~overlapped
    PROVE  room_task[t].msg \in table
<1>1. room_task[t].msg \in Room!Msgs /\ ChannelOf[room_task[t].msg] = room_task[t].channel
  BY RoomTaskIs DEF InHand
<1> SUFFICES ASSUME room_task[t].msg \notin table PROVE FALSE
  OBVIOUS
<1>2. PICK u \in Room!ChatTasks : room_task[u].stage = "writing" /\ room_task[u].msg = room_task[t].msg
  BY <1>1, ChatIs DEF Room!is_known, Room!MemoryOnlyKnown, Room!At
<1>3. ChannelOf[room_task[u].msg] = room_task[u].channel
  BY <1>2, RoomTaskIs DEF InHand
<1>4. u # t /\ room_task[u].channel = room_task[t].channel
  BY <1>1, <1>2, <1>3
<1> QED
  BY <1>2, <1>4, ChatIs DEF OneListener

(* A step of the pipeline that lists nothing new. *)
LEMMA PipelineKeeps ==
    ASSUME ChatInv, NEW t \in Room!ChatTasks, InHand(t), Moved(t), room_task'[t].stage = "looping",
           room_task'[t].seen = room_task[t].seen,
           room_mem' = room_mem, hydrated' = hydrated,
           table \subseteq table', table' \cup nonDurable' \subseteq table \cup nonDurable \cup {room_task[t].msg},
           table \cup nonDurable \subseteq table' \cup nonDurable',
           room_task[t].stage = "writing" => room_task[t].msg \in table' \cup nonDurable',
           \/ cursorRow' = cursorRow
           \/ /\ cursorRow' = [cursorRow EXCEPT ![room_task[t].channel] = room_task[t].msg]
              /\ ~overlapped => room_task[t].msg \in table',
           room_failures' \in 0 .. RoomMaxFailures,
           UNCHANGED <<room_sent, room_active, room_req, room_gen, stopping, refusals, stops,
                       room_restarts, overlapped>>
    PROVE  ChatInv'
<1>1. room_task[t].msg \in Room!Msgs /\ room_task[t].channel \in Channels
  BY RoomTaskIs
<1>2. RoomSets'
  BY <1>1, ChatIs DEF RoomSets
<1>3. RoomClaims' /\ RoomCounts' /\ RoomFlags'
  BY ChatIs DEF RoomClaims, RoomCounts, RoomFlags
<1>4. RoomTasks' /\ EventsOwn' /\ OneListener' /\ \A m \in Room!Msgs : Spent(m) \subseteq Spent(m)'
  BY MovedKeeps
<1>5. \A m : m = room_task[t].msg => Spent(m)' # {}
  BY LetGo
<1>6. \A m \in (table' \cup nonDurable') \ (table \cup nonDurable) : Spent(m)' # {}
  BY <1>5
<1>7. CopiesCounted' /\ Copies'
  BY <1>4, <1>6, CountKept
<1>8. Room!MemoryOnlyKnown'
  BY MemoryKept
<1>9. Room!CursorOnDurable'
  <2>1. CASE cursorRow' = cursorRow
    BY <2>1, ChatIs DEF Room!CursorOnDurable
  <2>2. CASE cursorRow' # cursorRow
    BY <2>2, CursorKept
  <2> QED
    BY <2>1, <2>2
<1> QED
  BY <1>2, <1>3, <1>4, <1>7, <1>8, <1>9, ChatIs

LEMMA KnownKeeps ==
    ASSUME ChatInv, NEW t \in Room!ChatTasks, Room!known_durable(t) \/ Room!ensure_durable(t)
    PROVE  ChatInv'
<1>1. InHand(t) /\ room_task[t].stage = "checking" /\ room_task[t].msg \in Room!Msgs
  BY RoomTaskIs DEF Room!known_durable, Room!ensure_durable, Room!At, InHand
<1>2. CASE Room!known_durable(t)
  <2>1. /\ Room!advance_cursor(t) /\ Room!is_known(room_task[t].msg) /\ room_task[t].msg \notin nonDurable
        /\ UNCHANGED <<room_sent, room_mem, hydrated, nonDurable, table, room_active, room_req, room_gen,
                       stopping, refusals, stops, room_restarts, overlapped>>
    BY <1>2 DEF Room!known_durable, Room!store
  <2>2. ~overlapped => room_task[t].msg \in table
    BY <1>1, <2>1, KnownIsDurable
  <2>3. /\ Moved(t) /\ room_task'[t].stage = "looping" /\ room_task'[t].seen = room_task[t].seen
        /\ \/ cursorRow' = cursorRow
           \/ cursorRow' = [cursorRow EXCEPT ![room_task[t].channel] = room_task[t].msg]
        /\ room_failures' \in 0 .. RoomMaxFailures
    BY <1>1, <2>1, Advanced
  <2> QED
    BY <1>1, <2>1, <2>2, <2>3, PipelineKeeps
<1>3. CASE Room!ensure_durable(t) /\ room_task' = room_task
  <2>1. /\ room_task[t].msg \in nonDurable /\ table' = table \cup {room_task[t].msg}
        /\ nonDurable' = nonDurable \ {room_task[t].msg}
        /\ UNCHANGED <<room_sent, room_mem, hydrated, room_task, cursorRow, room_active, room_req, room_gen,
                       stopping, Room!bounds>>
    <3>1. ~Room!drop_event(t)
      <4>1. ASSUME Room!drop_event(t) PROVE room_task'[t].stage = "looping"
        BY <1>1, <4>1, Dropped
      <4> QED
        BY <1>1, <1>3, <4>1
    <3> QED
      BY <1>3, <3>1 DEF Room!ensure_durable
  <2>2. RoomSets'
    BY <1>1, <2>1, ChatIs DEF RoomSets
  <2>3. RoomClaims' /\ RoomCounts' /\ RoomFlags' /\ RoomTasks'
    BY <2>1, ChatIs DEF RoomClaims, RoomCounts, RoomFlags, RoomTasks, Room!bounds
  <2>4. EventsOwn' /\ OneListener'
    BY <2>1, ChatIs DEF EventsOwn, OneListener, InHand, Room!bounds
  <2>5. \A m \in Room!Msgs : Spent(m) \subseteq Spent(m)'
    BY <2>1 DEF Spent
  <2>6. table' \cup nonDurable' = table \cup nonDurable
    BY <2>1
  <2>7. CopiesCounted' /\ Copies'
    BY <2>1, <2>5, <2>6, CountKept
  <2>8. Room!MemoryOnlyKnown'
    BY <2>1, ChatIs DEF Room!MemoryOnlyKnown, Room!At
  <2>9. Room!CursorOnDurable'
    BY <2>1, ChatIs DEF Room!CursorOnDurable, Room!bounds
  <2> QED
    BY <2>2, <2>3, <2>4, <2>7, <2>8, <2>9, ChatIs
<1>4. CASE Room!ensure_durable(t) /\ room_task' # room_task
  <2>1. /\ Room!drop_event(t) /\ room_failures < RoomMaxFailures /\ room_failures' = room_failures + 1
        /\ UNCHANGED <<room_sent, room_mem, hydrated, nonDurable, table, cursorRow, room_active, room_req,
                       room_gen, stopping, refusals, stops, room_restarts, overlapped>>
    BY <1>4 DEF Room!ensure_durable, Room!store
  <2>2. room_failures' \in 0 .. RoomMaxFailures
    BY <2>1, ChatIs, RoomConstants DEF RoomCounts
  <2>3. Moved(t) /\ room_task'[t].stage = "looping" /\ room_task'[t].seen = room_task[t].seen
    BY <1>1, <2>1, Dropped
  <2> QED
    BY <1>1, <2>1, <2>2, <2>3, PipelineKeeps
<1> QED
  BY <1>2, <1>3, <1>4

LEMMA SaveKeeps ==
    ASSUME ChatInv, NEW t \in Room!ChatTasks, Room!save_message(t) \/ Room!save_fails(t)
    PROVE  ChatInv'
<1>1. InHand(t) /\ room_task[t].stage = "writing"
  BY DEF Room!save_message, Room!save_fails, Room!At, InHand
<1>2. CASE Room!save_message(t)
  <2>1. /\ Room!advance_cursor(t) /\ table' = table \cup {room_task[t].msg}
        /\ nonDurable' = nonDurable \ {room_task[t].msg}
        /\ UNCHANGED <<room_sent, room_mem, hydrated, room_active, room_req, room_gen, stopping,
                       refusals, stops, room_restarts, overlapped>>
    BY <1>2 DEF Room!save_message
  <2>2. /\ Moved(t) /\ room_task'[t].stage = "looping" /\ room_task'[t].seen = room_task[t].seen
        /\ \/ cursorRow' = cursorRow
           \/ cursorRow' = [cursorRow EXCEPT ![room_task[t].channel] = room_task[t].msg]
        /\ room_failures' \in 0 .. RoomMaxFailures
    BY <1>1, <2>1, Advanced
  <2> QED
    BY <1>1, <2>1, <2>2, PipelineKeeps
<1>3. CASE Room!save_fails(t)
  <2>1. /\ Room!drop_event(t) /\ room_failures < RoomMaxFailures /\ room_failures' = room_failures + 1
        /\ nonDurable' = nonDurable \cup {room_task[t].msg}
        /\ UNCHANGED <<room_sent, room_mem, hydrated, table, cursorRow, room_active, room_req,
                       room_gen, stopping, refusals, stops, room_restarts, overlapped>>
    BY <1>3 DEF Room!save_fails
  <2>2. room_failures' \in 0 .. RoomMaxFailures
    BY <2>1, ChatIs, RoomConstants DEF RoomCounts
  <2>3. Moved(t) /\ room_task'[t].stage = "looping" /\ room_task'[t].seen = room_task[t].seen
    BY <1>1, <2>1, Dropped
  <2> QED
    BY <1>1, <2>1, <2>2, <2>3, PipelineKeeps
<1> QED
  BY <1>2, <1>3

(* add_message lists one more copy, of a message this task will not push    *)
(* again; what the table holds is listed with it.                           *)
LEMMA PushKeeps ==
    ASSUME ChatInv, NEW t \in Room!ChatTasks, Room!push(t)
    PROVE  ChatInv'
<1>1. PICK m \in Room!Msgs : m = room_task[t].msg
  BY RoomTaskIs DEF Room!push, Room!At, InHand
<1>2. /\ room_task[t].stage = "storing" /\ hydrated' = TRUE /\ Room!Go(t, "writing")
      /\ room_mem' = [Room!ensure_hydrated EXCEPT ![m] = @ + 1]
      /\ UNCHANGED <<room_sent, nonDurable, table, cursorRow, room_active, room_req, room_gen, stopping,
                     room_failures, refusals, stops, room_restarts, overlapped>>
  BY <1>1 DEF Room!push, Room!At, Room!bounds
<1>3. Becomes(t, "writing", room_task[t].cursor, room_task[t].seen, room_task[t].msg)
  BY <1>2, RoomTaskIs, TaskForms DEF Room!Stages
<1>4. InHand(t) /\ Moved(t) /\ room_task'[t].stage = "writing" /\ room_task'[t].msg = m
      /\ room_task'[t].seen = room_task[t].seen
  BY <1>1, <1>2, <1>3, RoomTaskIs DEF Moved, Becomes, InHand
<1>5. RoomTasks' /\ EventsOwn' /\ OneListener' /\ \A n \in Room!Msgs : Spent(n) \subseteq Spent(n)'
  BY <1>2, <1>4, MovedKeeps
<1>6. RoomSets' /\ RoomClaims' /\ RoomCounts'
  BY <1>2, ChatIs DEF RoomSets, RoomClaims, RoomCounts
<1>7. RoomFlags'
  BY <1>2, ChatIs DEF RoomFlags
<1> DEFINE e == Room!ensure_hydrated
<1>8. /\ e \in [Room!Msgs -> 0 .. MaxTasks \cup {1}]
      /\ \A n \in Room!Msgs : e[n] = room_mem[n] \/ (e[n] = 1 /\ n \in table)
      /\ room_mem \in [Room!Msgs -> 0 .. MaxTasks]
  BY ChatIs DEF Copies, Room!ensure_hydrated
<1> HIDE DEF e
<1>9. /\ room_mem' = [e EXCEPT ![m] = @ + 1]
      /\ \A n \in Room!Msgs : e[n] \in Nat
  BY <1>2, <1>8, RoomConstants DEF e
<1>10. \A n \in Room!Msgs : e[n] <= Cardinality(Spent(n))
  <2> SUFFICES ASSUME NEW n \in Room!Msgs PROVE e[n] <= Cardinality(Spent(n))
    OBVIOUS
  <2>1. room_mem[n] <= Cardinality(Spent(n)) /\ (n \in table => Spent(n) # {})
    BY ChatIs DEF CopiesCounted
  <2>2. n \in table => Cardinality(Spent(n)) # 0
    BY <2>1, SpentFinite, FS_EmptySet
  <2>3. n \in table => Cardinality(Spent(n)) >= 1
    BY <2>2, SpentFinite
  <2> QED
    BY <1>8, <2>1, <2>3
<1>11. Cardinality(Spent(m)) + 1 <= Cardinality(Spent(m)')
  <2>1. t \notin Spent(m)
    BY <1>1, <1>2 DEF Spent
  <2>2. t \in Spent(m)'
    BY <1>1, <1>2, <1>4, LetGo
  <2>3. Cardinality(Spent(m) \cup {t}) = Cardinality(Spent(m)) + 1 /\ IsFiniteSet(Spent(m) \cup {t})
    BY <2>1, SpentFinite, FS_AddElement
  <2>4. Spent(m) \cup {t} \in SUBSET Spent(m)'
    BY <1>5, <2>2
  <2>5. Cardinality(Spent(m) \cup {t}) <= Cardinality(Spent(m)')
    BY <2>4, SpentFinite, FS_Subset
  <2> QED
    BY <2>3, <2>5
<1>12. ASSUME NEW n \in Room!Msgs
       PROVE  /\ room_mem'[n] \in 0 .. MaxTasks /\ room_mem'[n] <= Cardinality(Spent(n)')
              /\ n \in table' \cup nonDurable' => Spent(n)' # {}
  <2>1. n \in table' \cup nonDurable' => Spent(n)' # {}
    BY <1>2, <1>5, ChatIs DEF CopiesCounted
  <2>2. CASE n = m
    <3>1. room_mem'[n] = e[n] + 1
      BY <1>8, <1>9, <2>2
    <3>2. room_mem'[n] <= Cardinality(Spent(n)')
      BY <1>9, <1>10, <1>11, <2>2, <3>1, SpentFinite
    <3> QED
      BY <1>9, <2>1, <3>1, <3>2, SpentFinite, RoomConstants
  <2>3. CASE n # m
    <3>1. room_mem'[n] = e[n]
      BY <1>8, <1>9, <2>3
    <3>2. Cardinality(Spent(n)) <= Cardinality(Spent(n)')
      BY <1>5, SpentFinite, FS_Subset
    <3>3. room_mem'[n] <= Cardinality(Spent(n)')
      BY <1>9, <1>10, <3>1, <3>2, SpentFinite
    <3> QED
      BY <1>9, <2>1, <3>1, <3>3, SpentFinite, RoomConstants
  <2> QED
    BY <2>2, <2>3
<1>13. Copies' /\ CopiesCounted'
  <2>1. DOMAIN room_mem' = Room!Msgs /\ room_mem' = [n \in Room!Msgs |-> room_mem'[n]]
    BY <1>8, <1>9
  <2>2. room_mem' \in [Room!Msgs -> 0 .. MaxTasks]
    BY <1>12, <2>1
  <2> QED
    BY <1>12, <2>2 DEF Copies, CopiesCounted
<1>14. Room!MemoryOnlyKnown'
  <2> SUFFICES ASSUME NEW n \in Room!Msgs, room_mem'[n] > 0, n \notin table', n \notin nonDurable'
               PROVE  \E u \in Room!ChatTasks : Room!At(u, "writing")' /\ room_task'[u].msg = n
    BY DEF Room!MemoryOnlyKnown
  <2>1. CASE n = m
    BY <1>4, <2>1 DEF Room!At
  <2>2. CASE n # m
    <3>1. room_mem[n] > 0
      BY <1>2, <1>8, <1>9, <2>2
    <3>2. PICK u \in Room!ChatTasks : room_task[u].stage = "writing" /\ room_task[u].msg = n
      BY <1>2, <3>1, ChatIs DEF Room!MemoryOnlyKnown, Room!At
    <3>3. u # t
      BY <1>2, <3>2
    <3> QED
      BY <1>4, <3>2, <3>3 DEF Moved, Room!At
  <2> QED
    BY <2>1, <2>2
<1>15. Room!CursorOnDurable'
  BY <1>2, ChatIs DEF Room!CursorOnDurable
<1> QED
  BY <1>5, <1>6, <1>7, <1>13, <1>14, <1>15, ChatIs

(* A new listener is a new task. *)
LEMMA ClaimKeeps ==
    ASSUME ChatInv, NEW c \in Channels, Room!claim_chat(c)
    PROVE  ChatInv'
<1> DEFINE g == room_gen + 1
           r == [Room!NoTask EXCEPT !.stage = "claimed", !.channel = c]
<1>1. /\ room_gen < MaxTasks /\ room_gen' = g /\ room_active' = [room_active EXCEPT ![c] = g]
      /\ room_task' = [room_task EXCEPT ![g] = r]
      /\ overlapped' = (overlapped \/ \E t \in Room!ChatTasks : room_task[t].channel = c
                                                                /\ room_task[t].stage # "none")
      /\ UNCHANGED <<room_sent, room_mem, hydrated, nonDurable, table, cursorRow, room_req, stopping,
                     room_failures, refusals, stops, room_restarts>>
  BY DEF Room!claim_chat, Room!store, Room!At
<1>2. room_gen \in Nat /\ g \in Room!ChatTasks /\ g > room_gen /\ g <= MaxTasks /\ g \in Nat
  BY <1>1, ChatIs, RoomConstants DEF RoomClaims, Room!ChatTasks
<1>3. r \in RoomTask /\ r.stage = "claimed" /\ r.channel = c /\ r.seen = {}
  BY RoomConstants DEF RoomTask, Room!Stages
<1> HIDE DEF g, r
<1>4. /\ room_task' \in [Room!ChatTasks -> RoomTask] /\ room_task'[g] = r
      /\ \A u \in Room!ChatTasks \ {g} : room_task'[u] = room_task[u]
  BY <1>1, <1>2, <1>3, ChatIs DEF RoomTasks
<1>5. room_task[g].stage = "none"
  BY <1>2, ChatIs DEF EventsOwn
<1>6. RoomSets' /\ RoomCounts'
  BY <1>1, ChatIs DEF RoomSets, RoomCounts
<1>7. RoomClaims'
  <2>1. room_active \in [Channels -> 0 .. room_gen]
    BY ChatIs DEF RoomClaims
  <2>2. \A d \in Channels : room_active'[d] \in 0 .. g
    BY <1>1, <1>2, <2>1 DEF g
  <2>3. room_active' \in [Channels -> 0 .. g]
    BY <1>1, <2>1, <2>2
  <2> QED
    BY <1>1, <1>2, <2>3 DEF RoomClaims
<1>8. RoomFlags'
  BY <1>1, ChatIs DEF RoomFlags
<1>9. EventsOwn'
  <2> SUFFICES ASSUME NEW u \in Room!ChatTasks
               PROVE  /\ u > room_gen' => room_task'[u].stage = "none"
                      /\ InHand(u)' => /\ room_task'[u].msg \in Room!Msgs
                                       /\ room_task'[u].msg \in room_task'[u].seen
                                       /\ ChannelOf[room_task'[u].msg] = room_task'[u].channel
    BY DEF EventsOwn
  <2>1. CASE u = g
    BY <1>1, <1>2, <1>3, <1>4, <2>1 DEF InHand
  <2>2. CASE u # g
    <3>1. u \in Nat /\ (u > g => u > room_gen)
      BY <1>2, RoomConstants DEF g
    <3> QED
      BY <1>1, <1>4, <2>2, <3>1, ChatIs DEF EventsOwn, InHand
  <2> QED
    BY <2>1, <2>2
<1>10. OneListener'
  <2> SUFFICES ASSUME ~overlapped', NEW t \in Room!ChatTasks, NEW u \in Room!ChatTasks, t # u,
                      room_task'[t].stage # "none", room_task'[u].stage # "none"
               PROVE  room_task'[t].channel # room_task'[u].channel
    BY DEF OneListener
  <2>1. ~overlapped /\ \A v \in Room!ChatTasks : room_task[v].stage # "none" => room_task[v].channel # c
    BY <1>1
  <2> QED
    BY <1>3, <1>4, <2>1, ChatIs DEF OneListener
<1>11. \A m \in Room!Msgs : Spent(m) \subseteq Spent(m)'
  <2> SUFFICES ASSUME NEW m \in Room!Msgs, NEW u \in Spent(m) PROVE u \in Spent(m)'
    OBVIOUS
  <2>1. u \in Room!ChatTasks /\ u <= room_gen /\ u \in Nat
    BY RoomConstants DEF Spent
  <2>2. u # g /\ u <= g
    BY <1>2, <2>1 DEF g
  <2> QED
    BY <1>1, <1>4, <2>1, <2>2 DEF Spent
<1>12. CopiesCounted' /\ Copies'
  BY <1>1, <1>11, CountKept
<1>13. Room!MemoryOnlyKnown'
  <2> SUFFICES ASSUME NEW n \in Room!Msgs, room_mem'[n] > 0, n \notin table', n \notin nonDurable'
               PROVE  \E u \in Room!ChatTasks : Room!At(u, "writing")' /\ room_task'[u].msg = n
    BY DEF Room!MemoryOnlyKnown
  <2>1. PICK u \in Room!ChatTasks : room_task[u].stage = "writing" /\ room_task[u].msg = n
    BY <1>1, ChatIs DEF Room!MemoryOnlyKnown, Room!At
  <2>2. u # g
    BY <1>5, <2>1
  <2> QED
    BY <1>4, <2>1, <2>2 DEF Room!At
<1>14. Room!CursorOnDurable'
  BY <1>1, ChatIs DEF Room!CursorOnDurable
<1> QED
  BY <1>4, <1>6, <1>7, <1>8, <1>9, <1>10, <1>12, <1>13, <1>14, ChatIs DEF RoomTasks

(* A stop and the peer leave listeners and store alone; a restart forgets   *)
(* both, and keeps the table and the cursors.                               *)
LEMMA OutsideKeeps ==
    ASSUME ChatInv,
           \/ \E c \in Channels : Room!stop_closes(c)
           \/ Room!stop_chat_subscriptions
           \/ \E m \in Room!Msgs : Room!peer_sends(m)
    PROVE  ChatInv'
<1>0. /\ room_active \in [Channels -> 0 .. room_gen] /\ room_gen \in 0 .. MaxTasks
      /\ room_req \in [Channels -> {Room!NoReq, 0} \cup Room!Msgs] /\ RoomCounts /\ stopping \subseteq Channels
      /\ room_sent \subseteq Room!Msgs
  BY ChatIs DEF RoomSets, RoomClaims
<1>1. /\ UNCHANGED <<room_mem, hydrated, nonDurable, table, cursorRow, room_gen, room_task, overlapped>>
      /\ room_active' = room_active \/ room_active' = [c \in Channels |-> 0]
      /\ room_req' = room_req \/ \E c \in Channels : room_req' = [room_req EXCEPT ![c] = Room!NoReq]
      /\ stopping' \subseteq Channels /\ room_sent' \subseteq Room!Msgs
  BY <1>0 DEF Room!stop_closes, Room!stop_chat_subscriptions, Room!peer_sends, Room!store, Room!bounds
<1>2. UNCHANGED <<room_failures, refusals, room_restarts>> /\ (stops' = stops \/ (stops < MaxStops /\ stops' = stops + 1))
  BY DEF Room!stop_closes, Room!stop_chat_subscriptions, Room!peer_sends, Room!bounds
<1>3. RoomCounts'
  BY <1>0, <1>2, RoomConstants DEF RoomCounts
<1>4. RoomClaims'
  <2>1. room_active' \in [Channels -> 0 .. room_gen]
    BY <1>0, <1>1
  <2> QED
    BY <1>0, <1>1, <2>1 DEF RoomClaims
<1>5. RoomSets'
  <2>1. room_req' \in [Channels -> {Room!NoReq, 0} \cup Room!Msgs]
    BY <1>0, <1>1
  <2> QED
    BY <1>1, <2>1, ChatIs DEF RoomSets
<1>6. RoomFlags' /\ RoomTasks' /\ EventsOwn' /\ OneListener'
  BY <1>1, ChatIs DEF RoomFlags, RoomTasks, EventsOwn, OneListener, InHand
<1>7. Copies' /\ CopiesCounted' /\ Room!MemoryOnlyKnown' /\ Room!CursorOnDurable'
  BY <1>1, ChatIs DEF Copies, CopiesCounted, Spent, Room!MemoryOnlyKnown, Room!CursorOnDurable, Room!At
<1> QED
  BY <1>3, <1>4, <1>5, <1>6, <1>7, ChatIs

LEMMA RoomRestart ==
    ASSUME ChatInv, Room!restart
    PROVE  ChatInv'
<1>1. /\ room_restarts < MaxRestarts /\ room_restarts' = room_restarts + 1
      /\ room_mem' = [m \in Room!Msgs |-> 0] /\ hydrated' = FALSE /\ nonDurable' = {}
      /\ room_active' = [c \in Channels |-> 0] /\ room_req' = [c \in Channels |-> Room!NoReq]
      /\ room_task' = [t \in Room!ChatTasks |-> Room!NoTask] /\ stopping' = {}
      /\ UNCHANGED <<room_sent, table, cursorRow, room_gen, room_failures, refusals, stops, overlapped>>
  BY DEF Room!restart
<1>2. RoomSets'
  BY <1>1, ChatIs DEF RoomSets
<1>3. RoomClaims' /\ RoomCounts'
  BY <1>1, ChatIs, RoomConstants DEF RoomClaims, RoomCounts
<1>4. RoomFlags'
  BY <1>1, ChatIs DEF RoomFlags
<1>5. RoomTasks' /\ \A t \in Room!ChatTasks : room_task'[t].stage = "none"
  BY <1>1, RoomConstants DEF RoomTasks
<1>6. EventsOwn' /\ OneListener'
  BY <1>5 DEF EventsOwn, OneListener, InHand
<1>7. Copies'
  BY <1>1, RoomConstants DEF Copies
<1>8. CopiesCounted'
  <2> SUFFICES ASSUME NEW m \in Room!Msgs
               PROVE  /\ room_mem'[m] <= Cardinality(Spent(m)')
                      /\ m \in table' \cup nonDurable' => Spent(m)' # {}
    BY DEF CopiesCounted
  <2>1. room_mem'[m] = 0
    BY <1>1
  <2>2. Spent(m) \subseteq Spent(m)'
    BY <1>1, <1>5 DEF Spent
  <2>3. m \in table' \cup nonDurable' => Spent(m) # {}
    BY <1>1, ChatIs DEF CopiesCounted
  <2> QED
    BY <2>1, <2>2, <2>3, SpentFinite
<1>9. Room!MemoryOnlyKnown' /\ Room!CursorOnDurable'
  BY <1>1, ChatIs DEF Room!MemoryOnlyKnown, Room!CursorOnDurable
<1> QED
  BY <1>2, <1>3, <1>4, <1>5, <1>6, <1>7, <1>8, <1>9, ChatIs

LEMMA RoomStep == ChatInv /\ Room!Next => ChatInv'
<1> SUFFICES ASSUME ChatInv, Room!Next PROVE ChatInv'
  OBVIOUS
<1>1. ASSUME NEW t \in Room!ChatTasks, Room!TaskStep(t) PROVE ChatInv'
  BY <1>1, ListenerKeeps, KnownKeeps, PushKeeps, SaveKeeps DEF Room!TaskStep
<1> QED
  BY <1>1, ClaimKeeps, OutsideKeeps, RoomRestart DEF Room!Next

(* What a chat and a dispute remember: a message only memory holds is known *)
(* to be so, a cursor stands on a message a restart will find, an accepted  *)
(* dispute is this client's, and its solver survives a restart.             *)
THEOREM TalkRemembered == MCSpec => []TalkSound
<1>1. MCInit => ChatInv /\ DisputeInv
  BY RoomInit, DisputeInit DEF MCInit
<1>2. ChatInv /\ DisputeInv /\ [MCNext]_MCvars => ChatInv' /\ DisputeInv'
  <2> SUFFICES ASSUME ChatInv, DisputeInv, [MCNext]_MCvars PROVE ChatInv' /\ DisputeInv'
    OBVIOUS
  <2>1. (Room!Next \/ UNCHANGED RoomVars) /\ (Dispute!Next \/ UNCHANGED DisputeVars)
    BY DEF MCNext, MCvars
  <2> QED
    BY <2>1, RoomStep, RoomStutter, DisputeStep, DisputeStutter
<1>3. ChatInv /\ DisputeInv => TalkSound
  BY DEF ChatInv, DisputeInv, RecordTrue, SolverTrue, InReview, TalkSound, Dispute!SolverSurvives
<1> QED
  BY <1>1, <1>2, <1>3, PTL DEF MCSpec
=============================================================================
