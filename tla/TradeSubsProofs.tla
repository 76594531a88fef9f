-------------------------- MODULE TradeSubsProofs --------------------------
(***************************************************************************)
(* Proofs about the single-owner registry of trade subscriptions, for any  *)
(* number of callers; and about the history a restore brings back, for any *)
(* number of orders, of restores and of faults.                            *)
(***************************************************************************)
EXTENDS MCTradeSubs, WellFoundedInduction, TLAPS

(* The entry names its owner and the phase the owner is in. *)
EntryOfSetup == \A c \in Callers : pc[c] \in SettingUp \cup {"dropping"} =>
                    entry.state = "Setup" /\ entry.gate = c
EntryOfWatcher == \A c \in Callers : watcher[c] \in {"run", "closing"} =>
                    entry.state = "Live" /\ entry.gate = c
LiveHasWatcher == entry.state = "Live" =>
                    entry.gate \in Callers /\ watcher[entry.gate] \in {"run", "closing"}

(* The lock is held across a teardown, and by nothing else. *)
LockOfTeardown == \A c \in Callers : watcher[c] = "closing" => lock = c

(* While the pool is up, a subscribed owner's REQ is active. *)
OwnerHasReq == \A c \in Callers : poolUp /\ (pc[c] = "subscribed" \/ watcher[c] = "run") => req

(* A promise not yet honoured is marked on a live, running owner. *)
PromiseMarked == poolUp /\ promised # {} =>
                    entry.state = "Live" /\ entry.rearmed /\ watcher[entry.gate] = "run"

Inv == /\ TypeOK /\ EntryOfSetup /\ EntryOfWatcher /\ LiveHasWatcher
       /\ LockOfTeardown /\ OwnerHasReq /\ PromiseMarked /\ NoLostWakeup

LEMMA InvInit == Init => Inv
<1> SUFFICES ASSUME Init PROVE Inv
  OBVIOUS
<1>1. TypeOK
  BY DEF Init, TypeOK, NoEntry, NoRecord, States, PCs
<1>2. \A c \in Callers : pc[c] = "idle" /\ watcher[c] = "none"
  BY DEF Init
<1>3. entry.state = "None" /\ promised = {}
  BY DEF Init, NoEntry
<1> QED
  BY <1>1, <1>2, <1>3 DEF Inv, EntryOfSetup, EntryOfWatcher, LiveHasWatcher, LockOfTeardown,
     OwnerHasReq, PromiseMarked, NoLostWakeup, SettingUp

(* Steps of a claim that owns nothing yet. *)
LEMMA ClaimKeepsInv ==
    ASSUME Inv, NEW c \in Callers,
           call(c) \/ claim(c) \/ enable(c) \/ recheck(c) \/ wake(c) \/ abandon_claim(c)
    PROVE  Inv'
<1> USE SubsAssumption DEF Inv, TypeOK, Goto, Unlocked, States, PCs, SettingUp, Claiming, Returned
<1> USE DEF EntryOfSetup, EntryOfWatcher, LiveHasWatcher, LockOfTeardown, OwnerHasReq,
            PromiseMarked, NoLostWakeup
<1>1. CASE call(c)
  BY <1>1 DEF call
<1>2. CASE claim(c)
  <2>1. CASE entry.state = "None"
    <3>1. /\ entry' = [state |-> "Setup", rearmed |-> FALSE, gate |-> c]
          /\ pc' = [pc EXCEPT ![c] = "setup"]
          /\ UNCHANGED <<lock, gateOf, woken, watcher, req, poolUp, record, promised>>
      BY <1>2, <2>1 DEF claim
    <3>2. TypeOK'
      BY <3>1
    <3>3. \A d \in Callers : ~Owns(d) /\ (pc[d] = "parked" => d \in woken)
      BY <2>1 DEF Owns
    <3> QED
      BY <2>1, <3>1, <3>2, <3>3 DEF Owns
  <2>2. CASE entry.state = "Live"
    <3>1. /\ entry' = [entry EXCEPT !.rearmed = TRUE] /\ promised' = promised \cup {c}
          /\ pc' = [pc EXCEPT ![c] = "bounced"] /\ lock = NoCaller
          /\ UNCHANGED <<lock, gateOf, woken, watcher, req, poolUp, record>>
      BY <1>2, <2>2 DEF claim
    <3>2. TypeOK'
      BY <3>1
    <3>3. entry.gate \in Callers /\ watcher[entry.gate] = "run"
      BY <2>2, <3>1
    <3>4. entry'.state = "Live" /\ entry'.gate = entry.gate /\ entry'.rearmed
      BY <2>2, <3>1
    <3> QED
      BY <2>2, <3>1, <3>2, <3>3, <3>4
  <2>3. CASE entry.state = "Setup"
    BY <1>2, <2>3 DEF claim
  <2> QED
    BY <2>1, <2>2, <2>3
<1>3. CASE enable(c)
  BY <1>3 DEF enable
<1>4. CASE recheck(c)
  BY <1>4 DEF recheck, parked_on_current_setup
<1>5. CASE wake(c)
  BY <1>5 DEF wake
<1>6. CASE abandon_claim(c)
  BY <1>6 DEF abandon_claim
<1> QED
  BY <1>1, <1>2, <1>3, <1>4, <1>5, <1>6

(* Giving the key back: the owner's entry goes, its waiters are woken, and *)
(* nobody else owned it.                                                   *)
LEMMA RemovalKeepsInv ==
    ASSUME Inv, NEW c \in Callers, remove_and_wake,
           pc[c] \in SettingUp \cup {"dropping"} \/ watcher[c] = "closing",
           pc' \in [Callers -> PCs], watcher' \in [Callers -> {"none", "run", "closing", "done"}],
           lock' \in Callers \cup {NoCaller},
           record' \in [who : Callers \cup {NoCaller}, waiting : BOOLEAN],
           \A d \in Callers \ {c} : pc'[d] = pc[d] /\ watcher'[d] = watcher[d],
           pc'[c] \notin SettingUp \cup {"dropping"}, pc'[c] = "parked" => pc[c] = "parked",
           watcher'[c] \notin {"run", "closing"},
           UNCHANGED <<gateOf, req, poolUp, promised>>
    PROVE  Inv'
<1> USE SubsAssumption DEF Inv
<1>1. entry.gate = c /\ \A d \in Callers \ {c} : ~Owns(d)
  BY DEF Owns, EntryOfSetup, EntryOfWatcher
<1>2. entry' = NoEntry /\ entry'.state = "None"
  BY DEF remove_and_wake, NoEntry
<1>3. woken' \subseteq Callers
  BY DEF TypeOK, remove_and_wake, NotifyWaiters
<1>4. TypeOK'
  BY <1>2, <1>3 DEF TypeOK, NoEntry, States
<1>5. \A d \in Callers : ~Owns(d)'
  BY <1>1 DEF Owns
<1>6. EntryOfSetup' /\ EntryOfWatcher' /\ LiveHasWatcher' /\ LockOfTeardown' /\ OwnerHasReq'
  BY <1>2, <1>5 DEF EntryOfSetup, EntryOfWatcher, LiveHasWatcher, LockOfTeardown, OwnerHasReq,
     Owns, SettingUp
<1>7. PromiseMarked'
  BY <1>1 DEF PromiseMarked, EntryOfSetup
<1>8. NoLostWakeup'
  <2> SUFFICES ASSUME NEW d \in Callers, pc'[d] = "parked", d \notin woken' PROVE FALSE
    BY DEF NoLostWakeup
  <2>1. pc[d] = "parked"
    OBVIOUS
  <2> QED
    BY <2>1 DEF NoLostWakeup, remove_and_wake, NotifyWaiters
<1> QED
  BY <1>4, <1>6, <1>7, <1>8

(* Steps of the owner's setup. *)
LEMMA SetupKeepsInv ==
    ASSUME Inv, NEW c \in Callers,
           \/ subscribe_accepted(c) \/ setup_failed(c) \/ mark_live(c)
           \/ release(c) \/ drop_release(c) \/ abandon_setup(c)
    PROVE  Inv'
<1> USE SubsAssumption
<1>1. pc[c] \in SettingUp \cup {"dropping"} /\ entry.state = "Setup" /\ entry.gate = c
  BY DEF subscribe_accepted, setup_failed, mark_live, release, drop_release, abandon_setup,
     SettingUp, Inv, EntryOfSetup
<1>2. \A d \in Callers : watcher[d] \notin {"run", "closing"}
  BY <1>1 DEF Inv, EntryOfWatcher
<1>3. \A d \in Callers \ {c} : pc[d] \notin SettingUp \cup {"dropping"}
  BY <1>1 DEF Inv, EntryOfSetup
<1>4. poolUp => promised = {}
  BY <1>1 DEF Inv, PromiseMarked
<1> DEFINE Pieces == EntryOfSetup' /\ EntryOfWatcher' /\ LiveHasWatcher' /\ LockOfTeardown'
                    /\ OwnerHasReq' /\ PromiseMarked'
<1>5. CASE subscribe_accepted(c) \/ setup_failed(c)
  <2>1. pc' \in [Callers -> PCs] /\ pc'[c] \in SettingUp /\ \A d \in Callers \ {c} : pc'[d] = pc[d]
    BY <1>5 DEF Inv, TypeOK, subscribe_accepted, setup_failed, Goto, PCs, SettingUp
  <2>2. /\ UNCHANGED <<lock, entry, gateOf, woken, watcher, poolUp, record, promised>>
        /\ req' \in BOOLEAN /\ (poolUp /\ pc'[c] = "subscribed" => req')
    BY <1>5 DEF Inv, TypeOK, subscribe_accepted, setup_failed, Goto
  <2>3. TypeOK'
    BY <2>1, <2>2 DEF Inv, TypeOK
  <2>4. Pieces
    BY <1>1, <1>2, <1>3, <1>4, <2>1, <2>2 DEF EntryOfSetup, EntryOfWatcher, LiveHasWatcher,
       LockOfTeardown, OwnerHasReq, PromiseMarked, SettingUp
  <2>5. NoLostWakeup'
    BY <2>1, <2>2 DEF Inv, NoLostWakeup, SettingUp
  <2> QED
    BY <2>3, <2>4, <2>5 DEF Inv
<1>6. CASE mark_live(c)
  <2>1. /\ entry'.state = "Live" /\ entry'.gate = c /\ ~entry'.rearmed
        /\ entry' \in [state : States, rearmed : BOOLEAN, gate : Callers \cup {NoCaller}]
    BY <1>1, <1>6 DEF mark_live, Inv, TypeOK, States
  <2>2. /\ pc' = [pc EXCEPT ![c] = "covered"] /\ watcher' = [watcher EXCEPT ![c] = "run"]
        /\ UNCHANGED <<lock, gateOf, req, poolUp, record, promised>>
    BY <1>6 DEF mark_live, Goto
  <2>3. poolUp => req
    BY <1>6 DEF mark_live, Inv, OwnerHasReq
  <2>4. TypeOK'
    BY <1>6, <2>1, <2>2 DEF mark_live, NotifyWaiters, Inv, TypeOK, PCs, Returned
  <2>5. Pieces
    BY <1>2, <1>3, <1>4, <2>1, <2>2, <2>3 DEF Inv, TypeOK, EntryOfSetup, EntryOfWatcher,
       LiveHasWatcher, LockOfTeardown, OwnerHasReq, PromiseMarked, SettingUp
  <2>6. NoLostWakeup'
    BY <1>1, <1>6, <2>2 DEF mark_live, NotifyWaiters, Inv, TypeOK, NoLostWakeup
  <2> QED
    BY <2>4, <2>5, <2>6 DEF Inv
<1>7. ASSUME remove_and_wake, Goto(c, "uncovered"),
             UNCHANGED <<lock, gateOf, watcher, req, poolUp, record, promised>>
      PROVE  Inv'
  <2>1. /\ pc' \in [Callers -> PCs] /\ pc'[c] = "uncovered"
        /\ \A d \in Callers \ {c} : pc'[d] = pc[d]
    BY <1>7 DEF Goto, Inv, TypeOK, PCs, Returned
  <2>2. lock' \in Callers \cup {NoCaller} /\ record' \in [who : Callers \cup {NoCaller}, waiting : BOOLEAN]
        /\ watcher' \in [Callers -> {"none", "run", "closing", "done"}]
    BY <1>7 DEF Inv, TypeOK
  <2> QED
    BY <1>1, <1>2, <1>7, <2>1, <2>2, RemovalKeepsInv DEF SettingUp
<1>8. CASE release(c) \/ drop_release(c)
  BY <1>7, <1>8 DEF release, drop_release
<1>9. CASE abandon_setup(c)
  <2>1. CASE remove_and_wake /\ Goto(c, "uncovered")
    BY <1>7, <1>9, <2>1 DEF abandon_setup
  <2>2. CASE Goto(c, "dropping") /\ UNCHANGED <<entry, woken>>
    <3>1. pc' = [pc EXCEPT ![c] = "dropping"]
          /\ UNCHANGED <<lock, entry, gateOf, woken, watcher, req, poolUp, record, promised>>
      BY <1>9, <2>2 DEF abandon_setup, Goto
    <3>2. TypeOK'
      BY <3>1 DEF Inv, TypeOK, PCs
    <3>3. Pieces
      BY <1>1, <1>2, <1>3, <1>4, <3>1 DEF Inv, TypeOK, EntryOfSetup, EntryOfWatcher,
         LiveHasWatcher, LockOfTeardown, OwnerHasReq, PromiseMarked, SettingUp
    <3>4. NoLostWakeup'
      BY <3>1 DEF Inv, TypeOK, NoLostWakeup
    <3> QED
      BY <3>2, <3>3, <3>4 DEF Inv
  <2> QED
    BY <1>9, <2>1, <2>2 DEF abandon_setup
<1> QED
  BY <1>5, <1>6, <1>8, <1>9

(* Steps of the watcher, the pool and the request's own wait. *)
LEMMA WatcherKeepsInv ==
    ASSUME Inv, NEW c \in Callers, WatcherStep(c) \/ request_ends(c) \/ shutdown
    PROVE  Inv'
<1> USE SubsAssumption
<1> DEFINE Pieces == EntryOfSetup' /\ EntryOfWatcher' /\ LiveHasWatcher' /\ LockOfTeardown'
                    /\ OwnerHasReq' /\ PromiseMarked' /\ NoLostWakeup'
<1> USE DEF EntryOfSetup, EntryOfWatcher, LiveHasWatcher, LockOfTeardown, OwnerHasReq,
            PromiseMarked, NoLostWakeup
<1>1. ASSUME watcher[c] = "run", begin_dismantle(c), poolUp => promised = {}, Unlocked,
             UNCHANGED <<pc, gateOf, woken, poolUp, record>>
      PROVE  Inv'
  <2>1. /\ lock' = c /\ watcher' = [watcher EXCEPT ![c] = "closing"] /\ req' = FALSE
        /\ UNCHANGED <<entry, promised, pc, gateOf, woken, poolUp, record>>
    BY <1>1 DEF begin_dismantle
  <2>2. TypeOK'
    BY <2>1 DEF Inv, TypeOK
  <2>3. entry.state = "Live" /\ entry.gate = c
    BY <1>1 DEF Inv
  <2>4. \A d \in Callers \ {c} : watcher'[d] = watcher[d] /\ watcher[d] \notin {"run", "closing"}
    BY <2>1, <2>3 DEF Inv, TypeOK
  <2>5. watcher'[c] = "closing"
    BY <2>1 DEF Inv, TypeOK
  <2>6. Pieces
    BY <1>1, <2>1, <2>3, <2>4, <2>5 DEF Inv, SettingUp
  <2> QED
    BY <2>2, <2>6 DEF Inv
<1>2. CASE idle_exit(c)
  <2>1. CASE entry.state = "Live" /\ entry.rearmed
    <3>1. /\ entry' = [entry EXCEPT !.rearmed = FALSE] /\ promised' = {}
          /\ UNCHANGED <<lock, watcher, req, pc, gateOf, woken, poolUp, record>>
      BY <1>2, <2>1 DEF idle_exit
    <3>2. TypeOK' /\ entry'.state = entry.state /\ entry'.gate = entry.gate
      BY <3>1 DEF Inv, TypeOK
    <3> QED
      BY <3>1, <3>2 DEF Inv
  <2>2. CASE ~(entry.state = "Live" /\ entry.rearmed)
    BY <1>1, <1>2, <2>2 DEF idle_exit, Inv
  <2> QED
    BY <2>1, <2>2
<1>3. CASE shutdown_exit(c)
  BY <1>1, <1>3 DEF shutdown_exit
<1>4. CASE dismantle(c)
  <2>1. /\ pc' \in [Callers -> PCs] /\ lock' \in Callers \cup {NoCaller}
        /\ watcher' \in [Callers -> {"none", "run", "closing", "done"}]
        /\ record' \in [who : Callers \cup {NoCaller}, waiting : BOOLEAN]
        /\ pc' = pc /\ watcher'[c] = "done"
        /\ \A d \in Callers \ {c} : watcher'[d] = watcher[d]
    BY <1>4 DEF dismantle, Inv, TypeOK, NoRecord
  <2>2. entry.state = "Live" /\ watcher[c] = "closing"
    BY <1>4 DEF dismantle, Inv
  <2>3. pc[c] \notin SettingUp \cup {"dropping"}
    BY <2>2 DEF Inv
  <2> QED
    BY <1>4, <2>1, <2>2, <2>3, RemovalKeepsInv DEF dismantle
<1>5. CASE request_ends(c)
  <2>1. TypeOK'
    <3>1. record' \in [who : Callers \cup {NoCaller}, waiting : BOOLEAN]
      <4>1. NoRecord \in [who : Callers \cup {NoCaller}, waiting : BOOLEAN]
        BY DEF NoRecord
      <4>2. [who |-> c, waiting |-> FALSE] \in [who : Callers \cup {NoCaller}, waiting : BOOLEAN]
        OBVIOUS
      <4> QED
        BY <1>5, <4>1, <4>2 DEF request_ends
    <3> QED
      BY <1>5, <3>1 DEF request_ends, Inv, TypeOK
  <2> QED
    BY <1>5, <2>1 DEF request_ends, Inv
<1>6. CASE shutdown
  BY <1>6 DEF shutdown, Inv, TypeOK
<1> QED
  BY <1>2, <1>3, <1>4, <1>5, <1>6 DEF WatcherStep

LEMMA Invariance == Spec => []Inv
<1>1. Inv /\ [Next]_vars => Inv'
  <2> SUFFICES ASSUME Inv, [Next]_vars PROVE Inv'
    OBVIOUS
  <2>1. ASSUME NEW c \in Callers, call(c) \/ abandon_claim(c) PROVE Inv'
    BY <2>1, ClaimKeepsInv
  <2>2. ASSUME NEW c \in Callers, CallerStep(c) PROVE Inv'
    BY <2>2, ClaimKeepsInv, SetupKeepsInv DEF CallerStep
  <2>3. ASSUME NEW c \in Callers, WatcherStep(c) \/ request_ends(c) PROVE Inv'
    BY <2>3, WatcherKeepsInv
  <2>4. ASSUME NEW c \in Callers, abandon_setup(c) PROVE Inv'
    BY <2>4, SetupKeepsInv
  <2>5. CASE shutdown
    <3>1. CASE Callers = {}
      BY <2>5, <3>1 DEF shutdown, Inv, TypeOK, EntryOfSetup, EntryOfWatcher, LiveHasWatcher,
         LockOfTeardown, OwnerHasReq, PromiseMarked, NoLostWakeup
    <3>2. CASE Callers # {}
      BY <2>5, <3>2, WatcherKeepsInv
    <3> QED
      BY <3>1, <3>2
  <2>6. CASE UNCHANGED vars
    BY <2>6 DEF vars, Inv, TypeOK, EntryOfSetup, EntryOfWatcher, LiveHasWatcher,
       LockOfTeardown, OwnerHasReq, PromiseMarked, NoLostWakeup
  <2> QED
    BY <2>1, <2>2, <2>3, <2>4, <2>5, <2>6 DEF Next
<1> QED
  BY InvInit, <1>1, PTL DEF Spec

-----------------------------------------------------------------------------
(* For any number of concurrent calls, panics and cancellations: a trade   *)
(* key has at most one owner, in setup, live or being torn down.           *)
THEOREM OneOwner == Spec => []SingleOwner
<1>1. Inv => SingleOwner
  BY DEF Inv, EntryOfSetup, EntryOfWatcher, SingleOwner, Owns
<1> QED
  BY <1>1, Invariance, PTL

(* No wake-up is lost: a parked claim always has an owner that will still  *)
(* open its gate, or has already been woken.                               *)
THEOREM NoWakeupLost == Spec => []NoLostWakeup
<1>1. Inv => NoLostWakeup
  BY DEF Inv
<1> QED
  BY <1>1, Invariance, PTL

(* A bounced claim is covered until its lease refresh has been honoured.   *)
THEOREM BouncesAreCovered == Spec => []PromisedCoverage
<1>1. Inv => PromisedCoverage
  BY DEF Inv, PromiseMarked, LiveHasWatcher, OwnerHasReq, PromisedCoverage
<1> QED
  BY <1>1, Invariance, PTL

-----------------------------------------------------------------------------
(* A trade key is derived for one create or take, so at most one call on it *)
(* registers a request before it subscribes.                                *)
OneRequester == \A c, d \in Requesters : c = d

LEMMA RecordStep ==
    ASSUME TypeOK, WaitingRecordKept, OneRequester, [Next]_vars
    PROVE  WaitingRecordKept'
<1> USE SubsAssumption DEF WaitingRecordKept, OneRequester, TypeOK, Goto, PCs, Claiming,
        SettingUp, Returned
<1>1. ASSUME NEW c \in Callers, call(c) PROVE WaitingRecordKept'
  BY <1>1 DEF call
<1>2. ASSUME NEW c \in Callers, claim(c) \/ enable(c) \/ recheck(c) \/ wake(c)
      PROVE  WaitingRecordKept'
  <2>1. UNCHANGED record /\ pc[c] \in Claiming /\ \A d \in Callers \ {c} : pc'[d] = pc[d]
    BY <1>2 DEF claim, enable, recheck, wake
  <2> QED
    BY <2>1
<1>3. ASSUME NEW c \in Callers, subscribe_accepted(c) \/ setup_failed(c)
      PROVE  WaitingRecordKept'
  BY <1>3 DEF subscribe_accepted, setup_failed
<1>4. ASSUME NEW c \in Callers, mark_live(c) \/ release(c) \/ drop_release(c)
             \/ abandon_setup(c) \/ abandon_claim(c)
      PROVE  WaitingRecordKept'
  BY <1>4 DEF mark_live, release, drop_release, abandon_setup, abandon_claim
<1>5. ASSUME NEW c \in Callers, idle_exit(c) \/ shutdown_exit(c) PROVE WaitingRecordKept'
  BY <1>5 DEF idle_exit, shutdown_exit
<1>6. ASSUME NEW c \in Callers, dismantle(c) PROVE WaitingRecordKept'
  <2>1. UNCHANGED pc /\ (record.waiting => record' = record)
    BY <1>6 DEF dismantle
  <2> QED
    BY <2>1
<1>7. ASSUME NEW c \in Callers, request_ends(c) PROVE WaitingRecordKept'
  <2>1. UNCHANGED pc /\ record.who = c /\ pc[c] \in Returned
    BY <1>7 DEF request_ends
  <2> QED
    BY <2>1
<1>8. CASE shutdown
  BY <1>8 DEF shutdown
<1>9. CASE UNCHANGED vars
  BY <1>9 DEF vars
<1> QED
  BY <1>1, <1>2, <1>3, <1>4, <1>5, <1>6, <1>7, <1>8, <1>9 DEF Next, CallerStep, WatcherStep

(* The request of the create or take that owns this trade key keeps its     *)
(* record while its call is on the way to a subscription, whatever watcher  *)
(* of the key is torn down meanwhile (purge_detached_pending_request).      *)
THEOREM RecordKept ==
    ASSUME OneRequester
    PROVE  Spec => []WaitingRecordKept
<1>1. Init => WaitingRecordKept
  BY SubsAssumption DEF Init, WaitingRecordKept, Claiming, SettingUp
<1>2. TypeOK /\ WaitingRecordKept /\ [Next]_vars => WaitingRecordKept'
  BY RecordStep
<1>3. Inv => TypeOK
  BY DEF Inv
<1> QED
  BY <1>1, <1>2, <1>3, Invariance, PTL DEF Spec

-----------------------------------------------------------------------------
(* The history a restore brings back (RestoreHistory).                      *)
Finished == {"Success", "Canceled"}
Rows == [status : History!Live \cup {"Success", "None"}, idx : History!Index]
Restores == [pc : {"idle", "sent", "listed", "raise", "record", "bonds", "guard"},
             listed : SUBSET History!Listed, floor : History!Index,
             oid : Orders \cup {"none"}, known : BOOLEAN, answered : BOOLEAN]
Passes == [pc : {"idle", "listed", "settle"}, todo : SUBSET (Orders \X History!Index),
           oid : Orders \cup {"none"}, idx : History!Index,
           action : {"MarkSuccess", "Wipe", "Retry"}]
Trades == [status : History!Live \cup Finished, idx : History!Index]
HistoryTypes ==
    /\ trade \in [Orders -> Trades]
    /\ daemon \in History!Index /\ counter \in History!Index
    /\ row \in [Orders -> Rows] /\ tomb \in [Orders -> History!Index]
    /\ snap \in [floor : History!Index, live : SUBSET Orders]
    /\ restore \in Restores /\ pass \in Passes
    /\ restores \in 0 .. MaxRestores /\ faults \in 0 .. MaxFaults
    /\ raced \subseteq Orders /\ lost \subseteq Orders /\ settled \subseteq Orders \X History!Index

(* What a pass has listed and not yet settled.                              *)
Due == pass.todo \cup IF pass.pc = "settle" THEN {<<pass.oid, pass.idx>>} ELSE {}

(* The daemon's counter covers every trade, the snapshot and the restore's  *)
(* answers; only an order never ours has no key.                            *)
Covered ==
    /\ \A o \in Orders : trade[o].idx <= daemon /\ (trade[o].idx = 0 => trade[o].status = "Canceled")
    /\ snap.floor <= daemon /\ restore.floor <= daemon
    /\ \A r \in restore.listed : r.idx <= daemon /\ r.idx > 0

(* A restore that heard the counter will not leave the client behind it.    *)
Answered == restore.answered =>
    /\ restore.pc = "raise" => restore.floor >= daemon \/ counter >= daemon
    /\ restore.pc \in {"record", "bonds", "guard"} => counter >= daemon

(* What the daemon counts as in progress was in the restore's list, and is  *)
(* in the snapshot it left, unless it was taken since.                      *)
Raising == restore.pc \in {"listed", "raise", "record"}
ListedAll ==
    /\ Raising => \A o \in Orders : trade[o].status \in History!Live /\ o \notin raced
                     => \E r \in restore.listed : r.oid = o
    /\ \A o \in Orders : trade[o].status \in History!Live /\ o \notin raced /\ trade[o].idx <= snap.floor
                     => o \in snap.live
    /\ Raising => \A o \in Orders : trade[o].status = "WaitingTakerBond"
                     => \E r \in restore.listed : r.oid = o

(* A row is of the order's last trade.                                      *)
RowIsLast ==
    /\ \A o \in Orders : IF row[o].status = "None" THEN row[o].idx = 0
                         ELSE row[o].idx = trade[o].idx /\ row[o].idx > 0
    /\ \A r \in restore.listed : r.status = "WaitingTakerBond"
         => r.idx = trade[r.oid].idx \/ row[r.oid].status # "None"

(* An order in progress is not due, unless it was taken since; nor is one   *)
(* of a key above its last.                                                 *)
DueTrue == \A e \in Due :
    /\ e[1] \notin raced => trade[e[1]].status \notin History!Live
    /\ e[1] \in Orders /\ e[2] > 0 /\ e[2] <= trade[e[1]].idx
    /\ \A d \in Due \cup settled : d[1] = e[1] => d[2] <= e[2]

(* A bond the daemon waits for, or the restore listed so, was never         *)
(* settled or due: every snapshot has it.                                   *)
Untouched(o) == /\ snap = History!NoSnapshot \/ o \in snap.live
                /\ \A e \in Due \cup settled : e[1] # o
BondsUntouched ==
    /\ \A o \in Orders : trade[o].status = "WaitingTakerBond" => Untouched(o)
    /\ \A r \in restore.listed : r.status = "WaitingTakerBond" => Untouched(r.oid)

(* A wiped row's key is covered by the tombstone, or of an earlier trade.   *)
WipedCovered == \A e \in settled :
    /\ e[2] > 0 /\ e[2] <= trade[e[1]].idx
    /\ e[2] <= tomb[e[1]] \/ e[2] < trade[e[1]].idx

(* The restore writes the row of an order it listed as waiting for a bond.  *)
Guarding == restore.pc = "guard" =>
    \E r \in restore.listed : r.oid = restore.oid /\ r.status = "WaitingTakerBond"
ListedOnce == \A r, s \in restore.listed : r.oid = s.oid => r = s

HistoryInv == /\ HistoryTypes /\ Covered /\ Answered /\ ListedAll /\ RowIsLast /\ DueTrue
              /\ BondsUntouched /\ WipedCovered /\ Guarding /\ ListedOnce
              /\ History!LiveRowKept /\ History!WipedNotRebuilt

-----------------------------------------------------------------------------
(* The least of a set of numbers, and the greatest of a bounded one.        *)
LEMMA LeastOf == ASSUME NEW T \in SUBSET Nat, T # {} PROVE \E x \in T : \A y \in T : x <= y
  <1>. DEFINE R == OpToRel(<, Nat)
  <1>1. IsWellFoundedOn(R, Nat) BY NatLessThanWellFounded
  <1>. HIDE DEF R
  <1>2. PICK x \in T : \A y \in T : ~ (<<y, x>> \in R) BY <1>1, WFMin
  <1>3. \A y \in T : <<y, x>> \in R <=> y < x BY DEF R, OpToRel
  <1>4. \A y \in T : ~(y < x) BY <1>2, <1>3
  <1>5. \A y \in T : y \in Nat OBVIOUS
  <1>. QED BY <1>4, <1>5

LEMMA MaxOf ==
    ASSUME NEW n \in Nat, NEW T \in SUBSET (0 .. n), T # {}
    PROVE  History!Max(T) \in T /\ \A y \in T : History!Max(T) >= y
  <1>. DEFINE U == {u \in Nat : \E x \in T : u = n - x}
  <1>1. U \in SUBSET Nat /\ \A y \in T : n - y \in U OBVIOUS
  <1>2. U # {} BY <1>1
  <1>3. PICK u \in U : \A v \in U : u <= v BY <1>1, <1>2, LeastOf
  <1>4. PICK x \in T : u = n - x OBVIOUS
  <1>5. \A y \in T : u <= n - y BY <1>1, <1>3
  <1>6. \A y \in T : x >= y BY <1>4, <1>5
  <1>. QED BY <1>6 DEF History!Max

LEMMA HistoryIs ==
    /\ History!Index \subseteq Nat /\ 0 \in History!Index
    /\ History!NoRestore \in Restores /\ History!NoRestore.pc = "idle" /\ History!NoRestore.listed = {}
    /\ History!NoRestore.floor = 0 /\ ~History!NoRestore.answered
    /\ History!NoPass \in Passes /\ History!NoPass.pc = "idle" /\ History!NoPass.todo = {}
    /\ History!NoSnapshot.floor = 0 /\ History!NoSnapshot.live = {}
    /\ History!NoSnapshot \in [floor : History!Index, live : SUBSET Orders]
    /\ History!NoRow \in Rows /\ History!NoRow.status = "None" /\ History!NoRow.idx = 0
  <1>1. History!Index \subseteq Nat /\ 0 \in History!Index BY HistoryAssumption DEF History!Index
  <1>. QED BY <1>1 DEF History!NoRestore, Restores, History!NoPass, Passes, History!NoSnapshot,
                       History!NoRow, Rows

(* The snapshot and the rest untouched, a step of the restore that lists    *)
(* nothing new.                                                             *)
Elsewhere == <<trade, daemon, row, tomb, snap, pass, raced, lost, settled>>

LEMMA RestKept ==
    ASSUME HistoryInv, UNCHANGED Elsewhere, HistoryTypes',
           restore'.listed \subseteq restore.listed, restore'.floor <= daemon,
           Raising' => Raising /\ restore'.listed = restore.listed,
           Answered', Guarding'
    PROVE  HistoryInv'
  <1>. USE DEF HistoryInv, Elsewhere
  <1>1. Covered' BY DEF Covered
  <1>2. ListedAll' BY DEF ListedAll
  <1>3. RowIsLast' BY DEF RowIsLast
  <1>4. DueTrue' BY DEF DueTrue, Due
  <1>5. BondsUntouched'
    <2>1. \A o : Untouched(o)' <=> Untouched(o) BY DEF Untouched, Due
    <2>. QED BY <2>1 DEF BondsUntouched
  <1>6. WipedCovered' BY DEF WipedCovered
  <1>7. ListedOnce' BY DEF ListedOnce
  <1>8. History!LiveRowKept' /\ History!WipedNotRebuilt'
    BY DEF History!LiveRowKept, History!WipedNotRebuilt
  <1>. QED BY <1>1, <1>2, <1>3, <1>4, <1>5, <1>6, <1>7, <1>8

LEMMA RequestKeeps ==
    ASSUME HistoryInv, History!restore_session \/ History!restore_done PROVE HistoryInv'
  <1>. UNCHANGED Elsewhere
    BY DEF History!restore_session, History!restore_done, Elsewhere, History!remote, History!history
  <1>1. CASE History!restore_session
    <2>. DEFINE v == [History!NoRestore EXCEPT !.pc = "sent"]
    <2>1. v \in Restores /\ v.pc = "sent" /\ v.listed = {} /\ v.floor = 0 /\ ~v.answered
      BY HistoryIs DEF Restores
    <2>2. /\ restore' = v /\ restores < MaxRestores /\ restores' = restores + 1
          /\ counter < MaxIndex /\ counter' = counter + 1 /\ faults' = faults
      BY <1>1 DEF History!restore_session
    <2>. HIDE DEF v
    <2>3. restores' \in 0 .. MaxRestores /\ counter' \in History!Index
      BY <2>2, HistoryAssumption DEF HistoryInv, HistoryTypes, History!Index
    <2>4. HistoryTypes' BY <2>1, <2>2, <2>3 DEF HistoryInv, HistoryTypes, Elsewhere
    <2>5. 0 <= daemon BY HistoryIs DEF HistoryInv, HistoryTypes
    <2>. QED BY <2>1, <2>2, <2>4, <2>5, RestKept DEF Answered, Guarding, Raising
  <1>2. CASE History!restore_done
    <2>1. restore' = History!NoRestore /\ UNCHANGED <<counter, restores, faults>>
      BY <1>2 DEF History!restore_done
    <2>2. HistoryTypes' BY <2>1, HistoryIs DEF HistoryInv, HistoryTypes, Elsewhere
    <2>3. 0 <= daemon BY HistoryIs DEF HistoryInv, HistoryTypes
    <2>. QED BY <2>1, <2>2, <2>3, HistoryIs, RestKept DEF Answered, Guarding, Raising
  <1>. QED BY <1>1, <1>2

(* The daemon's reply lists what is in progress.                            *)
LEMMA RestoredKeeps == ASSUME HistoryInv, History!Restored PROVE HistoryInv'
  <1>. UNCHANGED Elsewhere /\ UNCHANGED <<counter, restores>> /\ restore.pc = "sent"
    BY DEF History!Restored, Elsewhere, History!remote, History!history
  <1>1. CASE restore' = History!NoRestore /\ faults < MaxFaults /\ faults' = faults + 1
    <2>1. faults' \in 0 .. MaxFaults
      BY <1>1, HistoryAssumption DEF HistoryInv, HistoryTypes
    <2>2. HistoryTypes' BY <1>1, <2>1, HistoryIs DEF HistoryInv, HistoryTypes, Elsewhere
    <2>3. 0 <= daemon BY HistoryIs DEF HistoryInv, HistoryTypes
    <2>. QED BY <1>1, <2>2, <2>3, HistoryIs, RestKept DEF Answered, Guarding, Raising
  <1>2. CASE /\ restore' = [restore EXCEPT !.pc = "listed",
                  !.listed = {[oid |-> o, idx |-> trade[o].idx, status |-> trade[o].status] :
                                o \in {x \in Orders : trade[x].status \in History!Live}}]
             /\ faults' = faults
    <2>. DEFINE listed == {[oid |-> o, idx |-> trade[o].idx, status |-> trade[o].status] :
                             o \in {x \in Orders : trade[x].status \in History!Live}}
    <2>1. \A o \in Orders : trade[o] \in Trades BY DEF HistoryInv, HistoryTypes
    <2>. DEFINE entry_of(o) == [oid |-> o, idx |-> trade[o].idx, status |-> trade[o].status]
    <2>2. /\ listed \subseteq History!Listed
          /\ \A r \in listed : /\ r.oid \in Orders /\ trade[r.oid].status \in History!Live
                               /\ r.idx = trade[r.oid].idx /\ r.status = trade[r.oid].status
          /\ \A o \in Orders : trade[o].status \in History!Live => \E r \in listed : r.oid = o
      <3>1. ASSUME NEW r \in listed
            PROVE  /\ r \in History!Listed /\ r.oid \in Orders /\ trade[r.oid].status \in History!Live
                   /\ r.idx = trade[r.oid].idx /\ r.status = trade[r.oid].status
        <4>1. PICK o \in Orders : trade[o].status \in History!Live /\ r = entry_of(o) OBVIOUS
        <4>2. trade[o].idx \in History!Index BY <2>1 DEF Trades
        <4>. QED BY <4>1, <4>2 DEF History!Listed
      <3>2. ASSUME NEW o \in Orders, trade[o].status \in History!Live
            PROVE  \E r \in listed : r.oid = o
        <4>1. entry_of(o) \in listed /\ entry_of(o).oid = o BY <3>2
        <4>. QED BY <4>1
      <3>. QED BY <3>1, <3>2
    <2>3. \A r, s \in listed : r.oid = s.oid => r = s BY <2>2 DEF History!Listed
    <2>. HIDE DEF listed
    <2>4. /\ restore' \in Restores /\ restore'.pc = "listed" /\ restore'.listed = listed
          /\ restore'.floor = restore.floor /\ restore'.answered = restore.answered
      BY <1>2, <2>2 DEF HistoryInv, HistoryTypes, Restores, listed
    <2>5. HistoryTypes' BY <1>2, <2>4 DEF HistoryInv, HistoryTypes, Elsewhere
    <2>. USE DEF Elsewhere
    <2>6. Covered'
      <3>1. \A r \in listed : r.idx <= daemon /\ r.idx > 0
        <4>. SUFFICES ASSUME NEW r \in listed PROVE r.idx <= daemon /\ r.idx > 0
          OBVIOUS
        <4>1. /\ r.oid \in Orders /\ r.idx = trade[r.oid].idx /\ r.idx \in Nat
              /\ trade[r.oid].status # "Canceled"
          BY <2>1, <2>2, HistoryIs DEF Trades, History!Live, History!Bonded
        <4>2. r.idx # 0 BY <4>1 DEF HistoryInv, Covered
        <4>. QED BY <4>1, <4>2 DEF HistoryInv, Covered
      <3>. QED BY <3>1, <2>4 DEF HistoryInv, Covered
    <2>7. Answered' BY <2>4 DEF Answered
    <2>8. ListedAll' BY <2>2, <2>4 DEF HistoryInv, ListedAll, History!Live, History!Bonded
    <2>9. RowIsLast' BY <2>2, <2>4 DEF HistoryInv, RowIsLast
    <2>10. DueTrue' BY DEF HistoryInv, DueTrue, Due
    <2>11. BondsUntouched'
      <3>1. \A o : Untouched(o)' <=> Untouched(o) BY DEF Untouched, Due
      <3>2. \A r \in listed : r.status = "WaitingTakerBond" => Untouched(r.oid)
        BY <2>2 DEF HistoryInv, BondsUntouched
      <3>. QED BY <3>1, <3>2, <2>4 DEF HistoryInv, BondsUntouched
    <2>12. WipedCovered' BY DEF HistoryInv, WipedCovered
    <2>13. Guarding' /\ ListedOnce' BY <2>3, <2>4 DEF Guarding, ListedOnce
    <2>14. History!LiveRowKept' /\ History!WipedNotRebuilt'
      BY DEF HistoryInv, History!LiveRowKept, History!WipedNotRebuilt
    <2>. QED BY <2>5, <2>6, <2>7, <2>8, <2>9, <2>10, <2>11, <2>12, <2>13, <2>14 DEF HistoryInv
  <1>. QED BY <1>1, <1>2 DEF History!Restored

(* The floor is of the daemon's counter or of a listed key.                 *)
LEMMA FloorIs ==
    ASSUME HistoryInv, NEW answer \in {0, daemon}
    PROVE  /\ History!resync_floor(answer) \in History!Index
           /\ History!resync_floor(answer) <= daemon /\ History!resync_floor(answer) >= answer
  <1>. DEFINE T == {0} \cup {r.idx : r \in restore.listed}
              m == History!recovered_max_trade_index
  <1>1. MaxIndex \in Nat /\ daemon \in 0 .. MaxIndex
    BY HistoryAssumption DEF HistoryInv, HistoryTypes, History!Index
  <1>2. \A r \in restore.listed : r.idx \in 0 .. daemon
    <2>1. \A r \in restore.listed : r.idx \in Nat
      BY HistoryIs DEF HistoryInv, HistoryTypes, Restores, History!Listed
    <2>. QED BY <2>1, <1>1 DEF HistoryInv, Covered
  <1>3. T \in SUBSET (0 .. daemon) /\ T # {} BY <1>1, <1>2
  <1>. HIDE DEF T
  <1>4. m \in 0 .. daemon
    <2>1. daemon \in Nat BY <1>1
    <2>2. History!Max(T) \in T BY <2>1, <1>3, MaxOf
    <2>. QED BY <2>2, <1>3 DEF History!recovered_max_trade_index, T
  <1>. HIDE DEF m
  <1>5. {answer, m} \in SUBSET (0 .. daemon) BY <1>1, <1>4
  <1>6. History!Max({answer, m}) \in {answer, m} /\ \A y \in {answer, m} : History!Max({answer, m}) >= y
    BY <1>1, <1>5, MaxOf
  <1>. QED BY <1>1, <1>5, <1>6 DEF History!resync_floor, History!Index, m

LEMMA ResyncKeeps ==
    ASSUME HistoryInv, History!last_trade_index \/ History!ensure_trade_key_index_at_least
    PROVE  HistoryInv'
  <1>. UNCHANGED Elsewhere /\ restores' = restores
    BY DEF History!last_trade_index, History!ensure_trade_key_index_at_least, Elsewhere,
           History!remote, History!history
  <1>0. /\ restore \in Restores /\ daemon \in Nat /\ counter \in History!Index /\ faults \in 0 .. MaxFaults
        /\ restore.floor \in Nat /\ counter \in Nat
    BY HistoryIs DEF HistoryInv, HistoryTypes, Restores
  <1>1. CASE History!last_trade_index
    <2>1. PICK answer \in {0, daemon} :
            /\ IF answer = daemon THEN faults' = faults
               ELSE faults < MaxFaults /\ faults' = faults + 1
            /\ restore' = [restore EXCEPT !.floor = History!resync_floor(answer),
                             !.answered = (answer = daemon),
                             !.pc = IF History!resync_floor(answer) = 0 THEN "bonds" ELSE "raise"]
      BY <1>1 DEF History!last_trade_index
    <2>2. restore.pc = "listed" /\ counter' = counter BY <1>1 DEF History!last_trade_index
    <2>3. faults' \in 0 .. MaxFaults BY <2>1, <1>0, HistoryAssumption
    <2>. DEFINE fl == History!resync_floor(answer)
    <2>4. fl \in History!Index /\ fl <= daemon /\ fl >= answer BY FloorIs
    <2>. HIDE DEF fl
    <2>5. /\ restore' \in Restores /\ restore'.listed = restore.listed /\ restore'.floor = fl
          /\ restore'.answered <=> answer = daemon
          /\ restore'.pc = IF fl = 0 THEN "bonds" ELSE "raise"
      BY <2>1, <2>4, <1>0 DEF Restores, fl
    <2>6. HistoryTypes' BY <2>2, <2>3, <2>5 DEF HistoryInv, HistoryTypes, Elsewhere
    <2>7. Answered' BY <2>2, <2>4, <2>5, <1>0, HistoryIs DEF Answered, Elsewhere
    <2>. QED BY <2>2, <2>4, <2>5, <2>6, <2>7, RestKept DEF Guarding, Raising
  <1>2. CASE History!ensure_trade_key_index_at_least
    <2>. DEFINE m == History!Max({counter, restore.floor})
    <2>1. /\ m \in History!Index /\ m >= counter /\ m >= restore.floor
      <3>1. {counter, restore.floor} \in SUBSET (0 .. MaxIndex) /\ MaxIndex \in Nat
        BY <1>0, HistoryAssumption DEF History!Index, Restores
      <3>. QED BY <3>1, MaxOf DEF History!Index
    <2>. HIDE DEF m
    <2>2. restore.pc = "raise" BY <1>2 DEF History!ensure_trade_key_index_at_least
    <2>3. CASE counter' = m /\ restore' = [restore EXCEPT !.pc = "record"] /\ faults' = faults
      <3>1. /\ restore' \in Restores /\ restore'.pc = "record" /\ restore'.listed = restore.listed
            /\ restore'.floor = restore.floor /\ restore'.answered = restore.answered
        BY <2>3, <1>0 DEF Restores
      <3>2. HistoryTypes' BY <2>1, <2>3, <3>1 DEF HistoryInv, HistoryTypes, Elsewhere
      <3>3. Answered'
        BY <2>1, <2>2, <2>3, <3>1, <1>0, HistoryIs DEF HistoryInv, Answered, Elsewhere
      <3>. QED BY <2>2, <3>1, <3>2, <3>3, RestKept DEF HistoryInv, Covered, Guarding, Raising
    <2>4. CASE restore' = History!NoRestore /\ faults < MaxFaults /\ faults' = faults + 1 /\ counter' = counter
      <3>1. faults' \in 0 .. MaxFaults BY <2>4, <1>0, HistoryAssumption
      <3>2. HistoryTypes' BY <2>4, <3>1, HistoryIs DEF HistoryInv, HistoryTypes, Elsewhere
      <3>. QED BY <2>4, <3>2, <1>0, HistoryIs, RestKept DEF Answered, Guarding, Raising
    <2>. QED BY <1>2, <2>3, <2>4 DEF History!ensure_trade_key_index_at_least, m
  <1>. QED BY <1>1, <1>2

LEMMA RecordKeeps == ASSUME HistoryInv, History!record_restore_snapshot PROVE HistoryInv'
  <1>. UNCHANGED <<trade, daemon, row, tomb, pass, raced, lost, settled, counter, restores>>
    BY DEF History!record_restore_snapshot, History!remote, History!history
  <1>0. restore \in Restores BY DEF HistoryInv, HistoryTypes
  <1>1. /\ restore.pc = "record" /\ restore' = [restore EXCEPT !.pc = "bonds"]
    BY DEF History!record_restore_snapshot
  <1>2. /\ restore' \in Restores /\ restore'.pc = "bonds" /\ restore'.listed = restore.listed
        /\ restore'.floor = restore.floor /\ restore'.answered = restore.answered
    BY <1>0, <1>1 DEF Restores
  <1>3. Answered' /\ Guarding' BY <1>1, <1>2 DEF HistoryInv, Answered, Guarding
  <1>4. CASE faults < MaxFaults /\ faults' = faults + 1 /\ snap' = snap
    <2>1. faults' \in 0 .. MaxFaults BY <1>4, HistoryAssumption DEF HistoryInv, HistoryTypes
    <2>2. HistoryTypes' BY <2>1, <1>2, <1>4 DEF HistoryInv, HistoryTypes
    <2>. QED BY <2>2, <1>2, <1>3, <1>4, RestKept DEF HistoryInv, Covered, Raising, Elsewhere
  <1>5. CASE /\ snap' = [floor |-> restore.floor, live |-> {r.oid : r \in restore.listed}]
             /\ faults' = faults
    <2>1. /\ snap' \in [floor : History!Index, live : SUBSET Orders]
          /\ snap'.floor = restore.floor /\ \A r \in restore.listed : r.oid \in snap'.live
      BY <1>0, <1>5 DEF Restores, History!Listed
    <2>2. HistoryTypes' BY <2>1, <1>2, <1>5 DEF HistoryInv, HistoryTypes
    <2>3. Covered' BY <2>1, <1>2 DEF HistoryInv, Covered
    <2>4. ListedAll' BY <2>1, <1>1, <1>2 DEF HistoryInv, ListedAll, Raising
    <2>5. RowIsLast' BY <1>2 DEF HistoryInv, RowIsLast
    <2>6. DueTrue' BY DEF HistoryInv, DueTrue, Due
    <2>7. BondsUntouched'
      <3>1. \A o : Untouched(o) /\ o \in snap'.live => Untouched(o)' BY DEF Untouched, Due
      <3>2. \A o \in Orders : trade[o].status = "WaitingTakerBond" => o \in snap'.live
        BY <2>1, <1>1 DEF HistoryInv, ListedAll, Raising
      <3>. QED BY <3>1, <3>2, <2>1, <1>2 DEF HistoryInv, BondsUntouched
    <2>8. WipedCovered' BY DEF HistoryInv, WipedCovered
    <2>9. ListedOnce' BY <1>2 DEF HistoryInv, ListedOnce
    <2>10. History!LiveRowKept' /\ History!WipedNotRebuilt'
      BY DEF HistoryInv, History!LiveRowKept, History!WipedNotRebuilt
    <2>. QED BY <2>2, <2>3, <2>4, <2>5, <2>6, <2>7, <2>8, <2>9, <2>10, <1>3 DEF HistoryInv
  <1>. QED BY <1>4, <1>5 DEF History!record_restore_snapshot

LEMMA FetchKeeps == ASSUME HistoryInv, History!fetch_side PROVE HistoryInv'
  <1>. UNCHANGED Elsewhere /\ UNCHANGED <<counter, restores>>
    BY DEF History!fetch_side, Elsewhere, History!remote, History!history
  <1>0. restore \in Restores /\ restore.pc = "bonds" /\ faults \in 0 .. MaxFaults
    BY DEF HistoryInv, HistoryTypes, History!fetch_side
  <1>1. PICK r \in restore.listed :
          \/ /\ r.status = History!Bonded /\ faults' = faults
             /\ restore' = [restore EXCEPT !.pc = "guard", !.oid = r.oid,
                                           !.known = row[r.oid] # History!NoRow]
          \/ /\ restore' = [restore EXCEPT !.listed = @ \ {r}]
             /\ faults' = faults \/ (faults < MaxFaults /\ faults' = faults + 1)
    BY DEF History!fetch_side
  <1>2. r.oid \in Orders BY <1>0 DEF Restores, History!Listed
  <1>3. faults' \in 0 .. MaxFaults BY <1>0, <1>1, HistoryAssumption
  <1>4. /\ restore' \in Restores /\ restore'.pc \in {"bonds", "guard"}
        /\ restore'.listed \subseteq restore.listed
        /\ restore'.floor = restore.floor /\ restore'.answered = restore.answered
        /\ restore'.pc = "guard" => /\ restore'.oid = r.oid /\ r.status = History!Bonded
                                    /\ restore'.listed = restore.listed
    <2>1. CASE restore' = [restore EXCEPT !.pc = "guard", !.oid = r.oid,
                                          !.known = row[r.oid] # History!NoRow]
      BY <2>1, <1>0, <1>1, <1>2 DEF Restores
    <2>2. CASE restore' = [restore EXCEPT !.listed = @ \ {r}]
      BY <2>2, <1>0 DEF Restores
    <2>. QED BY <1>1, <2>1, <2>2
  <1>5. Guarding' BY <1>4 DEF Guarding, History!Bonded
  <1>6. Answered' BY <1>0, <1>4 DEF HistoryInv, Answered, Elsewhere
  <1>7. HistoryTypes' BY <1>3, <1>4 DEF HistoryInv, HistoryTypes, Elsewhere
  <1>. QED BY <1>4, <1>5, <1>6, <1>7, RestKept DEF HistoryInv, Covered, Raising

(* The bond's row is written of the listed key, of an order no pass ever    *)
(* wiped.                                                                   *)
LEMMA PersistKeeps == ASSUME HistoryInv, History!persist_bond_row PROVE HistoryInv'
  <1>. UNCHANGED <<trade, daemon, snap, pass, raced, lost, settled, counter, restores, faults>>
    BY DEF History!persist_bond_row, History!remote, History!history
  <1>. DEFINE o == restore.oid
  <1>0. restore \in Restores /\ restore.pc = "guard" /\ row \in [Orders -> Rows]
    BY DEF HistoryInv, HistoryTypes, History!persist_bond_row
  <1>1. restore' = [restore EXCEPT !.pc = "bonds", !.oid = "none", !.known = FALSE,
                                   !.listed = {r \in @ : r.oid # o}]
    BY DEF History!persist_bond_row
  <1>2. /\ restore' \in Restores /\ restore'.pc = "bonds"
        /\ restore'.listed = {r \in restore.listed : r.oid # o}
        /\ restore'.floor = restore.floor /\ restore'.answered = restore.answered
    BY <1>0, <1>1 DEF Restores
  <1>3. Answered' /\ Guarding' BY <1>0, <1>2 DEF HistoryInv, Answered, Guarding
  <1>4. CASE row' = row /\ tomb' = tomb
    <2>1. HistoryTypes' BY <1>2, <1>4 DEF HistoryInv, HistoryTypes
    <2>. QED BY <2>1, <1>2, <1>3, <1>4, RestKept DEF HistoryInv, Covered, Raising, Elsewhere
  <1>5. CASE /\ row[o] = History!NoRow
             /\ row' = [row EXCEPT ![o] = History!restored_bond_row(restore)]
             /\ tomb' = [tomb EXCEPT ![o] = 0]
    <2>1. PICK r \in restore.listed : r.oid = o /\ r.status = "WaitingTakerBond"
      BY <1>0 DEF HistoryInv, Guarding
    <2>2. \A x \in restore.listed : x.oid = o => x = r BY <2>1 DEF HistoryInv, ListedOnce
    <2>3. History!restored_bond_row(restore) = [status |-> "WaitingTakerBond", idx |-> r.idx]
      <3>1. (CHOOSE x \in restore.listed : x.oid = o) = r BY <2>1, <2>2
      <3>. QED BY <3>1 DEF History!restored_bond_row, History!Bonded
    <2>4. o \in Orders /\ r.idx \in History!Index BY <2>1, <1>0 DEF Restores, History!Listed
    <2>5. r.idx = trade[o].idx /\ r.idx > 0
      BY <2>1, <1>5, HistoryIs DEF HistoryInv, RowIsLast, Covered
    <2>. DEFINE v == [status |-> "WaitingTakerBond", idx |-> r.idx]
    <2>6. v \in Rows /\ v.status = "WaitingTakerBond" /\ v.idx = r.idx
      BY <2>4 DEF Rows, History!Live, History!Bonded
    <2>7. row' = [row EXCEPT ![o] = v] BY <1>5, <2>3
    <2>. HIDE DEF v
    <2>8. row'[o] = v /\ \A x \in Orders \ {o} : row'[x] = row[x] BY <2>7, <2>4, <1>0
    <2>9. tomb' \in [Orders -> History!Index] /\ \A x \in Orders \ {o} : tomb'[x] = tomb[x]
      BY <1>5, <2>4, HistoryIs DEF HistoryInv, HistoryTypes
    <2>10. \A e \in settled : e[1] # o BY <2>1 DEF HistoryInv, BondsUntouched, Untouched
    <2>11. HistoryTypes' BY <1>2, <2>6, <2>7, <2>9 DEF HistoryInv, HistoryTypes
    <2>12. Covered' BY <1>2 DEF HistoryInv, Covered
    <2>13. ListedAll' BY <1>2 DEF HistoryInv, ListedAll, Raising
    <2>14. RowIsLast'
      <3>1. \A x \in restore.listed : x.oid \in Orders BY <1>0 DEF Restores, History!Listed
      <3>. QED BY <3>1, <1>2, <2>5, <2>6, <2>8 DEF HistoryInv, RowIsLast
    <2>15. DueTrue' BY DEF HistoryInv, DueTrue, Due
    <2>16. BondsUntouched'
      <3>1. \A x : Untouched(x)' <=> Untouched(x) BY DEF Untouched, Due
      <3>. QED BY <3>1, <1>2 DEF HistoryInv, BondsUntouched
    <2>17. \A e \in settled : e[1] \in Orders \ {o} BY <2>10 DEF HistoryInv, HistoryTypes
    <2>18. WipedCovered' /\ History!WipedNotRebuilt'
      BY <2>8, <2>9, <2>17 DEF HistoryInv, WipedCovered, History!WipedNotRebuilt
    <2>19. ListedOnce' BY <1>2 DEF HistoryInv, ListedOnce
    <2>20. History!LiveRowKept' BY DEF HistoryInv, History!LiveRowKept
    <2>. QED BY <1>3, <2>11, <2>12, <2>13, <2>14, <2>15, <2>16, <2>18, <2>19, <2>20 DEF HistoryInv
  <1>. QED BY <1>4, <1>5 DEF History!persist_bond_row

(* A message of a covered key builds the row of the order's last trade.     *)
LEMMA MessageKeeps == ASSUME HistoryInv, NEW o \in Orders, History!daemon_message(o) PROVE HistoryInv'
  <1>. UNCHANGED <<trade, daemon, counter, snap, restore, pass, restores, faults, raced, lost, settled>>
    BY DEF History!daemon_message, History!remote, History!history
  <1>1. PICK status \in {"Active", "Success"} :
          /\ row' = [row EXCEPT ![o] = [status |-> status, idx |-> trade[o].idx]]
          /\ tomb' = [tomb EXCEPT ![o] = 0]
    BY DEF History!daemon_message
  <1>2. /\ trade[o].idx \in 1 .. counter /\ (tomb[o] = 0 \/ trade[o].idx > tomb[o])
        /\ trade[o] \in Trades /\ tomb[o] \in Nat /\ row \in [Orders -> Rows]
    <2>1. trade \in [Orders -> Trades] /\ tomb \in [Orders -> History!Index] /\ row \in [Orders -> Rows]
      BY DEF HistoryInv, HistoryTypes
    <2>2. trade[o] \in Trades /\ tomb[o] \in Nat BY <2>1, HistoryIs
    <2>3. trade[o].idx \in Nat BY <2>2, HistoryIs DEF Trades
    <2>4. trade[o].idx \in 1 .. counter /\ ~History!tombstone_covers(o, trade[o].idx)
      BY DEF History!daemon_message
    <2>. QED BY <2>1, <2>2, <2>3, <2>4 DEF History!tombstone_covers
  <1>. DEFINE v == [status |-> status, idx |-> trade[o].idx]
  <1>3. v \in Rows /\ v.status = status /\ v.idx = trade[o].idx
    BY <1>2 DEF Rows, Trades, History!Live
  <1>4. row' = [row EXCEPT ![o] = v] BY <1>1
  <1>. HIDE DEF v
  <1>5. row'[o] = v /\ \A x \in Orders \ {o} : row'[x] = row[x] BY <1>2, <1>4
  <1>6. tomb' \in [Orders -> History!Index] /\ \A x \in Orders \ {o} : tomb'[x] = tomb[x]
    BY <1>1, HistoryIs DEF HistoryInv, HistoryTypes
  <1>7. HistoryTypes' BY <1>3, <1>4, <1>6 DEF HistoryInv, HistoryTypes
  <1>8. Covered' /\ Answered' /\ ListedAll' /\ Guarding' /\ ListedOnce' /\ DueTrue' /\ BondsUntouched'
    <2>1. \A x : Untouched(x)' <=> Untouched(x) BY DEF Untouched, Due
    <2>. QED BY <2>1 DEF HistoryInv, Covered, Answered, ListedAll, Guarding, ListedOnce, DueTrue, Due,
                         BondsUntouched, Raising
  <1>9. RowIsLast'
    <2>1. \A r \in restore.listed : r.oid \in Orders
      BY DEF HistoryInv, HistoryTypes, Restores, History!Listed
    <2>. QED BY <2>1, <1>2, <1>3, <1>5 DEF HistoryInv, RowIsLast
  <1>10. ASSUME NEW e \in settled, e[1] = o PROVE e[2] < trade[o].idx
    <2>1. e[2] \in Nat /\ e[2] > 0 /\ (e[2] <= tomb[o] \/ e[2] < trade[o].idx)
      BY <1>10, HistoryIs DEF HistoryInv, HistoryTypes, WipedCovered
    <2>. QED BY <2>1, <1>2
  <1>11. \A e \in settled : e[1] \in Orders BY DEF HistoryInv, HistoryTypes
  <1>12. WipedCovered' BY <1>6, <1>10, <1>11 DEF HistoryInv, WipedCovered
  <1>13. History!WipedNotRebuilt'
    <2>1. ASSUME NEW e \in settled, e[1] = o PROVE row'[o].idx # e[2]
      BY <2>1, <1>2, <1>3, <1>5, <1>10, HistoryIs DEF HistoryInv, HistoryTypes
    <2>. QED BY <2>1, <1>5, <1>11 DEF HistoryInv, History!WipedNotRebuilt
  <1>14. History!LiveRowKept' BY DEF HistoryInv, History!LiveRowKept
  <1>. QED BY <1>7, <1>8, <1>9, <1>12, <1>13, <1>14 DEF HistoryInv

LEMMA DueIs == ASSUME HistoryInv PROVE \A e \in Due \cup settled : e[1] \in Orders /\ e[2] \in Nat
  <1>1. \A e \in settled : e[1] \in Orders /\ e[2] \in Nat BY HistoryIs DEF HistoryInv, HistoryTypes
  <1>2. pass.todo \subseteq Orders \X History!Index /\ pass.idx \in Nat
    BY HistoryIs DEF HistoryInv, HistoryTypes, Passes
  <1>3. ASSUME NEW e \in Due PROVE e[1] \in Orders /\ e[2] \in Nat
    <2>1. e[1] \in Orders BY DEF HistoryInv, DueTrue
    <2>2. CASE e \in pass.todo BY <2>1, <2>2, <1>2, HistoryIs
    <2>3. CASE e = <<pass.oid, pass.idx>> BY <2>1, <2>3, <1>2
    <2>. QED BY <2>2, <2>3 DEF Due
  <1>. QED BY <1>1, <1>3

(* A take is of a key above every other: of none listed, due or settled.    *)
LEMMA TakeKeeps == ASSUME HistoryInv, NEW o \in Orders, History!take_order(o) PROVE HistoryInv'
  <1>. UNCHANGED <<snap, restore, pass, restores, faults, lost, settled>>
    BY DEF History!take_order
  <1>0. /\ counter' = counter + 1 /\ counter' \in History!Index /\ counter \in Nat /\ daemon \in Nat
        /\ trade \in [Orders -> Trades] /\ row \in [Orders -> Rows]
    BY HistoryAssumption DEF HistoryInv, HistoryTypes, History!take_order, History!Index
  <1>. DEFINE c == counter + 1
              t == [status |-> "Active", idx |-> c]
  <1>1. CASE c <= daemon
    <2>1. UNCHANGED <<trade, daemon, row, tomb, raced>>
      BY <1>0, <1>1 DEF History!take_order, History!remote
    <2>2. HistoryTypes' BY <2>1, <1>0 DEF HistoryInv, HistoryTypes
    <2>3. Answered' BY <2>1, <1>0 DEF HistoryInv, Answered
    <2>4. Guarding' BY DEF HistoryInv, Guarding
    <2>. QED BY <2>1, <2>2, <2>3, <2>4, RestKept DEF HistoryInv, Covered, Raising, Elsewhere
  <1>2. CASE c > daemon
    <2>1. /\ daemon' = c /\ trade' = [trade EXCEPT ![o] = t] /\ row' = [row EXCEPT ![o] = t]
          /\ tomb' = [tomb EXCEPT ![o] = 0]
          /\ raced' = IF Raising \/ pass.oid = o \/ \E e \in pass.todo : e[1] = o
                      THEN raced \cup {o} ELSE raced
      BY <1>2 DEF History!take_order, Raising
    <2>2. t \in Trades /\ t \in Rows /\ t.status = "Active" /\ t.idx = c
      BY <1>0 DEF Trades, Rows, History!Live
    <2>3. c \in Nat /\ c > 0 BY <1>0
    <2>. HIDE DEF t, c
    <2>4. /\ trade'[o] = t /\ row'[o] = t
          /\ \A x \in Orders \ {o} : trade'[x] = trade[x] /\ row'[x] = row[x]
      BY <2>1, <1>0
    <2>5. tomb' \in [Orders -> History!Index] /\ \A x \in Orders \ {o} : tomb'[x] = tomb[x]
      BY <2>1, HistoryIs DEF HistoryInv, HistoryTypes
    <2>6. /\ \A x \in Orders : trade[x].idx \in Nat /\ trade[x].idx <= daemon
          /\ snap.floor \in Nat /\ restore.floor \in Nat
          /\ \A r \in restore.listed : r.idx \in Nat /\ r.oid \in Orders
          /\ \A e \in Due \cup settled : e[1] \in Orders /\ e[2] \in Nat
      <3>1. \A e \in Due \cup settled : e[1] \in Orders /\ e[2] \in Nat BY DueIs
      <3>2. \A x \in Orders : trade[x].idx \in Nat /\ trade[x].idx <= daemon
        BY HistoryIs DEF HistoryInv, HistoryTypes, Covered, Trades
      <3>. QED BY <3>1, <3>2, HistoryIs DEF HistoryInv, HistoryTypes, Restores, History!Listed
    <2>. USE DEF HistoryInv
    <2>7. raced \subseteq raced' /\ raced' \subseteq Orders /\ (Raising => o \in raced')
          /\ \A e \in Due : e[1] = o => o \in raced'
      BY <2>1 DEF HistoryTypes, Due
    <2>8. HistoryTypes'
      <3>1. trade' \in [Orders -> Trades] /\ row' \in [Orders -> Rows] BY <2>1, <2>2, <1>0
      <3>. QED BY <3>1, <2>1, <2>5, <2>7, <1>0 DEF HistoryTypes, c
    <2>9. Covered'
      <3>1. \A x \in Orders : trade'[x].idx <= daemon'
        BY <2>1, <2>2, <2>3, <2>4, <2>6, <1>0, <1>2
      <3>2. \A x \in Orders : trade'[x].idx = 0 => trade'[x].status = "Canceled"
        BY <2>2, <2>3, <2>4 DEF Covered
      <3>3. \A r \in restore.listed : r.idx <= daemon' /\ r.idx > 0
        BY <2>1, <2>3, <2>6, <1>0, <1>2 DEF Covered
      <3>4. snap.floor <= daemon' /\ restore.floor <= daemon'
        BY <2>1, <2>3, <2>6, <1>0, <1>2 DEF Covered
      <3>. QED BY <3>1, <3>2, <3>3, <3>4 DEF Covered
    <2>10. Answered' BY <2>1, <1>0, <2>3 DEF Answered, c
    <2>11. ListedAll'
      <3>1. ~(trade'[o].idx <= snap.floor) BY <2>2, <2>3, <2>4, <2>6, <1>0, <1>2 DEF Covered
      <3>2. trade'[o].status = "Active" BY <2>2, <2>4
      <3>. QED BY <3>1, <3>2, <2>4, <2>7 DEF ListedAll, Raising
    <2>12. RowIsLast' BY <2>2, <2>3, <2>4, <2>6 DEF RowIsLast
    <2>13. ASSUME NEW e \in Due \cup settled, e[2] <= trade[e[1]].idx
           PROVE  e[2] <= trade'[e[1]].idx /\ (e[1] = o => e[2] < c)
      <3>1. CASE e[1] = o
        BY <3>1, <2>13, <2>2, <2>3, <2>4, <2>6, <1>0, <1>2
      <3>. QED BY <3>1, <2>13, <2>4, <2>6
    <2>14. DueTrue'
      <3>1. Due' = Due BY DEF Due
      <3>. QED BY <3>1, <2>4, <2>7, <2>13 DEF DueTrue
    <2>15. BondsUntouched'
      <3>1. \A x : Untouched(x)' <=> Untouched(x) BY DEF Untouched, Due
      <3>. QED BY <3>1, <2>2, <2>4 DEF BondsUntouched
    <2>16. WipedCovered' BY <2>2, <2>4, <2>5, <2>6, <2>13 DEF WipedCovered
    <2>17. History!WipedNotRebuilt'
      <3>1. \A e \in settled : e[1] = o => row'[e[1]].idx # e[2]
        BY <2>2, <2>3, <2>4, <2>6, <2>13 DEF WipedCovered
      <3>. QED BY <3>1, <2>4, <2>6 DEF History!WipedNotRebuilt
    <2>. QED BY <2>8, <2>9, <2>10, <2>11, <2>12, <2>14, <2>15, <2>16, <2>17
             DEF Guarding, ListedOnce, History!LiveRowKept
  <1>. QED BY <1>0, <1>1, <1>2

(* An order that moves on was in progress: due only if taken since.         *)
LEMMA MovesKeeps == ASSUME HistoryInv, NEW o \in Orders, History!DaemonMoves(o) PROVE HistoryInv'
  <1>. UNCHANGED <<daemon, counter, row, tomb, snap, restore, pass, restores, faults, raced, lost, settled>>
    BY DEF History!DaemonMoves, History!history
  <1>. USE DEF HistoryInv
  <1>1. PICK status \in {"Active", "Success", "Canceled"} : trade' = [trade EXCEPT ![o].status = status]
    BY DEF History!DaemonMoves
  <1>2. trade[o].status \in History!Live /\ trade \in [Orders -> Trades]
    BY DEF History!DaemonMoves, HistoryTypes
  <1>3. /\ trade' \in [Orders -> Trades] /\ trade'[o].status = status /\ trade'[o].idx = trade[o].idx
        /\ \A x \in Orders \ {o} : trade'[x] = trade[x]
    BY <1>1, <1>2 DEF Trades, Finished, History!Live
  <1>4. \A x \in Orders : /\ trade'[x].idx = trade[x].idx
                          /\ trade'[x].status \in History!Live => trade[x].status \in History!Live
                          /\ trade'[x].status = "WaitingTakerBond" => trade[x].status = "WaitingTakerBond"
    BY <1>2, <1>3
  <1>5. HistoryTypes' BY <1>3 DEF HistoryTypes
  <1>6. Covered' BY <1>2, <1>3 DEF Covered, History!Live, History!Bonded
  <1>7. Answered' BY DEF Answered
  <1>8. ListedAll' BY <1>4 DEF ListedAll, Raising
  <1>9. RowIsLast'
    <2>1. \A r \in restore.listed : r.oid \in Orders BY DEF HistoryTypes, Restores, History!Listed
    <2>. QED BY <1>4, <2>1 DEF RowIsLast
  <1>10. DueTrue'
    <2>1. Due' = Due BY DEF Due
    <2>. QED BY <2>1, <1>4 DEF DueTrue
  <1>11. BondsUntouched'
    <2>1. \A x : Untouched(x)' <=> Untouched(x) BY DEF Untouched, Due
    <2>. QED BY <2>1, <1>4 DEF BondsUntouched
  <1>12. \A e \in settled : e[1] \in Orders BY DueIs
  <1>13. WipedCovered' BY <1>4, <1>12 DEF WipedCovered
  <1>. QED BY <1>5, <1>6, <1>7, <1>8, <1>9, <1>10, <1>11, <1>13
           DEF Guarding, ListedOnce, History!LiveRowKept, History!WipedNotRebuilt

-----------------------------------------------------------------------------
(* A step of the pass that writes no row.                                   *)
Unpassed == <<trade, daemon, counter, row, tomb, snap, restore, raced, lost, settled>>

LEMMA PassKept ==
    ASSUME HistoryInv, UNCHANGED Unpassed, pass' \in Passes, restores' \in 0 .. MaxRestores,
           faults' \in 0 .. MaxFaults, DueTrue',
           \A e \in Due' : e \in Due \/ (snap # History!NoSnapshot /\ e[1] \notin snap.live)
    PROVE  HistoryInv'
  <1>. USE DEF HistoryInv, Unpassed
  <1>1. HistoryTypes' BY DEF HistoryTypes
  <1>2. BondsUntouched'
    <2>1. ASSUME NEW o \in Orders, Untouched(o) PROVE Untouched(o)' BY <2>1 DEF Untouched
    <2>2. \A r \in restore.listed : r.oid \in Orders BY DEF HistoryTypes, Restores, History!Listed
    <2>. QED BY <2>1, <2>2 DEF BondsUntouched
  <1>. QED BY <1>1, <1>2 DEF Covered, Answered, ListedAll, Raising, RowIsLast, WipedCovered, Guarding,
              ListedOnce, History!LiveRowKept, History!WipedNotRebuilt

(* Every row a pass lists is below a snapshot that leaves its order out.    *)
LEMMA ListKeeps == ASSUME HistoryInv, History!list_trades PROVE HistoryInv'
  <1>. UNCHANGED Unpassed /\ UNCHANGED <<restores, faults>> /\ snap # History!NoSnapshot
    BY DEF History!list_trades, Unpassed, History!remote, History!history
  <1>. USE DEF HistoryInv
  <1>1. /\ pass = History!NoPass
        /\ pass' = [pass EXCEPT !.pc = "listed",
                      !.todo = {<<o, row[o].idx>> : o \in {x \in Orders :
                         History!reads_in_progress(row[x].status) /\ History!is_history(x, row[x].idx)}}]
    BY DEF History!list_trades
  <1>2. row \in [Orders -> Rows] /\ trade \in [Orders -> Trades] BY DEF HistoryTypes
  <1>3. /\ pass' \in Passes /\ pass'.pc = "listed"
        /\ \A e \in pass'.todo : /\ e[1] \in Orders /\ row[e[1]].status \in History!Live
                                 /\ e[2] = row[e[1]].idx /\ e[2] <= snap.floor /\ e[1] \notin snap.live
    <2>. DEFINE T == {<<o, row[o].idx>> : o \in {x \in Orders :
                         History!reads_in_progress(row[x].status) /\ History!is_history(x, row[x].idx)}}
    <2>1. ASSUME NEW e \in T
          PROVE  /\ e \in Orders \X History!Index
                 /\ e[1] \in Orders /\ row[e[1]].status \in History!Live
                 /\ e[2] = row[e[1]].idx /\ e[2] <= snap.floor /\ e[1] \notin snap.live
      <3>1. PICK o \in Orders : /\ e = <<o, row[o].idx>> /\ History!reads_in_progress(row[o].status)
                                /\ History!is_history(o, row[o].idx)
        OBVIOUS
      <3>2. row[o].idx \in History!Index BY <1>2 DEF Rows
      <3>. QED BY <3>1, <3>2 DEF History!reads_in_progress, History!is_history
    <2>. HIDE DEF T
    <2>2. pass' = [History!NoPass EXCEPT !.pc = "listed", !.todo = T] BY <1>1 DEF T
    <2>3. pass'.pc = "listed" /\ pass'.todo = T BY <2>2 DEF History!NoPass
    <2>4. pass' \in Passes BY <2>1, <2>2, HistoryIs DEF Passes
    <2>. QED BY <2>1, <2>3, <2>4
  <1>4. Due' = pass'.todo BY <1>3 DEF Due
  <1>5. ASSUME NEW e \in pass'.todo
        PROVE  /\ e[2] = trade[e[1]].idx /\ e[2] > 0 /\ e[1] \in Orders /\ e[2] \in Nat
               /\ e[1] \notin raced => trade[e[1]].status \notin History!Live
    <2>1. row[e[1]].status # "None" BY <1>3 DEF History!Live, History!Bonded
    <2>2. e[2] = trade[e[1]].idx /\ e[2] > 0 BY <2>1, <1>3 DEF RowIsLast
    <2>3. trade[e[1]].idx \in Nat BY <1>2, <1>3, HistoryIs DEF Trades
    <2>. QED BY <2>2, <2>3, <1>3 DEF ListedAll
  <1>6. DueTrue'
    <2>1. \A e \in pass'.todo : \A d \in pass'.todo \cup settled : d[1] = e[1] => d[2] <= e[2]
      <3>. SUFFICES ASSUME NEW e \in pass'.todo, NEW d \in pass'.todo \cup settled, d[1] = e[1]
                    PROVE  d[2] <= e[2]
        OBVIOUS
      <3>1. d[2] <= trade[d[1]].idx
        <4>1. CASE d \in pass'.todo BY <4>1, <1>5
        <4>2. CASE d \in settled BY <4>2 DEF WipedCovered
        <4>. QED BY <4>1, <4>2
      <3>. QED BY <3>1, <1>5
    <2>2. ASSUME NEW e \in pass'.todo PROVE e[2] <= trade[e[1]].idx
      <3>1. e[2] = trade[e[1]].idx /\ e[2] \in Nat BY <1>5
      <3>. QED BY <3>1
    <2>. QED BY <1>4, <1>5, <2>1, <2>2 DEF DueTrue, Unpassed
  <1>7. \A e \in Due' : snap # History!NoSnapshot /\ e[1] \notin snap.live BY <1>3, <1>4
  <1>8. restores' \in 0 .. MaxRestores /\ faults' \in 0 .. MaxFaults BY DEF HistoryTypes
  <1>. QED BY <1>3, <1>6, <1>7, <1>8, PassKept

LEMMA AskKeeps == ASSUME HistoryInv, History!public_status \/ History!pass_done PROVE HistoryInv'
  <1>. UNCHANGED Unpassed /\ restores' = restores
    BY DEF History!public_status, History!pass_done, Unpassed, History!remote, History!history
  <1>. USE DEF HistoryInv
  <1>0. pass \in Passes /\ faults \in 0 .. MaxFaults /\ restores' \in 0 .. MaxRestores BY DEF HistoryTypes
  <1>1. CASE History!public_status
    <2>1. PICK e \in pass.todo : \E answer \in {trade[e[1]].status, "none"} :
             /\ faults' = faults \/ (faults < MaxFaults /\ faults' = faults + 1)
             /\ pass' = [pc |-> "settle", todo |-> pass.todo \ {e}, oid |-> e[1],
                         idx |-> e[2], action |-> History!history_action(answer)]
      BY <1>1 DEF History!public_status
    <2>2. PICK answer \in {trade[e[1]].status, "none"} :
             /\ faults' = faults \/ (faults < MaxFaults /\ faults' = faults + 1)
             /\ pass' = [pc |-> "settle", todo |-> pass.todo \ {e}, oid |-> e[1],
                         idx |-> e[2], action |-> History!history_action(answer)]
      BY <2>1
    <2>3. pass.pc = "listed" BY <1>1 DEF History!public_status
    <2>4. e \in Orders \X History!Index BY <1>0 DEF Passes
    <2>5. History!history_action(answer) \in {"MarkSuccess", "Wipe", "Retry"} BY DEF History!history_action
    <2>6. pass' \in Passes /\ pass'.pc = "settle" /\ pass'.todo = pass.todo \ {e} /\ pass'.oid = e[1] /\ pass'.idx = e[2]
      BY <2>2, <2>4, <2>5, <1>0 DEF Passes
    <2>7. Due' = Due
      <3>1. e = <<e[1], e[2]>> BY <2>4
      <3>2. Due = pass.todo BY <2>3 DEF Due
      <3>3. Due' = (pass.todo \ {e}) \cup {<<e[1], e[2]>>} BY <2>6 DEF Due
      <3>. QED BY <3>1, <3>2, <3>3
    <2>8. DueTrue' BY <2>7 DEF DueTrue, Unpassed
    <2>9. faults' \in 0 .. MaxFaults BY <2>2, <1>0, HistoryAssumption
    <2>. QED BY <2>6, <2>7, <2>8, <2>9, <1>0, PassKept
  <1>2. CASE History!pass_done
    <2>1. pass' = History!NoPass /\ faults' = faults BY <1>2 DEF History!pass_done
    <2>2. Due' = {} BY <2>1, HistoryIs DEF Due
    <2>3. DueTrue' BY <2>2 DEF DueTrue
    <2>. QED BY <2>1, <2>2, <2>3, <1>0, HistoryIs, PassKept
  <1>. QED BY <1>1, <1>2

LEMMA CrashKeeps == ASSUME HistoryInv, History!Crash PROVE HistoryInv'
  <1>. UNCHANGED <<trade, daemon, counter, row, tomb, snap, restores, raced, lost, settled>>
    BY DEF History!Crash, History!remote, History!history
  <1>. USE DEF HistoryInv
  <1>1. restore' = History!NoRestore /\ pass' = History!NoPass /\ faults < MaxFaults /\ faults' = faults + 1
    BY DEF History!Crash
  <1>2. faults' \in 0 .. MaxFaults BY <1>1, HistoryAssumption DEF HistoryTypes
  <1>3. Due' = {} BY <1>1, HistoryIs DEF Due
  <1>4. HistoryTypes' BY <1>1, <1>2, HistoryIs DEF HistoryTypes
  <1>5. Covered'
    <2>1. 0 <= daemon BY HistoryIs DEF HistoryTypes
    <2>. QED BY <2>1, <1>1, HistoryIs DEF Covered
  <1>6. ListedAll' /\ RowIsLast' /\ Answered' /\ Guarding' /\ ListedOnce'
    BY <1>1, HistoryIs DEF ListedAll, Raising, RowIsLast, Answered, Guarding, ListedOnce
  <1>7. DueTrue' BY <1>3 DEF DueTrue
  <1>8. BondsUntouched'
    <2>1. \A x : Untouched(x) => Untouched(x)' BY <1>3 DEF Untouched
    <2>. QED BY <2>1, <1>1, HistoryIs DEF BondsUntouched
  <1>. QED BY <1>4, <1>5, <1>6, <1>7, <1>8
           DEF WipedCovered, History!LiveRowKept, History!WipedNotRebuilt

(* What a pass settles is due: no trade in progress but one taken since, no *)
(* order the restore lists as waiting for its bond, no key above another    *)
(* settled one.                                                             *)
LEMMA SettleKeeps == ASSUME HistoryInv, History!settle PROVE HistoryInv'
  <1>. UNCHANGED <<trade, daemon, counter, snap, restore, restores, faults, raced>>
    BY DEF History!settle, History!remote
  <1>. USE DEF HistoryInv
  <1>. DEFINE o == pass.oid
              i == pass.idx
  <1>0. /\ pass \in Passes /\ row \in [Orders -> Rows] /\ tomb \in [Orders -> History!Index]
        /\ settled \subseteq Orders \X History!Index /\ lost \subseteq Orders
    BY DEF HistoryTypes
  <1>1. /\ pass.pc = "settle"
        /\ pass' = [pass EXCEPT !.pc = "listed", !.oid = "none", !.idx = 0, !.action = "Retry"]
        /\ \/ /\ pass.action = "MarkSuccess" /\ UNCHANGED <<tomb, settled>>
              /\ row' = IF row[o] = History!NoRow THEN row ELSE [row EXCEPT ![o].status = "Success"]
           \/ /\ pass.action = "Wipe" /\ row' = [row EXCEPT ![o] = History!NoRow]
              /\ tomb' = [tomb EXCEPT ![o] = i] /\ settled' = settled \cup {<<o, i>>}
           \/ UNCHANGED <<row, tomb, settled>>
        /\ lost' = IF /\ row[o] # History!NoRow /\ trade[o].status \in History!Live
                      /\ row[o].idx = trade[o].idx /\ pass.action # "Retry" /\ o \notin raced
                   THEN lost \cup {o} ELSE lost
    BY DEF History!settle
  <1>2. <<o, i>> \in Due /\ pass.todo \subseteq Due BY <1>1 DEF Due
  <1>3. /\ o \in Orders /\ i > 0 /\ i <= trade[o].idx /\ i \in Nat
        /\ o \notin raced => trade[o].status \notin History!Live
        /\ \A d \in Due \cup settled : d[1] = o => d[2] <= i
    <2>1. <<o, i>>[1] = o /\ <<o, i>>[2] = i OBVIOUS
    <2>. HIDE DEF o, i
    <2>. QED BY <2>1, <1>2, DueIs DEF DueTrue
  <1>4. lost' = lost BY <1>1, <1>3
  <1>5. pass' \in Passes /\ pass'.pc = "listed" /\ pass'.todo = pass.todo
    BY <1>0, <1>1, HistoryIs DEF Passes
  <1>6. Due' \subseteq Due /\ settled' \subseteq settled \cup {<<o, i>>}
    <2>1. Due' = pass.todo BY <1>5 DEF Due
    <2>. QED BY <2>1, <1>1, <1>2
  <1>7. i \in History!Index BY <1>0 DEF Passes
  <1>8. /\ \A x \in Orders \ {o} : row'[x] = row[x] /\ tomb'[x] = tomb[x]
        /\ row' \in [Orders -> Rows] /\ tomb' \in [Orders -> History!Index]
        /\ \/ row'[o] = row[o] /\ tomb'[o] = tomb[o] /\ settled' = settled
           \/ /\ row[o] # History!NoRow /\ row'[o].status = "Success" /\ row'[o].idx = row[o].idx
              /\ tomb'[o] = tomb[o] /\ settled' = settled
           \/ row'[o] = History!NoRow /\ tomb'[o] = i
    <2>1. CASE UNCHANGED <<row, tomb, settled>> BY <2>1, <1>0
    <2>2. CASE row[o] # History!NoRow /\ row' = [row EXCEPT ![o].status = "Success"] /\ UNCHANGED <<tomb, settled>>
      <3>1. row[o] \in Rows BY <1>0, <1>3
      <3>2. [row[o] EXCEPT !.status = "Success"] \in Rows BY <3>1 DEF Rows
      <3>. QED BY <3>1, <3>2, <2>2, <1>0, <1>3 DEF Rows
    <2>3. CASE row' = [row EXCEPT ![o] = History!NoRow] /\ tomb' = [tomb EXCEPT ![o] = i]
      BY <2>3, <1>0, <1>3, <1>7, HistoryIs
    <2>. QED BY <2>1, <2>2, <2>3, <1>1
  <1>9. HistoryTypes'
    <2>1. settled' \subseteq Orders \X History!Index BY <1>0, <1>3, <1>6, <1>7
    <2>. QED BY <2>1, <1>4, <1>5, <1>8 DEF HistoryTypes
  <1>10. \A x \in Orders : Untouched(x) => x # o
    BY <1>2 DEF Untouched
  <1>11. RowIsLast'
    <2>1. ASSUME NEW x \in Orders PROVE IF row'[x].status = "None" THEN row'[x].idx = 0
                                        ELSE row'[x].idx = trade[x].idx /\ row'[x].idx > 0
      <3>1. CASE x # o BY <3>1, <1>8 DEF RowIsLast
      <3>2. CASE x = o
        <4>1. row[o].status = "None" => row[o] = History!NoRow
          BY <1>0, <1>3 DEF RowIsLast, Rows, History!NoRow
        <4>. QED BY <4>1, <3>2, <1>3, <1>8, HistoryIs DEF RowIsLast
      <3>. QED BY <3>1, <3>2
    <2>2. ASSUME NEW r \in restore.listed, r.status = "WaitingTakerBond"
          PROVE  r.idx = trade[r.oid].idx \/ row'[r.oid].status # "None"
      <3>1. r.oid \in Orders BY DEF HistoryTypes, Restores, History!Listed
      <3>2. r.oid # o BY <2>2, <3>1, <1>10 DEF BondsUntouched
      <3>. QED BY <2>2, <3>1, <3>2, <1>8 DEF RowIsLast
    <2>. QED BY <2>1, <2>2 DEF RowIsLast
  <1>12. DueTrue'
    <2>. SUFFICES ASSUME NEW e \in Due'
                  PROVE  /\ e[1] \notin raced => trade[e[1]].status \notin History!Live
                         /\ e[1] \in Orders /\ e[2] > 0 /\ e[2] <= trade[e[1]].idx
                         /\ \A d \in Due' \cup settled' : d[1] = e[1] => d[2] <= e[2]
      BY DEF DueTrue
    <2>1. e \in Due /\ Due' \cup settled' \subseteq Due \cup settled BY <1>2, <1>6
    <2>. QED BY <2>1 DEF DueTrue
  <1>13. BondsUntouched'
    <2>1. Due' \cup settled' \subseteq Due \cup settled BY <1>2, <1>6
    <2>2. \A x : Untouched(x) => Untouched(x)' BY <2>1 DEF Untouched
    <2>. QED BY <2>2 DEF BondsUntouched
  <1>14. ASSUME NEW e \in settled'
         PROVE  /\ e[1] \in Orders /\ e[2] \in Nat /\ e[2] > 0 /\ e[2] <= trade[e[1]].idx
                /\ e[2] <= tomb'[e[1]] \/ e[2] < trade[e[1]].idx
                /\ row'[e[1]].status \in History!Live => row'[e[1]].idx # e[2]
    <2>1. e[1] \in Orders /\ e[2] \in Nat BY <1>9, HistoryIs DEF HistoryTypes
    <2>2. CASE e[1] = o /\ row'[o] = History!NoRow /\ tomb'[o] = i
      <3>1. e[2] <= i BY <2>2, <1>3, <1>6
      <3>2. e[2] > 0 /\ e[2] <= trade[o].idx
        <4>1. CASE e \in settled BY <4>1, <2>2 DEF WipedCovered
        <4>2. CASE e = <<o, i>> BY <4>2, <1>3
        <4>. QED BY <4>1, <4>2, <1>6
      <3>. QED BY <3>1, <3>2, <2>1, <2>2, HistoryIs DEF History!Live, History!Bonded
    <2>3. CASE e \in settled /\ tomb'[e[1]] = tomb[e[1]] /\ (row'[e[1]].status \in History!Live => row'[e[1]] = row[e[1]])
      BY <2>1, <2>3 DEF WipedCovered, History!WipedNotRebuilt
    <2>4. CASE e[1] # o
      <3>1. e \in settled BY <2>4, <1>6
      <3>. QED BY <2>1, <2>3, <2>4, <3>1, <1>8
    <2>5. CASE e[1] = o
      <3>1. row'[o].status = "Success" => row'[o].status \notin History!Live BY DEF History!Live, History!Bonded
      <3>. QED BY <2>2, <2>3, <2>5, <3>1, <1>8
    <2>. QED BY <2>4, <2>5
  <1>. QED BY <1>4, <1>9, <1>11, <1>12, <1>13, <1>14
           DEF Covered, Answered, ListedAll, Raising, WipedCovered, Guarding, ListedOnce,
               History!LiveRowKept, History!WipedNotRebuilt

LEMMA HistoryStart == History!Init => HistoryInv
  <1>. SUFFICES ASSUME History!Init PROVE HistoryInv
    OBVIOUS
  <1>1. /\ counter = 0 /\ row = [o \in Orders |-> History!NoRow] /\ tomb = [o \in Orders |-> 0]
        /\ snap = History!NoSnapshot /\ restore = History!NoRestore /\ pass = History!NoPass
        /\ restores = 0 /\ faults = 0 /\ raced = {} /\ lost = {} /\ settled = {}
        /\ trade \in [Orders -> [status : History!Live \cup {"Success", "Canceled"}, idx : 0 .. 2]]
        /\ \A o \in Orders : trade[o].idx = 0 => trade[o].status = "Canceled"
        /\ daemon = History!Max({trade[o].idx : o \in Orders})
    BY DEF History!Init
  <1>2. MaxIndex \in Nat /\ MaxIndex >= 2 /\ 0 .. 2 \subseteq History!Index
    BY HistoryAssumption DEF History!Index
  <1>3. daemon \in 0 .. 2 /\ \A o \in Orders : trade[o].idx <= daemon
    <2>. DEFINE T == {trade[o].idx : o \in Orders}
    <2>1. T \in SUBSET (0 .. 2) /\ T # {} /\ \A o \in Orders : trade[o].idx \in T
      BY <1>1, HistoryAssumption
    <2>2. daemon = History!Max(T) BY <1>1
    <2>3. 2 \in Nat OBVIOUS
    <2>. HIDE DEF T
    <2>4. daemon \in T /\ \A y \in T : daemon >= y BY <2>1, <2>2, <2>3, MaxOf
    <2>5. \A o \in Orders : trade[o].idx \in 0 .. 2 BY <2>1
    <2>. QED BY <2>1, <2>4, <2>5
  <1>4. Due = {} BY <1>1, HistoryIs DEF Due
  <1>5. HistoryTypes
    <2>1. trade \in [Orders -> Trades] BY <1>1, <1>2 DEF Trades, Finished
    <2>2. 0 \in 0 .. MaxRestores /\ 0 \in 0 .. MaxFaults BY HistoryAssumption
    <2>. QED BY <1>1, <1>2, <1>3, <2>1, <2>2, HistoryIs DEF HistoryTypes
  <1>6. Covered BY <1>1, <1>3, HistoryIs DEF Covered
  <1>7. ListedAll
    <2>1. \A o \in Orders : trade[o].idx <= 0 => trade[o].idx = 0 BY <1>1
    <2>. QED BY <1>1, <2>1, HistoryIs DEF ListedAll, Raising, History!Live, History!Bonded
  <1>8. RowIsLast BY <1>1, HistoryIs DEF RowIsLast
  <1>9. BondsUntouched BY <1>1, <1>4, HistoryIs DEF BondsUntouched, Untouched
  <1>. QED BY <1>1, <1>4, <1>5, <1>6, <1>7, <1>8, <1>9, HistoryIs
           DEF HistoryInv, Answered, DueTrue, WipedCovered, Guarding, ListedOnce,
               History!LiveRowKept, History!WipedNotRebuilt

LEMMA HistoryNext == HistoryInv /\ [History!Next]_HistoryVars => HistoryInv'
  <1>. SUFFICES ASSUME HistoryInv, [History!Next]_HistoryVars PROVE HistoryInv'
    OBVIOUS
  <1>1. CASE History!RestoreStep
    BY <1>1, RequestKeeps, RestoredKeeps, ResyncKeeps, RecordKeeps, FetchKeeps, PersistKeeps
       DEF History!RestoreStep
  <1>2. CASE \E o \in Orders : History!daemon_message(o) \/ History!take_order(o) \/ History!DaemonMoves(o)
    BY <1>2, MessageKeeps, TakeKeeps, MovesKeeps
  <1>3. CASE History!PassStep
    BY <1>3, ListKeeps, AskKeeps, SettleKeeps DEF History!PassStep
  <1>4. CASE UNCHANGED HistoryVars
    <2>. UNCHANGED Elsewhere /\ UNCHANGED <<counter, restore, restores, faults>>
      BY <1>4 DEF HistoryVars, Elsewhere
    <2>1. HistoryTypes' /\ Answered' /\ Guarding'
      BY DEF HistoryInv, HistoryTypes, Answered, Guarding, Elsewhere
    <2>. QED BY <2>1, RestKept DEF HistoryInv, Covered, Raising
  <1>. QED BY <1>1, <1>2, <1>3, <1>4, CrashKeeps DEF History!Next

LEMMA HistoryKeeps == MCSpec => []HistoryInv
  <1>1. MCInit => HistoryInv BY HistoryStart DEF MCInit
  <1>2. [MCNext]_MCvars => [History!Next]_HistoryVars BY DEF MCNext, MCvars
  <1>3. HistoryInv /\ [MCNext]_MCvars => HistoryInv' BY <1>2, HistoryNext
  <1>. QED BY <1>1, <1>3, PTL DEF MCSpec

(* Whatever the orders, restores, passes, faults and crashes: a trade the   *)
(* daemon counts as in progress is not settled as history, a row a pass     *)
(* wiped is not rebuilt by the next replay of its messages, and a restore   *)
(* that heard the daemon's counter leaves no key behind it                  *)
(* (restore_history.rs: is_history, wipe_trade_row; restore_session).       *)
THEOREM HistoryIsSound == MCSpec => []HistorySound
  <1>1. HistoryInv => HistorySound
    <2>. SUFFICES ASSUME HistoryInv PROVE HistorySound
      OBVIOUS
    <2>1. History!TypeOK
      <3>1. restore \in Restores /\ pass \in Passes BY DEF HistoryInv, HistoryTypes
      <3>. QED BY <3>1 DEF HistoryInv, HistoryTypes, History!TypeOK, Restores, Passes, Trades, Rows, Finished
    <2>2. History!FloorReached BY DEF HistoryInv, Answered, History!FloorReached
    <2>. QED BY <2>1, <2>2 DEF HistoryInv, HistorySound
  <1>. QED BY <1>1, HistoryKeeps, PTL

(* A row the daemon's messages rebuilt is never put back to waiting for its *)
(* bond by the restore that listed it so: the guard is read under the       *)
(* order's lock (persist_restored_bond_rows).                               *)
THEOREM RebuiltRowsStand == MCSpec => History!BondNotWrittenOver
  <1>. DEFINE Rebuilt == \A o \in Orders : row[o].status \in {"Active", "Success"}
                                             => row'[o].status # History!Bonded
  <1>1. HistoryInv /\ [MCNext]_MCvars => [Rebuilt]_HistoryVars
    <2>. SUFFICES ASSUME HistoryInv, [History!Next]_HistoryVars PROVE [Rebuilt]_HistoryVars
      BY DEF MCNext, MCvars
    <2>0. row \in [Orders -> Rows] BY DEF HistoryInv, HistoryTypes
    <2>1. ASSUME UNCHANGED row PROVE Rebuilt BY <2>1 DEF History!Bonded
    <2>2. CASE History!RestoreStep /\ ~History!persist_bond_row
      BY <2>1, <2>2 DEF History!RestoreStep, History!restore_session, History!Restored, History!last_trade_index,
         History!ensure_trade_key_index_at_least, History!record_restore_snapshot, History!fetch_side,
         History!restore_done
    <2>3. CASE History!persist_bond_row
      <3>1. UNCHANGED row \/ (row[restore.oid] = History!NoRow
              /\ row' = [row EXCEPT ![restore.oid] = History!restored_bond_row(restore)])
        BY <2>3 DEF History!persist_bond_row
      <3>. QED BY <2>0, <2>1, <3>1, HistoryIs DEF History!Bonded
    <2>4. CASE \E o \in Orders : History!daemon_message(o) \/ History!take_order(o) \/ History!DaemonMoves(o)
      <3>1. PICK o \in Orders : History!daemon_message(o) \/ History!take_order(o) \/ History!DaemonMoves(o)
        BY <2>4
      <3>2. UNCHANGED row \/ \E i, status : status # History!Bonded
              /\ row' = [row EXCEPT ![o] = [status |-> status, idx |-> i]]
        BY <3>1 DEF History!daemon_message, History!take_order, History!DaemonMoves, History!Bonded
      <3>. QED BY <2>0, <2>1, <3>2 DEF History!Bonded
    <2>5. CASE History!PassStep /\ ~History!settle
      BY <2>1, <2>5 DEF History!PassStep, History!list_trades, History!public_status, History!pass_done
    <2>6. CASE History!settle
      <3>1. \/ UNCHANGED row \/ row' = [row EXCEPT ![pass.oid].status = "Success"]
            \/ row' = [row EXCEPT ![pass.oid] = History!NoRow]
        BY <2>6 DEF History!settle
      <3>2. \A o \in Orders : row[o] \in Rows BY <2>0
      <3>. QED BY <2>0, <2>1, <3>1, <3>2, HistoryIs DEF History!Bonded, Rows
    <2>7. CASE History!Crash BY <2>1, <2>7 DEF History!Crash
    <2>8. CASE UNCHANGED HistoryVars BY <2>8
    <2>. QED BY <2>2, <2>3, <2>4, <2>5, <2>6, <2>7, <2>8 DEF History!Next
  <1>2. HistoryInv /\ [MCNext]_MCvars => [\A o \in Orders : row[o].status \in {"Active", "Success"}
                                             => row'[o].status # History!Bonded]_(History!vars)
    BY <1>1 DEF HistoryVars, History!vars
  <1>. QED BY <1>2, HistoryKeeps, PTL DEF MCSpec, History!BondNotWrittenOver
=============================================================================
