------------------------------ MODULE TradeIndex ------------------------------
(* The trade-key counter (src/rust/src/api/identity.rs) and the recovery of a  *)
(* counter the daemon is ahead of (src/rust/src/mostro/trade_index.rs and the  *)
(* restore of src/rust/src/api/orders.rs).  The counter lives three times: in  *)
(* the identity lock, in the database, and in Flutter's secure storage, which  *)
(* follows a best-effort channel.  A caller derives an index, sends it, and is *)
(* refused when the daemon has seen that index or a higher one; it then asks   *)
(* for the daemon's counter, raises its own to it, and tries once more.  The   *)
(* same seed may be in use on another device.                                  *)
EXTENDS Naturals, FiniteSets, FiniteSetsExt

CONSTANTS Callers,        \* concurrent create_order / take_order calls
          MaxIndex,       \* bound on the indexes that are derived
          MaxFailures,    \* bound on the database operations that fail
          MaxRestarts,    \* bound on the restarts
          MaxElsewhere    \* bound on the visits of another device

VARIABLES mem, db, mirror, announced,   \* the three copies; a published value on its way
          call,                         \* each caller's progress
          daemon,                       \* the daemon's last_trade_index of this account
          failures, restarts, elsewhere,
          used,                         \* history: indexes handed out on this device
          promised,                     \* history: the highest floor a resync reported done
          reused, keptAhead, readFailed, retryRefused    \* history

vars == <<mem, db, mirror, announced, call, daemon, failures, restarts, elsewhere,
          used, promised, reused, keptAhead, readFailed, retryRefused>>

Unloaded == 0       \* mem while no identity is loaded: the counter of a loaded one is never 0 here
Idle == [step |-> "idle", index |-> 0, retried |-> FALSE, answer |-> 0, floor |-> 0]

(* ---- State ------------------------------------------------------------------ *)

Index == 0 .. MaxIndex

Call == [step : {"idle", "derive", "send", "ask", "asked", "raise"},
         index : Index, retried : BOOLEAN, answer : Index, floor : Index]

TypeOK ==
  /\ mem \in Index /\ db \in Index /\ mirror \in Index /\ announced \in Index
  /\ daemon \in Index
  /\ call \in [Callers -> Call]
  /\ failures \in 0 .. MaxFailures /\ restarts \in 0 .. MaxRestarts
  /\ elsewhere \in 0 .. MaxElsewhere
  /\ used \subseteq Index /\ promised \in Index
  /\ reused \in BOOLEAN /\ keptAhead \in BOOLEAN
  /\ readFailed \in BOOLEAN /\ retryRefused \in BOOLEAN
  \* Flutter is told of an index only once the database holds it.
  /\ readFailed \/ (mirror <= db /\ announced <= db)
  \* A retry is the last attempt of its call.
  /\ \A c \in Callers : call[c].step \in {"ask", "asked", "raise"} => ~call[c].retried

\* An identity that has traded once.
Init ==
  /\ mem = 1 /\ db = 1 /\ mirror = 1 /\ announced = 0
  /\ daemon = 1
  /\ call = [c \in Callers |-> Idle]
  /\ failures = 0 /\ restarts = 0 /\ elsewhere = 0
  /\ used = {1} /\ promised = 0
  /\ reused = FALSE /\ keptAhead = FALSE /\ readFailed = FALSE /\ retryRefused = FALSE

(* ---- Deriving: identity.rs -------------------------------------------------- *)

\* derive_trade_key_with writes the increment; `publish_index` follows the write.
derived(c, next) ==
  /\ mem' = mem + 1 /\ db' = mem + 1 /\ announced' = mem + 1
  /\ call' = [call EXCEPT ![c].step = next, ![c].index = mem + 1]
  /\ reused' = (reused \/ mem + 1 \in used)
  /\ used' = used \union {mem + 1}
  /\ UNCHANGED <<mirror, daemon, failures, restarts, elsewhere, promised, keptAhead,
                 readFailed, retryRefused>>

derive_fails_unnoticed(c) ==
  /\ failures < MaxFailures
  /\ mem' = mem + 1
  /\ failures' = failures + 1
  /\ call' = [call EXCEPT ![c].step = IF @ = "ask" THEN "asked" ELSE "send",
                          ![c].index = mem + 1]
  /\ reused' = (reused \/ mem + 1 \in used)
  /\ used' = used \union {mem + 1}
  /\ announced' = mem + 1
  /\ UNCHANGED <<db, mirror, daemon, restarts, elsewhere, promised, keptAhead,
                 readFailed, retryRefused>>

\* The write fails: no key is handed out, and the memory keeps the increment.
derive_fails(c) ==
  /\ failures < MaxFailures
  /\ mem' = mem + 1 /\ keptAhead' = TRUE
  /\ failures' = failures + 1
  /\ call' = [call EXCEPT ![c] = Idle]
  /\ UNCHANGED <<db, mirror, announced, daemon, restarts, elsewhere, used, promised,
                 reused, readFailed, retryRefused>>

\* derive_trade_key, for an attempt and for the reply address of a resync.
derive_trade_key(c) ==
  /\ mem # Unloaded /\ mem < MaxIndex
  /\ \/ call[c].step = "derive" /\ derived(c, "send")
     \/ call[c].step = "ask" /\ derived(c, "asked")
     \/ call[c].step \in {"derive", "ask"} /\ derive_fails(c)

ensure_no_rollback(floor, failing) ==
  IF floor <= mem THEN ~failing /\ UNCHANGED <<mem, db, announced>>
  ELSE IF failing THEN mem' = floor /\ UNCHANGED <<db, announced>>
  ELSE mem' = floor /\ db' = floor /\ announced' = floor

ensure_exactly(floor, failing) ==
  IF failing THEN UNCHANGED <<mem, db, announced>>
  ELSE mem' = floor /\ db' = floor /\ announced' = floor

\* ensure_trade_key_index_at_least: never lowers; a failed write is rolled back.
ensure_at_least(floor, failing) ==
  IF floor <= mem THEN ~failing /\ UNCHANGED <<mem, db, announced>>
  ELSE IF failing THEN UNCHANGED <<mem, db, announced>>
  ELSE mem' = floor /\ db' = floor /\ announced' = floor

(* ---- A call: create_order and take_order under retry_after_resync ----------- *)

Start(c) ==
  /\ mem # Unloaded /\ call[c] = Idle
  /\ call' = [call EXCEPT ![c].step = "derive"]
  /\ UNCHANGED <<mem, db, mirror, announced, daemon, failures, restarts, elsewhere,
                 used, promised, reused, keptAhead, readFailed, retryRefused>>

\* The daemon takes an index above its counter and refuses any other with
\* InvalidTradeIndex; a first refusal goes on to the resync, a second ends the call.
attempt(c) ==
  /\ call[c].step = "send"
  /\ IF call[c].index > daemon
     THEN /\ daemon' = call[c].index
          /\ call' = [call EXCEPT ![c] = Idle]
          /\ UNCHANGED retryRefused
     ELSE /\ call' = [call EXCEPT ![c] = IF @.retried THEN Idle ELSE [@ EXCEPT !.step = "ask"]]
          /\ retryRefused' = (retryRefused \/ (call[c].retried /\ daemon = call[c].answer))
          /\ UNCHANGED daemon
  /\ UNCHANGED <<mem, db, mirror, announced, failures, restarts, elsewhere, used,
                 promised, reused, keptAhead, readFailed>>

\* last_trade_index: the daemon's counter, or no usable answer, which returns
\* the first error.
last_trade_index(c) ==
  /\ call[c].step = "asked"
  /\ \/ call' = [call EXCEPT ![c].step = "raise", ![c].answer = daemon, ![c].floor = daemon]
     \/ call' = [call EXCEPT ![c] = Idle]
  /\ UNCHANGED <<mem, db, mirror, announced, daemon, failures, restarts, elsewhere,
                 used, promised, reused, keptAhead, readFailed, retryRefused>>

retry_without_answer(c) ==
  /\ call[c].step = "raise" /\ mem # Unloaded
  /\ call' = [call EXCEPT ![c].step = "derive", ![c].retried = TRUE]
  /\ UNCHANGED <<mem, db, mirror, announced, daemon, failures, restarts, elsewhere,
                 used, promised, reused, keptAhead, readFailed, retryRefused>>

\* The raise of resync_trade_key_index, then the one retry; a write that fails
\* returns the first error.
retry_after_resync(c) ==
  /\ call[c].step = "raise" /\ mem # Unloaded
  /\ \/ /\ ensure_at_least(call[c].floor, FALSE)
        /\ call' = [call EXCEPT ![c].step = "derive", ![c].retried = TRUE]
        /\ promised' = Max({promised, call[c].floor})
        /\ UNCHANGED failures
     \/ /\ failures < MaxFailures
        /\ ensure_at_least(call[c].floor, TRUE)
        /\ failures' = failures + 1
        /\ call' = [call EXCEPT ![c] = Idle]
        /\ UNCHANGED promised
  /\ UNCHANGED <<mirror, daemon, restarts, elsewhere, used, reused, keptAhead,
                 readFailed, retryRefused>>

(* ---- Flutter, restarts, another device --------------------------------------- *)

\* The stream's reader writes the newest value it was handed.
MirrorWrites ==
  /\ announced # 0
  /\ mirror' = announced /\ announced' = 0
  /\ UNCHANGED <<mem, db, call, daemon, failures, restarts, elsewhere, used, promised,
                 reused, keptAhead, readFailed, retryRefused>>

Stop ==
  /\ mem # Unloaded /\ restarts < MaxRestarts
  /\ mem' = Unloaded /\ announced' = 0
  /\ call' = [c \in Callers |-> Idle]
  /\ restarts' = restarts + 1
  /\ UNCHANGED <<db, mirror, daemon, failures, elsewhere, used, promised, reused,
                 keptAhead, readFailed, retryRefused>>

reconcile_passed(passed, stored) == passed

\* reconcile_trade_key_index: the higher of the two stored counters.
reconcile(passed, stored) == Max({passed, stored})

\* load_identity_from_mnemonic: a stored counter that cannot be read leaves the
\* one Flutter passed; a higher reconciled one is published.
load_identity_from_mnemonic ==
  /\ mem = Unloaded
  /\ \/ /\ mem' = reconcile(mirror, db)
        /\ announced' = IF mem' > mirror THEN mem' ELSE 0
        /\ UNCHANGED <<failures, readFailed>>
     \/ /\ failures < MaxFailures
        /\ failures' = failures + 1
        /\ mem' = mirror /\ readFailed' = TRUE
        /\ UNCHANGED announced
  /\ UNCHANGED <<db, mirror, call, daemon, restarts, elsewhere, used, promised,
                 reused, keptAhead, retryRefused>>

\* The same account trades from another device, any number of times.
OtherDevice ==
  /\ elsewhere < MaxElsewhere
  /\ daemon' \in daemon + 1 .. MaxIndex
  /\ elsewhere' = elsewhere + 1
  /\ UNCHANGED <<mem, db, mirror, announced, call, failures, restarts, used, promised,
                 reused, keptAhead, readFailed, retryRefused>>

Next ==
  \/ \E c \in Callers :
       \/ Start(c) \/ derive_trade_key(c) \/ attempt(c)
       \/ last_trade_index(c) \/ retry_after_resync(c)
  \/ MirrorWrites \/ Stop \/ load_identity_from_mnemonic \/ OtherDevice

Spec == Init /\ [][Next]_vars

(* ---- Properties --------------------------------------------------------------- *)

\* No index is handed out twice on this device, across failed writes, restarts
\* and raises, as long as a load could read the stored counter
\* (derive_trade_key_with: an index is consumed the moment it is derived).
KeyHandedOnce == readFailed \/ ~reused

\* A resync that reported success is durable: after any restart the counter is
\* still at the floor it promised (ensure_trade_key_index_at_least_with rolls a
\* failed raise back so that a retry writes again).  A derivation that failed to
\* write keeps its increment, which is what the other clause excludes.
ResyncDurable == keptAhead \/ readFailed \/ promised <= db

\* The single retry of retry_after_resync is refused only if the daemon's
\* counter moved after it answered the resync.
RetryAboveAnswer == ~retryRefused

\* What ensure_trade_key_index_at_least_with promises of a raise ("if the
\* counter moves, the write must succeed or the call fails, so the advance is
\* durable"), with no exception: a derivation whose write failed leaves the
\* memory ahead, and the raise then finds nothing to do and writes nothing.
RaiseAlwaysDurable == readFailed \/ promised <= db

\* What load_identity_from_mnemonic says of a store it cannot read: the fallback
\* to Flutter's counter is safe, and the counter never moves backwards.
FallbackIsSafe == ~reused
===============================================================================
