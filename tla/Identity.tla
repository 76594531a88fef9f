------------------------------ MODULE Identity ------------------------------
(***************************************************************************)
(* The identity of the device, and what hangs on it, while it is replaced  *)
(* (api/identity.rs, identity_service.dart, the trade key map of           *)
(* api/orders.rs).  The mnemonic is in Flutter's secure storage with a     *)
(* mirrored counter; the database holds the identity's row, with the       *)
(* counter, and the key index bound to each order; memory holds all three. *)
(* An import or a new user deletes the identity, installs the next one,    *)
(* and only then writes secure storage, the mnemonic before the counter,   *)
(* while takes go on, of the old identity or already of the next, and the  *)
(* app may stop at any point.                                              *)
(*                                                                         *)
(* An identity is a number, 0 for none; its trade key of index i is the    *)
(* pair.  A binding remembers whose index it is, which the code does not.  *)
(***************************************************************************)
EXTENDS Integers, FiniteSets, FiniteSetsExt

CONSTANTS Orders,
          MaxIdentity,    \* bound on identities: created or imported
          MaxIndex,       \* bound on trade keys of one identity
          MaxFaults       \* bound on stops and failed writes

VARIABLES mem,          \* IDENTITY: the loaded identity and its counter
          stored,       \* the database's identity row
          secure,       \* secure storage: whose mnemonic, and the mirrored counter
          announced,    \* a consumed index on its way to secure storage, 0 for none
          teller,       \* history: the identity whose index that is
          keys, keyMap, \* the key bound to each order: in the database, in memory
          swap,         \* the replacement in progress
          take,         \* a take in flight: the key it derived
          started, faults,
          torn,         \* history: identities whose mirrored counter is another's
          issued,       \* history: keys derived on this device
          forgotten,    \* history: identities whose counter was dropped before it was mirrored
          crossed,      \* history: a binding may have survived its identity
          misused       \* history: orders acted on with another identity's index

vars == <<mem, stored, secure, announced, teller, keys, keyMap, swap, take, started, faults, torn, issued,
          forgotten, crossed, misused>>
history == <<torn, issued, forgotten, crossed, misused>>

Identities == 1 .. MaxIdentity
Key == [who : 0..MaxIdentity, idx : 0..MaxIndex]
Nobody == [who |-> 0, idx |-> 0]
NoSwap == [pc |-> "none", who |-> 0, fresh |-> FALSE]

TypeOK ==
    /\ {mem, stored, secure, take} \subseteq Key
    /\ announced \in 0..MaxIndex /\ teller \in 0..MaxIdentity
    /\ keys \in [Orders -> Key] /\ keyMap \in [Orders -> Key]
    /\ swap.pc \in {"none", "deleted", "cleanup", "created", "written"}
    /\ swap.who \in 0..MaxIdentity /\ {swap.fresh, started} \subseteq BOOLEAN
    /\ faults \in 0..MaxFaults /\ torn \subseteq 0..MaxIdentity
    /\ issued \subseteq Key /\ forgotten \subseteq Identities
    /\ crossed \in BOOLEAN /\ misused \subseteq Orders

Init ==
    /\ mem = Nobody /\ stored = Nobody /\ secure = Nobody /\ announced = 0 /\ teller = 0
    /\ keys = [o \in Orders |-> Nobody] /\ keyMap = keys
    /\ swap = NoSwap /\ take = Nobody /\ started = FALSE /\ faults = 0
    /\ torn = {} /\ issued = {} /\ forgotten = {} /\ crossed = FALSE /\ misused = {}

Derived(who) == {k.idx : k \in {x \in issued : x.who = who}}
Known == {k.who : k \in issued} \cup {mem.who, secure.who, stored.who}

-----------------------------------------------------------------------------
(* Loading.                                                                *)

(* Mutant: whoever the stored row belongs to.                              *)
reconcile_any(idx, who) == Max({idx, stored.idx})

(* Mutant: Flutter's counter alone.                                       *)
reconcile_passed(idx, who) == idx

reconcile_trade_key_index(idx, who) ==
    IF stored.who = who THEN Max({idx, stored.idx}) ELSE idx

(* load_identity_from_mnemonic, with the counter Flutter passes; a higher  *)
(* stored one is published.                                                *)
load(who, idx) ==
    LET counter == reconcile_trade_key_index(idx, who)
    IN  /\ mem' = [who |-> who, idx |-> counter]
        /\ IF counter > idx THEN announced' = counter /\ teller' = who
           ELSE UNCHANGED <<announced, teller>>

(* IdentityService.initialize: without a stored mnemonic, a new identity.  *)
initialize ==
    /\ ~started /\ started' = TRUE
    /\ \/ /\ secure.who = 0
          /\ \E who \in Identities \ Known :
               /\ mem' = [who |-> who, idx |-> 0]
               /\ swap' = [pc |-> "created", who |-> who, fresh |-> TRUE]
          /\ UNCHANGED <<announced, teller>>
       \/ secure.who # 0 /\ load(secure.who, secure.idx) /\ UNCHANGED swap
    /\ UNCHANGED <<stored, secure, keys, keyMap, take, faults, history>>

-----------------------------------------------------------------------------
(* Trade keys.                                                             *)

(* derive_trade_key, for a take: stored before it is handed out.  Whatever *)
(* identity is loaded will do, one still being installed too.              *)
derive_trade_key ==
    /\ mem.who # 0 /\ take = Nobody /\ mem.idx < MaxIndex
    /\ mem' = [mem EXCEPT !.idx = @ + 1]
    /\ stored' = mem' /\ take' = mem' /\ announced' = mem'.idx /\ teller' = mem.who
    /\ issued' = issued \cup {mem'}
    /\ UNCHANGED <<secure, keys, keyMap, swap, started, faults, torn, forgotten, crossed, misused>>

(* store_trade_key_index, when the daemon confirms the take: memory, and   *)
(* the database as far as it goes.                                         *)
store_trade_key_index(o) ==
    /\ take # Nobody
    /\ keyMap' = [keyMap EXCEPT ![o] = take]
    /\ \/ keys' = [keys EXCEPT ![o] = take] /\ UNCHANGED faults
       \/ faults < MaxFaults /\ faults' = faults + 1 /\ UNCHANGED keys
    /\ take' = Nobody
    /\ UNCHANGED <<mem, stored, secure, announced, teller, swap, started, history>>

(* get_trade_key_index: memory first, then the database, whose answer is   *)
(* kept.                                                                   *)
get_trade_key_index(o) == IF keyMap[o] # Nobody THEN keyMap[o] ELSE keys[o]

(* An action on the order (add-invoice, fiat-sent, release, dispute) signs *)
(* with the loaded mnemonic at the bound index.                            *)
sign_for_order(o) ==
    /\ mem.who # 0 /\ get_trade_key_index(o) # Nobody
    /\ keyMap' = [keyMap EXCEPT ![o] = get_trade_key_index(o)]
    /\ misused' = IF get_trade_key_index(o).who # mem.who THEN misused \cup {o} ELSE misused
    /\ UNCHANGED <<mem, stored, secure, announced, teller, keys, swap, take, started, faults, torn, issued,
                   forgotten, crossed>>

(* The reader of the stream raises the mirrored counter, never lowers it,  *)
(* whoever's mnemonic is stored by then.                                   *)
saveTradeKeyIndex ==
    /\ announced # 0 /\ announced' = 0 /\ teller' = 0
    /\ secure' = [secure EXCEPT !.idx = Max({@, announced})]
    /\ torn' = IF announced > secure.idx /\ teller # secure.who THEN torn \cup {secure.who} ELSE torn
    /\ UNCHANGED <<mem, stored, keys, keyMap, swap, take, started, faults, issued, forgotten,
                   crossed, misused>>

-----------------------------------------------------------------------------
(* Replacing the identity: importAndStore and regenerate.                  *)

(* delete_identity, in memory.  An import needs an identity to delete; a   *)
(* new user goes on without one, and without its cleanup.                  *)
delete_identity ==
    /\ started /\ swap = NoSwap
    /\ \E who \in Identities, fresh \in BOOLEAN :
         /\ IF fresh THEN who \notin Known ELSE mem.who # 0
         /\ swap' = [pc |-> IF mem.who = 0 THEN "cleanup" ELSE "deleted",
                     who |-> who, fresh |-> fresh]
    /\ mem' = Nobody
    /\ forgotten' = IF mem.who # 0 /\ secure # mem THEN forgotten \cup {mem.who} ELSE forgotten
    /\ crossed' = (crossed \/ take # Nobody)
    /\ UNCHANGED <<stored, secure, announced, teller, keys, keyMap, take, started, faults, torn, issued,
                   misused>>

(* Mutant: the bindings stay in the database.                              *)
cleanup_row_only ==
    /\ swap.pc = "deleted" /\ swap' = [swap EXCEPT !.pc = "cleanup"]
    /\ stored' = Nobody
    /\ UNCHANGED <<mem, secure, announced, teller, keys, keyMap, take, started, faults, history>>

(* Then its row and its bindings in the database; either may fail.         *)
delete_identity_cleanup ==
    /\ swap.pc = "deleted" /\ swap' = [swap EXCEPT !.pc = "cleanup"]
    /\ \/ /\ stored' = Nobody /\ keys' = [o \in Orders |-> Nobody]
          /\ UNCHANGED <<faults, crossed>>
       \/ /\ faults < MaxFaults /\ faults' = faults + 1
          /\ \/ stored' = Nobody /\ UNCHANGED keys /\ crossed' = TRUE
             \/ keys' = [o \in Orders |-> Nobody] /\ UNCHANGED <<stored, crossed>>
    /\ UNCHANGED <<mem, secure, announced, teller, keyMap, take, started, torn, issued,
                   forgotten, misused>>

(* create_identity, or import_from_mnemonic, which loads the words at      *)
(* counter 0: a seed that was here before starts over.                     *)
install_identity ==
    /\ swap.pc = "cleanup" /\ swap' = [swap EXCEPT !.pc = "created"]
    /\ IF swap.fresh
       THEN mem' = [who |-> swap.who, idx |-> 0] /\ UNCHANGED <<announced, teller>>
       ELSE load(swap.who, 0)
    /\ forgotten' = IF Derived(swap.who) = {} THEN forgotten ELSE forgotten \cup {swap.who}
    /\ UNCHANGED <<stored, secure, keys, keyMap, take, started, faults, torn, issued, crossed, misused>>

(* Words that are no mnemonic: nothing is loaded, and the old one is gone  *)
(* until the next start.                                                   *)
import_fails ==
    /\ swap.pc = "cleanup" /\ ~swap.fresh /\ faults < MaxFaults
    /\ faults' = faults + 1 /\ swap' = NoSwap
    /\ UNCHANGED <<mem, stored, secure, announced, teller, keys, keyMap, take, started, history>>

(* The mnemonic first, with the counter still that of the one before.      *)
write_mnemonic ==
    /\ swap.pc = "created" /\ swap' = [swap EXCEPT !.pc = "written"]
    /\ secure' = [secure EXCEPT !.who = swap.who] /\ torn' = torn \cup {swap.who}
    /\ UNCHANGED <<mem, stored, announced, teller, keys, keyMap, take, started, faults,
                   issued, forgotten, crossed, misused>>

write_counter ==
    /\ swap.pc = "written" /\ swap' = NoSwap
    /\ secure' = [secure EXCEPT !.idx = 0] /\ torn' = torn \ {secure.who}
    /\ UNCHANGED <<mem, stored, announced, teller, keys, keyMap, take, started, faults,
                   issued, forgotten, crossed, misused>>

(* A row ahead of the mirror is what a load reconciles, if it is there.  A *)
(* binding of an identity whose mnemonic was not written yet outlives it.  *)
Stop ==
    /\ started /\ faults < MaxFaults /\ faults' = faults + 1
    /\ crossed' = (crossed \/ (swap.pc = "created" /\ \E o \in Orders : keys[o].who = mem.who))
    /\ mem' = Nobody /\ announced' = 0 /\ teller' = 0
    /\ swap' = NoSwap /\ take' = Nobody /\ started' = FALSE
    /\ keyMap' = [o \in Orders |-> Nobody]
    /\ UNCHANGED <<stored, secure, keys, torn, issued, forgotten, misused>>

-----------------------------------------------------------------------------
Next ==
    \/ initialize \/ derive_trade_key \/ saveTradeKeyIndex
    \/ \E o \in Orders : store_trade_key_index(o) \/ sign_for_order(o)
    \/ delete_identity \/ delete_identity_cleanup \/ install_identity \/ import_fails
    \/ write_mnemonic \/ write_counter
    \/ Stop

Spec == Init /\ [][Next]_vars

-----------------------------------------------------------------------------
(* No key handed out on this device is behind a load: the counter of the   *)
(* loaded identity is at or past every index it consumed, through stops    *)
(* at any point of a replacement, unless it was dropped before it reached  *)
(* secure storage (load_identity_from_mnemonic: never backwards).          *)
CounterNotBehind ==
    mem.who # 0 /\ mem.who \notin forgotten => \A i \in Derived(mem.who) : i <= mem.idx

(* "a new mnemonic must start counting from zero instead of inheriting     *)
(* them" (delete_identity): a counter is zero or the index of a key of the *)
(* very identity.  The code does not keep this, see the next one.          *)
NewCountsFromZero == mem.who # 0 => mem.idx \in {0} \cup Derived(mem.who)

(* It fails in two ways only, both of the counter in secure storage: the   *)
(* app stops after the new mnemonic is written and before the counter is,  *)
(* or an index of one identity is mirrored once the other's mnemonic is in *)
(* place.  Neither the row of an identity whose deletion failed nor a take *)
(* during the replacement leaks a counter (reconcile_trade_key_index).     *)
CounterNotInherited ==
    mem.who # 0 /\ mem.who \notin torn => mem.idx \in {0} \cup Derived(mem.who)

(* The bindings a restart will find are those of the identity it will      *)
(* load, unless deleting them failed, a take was under way when the        *)
(* identity was replaced, or one of the next identity was bound and the    *)
(* app stopped before that mnemonic was written (delete_identity:          *)
(* clear_trade_keys).                                                      *)
StoredBindingsOwned ==
    ~crossed /\ mem.who # 0 => \A o \in Orders : keys[o].who \in {0, mem.who}

(* What delete_identity says of the bindings: they belong to the deleted   *)
(* identity's derivation tree, and a new mnemonic does not inherit them.   *)
BindingNotInherited == misused = {}
=============================================================================
