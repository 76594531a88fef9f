------------------------------ MODULE WebStore -------------------------------
(* The trades table in the browser (src/rust/src/db/indexeddb.rs, web_lock.rs):*)
(* one JSON document per row, read, changed and written back as a whole in     *)
(* separate transactions.  A mutex of the tab and an origin-wide lock of the   *)
(* browser keep two such calls apart; a call may be dropped at any await, also *)
(* while its request is in the lock manager's queue, and closing a tab drops   *)
(* all of its calls.  Without a lock manager there is one tab.                 *)
EXTENDS Naturals, FiniteSets, FiniteSetsExt

CONSTANTS MaxRows, Orders, Fields,
          Calls,      \* calls of the trait that write a trade
          Second      \* those made in a second tab, when there is a lock manager

VARIABLES trades,     \* the object store
          managed,    \* navigator.locks exists in this context
          call,       \* each call
          local,      \* each tab's patch_serial: its holder, or 0
          origin,     \* the lock manager: the holder of the trades lock, or 0
          gone        \* calls dropped while their request was queued

vars == <<trades, managed, call, local, origin, gone>>

(* The value a call writes is its own: a lost write shows by whose is there.   *)
Store == INSTANCE Storage WITH Values <- Calls \cup {0}

Tabs == {1, 2}
Tab(c) == IF managed /\ c \in Second THEN 2 ELSE 1

(* What a call was asked to do. *)
Ops == [what : {"save"}, row : Store!Rows, order : Orders]
       \cup [what : {"patch"}, order : Orders, fields : (SUBSET Fields) \ {{}}]
       \cup {r \in [what : {"rename"}, order : Orders, new : Orders] : r.order # r.new}
       \cup [what : {"delete"}, order : Orders]

NoOp == [what |-> "none"]
Fresh == [pc |-> "idle", op |-> NoOp, row |-> 0, doc |-> NoOp, todo |-> {}]

TypeOK ==
    /\ Store!TypeOK /\ managed \in BOOLEAN
    /\ \A c \in Calls :
         /\ call[c].pc \in {"idle", "local", "origin", "in", "write", "done", "dropped"}
         /\ call[c].op \in Ops \cup {NoOp} /\ call[c].todo \subseteq Store!Rows
         /\ call[c].row \in 0 .. MaxRows
    /\ local \in [Tabs -> Calls \cup {0}] /\ origin \in Calls \cup {0}
    /\ gone \subseteq Calls

Init ==
    /\ Store!Init /\ \A r \in DOMAIN trades : trades[r].doc = [f \in Fields |-> 0]
    /\ managed \in BOOLEAN
    /\ call = [c \in Calls |-> Fresh]
    /\ local = [t \in Tabs |-> 0] /\ origin = 0 /\ gone = {}

goes(c, pc) == call' = [call EXCEPT ![c].pc = pc]

begin(c, op) ==
    /\ call[c].pc = "idle"
    /\ call' = [call EXCEPT ![c].pc = "local", ![c].op = op]
    /\ UNCHANGED <<trades, managed, local, origin, gone>>

(* Mutant: no mutex of the tab. *)
exclusive_no_mutex(c) ==
    /\ call[c].pc = "local"
    /\ goes(c, IF managed THEN "origin" ELSE "in")
    /\ UNCHANGED <<trades, managed, local, origin, gone>>

(* patch_serial.lock(), then the request to the lock manager. *)
exclusive(c) ==
    /\ call[c].pc = "local" /\ local[Tab(c)] = 0
    /\ local' = [local EXCEPT ![Tab(c)] = c]
    /\ goes(c, IF managed THEN "origin" ELSE "in")
    /\ UNCHANGED <<trades, managed, origin, gone>>

(* Mutant: the guard is made when the lock is granted. *)
acquire_guard_after_grant(c) ==
    /\ origin = 0
    /\ \/ call[c].pc = "origin" /\ origin' = c /\ goes(c, "in") /\ UNCHANGED gone
       \/ c \in gone /\ gone' = gone \ {c} /\ origin' = c /\ UNCHANGED call
    /\ UNCHANGED <<trades, managed, local>>

(* The manager grants the name to a queued request.  The guard was made with   *)
(* the request, so one whose caller is gone is released by the grant itself.   *)
acquire(c) ==
    /\ origin = 0
    /\ \/ call[c].pc = "origin" /\ origin' = c /\ goes(c, "in") /\ UNCHANGED gone
       \/ c \in gone /\ gone' = gone \ {c} /\ UNCHANGED <<origin, call>>
    /\ UNCHANGED <<trades, managed, local>>

release(c) ==
    /\ local' = [t \in Tabs |-> IF local[t] = c THEN 0 ELSE local[t]]
    /\ origin' = IF origin = c THEN 0 ELSE origin

(* What a patch writes back: the document it read, with its fields changed.    *)
patched(c, row, op) ==
    CASE op.what = "patch" -> [row EXCEPT !.doc = Store!changed(@, [f \in op.fields |-> c])]
      [] op.what = "rename" -> [row EXCEPT !.order = op.new]

(* The read of a patch or of a delete; the newest document of the order is the *)
(* one a patch writes back.  A patch that finds none is done.                  *)
trade_documents(c) ==
    LET op == call[c].op
        found == Store!RowsOf(trades, op.order) IN
    /\ call[c].pc = "in" /\ op.what # "save"
    /\ IF found = {}
         THEN goes(c, "done") /\ release(c)
         ELSE /\ call' = [call EXCEPT ![c].pc = "write", ![c].todo = found,
                            ![c].row = Max(found),
                            ![c].doc = IF op.what = "delete" THEN NoOp
                                       ELSE patched(c, trades[Max(found)], op)]
              /\ UNCHANGED <<local, origin>>
    /\ UNCHANGED <<trades, managed, gone>>

patch_trade_by_order_id(c) ==
    /\ call[c].pc = "write" /\ call[c].op.what \in {"patch", "rename"}
    /\ Store!save_trade(call[c].row, call[c].doc)
    /\ goes(c, "done") /\ release(c)
    /\ UNCHANGED <<managed, gone>>

save_trade(c) ==
    LET op == call[c].op IN
    /\ call[c].pc = "in" /\ op.what = "save"
    /\ Store!save_trade(op.row, [order |-> op.order, doc |-> [f \in Fields |-> c]])
    /\ goes(c, "done") /\ release(c)
    /\ UNCHANGED <<managed, gone>>

(* One transaction for each document of the order. *)
delete_trade_by_order_id(c) ==
    LET r == Max(call[c].todo) IN
    /\ call[c].pc = "write" /\ call[c].op.what = "delete"
    /\ Store!delete_trade_row(r)
    /\ IF call[c].todo = {r}
         THEN call' = [call EXCEPT ![c].pc = "done", ![c].todo = {}] /\ release(c)
         ELSE call' = [call EXCEPT ![c].todo = @ \ {r}] /\ UNCHANGED <<local, origin>>
    /\ UNCHANGED <<managed, gone>>

(* A transaction fails (quota, a closed database): the call returns an error. *)
fails(c) ==
    /\ call[c].pc \in {"in", "write"}
    /\ goes(c, "done") /\ release(c)
    /\ UNCHANGED <<trades, managed, gone>>

(* The caller's future is dropped, with its guards. *)
drop_call(c) ==
    /\ call[c].pc \in {"local", "origin", "in", "write"}
    /\ goes(c, "dropped") /\ release(c)
    /\ gone' = IF call[c].pc = "origin" THEN gone \cup {c} ELSE gone
    /\ UNCHANGED <<trades, managed>>

Step(c) ==
    \/ exclusive(c) \/ acquire(c) \/ trade_documents(c)
    \/ patch_trade_by_order_id(c) \/ save_trade(c) \/ delete_trade_by_order_id(c)

Next == \E c \in Calls :
    \/ \E op \in Ops : begin(c, op)
    \/ Step(c) \/ fails(c) \/ drop_call(c)

Spec == Init /\ [][Next]_vars

------------------------------------------------------------------------------
(* The web store keeps the promise the SQLite statements keep: a patch never   *)
(* drops a field another call wrote meanwhile, in this or another tab          *)
(* (indexeddb.rs: patch_serial).                                               *)
StoreImplemented == Store!Spec

(* A delete that ran to its end left no row of the order, not even one of an   *)
(* earlier take: the order has one row after a retake.                         *)
DeletesAll == [][\A c \in Calls :
    call[c].op.what = "delete" /\ call[c].pc = "write" /\ call'[c].pc = "done" /\ call'[c].todo = {}
      => Store!RowsOf(trades', call[c].op.order) = {}]_vars

(* A lock is never left to a call that is over, also when a queued request was *)
(* dropped before its grant: its release must come with the grant              *)
(* (web_lock.rs: acquire).                                                     *)
LocksOwned ==
    /\ origin # 0 => call[origin].pc \in {"in", "write"}
    /\ \A t \in Tabs : local[t] # 0 => call[local[t]].pc \in {"origin", "in", "write"}
=============================================================================
