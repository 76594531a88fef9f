------------------------------ MODULE Storage -------------------------------
(* What the storage trait promises of the trades table (src/rust/src/db), as  *)
(* the statements of the SQLite backend: a save replaces a row, a patch       *)
(* changes the fields it names in the row an order's lookup finds and no      *)
(* other field of it, and every call is one step.  Two rows of one order      *)
(* exist for a while after a retake; the backends differ on whether a patch   *)
(* reaches the older one.                                                     *)
EXTENDS Naturals, FiniteSets, FiniteSetsExt

CONSTANTS MaxRows,    \* rows, numbered in the order of their started_at
          Orders,
          Fields,     \* fields of a document a patch may name
          Values

VARIABLE trades       \* the rows there are: their order id and their fields

Rows == 1 .. MaxRows
Docs == [Fields -> Values]
Row == [order : Orders, doc : Docs]

(* A document as it is saved whole: every field is of one writer.              *)
Saved == {[f \in Fields |-> v] : v \in Values}

(* The changes a call makes: of several fields in one statement, of one.      *)
Patches == UNION {[S -> Values] : S \in (SUBSET Fields) \ {{}}}

RowsOf(t, o) == {r \in DOMAIN t : t[r].order = o}
Newest(t, o) == Max(RowsOf(t, o))

changed(doc, ch) == [f \in Fields |-> IF f \in DOMAIN ch THEN ch[f] ELSE doc[f]]

TypeOK == DOMAIN trades \subseteq Rows /\ trades \in [DOMAIN trades -> Row]

Init == \E S \in SUBSET Rows : trades \in [S -> [order : Orders, doc : Saved]]

(* INSERT OR REPLACE by primary key. *)
save_trade(r, row) ==
    trades' = [x \in DOMAIN trades \cup {r} |-> IF x = r THEN row ELSE trades[x]]

(* UPDATE ... SET data = json_set(...) WHERE order id = ?; no row, no change. *)
update_trade_fields(o, ch) ==
    \E S \in SUBSET RowsOf(trades, o) :
        /\ RowsOf(trades, o) # {} => Newest(trades, o) \in S
        /\ trades' = [r \in DOMAIN trades |->
                        IF r \in S THEN [trades[r] EXCEPT !.doc = changed(@, ch)] ELSE trades[r]]

update_trade_order_id(o, new) ==
    \E S \in SUBSET RowsOf(trades, o) :
        /\ RowsOf(trades, o) # {} => Newest(trades, o) \in S
        /\ trades' = [r \in DOMAIN trades |->
                        IF r \in S THEN [trades[r] EXCEPT !.order = new] ELSE trades[r]]

(* DELETE ... WHERE order id = ?, row by row. *)
delete_trade_row(r) ==
    /\ r \in DOMAIN trades
    /\ trades' = [x \in DOMAIN trades \ {r} |-> trades[x]]

Next ==
    \/ \E r \in Rows, row \in [order : Orders, doc : Saved] : save_trade(r, row)
    \/ \E o \in Orders, ch \in Patches : update_trade_fields(o, ch)
    \/ \E o, new \in Orders : update_trade_order_id(o, new)
    \/ \E r \in Rows : delete_trade_row(r)

(* A call that finds nothing to change takes no step here. *)
Spec == Init /\ [][trades' # trades /\ Next]_trades
=============================================================================
