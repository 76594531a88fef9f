------------------------------- MODULE Sqlite --------------------------------
(* Opening the SQLite file (src/rust/src/db/sqlite.rs, schema.rs): a file of   *)
(* any earlier version is brought to the current one statement by statement,   *)
(* on one pinned connection with foreign keys off, and the app may stop        *)
(* between any two of them.  Once open, the chat messages' read flag is kept   *)
(* in a column and in the JSON document of the same row.                       *)
EXTENDS Naturals, FiniteSets

CONSTANTS Msgs,        \* stored chat messages
          MaxFaults    \* statements that fail, and stops of the app

VARIABLES trades,      \* the trades table: "none", "v1" (columns) or "v2" (JSON)
          text,        \* a row holds amount_sats as a JSON string
          schema,      \* the messages table: "none", "v1", "v2" (foreign key), "v3"
          rows,        \* its rows: the is_read column and the document's flag
          pc,          \* how far open() is
          fk,          \* foreign keys on the pinned connection
          probe,       \* what the last probes of the messages table answered
          faults,
          kept,        \* history: the messages a current reader had stored
          misread,     \* history: a probe failed and was taken for a "no"
          failed       \* history: a statement of this open() failed

vars == <<trades, text, schema, rows, pc, fk, probe, faults, kept, misread, failed>>

Steps == {"closed", "pinned", "repair", "messages", "rebuild", "restore", "init", "open"}
Row == [col : BOOLEAN, doc : BOOLEAN]

TypeOK ==
    /\ trades \in {"none", "v1", "v2"} /\ text \in BOOLEAN
    /\ schema \in {"none", "v1", "v2", "v3"}
    /\ DOMAIN rows \subseteq Msgs /\ rows \in [DOMAIN rows -> Row]
    /\ pc \in Steps /\ fk \in BOOLEAN
    /\ probe \in [exists : BOOLEAN, data : BOOLEAN]
    /\ faults \in 0 .. MaxFaults /\ kept \subseteq Msgs
    /\ misread \in BOOLEAN /\ failed \in BOOLEAN

(* The files there are: one of each version, or none yet. *)
Init ==
    /\ \E v \in {<<"none", "none">>, <<"v1", "v1">>, <<"v2", "v2">>, <<"v2", "v3">>} :
         trades = v[1] /\ schema = v[2]
    /\ text \in BOOLEAN /\ (text => trades = "v2")
    /\ \E S \in SUBSET Msgs, read \in BOOLEAN :
         /\ rows = [m \in S |-> [col |-> read, doc |-> read]]
         /\ schema = "none" => S = {}
    /\ kept = IF schema = "v1" THEN {} ELSE DOMAIN rows
    /\ pc = "closed" /\ fk = TRUE /\ probe = [exists |-> FALSE, data |-> FALSE]
    /\ faults = 0 /\ misread = FALSE /\ failed = FALSE

file == <<trades, text, schema, rows>>

(* A probe that fails reads as "no" (unwrap_or(false)). *)
Probe(truth, answer) ==
    \/ answer = truth /\ UNCHANGED <<faults, misread>>
    \/ truth /\ ~answer /\ faults < MaxFaults /\ faults' = faults + 1 /\ misread' = TRUE

(* A failing migration still restores the pragma before open() returns.       *)
statement_fails(next) ==
    /\ faults < MaxFaults /\ faults' = faults + 1 /\ failed' = TRUE
    /\ pc' = next /\ UNCHANGED <<file, fk, probe, kept, misread>>

(* Mutant: foreign keys stay on. *)
open_keeps_foreign_keys ==
    /\ pc = "closed" /\ pc' = "pinned" /\ fk' = TRUE /\ failed' = FALSE
    /\ UNCHANGED <<file, probe, faults, kept, misread>>

(* Every connection opens with foreign keys on; one is pinned and they are     *)
(* switched off on it.                                                         *)
open ==
    /\ pc = "closed" /\ pc' = "pinned" /\ fk' = FALSE /\ failed' = FALSE
    /\ UNCHANGED <<file, probe, faults, kept, misread>>

(* DROP TABLE deletes the rows first: with foreign keys on, a message that     *)
(* references a trade stops it.                                                *)
drop_legacy_trades ==
    /\ pc = "pinned"
    /\ \/ \E old \in BOOLEAN :
            /\ Probe(trades = "v1", old)
            /\ IF old /\ fk /\ schema \in {"v1", "v2"} /\ DOMAIN rows # {}
                 THEN pc' = "restore" /\ failed' = TRUE /\ UNCHANGED trades
                 ELSE pc' = "repair" /\ trades' = (IF old THEN "none" ELSE trades) /\ UNCHANGED failed
            /\ UNCHANGED <<text, schema, rows, fk, probe, kept>>
       \/ statement_fails("restore")

(* A repair that fails is logged only; its probe may fail too. *)
repair_amount_sats ==
    /\ pc = "repair" /\ pc' = "messages"
    /\ \/ text' = (IF trades = "v2" THEN FALSE ELSE text) /\ UNCHANGED <<faults, misread>>
       \/ faults < MaxFaults /\ faults' = faults + 1 /\ misread' = TRUE /\ UNCHANGED text
    /\ UNCHANGED <<trades, schema, rows, fk, probe, kept, failed>>

(* Mutant: version 1 is told by its foreign key. *)
drop_unreadable_messages_by_fk ==
    /\ pc = "messages"
    /\ probe' = [exists |-> schema # "none", data |-> schema \in {"v2", "v3"}]
    /\ IF schema \in {"v1", "v2"} THEN schema' = "none" /\ rows' = <<>> ELSE UNCHANGED <<schema, rows>>
    /\ pc' = "rebuild" /\ UNCHANGED <<trades, text, fk, kept, failed, faults, misread>>

(* Version 1 held ciphertext nothing can read: the table goes, so that the     *)
(* rebuild below never copies a column it lacks.                               *)
drop_unreadable_messages ==
    /\ pc = "messages"
    /\ \/ \E e, d \in BOOLEAN :
            /\ \/ e = (schema # "none") /\ Probe(schema \in {"v2", "v3"}, d)
               \/ d = (schema \in {"v2", "v3"}) /\ Probe(schema # "none", e)
            /\ probe' = [exists |-> e, data |-> d]
            /\ IF e /\ ~d THEN schema' = "none" /\ rows' = <<>> ELSE UNCHANGED <<schema, rows>>
            /\ pc' = "rebuild" /\ UNCHANGED <<trades, text, fk, kept, failed>>
       \/ statement_fails("restore")

(* The table is copied without its foreign key in one transaction, so a stop   *)
(* leaves the old one.  The data probe is the one made before the drop.        *)
SQLITE_DROP_MESSAGES_FK_SQL ==
    /\ pc = "rebuild"
    /\ \/ \E has_fk \in BOOLEAN :
            /\ Probe(schema \in {"v1", "v2"}, has_fk)
            /\ IF has_fk /\ probe.data
                 THEN IF schema = "v1" THEN failed' = TRUE /\ UNCHANGED <<schema, fk>>
                      ELSE schema' = "v3" /\ fk' = TRUE /\ UNCHANGED failed
                 ELSE UNCHANGED <<schema, fk, failed>>
            /\ pc' = "restore" /\ UNCHANGED <<trades, text, rows, probe, kept>>
       \/ statement_fails("restore")

(* Foreign keys on again, whether the migration worked or not; then its error. *)
restore_foreign_keys ==
    /\ pc = "restore" /\ fk' = TRUE
    /\ pc' = IF failed THEN "closed" ELSE "init"
    /\ UNCHANGED <<file, probe, faults, kept, misread, failed>>

(* CREATE TABLE IF NOT EXISTS; the index over the document of a trade needs    *)
(* the version 2 table.                                                        *)
SQLITE_INIT_SQL ==
    /\ pc = "init"
    /\ \/ /\ trades' = IF trades = "none" THEN "v2" ELSE trades
          /\ schema' = IF schema = "none" /\ trades # "v1" THEN "v3" ELSE schema
          /\ IF trades = "v1" THEN pc' = "closed" /\ failed' = TRUE ELSE pc' = "open" /\ UNCHANGED failed
          /\ UNCHANGED <<text, rows, fk, probe, faults, kept, misread>>
       \/ statement_fails("closed")

(* The app stops, in the middle of open() or later. *)
stop ==
    /\ pc # "closed" /\ (pc = "open" \/ faults < MaxFaults)
    /\ faults' = IF pc = "open" THEN faults ELSE faults + 1
    /\ pc' = "closed" /\ fk' = TRUE
    /\ UNCHANGED <<file, probe, kept, misread, failed>>

(* Of a trade that a taker's row does not name by its id: with the foreign key *)
(* still there the save fails.                                                 *)
save_message(m) ==
    /\ pc = "open" /\ schema = "v3" /\ m \notin DOMAIN rows
    /\ rows' = [x \in DOMAIN rows \cup {m} |->
                  IF x = m THEN [col |-> FALSE, doc |-> FALSE] ELSE rows[x]]
    /\ kept' = kept \cup {m}
    /\ UNCHANGED <<trades, text, schema, pc, fk, probe, faults, misread, failed>>

(* Mutant: only the column is written. *)
mark_messages_read_column_only ==
    /\ pc = "open" /\ schema \in {"v2", "v3"}
    /\ rows' = [m \in DOMAIN rows |-> [rows[m] EXCEPT !.col = TRUE]]
    /\ UNCHANGED <<trades, text, schema, pc, fk, probe, faults, kept, misread, failed>>

(* One statement for the column and the document. *)
mark_messages_read ==
    /\ pc = "open" /\ schema \in {"v2", "v3"}
    /\ rows' = [m \in DOMAIN rows |-> IF ~rows[m].col THEN [col |-> TRUE, doc |-> TRUE] ELSE rows[m]]
    /\ UNCHANGED <<trades, text, schema, pc, fk, probe, faults, kept, misread, failed>>

Next ==
    \/ open \/ drop_legacy_trades \/ repair_amount_sats \/ drop_unreadable_messages
    \/ SQLITE_DROP_MESSAGES_FK_SQL \/ restore_foreign_keys \/ SQLITE_INIT_SQL \/ stop
    \/ \E m \in Msgs : save_message(m)
    \/ mark_messages_read

Spec == Init /\ [][Next]_vars

(* What the app reads: notification recovery by the column, the chat screen by *)
(* the document.                                                               *)
list_unread_messages == {m \in DOMAIN rows : ~rows[m].col}
list_messages == {m \in DOMAIN rows : ~rows[m].doc}

------------------------------------------------------------------------------
(* Whatever stops in between, a readable message survives every migration and  *)
(* each later open (sqlite.rs: "Rows are preserved"), as long as no probe      *)
(* failed.                                                                     *)
MessagesPreserved == ~misread => kept \subseteq DOMAIN rows

(* A database opened without a failed probe is the current one: both tables    *)
(* converted, no amount a reader would skip, foreign keys enforced.            *)
OpenIsCurrent == pc = "open" =>
    /\ fk
    /\ ~misread => trades = "v2" /\ schema = "v3" /\ ~text

(* No file of an earlier version keeps open() from working: it fails only when *)
(* a statement, probe or the app did.                                          *)
OpensEveryVersion == faults = 0 => ~failed

(* The badge and the chat agree on what is unread, also after a restart.       *)
FlagsAgree == pc = "open" /\ schema = "v3" => list_unread_messages = list_messages
=============================================================================
