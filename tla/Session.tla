------------------------------ MODULE Session -------------------------------
(***************************************************************************)
(* The session of one order that is taken, lost and taken again            *)
(* (mostro/session.rs): installed by a confirmed take, filled by the peer  *)
(* reveal of a daemon message, rebuilt from the trade row by the chat API. *)
(* The daemon's handlers and the tail of a take hold the order lock; the   *)
(* chat API, the sweep of old sessions and a restart do not.               *)
(*                                                                         *)
(* The counterparty is one person; a session's key is the trade key index  *)
(* it was derived from.                                                    *)
(***************************************************************************)
EXTENDS Integers, FiniteSets

CONSTANTS MaxTakes,     \* bound on takes of the order
          MaxSends,     \* bound on calls of the chat API
          MaxFaults     \* bound on restarts, sweeps and lost cancels

VARIABLES row,       \* the trade row: its index (0: no row) and whether it names the peer
          session,   \* the session: its index (0: none), shared key and peer
          lock,      \* the holder of the order lock and its next step
          take,      \* the index of the last take, whose replies pass the gate
          wiped,     \* the index the tombstone covers
          api,       \* the chat call: the step it is at and the row it read
          sent,      \* history: what the last chat call did
          revealed,  \* history: takes whose reveal was processed ...
          overStale, \* ... and those that met an earlier take's session or row
          sends, faults

vars == <<row, session, lock, take, wiped, api, sent, revealed, overStale, sends, faults>>
history == <<sent, revealed, overStale>>

NoRow == [idx |-> 0, peer |-> FALSE]
NoSession == [idx |-> 0, key |-> 0]
Takes == 1..MaxTakes
Free == [step |-> "free", idx |-> 0, copy |-> NoSession, reply |-> FALSE]

(* A session has a shared key exactly when it has a peer.                  *)
Keyed(s) == s.key # 0
Exists(x) == x.idx # 0

TypeOK ==
    /\ row \in [idx : 0..take, peer : BOOLEAN]
    /\ session \in [idx : 0..take, key : 0..take] /\ (session.idx = 0 => ~Keyed(session))
    /\ lock.step \in {"free", "read", "create", "update", "revealed", "install", "replay",
                      "remove"}
    /\ lock.idx \in 0..take /\ lock.copy \in [idx : 0..take, key : 0..take]
    /\ lock.reply \in BOOLEAN
    /\ take \in 0..MaxTakes /\ wiped \in 0..take
    /\ api.step \in {"idle", "looked", "insert"} /\ api.row \in [idx : 0..take, peer : BOOLEAN]
    /\ sent \in {"nothing", "published", "local"}
    /\ revealed \subseteq Takes /\ overStale \subseteq revealed
    /\ sends \in 0..MaxSends /\ faults \in 0..MaxFaults

Init ==
    /\ row = NoRow /\ session = NoSession /\ lock = Free /\ take = 0 /\ wiped = 0
    /\ api = [step |-> "idle", row |-> NoRow] /\ sent = "nothing"
    /\ revealed = {} /\ overStale = {} /\ sends = 0 /\ faults = 0

-----------------------------------------------------------------------------
(* The peer reveal, under the order lock.                                  *)

(* A message of the current take names both trade keys; a take's first     *)
(* reply does it before the row exists, and hands its lock to the take.    *)
begin_reveal(i, isReply) ==
    lock' = [Free EXCEPT !.step = "read", !.idx = i, !.reply = isReply]

After(reply) == IF reply THEN [Free EXCEPT !.step = "revealed", !.idx = take] ELSE Free

(* take_order: the reply is consumed with or without a reveal.             *)
take_reply ==
    /\ lock = Free /\ take < MaxTakes
    /\ take' = take + 1
    /\ \/ lock' = [Free EXCEPT !.step = "revealed", !.idx = take + 1]
       \/ begin_reveal(take + 1, TRUE)
    /\ UNCHANGED <<row, session, wiped, api, history, sends, faults>>

(* Mutant: a message of any trade key passes.                              *)
daemon_message_ungated ==
    /\ lock = Free /\ take > 0 /\ wiped < take
    /\ \E i \in Takes : begin_reveal(i, FALSE)
    /\ UNCHANGED <<row, session, take, wiped, api, history, sends, faults>>

(* A later message of the take; a wiped one is noise.                      *)
daemon_message ==
    /\ lock = Free /\ take > 0 /\ wiped < take
    /\ begin_reveal(take, FALSE)
    /\ UNCHANGED <<row, session, take, wiped, api, history, sends, faults>>

(* Already captured, or the row is written (if there is one) and the       *)
(* session is read.                                                        *)
capture ==
    /\ lock.step = "read"
    /\ IF Keyed(session)
         THEN lock' = After(lock.reply) /\ UNCHANGED row
         ELSE /\ row' = IF Exists(row) THEN [row EXCEPT !.peer = TRUE] ELSE row
              /\ lock' = [lock EXCEPT !.step = IF Exists(session) THEN "update" ELSE "create",
                                      !.copy = session]
    /\ revealed' = revealed \cup {lock.idx}
    /\ overStale' = IF {session.idx, row.idx} \subseteq {0, lock.idx}
                    THEN overStale ELSE overStale \cup {lock.idx}
    /\ UNCHANGED <<session, take, wiped, api, sent, sends, faults>>

(* create_session refuses a session that has appeared meanwhile.           *)
create_session ==
    /\ lock.step = "create"
    /\ IF Exists(session)
         THEN /\ lock' = After(lock.reply) /\ UNCHANGED session
              /\ overStale' = IF session.idx = lock.idx THEN overStale
                              ELSE overStale \cup {lock.idx}
         ELSE /\ session' = [idx |-> lock.idx, key |-> 0]
              /\ lock' = [lock EXCEPT !.step = "update", !.copy = [idx |-> lock.idx, key |-> 0]]
              /\ UNCHANGED overStale
    /\ UNCHANGED <<row, take, wiped, api, sent, revealed, sends, faults>>

(* update_session writes the copy back, if a session is still there.       *)
update_session ==
    /\ lock.step = "update"
    /\ session' = IF Exists(session) THEN [lock.copy EXCEPT !.key = lock.idx] ELSE session
    /\ lock' = After(lock.reply)
    /\ UNCHANGED <<row, take, wiped, api, history, sends, faults>>

-----------------------------------------------------------------------------
(* The tail of a confirmed take, with the reply's lock.                    *)
persist_confirmed_take ==
    /\ lock.step = "revealed"
    /\ row' = [idx |-> lock.idx, peer |-> FALSE]
    /\ lock' = [lock EXCEPT !.step = "install"]
    /\ UNCHANGED <<session, take, wiped, api, history, sends, faults>>

(* Mutant: whatever session exists is kept.                                *)
install_session_if_absent ==
    /\ lock.step = "install"
    /\ session' = IF Exists(session) THEN session ELSE [idx |-> lock.idx, key |-> 0]
    /\ lock' = [lock EXCEPT !.step = "replay"]
    /\ UNCHANGED <<row, take, wiped, api, history, sends, faults>>

(* Mutant: this take's own session is replaced too.                        *)
install_session_always ==
    /\ lock.step = "install"
    /\ session' = [idx |-> lock.idx, key |-> 0]
    /\ lock' = [lock EXCEPT !.step = "replay"]
    /\ UNCHANGED <<row, take, wiped, api, history, sends, faults>>

(* An earlier take's session is replaced, this take's own is kept.         *)
install_session ==
    /\ lock.step = "install"
    /\ session' = IF session.idx = lock.idx THEN session ELSE [idx |-> lock.idx, key |-> 0]
    /\ lock' = [lock EXCEPT !.step = "replay"]
    /\ UNCHANGED <<row, take, wiped, api, history, sends, faults>>

(* A reveal that came before the row is written to it now.                 *)
replay_reveal ==
    /\ lock.step = "replay"
    /\ row' = IF Keyed(session) THEN [row EXCEPT !.peer = TRUE] ELSE row
    /\ lock' = Free
    /\ UNCHANGED <<session, take, wiped, api, history, sends, faults>>

-----------------------------------------------------------------------------
(* wipe_never_active_trade: the daemon's Canceled; the row first.          *)
wipe_row ==
    /\ lock = Free /\ Exists(row)
    /\ row' = NoRow /\ wiped' = row.idx
    /\ lock' = [Free EXCEPT !.step = "remove"]
    /\ UNCHANGED <<session, take, api, history, sends, faults>>

remove_session ==
    /\ lock.step = "remove"
    /\ session' = NoSession /\ lock' = Free
    /\ UNCHANGED <<row, take, wiped, api, history, sends, faults>>

-----------------------------------------------------------------------------
(* session_or_rebuild, for a text or a file: no lock.                      *)
Rebuildable(r) == r.peer

api_get_session ==
    /\ api.step = "idle" /\ sends < MaxSends /\ sends' = sends + 1
    /\ IF Exists(session)
         THEN sent' = (IF Keyed(session) THEN "published" ELSE "local") /\ UNCHANGED api
         ELSE api' = [step |-> "looked", row |-> NoRow] /\ UNCHANGED sent
    /\ UNCHANGED <<row, session, lock, take, wiped, revealed, overStale, faults>>

api_read_row ==
    /\ api.step = "looked"
    /\ IF Rebuildable(row)
         THEN api' = [step |-> "insert", row |-> row] /\ UNCHANGED sent
         ELSE api' = [step |-> "idle", row |-> NoRow] /\ sent' = "local"
    /\ UNCHANGED <<row, session, lock, take, wiped, revealed, overStale, sends, faults>>

create_session_with_peer ==
    /\ api.step = "insert"
    /\ session' = IF Exists(session) THEN session ELSE [idx |-> api.row.idx, key |-> api.row.idx]
    /\ sent' = IF Keyed(session') THEN "published" ELSE "local"
    /\ api' = [step |-> "idle", row |-> NoRow]
    /\ UNCHANGED <<row, lock, take, wiped, revealed, overStale, sends, faults>>

-----------------------------------------------------------------------------
(* The sweep drops a session that got no key for a day: no handler and no  *)
(* chat call of a day ago is still under way.                              *)
cleanup_stale_sessions ==
    /\ Exists(session) /\ ~Keyed(session) /\ lock = Free /\ api.step = "idle"
    /\ faults < MaxFaults /\ faults' = faults + 1
    /\ session' = NoSession
    /\ UNCHANGED <<row, lock, take, wiped, api, history, sends>>

(* The relays replay the reveals after a restart.  A crash in the middle   *)
(* of a handler is about the row it had not written yet: see TradeRow.     *)
restart ==
    /\ lock = Free /\ faults < MaxFaults /\ faults' = faults + 1
    /\ session' = NoSession
    /\ api' = [step |-> "idle", row |-> NoRow] /\ sent' = "nothing"
    /\ revealed' = {} /\ overStale' = {}
    /\ UNCHANGED <<row, lock, take, wiped, sends>>

Next ==
    \/ take_reply \/ daemon_message \/ capture \/ create_session \/ update_session
    \/ persist_confirmed_take \/ install_session \/ replay_reveal
    \/ wipe_row \/ remove_session
    \/ api_get_session \/ api_read_row \/ create_session_with_peer
    \/ cleanup_stale_sessions \/ restart

Spec == Init /\ [][Next]_vars

-----------------------------------------------------------------------------
(* Stale state (session.rs:168): between two handlers, a session's shared  *)
(* key is derived from the trade key the session names; a superseded       *)
(* index never reads with a newer key, or the other way round.             *)
KeyOfIndex == lock = Free /\ Keyed(session) => session.key = session.idx

(* Interleaving (messages.rs:1729): between two handlers, a session beside *)
(* a row is the session of that row's take, although the chat API rebuilds *)
(* one from a row it read before a wipe and a retake.                      *)
SessionOfRow == lock = Free /\ Exists(session) /\ Exists(row) => session.idx = row.idx

(* Ordering (orders.rs:1504): a reveal that came with the take's first     *)
(* reply, before the row, reaches the row when the take is done; unless an *)
(* earlier take's session or row took it (see RevealSurvivesTake).         *)
RevealReachesRow ==
    lock = Free /\ row.idx \in revealed \ overStale => row.peer

(* session.rs:188 calls the reset of the replaced session "correct rather  *)
(* than lossy"; a reveal with the first reply that found the stale session *)
(* was stored in it and is lost with it.                                   *)
RevealSurvivesTake == lock = Free /\ row.idx \in revealed => row.peer
=============================================================================
