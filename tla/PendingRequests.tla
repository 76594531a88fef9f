--------------------------- MODULE PendingRequests ---------------------------
(***************************************************************************)
(* The correlation registry of outgoing daemon requests                    *)
(* (rust/src/mostro/pending.rs), the API calls that register in it and the *)
(* part of the daemon-message dispatcher that consumes its records         *)
(* (rust/src/api/orders.rs, api/disputes.rs, api/bond.rs).                 *)
(*                                                                         *)
(* One entry per trade key.  A call registers its record, publishes its    *)
(* event and waits ten seconds on a oneshot channel; on a timeout only the *)
(* waiter is detached and the record stays for a late reply.  Replies come *)
(* back through relays: in any order, late, more than once, or never.      *)
(*                                                                         *)
(* An attempt stands for one call of the API and for the random nonce      *)
(* (request_id) it draws.  A restore carries no nonce: its record has id 0.*)
(***************************************************************************)
EXTENDS Integers, SequencesExt

CONSTANTS Keys,        \* trade public keys
          Attempts,    \* API calls; also their request_id nonces
          NoAttempt,   \* no nonce, no waiter
          Zero,        \* request_id 0, the id of every restore record
          KeyOf,       \* Attempts -> Keys: the key a call signs with
          KindOf,      \* Attempts -> Kinds
          BoundKeys,   \* keys of trades loaded from the database at start
          WatchedKeys, \* keys that have a per-trade subscription
          History,     \* old replies the relays still replay
          Preemptive,  \* threads (native) or one event loop (web)
          RESTORE_REPLY_SKEW_SECS,
          MaxTime, MaxRestarts

Kinds == {"Create", "Take", "AddInvoice", "BondClaimSubmit", "Restore", "Dispute"}

Actions == {"NewOrder", "PayBondInvoice", "Progress", "BondInvoiceAccepted",
            "BondPayoutCompleted", "AddBondInvoice", "DisputeInitiatedByYou",
            "RestoreSession", "CantDo"}

(* A kind-14 daemon message: addressee, echoed nonce, action, created_at. *)
Message == [key : Keys, rid : Attempts \cup {NoAttempt}, action : Actions, ts : Int]

ASSUME PendingAssumption ==
    /\ NoAttempt \notin Attempts /\ Zero \notin Attempts /\ Zero # NoAttempt
    /\ KeyOf \in [Attempts -> Keys]
    /\ KindOf \in [Attempts -> Kinds]
    /\ BoundKeys \subseteq Keys /\ WatchedKeys \subseteq Keys
    /\ History \subseteq Message
    /\ \A m \in History : m.rid = NoAttempt
    /\ Preemptive \in BOOLEAN
    /\ RESTORE_REPLY_SKEW_SECS \in Nat /\ MaxTime \in Nat /\ MaxRestarts \in Nat

VARIABLES
    pending,   \* PENDING_REQUESTS: the record of each trade key
    call,      \* where each API call is, and what is in its channel
    sending,   \* replies taken out of the map and not yet sent to the waiter
    net,       \* messages the relays hold; they are never used up
    published, \* attempts the daemon received
    sentAt,    \* when each attempt registered
    opening,   \* PENDING_OPENS: keys with an open_dispute in flight
    bound,     \* keys bound to an order the client knows
    answered,  \* attempts whose acceptance consumed their record
    late,      \* attempts reconciled by the late-reply paths
    disputed,  \* keys whose trade a DisputeInitiatedByYou moved to Dispute
    disputes,  \* keys with a dispute record
    clock, restarts

wire    == <<net, published>>
effects == <<bound, answered, late, disputed, disputes>>
env     == <<clock, restarts>>
vars    == <<pending, call, sending, wire, sentAt, opening, effects, env>>

Replies == {"accepted", "bond", "rejected"}
NoReply == [reply |-> "none", rid |-> NoAttempt, ts |-> 0]
Reply == [reply : Replies \cup {"none"}, rid : Attempts \cup {NoAttempt}, ts : Int]

(* PendingRequest; kind "None" is an absent entry. *)
Request == [id : Attempts \cup {Zero}, kind : Kinds \cup {"None"},
            tx : Attempts \cup {NoAttempt}, bond_requested : BOOLEAN,
            superseded : Seq(Attempts), sent_at : Nat]

NoRequest == [id |-> Zero, kind |-> "None", tx |-> NoAttempt,
              bond_requested |-> FALSE, superseded |-> <<>>, sent_at |-> 0]

PCs == {"idle", "registered", "waiting", "elapsed", "returned"}
Results == Replies \cup {"none", "noresponse", "failed", "refused"}
Call == [pc : PCs, inbox : Reply, result : Results]

TypeOK ==
    /\ pending \in [Keys -> Request]
    /\ call \in [Attempts -> Call]
    /\ sending \subseteq [to : Attempts, msg : Reply]
    /\ net \subseteq Message
    /\ published \subseteq Attempts /\ late \subseteq Attempts
    /\ answered \subseteq Attempts
    /\ sentAt \in [Attempts -> Nat]
    /\ opening \subseteq Keys /\ bound \subseteq Keys
    /\ disputed \subseteq Keys /\ disputes \subseteq Keys
    /\ clock \in Nat /\ restarts \in Nat

Init ==
    /\ pending = [k \in Keys |-> NoRequest]
    /\ call = [a \in Attempts |-> [pc |-> "idle", inbox |-> NoReply, result |-> "none"]]
    /\ sending = {} /\ net = History /\ published = {}
    /\ sentAt = [a \in Attempts |-> 0]
    /\ opening = {} /\ bound = BoundKeys
    /\ answered = {} /\ late = {} /\ disputed = {} /\ disputes = {}
    /\ clock = 0 /\ restarts = 0

-----------------------------------------------------------------------------
(* The registry's operations.                                              *)

request_id(a) == IF KindOf[a] = "Restore" THEN Zero ELSE a

(* Mutant: any reply on the key counts as the record's own. *)
any_id_matches(p, got) == p.kind # "None"

request_id_matches(p, got) == p.kind # "None" /\ p.id = got

(* Mutant: a second add-invoice replaces the one that still waits. *)
never_in_flight(k, open) == FALSE

(* register_add_invoice_request refuses while an add-invoice still waits:  *)
(* its record is attached and the receiving half is not closed.            *)
in_flight(k, open) == /\ pending[k].kind = "AddInvoice"
                      /\ pending[k].tx # NoAttempt
                      /\ call[pending[k].tx].pc \in open

(* Mutant: a retry forgets the attempts it replaces. *)
none_superseded(a) == <<>>

(* register_dispute_request inherits the nonces of the attempt it replaces. *)
superseded_by(a) ==
    LET p == pending[KeyOf[a]] IN
    IF KindOf[a] = "Dispute" /\ p.kind = "Dispute" THEN Append(p.superseded, p.id) ELSE <<>>

(* Mutant: the record keeps no nonce. *)
NewRequestWithoutNonce(a) ==
    [id |-> NoAttempt, kind |-> KindOf[a], tx |-> a, bond_requested |-> FALSE,
     superseded |-> superseded_by(a), sent_at |-> clock]

NewRequest(a) ==
    [id |-> request_id(a), kind |-> KindOf[a], tx |-> a, bond_requested |-> FALSE,
     superseded |-> superseded_by(a), sent_at |-> clock]

(* The record after detach_request_waiter, for its own attempt only. *)
Detached(a) ==
    LET p == pending[KeyOf[a]] IN
    IF request_id_matches(p, request_id(a)) THEN [p EXCEPT !.tx = NoAttempt] ELSE p

(* The record after remove_pending_request or roll_back_dispute_request. *)
RolledBack(a) ==
    LET p == pending[KeyOf[a]]
        n == Len(p.superseded)
    IN  IF ~request_id_matches(p, request_id(a)) THEN p
        ELSE IF KindOf[a] = "Dispute" /\ n > 0
             THEN [p EXCEPT !.id = p.superseded[n], !.tx = NoAttempt,
                            !.superseded = SubSeq(p.superseded, 1, n - 1)]
             ELSE NoRequest

-----------------------------------------------------------------------------
(* The API calls: create_order, take_order, send_invoice, open_dispute,    *)
(* submit_bond_payout_invoice, restore_session.                            *)

SetCall(a, pc, result) == [call EXCEPT ![a].pc = pc, ![a].result = result]

(* What a call needs before it registers.  A create, a take and a restore  *)
(* derive a fresh trade key; importing the identity again starts the index *)
(* over, so a later restore may come back to a key.  The others act on an  *)
(* order already bound to the key.                                         *)
MayStart(a) ==
    LET others == {b \in Attempts \ {a} : KeyOf[b] = KeyOf[a]} IN
    /\ call[a].pc = "idle"
    /\ \/ KindOf[a] \in {"Create", "Take"} /\ \A b \in others : call[b].pc = "idle"
       \/ KindOf[a] = "Restore" /\ \A b \in others : call[b].pc \in {"idle", "returned"}
       \/ KindOf[a] \in {"AddInvoice", "BondClaimSubmit", "Dispute"} /\ KeyOf[a] \in bound

(* `open` names the calls whose receiver counts as open: that of an elapsed *)
(* wait is about to be dropped, and either answer is possible.              *)
refused(a, open) ==
    \/ KindOf[a] = "AddInvoice" /\ in_flight(KeyOf[a], open)
    \/ KindOf[a] = "Dispute" /\ KeyOf[a] \in opening \cup disputes \cup disputed

register(a) ==
    /\ MayStart(a) /\ ~refused(a, {"registered", "waiting"})
    /\ pending' = [pending EXCEPT ![KeyOf[a]] = NewRequest(a)]
    /\ call' = SetCall(a, "registered", "none")
    /\ sentAt' = [sentAt EXCEPT ![a] = clock]
    /\ opening' = IF KindOf[a] = "Dispute" THEN opening \cup {KeyOf[a]} ELSE opening
    /\ UNCHANGED <<sending, wire, effects, env>>

refuse(a) ==
    /\ MayStart(a) /\ refused(a, {"registered", "waiting", "elapsed"})
    /\ call' = SetCall(a, "returned", "refused")
    /\ UNCHANGED <<pending, sending, wire, sentAt, opening, effects, env>>

Closed(a) == IF KindOf[a] = "Dispute" THEN opening \ {KeyOf[a]} ELSE opening

publish(a) ==
    /\ call[a].pc = "registered"
    /\ call' = SetCall(a, "waiting", "none")
    /\ UNCHANGED <<pending, sending, wire, sentAt, opening, effects, env>>

(* No relay accepted the event in time; one may still hold it. *)
publish_failed(a) ==
    /\ call[a].pc = "registered"
    /\ pending' = [pending EXCEPT ![KeyOf[a]] = RolledBack(a)]
    /\ call' = SetCall(a, "returned", "failed")
    /\ opening' = Closed(a)
    /\ UNCHANGED <<sending, wire, sentAt, effects, env>>

(* The waiter is woken: the caller applies the reply itself. *)
receive(a) ==
    /\ call[a].pc = "waiting" /\ call[a].inbox.reply # "none"
    /\ call' = SetCall(a, "returned", call[a].inbox.reply)
    /\ bound' = IF KindOf[a] \in {"Create", "Take"} /\ call[a].inbox.reply \in {"accepted", "bond"}
                THEN bound \cup {KeyOf[a]} ELSE bound
    /\ disputes' = IF KindOf[a] = "Dispute" /\ call[a].inbox.reply = "accepted"
                   THEN disputes \cup {KeyOf[a]} ELSE disputes
    /\ opening' = Closed(a)
    /\ UNCHANGED <<pending, sending, wire, sentAt, answered, late, disputed, env>>

(* The sending half of the channel is gone: dropped with its record. *)
Hungup(a) == /\ pending[KeyOf[a]].tx # a
             /\ \A s \in sending : s.to # a
             /\ call[a].inbox.reply = "none"

(* Mutant: the wait has no timeout. *)
never_elapses(a) == FALSE /\ UNCHANGED vars

(* The ten seconds are up (or the channel hung up) with nothing received.  *)
(* On threads the dispatcher may run between this and the detach below; on *)
(* the event loop both are one step, and only a create's reply can be      *)
(* between its record and its channel: the trade key is stored in between. *)
elapse(a) ==
    /\ Preemptive
    /\ call[a].pc = "waiting" /\ call[a].inbox.reply = "none"
    /\ call' = SetCall(a, "elapsed", "none")
    /\ UNCHANGED <<pending, sending, wire, sentAt, opening, effects, env>>

detach(a) ==
    /\ \/ call[a].pc = "elapsed"
       \/ /\ ~Preemptive /\ call[a].pc = "waiting" /\ call[a].inbox.reply = "none"
          /\ KindOf[a] = "Create" \/ \A s \in sending : s.to # a
    /\ pending' = [pending EXCEPT ![KeyOf[a]] = Detached(a)]
    /\ call' = SetCall(a, "returned", "noresponse")
    /\ opening' = Closed(a)
    /\ UNCHANGED <<sending, wire, sentAt, effects, env>>

-----------------------------------------------------------------------------
(* The daemon (external): it answers what it received, at most one verdict *)
(* per request, one accepted dispute per trade.                            *)

AnswersTo(kind) ==
    CASE kind = "Create"          -> {"NewOrder", "PayBondInvoice", "CantDo"}
      [] kind = "Take"            -> {"Progress", "PayBondInvoice", "CantDo"}
      [] kind = "AddInvoice"      -> {"Progress", "CantDo"}
      [] kind = "BondClaimSubmit" -> {"BondInvoiceAccepted", "BondPayoutCompleted",
                                      "AddBondInvoice", "CantDo"}
      [] kind = "Dispute"         -> {"DisputeInitiatedByYou", "CantDo"}
      [] kind = "Restore"         -> {"RestoreSession", "CantDo"}

Verdicts(a) == {m.action : m \in {n \in net : n.rid = a}} \ {"AddBondInvoice"}

Consistent(a, action) ==
    /\ KindOf[a] = "Restore" \/ Verdicts(a) \subseteq {action}
       \/ (action = "NewOrder" /\ Verdicts(a) = {"PayBondInvoice"})
       \/ (action = "BondPayoutCompleted" /\ Verdicts(a) = {"BondInvoiceAccepted"})
    /\ action = "DisputeInitiatedByYou" =>
         \A m \in net : m.key = KeyOf[a] /\ m.action = "DisputeInitiatedByYou" => m.rid = a

(* The event reaches the daemon: even before the first relay acknowledged  *)
(* it, and even when every relay's acknowledgement timed out.              *)
reach_daemon(a) ==
    /\ a \notin published
    /\ call[a].pc # "idle" /\ call[a].result # "refused"
    /\ published' = published \cup {a}
    /\ UNCHANGED <<pending, call, sending, net, sentAt, opening, effects, env>>

daemon_answers(a) ==
    /\ a \in published
    /\ \E action \in AnswersTo(KindOf[a]) :
         /\ Consistent(a, action)
         /\ net' = net \cup {[key |-> KeyOf[a], action |-> action,
                              rid |-> IF KindOf[a] = "Restore" THEN NoAttempt ELSE a,
                              ts  |-> IF KindOf[a] = "Restore" THEN clock ELSE 0]}
    /\ UNCHANGED <<pending, call, sending, published, sentAt, opening, effects, env>>

-----------------------------------------------------------------------------
(* dispatch_mostro_message: which record a message consumes.               *)

Woken(p, m, reply) ==
    IF p.tx = NoAttempt THEN sending
    ELSE sending \cup {[to |-> p.tx, msg |-> [reply |-> reply, rid |-> m.rid, ts |-> m.ts]]}

(* Nonces are unique: the position of r in s is the only one. *)
WithoutNonce(s, r) == RemoveAt(s, CHOOSE i \in 1 .. Len(s) : s[i] = r)

Consume(m) == pending' = [pending EXCEPT ![m.key] = NoRequest]

(* m.rid is the nonce of an accepted request. *)
Answer(m) == answered' = answered \cup ({m.rid} \ {NoAttempt})

(* Mutant: any progress message on the key resolves the take. *)
TakesTakeByKey(p, m) == m.action # "CantDo" /\ p.kind = "Take"

(* Mutant: a restore reply of any age resolves the restore. *)
TakesRestoreAnyAge(p, m) == m.action \in {"RestoreSession", "CantDo"} /\ p.kind = "Restore"

TakesTake(p, m)    == m.action # "CantDo" /\ p.kind = "Take" /\ request_id_matches(p, m.rid)
TakesClaim(p, m)   == /\ m.action \in {"BondInvoiceAccepted", "BondPayoutCompleted"}
                      /\ p.kind = "BondClaimSubmit" /\ request_id_matches(p, m.rid)
TakesInvoice(p, m) == m.action # "CantDo" /\ p.kind = "AddInvoice" /\ request_id_matches(p, m.rid)
TakesOlder(p, m)   == m.action = "DisputeInitiatedByYou" /\ p.kind = "Dispute"
                      /\ Contains(p.superseded, m.rid)
TakesDispute(p, m) == /\ m.action = "DisputeInitiatedByYou" /\ p.kind = "Dispute"
                      /\ ~Contains(p.superseded, m.rid) /\ request_id_matches(p, m.rid)
TakesCreate(p, m)  == m.action = "NewOrder" /\ p.kind = "Create" /\ request_id_matches(p, m.rid)
TakesBond(p, m)    == m.action = "PayBondInvoice" /\ p.kind = "Create"
                      /\ request_id_matches(p, m.rid)
Recent(p, m)       == m.ts + RESTORE_REPLY_SKEW_SECS >= p.sent_at
TakesRestore(p, m) == /\ m.action \in {"RestoreSession", "CantDo"}
                      /\ p.kind = "Restore" /\ Recent(p, m)
TakesRejected(p, m) == /\ m.action = "CantDo" /\ ~TakesRestore(p, m)
                       /\ request_id_matches(p, m.rid)

(* A take's first reply of any shape; a late one is only logged. *)
dispatch_take(m) ==
    /\ TakesTake(pending[m.key], m)
    /\ Consume(m)
    /\ sending' = Woken(pending[m.key], m, IF m.action = "PayBondInvoice" THEN "bond" ELSE "accepted")
    /\ Answer(m) /\ UNCHANGED <<late, disputed, disputes, bound>>

(* An acknowledged add-invoice or payout claim. *)
dispatch_ack(m) ==
    /\ TakesInvoice(pending[m.key], m) \/ TakesClaim(pending[m.key], m)
    /\ Consume(m)
    /\ sending' = Woken(pending[m.key], m, "accepted")
    /\ Answer(m) /\ UNCHANGED <<late, disputed, disputes, bound>>

(* The acceptance of a superseded attempt: record_late_acceptance, and the *)
(* newer attempt's record stays.                                           *)
dispatch_older_dispute(m) ==
    /\ TakesOlder(pending[m.key], m)
    /\ pending' = [pending EXCEPT ![m.key].superseded = WithoutNonce(@, m.rid)]
    /\ late' = late \cup {m.rid}
    /\ disputes' = disputes \cup {m.key} /\ disputed' = disputed \cup {m.key}
    /\ Answer(m) /\ UNCHANGED <<sending, bound>>

(* Mutant: the late acceptance only moves the trade row. *)
dispatch_dispute_unrecorded(m) ==
    /\ TakesDispute(pending[m.key], m)
    /\ Consume(m)
    /\ sending' = Woken(pending[m.key], m, "accepted")
    /\ disputed' = disputed \cup {m.key}
    /\ Answer(m) /\ UNCHANGED <<bound, late, disputes>>

dispatch_dispute(m) ==
    /\ TakesDispute(pending[m.key], m)
    /\ Consume(m)
    /\ sending' = Woken(pending[m.key], m, "accepted")
    /\ late' = IF pending[m.key].tx = NoAttempt THEN late \cup {m.rid} ELSE late
    /\ disputes' = IF pending[m.key].tx = NoAttempt THEN disputes \cup {m.key} ELSE disputes
    /\ disputed' = disputed \cup {m.key}
    /\ Answer(m) /\ UNCHANGED bound

(* new-order: wakes the create, or persists the late confirmation; after a *)
(* bond it only confirms the row the bond reply wrote.                     *)
dispatch_new_order(m) ==
    LET p == pending[m.key] IN
    /\ TakesCreate(p, m)
    /\ Consume(m)
    /\ sending' = IF p.bond_requested THEN sending ELSE Woken(p, m, "accepted")
    /\ late' = IF ~p.bond_requested /\ p.tx = NoAttempt THEN late \cup {m.rid} ELSE late
    /\ bound' = bound \cup {m.key}
    /\ Answer(m) /\ UNCHANGED <<disputed, disputes>>

(* Mutant: the bond reply does not mark the record. *)
dispatch_create_bond_unmarked(m) ==
    LET p == pending[m.key] IN
    /\ TakesBond(p, m)
    /\ pending' = [pending EXCEPT ![m.key].tx = NoAttempt]
    /\ sending' = Woken(p, m, "bond")
    /\ late' = IF ~p.bond_requested /\ p.tx = NoAttempt THEN late \cup {m.rid} ELSE late
    /\ bound' = bound \cup {m.key}
    /\ UNCHANGED <<answered, disputed, disputes>>

(* claim_create_bond keeps the record, marked, and takes its waiter; with  *)
(* nobody waiting the reply itself persists the row.                       *)
dispatch_create_bond(m) ==
    LET p == pending[m.key] IN
    /\ TakesBond(p, m)
    /\ pending' = [pending EXCEPT ![m.key].bond_requested = TRUE, ![m.key].tx = NoAttempt]
    /\ sending' = Woken(p, m, "bond")
    /\ late' = IF ~p.bond_requested /\ p.tx = NoAttempt THEN late \cup {m.rid} ELSE late
    /\ bound' = bound \cup {m.key}
    /\ UNCHANGED <<answered, disputed, disputes>>

dispatch_restore(m) ==
    /\ TakesRestore(pending[m.key], m)
    /\ Consume(m)
    /\ sending' = Woken(pending[m.key], m, IF m.action = "CantDo" THEN "rejected" ELSE "accepted")
    /\ UNCHANGED effects

dispatch_cant_do(m) ==
    /\ TakesRejected(pending[m.key], m)
    /\ Consume(m)
    /\ sending' = Woken(pending[m.key], m, "rejected")
    /\ UNCHANGED effects

(* Nothing waits for it: a dispute acceptance still moves the trade row. *)
dispatch_unmatched(m) ==
    LET p == pending[m.key] IN
    /\ ~(\/ TakesTake(p, m) \/ TakesInvoice(p, m) \/ TakesClaim(p, m) \/ TakesOlder(p, m)
         \/ TakesDispute(p, m) \/ TakesCreate(p, m) \/ TakesBond(p, m) \/ TakesRestore(p, m)
         \/ TakesRejected(p, m))
    /\ m.action = "DisputeInitiatedByYou"
    /\ disputed' = disputed \cup {m.key}
    /\ UNCHANGED <<pending, sending, answered, late, disputes, bound>>

dispatch(m) ==
    /\ \/ dispatch_take(m) \/ dispatch_ack(m) \/ dispatch_older_dispute(m)
       \/ dispatch_dispute(m) \/ dispatch_new_order(m) \/ dispatch_create_bond(m)
       \/ dispatch_restore(m) \/ dispatch_cant_do(m) \/ dispatch_unmatched(m)
    /\ UNCHANGED <<call, wire, sentAt, opening, env>>

(* tx.send: lost when the receiver is gone, and when its wait has elapsed. *)
send(s) ==
    /\ s \in sending
    /\ sending' = sending \ {s}
    /\ call' = IF call[s.to].pc \in {"registered", "waiting"}
               THEN [call EXCEPT ![s.to].inbox = s.msg] ELSE call
    /\ UNCHANGED <<pending, wire, sentAt, opening, effects, env>>

-----------------------------------------------------------------------------
(* purge_detached_pending_request, at the end of a per-trade subscription. *)
purge(k) ==
    /\ k \in WatchedKeys
    /\ pending[k].kind # "None" /\ pending[k].tx = NoAttempt
    /\ pending' = [pending EXCEPT ![k] = NoRequest]
    /\ UNCHANGED <<call, sending, wire, sentAt, opening, effects, env>>

(* The process dies: every map and every running call is gone. *)
restart ==
    /\ restarts < MaxRestarts
    /\ restarts' = restarts + 1
    /\ pending' = [k \in Keys |-> NoRequest]
    /\ call' = [a \in Attempts |->
                  IF call[a].pc = "idle" THEN call[a]
                  ELSE [call[a] EXCEPT !.pc = "returned", !.inbox = NoReply]]
    /\ sending' = {} /\ opening' = {}
    /\ UNCHANGED <<wire, sentAt, effects, clock>>

tick ==
    /\ clock < MaxTime
    /\ clock' = clock + 1
    /\ UNCHANGED <<pending, call, sending, wire, sentAt, opening, effects, restarts>>

CallStep(a) == \/ register(a) \/ refuse(a) \/ publish(a) \/ publish_failed(a)
               \/ receive(a) \/ elapse(a) \/ detach(a)

Next == \/ \E a \in Attempts : CallStep(a) \/ reach_daemon(a) \/ daemon_answers(a)
        \/ \E m \in net : dispatch(m)
        \/ \E s \in sending : send(s)
        \/ \E k \in Keys : purge(k)
        \/ restart
        \/ tick

(* A running call is polled until it returns, and its timer fires.  The    *)
(* user need not start a call; the daemon and the relays owe nothing.      *)
Fairness == \A a \in Attempts :
              WF_vars(publish(a) \/ publish_failed(a) \/ receive(a) \/ elapse(a) \/ detach(a))

Spec == Init /\ [][Next]_vars
FairSpec == Spec /\ Fairness

-----------------------------------------------------------------------------
(* A reply that belongs to attempt a: it echoes a's nonce; a restore's is  *)
(* no older than the request, up to the skew.                              *)
Own(a, r) == IF KindOf[a] = "Restore" THEN r.ts + RESTORE_REPLY_SKEW_SECS >= sentAt[a]
             ELSE r.rid = a

(* No call is ever resolved by a reply to another request: replays,        *)
(* unsolicited events and replies to other attempts on the same key        *)
(* (take_matching_*; the module's "correlation rule").                     *)
OnlyOwnReply == \A a \in Attempts : call[a].inbox.reply # "none" => Own(a, call[a].inbox)

(* A call that still waits is never hung up on: no registration, rollback, *)
(* detach or purge by another call drops its sender without a reply        *)
(* (register_add_invoice_request, PENDING_OPENS, detach_request_waiter).   *)
NoStrandedCall == \A a \in Attempts : call[a].pc \in {"registered", "waiting"} => ~Hungup(a)

(* The late paths (persist_late_create_confirmation, record_late_acceptance) *)
(* run only for a call that gave up: never for one that got its reply or     *)
(* still waits, however often the reply is delivered.                        *)
LateOnlyAfterTimeout == \A a \in late : call[a].result = "noresponse"

Answerable(k) ==
    IF pending[k].kind = "Dispute"
    THEN {pending[k].id} \cup {pending[k].superseded[i] : i \in DOMAIN pending[k].superseded}
    ELSE {}

DisputeAccepted(k) == \E b \in answered : KindOf[b] = "Dispute" /\ KeyOf[b] = k

TimedOut(a) == /\ KindOf[a] = "Dispute" /\ call[a].result = "noresponse"
               /\ ~DisputeAccepted(KeyOf[a]) /\ "CantDo" \notin Verdicts(a)

(* A timed-out open_dispute that the daemon accepted stays answerable      *)
(* until an acceptance matches (PendingRequestKind::Dispute.superseded).   *)
TimedOutDisputeAnswerable ==
    \A a \in Attempts :
        TimedOut(a) /\ "DisputeInitiatedByYou" \in Verdicts(a) => a \in Answerable(KeyOf[a])

(* Every timed-out open_dispute stays answerable through any number of     *)
(* retries, failed retries and roll-backs (register_dispute_request,       *)
(* roll_back_dispute_request), unless the daemon refused some attempt; the *)
(* registry lives as long as the process.                                  *)
AnswerableUnlessRefused ==
    \A a \in Attempts : restarts = 0 /\ TimedOut(a) =>
        \/ a \in Answerable(KeyOf[a])
        \/ \E b \in Attempts : KeyOf[b] = KeyOf[a] /\ "CantDo" \in Verdicts(b)

(* An accepted dispute ends with its dispute record, whichever attempt the *)
(* daemon accepted and whether its caller still waited (open_dispute,      *)
(* record_late_acceptance): a disputed trade without one has no solver.    *)
(* A call without a result ended with its process.                         *)
AcceptedDisputeRecorded ==
    \A a \in answered :
        /\ KindOf[a] = "Dispute" /\ call[a].result \notin {"failed", "none"}
        /\ call[a].pc = "returned" /\ \A s \in sending : s.to # a
        => KeyOf[a] \in disputes

(* An acceptance that consumed a create's record is never lost: its caller *)
(* gets it, or the late path persists the order.                           *)
AcceptedCreateKept ==
    \A a \in answered :
        /\ KindOf[a] = "Create" /\ call[a].pc = "returned" /\ \A s \in sending : s.to # a
        => call[a].result \in {"accepted", "bond"} \/ a \in late

(* Every call returns: the reply, the hang-up or the timeout ends it. *)
CallsReturn == \A a \in Attempts : call[a].pc # "idle" ~> call[a].pc = "returned"
=============================================================================
