----------------------------- MODULE BondClaims -----------------------------
(***************************************************************************)
(* The payout claim on one slashed bond: its phase machine                 *)
(* (rust/src/mostro/bond_claims.rs), the user's submission of an invoice   *)
(* (submit_bond_payout_invoice, rust/src/api/bond.rs) and the dispatcher's *)
(* arms for claim traffic (rust/src/api/orders.rs).                        *)
(*                                                                         *)
(* The claim lives in the database; whoever changes it reads it, computes  *)
(* and writes it back in separate awaits.  The dispatcher serialises its   *)
(* handlers with the order's lock, a submission takes no lock.  The global *)
(* feed replays the daemon's whole history after a restart; within a       *)
(* session an event is handled once.                                       *)
(***************************************************************************)
EXTENDS Integers, FiniteSets

CONSTANTS Submits,    \* calls of submit_bond_payout_invoice; also their nonces
          NoSubmit,
          Slashes,    \* values of slashed_at the daemon may anchor the claim to
          Windows,    \* claim windows the node may advertise
          MaxAsks,    \* cadence retries of one add-bond-invoice
          MaxRounds,  \* payouts the daemon may fail to route
          MaxTime, MaxRestarts

ASSUME ClaimsAssumption ==
    /\ NoSubmit \notin Submits
    /\ Slashes \subseteq Nat /\ Windows \subseteq Nat
    /\ MaxAsks \in Nat /\ MaxRounds \in Nat /\ MaxTime \in Nat /\ MaxRestarts \in Nat

VARIABLES
    claim,    \* the stored claim
    sub,      \* where each submission is, the clone it holds, its channel
    entry,    \* the pending request on the claim's trade key
    disp,     \* the handler that holds the order's lock
    seen,     \* events handled in this session
    net,      \* what the daemon sent; the relays keep it
    daemon,   \* the daemon's own view of the payout
    sent,     \* submissions that reached the daemon
    stored,   \* submissions that wrote Submitted
    clock, restarts

outside == <<net, daemon, sent>>
env     == <<clock, restarts>>
vars    == <<claim, sub, entry, disp, seen, outside, stored, env>>

Phases == {"Pending", "Submitted", "Acknowledged", "Completed", "Expired"}
NoClaim == [phase |-> "None", slashed |-> 0, deadline |-> 0]
BondClaim == [phase : Phases, slashed : Slashes, deadline : Nat] \cup {NoClaim}

Message == [action : {"AddBondInvoice"}, slashed : Slashes, n : Nat, round : Nat]
           \cup [action : {"BondInvoiceAccepted", "BondPayoutCompleted", "CantDo"}, rid : Submits]

NoEntry == [id |-> NoSubmit, waiting |-> FALSE]
NoMessage == [action |-> "None"]
Idle == [pc |-> "idle", msg |-> NoMessage, held |-> NoClaim]

PCs == {"idle", "read", "publishing", "published", "waiting", "expiring", "rejected", "returned"}
Results == {"none", "ok", "rejected", "expired", "notclaimable", "failed", "noresponse"}

TypeOK ==
    /\ claim \in BondClaim
    /\ \A s \in Submits :
         /\ sub[s].pc \in PCs /\ sub[s].held \in BondClaim
         /\ sub[s].inbox \in {"none", "ack", "rejected"} /\ sub[s].result \in Results
    /\ entry \in [id : Submits \cup {NoSubmit}, waiting : BOOLEAN]
    /\ disp.pc \in {"idle", "load", "store"} /\ disp.held \in BondClaim
    /\ net \subseteq Message /\ seen \subseteq net
    /\ sent \subseteq Submits /\ stored \subseteq Submits
    /\ daemon.state \in {"asking", "paying", "paid"}
    /\ clock \in Nat /\ restarts \in Nat

Fresh == [pc |-> "idle", held |-> NoClaim, inbox |-> "none", result |-> "none"]

Init ==
    /\ claim = NoClaim /\ sub = [s \in Submits |-> Fresh]
    /\ entry = NoEntry /\ disp = Idle /\ seen = {} /\ net = {}
    /\ daemon \in [state : {"asking"}, slashed : Slashes, by : {NoSubmit}, round : {0}, asks : {0}]
    /\ sent = {} /\ stored = {} /\ clock = 0 /\ restarts = 0

-----------------------------------------------------------------------------
(* The phase machine.                                                      *)

(* Mutant: off by one at the deadline. *)
past_or_at(now, deadline) == now >= deadline

past(now, deadline) == now > deadline

(* Mutant: the window is subtracted. *)
deadline_before(slashed_at, window) == slashed_at - window

claim_deadline(slashed_at, window) == slashed_at + window

fresh(m, window, now) ==
    LET d == claim_deadline(m.slashed, window) IN
    [phase |-> IF past(now, d) THEN "Expired" ELSE "Pending",
     slashed |-> m.slashed, deadline |-> d]

(* Mutant: a cadence retry re-arms a claim the user already answered. *)
upsert_rearming(c, m, window, now) ==
    IF c.phase = "None" \/ c.slashed # m.slashed THEN fresh(m, window, now)
    ELSE IF c.phase \in {"Submitted", "Acknowledged"} THEN [c EXCEPT !.phase = "Pending"]
    ELSE c

(* Mutant: a re-prompt takes the node's current window. *)
upsert_reanchoring(c, m, window, now) ==
    IF c.phase = "None" \/ c.slashed # m.slashed \/ c.phase = "Acknowledged"
    THEN fresh(m, window, now)
    ELSE IF c.phase = "Expired" /\ ~past(now, c.deadline) THEN [c EXCEPT !.phase = "Pending"]
    ELSE c

(* upsert_claim: what an add-bond-invoice makes of the stored claim c. *)
upsert_claim(c, m, window, now) ==
    IF c.phase = "None" \/ c.slashed # m.slashed THEN fresh(m, window, now)
    ELSE IF c.phase = "Acknowledged" \/ (c.phase = "Expired" /\ ~past(now, c.deadline))
         THEN [c EXCEPT !.phase = "Pending"]
    ELSE c

rank(p) == CASE p = "Pending" -> 0 [] p = "Submitted" -> 1 [] p = "Acknowledged" -> 2
             [] p = "Completed" -> 3 [] p = "Expired" -> 4

(* advance_claim_phase: an unknown claim and a phase already reached stay. *)
advance(c, p) ==
    IF \/ c.phase \in {"None", p, "Completed"}
       \/ c.phase # "Expired" /\ rank(c.phase) > rank(p)
    THEN c ELSE [c EXCEPT !.phase = p]

(* resolve_submission_rejection *)
after_rejection(c, now) ==
    IF c.phase \in {"Acknowledged", "Completed"} THEN c
    ELSE [c EXCEPT !.phase = IF past(now, c.deadline) THEN "Expired" ELSE "Pending"]

-----------------------------------------------------------------------------
(* submit_bond_payout_invoice.                                             *)

Step(s, pc) == sub' = [sub EXCEPT ![s].pc = pc]
Return(s, result) == sub' = [sub EXCEPT ![s].pc = "returned", ![s].result = result]

(* claim_for_order, the phase and deadline checks: the clone s works on. *)
read_claim(s) ==
    /\ sub[s].pc = "idle" /\ claim # NoClaim
    /\ sub' = [sub EXCEPT ![s] =
         IF claim.phase \notin {"Pending", "Submitted"}
         THEN [Fresh EXCEPT !.pc = "returned", !.result = "notclaimable"]
         ELSE [Fresh EXCEPT !.pc = IF past(clock, claim.deadline) THEN "expiring" ELSE "read",
                            !.held = claim]]
    /\ UNCHANGED <<claim, entry, disp, seen, outside, stored, env>>

persist_expired(s) ==
    /\ sub[s].pc = "expiring"
    /\ claim' = [sub[s].held EXCEPT !.phase = "Expired"]
    /\ Return(s, "expired")
    /\ UNCHANGED <<entry, disp, seen, outside, stored, env>>

(* The record is inserted whatever the key holds. *)
register(s) ==
    /\ sub[s].pc = "read"
    /\ entry' = [id |-> s, waiting |-> TRUE]
    /\ Step(s, "publishing")
    /\ UNCHANGED <<claim, disp, seen, outside, stored, env>>

publish(s) ==
    /\ sub[s].pc = "publishing"
    /\ Step(s, "published")
    /\ UNCHANGED <<claim, entry, disp, seen, outside, stored, env>>

publish_failed(s) ==
    /\ sub[s].pc = "publishing"
    /\ entry' = IF entry.id = s THEN NoEntry ELSE entry
    /\ Return(s, "failed")
    /\ UNCHANGED <<claim, disp, seen, outside, stored, env>>

(* The clone read before the publish is written back as Submitted. *)
persist_submitted(s) ==
    /\ sub[s].pc = "published"
    /\ claim' = [sub[s].held EXCEPT !.phase = "Submitted"]
    /\ stored' = stored \cup {s}
    /\ Step(s, "waiting")
    /\ UNCHANGED <<entry, disp, seen, outside, env>>

acknowledged(s) ==
    /\ sub[s].pc = "waiting" /\ sub[s].inbox = "ack"
    /\ Return(s, "ok")
    /\ UNCHANGED <<claim, entry, disp, seen, outside, stored, env>>

(* A rejection is resolved from the claim as it is now. *)
resolve_rejection(s) ==
    /\ sub[s].pc = "waiting" /\ sub[s].inbox = "rejected"
    /\ LET next == after_rejection(claim, clock) IN
       sub' = [sub EXCEPT ![s].held = next,
                          ![s].pc = IF next = claim /\ claim.phase \in {"Acknowledged", "Completed", "Expired"}
                                    THEN "returned" ELSE "rejected",
                          ![s].result = "rejected"]
    /\ UNCHANGED <<claim, entry, disp, seen, outside, stored, env>>

persist_rejection(s) ==
    /\ sub[s].pc = "rejected"
    /\ claim' = sub[s].held
    /\ Return(s, "rejected")
    /\ UNCHANGED <<entry, disp, seen, outside, stored, env>>

(* Ten seconds, or the record was replaced and its channel hung up. *)
timeout(s) ==
    /\ sub[s].pc = "waiting" /\ sub[s].inbox = "none"
    /\ entry' = IF entry.id = s THEN [entry EXCEPT !.waiting = FALSE] ELSE entry
    /\ Return(s, "noresponse")
    /\ UNCHANGED <<claim, disp, seen, outside, stored, env>>

-----------------------------------------------------------------------------
(* The dispatcher's arms.                                                  *)

Wake(s, reply) ==
    /\ entry' = IF entry.id = s THEN NoEntry ELSE entry
    /\ sub' = IF entry = [id |-> s, waiting |-> TRUE]
              THEN [sub EXCEPT ![s].inbox = reply] ELSE sub

(* A new event takes the order's lock, wakes its submission and goes on to *)
(* its arm; a CantDo has no claim to write.                                *)
dispatch(m) ==
    /\ disp.pc = "idle" /\ m \in net \ seen
    /\ seen' = seen \cup {m}
    /\ \/ /\ m.action = "AddBondInvoice"
          /\ disp' = [pc |-> "load", msg |-> m, held |-> NoClaim]
          /\ UNCHANGED <<sub, entry>>
       \/ /\ m.action \in {"BondInvoiceAccepted", "BondPayoutCompleted"}
          /\ Wake(m.rid, "ack")
          /\ disp' = [pc |-> "load", msg |-> m, held |-> NoClaim]
       \/ /\ m.action = "CantDo"
          /\ Wake(m.rid, "rejected")
          /\ UNCHANGED disp
    /\ UNCHANGED <<claim, outside, stored, env>>

(* get_bond_claim *)
load_claim ==
    /\ disp.pc = "load"
    /\ disp' = [disp EXCEPT !.pc = "store", !.held = claim]
    /\ UNCHANGED <<claim, sub, entry, seen, outside, stored, env>>

(* Mutant: an accepted invoice counts as paid. *)
VerdictPaid(m) == "Completed"

(* The arm of BondInvoiceAccepted and BondPayoutCompleted. *)
Verdict(m) == IF m.action = "BondInvoiceAccepted" THEN "Acknowledged" ELSE "Completed"

(* What the arm writes, `window` being the window the node advertises now. *)
Applied(m, c, window) ==
    IF m.action = "AddBondInvoice" THEN upsert_claim(c, m, window, clock)
    ELSE advance(c, Verdict(m))

(* persist_claim, unless nothing changed; the lock is released. *)
store_claim ==
    /\ disp.pc = "store"
    /\ \E window \in Windows :
         LET next == Applied(disp.msg, disp.held, window) IN
         claim' = IF next = disp.held THEN claim ELSE next
    /\ disp' = Idle
    /\ UNCHANGED <<sub, entry, seen, outside, stored, env>>

-----------------------------------------------------------------------------
(* The daemon (external): it asks on a cadence, accepts one invoice at a   *)
(* time, pays it, or fails to and asks again.                              *)

ask ==
    /\ daemon.state = "asking" /\ daemon.asks < MaxAsks
    /\ daemon' = [daemon EXCEPT !.asks = @ + 1]
    /\ net' = net \cup {[action |-> "AddBondInvoice", slashed |-> daemon.slashed,
                         n |-> daemon.asks + 1, round |-> daemon.round]}
    /\ UNCHANGED <<claim, sub, entry, disp, seen, sent, stored, env>>

Answers(s) == \E m \in net : m.action # "AddBondInvoice" /\ m.rid = s

(* An event may reach the daemon before, or without, the publish returning. *)
reach_daemon(s) ==
    /\ s \notin sent /\ sub[s].pc \in PCs \ {"idle", "read", "expiring"}
    /\ sub[s].result \notin {"notclaimable", "expired"}
    /\ sent' = sent \cup {s}
    /\ UNCHANGED <<claim, sub, entry, disp, seen, net, daemon, stored, env>>

accept(s) ==
    /\ s \in sent /\ ~Answers(s) /\ daemon.state = "asking"
    /\ daemon' = [daemon EXCEPT !.state = "paying", !.by = s]
    /\ net' = net \cup {[action |-> "BondInvoiceAccepted", rid |-> s]}
    /\ UNCHANGED <<claim, sub, entry, disp, seen, sent, stored, env>>

reject(s) ==
    /\ s \in sent /\ ~Answers(s)
    /\ net' = net \cup {[action |-> "CantDo", rid |-> s]}
    /\ UNCHANGED <<claim, sub, entry, disp, seen, daemon, sent, stored, env>>

pay ==
    /\ daemon.state = "paying"
    /\ daemon' = [daemon EXCEPT !.state = "paid"]
    /\ net' = net \cup {[action |-> "BondPayoutCompleted", rid |-> daemon.by]}
    /\ UNCHANGED <<claim, sub, entry, disp, seen, sent, stored, env>>

give_up_paying ==
    /\ daemon.state = "paying" /\ daemon.round < MaxRounds
    /\ daemon' = [daemon EXCEPT !.state = "asking", !.round = @ + 1, !.asks = 0]
    /\ UNCHANGED <<claim, sub, entry, disp, seen, net, sent, stored, env>>

(* The anchor of the slash moves (a range order's parent). *)
reanchor ==
    /\ daemon.state = "asking" /\ daemon.asks < MaxAsks
    /\ \E t \in Slashes : t > daemon.slashed /\ daemon' = [daemon EXCEPT !.slashed = t]
    /\ UNCHANGED <<claim, sub, entry, disp, seen, net, sent, stored, env>>

(* Only the claim is durable.  The feed then replays everything. *)
restart ==
    /\ restarts < MaxRestarts
    /\ restarts' = restarts + 1
    /\ sub' = [s \in Submits |-> IF sub[s].pc \in {"idle", "read", "expiring"} THEN Fresh
                                 ELSE [sub[s] EXCEPT !.pc = "returned", !.inbox = "none"]]
    /\ entry' = NoEntry /\ disp' = Idle /\ seen' = {}
    /\ UNCHANGED <<claim, outside, stored, clock>>

tick ==
    /\ clock < MaxTime /\ clock' = clock + 1
    /\ UNCHANGED <<claim, sub, entry, disp, seen, outside, stored, restarts>>

Submit(s) == \/ read_claim(s) \/ persist_expired(s) \/ register(s) \/ publish(s)
             \/ publish_failed(s) \/ persist_submitted(s) \/ acknowledged(s)
             \/ resolve_rejection(s) \/ persist_rejection(s) \/ timeout(s)

Next == \/ \E s \in Submits : Submit(s) \/ reach_daemon(s) \/ accept(s) \/ reject(s)
        \/ \E m \in net : dispatch(m)
        \/ load_claim \/ store_claim
        \/ ask \/ pay \/ give_up_paying \/ reanchor
        \/ restart \/ tick

Spec == Init /\ [][Next]_vars

-----------------------------------------------------------------------------
(* A claim is shown as expired only once its deadline is past, whoever     *)
(* decided it: an arrival, a submission or a rejection.                    *)
ExpiredOnlyPastDeadline == claim.phase = "Expired" => clock > claim.deadline

(* The daemon kept one anchor so far: another one replaces the claim. *)
OneAnchor == \A m \in net : m.action = "AddBondInvoice" => m.slashed = claim.slashed

(* The deadline the user was shown is frozen: no re-prompt, restart,       *)
(* replay or change of the node's policy moves it while the anchor stays.  *)
DeadlineFrozen == [][claim # NoClaim /\ OneAnchor => claim'.deadline = claim.deadline]_vars

(* Until the daemon judged some invoice, a published one keeps the form    *)
(* closed: no cadence retry, replay, restart or failed second submission   *)
(* re-arms it (upsert_claim, submit_bond_payout_invoice).                  *)
SubmittedUntilJudged ==
    stored # {} /\ OneAnchor /\ (\A s \in Submits : ~Answers(s))
        => claim.phase \in {"Submitted", "Expired"}

(* The claim tells the truth: acknowledged only if the daemon accepted an  *)
(* invoice, completed only if it paid.                                     *)
VerdictsReal ==
    /\ claim.phase = "Acknowledged" => \E m \in net : m.action = "BondInvoiceAccepted"
    /\ claim.phase = "Completed" => daemon.state = "paid"

(* A submission that returned Ok left its acknowledgement on record.       *)
AcknowledgementRecorded ==
    \A s \in Submits :
        sub[s].result = "ok" /\ disp.pc = "idle" /\ (\A t \in Submits \ {s} : sub[t].pc = "idle")
            => claim.phase # "Submitted"

(* A retried add-bond-invoice changes nothing: an acknowledged claim is    *)
(* re-armed only after the daemon failed to pay it.                        *)
RearmedOnlyAfterFailure ==
    [][claim.phase = "Acknowledged" /\ claim'.phase = "Pending" => daemon.round > 0]_vars
=============================================================================
