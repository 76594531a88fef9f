------------------------------- MODULE Cashu -------------------------------
(***************************************************************************)
(* A Cashu wallet's sends and the escrow of one trade (cashu/wallet.rs,    *)
(* cashu/escrow.rs).  A send reserves proofs, swaps them at the mint into  *)
(* a token and hands it out; either step may fail with the mint's part     *)
(* done or not.  An escrow token is locked to two of seller, buyer and     *)
(* Mostro, and after its locktime to the seller alone; the buyer's app     *)
(* verifies it, parties sign, and one of them redeems it.                  *)
(*                                                                         *)
(* The mint and cdk are external, modelled by what the code says of them:  *)
(* a swap is all or nothing, a proof is spent once and only by who meets   *)
(* its condition, and revoke_send takes back a token that exists.          *)
(***************************************************************************)
EXTENDS Integers, FiniteSets

CONSTANTS Sends,          \* send_with_conditions calls of the seller's wallet
          Funds,          \* its sats; a send takes one
          Proofs,         \* of the escrow token
          MinLocktime,    \* the locktime the trade requires
          MaxTime         \* bound on the clock, in days

VARIABLES spendable, send,  \* the wallet, and its sends
          token,            \* the escrow token on its way to the buyer
          spentBy,          \* the mint: who signed the spend of each proof
          time,
          verified,         \* the buyer's app: verify_escrow_token returned Ok
          checking,         \* ... and may be waiting for the mint's answer
          handed            \* signatures handed over: per party, over which proofs

vars == <<spendable, send, token, spentBy, time, verified, checking, handed>>
escrow == <<spentBy, time, verified, checking, handed>>

Parties == {"seller", "buyer", "mostro"}
Condition == [keys : {"three", "seller"}, locktime : 0..MaxTime]
NoToken == [p \in Proofs |-> [keys |-> "seller", locktime |-> 0]]
Tokens == [Proofs -> Condition]

TypeOK ==
    /\ spendable \in 0..Funds
    /\ send \in [Sends -> [pc : {"idle", "prepared", "failing", "done"}, kind : {"plain", "escrow"},
                           saga : {"none", "reserved", "created", "revoked"},
                           result : {"none", "token", "CashuSendFailed", "CashuSendUnresolved"}]]
    /\ token \in Tokens /\ spentBy \in [Proofs -> SUBSET Parties] /\ time \in 0..MaxTime
    /\ {verified, checking} \subseteq BOOLEAN /\ handed \in [Parties -> SUBSET Proofs]

Init ==
    /\ spendable = Funds
    /\ send = [o \in Sends |-> [pc |-> "idle", kind |-> "plain", saga |-> "none", result |-> "none"]]
    /\ token = NoToken /\ spentBy = [p \in Proofs |-> {}] /\ time = 0
    /\ verified = FALSE /\ checking = FALSE /\ handed = [x \in Parties |-> {}]

-----------------------------------------------------------------------------
(* Sending.                                                                *)

prepare_send(o) ==
    /\ send[o].pc = "idle"
    /\ \E k \in {"plain", "escrow"} :
         \/ /\ spendable > 0 /\ spendable' = spendable - 1
            /\ send' = [send EXCEPT ![o] = [@ EXCEPT !.pc = "prepared", !.kind = k, !.saga = "reserved"]]
         \/ /\ send' = [send EXCEPT ![o] = [@ EXCEPT !.pc = "done", !.kind = k, !.result = "CashuSendFailed"]]
            /\ UNCHANGED spendable
    /\ UNCHANGED <<token, escrow>>

(* The 2-of-3 of escrow_conditions; a locktime that has passed is refused  *)
(* before anything is reserved.                                            *)
escrow_conditions(locktime) == [p \in Proofs |-> [keys |-> "three", locktime |-> locktime]]

(* confirm: it hands the token out, or fails: for good and rolled back by  *)
(* cdk, on a timeout with the proofs left reserved, or with the token made.*)
confirm(o) ==
    /\ send[o].pc = "prepared"
    /\ \/ /\ send' = [send EXCEPT ![o] = [@ EXCEPT !.pc = "done", !.saga = "created", !.result = "token"]]
          /\ IF send[o].kind = "escrow" /\ token = NoToken
             THEN \E l \in time + 1 .. MaxTime : token' = escrow_conditions(l)
             ELSE UNCHANGED token
          /\ UNCHANGED spendable
       \/ /\ send' = [send EXCEPT ![o] = [@ EXCEPT !.pc = "failing", !.saga = "none"]]
          /\ spendable' = spendable + 1 /\ UNCHANGED token
       \/ /\ \E s \in {"reserved", "created"} :
               send' = [send EXCEPT ![o] = [@ EXCEPT !.pc = "failing", !.saga = s]]
          /\ UNCHANGED <<spendable, token>>
    /\ UNCHANGED escrow

(* revoke_send swaps a token back, which takes a token this wallet can     *)
(* spend, and a mint that answers.                                         *)
Revocable(o) == send[o].saga = "created" /\ send[o].kind = "plain"

(* Mutant: a send that could not be revoked is reported like one that was. *)
send_failed_either_way(o) ==
    /\ send[o].pc = "failing"
    /\ \/ /\ Revocable(o) /\ spendable' = spendable + 1
          /\ send' = [send EXCEPT ![o] = [@ EXCEPT !.pc = "done", !.saga = "revoked",
                                                   !.result = "CashuSendFailed"]]
       \/ /\ send' = [send EXCEPT ![o] = [@ EXCEPT !.pc = "done", !.result = "CashuSendFailed"]]
          /\ UNCHANGED spendable
    /\ UNCHANGED <<token, escrow>>

send_failed(o) ==
    /\ send[o].pc = "failing"
    /\ \/ /\ Revocable(o) /\ spendable' = spendable + 1
          /\ send' = [send EXCEPT ![o] = [@ EXCEPT !.pc = "done", !.saga = "revoked",
                                                   !.result = "CashuSendFailed"]]
       \/ /\ send' = [send EXCEPT ![o] = [@ EXCEPT !.pc = "done", !.result = "CashuSendUnresolved"]]
          /\ UNCHANGED spendable
    /\ UNCHANGED <<token, escrow>>

-----------------------------------------------------------------------------
(* The escrow.                                                             *)

(* The mint: signers may spend ps now.                                     *)
Satisfies(signers, p) ==
    \/ token[p].keys = "three" /\ Cardinality(signers) >= 2
    \/ "seller" \in signers /\ (token[p].keys = "seller" \/ time >= token[p].locktime)
Spendable(signers, ps) ==
    token # NoToken /\ \A p \in ps : spentBy[p] = {} /\ Satisfies(signers, p)
Spend(signers, ps) == spentBy' = [p \in Proofs |-> IF p \in ps THEN signers ELSE spentBy[p]]

(* A token another client built, for the buyer to judge.                   *)
token_arrives ==
    /\ token = NoToken /\ \A o \in Sends : send[o].pc = "idle"
    /\ token' \in Tokens \ {NoToken}
    /\ UNCHANGED <<spendable, send, escrow>>

(* Mutant: one proof is looked at.                                         *)
verify_one_proof ==
    \E p \in Proofs : token[p].keys = "three" /\ token[p].locktime >= MinLocktime

(* verify_conditions, of every proof.                                      *)
verify_conditions ==
    \A p \in Proofs : token[p].keys = "three" /\ token[p].locktime >= MinLocktime

(* verify_escrow_token: the shape first ...                                *)
verify_escrow_token ==
    /\ token # NoToken /\ ~checking /\ ~verified
    /\ verify_conditions /\ checking' = TRUE
    /\ UNCHANGED <<spendable, send, token, spentBy, time, verified, handed>>

(* ... then what the mint says of the proofs, or that it cannot be asked.  *)
check_proofs_spent ==
    /\ checking /\ checking' = FALSE
    /\ verified' \in {FALSE, \A p \in Proofs : spentBy[p] = {}}
    /\ UNCHANGED <<spendable, send, token, spentBy, time, handed>>

(* sign_proofs, by an app that verified the token again, or by the daemon; *)
(* the list of signatures may reach the peer cut short.                    *)
sign_proofs(x) ==
    /\ token # NoToken /\ verify_conditions /\ \A p \in Proofs : spentBy[p] = {}
    /\ \E ps \in (SUBSET Proofs) \ {{}} : handed' = [handed EXCEPT ![x] = @ \cup ps]
    /\ UNCHANGED <<spendable, send, token, spentBy, time, verified, checking>>

(* The receive at the mint, which refuses or swaps them all; what it       *)
(* answers may be lost, and changes nothing here.                          *)
receive_proofs(signers, ps) == Spendable(signers, ps) /\ Spend(signers, ps)

(* Mutant: the proofs the peer signed, without the others.                 *)
combine_and_redeem_signed(x, peer) ==
    /\ x # peer /\ handed[peer] # {}
    /\ receive_proofs({x, peer}, handed[peer])
    /\ UNCHANGED <<spendable, send, token, time, verified, checking, handed>>

(* combine_and_redeem: a missing signature is refused before the mint.     *)
combine_and_redeem(x, peer) ==
    /\ x # peer /\ handed[peer] = Proofs
    /\ receive_proofs({x, peer}, Proofs)
    /\ UNCHANGED <<spendable, send, token, time, verified, checking, handed>>

(* reclaim_after_locktime.                                                 *)
reclaim_after_locktime ==
    /\ token # NoToken /\ \A p \in Proofs : token[p].locktime <= time
    /\ receive_proofs({"seller"}, Proofs)
    /\ UNCHANGED <<spendable, send, token, time, verified, checking, handed>>

(* A seller of another client spends whatever the mint lets it.            *)
seller_spends ==
    /\ \E ps \in (SUBSET Proofs) \ {{}} : Spendable({"seller"}, ps) /\ Spend({"seller"}, ps)
    /\ UNCHANGED <<spendable, send, token, time, verified, checking, handed>>

Tick ==
    /\ time < MaxTime /\ time' = time + 1
    /\ UNCHANGED <<spendable, send, token, spentBy, verified, checking, handed>>

Next ==
    \/ \E o \in Sends : prepare_send(o) \/ confirm(o) \/ send_failed(o)
    \/ token_arrives \/ verify_escrow_token \/ check_proofs_spent
    \/ \E x \in Parties : sign_proofs(x)
    \/ \E x \in {"seller", "buyer"}, peer \in Parties : combine_and_redeem(x, peer)
    \/ reclaim_after_locktime \/ seller_spends \/ Tick

Spec == Init /\ [][Next]_vars

-----------------------------------------------------------------------------
(* "The send failed and the proofs are back" (create_token): nothing of    *)
(* it is reserved and no token of it is left.                              *)
FailedSendIsBack ==
    \A o \in Sends : send[o].result = "CashuSendFailed" => send[o].saga \in {"none", "revoked"}

(* An escrow the buyer's app called good is there until the locktime the   *)
(* trade requires, unless two parties signed it away                       *)
(* (verify_escrow_token).                                                  *)
EscrowHolds ==
    verified => \A p \in Proofs :
        spentBy[p] = {} \/ Cardinality(spentBy[p]) >= 2 \/ time >= MinLocktime

(* It moves as a whole, to one party (combine_and_redeem,                  *)
(* reclaim_after_locktime).                                                *)
MovesWhole ==
    (verified /\ time < MinLocktime) => \A p, q \in Proofs : spentBy[p] = spentBy[q]
=============================================================================
