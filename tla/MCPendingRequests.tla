------------------------- MODULE MCPendingRequests -------------------------
(* Small instances of PendingRequests.  Attempts are split by their kind,  *)
(* and the kinds by trade key: an order's calls, restores and disputes.    *)
EXTENDS PendingRequests, FiniteSets

CONSTANTS k1, k2, k3, Creates, Takes, Invoices, Claims, Restores, OpenDisputes

MCAttempts == Creates \cup Takes \cup Invoices \cup Claims \cup Restores \cup OpenDisputes

MCKeyOf == [a \in MCAttempts |-> IF a \in Restores THEN k2
                                 ELSE IF a \in OpenDisputes THEN k3 ELSE k1]

MCKindOf == [a \in MCAttempts |->
    CASE a \in Creates      -> "Create"
      [] a \in Takes        -> "Take"
      [] a \in Invoices     -> "AddInvoice"
      [] a \in Claims       -> "BondClaimSubmit"
      [] a \in Restores     -> "Restore"
      [] a \in OpenDisputes -> "Dispute"]

(* What an earlier life of a key left on the relays, without a nonce. *)
MCHistory == {[key |-> k, rid |-> NoAttempt, action |-> act, ts |-> -5] :
                k \in Keys, act \in {"NewOrder", "CantDo", "Progress", "RestoreSession"}}

(* Bound: the keys never interact, so a behaviour uses one of them; the    *)
(* clock only matters to restores and a crash to an order's calls.         *)
OneKey ==
    LET used == {KeyOf[a] : a \in {b \in Attempts : call[b].pc # "idle"}} IN
    /\ Cardinality(used) <= 1
    /\ clock > 0 => used = {k2}
    /\ restarts > 0 => used = {k1}
=============================================================================
