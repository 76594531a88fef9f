-------------------------------- MODULE Nwc --------------------------------
(***************************************************************************)
(* Nostr Wallet Connect (nwc/client.rs, api/nwc.rs, nwc_provider.dart).    *)
(* One wallet is connected at a time, in WALLET_STORE; the Dart side shows *)
(* one and keeps its URI for the next start.  A connection is set up over  *)
(* several awaits, at start from the stored URI and by the user, so two    *)
(* may be under way.  A call works on the client it found, which may be    *)
(* replaced meanwhile, and takes the first readable answer that client     *)
(* hears: answers carry no trace of their request here, as the code looks  *)
(* at none.  The wallet is the environment.                                *)
(***************************************************************************)
EXTENDS Integers

CONSTANTS Clients,      \* one per connect_wallet
          Wallets, NoWallet,
          Calls,        \* pay_invoice and make_invoice calls
          Invoices      \* invoices the user may pay

VARIABLES client,       \* WALLET_STORE.client
          live,         \* clients connected to their relays
          setup,        \* connect_wallet, per client
          discarded,    \* what disconnect_wallet took and still has to disconnect
          shown, uri,   \* nwcProvider's wallet, and the stored URI's
          calls,
          requests,     \* what reached the wallet and has no answer yet
          paid          \* the wallet's payments

vars == <<client, live, setup, discarded, shown, uri, calls, requests, paid>>
setups == <<client, live, setup, discarded, shown, uri>>

NoClient == 0
Nothing == "none"
Setup == [pc : {"unused", "info", "install", "notify", "returned", "done"},
          wallet : Wallets \cup {NoWallet}, old : Clients \cup {NoClient}, by : {"start", "user"}]
Call == [pc : {"idle", "waiting", "done"}, method : {"pay", "make"}, invoice : Invoices,
         client : Clients \cup {NoClient}, from : Calls \cup {Nothing},
         result : {"none", "ok", "failed"}]

TypeOK ==
    /\ client \in Clients \cup {NoClient} /\ live \subseteq Clients
    /\ setup \in [Clients -> Setup] /\ discarded \in Clients \cup {NoClient}
    /\ {shown, uri} \subseteq Wallets \cup {NoWallet}
    /\ calls \in [Calls -> Call] /\ requests \subseteq Calls /\ paid \subseteq Invoices

Init ==
    /\ client = NoClient /\ live = {} /\ discarded = NoClient
    /\ setup = [k \in Clients |-> [pc |-> "unused", wallet |-> NoWallet, old |-> NoClient, by |-> "user"]]
    /\ shown = NoWallet /\ uri \in Wallets \cup {NoWallet}
    /\ calls = [c \in Calls |-> [pc |-> "idle", method |-> "pay", invoice |-> CHOOSE i \in Invoices : TRUE,
                                 client |-> NoClient, from |-> Nothing, result |-> "none"]]
    /\ requests = {} /\ paid = {}

-----------------------------------------------------------------------------
(* The connection.                                                         *)

Unused == {k \in Clients : setup[k].pc = "unused"}
Begun == Clients \ Unused

begin(k, w, by) ==
    /\ setup' = [setup EXCEPT ![k] = [pc |-> "info", wallet |-> w, old |-> NoClient, by |-> by]]
    /\ live' = live \cup {k}
    /\ UNCHANGED <<client, discarded, shown, uri, calls, requests, paid>>

(* _restoreNwcConnection, in the background of a start.                    *)
restoreNwcConnection(k) ==
    /\ k \in Unused /\ \A j \in Unused : k <= j
    /\ Begun = {} /\ uri # NoWallet
    /\ begin(k, uri, "start")

(* _connect on the wallet screen, which shows its form while no wallet is. *)
connect(k) ==
    /\ k \in Unused /\ \A j \in Unused : k <= j
    /\ shown = NoWallet
    /\ \E w \in Wallets : begin(k, w, "user")

(* NwcClient::new and get_info: without an answer the client is dropped.   *)
get_info(k) ==
    /\ setup[k].pc = "info"
    /\ \/ setup' = [setup EXCEPT ![k].pc = "install"] /\ UNCHANGED live
       \/ setup' = [setup EXCEPT ![k].pc = "done"] /\ live' = live \ {k}
    /\ UNCHANGED <<client, discarded, shown, uri, calls, requests, paid>>

(* Mutant: the client in the store is dropped without a farewell.          *)
connect_wallet_forgets(k) ==
    /\ setup[k].pc = "install"
    /\ setup' = [setup EXCEPT ![k].pc = "notify"]
    /\ client' = k
    /\ UNCHANGED <<live, discarded, shown, uri, calls, requests, paid>>

(* connect_wallet swaps the client under the lock ...                      *)
connect_wallet(k) ==
    /\ setup[k].pc = "install"
    /\ setup' = [setup EXCEPT ![k].pc = "notify", ![k].old = client]
    /\ client' = k
    /\ UNCHANGED <<live, discarded, shown, uri, calls, requests, paid>>

(* ... and disconnects the old one outside it.                             *)
disconnect_old(k) ==
    /\ setup[k].pc = "notify"
    /\ setup' = [setup EXCEPT ![k].pc = "returned", ![k].old = NoClient]
    /\ live' = live \ {setup[k].old}
    /\ UNCHANGED <<client, discarded, shown, uri, calls, requests, paid>>

(* Back in Dart; a screen left meanwhile records nothing.                  *)
setConnected(k) ==
    /\ setup[k].pc = "returned"
    /\ setup' = [setup EXCEPT ![k].pc = "done"]
    /\ \/ /\ shown' = setup[k].wallet
          /\ uri' = IF setup[k].by = "user" THEN setup[k].wallet ELSE uri
       \/ setup[k].by = "user" /\ UNCHANGED <<shown, uri>>
    /\ UNCHANGED <<client, live, discarded, calls, requests, paid>>

(* disconnect_wallet, from the wallet screen: the store is emptied, the    *)
(* client disconnected, the URI forgotten.                                 *)
disconnect_wallet ==
    /\ shown # NoWallet /\ discarded = NoClient
    /\ discarded' = client /\ client' = NoClient
    /\ IF client = NoClient THEN shown' = NoWallet /\ uri' = NoWallet
       ELSE UNCHANGED <<shown, uri>>
    /\ UNCHANGED <<live, setup, calls, requests, paid>>

setDisconnected ==
    /\ discarded # NoClient /\ discarded' = NoClient
    /\ live' = live \ {discarded}
    /\ shown' = NoWallet /\ uri' = NoWallet
    /\ UNCHANGED <<client, setup, calls, requests, paid>>

-----------------------------------------------------------------------------
(* Calls.                                                                  *)

(* send_request: subscribed first, then published.  A failed publish may   *)
(* have arrived.                                                           *)
send_request(c) ==
    /\ calls[c].pc = "idle" /\ client # NoClient
    /\ \E m \in {"pay", "make"}, i \in Invoices, sent \in BOOLEAN :
         /\ sent => client \in live
         /\ calls' = [calls EXCEPT ![c] =
                [@ EXCEPT !.method = m, !.invoice = i, !.client = client,
                          !.pc = IF sent THEN "waiting" ELSE "done",
                          !.result = IF sent THEN "none" ELSE "failed"]]
         /\ \/ requests' = requests \cup {c}
            \/ ~sent /\ UNCHANGED requests
    /\ UNCHANGED <<setups, paid>>

(* Mutant: an answer without an error is a payment.                        *)
parse_lenient(method, answer) == IF answer = "error" THEN "failed" ELSE "ok"

(* What a call makes of an answer: the result of another method does not   *)
(* parse.                                                                  *)
parse(method, answer) == IF answer = method THEN "ok" ELSE "failed"

(* The wallet deals with c's request, refusing what is paid already; its   *)
(* answer ends every call that waits on that client, if it is still there. *)
answer(c) ==
    /\ c \in requests /\ requests' = requests \ {c}
    /\ \E a \in {calls[c].method, "error"} :
         /\ ~(a = "pay" /\ calls[c].invoice \in paid)
         /\ paid' = IF a = "pay" THEN paid \cup {calls[c].invoice} ELSE paid
         /\ calls' = [d \in Calls |->
                IF /\ calls[d].pc = "waiting" /\ calls[d].client = calls[c].client
                   /\ calls[c].client \in live
                THEN [calls[d] EXCEPT !.pc = "done", !.from = c, !.result = parse(calls[d].method, a)]
                ELSE calls[d]]
    /\ UNCHANGED setups

(* NWC_TIMEOUT.                                                            *)
elapse(c) ==
    /\ calls[c].pc = "waiting"
    /\ calls' = [calls EXCEPT ![c].pc = "done", ![c].result = "failed"]
    /\ UNCHANGED <<setups, requests, paid>>

Next ==
    \/ \E k \in Clients : \/ restoreNwcConnection(k) \/ connect(k) \/ get_info(k)
                          \/ connect_wallet(k) \/ disconnect_old(k) \/ setConnected(k)
    \/ disconnect_wallet \/ setDisconnected
    \/ \E c \in Calls : send_request(c) \/ answer(c) \/ elapse(c)

Spec == Init /\ [][Next]_vars

-----------------------------------------------------------------------------
(* No wallet replaced or discarded stays connected: one that is, is in the *)
(* store or still in the hands of a call that will disconnect it           *)
(* (connect_wallet, disconnect_wallet).                                    *)
NoneLeftOpen ==
    live \subseteq {client, discarded} \cup {setup[k].old : k \in Clients}
                   \cup {k \in Clients : setup[k].pc \in {"info", "install"}}

(* A pay_invoice that reports success was ended by the success of a        *)
(* payment that this call's own wallet connection made: no make_invoice's   *)
(* answer, no error and no answer of a wallet since replaced or discarded  *)
(* is told as a payment (send_request, disconnect).  Which payment it was  *)
(* the code does not check: see SuccessIsPaid.                             *)
SuccessIsPayment ==
    \A c \in Calls : (calls[c].method = "pay" /\ calls[c].result = "ok") =>
        \E d \in Calls : /\ calls[c].from = d /\ calls[d].method = "pay"
                         /\ calls[d].client = calls[c].client /\ calls[d].invoice \in paid

(* "Wait for the matching response on the notification channel"            *)
(* (send_request): an invoice reported as paid was paid.  Any readable     *)
(* answer ends the wait, so that of another payment, one that timed out    *)
(* before or runs beside, does too.                                        *)
SuccessIsPaid ==
    \A c \in Calls : (calls[c].method = "pay" /\ calls[c].result = "ok") => calls[c].invoice \in paid

(* With nothing under way, a wallet in the store is the one the user chose *)
(* last and the stored URI will bring back (api/nwc, nwc_provider).        *)
ChosenWalletKept ==
    (client # NoClient /\ discarded = NoClient /\ \A k \in Clients : setup[k].pc \in {"unused", "done"})
        => uri = setup[client].wallet
=============================================================================
