------------------------------- MODULE MCBonds -------------------------------
(* What a trade is paid and sent with, side by side: the anti-abuse bond, the  *)
(* Lightning wallet that pays it, what the node in use demands of a message    *)
(* and quotes, whether it settles by Cashu, and the row all of it is for, with *)
(* the public feeds and the sweep between any two steps of a handler (Race).   *)
(* A behaviour moves one of them.                                              *)
EXTENDS TradeBond

CONSTANTS
    Clients, Wallets, NoWallet, Calls, Invoices, Nodes, First, Infos, Tasks, Wraps,
    Quotes, MaxMoves, CapsMaxTime, Lifetime, Says, Setters,
    Mine, Unwritten, Interleaved, Paths, MaxGen, MaxEvents, MaxRestarts, MaxSweeps

VARIABLES
    part,    \* the component this behaviour is about
    \* Nwc
    client, live, setup, discarded, shown, uri, calls, requests, paid,
    \* NodeCaps
    active, out, caps, advertised, fetch, wrap, quote, rates, caps_now, moves,
    missed,
    \* EscrowMode
    escrow_active, tags, overrides, saved, task, setter, woken, screen,
    escrow_shown, escrow_moves, crossed, doubled,
    \* TradeRow
    race_row, race_tomb, race_cursor, race_bound, race_book, race_note, race_req,
    race_disp, race_wire, race_sweep, race_seen, race_net, race_order, race_now,
    race_restarts, race_sweeps, race_is_mine, race_unwritten, race_wiped,
    race_late    \* history: the writers that had judged the row when its trade ended

Wallet == INSTANCE Nwc

Caps == INSTANCE NodeCaps WITH
    MaxTime <- CapsMaxTime, now <- caps_now

Escrow == INSTANCE EscrowMode WITH
    active <- escrow_active, shown <- escrow_shown, moves <- escrow_moves

Race == INSTANCE TradeRow WITH
    row <- race_row, tomb <- race_tomb, cursor <- race_cursor, bound <- race_bound,
    book <- race_book, note <- race_note, req <- race_req, disp <- race_disp,
    wire <- race_wire, sweep <- race_sweep, seen <- race_seen, net <- race_net,
    order <- race_order, now <- race_now, restarts <- race_restarts,
    sweeps <- race_sweeps, is_mine <- race_is_mine, unwritten <- race_unwritten,
    wiped <- race_wiped

MCInfos == {[pow |-> 2, first |-> {1}, version |-> {2}], [pow |-> 0, first |-> {}, version |-> {}]}

(* Clients count from one, there is something to pay and a node in use, and an *)
(* info event names at most one first-contact difficulty.                      *)
ASSUME WalletAssumption ==
    /\ Wallet!NoClient \notin Clients /\ Invoices # {} /\ First \in Nodes
    /\ {MaxMoves, CapsMaxTime, Lifetime} \subseteq Nat
    /\ \A i \in Infos : /\ i.pow \in Nat /\ i.version \in {{}, {1}, {2}}
                       /\ \/ i.first = {}
                          \/ \E p \in i.first : i.first = {p} /\ p \in Nat

ASSUME RaceAssumption ==
    /\ Mine \subseteq BOOLEAN /\ Unwritten \subseteq BOOLEAN
    /\ Interleaved \in BOOLEAN /\ Paths \subseteq {"book", "dtag"}
    /\ MaxGen \in Nat \ {0} /\ MaxEvents \in Nat \ {0} /\ MaxRestarts \in Nat /\ MaxSweeps \in Nat

(* Bounds: the app stops or the clock runs to its end, not both; a quote       *)
(* shares nothing with the rest of its part; a row has one restart or one      *)
(* sweep, early in its trade.                                                  *)
Bounds ==
    /\ part = "bond" => stops = 0 \/ now < MaxTime
    /\ part = "caps" /\ (\E q \in Quotes : quote[q].pc # "idle") =>
         /\ caps = {} /\ moves = 0
         /\ (\A t \in Tasks : fetch[t].pc = "idle") /\ (\A w \in Wraps : wrap[w].pc = "idle")
    /\ part = "row" => \/ race_sweeps + race_restarts = 0
                       \/ race_sweeps + race_restarts = 1 /\ race_now < MaxEvents - 1

Parts == {"bond", "wallet", "caps", "escrow", "row"}

MCInit ==
    /\ part \in Parts
    /\ Init /\ Wallet!Init /\ Caps!Init /\ Escrow!Init /\ Race!Init
    /\ part # "bond" => book = "none"
    /\ part # "wallet" => uri = NoWallet
    /\ part # "row" => ~race_is_mine
    /\ race_late = {}
    /\ part # "caps" => \A n \in Nodes : \A i \in out[n] : i.pow = 0

WalletVars == <<client, live, setup, discarded, shown, uri, calls, requests, paid>>
CapsVars == <<active, out, caps, advertised, fetch, wrap, quote, rates, caps_now, moves,
      missed>>
EscrowVars == <<escrow_active, tags, overrides, saved, task, setter, woken, screen,
      escrow_shown, escrow_moves, crossed, doubled>>
RaceVars == <<race_row, race_tomb, race_cursor, race_bound, race_book, race_note, race_req,
      race_disp, race_wire, race_sweep, race_seen, race_net, race_order, race_now,
      race_restarts, race_sweeps, race_is_mine, race_unwritten, race_wiped>>

(* A trade that ended, and the writers that have read what they go by and have *)
(* not written yet.                                                            *)
RaceOver == Race!is_hard_terminal(race_row.status)
Decided == {w \in {"lock", "sweep"} \cup Paths :
    \/ w = "lock" /\ race_disp.pc = "write"
    \/ w = "sweep" /\ race_sweep.pc # "idle"
    \/ w \in Paths /\ race_wire[w].pc = "sync"}

(* Those that had judged the row when its trade ended.                         *)
Overtakes ==
    race_late' = IF RaceOver' /\ ~(RaceOver /\ race_row'.idx = race_row.idx)
                 THEN Decided' ELSE race_late \cap Decided'

MCvars == <<part, vars, WalletVars, CapsVars, EscrowVars, RaceVars, race_late>>

MCNext ==
    \/ part = "bond" /\ Next /\ UNCHANGED <<part, WalletVars, CapsVars, EscrowVars, RaceVars, race_late>>
    \/ part = "wallet" /\ Wallet!Next /\ UNCHANGED <<part, vars, CapsVars, EscrowVars, RaceVars, race_late>>
    \/ part = "caps" /\ Caps!Next /\ UNCHANGED <<part, vars, WalletVars, EscrowVars, RaceVars, race_late>>
    \/ part = "escrow" /\ Escrow!Next /\ UNCHANGED <<part, vars, WalletVars, CapsVars, RaceVars, race_late>>
    \/ part = "row" /\ Race!Next /\ Overtakes /\ UNCHANGED <<part, vars, WalletVars, CapsVars, EscrowVars>>

MCSpec == MCInit /\ [][MCNext]_MCvars

------------------------------------------------------------------------------
(* The bond part has its types; a bond shown as locked is one the daemon    *)
(* locked; the trade never moves past its bond, not even by a stop between  *)
(* the two writes; a user who gave the bond up is told so and nothing else. *)
BondSound == part = "bond" =>
    /\ TypeOK
    /\ LockedIsReal
    /\ BondFollowsTrade
    /\ UserCancelTold

(* A replay never puts an older bolt11 back, this take's slash is never      *)
(* taken back, and the clock never ends the window of a published order.     *)
BondSteps ==
    /\ InvoiceOnlyNewer
    /\ SlashKept
    /\ PublishedNotExpired

(* Types; no wallet connection is left open that nothing uses, and what ends a *)
(* call as paid is a payment of its own connection; a first message is mined   *)
(* as its node asks, in a transport it reads, and a price is the asked node's; *)
(* Cashu is open only by the node in use or the developer, and the screen      *)
(* shows it.                                                                   *)
WalletSound ==
    /\ part = "wallet" => Wallet!TypeOK /\ Wallet!NoneLeftOpen /\ Wallet!SuccessIsPayment
    /\ part = "caps" => Caps!TypeOK /\ Caps!MinedEnough /\ Caps!SentReadable /\ Caps!RateOfItsNode
    /\ part = "escrow" => Escrow!TypeOK /\ Escrow!CashuByOwnNode /\ Escrow!ScreenCurrent /\ Escrow!NothingDiscarded

(* Whoever acts between a handler's steps, a finished trade is only taken   *)
(* back to an unfinished status by a writer that had judged the row before  *)
(* the trade ended: every gate read afterwards holds, for the lock's        *)
(* handlers, both public feeds and the sweep (status_write_blocked,         *)
(* wire_status_applies).  That one exception is TradeRow's                  *)
(* FinishedStaysFinished.                                                   *)
FinishedKept ==
    [][RaceOver /\ race_row'.idx = race_row.idx /\ ~RaceOver' => race_late \ race_late' # {}]_MCvars

(* Under handlers that interleave, no gate read after a trade ended lets it *)
(* be reopened, and the row of a retake is kept from the messages of its    *)
(* predecessor.                                                             *)
RaceSteps ==
    /\ FinishedKept
    /\ Race!RetakeKept
==============================================================================
