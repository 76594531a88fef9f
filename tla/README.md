# Verification of the Mostro App core

TLA+ models of the Rust core of Mostro App (`src/rust/src`), checked with TLC and, where stated,
proved with TLAPS.  The app is a client of the Mostro daemon: it sends encrypted kind-14 messages
through Nostr relays, keeps a row for each of its trades, and follows the public order book (kind
38383).  Nothing it hears arrives once, in order or in time, and several tasks write the same state.
The models are about that.

## The system

| Component | State it keeps | Operations | What is hard | What makes it correct | Module |
|---|---|---|---|---|---|
| Pending requests (`mostro/pending.rs`) | one record per trade key, with a nonce and a waiter | register, wait 10 s, detach, roll back, purge, match | late, repeated and replayed replies; two calls on one key; threads | a reply reaches its own call; no waiter is stranded; late answers still reconcile; calls return | `PendingRequests` |
| Per-trade subscriptions (`nostr/subscriptions.rs`) | Setup / Live entry per key, gate, lease | claim, mark live, release, idle teardown, re-arm, drop guard | lost wake-ups, dismantling while a new owner arrives, abandoned futures | one owner, no lost wake-up, a bounce is real coverage, no wedged key | `TradeSubs` |
| Offline outbox (`queue/outbox.rs`) | queued messages with status, attempts, next retry | enqueue, flush, prune | flushes that overlap and work on clones | nothing sent by two flushes, lost or stuck | `Outbox` |
| Bond payout claims (`mostro/bond_claims.rs`, `api/bond.rs`) | a claim with a phase, an anchor and a deadline | prompt, submit, verdict, expire | prompts repeated on a cadence, replay after restart, read–publish–write | the phase tells what the daemon decided; a frozen deadline | `BondClaims` |
| Trade row (`api/orders.rs`, `mostro/status.rs`) | row, wipe tombstone, status cursor, key binding | status arms, confirmed take, rebuild, adopt, wipe, public sync, sweep | newest-first replay, writers with and without the order's lock, retakes | the row ends where the daemon's order is; wiped stays wiped; finished stays finished | `TradeRow` |
| Anti-abuse bond (`api/orders.rs`) | a bond on the row, the user's cancel note | request, refresh, lock, release, slash, expire, cancel | two writes per arm, replays, the window's clock against the book | the trade never passes its bond; a locked bond is locked | `TradeBond` |
| Order book (`api/orders.rs`, `order_book_feed.dart`) | entries, revision; a copy in Dart | upsert, remove, reset, deltas, switch, refetch | a listener that lags, a node switch | a copy is the book of some moment, and only moves on | `OrderBook` ⇒ `BookReplica` |
| Single-order watcher (`api/orders.rs`) | owner task per order, one shared REQ | subscribe, supersede, idle out, release | a superseded task still running | the owner listens to an open REQ; no REQ without a task | `OrderWatch` |
| Live relay subscriptions (`nostr/live_subs.rs`) | wanted REQs, REQs per relay | open, replace, close, repair, CLOSED | reconnects between two steps | what is wanted is repaired, what is not is gone, no REQ loop | `LiveSubs` |
| Relay pool (`nostr/relay_pool.rs`, `api/nostr.rs`) | relay states, Online watcher, relay list and blacklist | monitor, announce, coalesce, resync, add, remove, sync a node's list | missed announcements, overlapping list syncs | every Online served; a resync is no older than its call; a removed relay comes back by no list that came later | `OnlineSync`, `RelayList` |
| Node switch and message coverage (`api/orders.rs`, `api/nostr.rs`, `mostro/bond_policy.rs`, `api/cashu.rs`) | active node, filter, bound keys, capabilities, wallet | switch, rebuild, fetch, apply, connect | rebuilds that overlap, late answers of the old node | the filter covers every bound key; policies and mint are the active node's | `NodeSwitch` |
| Trade index (`api/identity.rs`, `mostro/trade_index.rs`) | the counter, thrice | derive, resync, retry, mirror, reconcile | failed saves, crashes, another device | no key handed out twice; a resync lasts | `TradeIndex` |
| Sessions and peer reveal (`mostro/session.rs`) | a session per order, the row's peer | create, install, update, remove, rebuild, capture | a reveal of an earlier take | the session is that of the row's take; a reveal reaches the row | `Session` |
| Disputes (`api/disputes.rs`) | records, stored origin and solver | open, late acceptance, take-over, verdict, rehydrate | replays after a restart | only this user's dispute has a solver; a finished one stays closed | `Disputes` (opening also in `PendingRequests`) |
| Chat (`api/messages.rs`) | listeners, messages, cursors; cards in Dart | claim, open, receive, persist, read, stream, replay | failed saves, a lagging broadcast, restarts | the cursor stands on durable messages; every unread message has its card, once | `Chat`, `ChatCards` |
| Push (`mostro/push.rs`, `api/push.rs`) | registrations, refusals, token, opt-out | reconcile, plan, register, unregister, back off | changes while a pass is at the server | wanted keys served; opt-out is silent; grace kept | `PushRegs` |
| Restored history (`mostro/restore_history.rs`, `api/orders.rs`) | the restore's snapshot: a floor and the orders in progress | restore, resync, rebuild a bond row, list, ask, settle | what is history is judged long after the snapshot | a trade in progress is never settled as history; history is, in the end | `RestoreHistory` |
| Identity (`api/identity.rs`, `db/`) | mnemonic, counter, key bindings, and a mirror in the app | initialize, derive, delete, import, create | takes in flight across a swap, crashes between the writes | the counter is never behind a key handed out, nor another identity's | `Identity` |
| Nostr Wallet Connect (`nwc/client.rs`, `api/nwc.rs`) | the client in the store, the screen, the stored URI | connect, replace, disconnect, restore, request | connects that overlap; answers that name no request | no connection is left open; what ends a call as paid is a payment of its connection | `Nwc` |
| What a node demands (`mostro/pow.rs`, `mostro/protocol_version.rs`, `mostro/rates.rs`, `nostr/first_answer.rs`) | difficulty, transport, rates, each tagged with its node | fetch, apply, wrap, quote | a switch between the fetch and the wrap | mined as the node asks, in a transport it reads, at its own price | `NodeCaps` |
| Escrow mode (`mostro/escrow_mode.rs`, `api/escrow.rs`) | the node's tags, the developer's overrides, the screen's snapshot | set, clear, override, notify, snapshot | globals read one by one, a screen woken late | Cashu is open only by the node in use or the developer; the screen ends up right | `EscrowMode` |
| Cashu wallet and escrow (`cashu/`) | proofs, a send's saga, the escrow token | prepare, confirm, revoke, verify, sign, redeem, reclaim | a send that fails half-way; three parties and a locktime | a failed send is back; the escrow moves as a whole and as promised | `Cashu` |
| Node list and ratings (`api/nodes.rs`, `api/node_stats.rs`, `api/reputation.rs`) | listed nodes, what each published; ratings given | list, add, remove, select, refresh; submit | a warm-up beside a removal, a rating that failed | the node in use stays listed with its newest settings; a trade is rated once | `NodeRegistry` |
| Storage of the rows (`db/sqlite.rs`, `db/indexeddb.rs`) | rows, each a document of fields | save, patch, rename, delete; the file's migrations | two tabs, a dropped call, a probe that fails | a patch drops nobody's field; no delete leaves a row; every version opens | `Storage`, `WebStore`, `Sqlite` |
| Crypto, settings, invoices, logging, bridge, Flutter UI | — | — | see "Not modelled" | — | — |

How they meet: an API call registers a pending record, claims its key's subscription and publishes.
The dispatcher (`dispatch_mostro_message`) takes the order's lock, drops messages of a superseded key,
hands a matching reply to the waiting call and otherwise runs the arm of the action, which writes the
claim, the row, the bond, the book, the session and the dispute.  The public feeds write the row and the
book without that lock.  A timer sweeps stale rows.  The relay layer underneath keeps REQs open and says
when the pool is online; then the filter is rebuilt, the chats listen again and push registrations are
reconciled.

## Modules

Names follow the source.  `PROJECT.json` maps every definition to its lines.

**`PendingRequests`** — `pending` is `PENDING_REQUESTS`; an attempt is one API call and also the nonce
it draws.  `register`, `publish`, `publish_failed`, `receive`, `elapse`, `detach` are the steps of a
call; `dispatch_*` are the arms that consume a record, in the code's order of interception; `send` is
the `tx.send` that comes after an arm's awaits; `purge` is the end of a per-trade watcher.
`Preemptive` chooses between threads (native) and one event loop (web).  The relays keep every
message, so a message may be delivered any number of times: the per-session dedup window is left out,
which only adds behaviours.  The daemon answers each request at most once, except that a bonded create
is answered twice and an accepted claim is later paid.

**`TradeSubs`** — one trade key.  The registry's short synchronous critical sections are single
steps; `claim` / `enable` / `recheck` / `wake` are the steps of waiting on `Notify`; `abandon_*` is the
drop of a future; `begin_dismantle` / `dismantle` are the two halves of a teardown.  Callers are split
into requesters, which hold a pending record, and re-armers.

**`Outbox`** — `snapshot`, `publish`, `write_back` and `prune` are the phases of `flush`, with the lock
released in between; any number of flushes run at once.

**`BondClaims`** — one claim.  A submission is cut at every await: `read_claim`, `register`, `publish`,
`persist_submitted`, the reply and its persistence.  The dispatcher's arms are cut into `load_claim`
and `store_claim`, and hold the order's lock, which a submission does not take.

**`TradeRow`** — one order.  The stored part (row, tombstone, cursor, key binding) survives `restart`;
the book, the note and the pending takes do not.  A kind-14 message is delivered once a session, in any
order, and again after a restart.  `dispatch` takes the lock and classifies the row once (`RowState`);
`check_*` are the gates of the arms, `write_status`, `wipe_row` and `leave_tombstone` their writes.
`read_public` / `public_wipe` / `public_tombstone` / `public_sync` are the two public feeds; the relays keep
the newest public event only.  `sweep_*` are the stale sweep, which judges a copy, and
`confirm_payout_completion` the payout check.  `Interleaved = FALSE` lets a handler finish before another
writer starts, so only the order of deliveries matters (`trades`); `TRUE` lets the writers without the lock in
between any two steps (`bonds`).  The daemon's order is the environment: it is taken, lapses, is canceled, expires,
or moves along the trade's flow; one assumption is made of it, `TakeOpen`: in the ten seconds a take
waits for its reply the order neither progresses nor lapses (the daemon's window is minutes and the
taker sends nothing), though the maker may cancel it.

**`TradeBond`** — one order with up to two takes.  The bond and the status are two writes (`enter`, `StatusArm`,
`NewOrder`, `wipe`), and the app may stop between them; `Reinstall` is the rebuild at start.  `status_write_blocked`,
`superseded` and `bond_refresh_is_stale` are the gates.  The daemon's deal is the environment: it asks,
locks on payment, lapses, is canceled or slashed, and its messages may be delivered in any order.

**`OrderBook`, `BookReplica`** — `change` is `BookState::change`, one step under the write lock; `next` is the Dart
feed taking one delta, `Stale` its check of the revision, `restart` its snapshot.  `BookReplica` is the promise: the
copy is a past state of the book and moves forward only.  `CopyMovesForward` is `BookReplica`'s specification under the
refinement mapping, a property of the run.

**`OrderWatch`** — a task per take of one order, cut at its awaits; `release_single_order_task` frees the slot only if the
task still owns it; `claim_finished_trade_release` runs under the order's lock.

**`LiveSubs`, `OnlineSync`, `RelayList`** — the relay layer.  `poll` is the pool's monitor, which sees sockets late;
`repair` takes the lock once per subscription; `broadcast_if_changed` is the one gate of announcements;
`window_elapses` and `run_ends` are the coalescer; `take_lock` decides whether a waiting resync reuses a pass; the
user's calls and the sync of a node's list are cut at each lock, and the steps of the one come between those of the other.
The history variable `raced` holds the relays both were at work on at once.

**`NodeSwitch`** — tasks (switches, filter runs, Online runs) cut at their awaits; `dm_filter_lock` reads node and keys under
one lock, `replace_subscription` installs the filter; `apply_node_capabilities` compares the node before it writes.

**`TradeIndex`, `Session`, `Disputes`** — the counter with its three homes; a session with the row it belongs to;
a dispute with its two stored keys and the listener of the solver's chat.

**`Chat`, `ChatCards`** — a listener per channel with a generation; `push` / `save_message` / `save_fails` are the write-through
store, `advance_cursor` the cursor.  A card is the set of messages counted on it; `replay`, `receive` and
`receive_lagged` are the at-least-once stream and `saveChatMessage` the exactly-once fold of the Dart side.

**`PushRegs`** — `plan` decides, `request_*` are the answers, `save_registrations` is the write-back at the end of a pass.
One tick is twelve hours.

**`RestoreHistory`** — two orders of one identity.  The restore is cut at its requests (`restore_session`, `Restored`,
`last_trade_index`, `ensure_trade_key_index_at_least`, `record_restore_snapshot`) and then rebuilds bond rows one at a
time; a pass is `list_trades`, `public_status`, `settle` for each row, and `pass_done`.  Replayed messages, retakes, the
daemon's own progress and crashes come between any two steps.

**`Identity`** — the counter in memory, in its row, in secure storage and announced to the app; `initialize`,
`derive_trade_key`, `delete_identity`, `install_identity`, `write_mnemonic` and `write_counter` with the takes that are in flight across them, of the
identity that goes or already of the one that comes.  `reconcile_trade_key_index` is the rule by which a counter is believed.  The history variable
`torn` holds the identities whose mnemonic has another's counter beside it in secure storage.

**`Nwc`, `NodeCaps`, `EscrowMode`** — `Nwc`: connections are set up over several awaits, by the restore at start and by the user;
an answer is the first readable event on the client's channel, whoever asked.  `NodeCaps`: fetches of a node's info event, wraps and
quotes are tasks; each slot is tagged with the node it came from, and the newest copy within the grace may be an old one.
`EscrowMode`: the tags, the overrides and the screen's wake-up are cut at every lock.

**`Cashu`** — a send with its saga over the wallet's proofs, and one escrow token with its 2-of-3 condition and locktime among seller,
buyer and Mostro.  The mint refuses a proof that was spent; it and the other parties are the environment.

**`NodeRegistry`** — the list of nodes with its operation lock, the refresh of what each published (`supersedes` is the
order of replaceable events), and the count of open orders over two queries; a rating is cut at its awaits, with the
marker that says a trade was rated.

**`Storage`, `WebStore`, `Sqlite`** — `Storage` says what a statement on the rows does, atomically, as SQLite's statements do;
`WebStore` is the browser's read, change and write of documents under a tab mutex and a web lock, and `StoreImplemented` is
`Storage`'s specification over its rows.  `Sqlite` is the file opened from any earlier version: probes, repairs, rebuilds, any statement of which may fail
and any step of which may be the last.

**`MCTradeSubs`, `MCBonds`, `MCClaims`, `MCMessages`, `MCRelays`, `MCTrades`, `MCNodes`** put modules side by side: `part`
chooses at the start which one a behaviour moves, the others keep their initial state.  They share a TLC run, not state; what
components do share (the row with its bond, the book with its notes, keys with filters) is inside the modules.  Their
properties (`BookSound`, `WatchSound`, `TradeSteps`, …) are the conjunctions of the parts' own, listed in the comment above each.
`MCTrades` has the row's module with whole handlers (`Row`); `MCBonds` has it for the same makers and takers with every writer between any two steps (`Race`), and
a history variable, `race_late`, of the writers that had judged the row before its trade ended.
`MCPendingRequests` is the instance of `PendingRequests` for two cfgs.

## Runs

| Run | Modules | Instance | Properties |
|---|---|---|---|
| `pending_create` | `PendingRequests` | one create, two overlapping add-invoices, one key, threads, history from an earlier life of the key | `NoStrandedCall`, `LateOnlyAfterTimeout`, `CallsReturn` |
| `pending_kinds` | `PendingRequests` | take + add-invoice + claim with a restart; or two restores with a clock; or three disputes; event loop | `OnlyOwnReply`, `AnswerableUnlessRefused`, `AcceptedDisputeRecorded` |
| `trade_subs` | `TradeSubs`, `RestoreHistory` | three callers (one requester); two orders, indices to 3, one restore, one fault | `SingleOwner`, `PromisedCoverage`, `WaitingRecordKept`, `HistorySound`, `ClaimsResolve`, `HistorySteps` |
| `bonds` | `TradeBond`, `Nwc`, `NodeCaps`, `EscrowMode`, `TradeRow` | a maker's order or two takes, one stop; one wallet, two of each of clients, calls, invoices, nodes, tasks, setters; a row with five events, both feeds, a restart or a sweep, any two steps mixed | `BondSound`, `WalletSound`, `BondSteps`, `RaceSteps` |
| `claims` | `BondClaims`, `Cashu`, `WebStore` ⇒ `Storage`, `Sqlite` | two submissions, two anchors, two windows, a failed payout, a restart; two proofs, two sats, locktime 2; two rows, two calls, two faults | `ClaimSound`, `EscrowSound`, `DeadlineFrozen`, `StoreSound`, `StoreSteps` |
| `messages` | `Outbox`, `ChatCards` | two messages, two flushes, two attempts; two chat messages over a channel of one | `OutboxSound`, `CardsSound`, `MessagesHandled` |
| `relays` | `LiveSubs`, `OnlineSync`, `RelayList`, `NodeRegistry` | one REQ with two filters on two relays; four moves of a relay; three resyncs; three relays, three list syncs; two nodes, two submissions | `SubsSound`, `PoolSound`, `NodesSound`, `RelaySteps` |
| `trades` | `OrderBook` ⇒ `BookReplica`, `OrderWatch`, `TradeIndex`, `Session`, `Chat`, `Disputes`, `TradeRow` | book of two nodes with one copy; three generations; keys to 6; three takes; three messages on two channels; two solvers; a row taken twice, or made, with six events, both feeds, a restart or a sweep | `BookSound`, `WatchSound`, `KeysSound`, `TalkSound`, `RowSound`, `RowKept`, `RowRecovered`, `TradeSteps` |
| `nodes` | `NodeSwitch`, `PushRegs`, `Identity` | two switches, two runs, three keys; one push key, two nodes and tokens; two identities, indices to 2 | `SwitchSound`, `PushSound`, `IdentitySound`, `NodeSteps` |
| `bond_slash`, `trade_row_sweep`, `identity_counter` | `TradeBond`, `TradeRow`, `Identity` | small | one each, the disagreements below |

What they show, in a sentence each: a reply reaches its own call and no waiter is stranded; a key's subscription has one owner and a
bounce is coverage; a row ends where the daemon's order is and stays there; a bond shown locked is locked; a claim says what the daemon
decided; nothing queued is sent by two flushes, lost or stuck; what is wanted of the relays is repaired; the copy of the book is the
book of some moment; no trade key is handed out twice; the cursor of a chat stands on a durable message; after any switch the filter
covers every key and the mint is the active node's.

The runs stop at their bounds, so they do not check deadlock; that a waiting call, claim or message goes on is
`CallsReturn`, `ClaimsResolve` and `MessagesHandled`, and that history is settled is a part of `HistorySteps`.

**Bounds.**  A record is on one key and keys do not interact, so one key is used at a time (`OneKey`);
three disputes give an attempt that is superseded twice; two invoices and a create give the overlap
the single-flight check is for.  Three callers give an owner, a caller parked on its setup and one that
arrives during teardown.  Two flushes overlap; a third adds only the same pairs.  Two takes are enough for a message of
an older key to meet a newer row.  In `trades`, six events let an order be taken, lapse, be taken again and become active, or run from its take
to its end (one less for a maker, who has no take of his own, and one less around a restart or a sweep); in `bonds`, five events, three around a restart or a sweep.  A channel of one or two elements lags after two changes.  Two relays and two
filters let a repair find one relay served and one stale; one drop and one unit of budget exhaust a retry.  Two runs of the filter beside
two switches give the overlap the lock is for.  Key indices up to 6 hold two callers, a resync, a retry and a key of another device; three faults of the counter come together.
One restore and one fault give a snapshot that is missing, or a floor raised without one.  The order book and its watcher start at node A, from which a switch leads to B.  Two clients of one wallet give a replacement
during a setup, and two payments of two invoices an answer that is another's; two nodes an answer of the one just left.  Two proofs make a token that could move by halves.  Two calls on two rows
give every pair of statements, from one tab or two; two faults one in the migration and one in its retry.
`Max…` constants cap how often a user, a fault, a restart or the clock acts, each high enough for the event
to happen once or twice; `Bounds` in the MC modules keeps a late anchor or a sweep and a restart
out of the same behaviour, a stop between a bond's writes and the last tick of its clock too, and a quote apart from the rest of `NodeCaps`, with which it shares nothing.  For every property under
"Proofs" the theorem covers what the instance leaves out.

**Fairness.**  Only steps of a running task are fair: `CallsReturn` assumes that a call once started is
polled and its ten-second timer fires; `ClaimsResolve` that a setup is driven, dropped or released and
that a notified task is polled; `HistorySteps` that the sweep, which runs for ever, takes its next step (`PassStep`);
`MessagesHandled` that a flush goes on, that the card stream's task is polled and its
minute timer fires, and that a card handed over is folded.  The relays, the daemon and the user
owe nothing.  That a relay which closes every REQ is not asked for ever (`ClosedNotLooped`) needs no fairness: repairs come
to an end by themselves once callers and connections stop.

Every property of a passing run has a mutant: a plausible slip in the code, written beside the definition it
replaces, under which TLC finds the property violated.  Beside most conjuncts of an invariant stands a mutant of its own.

## Proofs

Eight modules prove 38 theorems: thirty-one of the forty properties of the passing runs, for every value of the constants, and seven
results besides.  The inductive invariants were, as a rule, tried with TLC on a small instance before they were proved.  The theorems of a composed module
are about its `MCSpec`, in which each part moves by the whole next-state relation of its module; its `CONSTRAINT` is a bound of the
run only and no hypothesis of the theorem.

The only facts assumed are the named assumptions on the constants, which TLC evaluates on every run, and where a theorem says so a hypothesis on which
calls there are:

| Assumption | Says |
|---|---|
| `PendingAssumption`, `SubsAssumption`, `ClaimsAssumption`, `BondAssumption`, `BookAssumption`, `OutboxAssumption`, `MintAssumption`, `TradesAssumption`, `WalletAssumption`, `HistoryAssumption`, `NodesAssumption`, `RelaysAssumption`, `StoreAssumption`, `RaceAssumption` | constants have their types, bounds are numbers and tasks finitely many; the names for "nobody" are nobody; the history of a key carries no nonce of a new call; capacities are positive; a build has a compiled-in relay and a compiled-in node; an info event tells at most one difficulty and versions the client knows |
| `CallsApart` (of `NoneStranded`) | a create and a take derive the key they use, so the database binds no order to it; calls on a bound key meet only calls of their kind, a claim none |
| `DisputesApart` (of `TimedOutAnswerable`) | no other request uses the key of a trade in dispute, and its subscription does not end |
| `~Preemptive` (of `DisputesRecorded`) | an event loop: nothing runs between an elapsed wait and its detach |
| `OneRequester` (of `RecordKept`) | at most one call on a key registers a request before it subscribes |
| `~Interleaved` (of `WipedIsGone`) | a handler's steps are not mixed with those of the writers that hold no lock |

None of the last five is idle.  TLC breaks `NoStrandedCall` with two claims, or an invoice and a claim, on one key; `AnswerableUnlessRefused` when the trade's
subscription ends; `AcceptedDisputeRecorded` on threads; `WaitingRecordKept` with two requesters; and `WipedStaysWiped` for a taker with `Interleaved = TRUE`.
Which of them the code can meet is said
below, under "Where the code and its documentation disagree".  That a derived key is new is what `KeyHandedOnce` proves of the counter.

**`PendingRequestsProofs`** — any keys, attempts, history, clock and restarts.

* `TypeCorrect`: `Spec => []TypeOK`.  `TypeOK` is not inductive.  It is strengthened with
  `NoncedDispute`: the record of a dispute always has a nonce of an attempt (not the zero id of a
  restore), so rolling back or popping a superseded nonce yields a record of the right type.
* `OnlyOwnReplies`: `OnlyOwnReply`.  What a call holds was put in its channel by `send`, from
  `sending`, where a dispatch arm put it on behalf of a record's waiter.  `Correlated`
  follows the reply backwards: every attached waiter is the attempt whose id and
  registration time its record carries (`WaiterOwns`), every reply on its way is its addressee's own
  (`SendingOwn`), and an attempt that has not started holds nothing (`IdleUntouched`).
* `LateAfterTimeout`: `LateOnlyAfterTimeout`.  `Settled` says that a waiter is a call in flight (`WaiterFlies`), that a call has at most one
  reply on its way, and none once it holds one (`OneReply`), and what a record without waiter says of the
  call that left it (`RecordsSound`).
* `NoneStranded`: `NoStrandedCall`, under `CallsApart`, on threads as on an event loop.  `Attached`: a call that waits has its waiter in the record or its reply on
  the way; a key is bound only by a call that derived it (`BoundByCall`), so the purge and the single-flight check meet no call they were not made for.
* `DisputesRecorded`: `AcceptedDisputeRecorded`, under `~Preemptive`.  `AcceptedHeld` follows an acceptance from the arm to the record: taken with a
  waiter it is on the way to a call that will mark it, otherwise the arm itself has.
* `TimedOutAnswerable`: `AnswerableUnlessRefused`, under `DisputesApart`.  `DisputeHeld`: the nonces of earlier attempts
  ride in the record as superseded, through rollbacks and retries, until one of them is answered.

**`TradeSubsProofs`** — any number of callers: the registry has one owner (`OneOwner`), a
parked claim waits on the gate of the setup in progress (`NoWakeupLost`), and a bounce is backed by
an active REQ and a running watcher (`BouncesAreCovered`).  The inductive invariant relates the entry's
state to the program counters of callers and watchers: who is in setup (`EntryOfSetup`), who watches
(`EntryOfWatcher`, `LiveHasWatcher`), who is dismantling (`LockOfTeardown`), whose REQ is open
(`OwnerHasReq`) and on which gate each waiter stands (`PromiseMarked`).  `RecordKept`: `WaitingRecordKept`, under `OneRequester`.

* `HistoryIsSound`: `HistorySound`; `RebuiltRowsStand`: the safety half of `HistorySteps`.  `HistoryInv` follows what the daemon listed into the snapshot and
  from there into a pass's worklist: an order in progress was listed and is in the snapshot unless it was taken since (`ListedAll`), so it is never due
  (`DueTrue`); a row is of its order's last trade (`RowIsLast`); what a pass wiped is under a tombstone or of an earlier trade (`WipedCovered`); an order that
  waits for its bond is in every snapshot (`BondsUntouched`); a restore that heard the counter raises the client's (`Answered`).

**`MessagesProofs`** — `OutboxDelivers`: `OutboxSound`, for any messages, flushes and attempts.  A flush works on clones, so the invariant says what a clone
proves: a message in flight is in the hands of exactly one flush (`OneInHand`), and a clone's status and attempts are those of the queue while the flush owns it
(`ClonesTrue`); what is in the queue and unsent is pending, retried later or given up after the last attempt (`QueueTrue`).

**`ClaimsProofs`** — any submissions, anchors, windows and restarts.

* `ClaimTellsTruth`: `ClaimSound`; `DeadlineStays`: `DeadlineFrozen`.  A submission and an arm each hold a copy of the claim across awaits and write it back.
  `Copies` says that every such copy, however old, is true of what the daemon has sent and done, which only grows; so a stale write may lose news but invents
  none.  `SameDeadline` says that all copies of one slash carry one deadline.
* `EscrowIsSafe`: `EscrowSound`.  `SendState`: while a send is under way, the sats out of the wallet and those spendable
  make up the funds; a token that is being checked, or was, still has the conditions it was checked for.
* `StoresAreSound`: `StoreSound`; `StoreIsImplemented`: `StoreSteps`, whose first half is the refinement of `Storage`.  The browser (`WebInv`): who waits for the
  web lock or is inside holds its tab's mutex, and the web lock when the browser has one (`LocksHeld`); so what a call is about to write back is the document that
  is there with its fields changed, and what it is about to delete is every row of the order (`ReadStands`).  Its write transaction then maps to the one
  statement of `Storage`, every other step to a stutter.  SQLite (`SqlInv`): how far the file is at each step of `open` when no probe was misread (`Migrated`), foreign keys off from the pin to
  the rebuild (`KeysOff`), and a failure or a misread probe has used up a fault (`FaultsCounted`).

**`BondsProofs`** — any takes, invoices, window, clock and stops: `BondIsTrue` is `BondSound`, `BondMovesForward` is `BondSteps`.  The row's key is that of a
take (`KeysBound`); a status past the bond, in the row, in a handler's hands or on the way, means the daemon has locked that
take's bond (`FlowMeansLocked`); between an arm's two writes the handler remembers the second (`SecondWrite`);
a maker's order is in the book only after its bond was locked (`MakerPublished`); invoices are issued in order and the row holds one of its own take (`InvoicesOrdered`, `RowCurrent`).

* `WalletIsSound`: `WalletSound`.  The wallet (`WalletInv`): a replaced client is in the hands of its successor's `connect_wallet` until that
  one has disconnected it (`OldInHand`); the payment whose success ended a call was sent on the call's connection, and its invoice was paid (`CallsTrue`).  What a node demands (`CapsInv`): a fetch, the slots it fills and a message mined by them carry an event their node has
  published, unless it was missed (`FetchTrue`, `SlotsTrue`, `WrapTrue`).  The escrow mode (`EscrowInv`): what is stored of a node is of the one in use until the
  switch that clears it (`OwnTags`, `OwnStore`); a snapshot with no change told or to be told is of what resolves now as far as it has read (`ReadTrue`); of a field two
  calls never set at once, one call sets it and its row is what that call wrote (`SettersApart`).
* The row of a trade (`Race`), for any number of takes, events, restarts and sweeps.  `RaceInv` holds however the writers interleave.  What the daemon said is of a take that was asked for,
  and only a reply or a create's acknowledgement is marked as one (`Dealt`); takes come one by one, and the key of one under way is newer than any bound (`OneByOne`), so only
  its reply makes its row; a row is of the key bound, and a handler's message of no older one (`RowBound`).  `RetakeIsKept` and `RowIsTyped` follow with no hypothesis.
* `RaceIsSafe`: `RaceSteps`.  `Forward`: once a trade is over, a writer that had not judged its row before goes by what cannot reopen it (`Harmless`): the lock's holder is
  about to write an end or an admin's verdict, a feed has read an end, and the sweep acts on nothing.
* `WipedIsGone`: `WipedStaysWiped`, a conjunct of `RowKept`, under `~Interleaved`.  `WipedTight`: the newest wiped index is at most the bound one, and when it is that one there is no row but a
  tombstone, so the classification under the lock (`trade_row_state`) and the second look of `adopt_range_remainder` find it; what a handler judged is still so when it acts (`Alone`).

**`TradesProofs`** — any generations, orders, callers, takes, messages, solvers, failures and restarts.

* `OwnerListens`: `WatchSound`.  `OwnerOnly`: unless a claim changed hands while a task was between two awaits, only the task that owns the order opens
  the REQ, and nobody owns it while the REQ is closed.
* `KeysAndSessions`: `KeysSound`.  Keys (`IndexInv`): every index used is in the database (`Consumed`) and below memory, memory is ahead of the database only
  after a failed write (`Written`), a retry derives above the answer it retries for (`CallSound`).  Sessions (`PeerInv`): the order's lock has three
  phases, the client's own take (`OwnSound`), the reply to a new take (`ReplySound`) and the tail of it (`TailSound`); in each the copy a handler holds is that of the take the row has, or the lock says which will follow.
* `BookShown`: `BookSound`; `TradesForward`: `TradeSteps`, whose first half is the refinement of `BookReplica`.  `BookInv`: a queued delta is true of the
  change it reports (`DeltasTrue`), no change is missing before a delta the feed will apply (`NoGap`), the last change was told while none was lost
  (`LastTold`), and the feed's revision is that of the state it copied (`CopyTrue`).  Every step of `OrderBook` then maps to `Change`, `CatchUp`, `Leave` or a stutter of
  `BookReplica`.  The second half is `FinishedStaysClosed`, from `DisputeInv`.
* `TalkRemembered`: `TalkSound`.  `ChatInv`: a channel has one listener until two overlap, so a message it knows and did not mark unwritten is in the
  table; how often a message was handed on is bounded by the tasks that are done with it (`CopiesCounted`, a cardinality).  `DisputeInv`: a solver is
  assigned to a live trade only; a record that is not this user's is a solver's placeholder, which is why an acceptance claims it;
  a live trade's solver is in the store once assigned, so a restart finds it.

**`NodesProofs`** — any nodes, keys, tasks, trades, tokens, identities, failures and restarts.

* `SwitchIsSound`: `SwitchSound`.  `SwitchInv`: the lock is held by the one task that replaces the filter (`OnItsWay`), and the last to hold it has read every key,
  unless a refresh is armed or waits (`LastCarriesAll`); the counter of pending fetches is the number of tasks whose fetch is announced (`PendingIsCount`, a
  cardinality).
* `PushIsSound`: `PushSound`.  `PushInv`: a pass works for the settings and rows it read, or somebody asked for another (`PassIsCurrent`, `AskedIfDirty`); a record
  owed no retry is of what the server took (`RecordsTrue`); while nothing failed, a wanted key is served or about to be, and with push off let go or about to
  be (`Serving`, `Silencing`), through the pass and after it.
* `IdentityIsSound`: `IdentitySound`.  `IdentInv`: where a replacement stands says whose identity memory, the database and secure storage hold (`Replacing`); no key is past the
  counter that a load will find, in secure storage or the row, and while another identity is in memory it is secure storage that has it (`Recoverable`); a counter in memory or secure storage is
  zero or of a key that was issued to its identity, unless that identity is `torn` (`Earned`); a binding is of the identity in secure storage or of the one about to be there (`Owned`).
* `NodesKeepWaiting`: `NodeSteps`.  A claim that goes on found no fetch announced, by `PendingIsCount`; a key let go while push is on was past its grace, by `PassIsCurrent`.

**`RelaysProofs`** — any relays, filters, lists, nodes, callers, capacities, failures and restarts.

* `SubsAreSound`: `SubsSound`.  `WantedIsRepaired` speaks of connected relays and is not inductive: a relay that drops and comes back must bring its repair
  with it.  `LackingIsRepaired` says it of every relay, up or down.
* `PoolIsSound`: `PoolSound`.  The run behind an Online: with nothing left to publish the gate has let through what is recorded (`GateIsCurrent`), and a watcher
  that watches has the state in its channel or a run on the way (`ServedWhenWatching`).  The resume pass: one at a time, numbered after those that finished
  (`OnePass`).  The list: each relay has one row (`RowsOnce`); a relay both are at work on is noted as raced (`Noted`), and of the others a call or a sync works on
  those that are not on the list, or on the one it takes off (`CallKnows`, `SyncKnows`); a relay removed as announced and not raced is off the list, blacklisted, and stored
  so (`RemovedStands`); what is marked announced, wherever it is held, was in a list that came as the newest (`AnnouncedFresh`).
* `NodesAreSound`: `NodesSound`; `InfoIsKept`: the safety half of `RelaySteps`.  Who selects a node holds the lock and has seen the node listed, and a warm-up
  keeps every node that was listed all along since its answer (`CallerStands`), so the node in use is listed (`InUseListed`); merging in any order keeps the newest revision (`CacheIsNewest`,
  from lemmas on `newest_info`).  The rating: the slot is held by the call that sends or marks and by none that failed (`SlotHeld`), messages out are bounded
  by the faults (`WireBounded`), and once the row has the marker nobody finds the slot free (`MarkerTrue`).

**Only model-checked.**

* Liveness (`CallsReturn`, `ClaimsResolve`, `MessagesHandled`, the settling of history in `HistorySteps`, the end of REQ repairs in `RelaySteps`): fairness, and with it `ENABLED`, is out of the
  prover's reach.
* `CardsSound`: a card counts its messages with a fold over a sorted sequence, and what the fold computes for every input needs induction over data.
* `RowTruthful`, `NeverActiveGone` and `RowRecovered`: they speak of the state after every message was replayed, in any order; a proof needs the whole history of the daemon's order
  related to the cursor and to what each feed has read.

No module declares a recursive operator.

## Where the code and its documentation disagree

With a run:

* `trade_row_sweep` — the sweep judges a copy and wipes by order id without the lock, so it can remove a
  retake's row.
* `bond_slash` — `BondSlashed` passes the generation gate because "it never writes order state"; its arm marks the bond
  of whatever row the order has by then, which may be that of a later take.
* `identity_counter` — "a new mnemonic must start counting from zero" (`identity.rs:333`), but the mnemonic is written before the counter, and a stop in
  between starts the new identity with the old counter; an index announced around the switch is mirrored beside the other's mnemonic.

Found by the same models, without a run of their own (the named definitions are in the modules; adding one to a cfg
shows the counterexample):

* Trade row.  `FinishedStaysFinished`: "mostrod never reopens a canceled or completed trade" (`status.rs:112`), but the public feeds read and write the row without
  the order's lock.  A public cancel that falls between the gate and the write of a maker's `new-order` leaves the row pending; a taker's
  d-tag task has its `success` overwritten by a waiting status (`Interleaved = TRUE`, both feeds, one take, six events).  The weaker promise of `RaceSteps` holds: no gate
  read after the end lets a writer through.
* Lightning wallet.  `SuccessIsPaid`: "Wait for the matching response" (`nwc/client.rs:241`), but any readable answer is taken.  A payment reported failed whose request had
  arrived, or one that timed out, or one of another widget, is answered into the wait of the next, which is reported paid (one client, two calls, two invoices).
* Relay list.  `RemovedStaysOut`: "so the node's list cannot bring it back on the next start either" (`api/nostr.rs:217`), but the sync of a list and the removal
  mix their steps: a sync that has read the rows back stores the removed relay as active, and one planned before puts it on the list (the constants of `relays`).
  A relay no sync is at work on stays out (`BackOnlyByRace`).
* Pending requests.  `AcceptedCreateKept`: the new-order arm removes the record, awaits a database write and only
  then wakes the caller; a wait that elapses in between leaves a confirmed order without caller or
  late path (`orders.rs:3204`; set `Creates = {c1}`, no other call, `Preemptive = FALSE`).  A CantDo to a dispute retry drops the record with the superseded nonces, although
  `pending.rs:139-142` says each stays answerable (`TimedOutDisputeAnswerable`, two disputes).
  `pending.rs:571-572` says nothing can answer a failed attempt; `publish.rs:26-28` lets a failed publish
  have arrived.  On threads, an acceptance may be lost between a dispute's elapsed wait and its detach;
  `AcceptedDisputeRecorded` is checked on the event loop.
* Bond claims.  `AcknowledgementRecorded`: a submission writes the clone it read before publishing; an acknowledgement
  recorded meanwhile is replaced by `Submitted` (`bond.rs:329`).  `RearmedOnlyAfterFailure`: a prompt older than the
  acceptance, replayed after a restart, re-arms an acknowledged claim (`bond_claims.rs:100`).  Two overlapping submissions
  replace each other's pending record (`bond.rs:312`); `NoStrandedCall` is checked without claims.
* Trade row.  `NeverWrittenRecovered`: a message that cannot rebuild a row advances the cursor, and the older one that
  could is refused for good (`orders.rs:5268`).  `AdminVerdictKept`: a public `canceled` after the admin's message erases
  `CanceledByAdmin` (`status.rs:142`).  With `Interleaved = TRUE` and a taker, the public wipe deletes the row before it leaves the tombstone,
  and a message in between rebuilds it (`WipedStaysWiped`); and a handler that straddles a public status leaves a row that does
  not agree with the daemon once all is settled (`RowTruthful`).  A public `canceled` that arrives while a create's row is unwritten leaves no cursor and no tombstone, so
  the replayed acknowledgement is adopted as pending; `NeverActiveGone` and `RowTruthful` leave
  out lost creates (`unwritten`).  After a restart no task notes the public view, and a replayed waiting message followed by a wipe drops
  a republished order from the ex-taker's book; `ExTakerSeesOrder` is about the session of the take.
  A take accepted after its timeout can move a row an earlier take left behind, which keeps the earlier
  take's key.
* Bond.  `note_bond_locked` is for takers, so a maker's bond stays requested when a status replay beats `new-order`
  (comment `orders.rs:3796-3798`).  `close_expired_bond_window`'s "a paid window is left alone" (`bond.rs:54-59`) does not hold
  for a lock the client has not heard of.  The note of a cancel outside the window is not consumed and can answer for
  a later take.  `abandon_maker_bond` does not look at `maker_order_is_published`.
* Order book.  `BookOfActiveNode`: an event of the node just left can enter the book after the clear (`orders.rs:7598`).
* Watcher.  `RetakeOwnsReq`: when the predecessor closes the shared REQ late, a retake's task runs without one, although the new task "re-opens and owns it" (`orders.rs:6106-6109`, `6127-6137`).
* Relays.  `CoalescedIsFresh`: a coalesced resync may report a pass that began before the call (`api/nostr.rs:484`).
  `OneMoreRun`: a burst may cost more than "at most one more" run (`api/nostr.rs`, initialize).  A removed relay that is the compiled-in one is back after a
  restart that finds no active relay stored (`Standing`).
* Node switch.  `CashuNeverLeaks`: the escrow mode of the node just left is read until the clear (`escrow_mode.rs:377-388`).
  `ClaimFindsFetchPending`: a prompt handled before the fetch is marked pending uses the default window (`orders.rs:7099-7106`).
  `FilterOfActiveNode`: two switches that overlap can leave the filter on the node just left.
* Trade index.  `RaiseAlwaysDurable` (`identity.rs:449-451`): after a derivation whose write failed the raise finds memory already there and
  writes nothing.  `FallbackIsSafe` (`identity.rs:178-184`): when the store cannot be read, the mirror may be behind and a key is reused.
* Session.  `RevealSurvivesTake` (`session.rs:161-188`): a reveal that comes with the first reply and finds an earlier take's session is
  stored in it and lost when the take replaces it.
* Disputes.  `OriginRestored`: rehydration does not restore every persisted origin (`disputes.rs:798`).  A replay that comes newest first makes an older
  solver look "genuinely newer" (`disputes.rs:555`), and a change of solver leaves the listener keyed to the old one.
  `handle_admin_settled` and `handle_admin_canceled` have no caller although `disputes.rs:5-8` says they are driven.
* Chat.  `CursorNotPastFailed`: a later message saved moves the cursor past an earlier one whose save failed
  (`messages.rs:62-66`).  `ReqHasTask`: a task stopped before it opened its REQ opens it all the same and leaves it (`messages.rs:1320`).
* Push.  `EnableRetriesAll`: switching notifications on does not clear the refusal a running pass is about to write
  (`api/push.rs:628-631`).  `OptOutIsFull`: a registration whose answer was lost is not unregistered by an opt-out (`mostro/push.rs:15-17`).

* Restored history.  A take made between the restore's reply and the daemon's counter is at or below the floor and not listed, so it is settled as
  history (`restore_history.rs:10-13` says the two together tell them apart); a retake between a pass's listing and its unlocked wipe is dropped
  (`raced` in `LiveRowKept`).  A crash between the raise of the counter and the snapshot leaves history unsettled, and without the daemon's counter finished
  trades above the listed maximum are not settled.
* Identity.  `BindingNotInherited`: a take in flight across a swap stores an index of the identity it left.  An import of a mistyped mnemonic deletes the old
  identity first, and a retry fails until a restart.  A mirror that lags at a delete and a crash reissues keys.  A key of the new identity bound before
  its mnemonic is written outlives a stop there, under the old one (`crossed`).  `TRADE_KEY_MAP` (`orders.rs:35`) is never cleared (cf. `identity.rs:330-333`).
* Nostr Wallet Connect.  A payment that timed out may still be made.  `ChosenWalletKept`: a restore at start that ends after the user's choice
  puts the old wallet back, and a screen left while connecting records nothing.
* What a node demands.  An info event not found counts as difficulty 0 while the transport's verdict stays, so a first contact may go out under-mined (`missed` in `MinedEnough`).
  `apply_node_capabilities` compares the node and then stores: on threads a switch and its clear fit in between, although the result is said to be dropped whole.  A create binds its key
  before the wrap, so one that fails there leaves the binding.
* Escrow mode.  A snapshot reads the overrides twice, so its "override fields can never disagree with the mode" (`api/escrow.rs`) does not hold for one that
  straddles a change; two calls that set the same field at once may leave memory unlike the store (`doubled`).
* Cashu.  A locked 2-of-3 send cannot be revoked by the wallet alone, so a confirm that fails after the token was created ends `CashuSendUnresolved`, where `escrow.rs:238-250` counts on
  the revoke.  A redeem reported failed may have happened.  A stop between the confirm and the hand-out leaves proofs reserved.
* Node list.  A listing reads the active node before the lock and re-adds it after a select-other and remove.  A node added between the second list and
  `store_info` loses its cached event.
* Ratings.  A rating without a trade key is local and lost at a restart; one whose marker was lost, or whose send was reported failed, may go out twice
  (`excused` in `RatedOnce`).
* Storage.  SQLite patches every row of an order and looks up the oldest, the web the newest.  The comment on the web's `save_trade` says the section stops a save built from
  a stale read, but the read is outside it.  A probe of a migration that fails reads as "no": a failed probe of `data` drops readable messages (`misread` in `MessagesPreserved`),
  one of `trades` fails the open at the index.  Lists fail on one corrupt row in SQLite and skip it on the web.

## What the models leave out

* `TradeRow`: the cooperative-cancel sub-state, the local writes of
  `cancel_order`, the restored-history pass, amounts and invoices; bonds, sessions and peers are in their own modules.
  A confirmed take is persisted in one step,
  under the lock it was handed.  `Settled` excludes states the sweep or the payout check still has to
  repair; `Agree` accepts a plain `Canceled` or `Success` for the finer outcome.  A maker's row that the
  book moved to `InProgress` is kept as `Canceled`, as `cancellation_wipes_history` documents.
* `PendingRequests`: message contents beyond action, nonce and time.  `take_matching_request` in the new-order
  arm matches a record of any kind; the daemon answers only creates with it.
* `TradeSubs`: a REQ left by a setup abandoned after the relays accepted it has no watcher until the key's
  next setup; coverage after a pool shutdown is the re-arm paths' job.
* `NodeSwitch`: the comparison of the node and the writes of its capabilities are one step; the wait of a claim for its
  policy does not time out; every node runs Cashu.
* `RelayList`: the user's calls come one at a time, and so do the event loop's syncs; the two mix.
* `Identity`: one take in flight at a time; a read and write of secure storage by `saveTradeKeyIndex` is one step.
* `Chat`: sending, attachments and the cryptography of an envelope.  `ChatCards`: the identity, toggle and route filters.
* `PushRegs`: a tick is twelve hours and a back-off one tick; the wake of a peer and a clock set back are left out.
* `Disputes`: attachments and the daemon's dispute token.
* `RestoreHistory`: the two passes after a restore and the sweep's run one at a time; a relay that does not answer is a fault of the bound.
* `Nwc`: parsing beyond "the result of another method"; budgets and balances.  `NodeCaps`: the grace of the first answer is a choice of copy.  `EscrowMode`
  moves at most `MaxMoves` times.
* `Cashu`: `receive_token` and `sweep_spent_proofs`; amounts other than the funds; the escrow primitives have no caller in the app yet.
* `NodeRegistry`: `handle_rating_received`, which has no caller; the metadata (kind 0) of a node.
* `Storage`, `WebStore`: rows of trades only; messages are in `Sqlite` and the web's `mark_messages_read`, an unlocked loop of whole saves, is left out.
* Elsewhere storage calls are atomic and durable.  Cryptography, parsing and formatting are not modelled.

## Not modelled

Keys and encryption, settings, invoices, logging and the runtime shims; the generated bridge; the Flutter screens; `fsm.rs`, a table of legal actions no
other module consults; publishing to one relay and its retries; sending a chat message and attachments; the push that wakes a peer; the rate limits of the dispatcher
and its Cashu arms.  They are pure, generated, views, or calls whose outcome the models already choose freely.

## Plan

1. Proofs of the row: `RowTruthful` and `NeverActiveGone` for whole handlers, from an invariant that ties the row's status, the cursor and the newest public event heard to the daemon's history.
2. Model: the dispatcher's Cashu arms; sending a chat message with its outbox; publishing to several relays.
