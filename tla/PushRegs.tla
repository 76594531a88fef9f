------------------------------- MODULE PushRegs -------------------------------
(* Push registrations: the rules of src/rust/src/mostro/push.rs and the        *)
(* reconcile of src/rust/src/api/push.rs that applies them.  A pass holds      *)
(* RECONCILE_LOCK, loads the persisted state, works out what the trade rows    *)
(* want, sends one request at a time, and writes its copy of the state back    *)
(* when it is through.  The settings, the rows, the server and the clock move  *)
(* under it, and the app can stop anywhere.  One tick is REFRESH_SECS; a key   *)
(* stands for a trade key or the key of an open payout claim.                  *)
EXTENDS Naturals, FiniteSets

CONSTANTS Keys,           \* trade pubkeys
          Nodes,          \* the nodes that issue them
          Tokens,         \* device tokens
          None,           \* no node, no token
          Grace, Refusal, \* GRACE_SECS and NODE_REFUSAL_SECS, in ticks
          MaxTime,        \* bound on the clock
          MaxMoves,       \* bound on what users and trades do
          MaxFaults       \* bound on lost requests, refusals, stops, forgetting

VARIABLES rows,           \* wanted_pubkeys: key -> issuing node, or None
          enabled, token, regs, refusals,      \* the persisted settings
          server,         \* what the push server holds: key -> token, or None
          dirty, scheduled, waiting,           \* DIRTY, SCHEDULED, callers at the lock
          pass,           \* the reconcile that holds the lock
          now, moves, faults,
          cleanAt,        \* history: when the last pass ran, if it left nothing undone
          forgotten,      \* history: the server lost what the record says it holds
          unheard,        \* history: the server took something the client did not record
          selected, again \* history: nodes to retry, by a selection, by the toggle

vars == <<rows, enabled, token, regs, refusals, server, dirty, scheduled, waiting, pass,
          now, moves, faults, cleanAt, forgotten, unheard, selected, again>>

(* ---- State -------------------------------------------------------------------- *)

Time == 0 .. MaxTime
Never == 0                       \* no clock value: the clock starts at 1

\* PushRegistration; `next` is next_attempt_at, and attempts > 0 whenever it is set.
Unknown == [known |-> FALSE, token |-> None, at |-> Never, node |-> None,
            unwanted |-> Never, next |-> Never]
Registration == [known : BOOLEAN, token : Tokens \union {None}, at : Time,
                 node : Nodes \union {None}, unwanted : Time, next : 0 .. MaxTime + 1]

\* The pass: its copy of the state, the requests left, whether all went well.
Free == [on |-> FALSE, deleting |-> FALSE, token |-> None,
         regs |-> [k \in Keys |-> Unknown], refusals |-> [n \in Nodes |-> Never],
         todo |-> [k \in Keys |-> [do |-> "nothing", node |-> None]],
         at |-> Never, clean |-> TRUE]

is_registered(r) == r.token # None
refusal_active(at, t) == at # Never /\ t < at + Refusal

TypeOK ==
  /\ rows \in [Keys -> Nodes \union {None}]
  /\ enabled \in BOOLEAN /\ token \in Tokens \union {None}
  /\ regs \in [Keys -> Registration] /\ refusals \in [Nodes -> Time]
  /\ server \in [Keys -> Tokens \union {None}]
  /\ dirty \in BOOLEAN /\ scheduled \in BOOLEAN /\ waiting \in 0 .. 2
  /\ pass.on \/ pass = Free
  /\ now \in 1 .. MaxTime /\ moves \in 0 .. MaxMoves /\ faults \in 0 .. MaxFaults
  /\ cleanAt \in Time /\ forgotten \subseteq Keys /\ unheard \subseteq Keys
  /\ selected \subseteq Nodes /\ again \subseteq Nodes
  \* A record the server never accepted is there for its backoff.
  /\ \A k \in Keys : regs[k].known /\ ~is_registered(regs[k]) => regs[k].next # Never

Init ==
  /\ rows = [k \in Keys |-> None] /\ enabled = TRUE /\ token = None
  /\ regs = [k \in Keys |-> Unknown] /\ refusals = [n \in Nodes |-> Never]
  /\ server = [k \in Keys |-> None]
  /\ dirty = FALSE /\ scheduled = FALSE /\ waiting = 0
  /\ pass = Free /\ now = 1 /\ moves = 0 /\ faults = 0
  /\ cleanAt = Never /\ forgotten = {} /\ unheard = {} /\ selected = {} /\ again = {}

(* ---- The rules: mostro/push.rs -------------------------------------------------- *)

due_by_age(r, node, tok, t) == ~r.known \/ ~is_registered(r) \/ t > r.at \/ r.next # Never

\* Whether a wanted key is (re-)registered: never accepted, another token or
\* node, too old, or owed a retry.
due(r, node, tok, t) ==
  \/ ~r.known \/ ~is_registered(r)
  \/ r.token # tok \/ r.node # node
  \/ t > r.at
  \/ r.next # Never

backing_off(r, t) == r.next # Never /\ t < r.next

plan_no_grace(k, want, r, tok, refused, t) ==
  IF want # None
  THEN IF due(r, want, tok, t) /\ ~refusal_active(refused[want], t) /\ ~backing_off(r, t)
       THEN [do |-> "register", node |-> want] ELSE [do |-> "nothing", node |-> None]
  ELSE IF is_registered(r) /\ r.unwanted # Never /\ ~backing_off(r, t)
       THEN [do |-> "unregister", node |-> None] ELSE [do |-> "nothing", node |-> None]

\* The request plan() makes of one key.
plan(k, want, r, tok, refused, t) ==
  IF want # None
  THEN IF due(r, want, tok, t) /\ ~refusal_active(refused[want], t) /\ ~backing_off(r, t)
       THEN [do |-> "register", node |-> want] ELSE [do |-> "nothing", node |-> None]
  ELSE IF is_registered(r) /\ r.unwanted # Never /\ t > r.unwanted + Grace /\ ~backing_off(r, t)
       THEN [do |-> "unregister", node |-> None] ELSE [do |-> "nothing", node |-> None]

\* NoteWanted, NoteUnwanted and Forget: the steps of a plan that send nothing.
noted(want, r, t) ==
  IF want # None THEN [r EXCEPT !.unwanted = Never]
  ELSE IF ~is_registered(r) THEN Unknown
  ELSE IF r.unwanted = Never THEN [r EXCEPT !.unwanted = t]
  ELSE r

(* ---- Asking for a pass ------------------------------------------------------------ *)

\* request_reconcile: one task per burst.
request_reconcile == dirty' = TRUE /\ scheduled' = TRUE

\* reconcile_push called directly: the caller waits for the lock.
queue_reconcile == waiting < 2 /\ waiting' = waiting + 1

\* The scheduled task wakes after COALESCE_SECS.
Burst ==
  /\ scheduled /\ scheduled' = FALSE /\ queue_reconcile
  /\ UNCHANGED <<rows, enabled, token, regs, refusals, server, dirty, pass, now, moves,
                 faults, cleanAt, forgotten, unheard, selected, again>>

\* start_push_timer's loop, and every other direct call.
Timer ==
  /\ now < MaxTime /\ now' = now + 1 /\ queue_reconcile
  /\ UNCHANGED <<rows, enabled, token, regs, refusals, server, dirty, scheduled, pass,
                 moves, faults, cleanAt, forgotten, unheard, selected, again>>

(* ---- Rows and settings change ------------------------------------------------------ *)

move == moves < MaxMoves /\ moves' = moves + 1

\* A trade row or claim is written; the writer asks for a reconcile.
RowChanges(k) ==
  /\ move /\ \E n \in Nodes \union {None} : n # rows[k] /\ rows' = [rows EXCEPT ![k] = n]
  /\ request_reconcile
  /\ UNCHANGED <<enabled, token, regs, refusals, server, waiting, pass, now, faults,
                 cleanAt, forgotten, unheard, selected, again>>

\* set_push_token and clear_push_token.
set_push_token ==
  /\ move /\ token' \in (Tokens \union {None}) \ {token}
  /\ queue_reconcile
  /\ UNCHANGED <<rows, enabled, regs, refusals, server, dirty, scheduled, pass, now,
                 faults, cleanAt, forgotten, unheard, selected, again>>

\* set_push_enabled; turning it on deletes every refusal.
set_push_enabled ==
  /\ move /\ enabled' = ~enabled
  /\ refusals' = IF enabled' THEN [n \in Nodes |-> Never] ELSE refusals
  /\ again' = IF enabled' THEN Nodes ELSE again
  /\ queue_reconcile
  /\ UNCHANGED <<rows, token, regs, server, dirty, scheduled, pass, now, faults, cleanAt, forgotten,
                 unheard, selected>>

\* clear_node_refusal, when the user selects a node: under the lock.
clear_unlocked(n) ==
  /\ move /\ refusals[n] # Never
  /\ refusals' = [refusals EXCEPT ![n] = Never]
  /\ selected' = selected \union {n}
  /\ request_reconcile
  /\ UNCHANGED <<rows, enabled, token, regs, server, waiting, pass, now, faults, cleanAt, forgotten,
                 unheard, again>>

clear_node_refusal(n) == ~pass.on /\ clear_unlocked(n)

(* ---- A pass: reconcile_with and reconcile_core ------------------------------------- *)

\* Off, or no token: everything the state knows is unregistered, and a record
\* the server never accepted is dropped.
off_plan(r) == [do |-> IF is_registered(r) THEN "unregister" ELSE "nothing", node |-> None]

began(deleting) ==
  LET on == enabled /\ token # None /\ ~deleting
  IN pass' = [on |-> TRUE, deleting |-> deleting,
              token |-> IF on THEN token ELSE None,
              regs |-> [k \in Keys |->
                          IF on THEN noted(rows[k], regs[k], now)
                          ELSE IF is_registered(regs[k]) THEN regs[k] ELSE Unknown],
              refusals |-> refusals,
              todo |-> [k \in Keys |->
                          IF on THEN plan(k, rows[k], regs[k], token, refusals, now)
                          ELSE off_plan(regs[k])],
              at |-> now,
              clean |-> ~on \/ \A k \in Keys : rows[k] # None =>
                           /\ ~refusal_active(refusals[rows[k]], now)
                           /\ ~backing_off(regs[k], now)]

\* reconcile_push takes the lock, clears DIRTY and loads.
reconcile_push ==
  /\ ~pass.on /\ waiting > 0
  /\ waiting' = waiting - 1 /\ dirty' = FALSE
  /\ began(FALSE)
  /\ UNCHANGED <<rows, enabled, token, regs, refusals, server, scheduled, now, moves,
                 faults, cleanAt, forgotten, unheard, selected, again>>

\* unregister_all, before an identity is deleted: a pass of its own.
unregister_all ==
  /\ ~pass.on /\ move
  /\ began(TRUE)
  /\ rows' = [k \in Keys |-> None]
  /\ UNCHANGED <<enabled, token, regs, refusals, server, dirty, scheduled, waiting, now,
                 faults, cleanAt, forgotten, unheard, selected, again>>

answered(k) == [pass.todo EXCEPT ![k].do = "nothing"]

\* note_accepted, or the record forgotten once the server let the key go.
request_accepted(k) ==
  /\ LET r == pass.regs[k]
         job == pass.todo[k]
     IN IF job.do = "register"
        THEN /\ server' = [server EXCEPT ![k] = pass.token]
             /\ pass' = [pass EXCEPT !.todo = answered(k),
                           !.regs[k] = [known |-> TRUE, token |-> pass.token, at |-> pass.at,
                                        node |-> job.node, unwanted |-> r.unwanted, next |-> Never]]
        ELSE /\ server' = [server EXCEPT ![k] = None]
             /\ pass' = [pass EXCEPT !.todo = answered(k), !.regs[k] = Unknown]
  /\ unheard' = unheard \ {k} /\ forgotten' = forgotten \ {k}
  /\ UNCHANGED <<faults, selected, again>>

failed_forgotten(k) ==
  /\ faults < MaxFaults /\ faults' = faults + 1
  /\ pass' = [pass EXCEPT !.todo = answered(k), !.regs[k] = Unknown, !.clean = FALSE]
  /\ UNCHANGED <<server, forgotten, unheard, selected, again>>

failed_no_backoff(k) ==
  /\ faults < MaxFaults /\ faults' = faults + 1
  /\ pass' = [pass EXCEPT !.todo = answered(k), !.clean = FALSE, !.regs[k].known = TRUE]
  /\ UNCHANGED <<server, forgotten, unheard, selected, again>>

\* note_failed, on a record that may be a pending one; the server may have
\* acted on the request all the same.
request_failed(k) ==
  /\ faults < MaxFaults /\ faults' = faults + 1
  /\ LET job == pass.todo[k]
         r == pass.regs[k]
     IN /\ pass' = [pass EXCEPT !.todo = answered(k), !.clean = FALSE,
                      !.regs[k] = [r EXCEPT !.known = TRUE, !.next = pass.at + 1,
                                   !.node = IF r.known THEN @ ELSE job.node]]
        /\ \/ UNCHANGED <<server, unheard>>
           \/ /\ job.do = "register"
              /\ server' = [server EXCEPT ![k] = pass.token]
              /\ unheard' = unheard \union {k}
  /\ UNCHANGED <<forgotten, selected, again>>

\* 403: the node's keys are left alone for NODE_REFUSAL_SECS.
request_refused(k) ==
  /\ faults < MaxFaults /\ faults' = faults + 1
  /\ pass.todo[k].do = "register"
  /\ LET n == pass.todo[k].node
     IN /\ pass' = [pass EXCEPT !.todo = answered(k), !.refusals[n] = pass.at, !.clean = FALSE]
        /\ selected' = selected \ {n} /\ again' = again \ {n}
  /\ UNCHANGED <<server, forgotten, unheard>>

reconcile_core(k) ==
  /\ pass.on /\ pass.todo[k].do # "nothing"
  /\ request_accepted(k) \/ request_failed(k) \/ request_refused(k)
  /\ UNCHANGED <<rows, enabled, token, regs, refusals, dirty, scheduled, waiting, now,
                 moves, cleanAt>>

\* save_registrations, and another round when DIRTY was set meanwhile (one more
\* caller at the lock; those that wait already do as well).
save_registrations ==
  /\ pass.on /\ \A k \in Keys : pass.todo[k].do = "nothing"
  /\ IF pass.deleting
     THEN regs' = [k \in Keys |-> Unknown] /\ refusals' = [n \in Nodes |-> Never]
     ELSE regs' = pass.regs
          /\ refusals' = [n \in Nodes |-> IF pass.at < pass.refusals[n] + 2 * Refusal
                                          THEN pass.refusals[n] ELSE Never]
  /\ unheard' = IF pass.deleting
                THEN unheard \union {k \in Keys : server[k] # None} ELSE unheard
  /\ pass' = Free /\ cleanAt' = IF pass.clean THEN pass.at ELSE Never
  /\ waiting' = IF dirty /\ ~pass.deleting /\ waiting < 2 THEN waiting + 1 ELSE waiting
  /\ UNCHANGED <<rows, enabled, token, server, dirty, scheduled, now, moves, faults,
                 forgotten, selected, again>>

(* ---- Faults ------------------------------------------------------------------------ *)

fault == faults < MaxFaults /\ faults' = faults + 1

\* The server's TTL ran out or it restarted: it forgets without a word.
ServerForgets(k) ==
  /\ fault /\ server[k] # None /\ server' = [server EXCEPT ![k] = None]
  /\ forgotten' = forgotten \union {k}
  /\ UNCHANGED <<rows, enabled, token, regs, refusals, dirty, scheduled, waiting, pass,
                 now, moves, cleanAt, unheard, selected, again>>

\* The app stops; the next start asks for a reconcile.  What the server took
\* from a pass that was not saved stays unknown to the client.
Restart ==
  /\ fault
  /\ unheard' = unheard \union {k \in Keys : server[k] # None /\ ~is_registered(regs[k])}
  /\ forgotten' = forgotten \union {k \in Keys : is_registered(regs[k])
                                                 /\ server[k] # regs[k].token}
  /\ pass' = Free /\ waiting' = 0 /\ request_reconcile
  /\ UNCHANGED <<rows, enabled, token, regs, refusals, server, now, moves, cleanAt, selected, again>>

Next ==
  \/ Burst \/ Timer \/ set_push_token \/ set_push_enabled \/ reconcile_push
  \/ unregister_all \/ save_registrations \/ Restart
  \/ \E k \in Keys : RowChanges(k) \/ reconcile_core(k) \/ ServerForgets(k)
  \/ \E n \in Nodes : clear_node_refusal(n)

Spec == Init /\ [][Next]_vars

(* ---- Properties --------------------------------------------------------------------- *)

\* No request is on its way and nothing asks for one.
Quiet == ~pass.on /\ waiting = 0 /\ ~scheduled

\* Once every trigger was consumed and the last pass left nothing undone, the
\* server holds this device's token for every key that is wanted, filed under
\* the right node: no change of a row, a token or the toggle is lost to the
\* coalescing (request_reconcile, reconcile_push).  What the server forgot stays
\* unnoticed only until the first pass one refresh later.
ServedWhenQuiet ==
  Quiet /\ cleanAt # Never /\ enabled /\ token # None =>
    \A k \in Keys : rows[k] # None =>
      /\ regs[k].token = token /\ regs[k].node = rows[k]
      /\ server[k] = token \/ (k \in forgotten /\ regs[k].at = cleanAt)

\* Once the toggle is off or the token gone, and the last pass got through, the
\* server holds nothing the client has a record of having registered.
SilentWhenOff ==
  Quiet /\ cleanAt # Never /\ (~enabled \/ token = None) =>
    \A k \in Keys : server[k] = None \/ k \in unheard

\* Selecting a node is a retry that no pass in flight takes back: its refusal
\* stays cleared until the server refuses the node anew (clear_node_refusal).
SelectedNodeRetried ==
  ~pass.on => \A n \in selected : refusals[n] = Never

\* While push is on, a key the server holds is let go only when the clock has
\* passed GRACE_SECS since a pass first found it unwanted.
GraceKept ==
  [][\A k \in Keys : pass.on /\ pass.token # None /\ pass'.on
        /\ pass.todo[k].do = "unregister" /\ server'[k] = None /\ server[k] # None =>
           now > pass.regs[k].unwanted + Grace]_vars

\* What the doc of set_push_enabled says: turning push on clears every node
\* refusal.  A pass in flight writes its copy of the refusals over the deletion.
EnableRetriesAll ==
  ~pass.on => \A n \in again : refusals[n] = Never

\* What the module doc of push.rs says: an opt-out acts on the full set.  A
\* registration whose answer was lost is dropped with no request.
OptOutIsFull ==
  Quiet /\ cleanAt # Never /\ (~enabled \/ token = None) => \A k \in Keys : server[k] = None
================================================================================
