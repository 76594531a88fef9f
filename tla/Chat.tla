-------------------------------- MODULE Chat --------------------------------
(***************************************************************************)
(* The incoming chat of one order (api/messages.rs): a listener task per   *)
(* channel with its generation claim and its REQ, the receive pipeline     *)
(* with its replay dedup, the message store (a memory list written through *)
(* to the `messages' table) and the durable `since' cursor of each channel.*)
(*                                                                         *)
(* A message is its timestamp; the envelope's cryptography is left out: a  *)
(* message that fails it is one the pipeline refuses.  Relays deliver what *)
(* a REQ asks for in any order, again and again, or not at all.            *)
(***************************************************************************)
EXTENDS Integers, FiniteSets

CONSTANTS Channels,       \* ChatChannel::Peer and ::Dispute
          ChannelOf,      \* the channel of each message: a sequence
          MaxTasks,       \* bound on listener tasks, over all runs of the app
          MaxFailures,    \* bound on failed database writes
          MaxRefusals,    \* bound on messages the pipeline refuses
          MaxStops,       \* bound on stop_chat_subscriptions calls
          MaxRestarts     \* bound on process restarts

Msgs == DOMAIN ChannelOf
ChatTasks == 1..MaxTasks
NoReq == -1

VARIABLES sent,      \* messages the relays hold
          mem,       \* MessageStore.messages: copies of each message
          hydrated,  \* the trade's persisted history has been loaded
          nonDurable,\* MessageStore.non_durable
          table,     \* the messages table
          cursorRow, \* the persisted cursors
          active,    \* ACTIVE_CHATS: the owning generation, 0: none
          req,       \* each channel's REQ: its `since', or NoReq
          gen,       \* CHAT_GENERATION
          task,      \* the listener tasks
          stopping,  \* channels a stop still has to close
          failures, refusals, stops, restarts,
          overlapped \* history: a channel had two listener tasks at once

vars == <<sent, mem, hydrated, nonDurable, table, cursorRow, active, req, gen, task,
          stopping, failures, refusals, stops, restarts, overlapped>>
store == <<mem, hydrated, nonDurable, table>>
bounds == <<failures, refusals, stops, restarts, overlapped>>

Stages == {"none", "claimed", "looping", "waiting", "checking", "storing", "writing",
           "leaving", "closing"}

TypeOK ==
    /\ sent \subseteq Msgs /\ nonDurable \subseteq Msgs /\ table \subseteq Msgs
    /\ mem \in [Msgs -> 0..MaxTasks] /\ hydrated \in BOOLEAN
    /\ cursorRow \in [Channels -> {0} \cup Msgs]
    /\ active \in [Channels -> 0..gen] /\ gen \in 0..MaxTasks
    /\ req \in [Channels -> {NoReq, 0} \cup Msgs]
    /\ task \in [ChatTasks -> [stage : Stages, channel : Channels, cursor : {0} \cup Msgs,
                           seen : SUBSET Msgs, msg : {0} \cup Msgs]]
    /\ stopping \subseteq Channels
    /\ failures \in 0..MaxFailures /\ refusals \in 0..MaxRefusals
    /\ stops \in 0..MaxStops /\ restarts \in 0..MaxRestarts /\ overlapped \in BOOLEAN

NoTask == [stage |-> "none", channel |-> CHOOSE c \in Channels : TRUE, cursor |-> 0,
           seen |-> {}, msg |-> 0]

Init ==
    /\ sent = {} /\ mem = [m \in Msgs |-> 0] /\ hydrated = FALSE
    /\ nonDurable = {} /\ table = {} /\ cursorRow = [c \in Channels |-> 0]
    /\ active = [c \in Channels |-> 0] /\ req = [c \in Channels |-> NoReq]
    /\ gen = 0 /\ task = [t \in ChatTasks |-> NoTask] /\ stopping = {}
    /\ failures = 0 /\ refusals = 0 /\ stops = 0 /\ restarts = 0
    /\ overlapped = FALSE

At(t, s) == task[t].stage = s
Go(t, s) == task' = [task EXCEPT ![t].stage = s]
Current(t) == active[task[t].channel] = t

-----------------------------------------------------------------------------
(* The listener task.                                                      *)

(* A peer reveal, a restart's resubscription or a resume starts a          *)
(* listener; it is a no-op while one owns the chat.                        *)
claim_chat(c) ==
    /\ active[c] = 0 /\ gen < MaxTasks
    /\ gen' = gen + 1
    /\ active' = [active EXCEPT ![c] = gen + 1]
    /\ task' = [task EXCEPT ![gen + 1] = [NoTask EXCEPT !.stage = "claimed", !.channel = c]]
    /\ overlapped' = (overlapped \/ \E t \in ChatTasks : task[t].channel = c /\ ~At(t, "none"))
    /\ UNCHANGED <<sent, store, cursorRow, req, stopping, failures, refusals, stops, restarts>>

(* The cursor is read and the REQ replaced, `since' the cursor.            *)
open_req(t) ==
    LET c == task[t].channel IN
    /\ At(t, "claimed")
    /\ req' = [req EXCEPT ![c] = cursorRow[c]]
    /\ task' = [task EXCEPT ![t].stage = "looping", ![t].cursor = cursorRow[c]]
    /\ UNCHANGED <<sent, store, cursorRow, active, gen, stopping, bounds>>

(* No relay pool, or the subscribe call failed.                            *)
open_fails(t) ==
    /\ At(t, "claimed")
    /\ Go(t, "leaving")
    /\ UNCHANGED <<sent, store, cursorRow, active, req, gen, stopping, bounds>>

(* The top of the loop: a task whose chat was taken back returns.          *)
chat_is_current(t) ==
    /\ At(t, "looping")
    /\ Go(t, IF Current(t) THEN "waiting" ELSE "leaving")
    /\ UNCHANGED <<sent, store, cursorRow, active, req, gen, stopping, bounds>>

(* Any other message of the relays wakes the task.                         *)
wake(t) ==
    /\ At(t, "waiting")
    /\ Go(t, "looping")
    /\ UNCHANGED <<sent, store, cursorRow, active, req, gen, stopping, bounds>>

release_chat(t) ==
    /\ At(t, "leaving")
    /\ IF Current(t)
         THEN /\ active' = [active EXCEPT ![task[t].channel] = 0]
              /\ Go(t, "closing")
         ELSE /\ task' = [task EXCEPT ![t] = NoTask]
              /\ UNCHANGED active
    /\ UNCHANGED <<sent, store, cursorRow, req, gen, stopping, bounds>>

close_req(t) ==
    /\ At(t, "closing")
    /\ req' = [req EXCEPT ![task[t].channel] = NoReq]
    /\ task' = [task EXCEPT ![t] = NoTask]
    /\ UNCHANGED <<sent, store, cursorRow, active, gen, stopping, bounds>>

(* The trade is over: every claim goes at once, the REQs one by one.       *)
stop_chat_subscriptions ==
    /\ stopping = {} /\ stops < MaxStops
    /\ stopping' = {c \in Channels : active[c] # 0}
    /\ active' = [c \in Channels |-> 0]
    /\ stops' = stops + 1
    /\ UNCHANGED <<sent, store, cursorRow, req, gen, task, failures, refusals, restarts,
                   overlapped>>

stop_closes(c) ==
    /\ c \in stopping
    /\ stopping' = stopping \ {c}
    /\ req' = [req EXCEPT ![c] = NoReq]
    /\ UNCHANGED <<sent, store, cursorRow, active, gen, task, bounds>>

-----------------------------------------------------------------------------
(* The receive pipeline of an event of the REQ.                            *)

Deliverable(t, m) ==
    LET c == task[t].channel IN
    /\ At(t, "waiting") /\ m \in sent \ task[t].seen
    /\ ChannelOf[m] = c /\ req[c] # NoReq /\ m >= req[c]

(* handle_chat_event: the outer id is remembered first.                    *)
receive(t, m) ==
    /\ Deliverable(t, m)
    /\ task' = [task EXCEPT ![t].stage = "checking", ![t].msg = m, ![t].seen = @ \cup {m}]
    /\ UNCHANGED <<sent, store, cursorRow, active, req, gen, stopping, bounds>>

(* The budget, the validation, the dedup lookup or the quota refuses it;   *)
(* a flood of refusals ends the task.                                      *)
refuse(t, m) ==
    /\ Deliverable(t, m) /\ refusals < MaxRefusals
    /\ refusals' = refusals + 1
    /\ \E s \in {"looping", "leaving"} :
         task' = [task EXCEPT ![t].stage = s, ![t].seen = @ \cup {m}]
    /\ UNCHANGED <<sent, store, cursorRow, active, req, gen, stopping, failures, stops, restarts,
                   overlapped>>

(* Mutant: both conversations of an order share one cursor.                *)
cursor_key_shared(c) == CHOOSE d \in Channels : TRUE

(* The key of a channel's cursor.                                          *)
cursor_key(c) == c

(* advance_cursor: the task's cursor only grows; persisting it may fail.   *)
advance_cursor(t) ==
    LET c == task[t].channel  m == task[t].msg IN
    /\ task' = [task EXCEPT ![t].stage = "looping", ![t].msg = 0,
                            ![t].cursor = IF m > @ THEN m ELSE @]
    /\ IF m > task[t].cursor
         THEN \E saved \in BOOLEAN :
                /\ saved \/ failures < MaxFailures
                /\ cursorRow' = IF saved THEN [cursorRow EXCEPT ![cursor_key(c)] = m]
                                ELSE cursorRow
                /\ failures' = IF saved THEN failures ELSE failures + 1
         ELSE UNCHANGED <<cursorRow, failures>>

drop_event(t) == task' = [task EXCEPT ![t].stage = "looping", ![t].msg = 0]

is_known(m) == mem[m] > 0 \/ m \in table

(* The known copy is durable, or its write is retried once.                *)
known_durable(t) ==
    /\ At(t, "checking") /\ is_known(task[t].msg) /\ task[t].msg \notin nonDurable
    /\ advance_cursor(t)
    /\ UNCHANGED <<sent, store, active, req, gen, stopping, refusals, stops, restarts, overlapped>>

ensure_durable(t) ==
    LET m == task[t].msg IN
    /\ At(t, "checking") /\ is_known(m) /\ m \in nonDurable /\ m \notin table
    /\ \/ /\ table' = table \cup {m} /\ nonDurable' = nonDurable \ {m}
          /\ UNCHANGED <<sent, mem, hydrated, task, cursorRow, active, req, gen, stopping, bounds>>
       \/ /\ failures < MaxFailures /\ failures' = failures + 1
          /\ drop_event(t)
          /\ UNCHANGED <<sent, store, cursorRow, active, req, gen, stopping,
                         refusals, stops, restarts, overlapped>>

unknown(t) ==
    /\ At(t, "checking") /\ ~is_known(task[t].msg)
    /\ Go(t, "storing")
    /\ UNCHANGED <<sent, store, cursorRow, active, req, gen, stopping, bounds>>

(* Mutant: the loaded history is not matched against what is listed.       *)
ensure_hydrated_again == [m \in Msgs |-> IF m \in table THEN mem[m] + 1 ELSE mem[m]]

(* add_message: the history is loaded once, then the copy is pushed, ...   *)
ensure_hydrated == [m \in Msgs |-> IF ~hydrated /\ mem[m] = 0 /\ m \in table THEN 1 ELSE mem[m]]

push(t) ==
    /\ At(t, "storing")
    /\ hydrated' = TRUE
    /\ mem' = [ensure_hydrated EXCEPT ![task[t].msg] = @ + 1]
    /\ Go(t, "writing")
    /\ UNCHANGED <<sent, nonDurable, table, cursorRow, active, req, gen, stopping, bounds>>

(* ... then written through; only a durable copy moves the cursor.         *)
save_message(t) ==
    /\ At(t, "writing")
    /\ table' = table \cup {task[t].msg}
    /\ nonDurable' = nonDurable \ {task[t].msg}
    /\ advance_cursor(t)
    /\ UNCHANGED <<sent, mem, hydrated, active, req, gen, stopping, refusals, stops, restarts, overlapped>>

(* Mutant: a failed write is only logged.                                  *)
save_fails_unmarked(t) ==
    /\ At(t, "writing") /\ failures < MaxFailures
    /\ failures' = failures + 1
    /\ drop_event(t)
    /\ UNCHANGED <<sent, store, cursorRow, active, req, gen, stopping,
                   refusals, stops, restarts, overlapped>>

(* Mutant: a failed write moves the cursor all the same.                   *)
save_fails_advances(t) ==
    LET c == task[t].channel  m == task[t].msg IN
    /\ At(t, "writing") /\ failures < MaxFailures
    /\ failures' = failures + 1
    /\ nonDurable' = nonDurable \cup {m}
    /\ task' = [task EXCEPT ![t].stage = "looping", ![t].msg = 0, ![t].cursor = m]
    /\ cursorRow' = [cursorRow EXCEPT ![cursor_key(c)] = m]
    /\ UNCHANGED <<sent, mem, hydrated, table, active, req, gen, stopping,
                   refusals, stops, restarts, overlapped>>

save_fails(t) ==
    /\ At(t, "writing") /\ failures < MaxFailures
    /\ failures' = failures + 1
    /\ nonDurable' = nonDurable \cup {task[t].msg}
    /\ drop_event(t)
    /\ UNCHANGED <<sent, mem, hydrated, table, cursorRow, active, req, gen, stopping,
                   refusals, stops, restarts, overlapped>>

-----------------------------------------------------------------------------
(* The peer writes; the app is killed and starts again.                    *)
peer_sends(m) ==
    /\ m \notin sent /\ \A n \in Msgs : n < m => n \in sent
    /\ sent' = sent \cup {m}
    /\ UNCHANGED <<store, cursorRow, active, req, gen, task, stopping, bounds>>

restart ==
    /\ restarts < MaxRestarts /\ restarts' = restarts + 1
    /\ mem' = [m \in Msgs |-> 0] /\ hydrated' = FALSE /\ nonDurable' = {}
    /\ active' = [c \in Channels |-> 0] /\ req' = [c \in Channels |-> NoReq]
    /\ task' = [t \in ChatTasks |-> NoTask] /\ stopping' = {}
    /\ UNCHANGED <<sent, table, cursorRow, gen, failures, refusals, stops, overlapped>>

TaskStep(t) ==
    \/ open_req(t) \/ open_fails(t) \/ chat_is_current(t) \/ wake(t)
    \/ release_chat(t) \/ close_req(t)
    \/ \E m \in Msgs : receive(t, m) \/ refuse(t, m)
    \/ known_durable(t) \/ ensure_durable(t) \/ unknown(t)
    \/ push(t) \/ save_message(t) \/ save_fails(t)

Next ==
    \/ \E c \in Channels : claim_chat(c) \/ stop_closes(c)
    \/ stop_chat_subscriptions \/ restart
    \/ \E t \in ChatTasks : TaskStep(t)
    \/ \E m \in Msgs : peer_sends(m)

Spec == Init /\ [][Next]_vars

-----------------------------------------------------------------------------
(* Partial failure (messages.rs:63): the store knows which of the messages *)
(* it lists it does not hold durably.  A message listed in memory and      *)
(* missing from the table is in non_durable, or a listener is at its       *)
(* write.                                                                  *)
MemoryOnlyKnown ==
    \A m \in Msgs : mem[m] > 0 /\ m \notin table =>
        m \in nonDurable \/ \E t \in ChatTasks : At(t, "writing") /\ task[t].msg = m

(* Crash (messages.rs:1276): the cursor a restart reads names a message of *)
(* its own channel that the table holds, whatever writes failed and        *)
(* however the two channels' listeners interleave, as long as a stopped    *)
(* listener has not overlapped with its successor: then the successor may  *)
(* take the other's unwritten copy for a durable one.                      *)
CursorOnDurable == ~overlapped =>
    \A c \in Channels : cursorRow[c] # 0 =>
        cursorRow[c] \in table /\ ChannelOf[cursorRow[c]] = c

(* Partial failure: messages.rs:63 says the cursor "must never advance     *)
(* past" an id whose write failed, "or a restart loses the message".  A    *)
(* later message of the channel, stored well, moves it past.               *)
CursorNotPastFailed ==
    \A m \in nonDurable : cursorRow[ChannelOf[m]] <= m

(* Interleaving: messages.rs:1320 says the cleanup of every exit path      *)
(* drops the relay subscription "so it never outlives the task".  A task   *)
(* stopped before it opened its REQ opens it all the same and, superseded, *)
(* leaves it open.                                                         *)
ReqHasTask ==
    \A c \in Channels : req[c] # NoReq =>
        c \in stopping \/ \E t \in ChatTasks : task[t].channel = c /\ task[t].stage # "none"
=============================================================================
