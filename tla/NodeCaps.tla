------------------------------ MODULE NodeCaps -------------------------------
(* What a node demands of a message, and the price it quotes: the fetch of its *)
(* info event (api/nostr.rs, first_answer.rs), the difficulties of pow.rs and  *)
(* the transport of protocol_version.rs, each one slot tagged with the node it *)
(* came from, the messages built from them (actions.rs), and the rates of      *)
(* rates.rs.  The user may switch nodes between any two steps.                 *)
EXTENDS Naturals, FiniteSets, FiniteSetsExt

CONSTANTS Nodes, First,
          Infos,       \* info events: pow, first (a set of at most one) and version
          Tasks,       \* node switches and Online sequences, each with a fetch
          Wraps,       \* messages built
          Quotes,      \* calls of fetch_exchange_rate
          MaxMoves,    \* switches, Onlines and publications
          MaxTime, Lifetime   \* of a rate; in steps of the relay timeout

VARIABLES active, out,  \* the node in use; the info events each node published
          caps,         \* CAPS: at most one snapshot
          advertised,   \* ADVERTISED: at most one snapshot
          fetch, wrap, quote,
          rates,        \* SNAPSHOT: at most one, of a node, with its expiry
          now, moves,
          missed        \* history: nodes whose event once was not found

vars == <<active, out, caps, advertised, fetch, wrap, quote, rates, now, moves, missed>>

Absent == [pow |-> 0, first |-> {}, version |-> {}]
SUPPORTED_VERSION == 2

Idle == [pc |-> "idle", node |-> First, got |-> Absent]
NoWrap == [pc |-> "idle", first |-> FALSE, node |-> First, pow |-> 0]
Refused == [NoWrap EXCEPT !.pc = "refused"]
NoQuote == [pc |-> "idle", node |-> First, at |-> 0, got |-> {}]

TypeOK ==
    /\ active \in Nodes /\ \A n \in Nodes : out[n] \subseteq Infos
    /\ \A c \in caps : c.node \in Nodes /\ c.info \in Infos \cup {Absent}
    /\ \A a \in advertised : a.node \in Nodes /\ a.version \in {{}, {1}, {2}}
    /\ Cardinality(caps) <= 1 /\ Cardinality(advertised) <= 1 /\ Cardinality(rates) <= 1
    /\ \A t \in Tasks : /\ fetch[t].pc \in {"idle", "ask", "found", "none", "pow", "nopow", "version"}
                        /\ fetch[t].node \in Nodes /\ fetch[t].got \in Infos \cup {Absent}
    /\ \A w \in Wraps : /\ wrap[w].pc \in {"idle", "preflight", "pow", "version", "sent", "refused"}
                        /\ wrap[w].first \in BOOLEAN /\ wrap[w].node \in Nodes /\ wrap[w].pow \in Nat
    /\ \A q \in Quotes : quote[q].pc \in {"idle", "ask", "read", "done"} /\ quote[q].node \in Nodes
    /\ now \in 0 .. MaxTime /\ moves \in 0 .. MaxMoves /\ missed \subseteq Nodes

Init ==
    /\ active = First /\ out \in [Nodes -> {{i} : i \in Infos}]
    /\ caps = {} /\ advertised = {} /\ rates = {}
    /\ fetch = [t \in Tasks |-> Idle]
    /\ wrap = [w \in Wraps |-> NoWrap] /\ quote = [q \in Quotes |-> NoQuote]
    /\ now = 0 /\ moves = 0 /\ missed = {}

Move == moves < MaxMoves /\ moves' = moves + 1
world == <<active, out, moves>>
prices == <<quote, rates, now>>

publish(n) ==
    /\ Move /\ \E i \in Infos \ out[n] : out' = [out EXCEPT ![n] = @ \cup {i}]
    /\ UNCHANGED <<active, caps, advertised, fetch, wrap, prices, missed>>

(* A switch, or an Online of the pool; either ends in a fetch. *)
set_active_mostro_node(t) ==
    /\ fetch[t].pc = "idle" /\ Move
    /\ \E n \in Nodes \ {active} : active' = n /\ fetch' = [fetch EXCEPT ![t] = [Idle EXCEPT !.pc = "ask", !.node = n]]
    /\ UNCHANGED <<out, caps, advertised, wrap, prices, missed>>

on_pool_online(t) ==
    /\ fetch[t].pc = "idle" /\ Move
    /\ fetch' = [fetch EXCEPT ![t] = [Idle EXCEPT !.pc = "ask", !.node = active]]
    /\ UNCHANGED <<active, out, caps, advertised, wrap, prices, missed>>

(* The newest copy that arrives within the grace of the first: it may be any   *)
(* event the node published, for a relay may hold an older one.                *)
newest_answer(n) == out[n]

fetch_mostro_instance_tags(t) ==
    /\ fetch[t].pc = "ask"
    /\ \/ \E i \in newest_answer(fetch[t].node) :
            fetch' = [fetch EXCEPT ![t].pc = "found", ![t].got = i]
       \/ fetch' = [fetch EXCEPT ![t].pc = "none"]
       \/ fetch' = [fetch EXCEPT ![t] = Idle]
    /\ UNCHANGED <<world, caps, advertised, wrap, prices, missed>>

(* Dropped whole when the node was left meanwhile.  A failed query leaves both *)
(* slots alone; no event means no difficulty, and nothing is said of the       *)
(* transport.  The slots are stored one after the other.                       *)
apply_node_capabilities(t) ==
    /\ fetch[t].pc \in {"found", "none"}
    /\ fetch' = IF fetch[t].node # active THEN [fetch EXCEPT ![t] = Idle]
                ELSE [fetch EXCEPT ![t].pc = IF fetch[t].pc = "none" THEN "nopow" ELSE "pow"]
    /\ UNCHANGED <<world, caps, advertised, wrap, prices, missed>>

set_pows(t) ==
    /\ fetch[t].pc \in {"pow", "nopow"}
    /\ caps' = {[node |-> fetch[t].node, info |-> fetch[t].got]}
    /\ IF fetch[t].pc = "pow"
         THEN fetch' = [fetch EXCEPT ![t].pc = "version"] /\ UNCHANGED missed
         ELSE fetch' = [fetch EXCEPT ![t] = Idle] /\ missed' = missed \cup {fetch[t].node}
    /\ UNCHANGED <<world, advertised, wrap, prices>>

set_protocol_version(t) ==
    /\ fetch[t].pc = "version"
    /\ advertised' = {[node |-> fetch[t].node, version |-> fetch[t].got.version]}
    /\ fetch' = [fetch EXCEPT ![t] = Idle]
    /\ UNCHANGED <<world, caps, wrap, prices, missed>>

------------------------------------------------------------------------------
(* Never below pow, whatever the node published; pow when it published none. *)
resolve_first_contact(info) == Max({info.pow} \cup info.first)

(* Node-agnostic: the last snapshot's, whoever's it is. *)
get_pow == IF caps = {} THEN 0 ELSE (CHOOSE c \in caps : TRUE).info.pow

(* A create looks at the active node's transport before it binds a key; the    *)
(* other first contacts, and messages of a known key, start with the wrap.     *)
start_wrap(w) ==
    /\ wrap[w].pc = "idle"
    /\ wrap' \in {[wrap EXCEPT ![w] = [pc |-> "preflight", first |-> TRUE, node |-> active, pow |-> 0]],
                  [wrap EXCEPT ![w] = [pc |-> "pow", first |-> TRUE, node |-> active, pow |-> 0]],
                  [wrap EXCEPT ![w] = [pc |-> "version", first |-> FALSE, node |-> active, pow |-> get_pow]]}
    /\ UNCHANGED <<world, caps, advertised, fetch, prices, missed>>

is_supported(version) == version = {SUPPORTED_VERSION}

Verdicts(n) == {a.version : a \in {a \in advertised : a.node = n}}

(* Waits for the node's own verdict; then the create goes on with the node     *)
(* that is active by now, and the wrap is out.                                 *)
ensure_supported(w) ==
    /\ wrap[w].pc \in {"preflight", "version"}
    /\ \E v \in Verdicts(wrap[w].node) :
         wrap' = IF ~is_supported(v) THEN [wrap EXCEPT ![w] = Refused]
                 ELSE IF wrap[w].pc = "version" THEN [wrap EXCEPT ![w].pc = "sent"]
                 ELSE [wrap EXCEPT ![w].pc = "pow", ![w].node = active]
    /\ UNCHANGED <<world, caps, advertised, fetch, prices, missed>>

(* Mutant: whatever difficulties are stored are taken. *)
first_contact_pow_of_any(w) ==
    /\ wrap[w].pc = "pow"
    /\ \E c \in caps :
         wrap' = [wrap EXCEPT ![w].pc = "version", ![w].pow = resolve_first_contact(c.info)]
    /\ UNCHANGED <<world, caps, advertised, fetch, prices, missed>>

(* Waits for a snapshot of the node itself. *)
first_contact_pow_for(w) ==
    /\ wrap[w].pc = "pow"
    /\ \E c \in caps :
         /\ c.node = wrap[w].node
         /\ wrap' = [wrap EXCEPT ![w].pc = "version", ![w].pow = resolve_first_contact(c.info)]
    /\ UNCHANGED <<world, caps, advertised, fetch, prices, missed>>

(* PowUnknown or NodeCapabilitiesUnknown: the wait is over, the call failed. *)
CAPABILITY_WAIT(w) ==
    /\ wrap[w].pc \in {"preflight", "pow", "version"}
    /\ wrap' = [wrap EXCEPT ![w] = Refused]
    /\ UNCHANGED <<world, caps, advertised, fetch, prices, missed>>

------------------------------------------------------------------------------
tick ==
    /\ now < MaxTime /\ now' = now + 1
    /\ UNCHANGED <<world, caps, advertised, fetch, wrap, quote, rates, missed>>

(* Mutant: the snapshot is served whoever published it. *)
cached_rate_of_any(n, at) == {r \in rates : at < r.until}

(* Of the node asked for, and not expired by the time the call began. *)
cached_rate(n, at) == {r \in rates : r.node = n /\ at < r.until}

fetch_exchange_rate(q) ==
    /\ quote[q].pc = "idle"
    /\ \E n \in Nodes :
         LET held == cached_rate(n, now) IN
         quote' = [quote EXCEPT ![q] = [pc |-> IF held = {} THEN "ask" ELSE "done",
                                        node |-> n, at |-> now, got |-> held]]
    /\ UNCHANGED <<world, caps, advertised, fetch, wrap, rates, now, missed>>

(* The event was published at some time, with an expiration clamped to the     *)
(* lifetime; an expired or unusable one, or none, clears the slot, and a query *)
(* that failed leaves it.                                                      *)
store_rates(q) ==
    /\ quote[q].pc = "ask"
    /\ \/ \E until \in quote[q].at + 1 .. now + Lifetime :
            /\ rates' = {[node |-> quote[q].node, until |-> until]}
            /\ quote' = [quote EXCEPT ![q].pc = "read"]
       \/ rates' = {} /\ quote' = [quote EXCEPT ![q].pc = "done"]
       \/ UNCHANGED rates /\ quote' = [quote EXCEPT ![q].pc = "done"]
    /\ UNCHANGED <<world, caps, advertised, fetch, wrap, now, missed>>

(* Another call may have stored its own node's rates in between. *)
read_rates(q) ==
    /\ quote[q].pc = "read"
    /\ quote' = [quote EXCEPT ![q].pc = "done", ![q].got = cached_rate(quote[q].node, quote[q].at)]
    /\ UNCHANGED <<world, caps, advertised, fetch, wrap, rates, now, missed>>

Next ==
    \/ \E n \in Nodes : publish(n)
    \/ \E t \in Tasks :
         \/ set_active_mostro_node(t) \/ on_pool_online(t) \/ fetch_mostro_instance_tags(t)
         \/ apply_node_capabilities(t) \/ set_pows(t) \/ set_protocol_version(t)
    \/ \E w \in Wraps :
         \/ start_wrap(w) \/ ensure_supported(w) \/ first_contact_pow_for(w) \/ CAPABILITY_WAIT(w)
    \/ \E q \in Quotes : fetch_exchange_rate(q) \/ store_rates(q) \/ read_rates(q)
    \/ tick

Spec == Init /\ [][Next]_vars

------------------------------------------------------------------------------
(* The first message of a trade key is never mined below what its node asks    *)
(* of one in some event it published, whatever was switched or fetched         *)
(* meanwhile: the node would drop it without a word (pow.rs).  Not so when the *)
(* node's event was once not found, which counts as no difficulty.             *)
MinedEnough == \A w \in Wraps :
    wrap[w].pc = "sent" /\ wrap[w].first /\ wrap[w].node \notin missed
      => \E i \in out[wrap[w].node] : wrap[w].pow >= resolve_first_contact(i)

(* Nothing is sent to a node that never said it reads what this app sends      *)
(* (protocol_version.rs).                                                      *)
SentReadable == \A w \in Wraps :
    wrap[w].pc = "sent" => \E i \in out[wrap[w].node] : is_supported(i.version)

(* A price is the asked node's own, and was valid when it was asked for, also  *)
(* when calls for two nodes overlap (rates.rs).                                *)
RateOfItsNode == \A q \in Quotes : \A r \in quote[q].got :
    r.node = quote[q].node /\ quote[q].at < r.until
=============================================================================
