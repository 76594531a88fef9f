------------------------------- MODULE MCNodes -------------------------------
(* What follows the selected node or the identity, side by side:              *)
(* subscriptions, policies and wallet on a switch, the push registrations of   *)
(* its trade keys, the identity and its counter.  A behaviour moves one.       *)
EXTENDS NodeSwitch

CONSTANTS
    PushKeys, PushNodes, Tokens, PushNone, Grace, Refusal, MaxTime, MaxMoves,
    MaxFaults, Orders, MaxIdentity, MaxIndex

VARIABLES
    part,    \* the component this behaviour is about
    \* PushRegs
    rows, enabled, token, regs, refusals, server, dirty, scheduled, waiting, pass,
    now, moves, faults, cleanAt, forgotten, unheard, selected, again,
    \* Identity
    mem, stored, secure, announced, teller, ident_keys, keyMap, swap, take, started,
    ident_faults, torn, issued, ident_forgotten, crossed, misused

Push == INSTANCE PushRegs WITH
    Keys <- PushKeys, Nodes <- PushNodes, None <- PushNone

Ident == INSTANCE Identity WITH
    keys <- ident_keys, faults <- ident_faults, forgotten <- ident_forgotten

(* The nodes, tasks and tokens there are do not hold the values for none of    *)
(* them; the clock starts at 1, and a first launch needs an identity.          *)
ASSUME NodesAssumption ==
    /\ FirstNode \in Nodes /\ FirstKeys \subseteq Keys
    /\ IsFiniteSet(Tasks) /\ None \notin Nodes \cup Tasks
    /\ PushNone \notin PushNodes \cup Tokens
    /\ {Grace, Refusal, MaxMoves, MaxFaults, MaxIndex} \subseteq Nat
    /\ {MaxTime, MaxIdentity} \subseteq Nat \ {0}

Parts == {"switch", "push", "identity"}

MCInit ==
    /\ part \in Parts
    /\ Init /\ Push!Init /\ Ident!Init

PushVars == <<rows, enabled, token, regs, refusals, server, dirty, scheduled, waiting, pass,
      now, moves, faults, cleanAt, forgotten, unheard, selected, again>>
IdentVars == <<mem, stored, secure, announced, teller, ident_keys, keyMap, swap, take, started,
      ident_faults, torn, issued, ident_forgotten, crossed, misused>>

MCvars == <<part, vars, PushVars, IdentVars>>

MCNext ==
    \/ part = "switch" /\ Next /\ UNCHANGED <<part, PushVars, IdentVars>>
    \/ part = "push" /\ Push!Next /\ UNCHANGED <<part, vars, IdentVars>>
    \/ part = "identity" /\ Ident!Next /\ UNCHANGED <<part, vars, PushVars>>

MCSpec == MCInit /\ [][MCNext]_MCvars

------------------------------------------------------------------------------
(* Types; the message filter covers every bound key once nothing is pending, *)
(* and the capabilities and the mint in use are those of the active node.   *)
SwitchSound == part = "switch" =>
    /\ TypeOK
    /\ KeysCovered
    /\ CapabilitiesOfActive
    /\ SpendsAtActiveMint

(* Types; a pass that left nothing undone left every wanted key served, an  *)
(* opt-out leaves no registration behind, and selecting a node again        *)
(* retries its keys at once.                                                *)
PushSound == part = "push" =>
    /\ Push!TypeOK
    /\ Push!ServedWhenQuiet
    /\ Push!SilentWhenOff
    /\ Push!SelectedNodeRetried

(* Types; the trade-key counter is at or above every key handed out unless    *)
(* it was dropped before it was mirrored; it is zero or the index of a key of *)
(* the loaded identity unless secure storage mirrors another's (a stop        *)
(* between the mnemonic and the counter, an index announced before the        *)
(* switch); and a stored binding is of the loaded identity unless it crossed  *)
(* over: its deletion failed, a take straddled the switch, or a stop came     *)
(* before the mnemonic.                                                       *)
IdentitySound == part = "identity" =>
    /\ Ident!TypeOK
    /\ Ident!CounterNotBehind
    /\ Ident!CounterNotInherited
    /\ Ident!StoredBindingsOwned

(* A claim waits for the policy in flight, and a key is unregistered only   *)
(* after its grace.                                                         *)
NodeSteps ==
    /\ ClaimWaitsForPolicy
    /\ Push!GraceKept
==============================================================================
