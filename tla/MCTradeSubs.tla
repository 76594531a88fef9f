----------------------------- MODULE MCTradeSubs -----------------------------
(* The watcher of a trade key, and the history a restore leaves, side by side: *)
(* a behaviour moves one of them.  c1 is a create or take, the others re-arm   *)
(* its watcher.                                                                *)
EXTENDS TradeSubs, Integers

CONSTANTS
    Orders, MaxIndex, MaxRestores, MaxFaults

VARIABLES
    part,    \* the component this behaviour is about
    \* RestoreHistory
    trade, daemon, counter, row, tomb, snap, restore, pass, restores, faults,
    raced, lost, settled

History == INSTANCE RestoreHistory

(* There is an order, and keys for the two a seed may bring along.             *)
ASSUME HistoryAssumption ==
    /\ Orders # {} /\ {MaxIndex, MaxRestores, MaxFaults} \subseteq Nat /\ MaxIndex >= 2

Parts == {"trade", "history"}

MCInit ==
    /\ part \in Parts
    /\ Init /\ History!Init
    /\ part # "history" => \A o \in Orders : trade[o].idx = 0

HistoryVars == <<trade, daemon, counter, row, tomb, snap, restore, pass, restores, faults,
      raced, lost, settled>>

MCvars == <<part, vars, HistoryVars>>

MCNext ==
    \/ part = "trade" /\ Next /\ UNCHANGED <<part, HistoryVars>>
    \/ part = "history" /\ History!Next /\ UNCHANGED <<part, vars>>

(* Of the parts, the calls that claim a trade key must return: each caller    *)
(* goes on, and an abandoned watcher is dismantled; and the passes of the      *)
(* sweep go on.  At rest neither has anything to do.                           *)
MCFairness == Fairness /\ WF_HistoryVars(part = "history" /\ History!PassStep)

MCSpec == MCInit /\ [][MCNext]_MCvars /\ MCFairness

------------------------------------------------------------------------------
(* Types; a trade in progress at the daemon is not settled as history, a row  *)
(* wiped by the user is not rebuilt, and the counter reaches the floor.       *)
HistorySound == part = "history" =>
    /\ History!TypeOK
    /\ History!LiveRowKept
    /\ History!WipedNotRebuilt
    /\ History!FloorReached

(* A bond row is not written over the row of a restored trade, and a finished *)
(* trade that a restore brought back is settled as history.                   *)
HistorySteps ==
    /\ History!BondNotWrittenOver
    /\ History!HistorySettled
==============================================================================
