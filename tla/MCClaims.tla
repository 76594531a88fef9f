------------------------------ MODULE MCClaims -------------------------------
(* The claim on a bond the daemon slashed, the Cashu wallet with its escrow, and *)
(* what keeps them on the device, the browser's store and the SQLite file, side  *)
(* by side: a behaviour moves one of them.  Submissions of the claim are         *)
(* interchangeable.                                                              *)
EXTENDS BondClaims, TLC

CONSTANTS
    Sends, Funds, Proofs, MinLocktime, MintMaxTime,
    MaxRows, Orders, Fields, Calls, Second, Msgs, MaxFaults

ASSUME MintAssumption == Funds \in Nat /\ MinLocktime \in Nat /\ MintMaxTime \in Nat

VARIABLES
    part,    \* the component this behaviour is about
    \* Cashu
    spendable, send, token, spentBy, time, verified, checking, handed,
    \* WebStore
    trades, managed, call, web_local, origin, gone,
    \* Sqlite
    sql_trades, text, schema, rows, pc, fk, probe, faults, kept, misread, failed

Mint == INSTANCE Cashu WITH
    MaxTime <- MintMaxTime

Web == INSTANCE WebStore WITH
    local <- web_local

Sql == INSTANCE Sqlite WITH
    trades <- sql_trades

(* No call is nobody, the holder of a free lock. *)
ASSUME StoreAssumption == MaxRows \in Nat /\ MaxFaults \in Nat /\ 0 \notin Calls

SubmitSymmetry == Permutations(Submits)

(* Bound: a behaviour of the claim has a late anchor or a restart, not both. *)
Bounds == part = "claim" => restarts = 0 \/ daemon.slashed = 0

Parts == {"claim", "cashu", "web", "sql"}

MCInit ==
    /\ part \in Parts
    /\ Init /\ Mint!Init /\ Web!Init /\ Sql!Init
    /\ part # "claim" => daemon.slashed = 0
    /\ part # "web" => managed /\ trades = <<>>
    /\ part # "sql" => schema = "none"

MintVars == <<spendable, send, token, spentBy, time, verified, checking, handed>>
WebVars == <<trades, managed, call, web_local, origin, gone>>
SqlVars == <<sql_trades, text, schema, rows, pc, fk, probe, faults, kept, misread, failed>>

MCvars == <<part, vars, MintVars, WebVars, SqlVars>>

MCNext ==
    \/ part = "claim" /\ Next /\ UNCHANGED <<part, MintVars, WebVars, SqlVars>>
    \/ part = "cashu" /\ Mint!Next /\ UNCHANGED <<part, vars, WebVars, SqlVars>>
    \/ part = "web" /\ Web!Next /\ UNCHANGED <<part, vars, MintVars, SqlVars>>
    \/ part = "sql" /\ Sql!Next /\ UNCHANGED <<part, vars, MintVars, WebVars>>

MCSpec == MCInit /\ [][MCNext]_MCvars

------------------------------------------------------------------------------
(* The claim has its types; it shows no verdict the daemon did not give, no  *)
(* re-prompt reopens the form of an invoice that waits for its verdict, and   *)
(* it expires only once the window the daemon counts is over.                 *)
ClaimSound == part = "claim" =>
    /\ TypeOK
    /\ VerdictsReal
    /\ SubmittedUntilJudged
    /\ ExpiredOnlyPastDeadline

(* Types; a failed Cashu send gave its proofs back, an escrow token accepted   *)
(* holds as promised, and its proofs move as a whole.                          *)
EscrowSound == part = "cashu" =>
    /\ Mint!TypeOK
    /\ Mint!FailedSendIsBack
    /\ Mint!EscrowHolds
    /\ Mint!MovesWhole

(* The two stores have their types; no lock is left to a call that is over;  *)
(* a readable message survives every migration, a database that opened is the *)
(* current one, every version opens, and badge and chat agree on what is       *)
(* unread.                                                                     *)
StoreSound ==
    /\ part = "web" => Web!TypeOK /\ Web!LocksOwned
    /\ part = "sql" => Sql!TypeOK /\ Sql!MessagesPreserved /\ Sql!OpenIsCurrent /\ Sql!OpensEveryVersion /\ Sql!FlagsAgree

(* The web store implements the one the SQLite statements are (Storage): a     *)
(* patch drops no field another call or tab wrote meanwhile; and a delete that *)
(* ran to its end left no row of the order.                                    *)
StoreSteps ==
    /\ Web!StoreImplemented
    /\ Web!DeletesAll
==============================================================================
