---------------------------- MODULE BookReplica ----------------------------
(***************************************************************************)
(* What a consumer of the order book is promised: its copy is the book as  *)
(* it was at some moment, and it only ever moves to a later one.           *)
(***************************************************************************)
EXTENDS Naturals, Sequences

CONSTANT Books         \* what a book can hold

VARIABLES log,         \* every state the book has been in, in order
          at,          \* which of them the consumer has; 0: it is not there
          copy         \* what the consumer has

Init == /\ log \in {<<b>> : b \in Books}
        /\ at = 0

(* The book changes; the consumer keeps what it has. *)
Change == /\ \E b \in Books : log' = Append(log, b)
          /\ UNCHANGED <<at, copy>>

(* The consumer moves forward, possibly past several changes at once. *)
CatchUp == /\ at' \in 1..Len(log) /\ at <= at'
           /\ copy' = log[at']
           /\ UNCHANGED log

Leave == at' = 0 /\ UNCHANGED log

Spec == Init /\ [][Change \/ CatchUp \/ Leave]_<<log, at, copy>>
=============================================================================
