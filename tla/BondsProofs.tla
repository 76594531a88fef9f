----------------------------- MODULE BondsProofs -----------------------------
(***************************************************************************)
(* Proofs about the anti-abuse bond of an order: for any number of takes,  *)
(* of invoices sent and of stops, any window and any clock; and about what *)
(* a trade is paid and sent with: the wallet, the node's demands and its   *)
(* prices, and the escrow it settles by.                                   *)
(***************************************************************************)
EXTENDS MCBonds, FiniteSetTheorems, TLAPS

PayBonds(k) == {m \in msgs : m.what = "pay-bond" /\ m.key = k}

(* The order's keys: what was sent or cancelled is of a key bound, and only *)
(* the last bound still asks for a bond.                                    *)
KeysBound == /\ \A m \in msgs : m.key <= bound
             /\ \A k \in Keys : k > bound => deal[k] = "none"
             /\ \A k \in canceled : k <= bound
             /\ \A k \in Keys : deal[k] = "asked" => k = bound

(* The daemon spoke of the flow once the bond was locked, and slashed such. *)
FlowMeansLocked ==
    /\ \A m \in msgs : m.what \in {"new-order", "waiting", "active", "success"} => WasLocked(m.key)
    /\ \A k \in slashed : WasLocked(k)

(* A handler's second write is to the row of its first.                     *)
SecondWrite == disp # Idle =>
    /\ row # NoRow
    /\ disp.what \in {"new-order", "waiting", "active", "success", "canceled"}
    /\ disp.what \in Finished => row.bond \notin {"requested", "locked"}
    /\ disp.what \in {"waiting", "active"} /\ ~row.mine => row.bond # "requested"
    /\ disp.what = "new-order" => row.mine

(* The maker's order is public once its bond is paid.                       *)
MakerPublished ==
    row # NoRow => /\ row.status = "pending" => row.mine
                   /\ row.mine /\ book # "none" => WasLocked(row.key)

(* Of the open take's invoices the later sent is the newer one, and only    *)
(* one is sent at a time.                                                   *)
InvoicesOrdered ==
    /\ invoice <= now
    /\ \A m \in PayBonds(bound) :
         /\ m.inv <= invoice /\ m.ts <= now
         /\ m.ts = now => m.inv = invoice /\ now <= invoice + Window
         /\ \A o \in PayBonds(bound) : m.ts <= o.ts => m.inv <= o.inv

(* The row holds no invoice newer than those sent since it asked; once the  *)
(* bond is locked it holds the one that was paid.                           *)
RowCurrent ==
    row # NoRow =>
      /\ row.inv <= invoice
      /\ \A m \in PayBonds(row.key) : m.ts >= row.asked => m.inv >= row.inv
      /\ row.status = "bond" /\ WasLocked(row.key) => row.inv = invoice

BondInv == /\ TypeOK /\ KeysBound /\ FlowMeansLocked /\ SecondWrite /\ MakerPublished
           /\ InvoicesOrdered /\ RowCurrent
           /\ LockedIsReal /\ BondFollowsTrade /\ UserCancelTold

-----------------------------------------------------------------------------
Statuses == {"bond", "pending", "waiting", "active", "success", "canceled"}
Bonds == {"requested", "locked", "released", "slashed"}

LEMMA MaxOfTwo == \A a, b \in Nat : Max({a, b}) = IF a >= b THEN a ELSE b
<1> SUFFICES ASSUME NEW a \in Nat, NEW b \in Nat
             PROVE  Max({a, b}) = IF a >= b THEN a ELSE b
  OBVIOUS
<1> DEFINE m == IF a >= b THEN a ELSE b
<1>1. m \in {a, b} /\ \A y \in {a, b} : m >= y
  OBVIOUS
<1>2. \A x \in {a, b} : (\A y \in {a, b} : x >= y) => x = m
  OBVIOUS
<1> QED
  BY <1>1, <1>2 DEF Max

LEMMA RowIs == /\ NoRow \notin Row /\ NoRow.key = 0 /\ NoRow.status = "none" /\ NoRow.bond = "none"
               /\ NoRow.mine = FALSE
               /\ \A r \in Row : r.key \in Keys /\ r.key # 0 /\ r.status # "none"
BY DEF NoRow, Row, Keys

LEMMA IdleIs == Idle.what = "idle" /\ Idle \notin Messages
BY DEF Idle, Messages

(* The user is told of the cancel exactly while the note is there. *)
LEMMA ToldIs == noted \in BOOLEAN => (bond_cancel_reason = "UserCanceled" <=> noted)
BY DEF bond_cancel_reason

LEMMA ToldNext == noted' \in BOOLEAN => ((bond_cancel_reason = "UserCanceled")' <=> noted')
BY DEF bond_cancel_reason

(* What changes only the row keeps all that is said of the daemon. *)
LEMMA RowKeeps ==
    ASSUME BondInv, UNCHANGED <<bound, daemonVars, now>>,
           row' \in Row \cup {NoRow}, tomb' \in 0 .. MaxTakes, cursor' \in Time,
           noted' \in BOOLEAN, disp' \in Messages \cup {Idle}, stops' \in 0 .. MaxStops,
           canceled' \subseteq Keys, expired' \subseteq Keys, \A k \in canceled' : k <= bound,
           row' # NoRow => /\ row'.key = bound /\ tomb' = 0
                           /\ row'.mine => row # NoRow /\ row.mine
                           /\ row'.status = "pending" => row'.mine,
           SecondWrite', RowCurrent', LockedIsReal', BondFollowsTrade', UserCancelTold'
    PROVE  BondInv'
<1> USE DEF BondInv
<1>1. UNCHANGED <<bound, deal, slashed, invoice, msgs, book, now>>
  BY DEF daemonVars
<1>2. TypeOK'
  BY <1>1 DEF TypeOK
<1>3. \A k : WasLocked(k)' <=> WasLocked(k)
  BY <1>1 DEF WasLocked
<1>4. KeysBound' /\ FlowMeansLocked'
  BY <1>1, <1>3 DEF KeysBound, FlowMeansLocked
<1>5. MakerPublished'
  BY <1>1, <1>3 DEF MakerPublished, TypeOK
<1>6. InvoicesOrdered'
  BY <1>1 DEF InvoicesOrdered, PayBonds
<1> QED
  BY <1>2, <1>4, <1>5, <1>6

(* The row goes, and leaves a tombstone. *)
LEMMA Wiped ==
    ASSUME BondInv, row' = NoRow, disp' = Idle, tomb' \in 0 .. MaxTakes, cursor' \in Time,
           noted' \in BOOLEAN, stops' \in 0 .. MaxStops, expired' \subseteq Keys,
           UNCHANGED <<bound, daemonVars, now, canceled>>
    PROVE  BondInv'
<1>1. canceled \subseteq Keys /\ \A k \in canceled : k <= bound
  BY DEF BondInv, TypeOK, KeysBound
<1>2. SecondWrite' /\ RowCurrent' /\ LockedIsReal' /\ BondFollowsTrade' /\ UserCancelTold'
  BY DEF SecondWrite, RowCurrent, LockedIsReal, BondFollowsTrade, UserCancelTold
<1> QED
  BY <1>1, <1>2, RowKeeps

(* The row gets a status s and a bond b, by the first or second write of a *)
(* handler.                                                                *)
LEMMA Written ==
    ASSUME BondInv, row # NoRow, NEW s \in Statuses, NEW b \in Bonds,
           row' = [row EXCEPT !.status = s, !.bond = b],
           cursor' \in Time, disp' \in Messages \cup {Idle},
           UNCHANGED <<bound, tomb, noted, daemonVars, now, stops, canceled, expired>>,
           s = row.status \/ s # "bond", s = "pending" => row.mine,
           b = "locked" => WasLocked(row.key),
           s \in Finished => b \notin {"requested", "locked"},
           s \in {"waiting", "active"} /\ ~row.mine => b # "requested",
           disp' # Idle =>
             /\ disp'.what \in {"new-order", "waiting", "active", "success", "canceled"}
             /\ disp'.what \in Finished => b \notin {"requested", "locked"}
             /\ disp'.what \in {"waiting", "active"} /\ ~row.mine => b # "requested"
             /\ disp'.what = "new-order" => row.mine
    PROVE  BondInv'
<1> USE DEF BondInv
<1>1. row \in Row /\ row.key = bound /\ tomb = 0
  BY DEF TypeOK
<1>2. /\ row' \in Row /\ row' # NoRow /\ row'.key = row.key /\ row'.mine = row.mine /\ row'.status = s
      /\ row'.bond = b /\ row'.inv = row.inv /\ row'.asked = row.asked
  <2>1. row' \in Row
    BY <1>1 DEF Row, Statuses, Bonds
  <2> QED
    BY <1>1, <2>1, RowIs DEF Row
<1>3. UNCHANGED <<deal, slashed, invoice, msgs, book>> /\ \A k : WasLocked(k)' <=> WasLocked(k)
  BY DEF daemonVars, WasLocked
<1>4. SecondWrite'
  BY <1>2 DEF SecondWrite
<1>5. RowCurrent'
  BY <1>2, <1>3 DEF RowCurrent, PayBonds
<1>6. LockedIsReal' /\ BondFollowsTrade'
  BY <1>2, <1>3 DEF LockedIsReal, BondFollowsTrade
<1>7. UserCancelTold'
  BY <1>2, ToldIs, ToldNext DEF UserCancelTold, TypeOK
<1>8. /\ tomb' \in 0 .. MaxTakes /\ noted' \in BOOLEAN /\ stops' \in 0 .. MaxStops
      /\ canceled' \subseteq Keys /\ expired' \subseteq Keys /\ \A k \in canceled' : k <= bound
  BY DEF TypeOK, KeysBound
<1> QED
  BY <1>1, <1>2, <1>4, <1>5, <1>6, <1>7, <1>8, RowKeeps

(* A bond invoice is put on a taker's row in the window. *)
LEMMA Refreshed ==
    ASSUME BondInv, disp = Idle, row # NoRow, row.status = "bond", ~row.mine, NEW i \in Time, NEW a \in Time,
           row' = [row EXCEPT !.bond = "requested", !.inv = i, !.asked = a],
           UNCHANGED <<bound, tomb, cursor, noted, disp, daemonVars, now, stops, canceled, expired>>,
           i <= invoice, \A m \in PayBonds(row.key) : m.ts >= a => m.inv >= i,
           WasLocked(row.key) => i = invoice
    PROVE  BondInv'
<1> USE DEF BondInv
<1>1. row \in Row /\ row.key = bound /\ tomb = 0
  BY DEF TypeOK
<1>2. /\ row' \in Row /\ row' # NoRow /\ row'.key = row.key /\ row'.mine = row.mine
      /\ row'.status = "bond" /\ row'.bond = "requested" /\ row'.inv = i /\ row'.asked = a
  <2>1. row' \in Row
    BY <1>1 DEF Row
  <2> QED
    BY <1>1, <2>1, RowIs DEF Row
<1>3. UNCHANGED <<deal, slashed, invoice, msgs, book>> /\ \A k : WasLocked(k)' <=> WasLocked(k)
  BY DEF daemonVars, WasLocked
<1>4. SecondWrite'
  BY DEF SecondWrite
<1>5. RowCurrent'
  BY <1>2, <1>3 DEF RowCurrent, PayBonds
<1>6. LockedIsReal' /\ BondFollowsTrade'
  BY <1>2 DEF LockedIsReal, BondFollowsTrade, Finished
<1>7. UserCancelTold'
  BY <1>2, ToldIs, ToldNext DEF UserCancelTold, TypeOK
<1>8. /\ tomb' \in 0 .. MaxTakes /\ noted' \in BOOLEAN /\ stops' \in 0 .. MaxStops
      /\ cursor' \in Time /\ disp' \in Messages \cup {Idle}
      /\ canceled' \subseteq Keys /\ expired' \subseteq Keys /\ \A k \in canceled' : k <= bound
  BY DEF TypeOK, KeysBound
<1> QED
  BY <1>1, <1>2, <1>4, <1>5, <1>6, <1>7, <1>8, RowKeeps

(* A take or a create binds a key of its own, of which nothing was said.   *)
LEMMA EnterKeeps ==
    ASSUME BondInv, NEW k \in Keys, NEW mine \in BOOLEAN, k > bound, disp = Idle,
           mine => book = "none", bound # 0 => deal[bound] # "asked", enter(k, mine)
    PROVE  BondInv'
<1> USE DEF BondInv
<1> DEFINE r == bond_requested(k, mine, now)
           m == say("pay-bond", k, now)
<1>1. /\ row' = r /\ bound' = k /\ tomb' = 0 /\ deal' = [deal EXCEPT ![k] = "asked"] /\ invoice' = now
      /\ msgs' = msgs \cup {m}
      /\ UNCHANGED <<cursor, noted, disp, slashed, book, now, stops, canceled, expired>>
  BY DEF enter, history
<1>2. now \in Time /\ now \in Nat /\ bound \in Nat /\ k \in Nat /\ 0 \in Time
      /\ msgs \subseteq Messages /\ \A j \in Keys : j \in Nat
  BY BondAssumption DEF TypeOK, Time, Keys
<1>3. /\ r \in Row /\ r # NoRow /\ r.key = k /\ r.mine = mine /\ r.status = "bond"
      /\ r.bond = "requested" /\ r.inv = now /\ r.asked = now
  <2>1. r \in Row
    BY <1>2 DEF bond_requested, Row
  <2> QED
    BY <2>1, RowIs DEF bond_requested
<1>4. m \in Messages /\ m.what = "pay-bond" /\ m.key = k /\ m.ts = now /\ m.inv = now
  BY <1>2 DEF say, Messages
<1> HIDE DEF r, m
<1>5. /\ deal'[k] = "asked" /\ \A j \in Keys \ {k} : deal'[j] = deal[j]
      /\ deal' \in [Keys -> {"none", "asked", "over", "locked", "active", "success", "canceled"}]
  BY <1>1 DEF TypeOK
<1>6. /\ \A x \in msgs : x.key # k /\ x.key \in Keys
      /\ k \notin canceled /\ k \notin slashed /\ canceled \subseteq Keys /\ slashed \subseteq Keys
  <2>1. \A x \in msgs : x.key # k /\ x.key \in Keys
    BY <1>2 DEF KeysBound, Messages
  <2>2. deal[k] = "none"
    BY DEF KeysBound
  <2>3. k \notin slashed
    BY <2>2 DEF FlowMeansLocked, WasLocked
  <2>4. k \notin canceled
    BY <1>2 DEF KeysBound
  <2> QED
    BY <2>1, <2>3, <2>4 DEF TypeOK
<1>7. TypeOK'
  <2>1. bound' \in 0 .. MaxTakes
    BY <1>1, BondAssumption DEF Keys
  <2>2. tomb' \in 0 .. MaxTakes
    BY <1>1, BondAssumption
  <2> QED
    BY <1>1, <1>2, <1>3, <1>4, <1>5, <2>1, <2>2 DEF TypeOK
<1>8. KeysBound'
  <2>1. \A x \in msgs' : x.key <= k
    <3>1. \A x \in msgs : x.key \in Nat /\ x.key <= bound
      BY <1>2, <1>6 DEF KeysBound
    <3>2. \A x \in msgs : x.key <= k
      BY <1>2, <3>1
    <3> QED
      BY <1>1, <1>2, <1>4, <3>2
  <2>2. \A j \in Keys : j > k => deal'[j] = "none"
    BY <1>2, <1>5 DEF KeysBound
  <2>3. \A j \in canceled : j <= k
    BY <1>2, <1>6 DEF KeysBound
  <2>4. \A j \in Keys : deal'[j] = "asked" => j = k
    <3>1. \A j \in Keys : deal[j] # "asked"
      BY <1>2 DEF KeysBound, Keys
    <3> QED
      BY <1>5, <3>1
  <2> QED
    BY <1>1, <2>1, <2>2, <2>3, <2>4 DEF KeysBound
<1>9. FlowMeansLocked'
  BY <1>1, <1>4, <1>5, <1>6 DEF FlowMeansLocked, WasLocked
<1>10. SecondWrite'
  BY <1>1 DEF SecondWrite
<1>11. MakerPublished'
  BY <1>1, <1>3 DEF MakerPublished
<1>12. PayBonds(bound)' = {m} /\ PayBonds(row.key)' = {m}
  BY <1>1, <1>3, <1>4, <1>6 DEF PayBonds
<1>13. InvoicesOrdered'
  BY <1>1, <1>2, <1>4, <1>12, BondAssumption DEF InvoicesOrdered
<1>14. RowCurrent'
  BY <1>1, <1>2, <1>3, <1>4, <1>5, <1>12 DEF RowCurrent, WasLocked
<1>15. LockedIsReal' /\ BondFollowsTrade' /\ UserCancelTold'
  BY <1>1, <1>3, <1>6 DEF LockedIsReal, BondFollowsTrade, UserCancelTold, Finished
<1> QED
  BY <1>7, <1>8, <1>9, <1>10, <1>11, <1>13, <1>14, <1>15

(* Steps of the daemon, of the book and of time: the row stays, and what   *)
(* was locked stays so.                                                    *)
LEMMA OutsideKeeps ==
    ASSUME BondInv, UNCHANGED <<row, bound, tomb, cursor, noted, disp, stops, canceled, expired>>,
           deal' \in [Keys -> {"none", "asked", "over", "locked", "active", "success", "canceled"}],
           slashed' \subseteq Keys, invoice' \in Time, msgs' \subseteq Messages,
           book' \in {"none", "pending", "in-progress", "canceled"}, now' \in 1 .. MaxTime,
           \A k \in Keys : WasLocked(k) => WasLocked(k)',
           KeysBound', FlowMeansLocked', InvoicesOrdered', RowCurrent',
           row # NoRow /\ row.mine /\ book' # "none" => WasLocked(row.key)'
    PROVE  BondInv'
<1> USE DEF BondInv
<1>1. TypeOK'
  BY DEF TypeOK
<1>2. SecondWrite' /\ BondFollowsTrade'
  BY DEF SecondWrite, BondFollowsTrade
<1>3. row # NoRow => row.key \in Keys
  BY RowIs DEF TypeOK
<1>4. LockedIsReal' /\ MakerPublished'
  BY <1>3 DEF LockedIsReal, MakerPublished
<1>5. UserCancelTold'
  BY ToldIs, ToldNext DEF UserCancelTold, TypeOK
<1> QED
  BY <1>1, <1>2, <1>4, <1>5

(* A bond locks, goes on or ends: the daemon says something of its key.    *)
LEMMA DealMoves ==
    ASSUME BondInv, NEW k \in Keys, NEW d \in {"over", "locked", "active", "success", "canceled"},
           deal[k] # "none", deal' = [deal EXCEPT ![k] = d],
           WasLocked(k) => d # "over",
           UNCHANGED <<row, bound, tomb, cursor, noted, disp, invoice, book, now, stops, history>>,
           msgs' \subseteq Messages, msgs \subseteq msgs',
           \A m \in msgs' \ msgs : m.key = k /\ m.what # "pay-bond"
             /\ (m.what \in {"new-order", "waiting", "active", "success"}
                   => d # "over"),
           slashed' \subseteq slashed \cup {k},
           k \in slashed' => d # "over",
           row # NoRow /\ row.key = k /\ row.status = "bond"
              /\ d # "over" => row.inv = invoice
    PROVE  BondInv'
<1> USE DEF BondInv
<1>1. /\ deal'[k] = d /\ \A j \in Keys \ {k} : deal'[j] = deal[j]
      /\ deal' \in [Keys -> {"none", "asked", "over", "locked", "active", "success", "canceled"}]
  BY DEF TypeOK
<1>2. \A j \in Keys : WasLocked(j) => WasLocked(j)'
  BY <1>1 DEF WasLocked
<1>3. (d \in {"locked", "active", "success", "canceled"} <=> WasLocked(k)')
      /\ \A j \in Keys \ {k} : WasLocked(j)' <=> WasLocked(j)
  BY <1>1 DEF WasLocked
<1>4. k <= bound /\ UNCHANGED <<canceled, expired>>
  <2>1. bound \in Nat /\ k \in Nat
    BY DEF TypeOK, Keys
  <2> QED
    BY <2>1 DEF KeysBound, history
<1>5. KeysBound'
  BY <1>1, <1>4 DEF KeysBound
<1>6. FlowMeansLocked'
  <2>1. \A m \in msgs : m.key \in Keys
    BY DEF TypeOK, Messages
  <2>2. slashed \subseteq Keys
    BY DEF TypeOK
  <2> QED
    BY <1>2, <1>3, <2>1, <2>2 DEF FlowMeansLocked
<1>7. \A j : PayBonds(j)' = PayBonds(j)
  BY DEF PayBonds
<1>8. InvoicesOrdered'
  BY <1>7 DEF InvoicesOrdered
<1>9. row # NoRow => row.key \in Keys
  BY RowIs DEF TypeOK
<1>10. RowCurrent'
  BY <1>3, <1>7, <1>9 DEF RowCurrent
<1>11. row # NoRow /\ row.mine /\ book' # "none" => WasLocked(row.key)'
  BY <1>2, <1>9 DEF MakerPublished
<1>12. slashed' \subseteq Keys /\ invoice' \in Time /\ now' \in 1 .. MaxTime
       /\ book' \in {"none", "pending", "in-progress", "canceled"}
  BY DEF TypeOK
<1> QED
  BY <1>1, <1>2, <1>4, <1>5, <1>6, <1>8, <1>10, <1>11, <1>12, OutsideKeeps

(* A wipe, a rebuilt window or the same row: nothing older is put back. *)
RowStep ==
    /\ row # NoRow /\ row'.key = row.key /\ row.mine = row'.mine /\ stops' = stops
         => row'.inv >= row.inv
    /\ row.bond = "slashed" /\ row.key \in slashed /\ row'.key = row.key /\ stops' = stops
         => row'.bond = "slashed"

LEMMA RowStays == TypeOK /\ row' = row => RowStep
<1> SUFFICES ASSUME TypeOK, row' = row PROVE RowStep
  OBVIOUS
<1>1. row # NoRow => row.inv \in Nat
  BY DEF TypeOK, Row, Time
<1> QED
  BY <1>1 DEF RowStep

LEMMA RowGoes == TypeOK /\ row' = NoRow => RowStep
<1> SUFFICES ASSUME TypeOK, row' = NoRow PROVE RowStep
  OBVIOUS
<1>1. row # NoRow => row'.key # row.key
  BY RowIs DEF TypeOK
<1>2. row = NoRow => row.bond # "slashed"
  BY RowIs
<1> QED
  BY <1>1, <1>2 DEF RowStep

LEMMA RowGetsBond ==
    ASSUME TypeOK, row # NoRow, NEW s \in Statuses, NEW b \in Bonds,
           row' = [row EXCEPT !.status = s, !.bond = b], row.bond = "slashed" => b = "slashed"
    PROVE  RowStep
<1>1. row.inv \in Nat /\ row'.inv = row.inv /\ row'.bond = b
  BY DEF TypeOK, Row, Time
<1> QED
  BY <1>1 DEF RowStep

(* A key bound next is not the key of the row it replaces. *)
LEMMA EnterStep ==
    ASSUME TypeOK, NEW k \in Keys, NEW mine \in BOOLEAN, k > bound, enter(k, mine)
    PROVE  RowStep
<1>1. row' = bond_requested(k, mine, now)
  BY DEF enter
<1>2. row'.key = k
  BY <1>1 DEF bond_requested
<1>3. k \in Nat /\ k # 0 /\ bound \in Nat /\ (row # NoRow => row.key = bound)
  BY DEF TypeOK, Keys
<1>4. row'.key # row.key
  BY <1>2, <1>3, RowIs
<1> QED
  BY <1>4 DEF RowStep

-----------------------------------------------------------------------------
LEMMA TakeKeeps == ASSUME BondInv, NEW k \in Keys, take_order(k) PROVE BondInv' /\ RowStep
<1>0. enter(k, FALSE)
  BY Zenon DEF take_order
<1>1. k > bound /\ disp = Idle /\ (bound # 0 => deal[bound] # "asked")
  <2>1. disp = Idle /\ k = bound + 1 /\ (bound # 0 => deal[bound] \in {"over", "canceled"})
    BY DEF take_order
  <2>2. bound \in Nat
    BY DEF BondInv, TypeOK
  <2> QED
    BY <2>1, <2>2
<1>2. BondInv'
  BY <1>0, <1>1, EnterKeeps
<1>3. RowStep
  BY <1>0, <1>1, EnterStep DEF BondInv
<1> QED
  BY <1>2, <1>3

LEMMA CreateKeeps == BondInv /\ create_order => BondInv' /\ RowStep
<1> SUFFICES ASSUME BondInv, create_order PROVE BondInv' /\ RowStep
  OBVIOUS
<1>0. enter(MaxTakes, TRUE)
  BY Zenon DEF create_order
<1>1. MaxTakes \in Keys /\ MaxTakes > bound /\ book = "none" /\ bound = 0
  <2>1. MaxTakes \in Nat /\ MaxTakes >= 1
    BY BondAssumption
  <2> QED
    BY <2>1 DEF create_order, Keys
<1>2. disp = Idle
  BY DEF create_order, BondInv, SecondWrite
<1>3. BondInv'
  BY <1>0, <1>1, <1>2, EnterKeeps
<1>4. RowStep
  BY <1>0, <1>1, EnterStep DEF BondInv
<1> QED
  BY <1>3, <1>4

LEMMA RequestKeeps == BondInv /\ request_bond_invoice_again => BondInv' /\ RowStep
<1> SUFFICES ASSUME BondInv, request_bond_invoice_again PROVE BondInv' /\ RowStep
  OBVIOUS
<1> USE DEF BondInv
<1>1. row \in Row /\ row # NoRow /\ row.bond = "requested" /\ row.status = "bond" /\ ~row.mine
      /\ disp = Idle /\ row.key = bound
  BY DEF request_bond_invoice_again, TypeOK
<1>2. row' = [row EXCEPT !.bond = "requested", !.inv = invoice, !.asked = now]
  <2>1. row' = [row EXCEPT !.inv = invoice, !.asked = now]
    BY DEF request_bond_invoice_again
  <2> QED
    BY <1>1, <2>1 DEF Row
<1>3. invoice \in Time /\ now \in Time /\ invoice \in Nat /\ invoice <= invoice
  BY DEF TypeOK, Time
<1>4. UNCHANGED <<bound, tomb, cursor, noted, disp, daemonVars, now, stops, canceled, expired>>
  BY DEF request_bond_invoice_again, history
<1>5. \A m \in PayBonds(row.key) : m.ts >= now => m.inv >= invoice
  <2>1. \A m \in PayBonds(bound) : m.ts \in Nat /\ m.inv \in Nat
    BY DEF PayBonds, TypeOK, Messages, Time
  <2>2. now \in Nat /\ invoice \in Nat
    BY DEF TypeOK, Time
  <2> QED
    BY <1>1, <2>1, <2>2 DEF InvoicesOrdered
<1>6. BondInv'
  BY <1>1, <1>2, <1>3, <1>4, <1>5, Refreshed
<1>7. row'.inv = invoice /\ row.inv \in Nat /\ row.inv <= invoice
  BY <1>1, <1>2 DEF Row, Time, RowCurrent
<1>8. RowStep
  BY <1>1, <1>3, <1>7 DEF RowStep
<1> QED
  BY <1>6, <1>8

(* What a message of the order's key says: its time, and that the bond of   *)
(* the row locked if the flow goes on.                                      *)
LEMMA MessageIs ==
    ASSUME BondInv, NEW m \in msgs, disp = Idle
    PROVE  /\ m \in Messages /\ m.ts \in Time /\ m.inv \in Time /\ m.key \in Keys
           /\ m # Idle /\ Max({cursor, m.ts}) \in Time
           /\ m.what \in {"new-order", "waiting", "active", "success"} => WasLocked(m.key)
           /\ ~superseded(m) => m.key = bound
           /\ row # NoRow => row \in Row /\ row.key = bound /\ row.inv \in Nat
<1> USE DEF BondInv
<1>1. m \in Messages /\ cursor \in Time /\ bound \in Nat
  BY DEF TypeOK
<1>2. m.ts \in Time /\ m.inv \in Time /\ m.key \in Keys /\ m.key \in Nat
  BY <1>1 DEF Messages, Keys
<1>3. m # Idle
  BY <1>1, IdleIs
<1>4. Max({cursor, m.ts}) \in Time
  <2>1. cursor \in Nat /\ m.ts \in Nat
    BY <1>1, <1>2 DEF Time
  <2>2. Max({cursor, m.ts}) = IF cursor >= m.ts THEN cursor ELSE m.ts
    BY <2>1, MaxOfTwo
  <2> QED
    BY <1>1, <1>2, <2>2
<1>5. m.what \in {"new-order", "waiting", "active", "success"} => WasLocked(m.key)
  BY DEF FlowMeansLocked
<1>6. ~superseded(m) => m.key = bound
  <2>1. m.key <= bound
    BY DEF KeysBound
  <2> QED
    BY <1>1, <1>2, <2>1 DEF superseded
<1>7. row # NoRow => row \in Row /\ row.key = bound /\ row.inv \in Nat
  BY DEF TypeOK, Row, Time
<1> QED
  BY <1>1, <1>2, <1>3, <1>4, <1>5, <1>6, <1>7

LEMMA PayBondKeeps ==
    ASSUME BondInv, NEW m \in msgs, disp = Idle, PayBondInvoice(m), UNCHANGED <<daemonVars, now, stops>>
    PROVE  BondInv' /\ RowStep
<1>0. /\ m \in Messages /\ m.ts \in Time /\ m.inv \in Time /\ m # Idle /\ Max({cursor, m.ts}) \in Time
      /\ m.what \in {"new-order", "waiting", "active", "success"} => WasLocked(m.key)
      /\ ~superseded(m) => m.key = bound
      /\ row # NoRow => row \in Row /\ row.key = bound /\ row.inv \in Nat
  BY MessageIs
<1> USE DEF BondInv
<1>1. /\ m.what = "pay-bond" /\ m.key = bound /\ row # NoRow /\ row.status = "bond" /\ ~row.mine
      /\ m.inv # row.inv /\ m.ts >= row.asked /\ m.inv \in Time /\ m.ts \in Time
      /\ row' = [row EXCEPT !.bond = "requested", !.inv = m.inv, !.asked = m.ts]
      /\ row.key = bound /\ row \in Row /\ row.inv \in Nat /\ row.asked \in Nat
  <2>1. row # NoRow => row.asked \in Nat
    BY DEF TypeOK, Row, Time
  <2>2. m.ts \in Nat
    BY <1>0 DEF Time
  <2> QED
    BY <1>0, <2>1, <2>2 DEF PayBondInvoice, bond_refresh_is_stale
<1>2. m \in PayBonds(bound) /\ m \in PayBonds(row.key)
  BY <1>1 DEF PayBonds
<1>3. m.inv \in Nat /\ m.inv >= row.inv /\ m.inv <= invoice /\ invoice \in Nat
  <2>1. invoice \in Nat
    BY DEF TypeOK, Time
  <2> QED
    BY <1>1, <1>2, <2>1 DEF RowCurrent, InvoicesOrdered, Time
<1>4. ~WasLocked(row.key)
  BY <1>1, <1>3 DEF RowCurrent
<1>5. \A o \in PayBonds(row.key) : o.ts >= m.ts => o.inv >= m.inv
  <2>1. \A o \in PayBonds(bound) : o.ts \in Nat /\ o.inv \in Nat
    BY DEF PayBonds, TypeOK, Messages, Time
  <2>2. \A o \in PayBonds(bound) : m.ts <= o.ts => m.inv <= o.inv
    BY <1>2 DEF InvoicesOrdered
  <2> QED
    BY <1>1, <1>2, <2>1, <2>2
<1>6. UNCHANGED <<bound, tomb, cursor, noted, disp, daemonVars, now, stops, canceled, expired>>
  BY DEF PayBondInvoice, history
<1>7. BondInv'
  BY <1>1, <1>3, <1>4, <1>5, <1>6, Refreshed
<1>8. row.bond = "slashed" => row.key \notin slashed
  BY <1>4 DEF FlowMeansLocked
<1>9. row'.inv = m.inv
  BY <1>1 DEF Row
<1>10. RowStep
  BY <1>3, <1>8, <1>9 DEF RowStep
<1> QED
  BY <1>7, <1>10

LEMMA StatusKeeps ==
    ASSUME BondInv, NEW m \in msgs, disp = Idle, StatusArm(m), UNCHANGED <<daemonVars, now, stops>>
    PROVE  BondInv' /\ RowStep
<1>0. /\ m \in Messages /\ m.ts \in Time /\ m.inv \in Time /\ m # Idle /\ Max({cursor, m.ts}) \in Time
      /\ m.what \in {"new-order", "waiting", "active", "success"} => WasLocked(m.key)
      /\ ~superseded(m) => m.key = bound
      /\ row # NoRow => row \in Row /\ row.key = bound /\ row.inv \in Nat
  BY MessageIs
<1> USE DEF BondInv
<1> DEFINE b == IF m.what = "success" THEN note_bond_released
                ELSE IF row.mine THEN row.bond ELSE note_bond_locked
<1>1. /\ m.what \in {"waiting", "active", "success"} /\ row # NoRow /\ row \in Row
      /\ m.key = row.key /\ WasLocked(row.key) /\ row.status \notin Finished
      /\ m \in Messages /\ m # Idle /\ cursor' \in Time
  BY <1>0 DEF StatusArm, status_write_blocked
<1>2. row' = [row EXCEPT !.bond = b] /\ disp' = m
      /\ UNCHANGED <<bound, tomb, noted, daemonVars, now, stops, canceled, expired>>
  BY DEF StatusArm, history
<1>3. row.status \in Statuses /\ row.bond \in Bonds /\ row.mine \in BOOLEAN
  BY <1>1 DEF Row, Statuses, Bonds
<1>4. b \in Bonds /\ (row.bond = "slashed" => b = "slashed")
  BY <1>3 DEF Bonds, note_bond_released, note_bond_locked
<1>5. m.what = "success" => b \notin {"requested", "locked"}
  BY DEF note_bond_released
<1>6. m.what \in {"waiting", "active"} /\ ~row.mine => b # "requested"
  BY <1>1, <1>3 DEF note_bond_locked, MakerPublished, BondFollowsTrade, Statuses, Finished
<1>7. row.status \in {"waiting", "active"} /\ ~row.mine => b # "requested"
  BY <1>1 DEF note_bond_locked, note_bond_released, BondFollowsTrade
<1> HIDE DEF b
<1>8. row' = [row EXCEPT !.status = row.status, !.bond = b]
  BY <1>1, <1>2 DEF Row
<1>9. row.status = "pending" => row.mine
  BY <1>1 DEF MakerPublished
<1>10. row.status \in Finished => b \notin {"requested", "locked"}
  BY <1>1
<1>11. disp' # Idle =>
             /\ disp'.what \in {"new-order", "waiting", "active", "success", "canceled"}
             /\ disp'.what \in Finished => b \notin {"requested", "locked"}
             /\ disp'.what \in {"waiting", "active"} /\ ~row.mine => b # "requested"
             /\ disp'.what = "new-order" => row.mine
  BY <1>1, <1>2, <1>5, <1>6 DEF Finished
<1>12. disp' \in Messages \cup {Idle}
  BY <1>1, <1>2
<1>13. BondInv'
  BY <1>1, <1>2, <1>3, <1>4, <1>7, <1>8, <1>9, <1>10, <1>11, <1>12, Written
<1>14. RowStep
  BY <1>1, <1>3, <1>4, <1>8, RowGetsBond
<1> QED
  BY <1>13, <1>14

LEMMA NewOrderKeeps ==
    ASSUME BondInv, NEW m \in msgs, disp = Idle, NewOrder(m), UNCHANGED <<daemonVars, now, stops>>
    PROVE  BondInv' /\ RowStep
<1>0. /\ m \in Messages /\ m # Idle
      /\ m.what \in {"new-order", "waiting", "active", "success"} => WasLocked(m.key)
      /\ row # NoRow => row \in Row
  BY MessageIs
<1> USE DEF BondInv
<1> DEFINE b == IF row.bond = "requested" THEN "locked" ELSE row.bond
<1>1. /\ m.what = "new-order" /\ row # NoRow /\ row \in Row /\ row.status = "bond" /\ row.mine
      /\ WasLocked(row.key)
  BY <1>0 DEF NewOrder
<1>2. row' = [row EXCEPT !.bond = b] /\ disp' = m
      /\ UNCHANGED <<bound, tomb, cursor, noted, daemonVars, now, stops, canceled, expired>>
  BY DEF NewOrder, history
<1>3. b \in Bonds /\ (row.bond = "slashed" => b = "slashed") /\ row.status \in Statuses
  BY <1>1 DEF Row, Bonds, Statuses
<1> HIDE DEF b
<1>4. row' = [row EXCEPT !.status = row.status, !.bond = b]
  BY <1>1, <1>2 DEF Row
<1>5. cursor' \in Time /\ disp' \in Messages \cup {Idle}
  BY <1>0, <1>2 DEF TypeOK
<1>6. BondInv'
  BY <1>1, <1>2, <1>3, <1>4, <1>5, Written DEF Finished
<1>7. RowStep
  BY <1>1, <1>3, <1>4, RowGetsBond
<1> QED
  BY <1>6, <1>7

LEMMA CanceledKeeps ==
    ASSUME BondInv, NEW m \in msgs, disp = Idle, Canceled(m), UNCHANGED <<daemonVars, now, stops>>
    PROVE  BondInv' /\ RowStep
<1>0. /\ m \in Messages /\ m # Idle /\ Max({cursor, m.ts}) \in Time
      /\ row # NoRow => row \in Row /\ row.key = bound
  BY MessageIs
<1>t. TypeOK
  BY DEF BondInv
<1>1. m.what = "canceled" /\ row # NoRow /\ row \in Row /\ row.status \notin Finished
      /\ cursor' \in Time /\ UNCHANGED <<bound, daemonVars, now, stops, canceled, expired>>
  BY <1>0 DEF Canceled, status_write_blocked
<1>2. CASE row.status \in {"bond", "pending", "waiting"}
  <2>1. row' = NoRow /\ tomb' = row.key /\ disp' = Idle
        /\ noted' = (noted /\ ~(row.status = "bond" /\ ~row.mine))
    BY <1>2 DEF Canceled, wipe
  <2>2. tomb' \in 0 .. MaxTakes /\ noted' \in BOOLEAN /\ stops' \in 0 .. MaxStops
        /\ expired' \subseteq Keys
    BY <1>0, <1>1, <1>t, <2>1 DEF TypeOK
  <2>3. BondInv'
    BY <1>1, <2>1, <2>2, Wiped
  <2> QED
    BY <1>t, <2>1, <2>3, RowGoes
<1>3. CASE row.status \notin {"bond", "pending", "waiting"}
  <2> DEFINE b == note_bond_released
  <2>1. row' = [row EXCEPT !.bond = b] /\ disp' = m /\ UNCHANGED <<tomb, noted>>
    BY <1>3 DEF Canceled
  <2>2. row.status = "active" /\ row.bond \in Bonds
    BY <1>1, <1>3 DEF Row, Finished, Bonds
  <2>3. b \in Bonds /\ b \notin {"requested", "locked"} /\ (row.bond = "slashed" => b = "slashed")
    BY <2>2 DEF note_bond_released, Bonds
  <2> HIDE DEF b
  <2>4. row' = [row EXCEPT !.status = row.status, !.bond = b] /\ row.status \in Statuses
    BY <1>1, <2>1, <2>2 DEF Row, Statuses
  <2>5. disp' \in Messages \cup {Idle} /\ disp'.what = "canceled"
    BY <1>0, <1>1, <2>1
  <2>6. BondInv'
    BY <1>1, <2>1, <2>2, <2>3, <2>4, <2>5, Written DEF Finished
  <2>7. RowStep
    BY <1>1, <1>t, <2>3, <2>4, RowGetsBond
  <2> QED
    BY <2>6, <2>7
<1> QED
  BY <1>2, <1>3

LEMMA SlashKeeps ==
    ASSUME BondInv, NEW m \in msgs, disp = Idle, BondSlashed(m), UNCHANGED <<daemonVars, now, stops>>
    PROVE  BondInv' /\ RowStep
<1>1. row # NoRow /\ row' = [row EXCEPT !.bond = "slashed"] /\ disp' = Idle
      /\ UNCHANGED <<bound, tomb, cursor, noted, daemonVars, now, stops, canceled, expired>>
  BY DEF BondSlashed, history
<1>2. TypeOK /\ row \in Row /\ cursor \in Time
  BY <1>1 DEF BondInv, TypeOK
<1>3. row.status \in Statuses /\ "slashed" \in Bonds
  BY <1>2 DEF Row, Statuses, Bonds
<1>4. row' = [row EXCEPT !.status = row.status, !.bond = "slashed"]
  BY <1>1, <1>2 DEF Row
<1>5. row.status = "pending" => row.mine
  BY <1>1 DEF BondInv, MakerPublished
<1>6. cursor' \in Time /\ disp' \in Messages \cup {Idle}
  BY <1>1, <1>2
<1>7. BondInv'
  BY <1>1, <1>3, <1>4, <1>5, <1>6, Written
<1>8. RowStep
  BY <1>1, <1>2, <1>3, <1>4, RowGetsBond
<1> QED
  BY <1>7, <1>8

LEMMA DispatchKeeps == ASSUME BondInv, NEW m \in msgs, dispatch(m) PROVE BondInv' /\ RowStep
BY PayBondKeeps, StatusKeeps, NewOrderKeeps, CanceledKeeps, SlashKeeps, Zenon DEF dispatch

(* The second write of a handler, on what its first left. *)
LEMMA SecondKeeps == BondInv /\ writes_status => BondInv' /\ RowStep
<1> SUFFICES ASSUME BondInv, writes_status PROVE BondInv' /\ RowStep
  OBVIOUS
<1> DEFINE s == IF disp.what = "new-order" THEN "pending" ELSE disp.what
<1>1. disp # Idle /\ row' = [row EXCEPT !.status = s] /\ disp' = Idle
      /\ UNCHANGED <<bound, tomb, cursor, noted, daemonVars, now, stops, canceled, expired>>
  BY DEF writes_status, history
<1>2. TypeOK /\ LockedIsReal /\ SecondWrite
  BY DEF BondInv
<1>3. row # NoRow /\ row \in Row /\ cursor' \in Time /\ disp' \in Messages \cup {Idle}
  BY <1>1, <1>2 DEF SecondWrite, TypeOK
<1>4. s \in Statuses /\ s # "bond" /\ (s = "pending" => row.mine)
      /\ (s \in Finished => row.bond \notin {"requested", "locked"})
      /\ (s \in {"waiting", "active"} /\ ~row.mine => row.bond # "requested")
  BY <1>1, <1>2 DEF SecondWrite, Statuses, Finished
<1>5. row.bond \in Bonds /\ (row.bond = "locked" => WasLocked(row.key))
  BY <1>2, <1>3 DEF Row, Bonds, LockedIsReal
<1> HIDE DEF s
<1>6. row' = [row EXCEPT !.status = s, !.bond = row.bond]
  BY <1>1, <1>3 DEF Row
<1>7. BondInv'
  BY <1>1, <1>3, <1>4, <1>5, <1>6, Written
<1>8. RowStep
  BY <1>2, <1>3, <1>4, <1>5, <1>6, RowGetsBond
<1> QED
  BY <1>7, <1>8

LEMMA CloseKeeps == BondInv /\ close_expired_bond_trade => BondInv' /\ RowStep
<1> SUFFICES ASSUME BondInv, close_expired_bond_trade PROVE BondInv' /\ RowStep
  OBVIOUS
<1>1. /\ disp = Idle /\ row # NoRow /\ row.status = "bond" /\ row.bond = "requested"
      /\ UNCHANGED <<bound, cursor, noted, daemonVars, now, stops, canceled>>
  BY DEF close_expired_bond_trade, bond_expired
<1>2. TypeOK /\ row \in Row /\ row.key \in Keys /\ cursor \in Time /\ noted \in BOOLEAN
      /\ stops \in 0 .. MaxStops /\ expired \subseteq Keys /\ row.key \in 0 .. MaxTakes
  BY <1>1 DEF BondInv, TypeOK, Row, Keys
<1>3. CASE maker_order_is_published
  <2>1. row' = [row EXCEPT !.bond = "locked"] /\ UNCHANGED <<tomb, expired>>
        /\ disp' = [Idle EXCEPT !.what = "new-order", !.key = row.key]
    BY <1>3 DEF close_expired_bond_trade
  <2>2. row.mine /\ WasLocked(row.key)
    BY <1>1, <1>3 DEF maker_order_is_published, BondInv, MakerPublished
  <2>3. disp' \in Messages /\ disp'.what = "new-order"
    <3>1. 0 \in Time
      BY BondAssumption DEF Time
    <3> QED
      BY <1>2, <2>1, <3>1 DEF Idle, Messages
  <2>4. row' = [row EXCEPT !.status = row.status, !.bond = "locked"]
        /\ row.status \in Statuses /\ "locked" \in Bonds
    BY <1>1, <1>2, <2>1 DEF Row, Statuses, Bonds
  <2>5. BondInv'
    BY <1>1, <1>2, <2>1, <2>2, <2>3, <2>4, Written DEF Finished
  <2>6. RowStep
    BY <1>1, <1>2, <2>4, RowGetsBond
  <2> QED
    BY <2>5, <2>6
<1>4. CASE ~maker_order_is_published
  <2>1. row' = NoRow /\ tomb' = row.key /\ expired' = expired \cup {row.key} /\ disp' = Idle
    BY <1>1, <1>4 DEF close_expired_bond_trade, wipe
  <2>2. BondInv'
    BY <1>1, <1>2, <2>1, Wiped
  <2> QED
    BY <1>2, <2>1, <2>2, RowGoes
<1> QED
  BY <1>3, <1>4

LEMMA AbandonKeeps == BondInv /\ abandon_maker_bond => BondInv' /\ RowStep
<1> SUFFICES ASSUME BondInv, abandon_maker_bond PROVE BondInv' /\ RowStep
  OBVIOUS
<1>1. /\ disp = Idle /\ row # NoRow /\ row' = NoRow /\ tomb' = row.key /\ disp' = Idle
      /\ UNCHANGED <<bound, cursor, noted, daemonVars, now, stops, canceled, expired>>
  BY DEF abandon_maker_bond, wipe, history
<1>2. TypeOK /\ cursor \in Time /\ noted \in BOOLEAN
      /\ stops \in 0 .. MaxStops /\ expired \subseteq Keys /\ row.key \in 0 .. MaxTakes
  BY <1>1 DEF BondInv, TypeOK, Row, Keys
<1>3. BondInv'
  BY <1>1, <1>2, Wiped
<1> QED
  BY <1>1, <1>2, <1>3, RowGoes

LEMMA CancelKeeps == BondInv /\ cancel_order => BondInv' /\ RowStep
<1> SUFFICES ASSUME BondInv, cancel_order PROVE BondInv' /\ RowStep
  OBVIOUS
<1>1. /\ disp = Idle /\ row # NoRow /\ canceled' = canceled \cup {row.key} /\ noted' = TRUE
      /\ UNCHANGED <<row, bound, tomb, cursor, disp, daemonVars, now, stops, expired>>
  BY DEF cancel_order
<1>2. TypeOK /\ row \in Row /\ row.key \in Keys /\ row.key = bound /\ tomb = 0
  BY <1>1 DEF BondInv, TypeOK, Row
<1>3. canceled' \subseteq Keys /\ \A k \in canceled' : k <= bound
  <2>1. bound \in Nat /\ \A k \in canceled : k <= bound
    BY <1>2 DEF BondInv, KeysBound, TypeOK
  <2> QED
    BY <1>1, <1>2, <2>1 DEF TypeOK
<1>4. UNCHANGED <<deal, invoice, msgs>>
  BY <1>1 DEF daemonVars
<1>5. SecondWrite'
  BY <1>1 DEF SecondWrite
<1>6. RowCurrent'
  BY <1>1, <1>4 DEF BondInv, RowCurrent, PayBonds, WasLocked
<1>7. LockedIsReal' /\ BondFollowsTrade'
  BY <1>1, <1>4 DEF BondInv, LockedIsReal, BondFollowsTrade, WasLocked
<1>8. UserCancelTold'
  BY <1>1 DEF UserCancelTold, bond_cancel_reason
<1>9. row.status = "pending" => row.mine
  BY <1>1 DEF BondInv, MakerPublished
<1>10. /\ row' \in Row \cup {NoRow} /\ tomb' \in 0 .. MaxTakes /\ cursor' \in Time
       /\ noted' \in BOOLEAN /\ disp' \in Messages \cup {Idle} /\ stops' \in 0 .. MaxStops
       /\ expired' \subseteq Keys
  BY <1>1, <1>2 DEF TypeOK
<1>11. BondInv'
  BY <1>1, <1>2, <1>3, <1>5, <1>6, <1>7, <1>8, <1>9, <1>10, RowKeeps
<1> QED
  BY <1>1, <1>2, <1>11, RowStays

(* A stop forgets the note and a handler's second write. *)
LEMMA CrashKeeps == BondInv /\ Crash => BondInv' /\ RowStep
<1> SUFFICES ASSUME BondInv, Crash PROVE BondInv' /\ RowStep
  OBVIOUS
<1>1. /\ stops < MaxStops /\ stops' = stops + 1 /\ noted' = FALSE /\ disp' = Idle
      /\ UNCHANGED <<row, bound, tomb, cursor, daemonVars, now, canceled, expired>>
  BY DEF Crash, history
<1>2. TypeOK /\ (row # NoRow => row.key = bound /\ tomb = 0)
  BY DEF BondInv, TypeOK
<1>3. canceled' \subseteq Keys /\ \A k \in canceled' : k <= bound
  BY <1>1, <1>2 DEF BondInv, KeysBound, TypeOK
<1>4. UNCHANGED <<deal, invoice, msgs>>
  BY <1>1 DEF daemonVars
<1>5. SecondWrite'
  BY <1>1 DEF SecondWrite
<1>6. RowCurrent'
  BY <1>1, <1>4 DEF BondInv, RowCurrent, PayBonds, WasLocked
<1>7. LockedIsReal' /\ BondFollowsTrade'
  BY <1>1, <1>4 DEF BondInv, LockedIsReal, BondFollowsTrade, WasLocked
<1>8. stops' # 0 /\ stops' \in 0 .. MaxStops
  BY <1>1, <1>2, BondAssumption DEF TypeOK
<1>9. UserCancelTold'
  BY <1>8 DEF UserCancelTold
<1>10. row # NoRow /\ row.status = "pending" => row.mine
  BY <1>1 DEF BondInv, MakerPublished
<1>11. /\ row' \in Row \cup {NoRow} /\ tomb' \in 0 .. MaxTakes /\ cursor' \in Time
       /\ noted' \in BOOLEAN /\ disp' \in Messages \cup {Idle} /\ expired' \subseteq Keys
  BY <1>1, <1>2 DEF TypeOK
<1>12. BondInv'
  BY <1>1, <1>2, <1>3, <1>5, <1>6, <1>7, <1>8, <1>9, <1>10, <1>11, RowKeeps
<1> QED
  BY <1>1, <1>2, <1>12, RowStays

(* A fresh device asks for the bond again, or has no row. *)
LEMMA ReinstallKeeps == BondInv /\ Reinstall => BondInv' /\ RowStep
<1> SUFFICES ASSUME BondInv, Reinstall PROVE BondInv' /\ RowStep
  OBVIOUS
<1>1. /\ stops < MaxStops /\ stops' = stops + 1 /\ bound # 0 /\ noted' = FALSE /\ disp' = Idle
      /\ tomb' = 0 /\ cursor' = 0
      /\ UNCHANGED <<bound, daemonVars, now, canceled, expired>>
  BY DEF Reinstall, history
<1>2. TypeOK /\ bound \in Keys /\ 0 \in Time /\ now \in Time /\ canceled' \subseteq Keys
      /\ expired' \subseteq Keys /\ \A k \in canceled' : k <= bound
  BY <1>1, BondAssumption DEF BondInv, TypeOK, KeysBound, Keys, Time
<1>3. stops' # 0 /\ stops' \in 0 .. MaxStops /\ 0 \in 0 .. MaxTakes
  BY <1>1, <1>2, BondAssumption DEF TypeOK
<1>4. RowStep
  <2>1. stops' # stops
    BY <1>1, <1>2, BondAssumption DEF TypeOK
  <2> QED
    BY <2>1 DEF RowStep
<1>5. CASE deal[bound] # "asked"
  <2>1. row' = NoRow
    BY <1>5 DEF Reinstall
  <2>2. BondInv'
    BY <1>1, <1>2, <1>3, <2>1, Wiped
  <2> QED
    BY <1>4, <2>2
<1>6. CASE deal[bound] = "asked"
  <2>1. row' = [bond_requested(bound, row.mine, 0) EXCEPT !.asked = now]
    BY <1>6 DEF Reinstall
  <2>2. row.mine \in BOOLEAN
    BY <1>2, RowIs DEF TypeOK, Row
  <2>3. /\ row' \in Row /\ row'.key = bound /\ row'.mine = row.mine /\ row'.status = "bond"
        /\ row'.bond = "requested" /\ row'.inv = 0
    BY <1>2, <2>1, <2>2 DEF bond_requested, Row
  <2>4. row' # NoRow /\ (row'.mine => row # NoRow /\ row.mine)
    BY <2>2, <2>3, RowIs
  <2>5. UNCHANGED <<deal, invoice, msgs>>
    BY <1>1 DEF daemonVars
  <2>6. SecondWrite'
    BY <1>1 DEF SecondWrite
  <2>7. RowCurrent'
    <3>1. invoice \in Nat /\ \A m \in PayBonds(bound) : m.inv \in Nat
      BY <1>2 DEF TypeOK, PayBonds, Messages, Time
    <3>2. PayBonds(row.key)' = PayBonds(bound) /\ ~WasLocked(row.key)'
      BY <1>6, <2>3, <2>5 DEF PayBonds, WasLocked
    <3> QED
      BY <2>3, <2>5, <3>1, <3>2 DEF RowCurrent
  <2>8. LockedIsReal' /\ BondFollowsTrade'
    BY <2>3 DEF LockedIsReal, BondFollowsTrade, Finished
  <2>9. UserCancelTold'
    BY <1>3 DEF UserCancelTold
  <2>10. /\ row' \in Row \cup {NoRow} /\ tomb' \in 0 .. MaxTakes /\ cursor' \in Time
         /\ noted' \in BOOLEAN /\ disp' \in Messages \cup {Idle}
    BY <1>1, <1>2, <1>3, <2>3
  <2>11. BondInv'
    BY <1>1, <1>2, <1>3, <2>3, <2>4, <2>6, <2>7, <2>8, <2>9, <2>10, RowKeeps
  <2> QED
    BY <1>4, <2>11
<1> QED
  BY <1>5, <1>6

-----------------------------------------------------------------------------
(* What the daemon, the book and the clock do. *)
LEMMA SaidIs ==
    ASSUME TypeOK, NEW k \in Keys, NEW i \in Time,
           NEW w \in {"pay-bond", "new-order", "waiting", "active", "success", "canceled", "slashed"}
    PROVE  /\ say(w, k, i) \in Messages /\ say(w, k, i).what = w /\ say(w, k, i).key = k
           /\ say(w, k, i).inv = i /\ say(w, k, i).ts = now
<1>1. now \in Time
  BY BondAssumption DEF TypeOK, Time
<1> QED
  BY <1>1 DEF say, Messages

LEMMA PaysKeeps == BondInv /\ PaysBond => BondInv' /\ RowStep
<1> SUFFICES ASSUME BondInv, PaysBond PROVE BondInv' /\ RowStep
  OBVIOUS
<1> DEFINE w == IF row.mine THEN "new-order" ELSE "waiting"
           m == say(w, row.key, 0)
<1>1. /\ row # NoRow /\ row.status = "bond" /\ row.inv = invoice /\ deal[row.key] = "asked"
      /\ deal' = [deal EXCEPT ![row.key] = "locked"] /\ msgs' = msgs \cup {m}
      /\ UNCHANGED <<row, bound, tomb, cursor, noted, disp, slashed, invoice, book, now, stops, history>>
  BY DEF PaysBond
<1>2. TypeOK /\ row.key \in Keys /\ 0 \in Time
  BY <1>1, BondAssumption DEF BondInv, TypeOK, Row, Time
<1>3. w \in {"new-order", "waiting"}
  OBVIOUS
<1> HIDE DEF w
<1>4. m \in Messages /\ m.key = row.key /\ m.what # "pay-bond"
  BY <1>2, <1>3, SaidIs
<1> HIDE DEF m
<1>5. msgs' \subseteq Messages /\ msgs \subseteq msgs' /\ msgs' \ msgs \subseteq {m}
  BY <1>1, <1>2, <1>4 DEF TypeOK
<1>6. ~WasLocked(row.key) /\ slashed' \subseteq slashed \cup {row.key}
  BY <1>1 DEF WasLocked
<1>8. \A x \in msgs' \ msgs : x.key = row.key /\ x.what # "pay-bond"
             /\ (x.what \in {"new-order", "waiting", "active", "success"}
                   => "locked" # "over")
  BY <1>4, <1>5
<1>9. (WasLocked(row.key) => "locked" # "over")
      /\ deal[row.key] # "none"
  BY <1>1
<1>7. BondInv'
  BY <1>1, <1>2, <1>5, <1>6, <1>8, <1>9, DealMoves
<1> QED
  BY <1>1, <1>2, <1>7, RowStays

LEMMA AdvancesKeeps == ASSUME BondInv, NEW k \in Keys, Advances(k) PROVE BondInv' /\ RowStep
<1>1. TypeOK /\ 0 \in Time
  BY BondAssumption DEF BondInv, Time
<1>2. PICK d \in {"active", "success"} :
        /\ deal[k] \in {"locked", "active"} /\ deal' = [deal EXCEPT ![k] = d]
        /\ msgs' = msgs \cup {say(deal'[k], k, 0)}
        /\ UNCHANGED <<row, bound, tomb, cursor, noted, disp, slashed, invoice, book, now, stops, history>>
  BY DEF Advances
<1>3. deal'[k] = d
  BY <1>1, <1>2 DEF TypeOK
<1> DEFINE m == say(d, k, 0)
<1>4. msgs' = msgs \cup {m}
  BY <1>2, <1>3
<1>5. m \in Messages /\ m.key = k /\ m.what # "pay-bond"
  BY <1>1, SaidIs
<1> HIDE DEF m
<1>6. msgs' \subseteq Messages /\ msgs \subseteq msgs' /\ msgs' \ msgs \subseteq {m}
  BY <1>1, <1>4, <1>5 DEF TypeOK
<1>7. WasLocked(k) /\ slashed' \subseteq slashed \cup {k} /\ deal[k] # "none"
  BY <1>2 DEF WasLocked
<1>8. row # NoRow /\ row.key = k /\ row.status = "bond" => row.inv = invoice
  BY <1>7 DEF BondInv, RowCurrent
<1>9. d # "over"
  OBVIOUS
<1>11. \A x \in msgs' \ msgs : x.key = k /\ x.what # "pay-bond"
             /\ (x.what \in {"new-order", "waiting", "active", "success"}
                   => d # "over")
  BY <1>5, <1>6, <1>9
<1>12. deal' = [deal EXCEPT ![k] = d]
       /\ UNCHANGED <<row, bound, tomb, cursor, noted, disp, invoice, book, now, stops, history>>
  BY <1>2
<1>10. BondInv'
  <2>1. CASE d = "active"
    BY <1>6, <1>7, <1>8, <1>11, <1>12, <2>1, DealMoves
  <2>2. CASE d = "success"
    BY <1>6, <1>7, <1>8, <1>11, <1>12, <2>2, DealMoves
  <2> QED
    BY <2>1, <2>2
<1> QED
  BY <1>1, <1>2, <1>10, RowStays

LEMMA CancelsKeeps == ASSUME BondInv, NEW k \in Keys, Cancels(k) PROVE BondInv' /\ RowStep
<1>1. TypeOK /\ 0 \in Time
  BY BondAssumption DEF BondInv, Time
<1> DEFINE d == IF deal[k] = "asked" THEN "over" ELSE "canceled"
           m == say("canceled", k, 0)
           n == say("slashed", k, 0)
<1>2. /\ deal[k] \in {"asked", "locked", "active"} /\ deal' = [deal EXCEPT ![k] = d]
      /\ \/ msgs' = msgs \cup {m} /\ slashed' = slashed
         \/ deal[k] # "asked" /\ slashed' = slashed \cup {k} /\ msgs' = msgs \cup {m, n}
      /\ UNCHANGED <<row, bound, tomb, cursor, noted, disp, invoice, book, now, stops, history>>
  BY DEF Cancels
<1>3. m \in Messages /\ m.key = k /\ m.what = "canceled"
  BY <1>1, SaidIs
<1>4. n \in Messages /\ n.key = k /\ n.what = "slashed"
  BY <1>1, SaidIs
<1> HIDE DEF m, n
<1>5. msgs' \subseteq Messages /\ msgs \subseteq msgs' /\ msgs' \ msgs \subseteq {m, n}
  BY <1>1, <1>2, <1>3, <1>4 DEF TypeOK
<1>6. /\ deal[k] # "none" /\ (WasLocked(k) => d = "canceled") /\ (d = "canceled" => WasLocked(k))
      /\ d \in {"over", "canceled"} /\ slashed' \subseteq slashed \cup {k}
      /\ (k \in slashed' => WasLocked(k))
  BY <1>2 DEF WasLocked, BondInv, FlowMeansLocked
<1> HIDE DEF d
<1>7. row # NoRow /\ row.key = k /\ row.status = "bond" /\ d = "canceled" => row.inv = invoice
  BY <1>6 DEF BondInv, RowCurrent
<1>9. \A x \in msgs' \ msgs : x.key = k /\ x.what # "pay-bond"
             /\ (x.what \in {"new-order", "waiting", "active", "success"}
                   => d # "over")
  BY <1>3, <1>4, <1>5
<1>10. UNCHANGED <<row, bound, tomb, cursor, noted, disp, invoice, book, now, stops, history>>
       /\ deal' = [deal EXCEPT ![k] = d]
  BY <1>2
<1>11. d \in {"over", "locked", "active", "success", "canceled"}
       /\ (WasLocked(k) => d # "over")
       /\ (k \in slashed' => d # "over")
       /\ (row # NoRow /\ row.key = k /\ row.status = "bond"
              /\ d # "over" => row.inv = invoice)
  BY <1>6, <1>7
<1>8. BondInv'
  <2>1. CASE d = "over"
    BY <1>5, <1>6, <1>9, <1>10, <1>11, <2>1, DealMoves
  <2>2. CASE d = "canceled"
    BY <1>5, <1>6, <1>9, <1>10, <1>11, <2>2, DealMoves
  <2> QED
    BY <1>6, <2>1, <2>2
<1> QED
  BY <1>1, <1>2, <1>8, RowStays

LEMMA LapsesKeeps == ASSUME BondInv, NEW k \in Keys, Lapses(k) PROVE BondInv' /\ RowStep
<1>1. /\ deal[k] = "asked" /\ deal' = [deal EXCEPT ![k] = "over"]
      /\ UNCHANGED <<row, bound, tomb, cursor, noted, disp, slashed, invoice, msgs, book, now, stops, history>>
  BY DEF Lapses
<1>2. TypeOK /\ msgs' \subseteq Messages /\ msgs \subseteq msgs' /\ msgs' \ msgs = {}
  BY <1>1 DEF BondInv, TypeOK
<1>3. ~WasLocked(k) /\ k \notin slashed' /\ slashed' \subseteq slashed \cup {k}
  BY <1>1 DEF BondInv, FlowMeansLocked, WasLocked
<1>4. BondInv'
  BY <1>1, <1>2, <1>3, DealMoves
<1> QED
  BY <1>1, <1>2, <1>4, RowStays

(* The daemon sends the invoice again: a new one once the old has lapsed. *)
LEMMA SendsKeeps == ASSUME BondInv, NEW k \in Keys, SendsAgain(k) PROVE BondInv' /\ RowStep
<1> DEFINE i == IF now > invoice + Window THEN now ELSE invoice
           m == say("pay-bond", k, i)
<1>1. /\ deal[k] = "asked" /\ invoice' = i /\ msgs' = msgs \cup {m}
      /\ UNCHANGED <<row, bound, tomb, cursor, noted, disp, deal, slashed, book, now, stops, canceled, expired>>
  BY DEF SendsAgain, history
<1>2. TypeOK /\ k = bound /\ k \in Nat /\ ~WasLocked(k)
  BY <1>1 DEF BondInv, KeysBound, WasLocked, Keys
<1>3. now \in Nat /\ now \in Time /\ invoice \in Nat /\ invoice \in Time /\ Window \in Nat
      /\ invoice <= now
  BY <1>2, BondAssumption DEF TypeOK, Time, BondInv, InvoicesOrdered
<1>4. i \in Time /\ i \in Nat /\ invoice <= i /\ i <= now /\ now <= i + Window
      /\ (now <= invoice + Window => i = invoice)
  BY <1>3
<1>5. m \in Messages /\ m.key = k /\ m.what = "pay-bond" /\ m.inv = i /\ m.ts = now
  BY <1>2, <1>4, SaidIs
<1> HIDE DEF i, m
<1>6. \A j : PayBonds(j)' = IF j = k THEN PayBonds(j) \cup {m} ELSE PayBonds(j)
  BY <1>1, <1>5 DEF PayBonds
<1>7. \A o \in PayBonds(bound) :
         /\ o.inv \in Nat /\ o.ts \in Nat /\ o.inv <= i /\ o.ts <= now
         /\ o.ts = now => o.inv = i
  <2>1. \A o \in PayBonds(bound) : o.inv \in Nat /\ o.ts \in Nat
    BY <1>2 DEF TypeOK, PayBonds, Messages, Time
  <2>2. \A o \in PayBonds(bound) :
           o.inv <= invoice /\ o.ts <= now /\ (o.ts = now => o.inv = invoice /\ now <= invoice + Window)
    BY DEF BondInv, InvoicesOrdered
  <2> QED
    BY <1>3, <1>4, <2>1, <2>2
<1>8. InvoicesOrdered'
  <2>1. PayBonds(bound)' = PayBonds(bound) \cup {m}
    BY <1>1, <1>2, <1>6
  <2>2. \A o, p \in PayBonds(bound) : o.ts <= p.ts => o.inv <= p.inv
    BY DEF BondInv, InvoicesOrdered
  <2>3. \A o, p \in PayBonds(bound)' : o.ts <= p.ts => o.inv <= p.inv
    BY <1>3, <1>4, <1>5, <1>7, <2>1, <2>2
  <2>4. \A o \in PayBonds(bound)' :
           o.inv <= i /\ o.ts <= now /\ (o.ts = now => o.inv = i /\ now <= i + Window)
    BY <1>3, <1>4, <1>5, <1>7, <2>1
  <2> QED
    BY <1>1, <1>4, <2>3, <2>4 DEF InvoicesOrdered
<1>9. RowCurrent'
  <2>1. row # NoRow => row.key = bound /\ row.inv \in Nat /\ row.inv <= invoice
    BY <1>2 DEF BondInv, TypeOK, RowCurrent, Row, Time
  <2>2. \A o \in PayBonds(row.key)' : row # NoRow /\ o.ts >= row.asked => o.inv >= row.inv
    BY <1>1, <1>2, <1>3, <1>4, <1>5, <1>6, <2>1 DEF BondInv, RowCurrent
  <2>3. row # NoRow => ~WasLocked(row.key)'
    BY <1>1, <1>2, <2>1 DEF WasLocked
  <2> QED
    BY <1>1, <1>3, <1>4, <2>1, <2>2, <2>3 DEF RowCurrent
<1>10. KeysBound'
  BY <1>1, <1>2, <1>5 DEF BondInv, KeysBound
<1>11. FlowMeansLocked' /\ (\A j \in Keys : WasLocked(j) => WasLocked(j)')
  BY <1>1, <1>5 DEF BondInv, FlowMeansLocked, WasLocked
<1>12. row # NoRow /\ row.mine /\ book' # "none" => WasLocked(row.key)'
  BY <1>1 DEF BondInv, MakerPublished, WasLocked
<1>13. /\ deal' \in [Keys -> {"none", "asked", "over", "locked", "active", "success", "canceled"}]
       /\ slashed' \subseteq Keys /\ invoice' \in Time /\ msgs' \subseteq Messages
       /\ book' \in {"none", "pending", "in-progress", "canceled"} /\ now' \in 1 .. MaxTime
  BY <1>1, <1>2, <1>4, <1>5 DEF TypeOK
<1>14. BondInv'
  BY <1>1, <1>8, <1>9, <1>10, <1>11, <1>12, <1>13, OutsideKeeps
<1> QED
  BY <1>1, <1>2, <1>14, RowStays

LEMMA BookKeeps == BondInv /\ BookChanges => BondInv' /\ RowStep
<1> SUFFICES ASSUME BondInv, BookChanges PROVE BondInv' /\ RowStep
  OBVIOUS
<1>1. /\ row # NoRow /\ row.mine => WasLocked(row.key)
      /\ book' \in {"pending", "in-progress", "canceled"}
      /\ UNCHANGED <<row, bound, tomb, cursor, noted, disp, deal, slashed, invoice, msgs, now, stops,
                     canceled, expired>>
  BY DEF BookChanges, history
<1>2. TypeOK
  BY DEF BondInv
<1>3. KeysBound' /\ FlowMeansLocked' /\ InvoicesOrdered' /\ RowCurrent'
      /\ (\A j : WasLocked(j)' <=> WasLocked(j))
  BY <1>1 DEF BondInv, KeysBound, FlowMeansLocked, InvoicesOrdered, RowCurrent, PayBonds, WasLocked
<1>4. /\ deal' \in [Keys -> {"none", "asked", "over", "locked", "active", "success", "canceled"}]
      /\ slashed' \subseteq Keys /\ invoice' \in Time /\ msgs' \subseteq Messages
      /\ book' \in {"none", "pending", "in-progress", "canceled"} /\ now' \in 1 .. MaxTime
  BY <1>1, <1>2 DEF TypeOK
<1>5. BondInv'
  BY <1>1, <1>3, <1>4, OutsideKeeps
<1> QED
  BY <1>1, <1>2, <1>5, RowStays

LEMMA TickKeeps == BondInv /\ Tick => BondInv' /\ RowStep
<1> SUFFICES ASSUME BondInv, Tick PROVE BondInv' /\ RowStep
  OBVIOUS
<1>1. /\ now < MaxTime /\ now' = now + 1
      /\ UNCHANGED <<row, bound, tomb, cursor, noted, disp, deal, slashed, invoice, msgs, book, stops,
                     canceled, expired>>
  BY DEF Tick, history, daemonVars
<1>2. TypeOK
  BY DEF BondInv
<1>3. KeysBound' /\ FlowMeansLocked' /\ RowCurrent' /\ (\A j : WasLocked(j)' <=> WasLocked(j))
  BY <1>1 DEF BondInv, KeysBound, FlowMeansLocked, RowCurrent, PayBonds, WasLocked
<1>4. InvoicesOrdered'
  <2>1. now \in Nat /\ invoice \in Nat /\ \A o \in PayBonds(bound) : o.inv \in Nat /\ o.ts \in Nat
    BY <1>2 DEF TypeOK, PayBonds, Messages, Time
  <2>2. PayBonds(bound)' = PayBonds(bound)
    BY <1>1 DEF PayBonds
  <2>3. /\ invoice <= now /\ \A o \in PayBonds(bound) : o.inv <= invoice /\ o.ts <= now
        /\ \A o, p \in PayBonds(bound) : o.ts <= p.ts => o.inv <= p.inv
    BY DEF BondInv, InvoicesOrdered
  <2>4. \A o \in PayBonds(bound)' : o.inv <= invoice /\ o.ts <= now' /\ o.ts # now'
    BY <1>1, <2>1, <2>2, <2>3
  <2> QED
    BY <1>1, <2>1, <2>2, <2>3, <2>4 DEF InvoicesOrdered
<1>5. /\ deal' \in [Keys -> {"none", "asked", "over", "locked", "active", "success", "canceled"}]
      /\ slashed' \subseteq Keys /\ invoice' \in Time /\ msgs' \subseteq Messages
      /\ book' \in {"none", "pending", "in-progress", "canceled"} /\ now' \in 1 .. MaxTime
  BY <1>1, <1>2, BondAssumption DEF TypeOK
<1>6. row # NoRow /\ row.mine /\ book' # "none" => WasLocked(row.key)'
  BY <1>1, <1>3 DEF BondInv, MakerPublished
<1>7. BondInv'
  BY <1>1, <1>3, <1>4, <1>5, <1>6, OutsideKeeps
<1> QED
  BY <1>1, <1>2, <1>7, RowStays

-----------------------------------------------------------------------------
LEMMA BondStart == MCInit => BondInv
<1> SUFFICES ASSUME Init PROVE BondInv
  BY DEF MCInit
<1>1. /\ row = NoRow /\ bound = 0 /\ tomb = 0 /\ cursor = 0 /\ noted = FALSE /\ disp = Idle
      /\ deal = [k \in Keys |-> "none"] /\ slashed = {} /\ invoice = 0 /\ msgs = {}
      /\ book \in {"pending", "none"} /\ now = 1 /\ stops = 0 /\ canceled = {} /\ expired = {}
  BY DEF Init
<1>2. TypeOK
  <2>1. MaxTakes \in Nat /\ MaxStops \in Nat /\ MaxTime \in Nat /\ MaxTime >= 1
    BY BondAssumption
  <2>2. deal \in [Keys -> {"none", "asked", "over", "locked", "active", "success", "canceled"}]
    BY <1>1
  <2>3. row \in Row \cup {NoRow} /\ disp \in Messages \cup {Idle} /\ noted \in BOOLEAN
        /\ (row # NoRow => tomb = 0 /\ row.key = bound)
    BY <1>1
  <2>4. bound \in 0 .. MaxTakes /\ tomb \in 0 .. MaxTakes /\ stops \in 0 .. MaxStops
        /\ cursor \in Time /\ invoice \in Time /\ now \in 1 .. MaxTime
    BY <1>1, <2>1 DEF Time
  <2>5. slashed \subseteq Keys /\ msgs \subseteq Messages /\ canceled \subseteq Keys
        /\ expired \subseteq Keys /\ book \in {"none", "pending", "in-progress", "canceled"}
    BY <1>1
  <2> QED
    BY <2>2, <2>3, <2>4, <2>5 DEF TypeOK
<1>3. KeysBound /\ FlowMeansLocked /\ InvoicesOrdered
  BY <1>1 DEF KeysBound, FlowMeansLocked, InvoicesOrdered, PayBonds
<1>4. SecondWrite /\ MakerPublished /\ RowCurrent /\ LockedIsReal /\ BondFollowsTrade /\ UserCancelTold
  BY <1>1 DEF SecondWrite, MakerPublished, RowCurrent, LockedIsReal, BondFollowsTrade, UserCancelTold
<1> QED
  BY <1>2, <1>3, <1>4 DEF BondInv

LEMMA BondNext == BondInv /\ [Next]_vars => BondInv' /\ RowStep
<1> SUFFICES ASSUME BondInv, [Next]_vars PROVE BondInv' /\ RowStep
  OBVIOUS
<1>1. CASE UNCHANGED vars
  <2>1. row' = row /\ TypeOK
    BY <1>1 DEF vars, BondInv
  <2>2. BondInv'
    BY <1>1 DEF vars, BondInv, TypeOK, KeysBound, FlowMeansLocked, SecondWrite, MakerPublished,
                InvoicesOrdered, RowCurrent, LockedIsReal, BondFollowsTrade, UserCancelTold,
                bond_cancel_reason, PayBonds, WasLocked
  <2> QED
    BY <2>1, <2>2, RowStays
<1>2. CASE \E k \in Keys : take_order(k)
  BY <1>2, TakeKeeps
<1>3. CASE \E k \in Keys : SendsAgain(k)
  BY <1>3, SendsKeeps
<1>4. CASE \E k \in Keys : Advances(k)
  BY <1>4, AdvancesKeeps
<1>5. CASE \E k \in Keys : Cancels(k)
  BY <1>5, CancelsKeeps
<1>6. CASE \E k \in Keys : Lapses(k)
  BY <1>6, LapsesKeeps
<1>7. CASE \E m \in msgs : dispatch(m)
  BY <1>7, DispatchKeeps
<1>8. CASE \/ create_order \/ request_bond_invoice_again \/ PaysBond \/ BookChanges \/ Tick
           \/ writes_status \/ close_expired_bond_trade \/ abandon_maker_bond \/ cancel_order
           \/ Crash \/ Reinstall
  BY <1>8, CreateKeeps, RequestKeeps, PaysKeeps, BookKeeps, TickKeeps, SecondKeeps, CloseKeeps,
     AbandonKeeps, CancelKeeps, CrashKeeps, ReinstallKeeps
<1> QED
  BY <1>1, <1>2, <1>3, <1>4, <1>5, <1>6, <1>7, <1>8 DEF Next

(* Only the local clock closes a window, and not of an order the book has. *)
LEMMA ExpiredNext ==
    [Next]_vars => (expired' # expired => ~(row.mine /\ book \in {"pending", "in-progress"}))
<1>1. close_expired_bond_trade => (expired' # expired => ~maker_order_is_published)
  BY DEF close_expired_bond_trade
<1>2. ASSUME NEW m \in msgs, dispatch(m) PROVE expired' = expired
  BY <1>2 DEF dispatch, PayBondInvoice, StatusArm, NewOrder, Canceled, BondSlashed, history
<1>3. ASSUME NEW k \in Keys, take_order(k) \/ SendsAgain(k) \/ Advances(k) \/ Cancels(k) \/ Lapses(k)
      PROVE  expired' = expired
  BY <1>3 DEF take_order, enter, SendsAgain, Advances, Cancels, Lapses, history
<1>4. ASSUME \/ create_order \/ request_bond_invoice_again \/ PaysBond \/ BookChanges \/ Tick
             \/ writes_status \/ abandon_maker_bond \/ cancel_order \/ Crash \/ Reinstall
      PROVE  expired' = expired
  BY <1>4 DEF create_order, enter, request_bond_invoice_again, PaysBond, BookChanges, Tick,
              writes_status, abandon_maker_bond, cancel_order, Crash, Reinstall, history
<1> QED
  BY <1>1, <1>2, <1>3, <1>4 DEF Next, vars, maker_order_is_published

LEMMA MCStep == [MCNext]_MCvars => [Next]_vars
BY DEF MCNext, MCvars

LEMMA BondInvariant == MCSpec => []BondInv
<1>1. BondInv /\ [MCNext]_MCvars => BondInv'
  BY BondNext, MCStep
<1> QED
  BY BondStart, <1>1, PTL DEF MCSpec

(* The bond of an order is what the daemon made of it, for any number of    *)
(* takes, sends and stops: what the row calls locked the daemon locked,     *)
(* the trade never goes past its bond, not even when the program stops      *)
(* between the two writes of a handler, and a user who gave the bond up is  *)
(* told so (note_bond_locked, lock_maker_bond, bond_cancel_reason).         *)
THEOREM BondIsTrue == MCSpec => []BondSound
<1>1. BondInv => BondSound
  BY DEF BondInv, BondSound
<1> QED
  BY BondInvariant, <1>1, PTL

(* A replay never puts an older bolt11 of the take back, the slash of this  *)
(* very take is kept whatever trails it, and the clock never ends the       *)
(* window of a published order (bond_refresh_is_stale, note_bond_released,  *)
(* maker_order_is_published).                                               *)
THEOREM BondMovesForward == MCSpec => BondSteps
<1> DEFINE Newer == row # NoRow /\ row'.key = row.key /\ row.mine = row'.mine /\ stops' = stops
                      => row'.inv >= row.inv
           Kept == row.bond = "slashed" /\ row.key \in slashed /\ row'.key = row.key /\ stops' = stops
                     => row'.bond = "slashed"
           Published == expired' # expired => ~(row.mine /\ book \in {"pending", "in-progress"})
<1>1. BondInv /\ [MCNext]_MCvars => [Newer]_vars /\ [Kept]_vars
  BY BondNext, MCStep DEF RowStep
<1>2. [MCNext]_MCvars => [Published]_vars
  BY ExpiredNext, MCStep
<1>3. MCSpec => [][Newer]_vars /\ [][Kept]_vars /\ [][Published]_vars
  BY BondInvariant, <1>1, <1>2, PTL DEF MCSpec
<1> QED
  BY <1>3 DEF BondSteps, InvoiceOnlyNewer, SlashKept, PublishedNotExpired

-----------------------------------------------------------------------------
(* The wallet (Nwc).  A replaced client is in the hands of its successor's  *)
(* connect_wallet only until that one has disconnected it.                  *)
OldInHand == \A k \in Clients : setup[k].pc # "notify" => setup[k].old = Wallet!NoClient

(* What reached the wallet was sent, and keeps the client and the invoice   *)
(* it was sent with; so does the payment whose success ended a call.        *)
Sent(d) == calls[d].pc # "idle"
Paying(c, d) ==
    /\ calls[c].from = d /\ Sent(d) /\ calls[d].method = "pay"
    /\ calls[d].client = calls[c].client /\ calls[d].invoice \in paid
PaidFor(c) ==
    calls[c].method = "pay" /\ calls[c].result = "ok" => \E d \in Calls : Paying(c, d)
CallsTrue == (\A d \in requests : Sent(d)) /\ \A c \in Calls : PaidFor(c)

WalletInv == Wallet!TypeOK /\ Wallet!NoneLeftOpen /\ OldInHand /\ CallsTrue

(* A call of a client, and a call of the wallet, as their fields.           *)
LEMMA SetupIs ==
    ASSUME Wallet!TypeOK, NEW k \in Clients
    PROVE  /\ setup[k] \in Wallet!Setup /\ setup[k].old \in Clients \cup {Wallet!NoClient}
           /\ setup[k].wallet \in Wallets \cup {NoWallet}
  BY DEF Wallet!TypeOK, Wallet!Setup

(* A step of connecting or disconnecting leaves no client open.             *)
LEMMA ConnectKeeps ==
    ASSUME WalletInv, NEW k \in Clients,
           \/ Wallet!restoreNwcConnection(k) \/ Wallet!connect(k) \/ Wallet!get_info(k)
           \/ Wallet!connect_wallet(k) \/ Wallet!disconnect_old(k) \/ Wallet!setConnected(k)
    PROVE  WalletInv'
  <1>. UNCHANGED <<calls, requests, paid>>
    BY DEF Wallet!restoreNwcConnection, Wallet!connect, Wallet!begin, Wallet!get_info,
           Wallet!connect_wallet, Wallet!disconnect_old, Wallet!setConnected
  <1>1. CallsTrue' BY DEF WalletInv, CallsTrue, PaidFor, Paying, Sent
  <1>. setup[k] \in Wallet!Setup /\ Wallet!TypeOK
    BY SetupIs DEF WalletInv
  <1>2. ASSUME NEW w \in Wallets \cup {NoWallet}, NEW by \in {"start", "user"}, k \in Wallet!Unused,
               Wallet!begin(k, w, by)
        PROVE  Wallet!TypeOK' /\ Wallet!NoneLeftOpen' /\ OldInHand'
    <2>1. setup[k].pc = "unused" /\ setup[k].old = Wallet!NoClient
      BY <1>2 DEF Wallet!Unused, WalletInv, OldInHand
    <2>2. Wallet!TypeOK' BY <1>2 DEF Wallet!TypeOK, Wallet!begin, Wallet!Setup
    <2>3. OldInHand' BY <1>2 DEF Wallet!TypeOK, Wallet!begin, WalletInv, OldInHand, Wallet!Setup
    <2>4. Wallet!NoneLeftOpen'
      BY <1>2, <2>1 DEF Wallet!TypeOK, Wallet!begin, WalletInv, Wallet!NoneLeftOpen, Wallet!Setup
    <2>. QED BY <2>2, <2>3, <2>4
  <1>3. CASE Wallet!restoreNwcConnection(k) \/ Wallet!connect(k)
    BY <1>3, <1>2, <1>1 DEF Wallet!restoreNwcConnection, Wallet!connect, WalletInv, Wallet!TypeOK
  <1>4. CASE Wallet!get_info(k)
    <2>1. setup[k].old = Wallet!NoClient /\ setup[k].pc = "info"
      BY <1>4 DEF Wallet!get_info, WalletInv, OldInHand
    <2>2. Wallet!TypeOK' BY <1>4 DEF Wallet!TypeOK, Wallet!get_info, Wallet!Setup
    <2>3. OldInHand' BY <1>4, <2>1 DEF Wallet!TypeOK, Wallet!get_info, WalletInv, OldInHand, Wallet!Setup
    <2>4. Wallet!NoneLeftOpen'
      BY <1>4, <2>1 DEF Wallet!TypeOK, Wallet!get_info, WalletInv, Wallet!NoneLeftOpen, Wallet!Setup
    <2>. QED BY <2>2, <2>3, <2>4, <1>1 DEF WalletInv
  <1>5. CASE Wallet!connect_wallet(k)
    <2>1. setup[k].old = Wallet!NoClient /\ setup[k].pc = "install"
      BY <1>5 DEF Wallet!connect_wallet, WalletInv, OldInHand
    <2>2. Wallet!TypeOK' BY <1>5 DEF Wallet!TypeOK, Wallet!connect_wallet, Wallet!Setup
    <2>3. OldInHand' BY <1>5 DEF Wallet!TypeOK, Wallet!connect_wallet, WalletInv, OldInHand, Wallet!Setup
    <2>4. Wallet!NoneLeftOpen'
      <3>1. /\ live' = live /\ discarded' = discarded /\ client' = k
            /\ setup'[k].old = client /\ \A j \in Clients \ {k} : setup'[j] = setup[j]
        BY <1>5 DEF Wallet!TypeOK, Wallet!connect_wallet, Wallet!Setup
      <3>2. \A x \in live : x \in Clients /\ x # Wallet!NoClient
        BY WalletAssumption DEF Wallet!TypeOK
      <3>. QED BY <3>1, <3>2, <2>1 DEF WalletInv, Wallet!NoneLeftOpen
    <2>. QED BY <2>2, <2>3, <2>4, <1>1 DEF WalletInv
  <1>6. CASE Wallet!disconnect_old(k)
    <2>1. setup[k].pc = "notify"
      BY <1>6 DEF Wallet!disconnect_old
    <2>2. Wallet!TypeOK' BY <1>6 DEF Wallet!TypeOK, Wallet!disconnect_old, Wallet!Setup
    <2>3. OldInHand' BY <1>6 DEF Wallet!TypeOK, Wallet!disconnect_old, WalletInv, OldInHand, Wallet!Setup
    <2>4. Wallet!NoneLeftOpen'
      <3>1. /\ live' = live \ {setup[k].old} /\ discarded' = discarded /\ client' = client
            /\ \A j \in Clients \ {k} : setup'[j] = setup[j]
        BY <1>6 DEF Wallet!TypeOK, Wallet!disconnect_old, Wallet!Setup
      <3>. QED BY <3>1, <2>1 DEF WalletInv, Wallet!NoneLeftOpen
    <2>. QED BY <2>2, <2>3, <2>4, <1>1 DEF WalletInv
  <1>7. CASE Wallet!setConnected(k)
    <2>1. setup[k].pc = "returned"
      BY <1>7 DEF Wallet!setConnected
    <2>2. Wallet!TypeOK' BY <1>7 DEF Wallet!TypeOK, Wallet!setConnected, Wallet!Setup
    <2>3. OldInHand' BY <1>7, <2>1 DEF Wallet!TypeOK, Wallet!setConnected, WalletInv, OldInHand, Wallet!Setup
    <2>4. Wallet!NoneLeftOpen'
      <3>1. /\ live' = live /\ discarded' = discarded /\ client' = client
            /\ \A j \in Clients \ {k} : setup'[j] = setup[j]
            /\ setup'[k].old = setup[k].old
        BY <1>7 DEF Wallet!TypeOK, Wallet!setConnected, Wallet!Setup
      <3>. QED BY <3>1, <2>1 DEF WalletInv, Wallet!NoneLeftOpen
    <2>. QED BY <2>2, <2>3, <2>4, <1>1 DEF WalletInv
  <1>. QED BY <1>3, <1>4, <1>5, <1>6, <1>7

LEMMA DisconnectKeeps ==
    ASSUME WalletInv, Wallet!disconnect_wallet \/ Wallet!setDisconnected
    PROVE  WalletInv'
  <1>. UNCHANGED <<setup, calls, requests, paid>>
    BY DEF Wallet!disconnect_wallet, Wallet!setDisconnected
  <1>1. CallsTrue' /\ OldInHand'
    BY DEF WalletInv, CallsTrue, PaidFor, Paying, Sent, OldInHand
  <1>2. Wallet!TypeOK'
    BY DEF WalletInv, Wallet!TypeOK, Wallet!disconnect_wallet, Wallet!setDisconnected
  <1>3. live \subseteq Clients /\ Wallet!NoClient \notin Clients
    BY WalletAssumption DEF WalletInv, Wallet!TypeOK
  <1>4. CASE Wallet!disconnect_wallet
    BY <1>1, <1>2, <1>3, <1>4 DEF WalletInv, Wallet!NoneLeftOpen, Wallet!disconnect_wallet
  <1>5. CASE Wallet!setDisconnected
    BY <1>1, <1>2, <1>3, <1>5 DEF WalletInv, Wallet!NoneLeftOpen, Wallet!setDisconnected
  <1>. QED BY <1>4, <1>5

(* A call of the wallet: what ends one as paid was a payment of its client, *)
(* whosever answer it was.                                                  *)
LEMMA CallKeeps ==
    ASSUME WalletInv, NEW c \in Calls,
           Wallet!send_request(c) \/ Wallet!answer(c) \/ Wallet!elapse(c)
    PROVE  WalletInv'
  <1>. UNCHANGED <<client, live, setup, discarded, shown, uri>>
    BY DEF Wallet!send_request, Wallet!answer, Wallet!elapse, Wallet!setups
  <1>1. Wallet!NoneLeftOpen' /\ OldInHand'
    BY DEF WalletInv, Wallet!NoneLeftOpen, OldInHand
  <1>2. Wallet!TypeOK BY DEF WalletInv
  <1>3. CASE Wallet!send_request(c)
    <2>1. PICK m \in {"pay", "make"}, i \in Invoices, sent \in BOOLEAN :
            /\ calls' = [calls EXCEPT ![c] =
                 [@ EXCEPT !.method = m, !.invoice = i, !.client = client,
                           !.pc = IF sent THEN "waiting" ELSE "done",
                           !.result = IF sent THEN "none" ELSE "failed"]]
            /\ requests' = requests \cup {c} \/ requests' = requests
            /\ paid' = paid
      BY <1>3 DEF Wallet!send_request
    <2>. DEFINE new == [calls[c] EXCEPT !.method = m, !.invoice = i, !.client = client,
                                        !.pc = IF sent THEN "waiting" ELSE "done",
                                        !.result = IF sent THEN "none" ELSE "failed"]
    <2>2. calls[c] \in Wallet!Call BY <1>2 DEF Wallet!TypeOK
    <2>3. new \in Wallet!Call /\ new.result # "ok" /\ new.pc # "idle"
      BY <1>2, <2>2 DEF Wallet!Call, Wallet!TypeOK
    <2>. calls' = [calls EXCEPT ![c] = new] BY <2>1, <1>2 DEF Wallet!TypeOK
    <2>. HIDE DEF new
    <2>4. Wallet!TypeOK' BY <2>1, <2>3, <1>2 DEF Wallet!TypeOK
    <2>5. calls'[c].result # "ok" /\ \A d \in Calls \ {c} : calls'[d] = calls[d]
      <3>1. calls'[c] = new BY <1>2 DEF Wallet!TypeOK
      <3>. QED BY <3>1, <2>3, <1>2 DEF Wallet!TypeOK
    <2>6. calls[c].pc = "idle" /\ calls'[c].pc # "idle"
      <3>1. calls'[c] = new BY <1>2 DEF Wallet!TypeOK
      <3>2. calls[c].pc = "idle" BY <1>3 DEF Wallet!send_request
      <3>. QED BY <3>1, <3>2, <2>3
    <2>7. CallsTrue'
      <3>1. \A d \in requests' : Sent(d)' BY <2>1, <2>5, <2>6, <1>2 DEF WalletInv, CallsTrue, Sent, Wallet!TypeOK
      <3>2. ASSUME NEW b \in Calls PROVE PaidFor(b)'
        <4>1. CASE b = c BY <4>1, <2>5 DEF PaidFor
        <4>2. CASE b # c
          <5>1. calls'[b] = calls[b] BY <4>2, <2>5
          <5>2. ASSUME NEW d \in Calls, Paying(b, d) PROVE Paying(b, d)'
            BY <5>1, <5>2, <2>5, <2>6, <2>1 DEF Paying, Sent
          <5>. QED BY <5>1, <5>2 DEF WalletInv, CallsTrue, PaidFor
        <4>. QED BY <4>1, <4>2
      <3>. QED BY <3>1, <3>2 DEF CallsTrue
    <2>. QED BY <2>4, <2>7, <1>1 DEF WalletInv
  <1>4. CASE Wallet!answer(c)
    <2>1. PICK a \in {calls[c].method, "error"} :
            /\ paid' = IF a = "pay" THEN paid \cup {calls[c].invoice} ELSE paid
            /\ calls' = [d \in Calls |->
                 IF /\ calls[d].pc = "waiting" /\ calls[d].client = calls[c].client
                    /\ calls[c].client \in live
                 THEN [calls[d] EXCEPT !.pc = "done", !.from = c,
                                       !.result = Wallet!parse(calls[d].method, a)]
                 ELSE calls[d]]
            /\ requests' \subseteq requests
      BY <1>4 DEF Wallet!answer
    <2>2. Wallet!TypeOK'
      <3>1. ASSUME NEW d \in Calls PROVE calls'[d] \in Wallet!Call
        <4>1. calls[d] \in Wallet!Call BY <1>2 DEF Wallet!TypeOK
        <4>. QED BY <4>1, <2>1 DEF Wallet!Call, Wallet!parse
      <3>2. calls' \in [Calls -> Wallet!Call] BY <3>1, <2>1
      <3>3. paid' \subseteq Invoices
        <4>1. calls[c].invoice \in Invoices BY <1>2 DEF Wallet!TypeOK, Wallet!Call
        <4>. QED BY <4>1, <1>2, <2>1 DEF Wallet!TypeOK
      <3>. QED BY <3>2, <3>3, <2>1, <1>2 DEF Wallet!TypeOK
    <2>3. ASSUME NEW d \in Calls
          PROVE  /\ calls'[d].method = calls[d].method /\ calls'[d].client = calls[d].client
                 /\ calls'[d].invoice = calls[d].invoice /\ (Sent(d) => Sent(d)')
                 /\ \/ calls'[d] = calls[d]
                    \/ /\ calls'[d].from = c /\ calls[d].client = calls[c].client
                       /\ calls'[d].result = Wallet!parse(calls[d].method, a)
      <3>1. calls[d] \in Wallet!Call BY <1>2 DEF Wallet!TypeOK
      <3>. QED BY <3>1, <2>1 DEF Wallet!Call, Sent
    <2>4. Sent(c) /\ paid \subseteq paid' BY <1>4, <2>1 DEF Wallet!answer, WalletInv, CallsTrue
    <2>5. ASSUME NEW b \in Calls PROVE PaidFor(b)'
      <3>. SUFFICES ASSUME calls'[b].method = "pay", calls'[b].result = "ok"
                    PROVE  \E d \in Calls : Paying(b, d)'
        BY DEF PaidFor
      <3>1. CASE calls'[b] = calls[b]
        <4>1. PICK d \in Calls : Paying(b, d) BY <3>1 DEF WalletInv, CallsTrue, PaidFor
        <4>2. Paying(b, d)' BY <4>1, <3>1, <2>3, <2>4 DEF Paying
        <4>. QED BY <4>2
      <3>2. CASE calls'[b] # calls[b]
        <4>1. /\ calls'[b].from = c /\ calls[b].client = calls[c].client /\ calls[b].method = "pay"
              /\ Wallet!parse(calls[b].method, a) = "ok"
          BY <3>2, <2>3
        <4>2. a = "pay" BY <4>1 DEF Wallet!parse
        <4>3. calls[c].method = "pay" /\ calls[c].invoice \in paid' BY <4>2, <2>1
        <4>4. Paying(b, c)' BY <4>1, <4>3, <2>3, <2>4 DEF Paying
        <4>. QED BY <4>4
      <3>. QED BY <3>1, <3>2
    <2>6. \A d \in requests' : Sent(d)'
      BY <2>1, <2>3, <1>2 DEF WalletInv, CallsTrue, Wallet!TypeOK
    <2>7. CallsTrue' BY <2>5, <2>6 DEF CallsTrue
    <2>. QED BY <2>2, <2>7, <1>1 DEF WalletInv
  <1>5. CASE Wallet!elapse(c)
    <2>1. paid' = paid /\ requests' = requests BY <1>5 DEF Wallet!elapse
    <2>. DEFINE new == [calls[c] EXCEPT !.pc = "done", !.result = "failed"]
    <2>2. calls[c] \in Wallet!Call BY <1>2 DEF Wallet!TypeOK
    <2>3. new \in Wallet!Call /\ new.result = "failed" BY <2>2 DEF Wallet!Call
    <2>4. calls' = [calls EXCEPT ![c] = new] BY <1>5, <1>2 DEF Wallet!TypeOK, Wallet!elapse
    <2>. HIDE DEF new
    <2>5. Wallet!TypeOK' BY <2>1, <2>3, <2>4, <1>2 DEF Wallet!TypeOK
    <2>6. calls'[c].result # "ok" /\ \A d \in Calls \ {c} : calls'[d] = calls[d]
      <3>1. calls'[c] = new BY <2>4, <1>2 DEF Wallet!TypeOK
      <3>. QED BY <3>1, <2>3, <2>4, <1>2 DEF Wallet!TypeOK
    <2>7. /\ calls'[c].client = calls[c].client /\ calls'[c].method = calls[c].method
          /\ calls'[c].invoice = calls[c].invoice /\ Sent(c)'
      <3>1. calls'[c] = new BY <2>4, <1>2 DEF Wallet!TypeOK
      <3>2. /\ new.client = calls[c].client /\ new.method = calls[c].method
            /\ new.invoice = calls[c].invoice /\ new.pc = "done"
        BY <2>2 DEF new, Wallet!Call
      <3>. QED BY <3>1, <3>2 DEF Sent
    <2>8. CallsTrue'
      <3>1. \A d \in requests' : Sent(d)' BY <2>1, <2>6, <2>7, <1>2 DEF WalletInv, CallsTrue, Sent, Wallet!TypeOK
      <3>2. ASSUME NEW b \in Calls PROVE PaidFor(b)'
        <4>1. CASE b = c BY <4>1, <2>6 DEF PaidFor
        <4>2. CASE b # c
          <5>1. calls'[b] = calls[b] BY <4>2, <2>6
          <5>2. ASSUME NEW d \in Calls, Paying(b, d) PROVE Paying(b, d)'
            BY <5>1, <5>2, <2>6, <2>7, <2>1 DEF Paying, Sent
          <5>. QED BY <5>1, <5>2 DEF WalletInv, CallsTrue, PaidFor
        <4>. QED BY <4>1, <4>2
      <3>. QED BY <3>1, <3>2 DEF CallsTrue
    <2>. QED BY <2>5, <2>8, <1>1 DEF WalletInv
  <1>. QED BY <1>3, <1>4, <1>5

LEMMA WalletStart == Wallet!Init => WalletInv
  <1>. SUFFICES ASSUME Wallet!Init PROVE WalletInv
    OBVIOUS
  <1>1. (CHOOSE i \in Invoices : TRUE) \in Invoices BY WalletAssumption
  <1>2. Wallet!TypeOK
    BY <1>1 DEF Wallet!Init, Wallet!TypeOK, Wallet!Setup, Wallet!Call, Wallet!Nothing
  <1>. QED
    BY <1>2 DEF WalletInv, Wallet!Init, Wallet!NoneLeftOpen, OldInHand, CallsTrue, PaidFor, Sent

LEMMA WalletNext == WalletInv /\ [Wallet!Next]_WalletVars => WalletInv'
  <1>. SUFFICES ASSUME WalletInv, [Wallet!Next]_WalletVars PROVE WalletInv'
    OBVIOUS
  <1>1. CASE Wallet!Next
    BY <1>1, ConnectKeeps, DisconnectKeeps, CallKeeps DEF Wallet!Next
  <1>2. CASE UNCHANGED WalletVars
    BY <1>2 DEF WalletVars, WalletInv, Wallet!TypeOK, Wallet!NoneLeftOpen, OldInHand,
                CallsTrue, PaidFor, Paying, Sent
  <1>. QED BY <1>1, <1>2

-----------------------------------------------------------------------------
(* What the node demands and quotes (NodeCaps).  Every slot, fetch, message *)
(* and quote has its fields; a slot holds one snapshot or none.             *)
Fetches == [pc : {"idle", "ask", "found", "none", "pow", "nopow", "version"},
            node : Nodes, got : Infos \cup {Caps!Absent}]
Wrapped == [pc : {"idle", "preflight", "pow", "version", "sent", "refused"},
            first : BOOLEAN, node : Nodes, pow : Nat]
Prices == [node : Nodes, until : Nat]
Quoted == [pc : {"idle", "ask", "read", "done"}, node : Nodes, at : Nat, got : SUBSET Prices]
CapsTypes ==
    /\ active \in Nodes /\ out \in [Nodes -> SUBSET Infos]
    /\ fetch \in [Tasks -> Fetches]
    /\ wrap \in [Wraps -> Wrapped] /\ quote \in [Quotes -> Quoted]
    /\ caps = {} \/ \E c \in [node : Nodes, info : Infos \cup {Caps!Absent}] : caps = {c}
    /\ advertised = {} \/ \E a \in [node : Nodes, version : {{}, {1}, {2}}] : advertised = {a}
    /\ rates = {} \/ \E r \in Prices : rates = {r}
    /\ caps_now \in 0 .. CapsMaxTime /\ moves \in 0 .. MaxMoves /\ missed \subseteq Nodes

(* A fetch carries an event its node published, or says there was none.     *)
FetchTrue == \A t \in Tasks :
    /\ fetch[t].pc \in {"found", "pow", "version"} => fetch[t].got \in out[fetch[t].node]
    /\ fetch[t].pc \in {"ask", "none", "nopow"} => fetch[t].got = Caps!Absent

(* So do the slots, and a message mined or checked by them.                 *)
SlotsTrue ==
    /\ \A c \in caps : c.info \in out[c.node] \/ c.node \in missed
    /\ \A a \in advertised : \E i \in out[a.node] : i.version = a.version

WrapTrue == \A w \in Wraps :
    wrap[w].pc \in {"version", "sent"} /\ wrap[w].first /\ wrap[w].node \notin missed
      => \E i \in out[wrap[w].node] : wrap[w].pow = Caps!resolve_first_contact(i)

CapsInv == CapsTypes /\ FetchTrue /\ SlotsTrue /\ WrapTrue /\ Caps!SentReadable /\ Caps!RateOfItsNode

LEMMA CapsMaxOfTwo == \A a, b \in Nat : Caps!Max({a, b}) = IF a >= b THEN a ELSE b
  BY DEF Caps!Max

(* A difficulty that was resolved or read is a number.                      *)
LEMMA PowIs ==
    /\ \A i \in Infos \cup {Caps!Absent} : i.pow \in Nat /\ Caps!resolve_first_contact(i) \in Nat
    /\ CapsTypes => Caps!get_pow \in Nat
  <1>1. ASSUME NEW i \in Infos \cup {Caps!Absent}
        PROVE  i.pow \in Nat /\ Caps!resolve_first_contact(i) \in Nat
    <2>1. i.pow \in Nat /\ (i.first = {} \/ \E p \in Nat : i.first = {p})
      BY <1>1, WalletAssumption DEF Caps!Absent
    <2>2. PICK b \in Nat : {i.pow} \cup i.first = {i.pow, b}
      BY <2>1
    <2>. QED BY <2>1, <2>2, CapsMaxOfTwo DEF Caps!resolve_first_contact
  <1>2. ASSUME CapsTypes PROVE Caps!get_pow \in Nat
    <2>1. CASE caps = {} BY <2>1 DEF Caps!get_pow
    <2>2. CASE caps # {}
      <3>1. \A c \in caps : c.info \in Infos \cup {Caps!Absent} BY <1>2 DEF CapsTypes
      <3>2. (CHOOSE c \in caps : TRUE) \in caps BY <2>2
      <3>. QED BY <2>2, <3>1, <3>2, <1>1 DEF Caps!get_pow
    <2>. QED BY <2>1, <2>2
  <1>. QED BY <1>1, <1>2

(* With what was published and missed growing only, what was said stays     *)
(* true; a step that leaves a part alone keeps it.                          *)
Grows == missed \subseteq missed' /\ \A n \in Nodes : out[n] \subseteq out'[n]

LEMMA CapsKept ==
    ASSUME CapsInv, CapsTypes', Grows
    PROVE  /\ fetch' = fetch => FetchTrue'
           /\ caps' = caps /\ advertised' = advertised => SlotsTrue'
           /\ wrap' = wrap => WrapTrue' /\ Caps!SentReadable'
           /\ quote' = quote => Caps!RateOfItsNode'
  <1>. USE DEF CapsInv, CapsTypes, Grows
  <1>1. fetch' = fetch => FetchTrue' BY DEF FetchTrue, Fetches
  <1>2. ASSUME caps' = caps, advertised' = advertised PROVE SlotsTrue'
    <2>1. \A c \in caps : c.node \in Nodes BY DEF CapsTypes
    <2>2. \A a \in advertised : a.node \in Nodes BY DEF CapsTypes
    <2>. QED BY <1>2, <2>1, <2>2 DEF SlotsTrue
  <1>3. ASSUME wrap' = wrap PROVE WrapTrue' /\ Caps!SentReadable'
    <2>1. \A w \in Wraps : wrap[w].node \in Nodes BY DEF CapsTypes, Wrapped
    <2>2. WrapTrue' BY <1>3, <2>1 DEF WrapTrue
    <2>3. Caps!SentReadable' BY <1>3, <2>1 DEF Caps!SentReadable
    <2>. QED BY <2>2, <2>3
  <1>4. quote' = quote => Caps!RateOfItsNode' BY DEF Caps!RateOfItsNode
  <1>. QED BY <1>1, <1>2, <1>3, <1>4

(* A switch, an Online and the steps of a fetch before anything is stored.  *)
LEMMA FetchMoves ==
    ASSUME CapsInv, NEW t \in Tasks, NEW v \in Fetches, fetch' = [fetch EXCEPT ![t] = v],
           v.pc \in {"found", "pow", "version"} => v.got \in out[v.node],
           v.pc \in {"ask", "none", "nopow"} => v.got = Caps!Absent,
           UNCHANGED <<out, caps, advertised, wrap, quote, rates, caps_now, missed>>,
           active' \in Nodes, moves' \in 0 .. MaxMoves
    PROVE  CapsInv'
  <1>1. CapsTypes' BY DEF CapsInv, CapsTypes
  <1>2. FetchTrue' BY DEF CapsInv, CapsTypes, FetchTrue
  <1>. QED BY <1>1, <1>2, CapsKept DEF CapsInv, Grows

LEMMA FetchKeeps ==
    ASSUME CapsInv, NEW t \in Tasks,
           \/ Caps!set_active_mostro_node(t) \/ Caps!on_pool_online(t)
           \/ Caps!fetch_mostro_instance_tags(t) \/ Caps!apply_node_capabilities(t)
    PROVE  CapsInv'
  <1>1. /\ fetch[t] \in Fetches /\ active \in Nodes /\ moves \in 0 .. MaxMoves
        /\ fetch[t].pc \in {"found", "pow", "version"} => fetch[t].got \in out[fetch[t].node]
        /\ fetch[t].pc \in {"ask", "none", "nopow"} => fetch[t].got = Caps!Absent
        /\ fetch = [s \in Tasks |-> fetch[s]] /\ out \in [Nodes -> SUBSET Infos] /\ MaxMoves \in Nat
    BY WalletAssumption DEF CapsInv, CapsTypes, FetchTrue
  <1>. Caps!Idle \in Fetches /\ Caps!Idle.pc = "idle" /\ Caps!Idle.got = Caps!Absent
    BY WalletAssumption DEF Caps!Idle, Fetches
  <1>2. CASE Caps!set_active_mostro_node(t)
    <2>1. PICK n \in Nodes : active' = n /\ fetch' = [fetch EXCEPT ![t] = [Caps!Idle EXCEPT !.pc = "ask", !.node = n]]
      BY <1>2 DEF Caps!set_active_mostro_node
    <2>. DEFINE v == [Caps!Idle EXCEPT !.pc = "ask", !.node = n]
    <2>2. v \in Fetches /\ v.pc = "ask" /\ v.got = Caps!Absent BY DEF Fetches
    <2>3. moves' \in 0 .. MaxMoves
      <3>1. moves < MaxMoves /\ moves' = moves + 1 BY <1>2 DEF Caps!set_active_mostro_node, Caps!Move
      <3>. QED BY <3>1, <1>1
    <2>4. UNCHANGED <<out, caps, advertised, wrap, quote, rates, caps_now, missed>>
      BY <1>2 DEF Caps!set_active_mostro_node, Caps!prices
    <2>5. fetch' = [fetch EXCEPT ![t] = v] BY <2>1
    <2>. HIDE DEF v
    <2>. QED BY <2>1, <2>2, <2>3, <2>4, <2>5, FetchMoves
  <1>3. CASE Caps!on_pool_online(t)
    <2>. DEFINE v == [Caps!Idle EXCEPT !.pc = "ask", !.node = active]
    <2>1. v \in Fetches /\ v.pc = "ask" /\ v.got = Caps!Absent BY <1>1 DEF Fetches
    <2>2. moves' \in 0 .. MaxMoves BY <1>3, <1>1 DEF Caps!on_pool_online, Caps!Move
    <2>3. UNCHANGED <<active, out, caps, advertised, wrap, quote, rates, caps_now, missed>>
      BY <1>3 DEF Caps!on_pool_online, Caps!prices
    <2>4. fetch' = [fetch EXCEPT ![t] = v] BY <1>3 DEF Caps!on_pool_online
    <2>. HIDE DEF v
    <2>. QED BY <1>1, <2>1, <2>2, <2>3, <2>4, FetchMoves
  <1>4. CASE Caps!fetch_mostro_instance_tags(t)
    <2>. UNCHANGED <<active, out, caps, advertised, wrap, quote, rates, caps_now, missed, moves>>
      BY <1>4 DEF Caps!fetch_mostro_instance_tags, Caps!world, Caps!prices
    <2>1. fetch[t].pc = "ask" BY <1>4 DEF Caps!fetch_mostro_instance_tags
    <2>2. ASSUME NEW i \in out[fetch[t].node], fetch' = [fetch EXCEPT ![t].pc = "found", ![t].got = i]
          PROVE  CapsInv'
      <3>. DEFINE v == [fetch[t] EXCEPT !.pc = "found", !.got = i]
      <3>1. fetch' = [fetch EXCEPT ![t] = v] BY <2>2, <1>1
      <3>2. v \in Fetches /\ v.got = i /\ v.node = fetch[t].node /\ v.pc = "found" BY <1>1 DEF Fetches
      <3>. HIDE DEF v
      <3>. QED BY <3>1, <3>2, <1>1, FetchMoves
    <2>3. ASSUME fetch' = [fetch EXCEPT ![t].pc = "none"] PROVE CapsInv'
      <3>. DEFINE v == [fetch[t] EXCEPT !.pc = "none"]
      <3>1. fetch' = [fetch EXCEPT ![t] = v] BY <2>3, <1>1
      <3>2. v \in Fetches /\ v.got = fetch[t].got /\ v.pc = "none" BY <1>1 DEF Fetches
      <3>. HIDE DEF v
      <3>. QED BY <3>1, <3>2, <2>1, <1>1, FetchMoves
    <2>4. ASSUME fetch' = [fetch EXCEPT ![t] = Caps!Idle] PROVE CapsInv'
      BY <2>4, <1>1, FetchMoves
    <2>. QED BY <1>4, <2>2, <2>3, <2>4 DEF Caps!fetch_mostro_instance_tags, Caps!newest_answer
  <1>5. CASE Caps!apply_node_capabilities(t)
    <2>. UNCHANGED <<active, out, caps, advertised, wrap, quote, rates, caps_now, missed, moves>>
      BY <1>5 DEF Caps!apply_node_capabilities, Caps!world, Caps!prices
    <2>1. CASE fetch[t].node # active
      BY <1>5, <2>1, <1>1, FetchMoves DEF Caps!apply_node_capabilities
    <2>2. CASE fetch[t].node = active
      <3>. DEFINE v == [fetch[t] EXCEPT !.pc = IF fetch[t].pc = "none" THEN "nopow" ELSE "pow"]
      <3>1. fetch' = [fetch EXCEPT ![t] = v] /\ fetch[t].pc \in {"found", "none"}
        BY <1>5, <2>2, <1>1 DEF Caps!apply_node_capabilities
      <3>2. /\ v \in Fetches /\ v.got = fetch[t].got /\ v.node = fetch[t].node
            /\ v.pc = IF fetch[t].pc = "none" THEN "nopow" ELSE "pow"
        BY <1>1 DEF Fetches
      <3>. HIDE DEF v
      <3>. QED BY <3>1, <3>2, <1>1, FetchMoves
    <2>. QED BY <2>1, <2>2
  <1>. QED BY <1>2, <1>3, <1>4, <1>5

LEMMA PublishKeeps == ASSUME CapsInv, NEW n \in Nodes, Caps!publish(n) PROVE CapsInv'
  <1>. UNCHANGED <<active, caps, advertised, fetch, wrap, quote, rates, caps_now, missed>>
    BY DEF Caps!publish, Caps!prices
  <1>1. PICK i \in Infos \ out[n] : out' = [out EXCEPT ![n] = @ \cup {i}]
    BY DEF Caps!publish
  <1>2. moves < MaxMoves /\ moves' = moves + 1 BY DEF Caps!publish, Caps!Move
  <1>3. moves' \in 0 .. MaxMoves BY <1>2, WalletAssumption DEF CapsInv, CapsTypes
  <1>4. out' \in [Nodes -> SUBSET Infos] /\ \A m \in Nodes : out[m] \subseteq out'[m]
    BY <1>1 DEF CapsInv, CapsTypes
  <1>5. CapsTypes' BY <1>3, <1>4 DEF CapsInv, CapsTypes
  <1>. QED BY <1>4, <1>5, CapsKept DEF CapsInv, Grows

(* Each slot takes the snapshot of the fetch that is at it.                 *)
LEMMA SetPowsKeeps == ASSUME CapsInv, NEW t \in Tasks, Caps!set_pows(t) PROVE CapsInv'
  <1>. UNCHANGED <<active, out, moves, advertised, wrap, quote, rates, caps_now>>
    BY DEF Caps!set_pows, Caps!world, Caps!prices
  <1>. DEFINE c == [node |-> fetch[t].node, info |-> fetch[t].got]
              v == [fetch[t] EXCEPT !.pc = "version"]
  <1>1. /\ fetch[t].pc \in {"pow", "nopow"} /\ caps' = {c}
        /\ \/ fetch[t].pc = "pow" /\ fetch' = [fetch EXCEPT ![t] = v] /\ missed' = missed
           \/ /\ fetch[t].pc = "nopow" /\ fetch' = [fetch EXCEPT ![t] = Caps!Idle]
              /\ missed' = missed \cup {fetch[t].node}
    BY DEF Caps!set_pows, CapsInv, CapsTypes
  <1>2. /\ fetch[t] \in Fetches /\ v \in Fetches /\ Caps!Idle \in Fetches
        /\ v.pc = "version" /\ v.node = fetch[t].node /\ v.got = fetch[t].got
        /\ Caps!Idle.pc = "idle"
        /\ fetch[t].pc = "pow" => fetch[t].got \in out[fetch[t].node]
    BY WalletAssumption DEF CapsInv, CapsTypes, FetchTrue, Fetches, Caps!Idle
  <1>3. c \in [node : Nodes, info : Infos \cup {Caps!Absent}] /\ c.node = fetch[t].node /\ c.info = fetch[t].got
    BY <1>2 DEF Fetches
  <1>. HIDE DEF c, v
  <1>4. missed \subseteq missed' /\ missed' \subseteq Nodes
    BY <1>1, <1>2 DEF CapsInv, CapsTypes, Fetches
  <1>5. CapsTypes'
    <2>1. fetch' \in [Tasks -> Fetches] BY <1>1, <1>2 DEF CapsInv, CapsTypes
    <2>. QED BY <2>1, <1>1, <1>3, <1>4 DEF CapsInv, CapsTypes
  <1>6. FetchTrue' BY <1>1, <1>2 DEF CapsInv, CapsTypes, FetchTrue
  <1>7. SlotsTrue' BY <1>1, <1>2, <1>3 DEF CapsInv, SlotsTrue
  <1>. QED BY <1>4, <1>5, <1>6, <1>7, CapsKept DEF CapsInv, Grows

LEMMA SetVersionKeeps == ASSUME CapsInv, NEW t \in Tasks, Caps!set_protocol_version(t) PROVE CapsInv'
  <1>. UNCHANGED <<active, out, moves, caps, wrap, quote, rates, caps_now, missed>>
    BY DEF Caps!set_protocol_version, Caps!world, Caps!prices
  <1>. DEFINE a == [node |-> fetch[t].node, version |-> fetch[t].got.version]
  <1>1. fetch[t].pc = "version" /\ advertised' = {a} /\ fetch' = [fetch EXCEPT ![t] = Caps!Idle]
    BY DEF Caps!set_protocol_version
  <1>2. /\ fetch[t] \in Fetches /\ Caps!Idle \in Fetches /\ Caps!Idle.pc = "idle"
        /\ fetch[t].got \in out[fetch[t].node] /\ out[fetch[t].node] \subseteq Infos
    BY <1>1, WalletAssumption DEF CapsInv, CapsTypes, FetchTrue, Fetches, Caps!Idle
  <1>3. a \in [node : Nodes, version : {{}, {1}, {2}}] /\ a.node = fetch[t].node
        /\ a.version = fetch[t].got.version
    BY <1>2, WalletAssumption DEF Fetches
  <1>. HIDE DEF a
  <1>4. CapsTypes' BY <1>1, <1>2, <1>3 DEF CapsInv, CapsTypes
  <1>5. FetchTrue' BY <1>1, <1>2 DEF CapsInv, CapsTypes, FetchTrue
  <1>6. SlotsTrue' BY <1>1, <1>2, <1>3 DEF CapsInv, SlotsTrue
  <1>. QED BY <1>4, <1>5, <1>6, CapsKept DEF CapsInv, Grows

(* A message: what it is mined by is of an event of its own node, and what  *)
(* lets it out is that node's word on the transport.                        *)
LEMMA WrapMoves ==
    ASSUME CapsInv, NEW w \in Wraps, NEW v \in Wrapped, wrap' = [wrap EXCEPT ![w] = v],
           v.pc \in {"version", "sent"} /\ v.first /\ v.node \notin missed
             => \E i \in out[v.node] : v.pow = Caps!resolve_first_contact(i),
           v.pc = "sent" => \E i \in out[v.node] : Caps!is_supported(i.version),
           UNCHANGED <<active, out, moves, caps, advertised, fetch, quote, rates, caps_now, missed>>
    PROVE  CapsInv'
  <1>1. CapsTypes' BY DEF CapsInv, CapsTypes
  <1>2. WrapTrue' BY DEF CapsInv, CapsTypes, WrapTrue
  <1>3. Caps!SentReadable' BY DEF CapsInv, CapsTypes, Caps!SentReadable
  <1>. QED BY <1>1, <1>2, <1>3, CapsKept DEF CapsInv, Grows

LEMMA WrapKeeps ==
    ASSUME CapsInv, NEW w \in Wraps,
           \/ Caps!start_wrap(w) \/ Caps!ensure_supported(w)
           \/ Caps!first_contact_pow_for(w) \/ Caps!CAPABILITY_WAIT(w)
    PROVE  CapsInv'
  <1>. UNCHANGED <<active, out, moves, caps, advertised, fetch, quote, rates, caps_now, missed>>
    BY DEF Caps!start_wrap, Caps!ensure_supported, Caps!first_contact_pow_for,
           Caps!CAPABILITY_WAIT, Caps!world, Caps!prices
  <1>1. /\ wrap[w] \in Wrapped /\ active \in Nodes /\ wrap = [x \in Wraps |-> wrap[x]]
        /\ wrap[w].pc = "version" /\ wrap[w].first /\ wrap[w].node \notin missed
             => \E i \in out[wrap[w].node] : wrap[w].pow = Caps!resolve_first_contact(i)
    BY DEF CapsInv, CapsTypes, WrapTrue
  <1>2. Caps!Refused \in Wrapped /\ Caps!Refused.pc = "refused"
    BY WalletAssumption DEF Caps!Refused, Caps!NoWrap, Wrapped
  <1>3. CASE Caps!start_wrap(w)
    <2>. DEFINE new(p, f, n) == [pc |-> p, first |-> f, node |-> active, pow |-> n]
    <2>1. \/ wrap' = [wrap EXCEPT ![w] = new("preflight", TRUE, 0)]
          \/ wrap' = [wrap EXCEPT ![w] = new("pow", TRUE, 0)]
          \/ wrap' = [wrap EXCEPT ![w] = new("version", FALSE, Caps!get_pow)]
      BY <1>3 DEF Caps!start_wrap
    <2>2. Caps!get_pow \in Nat BY PowIs DEF CapsInv
    <2>3. /\ new("preflight", TRUE, 0) \in Wrapped /\ new("pow", TRUE, 0) \in Wrapped
          /\ new("version", FALSE, Caps!get_pow) \in Wrapped
          /\ new("preflight", TRUE, 0).pc = "preflight" /\ new("pow", TRUE, 0).pc = "pow"
          /\ new("version", FALSE, Caps!get_pow).pc = "version" /\ ~new("version", FALSE, Caps!get_pow).first
      BY <1>1, <2>2 DEF Wrapped
    <2>. HIDE DEF new
    <2>. QED BY <2>1, <2>3, WrapMoves
  <1>4. CASE Caps!ensure_supported(w)
    <2>1. PICK v \in Caps!Verdicts(wrap[w].node) :
            wrap' = IF ~Caps!is_supported(v) THEN [wrap EXCEPT ![w] = Caps!Refused]
                    ELSE IF wrap[w].pc = "version" THEN [wrap EXCEPT ![w].pc = "sent"]
                    ELSE [wrap EXCEPT ![w].pc = "pow", ![w].node = active]
      BY <1>4 DEF Caps!ensure_supported
    <2>2. \E i \in out[wrap[w].node] : i.version = v
      BY DEF Caps!Verdicts, CapsInv, SlotsTrue
    <2>3. CASE ~Caps!is_supported(v) BY <2>1, <2>3, <1>2, WrapMoves
    <2>4. CASE Caps!is_supported(v) /\ wrap[w].pc = "version"
      <3>. DEFINE new == [wrap[w] EXCEPT !.pc = "sent"]
      <3>1. wrap' = [wrap EXCEPT ![w] = new] BY <2>1, <2>4, <1>1
      <3>2. /\ new \in Wrapped /\ new.pc = "sent" /\ new.node = wrap[w].node
            /\ new.first = wrap[w].first /\ new.pow = wrap[w].pow
        BY <1>1 DEF Wrapped
      <3>. HIDE DEF new
      <3>. QED BY <3>1, <3>2, <2>2, <2>4, <1>1, WrapMoves
    <2>5. CASE Caps!is_supported(v) /\ wrap[w].pc # "version"
      <3>. DEFINE new == [wrap[w] EXCEPT !.pc = "pow", !.node = active]
      <3>1. wrap' = [wrap EXCEPT ![w] = new] BY <2>1, <2>5, <1>1
      <3>2. new \in Wrapped /\ new.pc = "pow" BY <1>1 DEF Wrapped
      <3>. HIDE DEF new
      <3>. QED BY <3>1, <3>2, WrapMoves
    <2>. QED BY <2>3, <2>4, <2>5
  <1>5. CASE Caps!first_contact_pow_for(w)
    <2>1. PICK c \in caps : /\ c.node = wrap[w].node
              /\ wrap' = [wrap EXCEPT ![w].pc = "version", ![w].pow = Caps!resolve_first_contact(c.info)]
      BY <1>5 DEF Caps!first_contact_pow_for
    <2>. DEFINE new == [wrap[w] EXCEPT !.pc = "version", !.pow = Caps!resolve_first_contact(c.info)]
    <2>2. c.info \in Infos \cup {Caps!Absent} /\ (c.info \in out[c.node] \/ c.node \in missed)
      BY DEF CapsInv, CapsTypes, SlotsTrue
    <2>3. wrap' = [wrap EXCEPT ![w] = new] BY <2>1, <1>1
    <2>4. /\ new \in Wrapped /\ new.pc = "version" /\ new.node = c.node
          /\ new.pow = Caps!resolve_first_contact(c.info)
      BY <1>1, <2>1, <2>2, PowIs DEF Wrapped
    <2>. HIDE DEF new
    <2>. QED BY <2>2, <2>3, <2>4, WrapMoves
  <1>6. CASE Caps!CAPABILITY_WAIT(w)
    BY <1>6, <1>2, WrapMoves DEF Caps!CAPABILITY_WAIT
  <1>. QED BY <1>3, <1>4, <1>5, <1>6

(* A price: what is served is of the node asked for, still valid then.      *)
LEMMA QuoteMoves ==
    ASSUME CapsInv, NEW q \in Quotes, NEW v \in Quoted, quote' = [quote EXCEPT ![q] = v],
           \A r \in v.got : r.node = v.node /\ v.at < r.until,
           rates' = {} \/ \E r \in Prices : rates' = {r},
           UNCHANGED <<active, out, moves, caps, advertised, fetch, wrap, caps_now, missed>>
    PROVE  CapsInv'
  <1>1. CapsTypes' BY DEF CapsInv, CapsTypes
  <1>2. Caps!RateOfItsNode' BY DEF CapsInv, CapsTypes, Caps!RateOfItsNode
  <1>. QED BY <1>1, <1>2, CapsKept DEF CapsInv, Grows

LEMMA CachedIs ==
    ASSUME CapsTypes, NEW n \in Nodes, NEW at \in Nat
    PROVE  /\ Caps!cached_rate(n, at) \in SUBSET Prices
           /\ \A r \in Caps!cached_rate(n, at) : r.node = n /\ at < r.until
  BY DEF CapsTypes, Caps!cached_rate

LEMMA QuoteKeeps ==
    ASSUME CapsInv, NEW q \in Quotes,
           Caps!fetch_exchange_rate(q) \/ Caps!store_rates(q) \/ Caps!read_rates(q)
    PROVE  CapsInv'
  <1>. UNCHANGED <<active, out, moves, caps, advertised, fetch, wrap, caps_now, missed>>
    BY DEF Caps!fetch_exchange_rate, Caps!store_rates, Caps!read_rates, Caps!world
  <1>1. /\ quote[q] \in Quoted /\ quote = [x \in Quotes |-> quote[x]] /\ caps_now \in Nat
        /\ \A r \in quote[q].got : r.node = quote[q].node /\ quote[q].at < r.until
        /\ CapsTypes /\ (rates = {} \/ \E r \in Prices : rates = {r})
    BY DEF CapsInv, CapsTypes, Caps!RateOfItsNode
  <1>2. CASE Caps!fetch_exchange_rate(q)
    <2>1. PICK n \in Nodes : quote' = [quote EXCEPT ![q] =
             [pc |-> IF Caps!cached_rate(n, caps_now) = {} THEN "ask" ELSE "done",
              node |-> n, at |-> caps_now, got |-> Caps!cached_rate(n, caps_now)]]
      BY <1>2 DEF Caps!fetch_exchange_rate
    <2>. DEFINE new == [pc |-> IF Caps!cached_rate(n, caps_now) = {} THEN "ask" ELSE "done",
                        node |-> n, at |-> caps_now, got |-> Caps!cached_rate(n, caps_now)]
    <2>2. new \in Quoted /\ new.node = n /\ new.at = caps_now /\ new.got = Caps!cached_rate(n, caps_now)
      BY <1>1, CachedIs DEF Quoted
    <2>3. quote' = [quote EXCEPT ![q] = new] /\ rates' = rates
      BY <2>1, <1>2 DEF Caps!fetch_exchange_rate
    <2>. HIDE DEF new
    <2>. QED BY <2>2, <2>3, <1>1, CachedIs, QuoteMoves
  <1>3. CASE Caps!store_rates(q)
    <2>. DEFINE new(p) == [quote[q] EXCEPT !.pc = p]
    <2>1. PICK p \in {"read", "done"} : quote' = [quote EXCEPT ![q] = new(p)]
      BY <1>1, <1>3 DEF Caps!store_rates
    <2>2. /\ new(p) \in Quoted /\ new(p).got = quote[q].got
          /\ new(p).node = quote[q].node /\ new(p).at = quote[q].at
      BY <1>1 DEF Quoted
    <2>3. rates' = {} \/ \E r \in Prices : rates' = {r}
      <3>1. CASE rates' = {} \/ rates' = rates BY <3>1, <1>1
      <3>2. ASSUME NEW until \in quote[q].at + 1 .. caps_now + Lifetime,
                   rates' = {[node |-> quote[q].node, until |-> until]}
            PROVE  \E r \in Prices : rates' = {r}
        <4>1. until \in Nat /\ quote[q].node \in Nodes
          BY <1>1, WalletAssumption DEF Quoted
        <4>. QED BY <3>2, <4>1 DEF Prices
      <3>. QED BY <1>3, <3>1, <3>2 DEF Caps!store_rates
    <2>. HIDE DEF new
    <2>. QED BY <2>1, <2>2, <2>3, <1>1, QuoteMoves
  <1>4. CASE Caps!read_rates(q)
    <2>. DEFINE got == Caps!cached_rate(quote[q].node, quote[q].at)
                new == [quote[q] EXCEPT !.pc = "done", !.got = got]
    <2>1. got \in SUBSET Prices /\ \A r \in got : r.node = quote[q].node /\ quote[q].at < r.until
      BY <1>1, CachedIs DEF Quoted
    <2>2. quote' = [quote EXCEPT ![q] = new] /\ rates' = rates
      BY <1>1, <1>4 DEF Caps!read_rates
    <2>. HIDE DEF got
    <2>3. new \in Quoted /\ new.got = got /\ new.node = quote[q].node /\ new.at = quote[q].at
      BY <1>1, <2>1 DEF Quoted
    <2>. HIDE DEF new
    <2>. QED BY <2>1, <2>2, <2>3, <1>1, QuoteMoves
  <1>. QED BY <1>2, <1>3, <1>4

LEMMA ElapseKeeps == CapsInv /\ Caps!tick => CapsInv'
  <1>. SUFFICES ASSUME CapsInv, Caps!tick PROVE CapsInv'
    OBVIOUS
  <1>1. /\ UNCHANGED <<active, out, moves, caps, advertised, fetch, wrap, quote, rates, missed>>
        /\ caps_now < CapsMaxTime /\ caps_now' = caps_now + 1
    BY DEF Caps!tick, Caps!world
  <1>2. caps_now' \in 0 .. CapsMaxTime BY <1>1, WalletAssumption DEF CapsInv, CapsTypes
  <1>3. CapsTypes' BY <1>1, <1>2 DEF CapsInv, CapsTypes
  <1>. QED BY <1>1, <1>3, CapsKept DEF CapsInv, Grows

LEMMA CapsStart == Caps!Init => CapsInv
  <1>. SUFFICES ASSUME Caps!Init PROVE CapsInv
    OBVIOUS
  <1>1. /\ Caps!Idle \in Fetches /\ Caps!Idle.pc = "idle"
        /\ Caps!NoWrap \in Wrapped /\ Caps!NoWrap.pc = "idle"
        /\ Caps!NoQuote \in Quoted /\ Caps!NoQuote.got = {}
    BY WalletAssumption DEF Caps!Idle, Caps!NoWrap, Caps!NoQuote, Fetches, Wrapped, Quoted
  <1>2. out \in [Nodes -> SUBSET Infos]
    BY DEF Caps!Init
  <1>3. CapsTypes BY <1>1, <1>2, WalletAssumption DEF Caps!Init, CapsTypes
  <1>4. FetchTrue /\ WrapTrue /\ Caps!SentReadable /\ Caps!RateOfItsNode
    BY <1>1 DEF Caps!Init, FetchTrue, WrapTrue, Caps!SentReadable, Caps!RateOfItsNode
  <1>5. SlotsTrue BY DEF Caps!Init, SlotsTrue
  <1>. QED BY <1>3, <1>4, <1>5 DEF CapsInv

LEMMA CapsNext == CapsInv /\ [Caps!Next]_CapsVars => CapsInv'
  <1>. SUFFICES ASSUME CapsInv, [Caps!Next]_CapsVars PROVE CapsInv'
    OBVIOUS
  <1>1. CASE Caps!Next
    BY <1>1, PublishKeeps, FetchKeeps, SetPowsKeeps, SetVersionKeeps, WrapKeeps, QuoteKeeps, ElapseKeeps
       DEF Caps!Next
  <1>2. CASE UNCHANGED CapsVars
    <2>. UNCHANGED <<active, out, caps, advertised, fetch, wrap, quote, rates, caps_now, moves, missed>>
      BY <1>2 DEF CapsVars
    <2>1. CapsTypes' BY DEF CapsInv, CapsTypes
    <2>. QED BY <2>1, CapsKept DEF CapsInv, Grows
  <1>. QED BY <1>1, <1>2

LEMMA CapsCardinality == \A S : Caps!Cardinality(S) = Cardinality(S)
  BY DEF Caps!Cardinality, Cardinality

(* What the run checks of it.                                               *)
LEMMA CapsSound == CapsInv => Caps!TypeOK /\ Caps!MinedEnough /\ Caps!SentReadable /\ Caps!RateOfItsNode
  <1>. SUFFICES ASSUME CapsInv PROVE Caps!TypeOK /\ Caps!MinedEnough
    BY DEF CapsInv
  <1>1. Caps!TypeOK
    <2>. USE DEF CapsInv, CapsTypes
    <2>1. /\ Caps!Cardinality(caps) <= 1 /\ Caps!Cardinality(advertised) <= 1
          /\ Caps!Cardinality(rates) <= 1
      <3>1. ASSUME NEW S, S = {} \/ \E x : S = {x} PROVE Caps!Cardinality(S) <= 1
        <4>1. Cardinality(S) \in {0, 1} BY <3>1, FS_EmptySet, FS_Singleton
        <4>. QED BY <4>1, CapsCardinality
      <3>2. caps = {} \/ \E x : caps = {x} OBVIOUS
      <3>3. advertised = {} \/ \E x : advertised = {x} OBVIOUS
      <3>4. rates = {} \/ \E x : rates = {x} OBVIOUS
      <3>. QED BY <3>1, <3>2, <3>3, <3>4
    <2>2. /\ \A c \in caps : c.node \in Nodes /\ c.info \in Infos \cup {Caps!Absent}
          /\ \A a \in advertised : a.node \in Nodes /\ a.version \in {{}, {1}, {2}}
      OBVIOUS
    <2>3. \A t \in Tasks : fetch[t] \in Fetches OBVIOUS
    <2>4. \A w \in Wraps : wrap[w] \in Wrapped OBVIOUS
    <2>5. \A q \in Quotes : quote[q] \in Quoted OBVIOUS
    <2>6. \A t \in Tasks : /\ fetch[t].pc \in {"idle", "ask", "found", "none", "pow", "nopow", "version"}
                          /\ fetch[t].node \in Nodes /\ fetch[t].got \in Infos \cup {Caps!Absent}
      BY <2>3 DEF Fetches
    <2>7. \A w \in Wraps : /\ wrap[w].pc \in {"idle", "preflight", "pow", "version", "sent", "refused"}
                          /\ wrap[w].first \in BOOLEAN /\ wrap[w].node \in Nodes /\ wrap[w].pow \in Nat
      BY <2>4 DEF Wrapped
    <2>8. \A q \in Quotes : quote[q].pc \in {"idle", "ask", "read", "done"} /\ quote[q].node \in Nodes
      BY <2>5 DEF Quoted
    <2>. QED BY <2>1, <2>2, <2>6, <2>7, <2>8 DEF Caps!TypeOK
  <1>2. ASSUME NEW w \in Wraps, wrap[w].pc = "sent", wrap[w].first, wrap[w].node \notin missed
        PROVE  \E i \in out[wrap[w].node] : wrap[w].pow >= Caps!resolve_first_contact(i)
    <2>1. PICK i \in out[wrap[w].node] : wrap[w].pow = Caps!resolve_first_contact(i)
      BY <1>2 DEF CapsInv, WrapTrue
    <2>2. wrap[w].pow \in Nat BY DEF CapsInv, CapsTypes, Wrapped
    <2>. QED BY <2>1, <2>2
  <1>. QED BY <1>1, <1>2 DEF Caps!MinedEnough

-----------------------------------------------------------------------------
(* Who settles by Cashu (EscrowMode).                                       *)
TagTypes == [node : Nodes, said : Says \cup {"unset"}]
Stages == [pc : {"idle", "clear", "wake", "ask", "answer", "store", "told"},
           node : Nodes, got : Says \cup {"unset"}]
Sets == [pc : {"idle", "persist", "update", "wake"}, field : {"force", "mint"}, o : Escrow!Overrides]
Screens == [pc : {"away", "tags", "over", "again"}, tags : TagTypes, over : Escrow!Overrides]
EscrowTypes ==
    /\ escrow_active \in Nodes /\ tags \in TagTypes
    /\ overrides \in Escrow!Overrides /\ saved \in Escrow!Overrides
    /\ task \in [Tasks -> Stages] /\ setter \in [Setters -> Sets] /\ screen \in Screens
    /\ woken \in BOOLEAN /\ crossed \in BOOLEAN /\ doubled \subseteq {"force", "mint"}
    /\ escrow_shown.over \in Escrow!Overrides
    /\ escrow_shown.mode \in {"unknown", "lightning", "cashu"}
    /\ escrow_moves \in 0 .. MaxMoves

(* What is stored of a node is of the one in use until a switch, which      *)
(* clears it; only a store that looked before the switch brings it back.    *)
OwnTags == \/ tags.said = "unset" \/ tags.node = escrow_active
           \/ Escrow!Switching \/ crossed
OwnStore == \A t \in Tasks : task[t].pc = "store" => task[t].node = escrow_active \/ crossed

(* A snapshot under way, with no change told or to be told, is of what      *)
(* resolves now as far as it has been read.                                 *)
Untold == \/ woken
          \/ \E t \in Tasks : task[t].pc \in {"wake", "told"}
          \/ \E s \in Setters : setter[s].pc = "wake"
ReadTrue ==
    Untold \/ /\ screen.pc = "away" => escrow_shown = Escrow!Snapshot(tags, overrides, overrides)
              /\ screen.pc \in {"over", "again"} => Escrow!Content(screen.tags) = Escrow!Content(tags)
              /\ screen.pc = "again" => screen.over = overrides

(* Of a field two calls never set at once: one call sets it, its row is     *)
(* what the call wrote, and outside the call memory is the row.             *)
Setting(f, pcs) == {s \in Setters : setter[s].pc \in pcs /\ setter[s].field = f}
SettersApart == \A f \in {"force", "mint"} \ doubled :
    /\ \A r, s \in Setting(f, {"persist", "update"}) : r = s
    /\ Setting(f, {"update"}) = {} => overrides[f] = saved[f]
    /\ \A s \in Setting(f, {"update"}) : saved[f] = setter[s].o[f]

EscrowInv == EscrowTypes /\ OwnTags /\ OwnStore /\ ReadTrue /\ SettersApart

(* The overrides are two fields, set one at a time.                         *)
LEMMA WithSets ==
    ASSUME NEW o \in Escrow!Overrides, NEW new \in Escrow!Overrides, NEW f \in {"force", "mint"}
    PROVE  /\ Escrow!With(o, f, new) \in Escrow!Overrides
           /\ Escrow!With(o, f, new)[f] = new[f]
           /\ \A g \in {"force", "mint"} \ {f} : Escrow!With(o, f, new)[g] = o[g]
  BY DEF Escrow!With, Escrow!Overrides

(* What resolves is settled by what was said, with the mint, and by the     *)
(* overrides.                                                               *)
LEMMA SnapshotOf ==
    ASSUME NEW t \in TagTypes, NEW u \in TagTypes, NEW o \in Escrow!Overrides, NEW p \in Escrow!Overrides,
           Escrow!Content(t) = Escrow!Content(u)
    PROVE  Escrow!Snapshot(t, o, p) = Escrow!Snapshot(u, o, p)
  <1>1. t.said = u.said /\ (t.said = "cashu@mint" => t.node = u.node)
    BY DEF Escrow!Content
  <1>2. Escrow!Mode(t) = Escrow!Mode(u) BY <1>1 DEF Escrow!Mode
  <1>3. Escrow!resolve(t, o) = Escrow!resolve(u, o) BY <1>1, <1>2 DEF Escrow!resolve
  <1>. QED BY <1>3 DEF Escrow!Snapshot

LEMMA SnapshotTypes ==
    ASSUME NEW t, NEW o, NEW p \in Escrow!Overrides
    PROVE  /\ Escrow!Snapshot(t, o, p).over = p
           /\ Escrow!Snapshot(t, o, p).mode \in {"unknown", "lightning", "cashu"}
  <1>1. Escrow!Mode(t) \in {"unknown", "lightning", "cashu"} BY DEF Escrow!Mode
  <1>2. Escrow!resolve(t, o).mode \in {"unknown", "lightning", "cashu"} BY <1>1 DEF Escrow!resolve
  <1>. QED BY <1>2 DEF Escrow!Snapshot

LEMMA StartsOf ==
    /\ Escrow!None \in TagTypes /\ Escrow!None.said = "unset" /\ Escrow!Auto \in Escrow!Overrides
    /\ Escrow!Away \in Screens /\ Escrow!Away.pc = "away"
    /\ Escrow!NoTask \in Stages /\ Escrow!NoTask.pc = "idle"
    /\ Escrow!NoSetter \in Sets /\ Escrow!NoSetter.pc = "idle"
  <1>1. Escrow!None \in TagTypes /\ Escrow!None.said = "unset" /\ Escrow!Auto \in Escrow!Overrides
    BY WalletAssumption DEF Escrow!None, TagTypes, Escrow!Auto, Escrow!Overrides
  <1>. QED
    BY <1>1, WalletAssumption DEF Escrow!Away, Screens, Escrow!NoTask, Stages, Escrow!NoSetter, Sets

(* Nothing read goes stale untold: a change of what was said leaves its     *)
(* task about to tell.                                                      *)
LEMMA ReadKept ==
    ASSUME EscrowInv, tags' \in TagTypes, UNCHANGED <<overrides, screen, escrow_shown>>,
           ~Untold' => ~Untold /\ Escrow!Content(tags') = Escrow!Content(tags)
    PROVE  ReadTrue'
  <1>. SUFFICES ASSUME ~Untold' PROVE ReadTrue'
    BY DEF ReadTrue
  <1>1. tags \in TagTypes /\ overrides \in Escrow!Overrides BY DEF EscrowInv, EscrowTypes
  <1>2. Escrow!Snapshot(tags', overrides, overrides) = Escrow!Snapshot(tags, overrides, overrides)
    BY <1>1, SnapshotOf
  <1>. QED BY <1>2 DEF EscrowInv, ReadTrue

(* A step of a switch, an Online or a fetch, but for the telling.           *)
LEMMA StageMoves ==
    ASSUME EscrowInv, NEW t \in Tasks, NEW v \in Stages, task' = [task EXCEPT ![t] = v],
           task[t].pc \notin {"wake", "told"},
           tags' \in TagTypes, escrow_active' \in Nodes, escrow_moves' \in 0 .. MaxMoves,
           crossed' \in BOOLEAN,
           UNCHANGED <<overrides, saved, setter, doubled, woken, screen, escrow_shown>>,
           Escrow!Content(tags') # Escrow!Content(tags) => v.pc \in {"wake", "told"},
           OwnTags', OwnStore'
    PROVE  EscrowInv'
  <1>1. EscrowTypes' BY DEF EscrowInv, EscrowTypes
  <1>2. ~Untold' => ~Untold /\ Escrow!Content(tags') = Escrow!Content(tags)
    <2>1. task'[t] = v /\ \A u \in Tasks \ {t} : task'[u] = task[u] BY DEF EscrowInv, EscrowTypes
    <2>. QED BY <2>1 DEF Untold
  <1>3. SettersApart' BY DEF EscrowInv, SettersApart, Setting
  <1>. QED BY <1>1, <1>2, <1>3, ReadKept DEF EscrowInv

LEMMA StageKeeps ==
    ASSUME EscrowInv, NEW t \in Tasks,
           \/ Escrow!set_active_mostro_node(t) \/ Escrow!clear(t) \/ Escrow!on_pool_online(t)
           \/ Escrow!fetch_and_set_node_capabilities(t) \/ Escrow!apply_node_capabilities(t)
           \/ Escrow!set_from_tags(t)
    PROVE  EscrowInv'
  <1>1. /\ task \in [Tasks -> Stages] /\ tags \in TagTypes /\ escrow_active \in Nodes
        /\ escrow_moves \in 0 .. MaxMoves /\ crossed \in BOOLEAN /\ OwnTags /\ OwnStore
        /\ MaxMoves \in Nat
    BY WalletAssumption DEF EscrowInv, EscrowTypes
  <1>2. /\ task[t] \in Stages /\ task = [u \in Tasks |-> task[u]]
        /\ \A v : [task EXCEPT ![t] = v][t] = v
        /\ \A v : \A u \in Tasks \ {t} : [task EXCEPT ![t] = v][u] = task[u]
    BY <1>1
  <1>. UNCHANGED <<overrides, saved, setter, doubled, woken, screen, escrow_shown>>
    BY DEF Escrow!set_active_mostro_node, Escrow!clear, Escrow!on_pool_online, Escrow!prefs,
           Escrow!fetch_and_set_node_capabilities, Escrow!apply_node_capabilities,
           Escrow!set_from_tags, Escrow!view
  <1>3. CASE Escrow!set_active_mostro_node(t)
    <2>. DEFINE v == [Escrow!NoTask EXCEPT !.pc = "clear"]
    <2>1. v \in Stages /\ v.pc = "clear" BY StartsOf DEF Stages
    <2>2. /\ task[t].pc = "idle" /\ escrow_active' \in Nodes /\ task' = [task EXCEPT ![t] = v]
          /\ tags' = tags /\ crossed' = (crossed \/ \E u \in Tasks : task[u].pc = "store")
          /\ escrow_moves < MaxMoves /\ escrow_moves' = escrow_moves + 1
      BY <1>3 DEF Escrow!set_active_mostro_node, Escrow!Move
    <2>3. escrow_moves' \in 0 .. MaxMoves BY <2>2, <1>1
    <2>. HIDE DEF v
    <2>4. task'[t].pc = "clear" /\ \A u \in Tasks \ {t} : task'[u] = task[u]
      BY <2>1, <2>2, <1>2
    <2>5. OwnTags' BY <2>4 DEF OwnTags, Escrow!Switching
    <2>6. OwnStore' BY <2>2, <2>4, <1>1 DEF OwnStore
    <2>7. crossed' \in BOOLEAN BY <2>2
    <2>. QED BY <2>1, <2>2, <2>3, <2>5, <2>6, <2>7, <1>1, StageMoves
  <1>4. CASE Escrow!clear(t)
    <2>1. PICK v \in {[Escrow!NoTask EXCEPT !.pc = "wake"], [Escrow!NoTask EXCEPT !.pc = "ask"]} :
            /\ task' = [task EXCEPT ![t] = v] /\ tags' = Escrow!None
            /\ Escrow!Content(tags') # Escrow!Content(tags) => v = [Escrow!NoTask EXCEPT !.pc = "wake"]
      BY <1>4 DEF Escrow!clear, Escrow!Put
    <2>2. /\ v \in Stages /\ v.pc \in {"wake", "ask"}
          /\ Escrow!Content(tags') # Escrow!Content(tags) => v.pc = "wake"
      BY <2>1, StartsOf DEF Stages
    <2>3. UNCHANGED <<escrow_active, escrow_moves, crossed>> /\ task[t].pc = "clear"
      BY <1>4 DEF Escrow!clear
    <2>4. OwnTags'
      <3>1. tags'.said = "unset" BY <2>1, StartsOf
      <3>. QED BY <3>1 DEF OwnTags
    <2>5. OwnStore' BY <2>1, <2>2, <2>3, <1>1, <1>2 DEF OwnStore
    <2>. QED BY <2>1, <2>2, <2>3, <2>4, <2>5, <1>1, StartsOf, StageMoves
  <1>5. ASSUME NEW v \in Stages, task' = [task EXCEPT ![t] = v], v.pc \notin {"clear", "wake", "told"},
               task[t].pc \notin {"clear", "wake", "told"}, v.pc = "store" => v.node = escrow_active,
               UNCHANGED <<tags, escrow_active, crossed>>, escrow_moves' \in 0 .. MaxMoves
        PROVE  EscrowInv'
    <2>1. OwnTags'
      <3>1. Escrow!Switching' <=> Escrow!Switching BY <1>5, <1>2 DEF Escrow!Switching
      <3>. QED BY <3>1, <1>5, <1>1 DEF OwnTags
    <2>2. OwnStore' BY <1>5, <1>1, <1>2 DEF OwnStore
    <2>. QED BY <2>1, <2>2, <1>5, <1>1, StageMoves
  <1>6. CASE Escrow!on_pool_online(t)
    <2>. DEFINE v == [Escrow!NoTask EXCEPT !.pc = "ask"]
    <2>1. v \in Stages /\ v.pc = "ask" BY StartsOf DEF Stages
    <2>2. /\ task[t].pc = "idle" /\ task' = [task EXCEPT ![t] = v]
          /\ UNCHANGED <<tags, escrow_active, crossed>>
          /\ escrow_moves < MaxMoves /\ escrow_moves' = escrow_moves + 1
      BY <1>6 DEF Escrow!on_pool_online, Escrow!Move
    <2>3. escrow_moves' \in 0 .. MaxMoves BY <2>2, <1>1
    <2>. HIDE DEF v
    <2>. QED BY <2>1, <2>2, <2>3, <1>5
  <1>7. CASE Escrow!fetch_and_set_node_capabilities(t)
    <2>. DEFINE v == [task[t] EXCEPT !.pc = "answer", !.node = escrow_active]
    <2>1. v \in Stages /\ v.pc = "answer" BY <1>1, <1>2 DEF Stages
    <2>2. /\ task[t].pc = "ask" /\ task' = [task EXCEPT ![t] = v]
          /\ UNCHANGED <<tags, escrow_active, crossed, escrow_moves>>
      BY <1>7, <1>2 DEF Escrow!fetch_and_set_node_capabilities
    <2>. HIDE DEF v
    <2>. QED BY <2>1, <2>2, <1>5, <1>1
  <1>8. CASE Escrow!apply_node_capabilities(t)
    <2>1. task[t].pc = "answer" /\ UNCHANGED <<tags, escrow_active, crossed, escrow_moves>>
      BY <1>8 DEF Escrow!apply_node_capabilities
    <2>2. CASE task[t].node # escrow_active
      BY <1>8, <2>1, <2>2, <1>5, <1>1, StartsOf DEF Escrow!apply_node_capabilities
    <2>3. CASE task[t].node = escrow_active
      <3>1. PICK got \in Says \cup {"unset"} :
              task' = [task EXCEPT ![t].pc = "store", ![t].got = got]
        BY <1>8, <2>3 DEF Escrow!apply_node_capabilities
      <3>. DEFINE v == [task[t] EXCEPT !.pc = "store", !.got = got]
      <3>2. v \in Stages /\ v.pc = "store" /\ v.node = escrow_active BY <1>2, <2>3 DEF Stages
      <3>3. task' = [task EXCEPT ![t] = v] BY <3>1, <1>2
      <3>. HIDE DEF v
      <3>. QED BY <3>2, <3>3, <2>1, <1>5, <1>1
    <2>. QED BY <2>2, <2>3
  <1>9. CASE Escrow!set_from_tags(t)
    <2>. DEFINE new == IF task[t].got = "unset" THEN Escrow!None
                       ELSE [node |-> task[t].node, said |-> task[t].got]
    <2>1. PICK v \in {[Escrow!NoTask EXCEPT !.pc = "told"], Escrow!NoTask} :
            /\ task' = [task EXCEPT ![t] = v] /\ tags' = new
            /\ Escrow!Content(tags') # Escrow!Content(tags) => v = [Escrow!NoTask EXCEPT !.pc = "told"]
      BY <1>9 DEF Escrow!set_from_tags, Escrow!Put
    <2>2. /\ v \in Stages /\ v.pc \in {"told", "idle"}
          /\ Escrow!Content(tags') # Escrow!Content(tags) => v.pc = "told"
      BY <2>1, StartsOf DEF Stages
    <2>3. UNCHANGED <<escrow_active, escrow_moves, crossed>> /\ task[t].pc = "store"
      BY <1>9 DEF Escrow!set_from_tags
    <2>4. tags' \in TagTypes /\ (tags'.said = "unset" \/ tags'.node = task[t].node)
      BY <2>1, <1>2, StartsOf DEF Stages, TagTypes
    <2>5. OwnTags' BY <2>3, <2>4, <1>1 DEF OwnTags, OwnStore
    <2>6. OwnStore' BY <2>1, <2>2, <2>3, <1>1, <1>2 DEF OwnStore
    <2>. HIDE DEF new
    <2>. QED BY <2>1, <2>2, <2>3, <2>4, <2>5, <2>6, <1>1, StageMoves
  <1>. QED BY <1>3, <1>4, <1>6, <1>7, <1>8, <1>9

(* Telling the screen, and the screen's reading.                            *)
LEMMA NotifyKeeps == ASSUME EscrowInv, NEW t \in Tasks, Escrow!notify(t) PROVE EscrowInv'
  <1>. UNCHANGED <<escrow_active, tags, overrides, saved, setter, doubled, screen, escrow_shown,
                   escrow_moves, crossed>>
    BY DEF Escrow!notify, Escrow!prefs
  <1>1. PICK v \in {[Escrow!NoTask EXCEPT !.pc = "ask"], Escrow!NoTask} :
          task' = [task EXCEPT ![t] = v]
    BY DEF Escrow!notify
  <1>2. v \in Stages /\ v.pc \in {"ask", "idle"} BY StartsOf DEF Stages
  <1>3. task[t].pc \in {"wake", "told"} /\ woken' = TRUE BY DEF Escrow!notify
  <1>4. EscrowTypes' BY <1>1, <1>2, <1>3 DEF EscrowInv, EscrowTypes
  <1>5. task'[t] = v /\ \A u \in Tasks \ {t} : task'[u] = task[u] BY <1>1 DEF EscrowInv, EscrowTypes
  <1>6. OwnTags'
    <2>1. Escrow!Switching' <=> Escrow!Switching BY <1>2, <1>3, <1>5 DEF Escrow!Switching
    <2>. QED BY <2>1 DEF EscrowInv, OwnTags
  <1>7. OwnStore' BY <1>2, <1>5 DEF EscrowInv, OwnStore
  <1>8. ReadTrue' BY <1>3 DEF ReadTrue, Untold
  <1>9. SettersApart' BY DEF EscrowInv, SettersApart, Setting
  <1>. QED BY <1>4, <1>6, <1>7, <1>8, <1>9 DEF EscrowInv

(* The slot and its switches are left alone.                                *)
LEMMA SlotKept ==
    ASSUME EscrowInv, UNCHANGED <<escrow_active, tags, task, crossed>>
    PROVE  OwnTags' /\ OwnStore'
  BY DEF EscrowInv, OwnTags, OwnStore, Escrow!Switching

LEMMA ReadKeeps == ASSUME EscrowInv, Escrow!next \/ Escrow!snapshot PROVE EscrowInv'
  <1>. UNCHANGED <<escrow_active, tags, overrides, saved, setter, doubled, task, escrow_moves, crossed>>
    BY DEF Escrow!next, Escrow!snapshot, Escrow!prefs
  <1>1. SettersApart' BY DEF EscrowInv, SettersApart, Setting
  <1>2. /\ screen \in Screens /\ overrides \in Escrow!Overrides /\ tags \in TagTypes
        /\ woken \in BOOLEAN
    BY DEF EscrowInv, EscrowTypes
  <1>3. CASE Escrow!next
    <2>1. screen' \in Screens /\ screen'.pc = "tags" /\ woken' = FALSE /\ escrow_shown' = escrow_shown
      BY <1>2, <1>3 DEF Escrow!next, Screens
    <2>2. EscrowTypes' BY <2>1 DEF EscrowInv, EscrowTypes
    <2>3. ReadTrue' BY <2>1 DEF ReadTrue
    <2>. QED BY <2>2, <2>3, <1>1, SlotKept DEF EscrowInv
  <1>4. CASE Escrow!snapshot
    <2>0. Untold' <=> Untold BY <1>4 DEF Escrow!snapshot, Untold
    <2>1. CASE screen.pc = "tags"
      <3>1. /\ screen' \in Screens /\ screen'.pc = "over" /\ screen'.tags = tags
            /\ woken' = woken /\ escrow_shown' = escrow_shown
        BY <1>2, <1>4, <2>1 DEF Escrow!snapshot, Screens
      <3>2. EscrowTypes' BY <3>1 DEF EscrowInv, EscrowTypes
      <3>3. ReadTrue' BY <3>1 DEF ReadTrue
      <3>. QED BY <3>2, <3>3, <1>1, SlotKept DEF EscrowInv
    <2>2. CASE screen.pc = "over"
      <3>1. /\ screen' \in Screens /\ screen'.pc = "again" /\ screen'.tags = screen.tags
            /\ screen'.over = overrides /\ woken' = woken /\ escrow_shown' = escrow_shown
        BY <1>2, <1>4, <2>2 DEF Escrow!snapshot, Screens
      <3>2. EscrowTypes' BY <3>1 DEF EscrowInv, EscrowTypes
      <3>3. ReadTrue' BY <3>1, <2>0, <2>2 DEF EscrowInv, ReadTrue
      <3>. QED BY <3>2, <3>3, <1>1, SlotKept DEF EscrowInv
    <2>3. CASE screen.pc = "again"
      <3>1. /\ screen' = Escrow!Away /\ woken' = woken
            /\ escrow_shown' = Escrow!Snapshot(screen.tags, screen.over, overrides)
        BY <1>4, <2>3 DEF Escrow!snapshot
      <3>2. EscrowTypes'
        BY <3>1, <1>2, StartsOf, SnapshotTypes DEF EscrowInv, EscrowTypes
      <3>3. ReadTrue'
        <4>. SUFFICES ASSUME ~Untold' PROVE ReadTrue'
          BY DEF ReadTrue
        <4>1. Escrow!Content(screen.tags) = Escrow!Content(tags) /\ screen.over = overrides
          BY <2>0, <2>3 DEF EscrowInv, ReadTrue
        <4>2. screen.tags \in TagTypes BY <1>2 DEF Screens
        <4>3. escrow_shown' = Escrow!Snapshot(tags, overrides, overrides)
          BY <3>1, <4>1, <4>2, <1>2, SnapshotOf
        <4>. QED BY <3>1, <4>3, StartsOf DEF ReadTrue
      <3>. QED BY <3>2, <3>3, <1>1, SlotKept DEF EscrowInv
    <2>. QED BY <1>4, <2>1, <2>2, <2>3 DEF Escrow!snapshot
  <1>. QED BY <1>3, <1>4

(* A call that sets one override: what it writes of a field no other call   *)
(* sets is what memory and the row hold after it.                           *)
LEMMA SetterKeeps ==
    ASSUME EscrowInv, NEW s \in Setters,
           \/ Escrow!set_override(s) \/ Escrow!persist(s)
           \/ Escrow!update_overrides(s) \/ Escrow!notify_override(s)
    PROVE  EscrowInv'
  <1>. UNCHANGED <<escrow_active, tags, task, crossed, screen, escrow_shown>>
    BY DEF Escrow!set_override, Escrow!persist, Escrow!update_overrides, Escrow!notify_override,
           Escrow!view
  <1>1. /\ setter \in [Setters -> Sets] /\ setter[s] \in Sets /\ tags \in TagTypes
        /\ overrides \in Escrow!Overrides /\ saved \in Escrow!Overrides
        /\ setter[s].field \in {"force", "mint"} /\ setter[s].o \in Escrow!Overrides
        /\ setter = [u \in Setters |-> setter[u]]
        /\ \A v : [setter EXCEPT ![s] = v][s] = v
        /\ \A v : \A u \in Setters \ {s} : [setter EXCEPT ![s] = v][u] = setter[u]
        /\ escrow_moves \in 0 .. MaxMoves /\ MaxMoves \in Nat /\ doubled \subseteq {"force", "mint"}
    BY WalletAssumption DEF EscrowInv, EscrowTypes, Sets
  <1>2. CASE Escrow!set_override(s)
    <2>1. PICK f \in {"force", "mint"}, o \in Escrow!Overrides :
            /\ setter' = [setter EXCEPT ![s] = [pc |-> "persist", field |-> f, o |-> o]]
            /\ doubled' = IF \E u \in Setters : setter[u].pc \in {"persist", "update"} /\ setter[u].field = f
                          THEN doubled \cup {f} ELSE doubled
      BY <1>2 DEF Escrow!set_override
    <2>. DEFINE v == [pc |-> "persist", field |-> f, o |-> o]
    <2>2. v \in Sets /\ v.pc = "persist" /\ v.field = f BY DEF Sets
    <2>3. /\ setter[s].pc = "idle" /\ UNCHANGED <<overrides, saved, woken>>
          /\ escrow_moves < MaxMoves /\ escrow_moves' = escrow_moves + 1
      BY <1>2 DEF Escrow!set_override, Escrow!Move, Escrow!view
    <2>4. setter' = [setter EXCEPT ![s] = v] BY <2>1
    <2>. HIDE DEF v
    <2>5. setter'[s] = v /\ \A u \in Setters \ {s} : setter'[u] = setter[u] BY <2>4, <1>1
    <2>6. escrow_moves' \in 0 .. MaxMoves BY <2>3, <1>1
    <2>7. doubled \subseteq doubled' /\ doubled' \subseteq {"force", "mint"} BY <2>1, <1>1
    <2>8. EscrowTypes' BY <2>2, <2>3, <2>4, <2>6, <2>7 DEF EscrowInv, EscrowTypes
    <2>9. ReadTrue'
      <3>1. Untold' <=> Untold BY <2>2, <2>3, <2>5 DEF Untold
      <3>. QED BY <3>1, <2>3, <1>1, ReadKept
    <2>10. SettersApart'
      <3>. SUFFICES ASSUME NEW g \in {"force", "mint"} \ doubled'
                    PROVE  /\ \A r, q \in Setting(g, {"persist", "update"})' : r = q
                           /\ Setting(g, {"update"})' = {} => overrides'[g] = saved'[g]
                           /\ \A q \in Setting(g, {"update"})' : saved'[g] = setter'[q].o[g]
        BY DEF SettersApart
      <3>1. Setting(g, {"update"})' = Setting(g, {"update"}) BY <2>2, <2>3, <2>5 DEF Setting
      <3>2. \A q \in Setting(g, {"update"}) : setter'[q] = setter[q] BY <2>3, <2>5 DEF Setting
      <3>3. \A r, q \in Setting(g, {"persist", "update"})' : r = q
        <4>1. CASE g = f
          <5>1. \A u \in Setters : ~(setter[u].pc \in {"persist", "update"} /\ setter[u].field = f)
            BY <4>1, <2>1
          <5>. QED BY <5>1, <4>1, <2>5 DEF Setting
        <4>2. CASE g # f
          <5>1. Setting(g, {"persist", "update"})' \subseteq Setting(g, {"persist", "update"})
            BY <4>2, <2>2, <2>5 DEF Setting
          <5>. QED BY <5>1, <2>7 DEF EscrowInv, SettersApart
        <4>. QED BY <4>1, <4>2
      <3>4. g \in {"force", "mint"} \ doubled BY <2>7
      <3>. QED BY <3>1, <3>2, <3>3, <3>4, <2>3 DEF EscrowInv, SettersApart
    <2>. QED BY <2>8, <2>9, <2>10, SlotKept DEF EscrowInv
  <1>3. PICK f \in {"force", "mint"} : f = setter[s].field BY <1>1
  <1>. f = setter[s].field BY <1>3
  <1>4. \A u \in Setters \ {s} : f \notin doubled => u \notin Setting(f, {"persist", "update"}) \/ setter[s].pc \notin {"persist", "update"}
    BY <1>3 DEF EscrowInv, SettersApart, Setting
  <1>5. CASE Escrow!persist(s)
    <2>1. setter[s].pc = "persist" /\ UNCHANGED <<overrides, woken, escrow_moves, doubled>>
      BY <1>5 DEF Escrow!persist, Escrow!view
    <2>2. CASE saved' = saved /\ setter' = [setter EXCEPT ![s] = Escrow!NoSetter]
      <3>1. setter'[s].pc = "idle" /\ \A u \in Setters \ {s} : setter'[u] = setter[u]
        BY <2>2, <1>1, StartsOf
      <3>2. EscrowTypes' BY <2>1, <2>2, StartsOf DEF EscrowInv, EscrowTypes
      <3>3. ReadTrue'
        <4>1. Untold' <=> Untold BY <2>1, <3>1 DEF Untold
        <4>. QED BY <4>1, <2>1, <1>1, ReadKept
      <3>4. SettersApart'
        <4>1. \A g : Setting(g, {"update"})' = Setting(g, {"update"})
          BY <2>1, <3>1 DEF Setting
        <4>2. \A g : Setting(g, {"persist", "update"})' \subseteq Setting(g, {"persist", "update"})
          BY <2>1, <3>1 DEF Setting
        <4>3. \A g : \A q \in Setting(g, {"update"}) : setter'[q] = setter[q] BY <2>1, <3>1 DEF Setting
        <4>. QED BY <4>1, <4>2, <4>3, <2>1, <2>2 DEF EscrowInv, SettersApart
      <3>. QED BY <3>2, <3>3, <3>4, SlotKept DEF EscrowInv
    <2>3. CASE /\ saved' = Escrow!With(saved, f, setter[s].o)
               /\ setter' = [setter EXCEPT ![s].pc = "update"]
      <3>. DEFINE v == [setter[s] EXCEPT !.pc = "update"]
      <3>1. v \in Sets /\ v.pc = "update" /\ v.field = f /\ v.o = setter[s].o BY <1>1 DEF Sets
      <3>2. setter' = [setter EXCEPT ![s] = v] BY <2>3, <1>1
      <3>. HIDE DEF v
      <3>3. setter'[s] = v /\ \A u \in Setters \ {s} : setter'[u] = setter[u] BY <3>2, <1>1
      <3>4. /\ saved' \in Escrow!Overrides /\ saved'[f] = setter[s].o[f]
            /\ \A g \in {"force", "mint"} \ {f} : saved'[g] = saved[g]
        BY <2>3, <1>1, <1>3, WithSets
      <3>5. EscrowTypes' BY <2>1, <3>1, <3>2, <3>4 DEF EscrowInv, EscrowTypes
      <3>6. ReadTrue'
        <4>1. Untold' <=> Untold BY <2>1, <3>1, <3>3 DEF Untold
        <4>. QED BY <4>1, <2>1, <1>1, ReadKept
      <3>7. SettersApart'
        <4>1. \A g : Setting(g, {"persist", "update"})' = Setting(g, {"persist", "update"})
          BY <2>1, <3>1, <3>3 DEF Setting
        <4>2. \A g : g # f => Setting(g, {"update"})' = Setting(g, {"update"})
          BY <3>1, <3>3 DEF Setting
        <4>3. s \notin Setting(f, {"update"}) /\ s \in Setting(f, {"persist", "update"})
          BY <2>1 DEF Setting
        <4>4. Setting(f, {"update"})' = Setting(f, {"update"}) \cup {s}
          BY <3>1, <3>3, <2>1 DEF Setting
        <4>5. f \notin doubled => Setting(f, {"update"})' = {s}
          BY <4>4, <1>4, <2>1 DEF Setting
        <4>6. \A g \in {"force", "mint"} \ {f} : \A q \in Setting(g, {"update"}) : setter'[q] = setter[q]
          BY <3>3 DEF Setting
        <4>. SUFFICES ASSUME NEW g \in {"force", "mint"} \ doubled
                      PROVE  /\ \A r, q \in Setting(g, {"persist", "update"})' : r = q
                             /\ Setting(g, {"update"})' = {} => overrides'[g] = saved'[g]
                             /\ \A q \in Setting(g, {"update"})' : saved'[g] = setter'[q].o[g]
          BY <2>1 DEF SettersApart
        <4>7. CASE g = f
          <5>1. \A r, q \in Setting(g, {"persist", "update"})' : r = q
            BY <4>1, <2>1 DEF EscrowInv, SettersApart
          <5>2. Setting(g, {"update"})' = {s} BY <4>5, <4>7, <2>1
          <5>3. saved'[g] = setter'[s].o[g] BY <4>7, <3>1, <3>3, <3>4
          <5>. QED BY <5>1, <5>2, <5>3
        <4>8. CASE g # f BY <4>1, <4>2, <4>6, <4>8, <2>1, <3>4 DEF EscrowInv, SettersApart
        <4>. QED BY <4>7, <4>8
      <3>. QED BY <3>5, <3>6, <3>7, SlotKept DEF EscrowInv
    <2>. QED BY <1>5, <2>2, <2>3 DEF Escrow!persist
  <1>6. CASE Escrow!update_overrides(s)
    <2>1. /\ setter[s].pc = "update" /\ UNCHANGED <<saved, woken, escrow_moves, doubled>>
          /\ overrides' = Escrow!With(overrides, f, setter[s].o)
      BY <1>6 DEF Escrow!update_overrides, Escrow!view
    <2>2. PICK v \in {[Escrow!NoSetter EXCEPT !.pc = "wake"], Escrow!NoSetter} :
            /\ setter' = [setter EXCEPT ![s] = v]
            /\ overrides' # overrides => v = [Escrow!NoSetter EXCEPT !.pc = "wake"]
      BY <1>6 DEF Escrow!update_overrides
    <2>3. /\ v \in Sets /\ v.pc \in {"wake", "idle"}
          /\ overrides' # overrides => v.pc = "wake"
      BY <2>2, StartsOf DEF Sets
    <2>4. setter'[s] = v /\ \A u \in Setters \ {s} : setter'[u] = setter[u] BY <2>2, <1>1
    <2>5. /\ overrides' \in Escrow!Overrides /\ overrides'[f] = setter[s].o[f]
          /\ \A g \in {"force", "mint"} \ {f} : overrides'[g] = overrides[g]
      BY <2>1, <1>1, <1>3, WithSets
    <2>6. EscrowTypes' BY <2>1, <2>2, <2>3, <2>5 DEF EscrowInv, EscrowTypes
    <2>7. ReadTrue'
      <3>1. CASE overrides' = overrides
        <4>1. ~Untold' => ~Untold BY <2>1, <2>4 DEF Untold
        <4>. QED BY <4>1, <3>1, <1>1, ReadKept
      <3>2. CASE overrides' # overrides
        <4>1. Untold' BY <2>3, <2>4, <3>2 DEF Untold
        <4>. QED BY <4>1 DEF ReadTrue
      <3>. QED BY <3>1, <3>2
    <2>8. SettersApart'
      <3>. SUFFICES ASSUME NEW g \in {"force", "mint"} \ doubled
                    PROVE  /\ \A r, q \in Setting(g, {"persist", "update"})' : r = q
                           /\ Setting(g, {"update"})' = {} => overrides'[g] = saved'[g]
                           /\ \A q \in Setting(g, {"update"})' : saved'[g] = setter'[q].o[g]
        BY <2>1 DEF SettersApart
      <3>1. Setting(g, {"persist", "update"})' \subseteq Setting(g, {"persist", "update"})
        BY <2>3, <2>4 DEF Setting
      <3>2. s \in Setting(f, {"update"}) BY <2>1 DEF Setting
      <3>3. CASE g = f
        <4>1. \A u \in Setters \ {s} : ~(setter[u].pc = "update" /\ setter[u].field = f)
          BY <3>3, <1>4, <2>1 DEF Setting
        <4>2. Setting(g, {"update"})' = {} BY <3>3, <4>1, <2>3, <2>4 DEF Setting
        <4>3. saved[f] = setter[s].o[f] BY <3>2, <3>3 DEF EscrowInv, SettersApart
        <4>4. overrides'[g] = saved'[g] BY <3>3, <4>3, <2>1, <2>5
        <4>5. \A r, q \in Setting(g, {"persist", "update"})' : r = q
          BY <3>1, <2>1 DEF EscrowInv, SettersApart
        <4>. QED BY <4>2, <4>4, <4>5
      <3>4. CASE g # f
        <4>1. Setting(g, {"update"})' = Setting(g, {"update"}) BY <3>4, <2>3, <2>4 DEF Setting
        <4>2. \A q \in Setting(g, {"update"}) : setter'[q] = setter[q] BY <3>4, <2>4 DEF Setting
        <4>. QED BY <3>1, <3>4, <4>1, <4>2, <2>1, <2>5 DEF EscrowInv, SettersApart
      <3>. QED BY <3>3, <3>4
    <2>. QED BY <2>6, <2>7, <2>8, SlotKept DEF EscrowInv
  <1>7. CASE Escrow!notify_override(s)
    <2>1. /\ setter[s].pc = "wake" /\ woken' = TRUE /\ setter' = [setter EXCEPT ![s] = Escrow!NoSetter]
          /\ UNCHANGED <<overrides, saved, escrow_moves, doubled>>
      BY <1>7 DEF Escrow!notify_override
    <2>2. setter'[s].pc = "idle" /\ \A u \in Setters \ {s} : setter'[u] = setter[u]
      BY <2>1, <1>1, StartsOf
    <2>3. EscrowTypes' BY <2>1, StartsOf DEF EscrowInv, EscrowTypes
    <2>4. ReadTrue' BY <2>1 DEF ReadTrue, Untold
    <2>5. SettersApart'
      <3>1. \A g : /\ Setting(g, {"update"})' = Setting(g, {"update"})
                   /\ Setting(g, {"persist", "update"})' = Setting(g, {"persist", "update"})
        BY <2>1, <2>2 DEF Setting
      <3>2. \A g : \A q \in Setting(g, {"update"}) : setter'[q] = setter[q] BY <2>1, <2>2 DEF Setting
      <3>. QED BY <3>1, <3>2, <2>1 DEF EscrowInv, SettersApart
    <2>. QED BY <2>3, <2>4, <2>5, SlotKept DEF EscrowInv
  <1>. QED BY <1>2, <1>5, <1>6, <1>7

(* A start keeps the rows, and memory is what they hold.                    *)
LEMMA RehydrateKeeps == EscrowInv /\ Escrow!rehydrate_escrow_overrides => EscrowInv'
  <1>. SUFFICES ASSUME EscrowInv, Escrow!rehydrate_escrow_overrides PROVE EscrowInv'
    OBVIOUS
  <1>1. /\ overrides' = saved /\ saved' = saved /\ tags' = Escrow!None
        /\ task' = [t \in Tasks |-> Escrow!NoTask] /\ setter' = [s \in Setters |-> Escrow!NoSetter]
        /\ woken' = FALSE /\ screen' = Escrow!Away /\ crossed' = FALSE /\ doubled' = {}
        /\ escrow_shown' = Escrow!Snapshot(Escrow!None, saved, saved)
        /\ escrow_active' = escrow_active /\ escrow_moves < MaxMoves /\ escrow_moves' = escrow_moves + 1
    BY DEF Escrow!rehydrate_escrow_overrides, Escrow!Move
  <1>2. escrow_moves' \in 0 .. MaxMoves BY <1>1, WalletAssumption DEF EscrowInv, EscrowTypes
  <1>3. saved \in Escrow!Overrides /\ escrow_active \in Nodes BY DEF EscrowInv, EscrowTypes
  <1>4. /\ escrow_shown'.over \in Escrow!Overrides
        /\ escrow_shown'.mode \in {"unknown", "lightning", "cashu"}
    BY <1>1, <1>3, SnapshotTypes
  <1>5. EscrowTypes' BY <1>1, <1>2, <1>3, <1>4, StartsOf DEF EscrowTypes
  <1>6. OwnTags'
    <2>1. tags'.said = "unset" BY <1>1, StartsOf
    <2>. QED BY <2>1 DEF OwnTags
  <1>7. OwnStore' BY <1>1, StartsOf DEF OwnStore
  <1>8. ReadTrue'
    <2>1. screen'.pc = "away" BY <1>1, StartsOf
    <2>. QED BY <1>1, <2>1 DEF ReadTrue
  <1>9. SettersApart' BY <1>1, StartsOf DEF SettersApart, Setting
  <1>. QED BY <1>5, <1>6, <1>7, <1>8, <1>9 DEF EscrowInv

LEMMA EscrowStart == Escrow!Init => EscrowInv
  <1>. SUFFICES ASSUME Escrow!Init PROVE EscrowInv
    OBVIOUS
  <1>1. /\ escrow_active = First /\ tags = Escrow!None /\ overrides = Escrow!Auto /\ saved = Escrow!Auto
        /\ task = [t \in Tasks |-> Escrow!NoTask] /\ setter = [s \in Setters |-> Escrow!NoSetter]
        /\ woken = FALSE /\ screen = Escrow!Away /\ escrow_moves = 0 /\ crossed = FALSE /\ doubled = {}
        /\ escrow_shown = Escrow!Snapshot(Escrow!None, Escrow!Auto, Escrow!Auto)
    BY DEF Escrow!Init
  <1>2. EscrowTypes
    <2>1. /\ escrow_shown.over \in Escrow!Overrides
          /\ escrow_shown.mode \in {"unknown", "lightning", "cashu"}
      BY <1>1, StartsOf, SnapshotTypes
    <2>2. escrow_moves \in 0 .. MaxMoves BY <1>1, WalletAssumption
    <2>. QED BY <1>1, <2>1, <2>2, StartsOf, WalletAssumption DEF EscrowTypes
  <1>3. OwnTags /\ OwnStore BY <1>1, StartsOf DEF OwnTags, OwnStore
  <1>4. ReadTrue BY <1>1, StartsOf DEF ReadTrue
  <1>5. SettersApart BY <1>1, StartsOf DEF SettersApart, Setting
  <1>. QED BY <1>2, <1>3, <1>4, <1>5 DEF EscrowInv

LEMMA EscrowNext == EscrowInv /\ [Escrow!Next]_EscrowVars => EscrowInv'
  <1>. SUFFICES ASSUME EscrowInv, [Escrow!Next]_EscrowVars PROVE EscrowInv'
    OBVIOUS
  <1>1. CASE Escrow!Next
    BY <1>1, StageKeeps, NotifyKeeps, SetterKeeps, ReadKeeps, RehydrateKeeps DEF Escrow!Next
  <1>2. CASE UNCHANGED EscrowVars
    <2>. UNCHANGED <<escrow_active, tags, overrides, saved, task, setter, woken, screen,
                     escrow_shown, escrow_moves, crossed, doubled>>
      BY <1>2 DEF EscrowVars
    <2>1. EscrowTypes' BY DEF EscrowInv, EscrowTypes
    <2>2. ReadTrue' BY DEF EscrowInv, ReadTrue, Untold
    <2>3. SettersApart' BY DEF EscrowInv, SettersApart, Setting
    <2>. QED BY <2>1, <2>2, <2>3, SlotKept DEF EscrowInv
  <1>. QED BY <1>1, <1>2

(* What the run checks of it.  A mode is Cashu by force or by what was      *)
(* said, a mint is the developer's or the node's.                           *)
LEMMA EscrowSound ==
    EscrowInv => /\ Escrow!TypeOK /\ Escrow!CashuByOwnNode
                 /\ Escrow!ScreenCurrent /\ Escrow!NothingDiscarded
  <1>. SUFFICES ASSUME EscrowInv
                PROVE  /\ Escrow!TypeOK /\ Escrow!CashuByOwnNode
                       /\ Escrow!ScreenCurrent /\ Escrow!NothingDiscarded
    OBVIOUS
  <1>1. Escrow!TypeOK
    <2>1. /\ \A t \in Tasks : task[t] \in Stages
          /\ \A s \in Setters : setter[s] \in Sets
      BY DEF EscrowInv, EscrowTypes
    <2>. QED BY <2>1 DEF EscrowInv, EscrowTypes, Escrow!TypeOK, TagTypes, Stages, Sets, Screens
  <1>2. Escrow!CashuByOwnNode
    <2>. SUFFICES ASSUME Escrow!is_cashu_usable(Escrow!resolve(tags, overrides)),
                         ~Escrow!Switching, ~crossed
                  PROVE  \/ tags.node = escrow_active /\ Escrow!Mode(tags) = "cashu"
                         \/ overrides.force /\ (overrides.mint = "dev" \/ tags.node = escrow_active)
      BY DEF Escrow!CashuByOwnNode
    <2>1. tags.said = "unset" \/ tags.node = escrow_active BY DEF EscrowInv, OwnTags
    <2>2. overrides.force \/ Escrow!Mode(tags) = "cashu"
      BY DEF Escrow!is_cashu_usable, Escrow!resolve
    <2>3. overrides.mint = "dev" \/ tags.said = "cashu@mint"
      BY DEF Escrow!is_cashu_usable, Escrow!resolve
    <2>4. Escrow!Mode(tags) = "cashu" => tags.said # "unset" BY DEF Escrow!Mode
    <2>. QED BY <2>1, <2>2, <2>3, <2>4
  <1>3. Escrow!ScreenCurrent BY DEF EscrowInv, ReadTrue, Untold, Escrow!ScreenCurrent
  <1>4. Escrow!NothingDiscarded BY DEF EscrowInv, SettersApart, Setting, Escrow!NothingDiscarded
  <1>. QED BY <1>1, <1>2, <1>3, <1>4

-----------------------------------------------------------------------------
LEMMA PartsKeep == MCSpec => [](WalletInv /\ CapsInv /\ EscrowInv)
  <1>1. MCInit => WalletInv /\ CapsInv /\ EscrowInv
    BY WalletStart, CapsStart, EscrowStart DEF MCInit
  <1>2. [MCNext]_MCvars => [Wallet!Next]_WalletVars /\ [Caps!Next]_CapsVars /\ [Escrow!Next]_EscrowVars
    BY DEF MCNext, MCvars
  <1>3. WalletInv /\ CapsInv /\ EscrowInv /\ [MCNext]_MCvars => (WalletInv /\ CapsInv /\ EscrowInv)'
    BY <1>2, WalletNext, CapsNext, EscrowNext
  <1>. QED BY <1>1, <1>3, PTL DEF MCSpec

(* For any number of connections, calls, invoices, nodes, switches and      *)
(* settings: no wallet connection is left open that nothing uses, and what  *)
(* ends a call as paid is a payment of its own connection (client.rs); a    *)
(* first message is mined as its node asks, in a transport it reads, and a  *)
(* price is the asked node's (pow.rs, protocol_version.rs, rates.rs); Cashu *)
(* is open only by the node in use or the developer, the screen shows what  *)
(* resolves, and no setter discards another's field (escrow_mode.rs).       *)
THEOREM WalletIsSound == MCSpec => []WalletSound
  <1>1. WalletInv /\ CapsInv /\ EscrowInv => WalletSound
    BY CapsSound, EscrowSound DEF WalletSound, WalletInv, CallsTrue, PaidFor, Paying,
       Wallet!SuccessIsPayment
  <1>. QED BY <1>1, PartsKeep, PTL

-----------------------------------------------------------------------------
(* The row of a trade, for any number of takes, events, restarts and sweeps, *)
(* with the writers that hold no lock in between a handler's steps or not.   *)

Shown == Race!Statuses \cup {Race!None}
Judged == Race!TradeInfo \cup {Race!NoRow}

DispTypes == [pc : {"idle", "take", "check", "write", "wipe", "tomb"},
              msg : Race!Message \cup {Race!NoMessage}, snap : Judged,
              kind : {"Exists", "Wiped", "NeverWritten", "Unknown"}]
WireTypes == [pc : {"off", "idle", "wipe", "tomb", "sync"}, status : Shown, local : Shown,
              idx : 0 .. MaxGen, own : BOOLEAN, at : 0 .. MaxEvents]
SweepTypes == [pc : {"idle", "listed", "viewed", "tomb"}, snap : Judged, view : Shown]

Publics == {"Pending", "InProgress", "Canceled", "Success"}

RaceTypes ==
    /\ race_row \in Judged
    /\ race_tomb \in 0 .. MaxGen /\ race_bound \in 0 .. MaxGen /\ race_wiped \in 0 .. MaxGen
    /\ race_is_mine \in Mine /\ race_unwritten \in BOOLEAN
    /\ race_cursor \in 0 .. MaxEvents /\ race_book \in Shown /\ race_note \in Shown
    /\ race_req \in [Race!Gens -> {"no", "waiting", "detached", "done", "gone"}]
    /\ race_disp \in DispTypes /\ race_wire \in [Paths -> WireTypes] /\ race_sweep \in SweepTypes
    /\ race_net \subseteq Race!Message /\ race_seen \subseteq race_net /\ race_now \in 0 .. MaxEvents
    /\ race_order \in [status : Race!Statuses, gen : 0 .. MaxGen,
                       public : Publics, at : 0 .. MaxEvents]
    /\ \A p \in Paths : race_wire[p].pc = "sync" => race_wire[p].status \in Publics

(* What the daemon has and said: only a take that was asked for is accepted,  *)
(* a maker's order has one key, and a reply is to a take or to a create.      *)
Dealt ==
    /\ race_is_mine => race_order.gen = 1 /\ \A g \in Race!Gens : race_req[g] = "no"
    /\ race_order.gen = 0 => ~race_is_mine /\ race_order.status \in {"Pending", "Canceled"}
    /\ ~race_is_mine /\ race_order.gen # 0 => race_req[race_order.gen] # "no"
    /\ \A m \in race_net : /\ m.idx <= race_order.gen
                           /\ m.action = "NewOrder" => race_is_mine
                           /\ m.reply => m.action \in {"NewOrder", "AddInvoice"}

(* A take on its way: asked for and unanswered, or answered and about to be   *)
(* written.                                                                   *)
Taking(g) == race_req[g] = "waiting" \/ (race_disp.pc = "take" /\ race_disp.msg.idx = g)

(* The takes come one by one.  Until one is over its key is newer than any    *)
(* bound, and of what the daemon says on it only the reply makes a row.       *)
OneByOne ==
    /\ \A g, h \in Race!Gens : g < h /\ race_req[h] # "no" => race_req[g] # "no" \/ g <= race_order.gen
    /\ race_disp.pc = "take" => /\ race_disp.msg \in race_net /\ race_disp.msg.action = "AddInvoice"
                                /\ ~race_is_mine
                                /\ \A g \in Race!Gens : race_req[g] # "waiting"
    /\ \A g \in Race!Gens : Taking(g) =>
         /\ race_bound < g /\ race_order.gen <= g
         /\ \A h \in Race!Gens : (h > g => race_req[h] = "no") /\ (Taking(h) => h = g)
         /\ \A m \in race_net : m.idx = g => m.action = "Canceled" \/ (m.action = "AddInvoice" /\ m.reply)
         /\ race_disp.pc \notin {"idle", "take"} /\ race_disp.msg.idx = g => race_disp.msg.action = "Canceled"

(* The row is of the key bound, and a handler's message is of no older one.   *)
RowBound ==
    /\ race_row # Race!NoRow => race_row.idx = race_bound
    /\ race_disp.pc # "idle" => race_disp.msg \in race_net /\ race_disp.msg.idx >= race_bound

RaceInv == RaceTypes /\ Dealt /\ OneByOne /\ RowBound

(* With whole handlers nobody starts while another is at work.                *)
Alone == ~Interleaved =>
    /\ race_disp.pc # "idle" => race_sweep.pc = "idle"
    /\ \A p \in Paths : race_wire[p].pc \notin {"off", "idle"} =>
         /\ race_disp.pc = "idle" /\ race_sweep.pc = "idle"
         /\ \A q \in Paths : q # p => race_wire[q].pc \in {"off", "idle"}

(* What a writer goes by that had not judged the row when its trade ended:    *)
(* the lock's holder an end or an admin's verdict, a public feed an end it    *)
(* read, the sweep nothing.  Only the holder of the lock makes a row.         *)
Harmless(w) ==
    /\ w = "lock" => Race!is_hard_terminal(Race!Written(race_disp.msg.action))
    /\ w \in Paths => Race!is_hard_terminal(race_wire[w].local)
    /\ w # "sweep"

Forward ==
    /\ RaceOver => \A w \in Decided \ race_late : Harmless(w)
    /\ race_disp.pc = "check" /\ race_disp.kind = "NeverWritten" => race_row = Race!NoRow

(* What a handler judged is still so, and a key that was wiped has no row but *)
(* a tombstone.                                                               *)
WipedTight == ~Interleaved =>
    /\ race_wiped <= race_bound
    /\ race_wiped = race_bound /\ race_bound # 0 => race_row = Race!NoRow /\ race_tomb = race_bound
    /\ race_disp.pc = "check" =>
         /\ race_disp.kind = "Exists" => race_row # Race!NoRow /\ race_disp.snap.idx = race_bound
         /\ race_disp.kind = "NeverWritten" => race_row = Race!NoRow /\ ~Race!tombstone_covers(race_disp.msg.idx)
         /\ race_disp.kind # "Unknown"
    /\ race_disp.pc \in {"wipe", "tomb"} => race_disp.snap.idx = race_bound
    /\ race_sweep.pc # "idle" => race_sweep.snap.idx = race_bound
    /\ \A p \in Paths : race_wire[p].pc \in {"wipe", "tomb"} => race_wire[p].idx = race_bound
    /\ \/ race_disp.pc = "tomb" \/ race_sweep.pc = "tomb" \/ \E p \in Paths : race_wire[p].pc = "tomb"
       => race_row = Race!NoRow

-----------------------------------------------------------------------------
LEMMA RaceConsts ==
    /\ MaxGen \in Nat /\ MaxGen >= 1 /\ MaxEvents \in Nat /\ MaxEvents >= 1 /\ Race!Gens = 1 .. MaxGen
    /\ Mine \subseteq BOOLEAN /\ Paths \subseteq {"book", "dtag"} /\ Interleaved \in BOOLEAN
  BY RaceAssumption DEF Race!Gens

LEMMA MessageFields ==
    ASSUME NEW m \in Race!Message
    PROVE  m.action \in Race!Actions /\ m.idx \in Race!Gens /\ m.ts \in 1 .. MaxEvents /\ m.reply \in BOOLEAN
  BY DEF Race!Message

LEMMA StatusOfAction ==
    /\ \A a \in DOMAIN Race!status_for_action : Race!status_for_action[a] \in Race!Statuses
    /\ \A a \in Race!Actions : Race!Written(a) \in Race!Statuses
    /\ Race!Actions = DOMAIN Race!status_for_action \cup {"NewOrder", "Canceled"}
    /\ Race!status_for_action["AddInvoice"] = "WaitingBuyerInvoice"
    /\ "AddInvoice" \in DOMAIN Race!status_for_action
  <1>1. DOMAIN Race!status_for_action =
          {"AddInvoice", "WaitingSellerToPay", "HoldInvoicePaymentAccepted", "FiatSentOk", "Released",
           "PurchaseCompleted", "CooperativeCancelAccepted", "DisputeInitiatedByPeer", "AdminSettled", "AdminCanceled"}
    BY DEF Race!status_for_action
  <1>2. \A a \in DOMAIN Race!status_for_action : Race!status_for_action[a] \in Race!Statuses
    BY <1>1 DEF Race!status_for_action, Race!Statuses, Race!HardTerminal, Race!Waiting
  <1>3. Race!Actions = DOMAIN Race!status_for_action \cup {"NewOrder", "Canceled"}
    BY DEF Race!Actions
  <1>4. Race!status_for_action["AddInvoice"] = "WaitingBuyerInvoice"
    BY DEF Race!status_for_action
  <1>5. \A a \in Race!Actions : Race!Written(a) \in Race!Statuses
    <2>1. "Pending" \in Race!Statuses /\ "Canceled" \in Race!Statuses
      BY DEF Race!Statuses, Race!HardTerminal, Race!Waiting
    <2>. QED BY <1>2, <1>3, <2>1 DEF Race!Written
  <1>. QED BY <1>1, <1>2, <1>3, <1>4, <1>5

LEMMA RowFields ==
    /\ \A r \in Judged : r # Race!NoRow => r \in Race!TradeInfo /\ r.idx \in Race!Gens /\ r.status \in Race!Statuses
    /\ \A r \in Judged : r.idx \in 0 .. MaxGen /\ r.status \in Shown
    /\ Race!NoRow.status = "None" /\ Race!NoRow.idx = 0 /\ Race!NoRow \in Judged
    /\ \A r \in Judged : r # Race!NoRow => \A s \in Race!Statuses : [r EXCEPT !.status = s] \in Race!TradeInfo
    /\ \A r \in Judged : r = Race!NoRow <=> r.status = "None"
    /\ \A s \in Race!Statuses, g \in Race!Gens : Race!Row(s, g) \in Race!TradeInfo
    /\ "None" \notin Race!Statuses /\ Race!NoRow \notin Race!TradeInfo
  <1>1. "None" \notin Race!Statuses
    BY DEF Race!Statuses, Race!HardTerminal, Race!Waiting
  <1>2. Race!NoRow.status = "None" /\ Race!NoRow.idx = 0 /\ Race!NoRow \in Judged
    BY DEF Race!NoRow, Race!None, Judged
  <1>3. \A r \in Race!TradeInfo : r.idx \in Race!Gens /\ r.status \in Race!Statuses /\ r.aged \in BOOLEAN
    BY DEF Race!TradeInfo
  <1>4. \A s \in Race!Statuses, g \in Race!Gens : Race!Row(s, g) \in Race!TradeInfo
    BY DEF Race!Row, Race!TradeInfo
  <1>5. \A r \in Race!TradeInfo : \A s \in Race!Statuses : [r EXCEPT !.status = s] \in Race!TradeInfo
    BY DEF Race!TradeInfo
  <1>. QED BY <1>1, <1>2, <1>3, <1>4, <1>5, RaceConsts DEF Judged, Shown, Race!None

(* What a write of a status does to the row and to its copy in the book.     *)
LEMMA WritesStatus ==
    ASSUME NEW s \in Race!Statuses, race_row \in Judged, Race!WriteStatus(s)
    PROVE  /\ race_row' \in Judged /\ race_row'.idx = race_row.idx
           /\ race_row' = Race!NoRow <=> race_row = Race!NoRow
           /\ race_row # Race!NoRow => race_row'.status = s
  <1>1. CASE race_row = Race!NoRow
    BY <1>1, RowFields DEF Race!WriteStatus
  <1>2. CASE race_row # Race!NoRow
    <2>1. race_row' = [race_row EXCEPT !.status = s] /\ race_row \in Race!TradeInfo
      BY <1>2, RowFields DEF Race!WriteStatus
    <2>2. race_row' \in Race!TradeInfo /\ race_row'.idx = race_row.idx /\ race_row'.status = s
      BY <2>1 DEF Race!TradeInfo
    <2>. QED BY <1>2, <2>2, RowFields DEF Judged
  <1>. QED BY <1>1, <1>2

LEMMA BookTyped ==
    ASSUME RaceTypes, NEW s \in Race!Statuses, Race!BookStatus(s)
    PROVE  race_book' \in Shown
  BY DEF Race!BookStatus, Shown

LEMMA HandBackTyped ==
    ASSUME RaceTypes, Race!HandBack
    PROVE  race_book' \in Shown /\ race_note' \in Shown
  BY DEF Race!HandBack, Shown, RaceTypes, Race!Statuses

LEMMA TombTyped ==
    ASSUME RaceTypes, NEW g \in 0 .. MaxGen, Race!LeaveTombstone(g)
    PROVE  race_tomb' = g /\ race_tomb' \in 0 .. MaxGen /\ race_wiped' \in 0 .. MaxGen
           /\ race_wiped' \in {g, race_wiped} /\ race_wiped' >= g /\ race_wiped' >= race_wiped
  BY RaceConsts DEF Race!LeaveTombstone, RaceTypes

LEMMA LocalTyped == ASSUME RaceTypes PROVE Race!local_trade_status \in Shown
  BY RowFields DEF RaceTypes, Race!local_trade_status

(* The values a handler starts from and ends with.                           *)
LEMMA AtRest ==
    /\ Race!Free \in DispTypes /\ Race!Free.pc = "idle" /\ Race!Free.msg = Race!NoMessage
    /\ \A t \in 0 .. MaxEvents : /\ Race!Watching(t) \in WireTypes
                                 /\ Race!Watching(t).pc = "idle" /\ ~Race!Watching(t).own
    /\ Race!Unsubscribed \in WireTypes /\ Race!Unsubscribed.pc = "off" /\ ~Race!Unsubscribed.own
    /\ Race!Asleep \in SweepTypes /\ Race!Asleep.pc = "idle"
  <1>1. \A t \in 0 .. MaxEvents : /\ Race!Watching(t) \in WireTypes
                                  /\ Race!Watching(t).pc = "idle" /\ ~Race!Watching(t).own
    BY RaceConsts DEF Race!Watching, WireTypes, Shown
  <1>2. Race!Unsubscribed \in WireTypes /\ Race!Unsubscribed.pc = "off" /\ ~Race!Unsubscribed.own
    <2>1. Race!Unsubscribed = [Race!Watching(0) EXCEPT !.pc = "off"]
      BY DEF Race!Unsubscribed
    <2>2. 0 \in 0 .. MaxEvents
      BY RaceConsts
    <2>. QED BY <1>1, <2>1, <2>2 DEF WireTypes
  <1>3. Race!Free \in DispTypes /\ Race!Free.pc = "idle" /\ Race!Free.msg = Race!NoMessage
    BY RowFields DEF Race!Free, DispTypes
  <1>4. Race!Asleep \in SweepTypes /\ Race!Asleep.pc = "idle"
    BY RowFields DEF Race!Asleep, SweepTypes, Shown
  <1>. QED BY <1>1, <1>2, <1>3, <1>4

(* The types are kept, action by action.                                     *)
LEMMA TakesTyped ==
    ASSUME RaceTypes, \E g \in Race!Gens : Race!take_order(g) \/ Race!take_timeout(g)
    PROVE  RaceTypes'
  BY DEF RaceTypes, Race!take_order, Race!take_timeout, Race!local, Race!daemon, Race!counts, Race!roles

LEMMA DispatchTyped ==
    ASSUME RaceTypes, NEW m \in race_net, Race!dispatch(m)
    PROVE  RaceTypes'
  <1>1. m \in Race!Message
    BY DEF RaceTypes
  <1>2. race_disp' \in DispTypes
    <2>1. CASE race_disp' \in {race_disp, Race!Free}
      BY <2>1, AtRest DEF RaceTypes
    <2>2. CASE race_disp' = [Race!Free EXCEPT !.pc = "take", !.msg = m]
      BY <1>1, <2>2, AtRest DEF DispTypes
    <2>3. CASE race_disp' = [pc |-> "check", msg |-> m, snap |-> race_row, kind |-> Race!trade_row_state(m.idx)]
      BY <1>1, <2>3 DEF DispTypes, RaceTypes, Race!trade_row_state
    <2>. QED BY <2>1, <2>2, <2>3 DEF Race!dispatch
  <1>3. race_req' \in [Race!Gens -> {"no", "waiting", "detached", "done", "gone"}]
    BY DEF RaceTypes, Race!dispatch
  <1>. QED BY <1>2, <1>3 DEF RaceTypes, Race!dispatch, Race!local, Race!daemon, Race!counts, Race!roles

LEMMA TakeTyped ==
    ASSUME RaceInv, Race!persist_confirmed_take
    PROVE  RaceTypes'
  <1>1. RaceTypes /\ race_disp.pc = "take" /\ race_disp.msg \in Race!Message
    BY DEF RaceInv, RowBound, RaceTypes, Race!persist_confirmed_take
  <1>2. race_disp.msg.action = "AddInvoice" /\ race_disp.msg.idx \in Race!Gens
    BY <1>1, MessageFields DEF RaceInv, OneByOne
  <1>. DEFINE s == Race!status_for_action[race_disp.msg.action]
  <1>3. s \in Race!Statuses
    BY <1>2, StatusOfAction
  <1>4. /\ race_row' = Race!Row(s, race_disp.msg.idx) /\ Race!BookStatus(s)
        /\ race_bound' = race_disp.msg.idx /\ race_tomb' = 0 /\ race_disp' = Race!Free
        /\ UNCHANGED <<race_cursor, race_note, race_req, race_sweep, race_seen, race_net, race_order, race_now,
                       race_restarts, race_sweeps, race_is_mine, race_unwritten, race_wiped>>
    BY DEF Race!persist_confirmed_take, Race!daemon, Race!counts, Race!roles
  <1>. HIDE DEF s
  <1>5. race_row' \in Judged /\ race_book' \in Shown /\ race_disp' \in DispTypes
    BY <1>1, <1>2, <1>3, <1>4, RowFields, BookTyped, AtRest DEF Judged
  <1>6. race_wire' \in [Paths -> WireTypes]
    <2>1. race_wire' = [p \in Paths |-> IF p = "book" THEN race_wire[p]
                                        ELSE IF race_wire[p].pc = "off" THEN Race!Watching(0)
                                        ELSE [race_wire[p] EXCEPT !.at = 0]]
      BY DEF Race!persist_confirmed_take
    <2>2. Race!Watching(0) \in WireTypes /\ 0 \in 0 .. MaxEvents
      BY AtRest, RaceConsts
    <2>3. ASSUME NEW p \in Paths PROVE [race_wire[p] EXCEPT !.at = 0] \in WireTypes
      BY <1>1, <2>2 DEF RaceTypes, WireTypes
    <2>. QED BY <1>1, <2>1, <2>2, <2>3 DEF RaceTypes
  <1>7. \A p \in Paths : race_wire'[p].pc = "sync" => race_wire'[p].status \in Publics
    <2>1. ASSUME NEW p \in Paths, race_wire'[p].pc = "sync"
          PROVE  race_wire[p].pc = "sync" /\ race_wire'[p].status = race_wire[p].status
      <3>1. 0 \in 0 .. MaxEvents /\ race_wire[p] \in WireTypes
        BY <1>1, RaceConsts DEF RaceTypes
      <3>. QED BY <2>1, <3>1, AtRest DEF Race!persist_confirmed_take, WireTypes
    <2>. QED BY <1>1, <2>1 DEF RaceTypes
  <1>8. race_bound' \in 0 .. MaxGen /\ race_tomb' \in 0 .. MaxGen
    BY <1>2, <1>4, RaceConsts
  <1>. QED BY <1>1, <1>4, <1>5, <1>6, <1>7, <1>8 DEF RaceTypes

LEMMA CursorTyped ==
    ASSUME RaceTypes, NEW m \in Race!Message, Race!record_status_event(m)
    PROVE  race_cursor' \in 0 .. MaxEvents
  BY MessageFields, RaceConsts DEF RaceTypes, Race!record_status_event

LEMMA ChecksTyped ==
    ASSUME RaceInv, Race!check_new_order \/ Race!check_dropped \/ Race!check_canceled \/ Race!check_status
    PROVE  RaceTypes'
  <1>. DEFINE m == race_disp.msg
              s == Race!status_for_action[m.action]
  <1>1. RaceTypes /\ race_disp.pc = "check" /\ m \in Race!Message /\ m.idx \in Race!Gens
    BY MessageFields DEF RaceInv, RowBound, RaceTypes, Race!check_new_order, Race!check_dropped,
       Race!check_canceled, Race!check_status
  <1>2. /\ UNCHANGED <<race_book, race_note, race_req, race_wire, race_sweep, race_seen, race_net, race_order,
                       race_now, race_restarts, race_sweeps, race_is_mine, race_unwritten, race_wiped>>
        /\ race_cursor' = race_cursor \/ Race!record_status_event(m)
    BY DEF Race!check_new_order, Race!check_dropped, Race!check_canceled, Race!check_status, Race!local,
       Race!daemon, Race!counts, Race!roles
  <1>3. race_cursor' \in 0 .. MaxEvents
    BY <1>1, <1>2, CursorTyped DEF RaceTypes
  <1>4. \A p \in {"write", "wipe"} :
          /\ [race_disp EXCEPT !.pc = p] \in DispTypes
          /\ [race_disp EXCEPT !.pc = p, !.snap = Race!NoRow] \in DispTypes
          /\ \A r \in Judged : [race_disp EXCEPT !.pc = p, !.kind = "Exists", !.snap = r] \in DispTypes
    BY <1>1, RowFields DEF RaceTypes, DispTypes
  <1>5. /\ race_row' \in Judged /\ race_bound' \in 0 .. MaxGen /\ race_tomb' \in 0 .. MaxGen
        /\ race_disp' \in DispTypes
    <2>1. CASE Race!check_new_order
      <3>1. "Pending" \in Race!Statuses
        BY DEF Race!Statuses
      <3>2. Race!Row("Pending", m.idx) \in Judged /\ m.idx \in 0 .. MaxGen /\ 0 \in 0 .. MaxGen
        BY <1>1, <3>1, RowFields, RaceConsts DEF Judged
      <3>. QED BY <1>1, <1>4, <2>1, <3>2, AtRest DEF Race!check_new_order, Race!Recreate, RaceTypes
    <2>2. CASE Race!check_dropped \/ Race!check_canceled
      BY <1>1, <1>4, <2>2, AtRest DEF Race!check_dropped, Race!check_canceled, Race!local, RaceTypes
    <2>3. CASE Race!check_status
      <3>1. s \in Race!Statuses
        BY <2>3, StatusOfAction DEF Race!check_status
      <3>2. Race!Row(s, m.idx) \in Judged /\ m.idx \in 0 .. MaxGen /\ 0 \in 0 .. MaxGen
        BY <1>1, <3>1, RowFields, RaceConsts DEF Judged
      <3>3. Race!Row(s, m.idx).status = s
        BY DEF Race!Row
      <3>. QED BY <1>1, <1>4, <2>3, <3>2, <3>3 DEF Race!check_status, Race!Recreate, RaceTypes
    <2>. QED BY <2>1, <2>2, <2>3
  <1>. HIDE DEF m
  <1>. QED BY <1>1, <1>2, <1>3, <1>5 DEF RaceTypes

LEMMA WritesTyped ==
    ASSUME RaceInv, Race!write_status \/ Race!wipe_row \/ Race!leave_tombstone
    PROVE  RaceTypes'
  <1>1. RaceTypes /\ (race_disp.pc = "write" => race_disp.msg \in Race!Message)
    BY DEF RaceInv, RowBound, RaceTypes
  <1>2. CASE Race!write_status
    <2>. DEFINE s == Race!Written(race_disp.msg.action)
    <2>1. s \in Race!Statuses
      BY <1>1, <1>2, MessageFields, StatusOfAction DEF Race!write_status
    <2>2. race_row' = race_row \/ Race!WriteStatus(s)
      BY <1>2 DEF Race!write_status
    <2>3. race_book' = race_book \/ Race!BookStatus(s)
      BY <1>2 DEF Race!write_status
    <2>4. race_note' \in Shown
      BY <1>1, <1>2 DEF Race!write_status, RaceTypes, Shown
    <2>5. race_row' \in Judged
      BY <1>1, <2>1, <2>2, WritesStatus DEF RaceTypes
    <2>6. race_book' \in Shown
      BY <1>1, <2>1, <2>3, BookTyped DEF RaceTypes
    <2>. QED BY <1>1, <1>2, <2>4, <2>5, <2>6, AtRest
           DEF RaceTypes, Race!write_status, Race!daemon, Race!counts, Race!roles
  <1>3. CASE Race!wipe_row
    <2>1. [race_disp EXCEPT !.pc = "tomb"] \in DispTypes
      BY <1>1 DEF RaceTypes, DispTypes
    <2>. QED BY <1>1, <1>3, <2>1, RowFields DEF RaceTypes, Race!wipe_row, Race!daemon, Race!counts, Race!roles
  <1>4. CASE Race!leave_tombstone
    <2>1. race_disp.snap.idx \in 0 .. MaxGen
      BY <1>1, RowFields DEF RaceTypes, DispTypes
    <2>. QED BY <1>1, <1>4, <2>1, TombTyped, HandBackTyped, AtRest
           DEF RaceTypes, Race!leave_tombstone, Race!daemon, Race!counts, Race!roles
  <1>. QED BY <1>2, <1>3, <1>4

LEMMA FeedsTyped ==
    ASSUME RaceTypes,
           \/ \E p \in Paths : \/ Race!read_public(p) \/ Race!public_wipe(p)
                               \/ Race!public_tombstone(p) \/ Race!public_sync(p)
           \/ Race!d_tag_task_ends
    PROVE  RaceTypes'
  <1>1. \A p \in Paths : \A w \in WireTypes : [race_wire EXCEPT ![p] = w] \in [Paths -> WireTypes]
    BY DEF RaceTypes
  <1>. DEFINE Synced == \A q \in Paths : race_wire'[q].pc = "sync" => race_wire'[q].status \in Publics
  <1>0. ASSUME NEW p \in Paths, NEW w \in WireTypes, race_wire' = [race_wire EXCEPT ![p] = w],
               w.pc = "sync" => w.status \in Publics
        PROVE  Synced
    BY <1>0 DEF RaceTypes
  <1>2. ASSUME NEW p \in Paths, Race!read_public(p) PROVE RaceTypes'
    <2>1. \A c \in {"wipe", "sync"} :
            [pc |-> c, status |-> race_order.public, local |-> Race!local_trade_status, idx |-> race_row.idx,
             own |-> race_is_mine /\ race_bound # 0 /\ race_row # Race!NoRow, at |-> race_order.at] \in WireTypes
      <3>1. race_order.public \in Shown /\ race_order.at \in 0 .. MaxEvents
        BY DEF RaceTypes, Publics, Shown, Race!Statuses, Race!HardTerminal
      <3>2. race_row.idx \in 0 .. MaxGen
        BY RowFields DEF RaceTypes
      <3>3. (race_is_mine /\ race_bound # 0 /\ race_row # Race!NoRow) \in BOOLEAN
        BY RaceConsts DEF RaceTypes
      <3>. QED BY <3>1, <3>2, <3>3, LocalTyped DEF WireTypes
    <2>2. race_wire' \in [Paths -> WireTypes]
      BY <1>1, <1>2, <2>1 DEF Race!read_public
    <2>3. race_note' \in Shown
      BY <1>2 DEF Race!read_public, RaceTypes, Publics, Shown, Race!Statuses, Race!HardTerminal
    <2>4. race_order.public \in Publics
      BY DEF RaceTypes
    <2>5. Synced
      BY <1>2, <1>0, <2>1, <2>4 DEF Race!read_public
    <2>. QED BY <1>2, <2>2, <2>3, <2>5 DEF RaceTypes, Race!read_public, Race!daemon, Race!counts, Race!roles
  <1>3. ASSUME NEW p \in Paths, Race!public_wipe(p) PROVE RaceTypes'
    <2>1. race_wire' \in [Paths -> WireTypes] /\ Synced
      <3>1. race_wire' = [race_wire EXCEPT ![p] = [race_wire[p] EXCEPT !.pc = "tomb"]]
        BY <1>3 DEF Race!public_wipe
      <3>2. [race_wire[p] EXCEPT !.pc = "tomb"] \in WireTypes /\ [race_wire[p] EXCEPT !.pc = "tomb"].pc = "tomb"
        BY DEF RaceTypes, WireTypes
      <3>. QED BY <1>1, <1>0, <3>1, <3>2
    <2>. QED BY <1>3, <2>1, RowFields DEF RaceTypes, Race!public_wipe, Race!daemon, Race!counts, Race!roles
  <1>4. ASSUME NEW p \in Paths, Race!public_tombstone(p) PROVE RaceTypes'
    <2>1. race_wire[p].idx \in 0 .. MaxGen /\ race_wire[p].status \in Shown /\ race_wire[p].at \in 0 .. MaxEvents
      BY DEF RaceTypes, WireTypes
    <2>2. race_wire' \in [Paths -> WireTypes] /\ Synced
      BY <1>1, <1>0, <1>4, <2>1, AtRest DEF Race!public_tombstone
    <2>3. race_book' \in Shown /\ race_note' \in Shown
      BY <1>4, <2>1, HandBackTyped DEF Race!public_tombstone, Shown
    <2>. QED BY <1>4, <2>1, <2>2, <2>3, TombTyped
           DEF RaceTypes, Race!public_tombstone, Race!daemon, Race!counts, Race!roles
  <1>5. ASSUME NEW p \in Paths, Race!public_sync(p) PROVE RaceTypes'
    <2>1. race_wire[p].local \in Shown /\ race_wire[p].status \in Shown /\ race_wire[p].at \in 0 .. MaxEvents
      BY DEF RaceTypes, WireTypes
    <2>0. race_wire[p].status \in Race!Statuses
      BY <1>5 DEF Race!public_sync, RaceTypes, Publics, Race!Statuses, Race!HardTerminal
    <2>2. race_wire' \in [Paths -> WireTypes] /\ Synced
      BY <1>1, <1>0, <1>5, <2>1, AtRest DEF Race!public_sync
    <2>3. race_book' \in Shown /\ race_note' \in Shown
      BY <1>5, <2>1 DEF Race!public_sync, Shown, RaceTypes
    <2>4. race_row' = race_row \/ Race!WriteStatus(race_wire[p].status)
      BY <1>5 DEF Race!public_sync
    <2>5. race_row' \in Judged
      BY <2>0, <2>4, WritesStatus DEF RaceTypes
    <2>. QED BY <1>5, <2>2, <2>3, <2>5 DEF RaceTypes, Race!public_sync, Race!daemon, Race!counts, Race!roles
  <1>6. CASE Race!d_tag_task_ends
    <2>1. race_wire' \in [Paths -> WireTypes] /\ Synced
      BY <1>1, <1>6, <1>0, AtRest DEF Race!d_tag_task_ends
    <2>. QED BY <1>6, <2>1 DEF RaceTypes, Race!d_tag_task_ends, Race!local, Race!daemon, Race!counts, Race!roles
  <1>. QED BY <1>2, <1>3, <1>4, <1>5, <1>6

LEMMA SweepTyped ==
    ASSUME RaceTypes,
           \/ Race!age \/ Race!sweep_list \/ Race!sweep_view \/ Race!sweep_keep \/ Race!sweep_wipe
           \/ Race!sweep_tombstone \/ Race!sweep_pending \/ Race!sweep_success \/ Race!confirm_payout_completion
    PROVE  RaceTypes'
  <1>0. "Pending" \in Race!Statuses /\ "Success" \in Race!Statuses
    BY DEF Race!Statuses, Race!HardTerminal
  <1>1. CASE Race!age
    <2>1. race_row \in Race!TradeInfo
      BY <1>1, RowFields DEF Race!age, RaceTypes, Race!Waiting
    <2>2. race_row' \in Judged
      BY <1>1, <2>1 DEF Race!age, Judged, Race!TradeInfo
    <2>. QED BY <1>1, <2>2 DEF RaceTypes, Race!age, Race!daemon, Race!counts, Race!roles
  <1>2. CASE Race!sweep_list
    <2>1. race_sweep' \in SweepTypes
      BY <1>2 DEF Race!sweep_list, RaceTypes, SweepTypes, Shown
    <2>. QED BY <1>2, <2>1 DEF RaceTypes, Race!sweep_list, Race!local, Race!daemon, Race!roles
  <1>3. CASE Race!sweep_view
    <2>1. PICK v \in IF race_book # Race!None THEN {race_book} ELSE {race_order.public, Race!None} :
            race_sweep' = [race_sweep EXCEPT !.pc = "viewed", !.view = v]
      BY <1>3 DEF Race!sweep_view
    <2>2. v \in Shown
      BY <2>1 DEF RaceTypes, Publics, Shown, Race!Statuses, Race!HardTerminal
    <2>3. race_sweep' \in SweepTypes
      BY <2>1, <2>2 DEF RaceTypes, SweepTypes
    <2>. QED BY <1>3, <2>3 DEF RaceTypes, Race!sweep_view, Race!local, Race!daemon, Race!counts, Race!roles
  <1>4. CASE Race!sweep_keep
    BY <1>4, AtRest DEF RaceTypes, Race!sweep_keep, Race!local, Race!daemon, Race!counts, Race!roles
  <1>5. CASE Race!sweep_wipe
    <2>1. race_sweep' \in SweepTypes
      BY <1>5 DEF Race!sweep_wipe, RaceTypes, SweepTypes
    <2>. QED BY <1>5, <2>1, RowFields DEF RaceTypes, Race!sweep_wipe, Race!daemon, Race!counts, Race!roles
  <1>6. CASE Race!sweep_tombstone
    <2>1. race_sweep.snap.idx \in 0 .. MaxGen
      BY RowFields DEF RaceTypes, SweepTypes
    <2>. QED BY <1>6, <2>1, TombTyped, HandBackTyped, AtRest
           DEF RaceTypes, Race!sweep_tombstone, Race!daemon, Race!counts, Race!roles
  <1>7. CASE Race!sweep_pending
    <2>1. race_row' \in Judged
      BY <1>0, <1>7, WritesStatus DEF Race!sweep_pending, RaceTypes
    <2>. QED BY <1>7, <2>1, AtRest DEF RaceTypes, Race!sweep_pending, Race!daemon, Race!counts, Race!roles
  <1>8. CASE Race!sweep_success \/ Race!confirm_payout_completion
    <2>1. \/ Race!WriteStatus("Success") /\ Race!BookStatus("Success")
          \/ UNCHANGED <<race_row, race_book>>
      BY <1>8 DEF Race!sweep_success, Race!confirm_payout_completion, Race!PayoutCompleted
    <2>2. race_row' \in Judged
      BY <1>0, <2>1, WritesStatus DEF RaceTypes
    <2>3. race_book' \in Shown
      BY <1>0, <2>1, BookTyped DEF RaceTypes
    <2>. QED BY <1>8, <2>2, <2>3, AtRest
           DEF RaceTypes, Race!sweep_success, Race!confirm_payout_completion, Race!daemon, Race!counts, Race!roles
  <1>. QED BY <1>1, <1>2, <1>3, <1>4, <1>5, <1>6, <1>7, <1>8

(* What a step of the daemon does to the order.                              *)
DaemonStep ==
    \/ \E g \in Race!Gens : Race!accept_take(g)
    \/ Race!taken_by_other \/ Race!pay_out \/ Race!lapse \/ Race!cancel \/ Race!expire
    \/ \E a \in DOMAIN Race!Flow : Race!progress(a)

LEMMA MovesTyped ==
    ASSUME RaceTypes, NEW s \in Race!Statuses, NEW g \in 0 .. MaxGen, NEW p \in Publics, Race!Moves(s, g, p)
    PROVE  /\ race_order' \in [status : Race!Statuses, gen : 0 .. MaxGen, public : Publics, at : 0 .. MaxEvents]
           /\ race_order'.status = s /\ race_order'.gen = g
           /\ race_now' \in 0 .. MaxEvents /\ race_now + 1 \in 1 .. MaxEvents
  <1>1. race_now' = race_now + 1 /\ race_now' \in 0 .. MaxEvents /\ race_now + 1 \in 1 .. MaxEvents
    BY RaceConsts DEF RaceTypes, Race!Moves
  <1>2. CASE p = race_order.public
    <2>1. race_order' = [race_order EXCEPT !.status = s, !.gen = g]
      BY <1>2 DEF Race!Moves
    <2>. QED BY <1>1, <2>1 DEF RaceTypes
  <1>3. CASE p # race_order.public
    <2>1. race_order' = [status |-> s, gen |-> g, public |-> p, at |-> race_now + 1]
      BY <1>3 DEF Race!Moves
    <2>2. race_now + 1 \in 0 .. MaxEvents
      BY <1>1, RaceConsts
    <2>. QED BY <1>1, <2>1, <2>2
  <1>. QED BY <1>2, <1>3

LEMMA FlowStatuses ==
    ASSUME NEW a \in DOMAIN Race!Flow
    PROVE  /\ a \in DOMAIN Race!status_for_action /\ a # "AddInvoice"
           /\ "Pending" \notin Race!Flow[a] /\ "Canceled" \notin Race!Flow[a]
           /\ Race!status_for_action[a] # "Pending"
           /\ (race_order.public \in Publics => Race!Published(a) \in Publics)
  <1>1. DOMAIN Race!Flow = {"WaitingSellerToPay", "HoldInvoicePaymentAccepted", "FiatSentOk", "Released",
          "DisputeInitiatedByPeer", "PurchaseCompleted", "CooperativeCancelAccepted", "AdminSettled", "AdminCanceled"}
    BY DEF Race!Flow
  <1>2. DOMAIN Race!status_for_action =
          {"AddInvoice", "WaitingSellerToPay", "HoldInvoicePaymentAccepted", "FiatSentOk", "Released",
           "PurchaseCompleted", "CooperativeCancelAccepted", "DisputeInitiatedByPeer", "AdminSettled", "AdminCanceled"}
    BY DEF Race!status_for_action
  <1>3. "Pending" \notin Race!Flow[a] /\ "Canceled" \notin Race!Flow[a]
    BY <1>1 DEF Race!Flow
  <1>4. Race!status_for_action[a] # "Pending"
    BY <1>1 DEF Race!status_for_action
  <1>5. race_order.public \in Publics => Race!Published(a) \in Publics
    BY DEF Race!Published, Publics
  <1>. QED BY <1>1, <1>2, <1>3, <1>4, <1>5

(* A step of the daemon: what it sends, if anything, and where the order is  *)
(* afterwards.                                                               *)
LEMMA DaemonMoves ==
    ASSUME RaceTypes, Dealt, DaemonStep
    PROVE  \E s \in Race!Statuses, p \in Publics, g \in 0 .. MaxGen :
             /\ Race!Moves(s, g, p)
             /\ g = race_order.gen \/ (/\ ~race_is_mine /\ race_req[g] # "no" /\ g > race_order.gen)
             /\ g = 0 => s \in {"Pending", "Canceled"}
             /\ \/ race_net' = race_net
                \/ \E a \in Race!Actions, r \in BOOLEAN :
                     /\ g # 0 /\ Race!Sends(a, g, r)
                     /\ a = "NewOrder" => race_is_mine
                     /\ r => a = "AddInvoice"
                     /\ a # "Canceled" => ~Race!TakeOpen \/ race_is_mine \/ (a = "AddInvoice" /\ r)
             /\ UNCHANGED <<race_row, race_tomb, race_cursor, race_bound, race_book, race_note, race_req, race_disp,
                            race_wire, race_sweep, race_seen, race_is_mine, race_unwritten, race_wiped>>
  <1>. DEFINE Kept == UNCHANGED <<race_row, race_tomb, race_cursor, race_bound, race_book, race_note, race_req,
                        race_disp, race_wire, race_sweep, race_seen, race_is_mine, race_unwritten, race_wiped>>
              gen == race_order.gen
              Tells(s, p, g) ==
                /\ Race!Moves(s, g, p)
                /\ g = race_order.gen \/ (/\ ~race_is_mine /\ race_req[g] # "no" /\ g > race_order.gen)
                /\ g = 0 => s \in {"Pending", "Canceled"}
                /\ \/ race_net' = race_net
                   \/ \E a \in Race!Actions, r \in BOOLEAN :
                        /\ g # 0 /\ Race!Sends(a, g, r)
                        /\ a = "NewOrder" => race_is_mine
                        /\ r => a = "AddInvoice"
                        /\ a # "Canceled" => ~Race!TakeOpen \/ race_is_mine \/ (a = "AddInvoice" /\ r)
  <1>1. UNCHANGED Race!Client => Kept
    BY DEF Race!Client, Race!local, Race!counts, Race!roles
  <1>2. /\ {"WaitingBuyerInvoice", "Success", "Pending", "Canceled"} \subseteq Race!Statuses
        /\ {"NewOrder", "Canceled", "AddInvoice"} \subseteq Race!Actions
        /\ {"InProgress", "Success", "Pending", "Canceled"} = Publics
        /\ gen \in 0 .. MaxGen /\ race_order.public \in Publics /\ TRUE \in BOOLEAN /\ FALSE \in BOOLEAN
    BY StatusOfAction DEF Race!Statuses, Race!HardTerminal, Race!Waiting, Publics, RaceTypes
  <1>3. CASE \E g \in Race!Gens : Race!accept_take(g)
    <2>1. PICK g \in Race!Gens : Race!accept_take(g)
      BY <1>3
    <2>2. g \in 0 .. MaxGen /\ g # 0
      BY RaceConsts
    <2>3. Tells("WaitingBuyerInvoice", "InProgress", g) /\ Kept
      BY <1>1, <1>2, <2>1, <2>2 DEF Race!accept_take
    <2>. QED BY <1>2, <2>2, <2>3
  <1>4. CASE Race!taken_by_other
    <2>1. 1 \in 0 .. MaxGen /\ gen = 1
      BY <1>4, RaceConsts DEF Race!taken_by_other, Dealt
    <2>2. Race!Moves("WaitingBuyerInvoice", 1, "InProgress") /\ Race!Sends("AddInvoice", 1, FALSE) /\ race_is_mine
      BY <1>4 DEF Race!taken_by_other
    <2>3. Tells("WaitingBuyerInvoice", "InProgress", 1)
      <3>1. \E a \in Race!Actions, r \in BOOLEAN :
              /\ 1 # 0 /\ Race!Sends(a, 1, r)
              /\ a = "NewOrder" => race_is_mine
              /\ r => a = "AddInvoice"
              /\ a # "Canceled" => ~Race!TakeOpen \/ race_is_mine \/ (a = "AddInvoice" /\ r)
        <4>1. "AddInvoice" \in Race!Actions /\ FALSE \in BOOLEAN
          BY <1>2
        <4>2. 1 # 0 /\ ("AddInvoice" = "NewOrder" => race_is_mine) /\ (FALSE => "AddInvoice" = "AddInvoice")
          BY <2>2
        <4>. QED BY <2>2, <4>1, <4>2, Zenon
      <3>. QED BY <2>1, <2>2, <3>1
    <2>4. Kept
      BY <1>1, <1>4 DEF Race!taken_by_other
    <2>. QED BY <1>2, <2>1, <2>3, <2>4
  <1>5. CASE Race!pay_out
    <2>1. gen # 0
      BY <1>5 DEF Race!pay_out, Dealt
    <2>2. Tells("Success", "Success", gen) /\ Kept
      BY <1>1, <1>2, <1>5, <2>1 DEF Race!pay_out
    <2>. QED BY <1>2, <2>2
  <1>6. CASE Race!lapse
    <2>1. gen # 0 /\ (race_is_mine => gen = 1)
      BY <1>6 DEF Race!lapse, Dealt, Race!Waiting
    <2>2. Tells("Pending", "Pending", gen) /\ Kept
      BY <1>1, <1>2, <1>6, <2>1 DEF Race!lapse
    <2>. QED BY <1>2, <2>2
  <1>7. CASE Race!cancel
    <2>1. race_is_mine \/ race_order.status # "Pending" => gen # 0
      BY <1>7 DEF Race!cancel, Dealt, Race!Waiting
    <2>2. Tells("Canceled", "Canceled", gen) /\ Kept
      BY <1>1, <1>2, <1>7, <2>1 DEF Race!cancel
    <2>. QED BY <1>2, <2>2
  <1>8. CASE Race!expire
    <2>1. Tells("Canceled", "Canceled", gen) /\ Kept
      BY <1>1, <1>2, <1>8 DEF Race!expire
    <2>. QED BY <1>2, <2>1
  <1>9. CASE \E a \in DOMAIN Race!Flow : Race!progress(a)
    <2>1. PICK a \in DOMAIN Race!Flow : Race!progress(a)
      BY <1>9
    <2>2. gen # 0 /\ a \in Race!Actions /\ a # "NewOrder" /\ Race!status_for_action[a] \in Race!Statuses
      BY <2>1, FlowStatuses, StatusOfAction DEF Race!progress, Dealt, Race!status_for_action
    <2>3. Tells(Race!status_for_action[a], Race!Published(a), gen) /\ Kept
      BY <1>1, <1>2, <2>1, <2>2, FlowStatuses DEF Race!progress
    <2>. QED BY <1>2, <2>2, <2>3, FlowStatuses
  <1>. QED BY <1>3, <1>4, <1>5, <1>6, <1>7, <1>8, <1>9 DEF DaemonStep

LEMMA DaemonTyped == ASSUME RaceTypes, Dealt, DaemonStep PROVE RaceTypes'
  <1>1. PICK s \in Race!Statuses, p \in Publics, g \in 0 .. MaxGen :
          /\ Race!Moves(s, g, p)
          /\ \/ race_net' = race_net
             \/ \E a \in Race!Actions, r \in BOOLEAN : g # 0 /\ Race!Sends(a, g, r)
          /\ UNCHANGED <<race_row, race_tomb, race_cursor, race_bound, race_book, race_note, race_req, race_disp,
                         race_wire, race_sweep, race_seen, race_is_mine, race_unwritten, race_wiped>>
    BY DaemonMoves
  <1>2. /\ race_order' \in [status : Race!Statuses, gen : 0 .. MaxGen, public : Publics, at : 0 .. MaxEvents]
        /\ race_now' \in 0 .. MaxEvents /\ race_now + 1 \in 1 .. MaxEvents
    BY <1>1, MovesTyped
  <1>3. race_net' \subseteq Race!Message /\ race_seen' \subseteq race_net'
    <2>1. g # 0 => g \in Race!Gens
      BY RaceConsts
    <2>. QED BY <1>1, <1>2, <2>1 DEF Race!Sends, RaceTypes, Race!Message
  <1>. QED BY <1>1, <1>2, <1>3 DEF RaceTypes

LEMMA RestartTyped == ASSUME RaceTypes, Race!restart PROVE RaceTypes'
  <1>1. race_req' \in [Race!Gens -> {"no", "waiting", "detached", "done", "gone"}]
    BY DEF Race!restart
  <1>2. race_wire' \in [Paths -> WireTypes] /\ \A p \in Paths : race_wire'[p].pc # "sync"
    <2>1. 0 \in 0 .. MaxEvents
      BY RaceConsts
    <2>. QED BY <2>1, AtRest DEF Race!restart
  <1>. QED BY <1>1, <1>2, AtRest DEF Race!restart, RaceTypes, Race!daemon, Race!roles, Shown

-----------------------------------------------------------------------------
(* Who takes no part in a take leaves all of it as it is: a handler goes on  *)
(* with its message or ends.                                                 *)
Apart ==
    /\ UNCHANGED <<race_req, race_net, race_order, race_is_mine, race_bound>>
    /\ \/ race_disp' = race_disp
       \/ race_disp'.pc = "idle"
       \/ race_disp'.msg = race_disp.msg /\ {race_disp.pc, race_disp'.pc} \cap {"idle", "take"} = {}

LEMMA TakeFacts ==
    ASSUME RaceInv
    PROVE  /\ race_net \subseteq Race!Message
           /\ \A m \in race_net : m.idx \in Race!Gens /\ m.idx \in Nat
           /\ race_order.gen \in Nat /\ race_bound \in Nat /\ \A g \in Race!Gens : g \in Nat /\ g # 0
           /\ \A g \in Race!Gens : race_req[g] \in {"no", "waiting", "detached", "done", "gone"}
           /\ race_disp \in DispTypes
  BY MessageFields, RaceConsts DEF RaceInv, RaceTypes

LEMMA ApartKeeps == ASSUME RaceInv, Apart PROVE Dealt' /\ OneByOne'
  <1>1. Dealt'
    BY DEF RaceInv, Dealt, Apart
  <1>2. \A g \in Race!Gens : Taking(g)' => Taking(g)
    BY DEF Apart, Taking
  <1>3. OneByOne'
    <2>1. race_disp'.pc = "take" => race_disp' = race_disp
      BY DEF Apart
    <2>2. \A g \in Race!Gens : race_disp'.pc \notin {"idle", "take"} /\ race_disp'.msg.idx = g =>
            race_disp.pc \notin {"idle", "take"} /\ race_disp.msg.idx = g /\ race_disp'.msg = race_disp.msg
      BY DEF Apart
    <2>. QED BY <1>2, <2>1, <2>2 DEF RaceInv, OneByOne, Apart
  <1>. QED BY <1>1, <1>3

LEMMA TakeOrderKeeps ==
    ASSUME RaceInv, NEW g \in Race!Gens, Race!take_order(g) \/ Race!take_timeout(g)
    PROVE  Dealt' /\ OneByOne'
  <1>1. /\ UNCHANGED <<race_net, race_order, race_is_mine, race_bound, race_disp>>
        /\ \A h \in Race!Gens : h # g => race_req'[h] = race_req[h]
        /\ race_req'[g] # "no"
    <2>1. UNCHANGED <<race_net, race_order, race_is_mine, race_bound, race_disp>>
      BY DEF Race!take_order, Race!take_timeout, Race!local, Race!daemon, Race!counts, Race!roles
    <2>2. race_req' = [race_req EXCEPT ![g] = "waiting"] \/ race_req' = [race_req EXCEPT ![g] = "detached"]
      BY DEF Race!take_order, Race!take_timeout
    <2>3. race_req \in [Race!Gens -> {"no", "waiting", "detached", "done", "gone"}]
      BY DEF RaceInv, RaceTypes
    <2>. QED BY <2>1, <2>2, <2>3
  <1>2. CASE Race!take_order(g)
    <2>1. /\ ~race_is_mine /\ race_disp.pc # "take" /\ g > race_order.gen /\ g > race_bound /\ race_req[g] = "no"
          /\ \A h \in Race!Gens : race_req[h] # "waiting" /\ (h < g => race_req[h] # "no" \/ h <= race_order.gen)
      BY <1>2 DEF Race!take_order
    <2>2. Dealt'
      <3>1. race_order.gen # 0 => race_order.gen \in Race!Gens
        BY RaceConsts DEF RaceInv, RaceTypes
      <3>. QED BY <1>1, <2>1, <3>1, TakeFacts DEF RaceInv, Dealt
    <2>3. \A h \in Race!Gens : Taking(h)' => h = g
      BY <1>1, <2>1 DEF Taking
    <2>4. \A h \in Race!Gens : h > g => race_req[h] = "no"
      <3>1. ASSUME NEW h \in Race!Gens, h > g PROVE race_req[h] = "no"
        <4>1. race_req[h] # "no" => g <= race_order.gen
          BY <2>1, <3>1 DEF RaceInv, OneByOne
        <4>. QED BY <2>1, <4>1, TakeFacts
      <3>. QED BY <3>1
    <2>5. \A m \in race_net : m.idx # g
      <3>1. \A m \in race_net : m.idx <= race_order.gen
        BY DEF RaceInv, Dealt
      <3>. QED BY <2>1, <3>1, TakeFacts
    <2>6. race_disp.pc # "idle" => race_disp.msg \in race_net
      BY DEF RaceInv, RowBound
    <2>7. \A h, i \in Race!Gens : h < i /\ race_req'[i] # "no" => race_req'[h] # "no" \/ h <= race_order'.gen
      BY <1>1, <2>1 DEF RaceInv, OneByOne
    <2>8. ASSUME NEW h \in Race!Gens, Taking(h)'
          PROVE  /\ race_bound' < h /\ race_order'.gen <= h
                 /\ \A i \in Race!Gens : (i > h => race_req'[i] = "no") /\ (Taking(i)' => i = h)
                 /\ \A m \in race_net' : m.idx = h => m.action = "Canceled" \/ (m.action = "AddInvoice" /\ m.reply)
                 /\ race_disp'.pc \notin {"idle", "take"} /\ race_disp'.msg.idx = h => race_disp'.msg.action = "Canceled"
      <3>1. h = g
        BY <2>3, <2>8
      <3>2. race_bound' < h /\ race_order'.gen <= h
        BY <1>1, <2>1, <3>1, TakeFacts
      <3>3. \A i \in Race!Gens : (i > h => race_req'[i] = "no") /\ (Taking(i)' => i = h)
        BY <1>1, <2>3, <2>4, <3>1, TakeFacts
      <3>4. \A m \in race_net' : m.idx # h
        BY <1>1, <2>5, <3>1
      <3>5. race_disp'.pc # "idle" => race_disp'.msg.idx # h
        BY <1>1, <2>6, <3>4
      <3>. QED BY <3>2, <3>3, <3>4, <3>5
    <2>9. race_disp'.pc # "take"
      BY <1>1, <2>1
    <2>. QED BY <2>2, <2>7, <2>8, <2>9 DEF OneByOne
  <1>3. CASE Race!take_timeout(g)
    <2>1. race_req[g] = "waiting" /\ race_req'[g] = "detached"
      BY <1>3 DEF Race!take_timeout, RaceInv, RaceTypes
    <2>2. /\ \A h \in Race!Gens : Taking(h)' => Taking(h)
          /\ \A h \in Race!Gens : race_req'[h] = "no" <=> race_req[h] = "no"
          /\ \A h \in Race!Gens : race_req'[h] = "waiting" => race_req[h] = "waiting"
      BY <1>1, <2>1 DEF Taking
    <2>3. Dealt'
      BY <1>1, <2>2, TakeFacts DEF RaceInv, Dealt, RaceTypes, Race!Gens
    <2>. QED BY <1>1, <2>2, <2>3 DEF RaceInv, OneByOne
  <1>. QED BY <1>2, <1>3

LEMMA ReplyKeeps == ASSUME RaceInv, NEW m \in race_net, Race!dispatch(m) PROVE Dealt' /\ OneByOne' /\ RowBound'
  <1>1. /\ race_disp.pc = "idle"
        /\ UNCHANGED <<race_net, race_order, race_is_mine, race_bound, race_row>>
    BY DEF Race!dispatch, Race!local, Race!daemon, Race!counts, Race!roles
  <1>2. m \in Race!Message /\ m.idx \in Race!Gens /\ m.idx \in Nat
    BY TakeFacts
  <1>3. CASE Race!superseded(m) /\ UNCHANGED <<race_req, race_disp>>
    <2>1. Apart
      BY <1>1, <1>3 DEF Apart
    <2>. QED BY <1>1, <1>3, <2>1, ApartKeeps DEF RowBound, RaceInv
  <1>4. CASE /\ ~Race!superseded(m) /\ m.reply /\ race_req[m.idx] \in {"waiting", "detached"}
             /\ race_req' = [race_req EXCEPT ![m.idx] = "done"]
             /\ race_disp' = IF race_req[m.idx] = "waiting" THEN [Race!Free EXCEPT !.pc = "take", !.msg = m] ELSE Race!Free
    <2>1. /\ \A h \in Race!Gens : h # m.idx => race_req'[h] = race_req[h]
          /\ race_req'[m.idx] = "done"
      BY <1>2, <1>4 DEF RaceInv, RaceTypes
    <2>2. m.action = "AddInvoice" /\ ~race_is_mine
      <3>1. ~race_is_mine
        BY <1>2, <1>4 DEF RaceInv, Dealt
      <3>. QED BY <1>4, <3>1 DEF RaceInv, Dealt
    <2>3. race_disp'.pc \in {"idle", "take"}
          /\ (race_disp'.pc = "take" => race_req[m.idx] = "waiting" /\ race_disp'.msg = m)
      BY <1>4, AtRest DEF DispTypes
    <2>4. \A h \in Race!Gens : Taking(h)' => Taking(h)
      BY <1>2, <2>1, <2>3 DEF Taking
    <2>5. \A h \in Race!Gens : race_req'[h] = "no" <=> race_req[h] = "no"
      BY <1>2, <1>4, <2>1
    <2>6. Dealt'
      BY <1>1, <2>5, TakeFacts DEF RaceInv, Dealt, RaceTypes, Race!Gens
    <2>7. race_disp'.pc = "take" => /\ race_disp'.msg \in race_net' /\ race_disp'.msg.action = "AddInvoice"
                                    /\ ~race_is_mine'
                                    /\ \A h \in Race!Gens : race_req'[h] # "waiting"
      <3>1. ASSUME race_disp'.pc = "take", NEW h \in Race!Gens, race_req'[h] = "waiting" PROVE FALSE
        <4>1. h # m.idx /\ race_req[h] = "waiting" /\ race_req[m.idx] = "waiting"
          BY <2>1, <2>3, <3>1
        <4>2. Taking(h) /\ Taking(m.idx)
          BY <4>1 DEF Taking
        <4>. QED BY <1>2, <4>1, <4>2 DEF RaceInv, OneByOne
      <3>. QED BY <1>1, <2>2, <2>3, <3>1
    <2>8. OneByOne'
      BY <1>1, <2>3, <2>4, <2>5, <2>7 DEF RaceInv, OneByOne
    <2>9. RowBound'
      BY <1>1, <1>2, <1>4, <2>3, TakeFacts DEF RaceInv, RowBound, Race!superseded
    <2>. QED BY <2>6, <2>8, <2>9
  <1>5. CASE /\ ~Race!superseded(m) /\ ~(m.reply /\ race_req[m.idx] \in {"waiting", "detached"})
             /\ race_disp' = [pc |-> "check", msg |-> m, snap |-> race_row, kind |-> Race!trade_row_state(m.idx)]
             /\ UNCHANGED race_req
    <2>1. race_disp'.pc = "check" /\ race_disp'.msg = m
      BY <1>5
    <2>2. \A h \in Race!Gens : Taking(h)' => Taking(h) /\ race_req[h] = "waiting"
      BY <1>1, <1>5, <2>1 DEF Taking
    <2>3. Dealt'
      BY <1>1, <1>5 DEF RaceInv, Dealt
    <2>4. \A h \in Race!Gens : Taking(h)' /\ m.idx = h => m.action = "Canceled"
      BY <1>5, <2>2 DEF RaceInv, OneByOne
    <2>5. OneByOne'
      BY <1>1, <1>5, <2>1, <2>2, <2>4 DEF RaceInv, OneByOne
    <2>6. RowBound'
      BY <1>1, <1>2, <1>5, <2>1, TakeFacts DEF RaceInv, RowBound, Race!superseded
    <2>. QED BY <2>3, <2>5, <2>6
  <1>. QED BY <1>3, <1>4, <1>5 DEF Race!dispatch

(* A row is made of the handler's key, which is bound with it; a take under  *)
(* way is newer, or it is the one.                                           *)
LEMMA BindKeeps ==
    ASSUME RaceInv, UNCHANGED <<race_req, race_net, race_order, race_is_mine>>,
           race_disp.pc \in {"take", "check"}, race_bound' = race_disp.msg.idx,
           race_row' # Race!NoRow => race_row'.idx = race_bound',
           \/ race_disp'.pc = "idle"
           \/ race_disp'.msg = race_disp.msg /\ race_disp'.pc = "write" /\ race_disp.pc = "check",
           race_disp.pc = "check" => race_disp.msg.action \in {"AddInvoice", "HoldInvoicePaymentAccepted", "NewOrder"}
    PROVE  Dealt' /\ OneByOne' /\ RowBound'
  <1>1. race_disp.msg \in race_net /\ race_disp.msg.idx \in Race!Gens /\ race_disp.msg.idx \in Nat
    BY TakeFacts DEF RaceInv, RowBound
  <1>2. Dealt'
    BY DEF RaceInv, Dealt
  <1>3. \A g \in Race!Gens : Taking(g)' => Taking(g) /\ race_req[g] = "waiting"
    BY DEF Taking
  <1>4. ASSUME NEW g \in Race!Gens, Taking(g)' PROVE race_bound' < g
    <2>1. race_req[g] = "waiting" /\ Taking(g)
      BY <1>3, <1>4
    <2>2. race_disp.pc = "check"
      BY <2>1 DEF RaceInv, OneByOne
    <2>3. race_disp.msg.idx # g
      BY <2>1, <2>2 DEF RaceInv, OneByOne
    <2>4. race_disp.msg.idx <= race_order.gen /\ race_order.gen <= g
      BY <1>1, <2>1 DEF RaceInv, OneByOne, Dealt
    <2>. QED BY <1>1, <2>3, <2>4, TakeFacts
  <1>5. race_disp'.pc # "take"
    OBVIOUS
  <1>6. OneByOne'
    BY <1>3, <1>4, <1>5 DEF RaceInv, OneByOne
  <1>7. RowBound'
    BY <1>1 DEF RaceInv, RowBound
  <1>. QED BY <1>2, <1>6, <1>7

LEMMA DaemonKeeps == ASSUME RaceInv, DaemonStep PROVE Dealt' /\ OneByOne' /\ RowBound'
  <1>1. PICK s \in Race!Statuses, p \in Publics, g \in 0 .. MaxGen :
          /\ Race!Moves(s, g, p)
          /\ g = race_order.gen \/ (/\ ~race_is_mine /\ race_req[g] # "no" /\ g > race_order.gen)
          /\ g = 0 => s \in {"Pending", "Canceled"}
          /\ \/ race_net' = race_net
             \/ \E a \in Race!Actions, r \in BOOLEAN :
                  /\ g # 0 /\ Race!Sends(a, g, r)
                  /\ a = "NewOrder" => race_is_mine
                  /\ r => a = "AddInvoice"
                  /\ a # "Canceled" => ~Race!TakeOpen \/ race_is_mine \/ (a = "AddInvoice" /\ r)
          /\ UNCHANGED <<race_row, race_tomb, race_cursor, race_bound, race_book, race_note, race_req, race_disp,
                         race_wire, race_sweep, race_seen, race_is_mine, race_unwritten, race_wiped>>
    BY DaemonMoves DEF RaceInv
  <1>2. race_order'.status = s /\ race_order'.gen = g /\ g \in Nat /\ g >= race_order.gen
    BY <1>1, MovesTyped, TakeFacts, RaceConsts DEF RaceInv
  <1>3. /\ race_net \subseteq race_net'
        /\ \A m \in race_net' : m \in race_net \/
             /\ m.idx = g
             /\ m.action = "NewOrder" => race_is_mine
             /\ m.reply => m.action = "AddInvoice"
             /\ m.action # "Canceled" => ~Race!TakeOpen \/ race_is_mine \/ (m.action = "AddInvoice" /\ m.reply)
    <2>1. CASE race_net' = race_net
      BY <2>1
    <2>2. CASE race_net' # race_net
      <3>1. PICK a \in Race!Actions, r \in BOOLEAN :
              /\ g # 0 /\ Race!Sends(a, g, r)
              /\ a = "NewOrder" => race_is_mine
              /\ r => a = "AddInvoice"
              /\ a # "Canceled" => ~Race!TakeOpen \/ race_is_mine \/ (a = "AddInvoice" /\ r)
        BY <1>1, <2>2
      <3>. DEFINE n == [action |-> a, idx |-> g, ts |-> race_now + 1, reply |-> r]
      <3>2. race_net' = race_net \cup {n} /\ n.idx = g /\ n.action = a /\ n.reply = r
        BY <3>1 DEF Race!Sends
      <3>. HIDE DEF n
      <3>. QED BY <3>1, <3>2
    <2>. QED BY <2>1, <2>2
  <1>4. Dealt'
    <2>1. race_is_mine => g = race_order.gen
      BY <1>1
    <2>2. g = 0 => race_order.gen = 0
      BY <1>2, TakeFacts
    <2>3. \A m \in race_net' : m.idx <= g
      BY <1>2, <1>3, TakeFacts DEF RaceInv, Dealt
    <2>. QED BY <1>1, <1>2, <1>3, <2>1, <2>2, <2>3 DEF RaceInv, Dealt
  <1>5. \A h \in Race!Gens : Taking(h)' <=> Taking(h)
    BY <1>1 DEF Taking
  <1>6. ASSUME NEW h \in Race!Gens, Taking(h)
        PROVE  /\ g <= h
               /\ \A m \in race_net' : m.idx = h => m.action = "Canceled" \/ (m.action = "AddInvoice" /\ m.reply)
    <2>1. ~race_is_mine
      BY <1>6 DEF RaceInv, OneByOne, Dealt, Taking
    <2>2. Race!TakeOpen
      BY <1>6 DEF Taking, Race!TakeOpen
    <2>3. race_order.gen <= h /\ \A i \in Race!Gens : i > h => race_req[i] = "no"
      BY <1>6 DEF RaceInv, OneByOne
    <2>4. g <= h
      <3>1. g # 0 => g \in Race!Gens
        BY RaceConsts
      <3>. QED BY <1>1, <1>2, <2>3, <3>1, TakeFacts
    <2>5. \A m \in race_net : m.idx = h => m.action = "Canceled" \/ (m.action = "AddInvoice" /\ m.reply)
      BY <1>6 DEF RaceInv, OneByOne
    <2>. QED BY <1>3, <2>1, <2>2, <2>4, <2>5
  <1>7. \A h, i \in Race!Gens : h < i /\ race_req'[i] # "no" => race_req'[h] # "no" \/ h <= race_order'.gen
    BY <1>1, <1>2, TakeFacts DEF RaceInv, OneByOne
  <1>8. OneByOne'
    BY <1>1, <1>2, <1>3, <1>5, <1>6, <1>7 DEF RaceInv, OneByOne
  <1>9. RowBound'
    BY <1>1, <1>3 DEF RaceInv, RowBound
  <1>. QED BY <1>4, <1>8, <1>9

LEMMA RestartKeeps == ASSUME RaceInv, Race!restart PROVE Dealt' /\ OneByOne' /\ RowBound'
  <1>1. /\ UNCHANGED <<race_row, race_bound, race_net, race_order, race_is_mine>> /\ race_disp'.pc = "idle"
        /\ \A g \in Race!Gens : race_req'[g] = IF race_req[g] = "no" THEN "no" ELSE "gone"
    BY AtRest DEF Race!restart, Race!daemon, Race!roles
  <1>2. \A g \in Race!Gens : ~Taking(g)'
    BY <1>1 DEF Taking
  <1>3. race_order.gen # 0 => race_order.gen \in Race!Gens
    BY RaceConsts DEF RaceInv, RaceTypes
  <1>. QED BY <1>1, <1>2, <1>3 DEF RaceInv, Dealt, OneByOne, RowBound

(* The steps that take no part in a take, and what they do to the row.       *)
LEMMA ApartSteps ==
    ASSUME RaceInv,
           \/ Race!check_dropped \/ Race!check_canceled \/ Race!write_status \/ Race!wipe_row \/ Race!leave_tombstone
           \/ \E p \in Paths : \/ Race!read_public(p) \/ Race!public_wipe(p)
                               \/ Race!public_tombstone(p) \/ Race!public_sync(p)
           \/ Race!d_tag_task_ends
           \/ Race!age \/ Race!sweep_list \/ Race!sweep_view \/ Race!sweep_keep \/ Race!sweep_wipe
           \/ Race!sweep_tombstone \/ Race!sweep_pending \/ Race!sweep_success \/ Race!confirm_payout_completion
    PROVE  /\ Apart
           /\ race_row' = Race!NoRow \/ (race_row # Race!NoRow /\ race_row'.idx = race_row.idx)
  <1>. DEFINE Same == race_row' = Race!NoRow \/ (race_row # Race!NoRow /\ race_row'.idx = race_row.idx)
  <1>1. /\ race_row \in Judged
        /\ \A s \in Race!Statuses : Race!WriteStatus(s) => Same
        /\ race_row' = race_row => Same
        /\ {"Pending", "Success"} \subseteq Race!Statuses
    <2>1. race_row \in Judged
      BY DEF RaceInv, RaceTypes
    <2>. QED BY <2>1, WritesStatus DEF Race!Statuses, Race!HardTerminal
  <1>2. \A p : race_disp.pc \notin {"idle", "take"} /\ p \notin {"idle", "take"} /\ race_disp' = [race_disp EXCEPT !.pc = p]
          => race_disp'.msg = race_disp.msg /\ race_disp'.pc = p
    BY TakeFacts DEF DispTypes
  <1>3. CASE Race!check_dropped \/ Race!check_canceled
    BY <1>1, <1>2, <1>3, AtRest DEF Apart, Race!check_dropped, Race!check_canceled, Race!local, Race!daemon,
       Race!counts, Race!roles
  <1>4. CASE Race!write_status
    <2>1. race_disp.msg \in Race!Message
      BY <1>4, TakeFacts DEF Race!write_status, RaceInv, RowBound
    <2>2. Race!Written(race_disp.msg.action) \in Race!Statuses
      BY <2>1, MessageFields, StatusOfAction
    <2>. QED BY <1>1, <1>4, <2>2, AtRest DEF Apart, Race!write_status, Race!daemon, Race!counts, Race!roles
  <1>5. CASE Race!wipe_row \/ Race!leave_tombstone
    BY <1>1, <1>2, <1>5, AtRest DEF Apart, Race!wipe_row, Race!leave_tombstone, Race!daemon, Race!counts, Race!roles
  <1>6. ASSUME NEW p \in Paths, Race!read_public(p) \/ Race!public_wipe(p) \/ Race!public_tombstone(p)
        PROVE  Apart /\ Same
    BY <1>1, <1>6 DEF Apart, Race!read_public, Race!public_wipe, Race!public_tombstone, Race!daemon, Race!counts,
       Race!roles
  <1>7. ASSUME NEW p \in Paths, Race!public_sync(p) PROVE Apart /\ Same
    <2>1. race_wire[p].status \in Race!Statuses
      BY <1>7 DEF Race!public_sync, RaceInv, RaceTypes, Publics, Race!Statuses, Race!HardTerminal
    <2>2. race_row' = race_row \/ Race!WriteStatus(race_wire[p].status)
      BY <1>7 DEF Race!public_sync
    <2>. QED BY <1>1, <1>7, <2>1, <2>2 DEF Apart, Race!public_sync, Race!daemon, Race!counts, Race!roles
  <1>8. CASE Race!d_tag_task_ends \/ Race!sweep_list \/ Race!sweep_view \/ Race!sweep_keep \/ Race!sweep_wipe
             \/ Race!sweep_tombstone
    BY <1>1, <1>8 DEF Apart, Race!d_tag_task_ends, Race!sweep_list, Race!sweep_view, Race!sweep_keep, Race!sweep_wipe,
       Race!sweep_tombstone, Race!local, Race!daemon, Race!counts, Race!roles
  <1>9. CASE Race!age
    <2>1. race_row # Race!NoRow
      BY <1>9, RowFields DEF Race!age, Race!Waiting
    <2>2. race_row'.idx = race_row.idx
      BY <1>1, <1>9 DEF Race!age, Judged, Race!TradeInfo, Race!NoRow
    <2>. QED BY <1>9, <2>1, <2>2 DEF Apart, Race!age, Race!daemon, Race!counts, Race!roles
  <1>10. CASE Race!sweep_pending \/ Race!sweep_success \/ Race!confirm_payout_completion
    <2>1. Same
      BY <1>1, <1>10 DEF Race!sweep_pending, Race!sweep_success, Race!confirm_payout_completion, Race!PayoutCompleted
    <2>. QED BY <1>10, <2>1 DEF Apart, Race!sweep_pending, Race!sweep_success, Race!confirm_payout_completion,
           Race!PayoutCompleted, Race!daemon, Race!counts, Race!roles
  <1>. QED BY <1>3, <1>4, <1>5, <1>6, <1>7, <1>8, <1>9, <1>10

(* A handler that makes a row makes it of its message's key.                 *)
LEMMA CheckBinds ==
    ASSUME RaceInv, Race!check_new_order \/ Race!check_status
    PROVE  /\ UNCHANGED <<race_req, race_net, race_order, race_is_mine, race_wire, race_sweep, race_wiped>>
           /\ race_disp.pc = "check" /\ race_disp.msg \in race_net
           /\ \/ race_disp'.pc = "idle"
              \/ race_disp'.msg = race_disp.msg /\ race_disp'.pc = "write"
           /\ \/ UNCHANGED <<race_row, race_bound, race_tomb>>
              \/ /\ race_bound' = race_disp.msg.idx /\ race_tomb' = 0
                 /\ race_row'.idx = race_bound' /\ race_row' # Race!NoRow
                 /\ race_disp.msg.action \in {"AddInvoice", "HoldInvoicePaymentAccepted", "NewOrder"}
                 /\ race_row'.status = Race!Written(race_disp.msg.action)
                 /\ race_disp.kind = "NeverWritten" \/
                      (race_row = Race!NoRow /\ ~Race!tombstone_covers(race_disp.msg.idx))
  <1>. DEFINE m == race_disp.msg
  <1>1. race_disp.pc = "check" /\ m \in race_net /\ m.idx \in Race!Gens
    BY TakeFacts DEF RaceInv, RowBound, Race!check_new_order, Race!check_status
  <1>2. \A s, g : Race!Row(s, g).idx = g /\ Race!Row(s, g).status = s
    BY DEF Race!Row
  <1>3. \A s : Race!Row(s, m.idx) # Race!NoRow
    BY <1>1, <1>2, RowFields, TakeFacts
  <1>4. race_disp \in DispTypes
    BY TakeFacts
  <1>5. CASE Race!check_new_order
    <2>1. /\ UNCHANGED <<race_req, race_net, race_order, race_is_mine, race_wire, race_sweep, race_wiped>>
          /\ m.action = "NewOrder" /\ Race!Written(m.action) = "Pending"
      BY <1>5 DEF Race!check_new_order, Race!Written, Race!daemon, Race!counts, Race!roles
    <2>2. CASE race_disp' = Race!Free /\ UNCHANGED <<race_row, race_bound, race_tomb>>
      BY <1>1, <2>1, <2>2, AtRest
    <2>3. CASE race_disp' = [race_disp EXCEPT !.pc = "write", !.snap = Race!NoRow] /\ UNCHANGED <<race_row, race_bound, race_tomb>>
      <3>1. race_disp'.msg = m /\ race_disp'.pc = "write"
        BY <1>4, <2>3 DEF DispTypes
      <3>. QED BY <1>1, <2>1, <2>3, <3>1
    <2>4. CASE Race!adopts(m) /\ Race!Recreate("Pending", m.idx) /\ race_disp' = Race!Free
      <3>1. race_row' = Race!Row("Pending", m.idx) /\ race_bound' = m.idx /\ race_tomb' = 0
            /\ race_row = Race!NoRow /\ ~Race!tombstone_covers(m.idx)
        BY <2>4 DEF Race!Recreate, Race!adopts
      <3>. QED BY <1>1, <1>2, <1>3, <2>1, <2>4, <3>1, AtRest
    <2>. QED BY <1>5, <2>2, <2>3, <2>4 DEF Race!check_new_order
  <1>6. CASE Race!check_status
    <2>1. UNCHANGED <<race_req, race_net, race_order, race_is_mine, race_wire, race_sweep, race_wiped>>
      BY <1>6 DEF Race!check_status, Race!daemon, Race!counts, Race!roles
    <2>2. CASE race_disp' = [race_disp EXCEPT !.pc = "write"] /\ UNCHANGED <<race_row, race_bound, race_tomb>>
      <3>1. race_disp'.msg = m /\ race_disp'.pc = "write"
        BY <1>4, <2>2 DEF DispTypes
      <3>. QED BY <1>1, <2>1, <2>2, <3>1
    <2>3. CASE race_disp.kind = "NeverWritten" /\ Race!carries_order(m.action)
      <3>1. m.action \in {"AddInvoice", "HoldInvoicePaymentAccepted"}
        BY <2>3 DEF Race!carries_order
      <3>. DEFINE s == Race!status_for_action[m.action]
      <3>2. Race!Written(m.action) = s
        BY <3>1 DEF Race!Written
      <3>3. /\ race_row' = Race!Row(Race!Row(s, m.idx).status, m.idx) /\ race_bound' = m.idx /\ race_tomb' = 0
            /\ race_disp' = [race_disp EXCEPT !.pc = "write", !.kind = "Exists", !.snap = Race!Row(s, m.idx)]
        BY <1>6, <2>3 DEF Race!check_status, Race!Recreate
      <3>. HIDE DEF s
      <3>4. race_disp'.msg = m /\ race_disp'.pc = "write"
        BY <1>4, <3>3 DEF DispTypes
      <3>5. race_row'.idx = m.idx /\ race_row'.status = s /\ race_row' # Race!NoRow
        BY <1>2, <1>3, <3>3
      <3>. QED BY <1>1, <2>1, <2>3, <3>1, <3>2, <3>3, <3>4, <3>5
    <2>. QED BY <1>6, <2>2, <2>3 DEF Race!check_status
  <1>. QED BY <1>5, <1>6

LEMMA RaceStep == RaceInv /\ Race!Next => RaceInv'
  <1>. SUFFICES ASSUME RaceInv, Race!Next PROVE RaceInv'
    OBVIOUS
  <1>1. CASE \E g \in Race!Gens : Race!take_order(g) \/ Race!take_timeout(g)
    <2>1. PICK g \in Race!Gens : Race!take_order(g) \/ Race!take_timeout(g)
      BY <1>1
    <2>2. RowBound'
      BY <2>1 DEF RaceInv, RowBound, Race!take_order, Race!take_timeout, Race!local, Race!daemon
    <2>. QED BY <1>1, <2>1, <2>2, TakesTyped, TakeOrderKeeps DEF RaceInv
  <1>2. CASE \E m \in race_net : Race!dispatch(m)
    BY <1>2, DispatchTyped, ReplyKeeps DEF RaceInv
  <1>3. CASE Race!persist_confirmed_take
    <2>1. /\ UNCHANGED <<race_req, race_net, race_order, race_is_mine>>
          /\ race_disp.pc = "take" /\ race_bound' = race_disp.msg.idx /\ race_row'.idx = race_bound'
          /\ race_disp'.pc = "idle"
      BY <1>3, AtRest DEF Race!persist_confirmed_take, Race!Row, Race!daemon, Race!counts, Race!roles
    <2>. QED BY <1>3, <2>1, TakeTyped, BindKeeps DEF RaceInv
  <1>4. CASE Race!check_new_order \/ Race!check_status
    <2>1. CASE UNCHANGED <<race_row, race_bound, race_tomb>>
      <3>1. Apart
        BY <1>4, <2>1, CheckBinds DEF Apart
      <3>2. RowBound'
        BY <1>4, <2>1, CheckBinds DEF RaceInv, RowBound
      <3>. QED BY <1>4, <3>1, <3>2, ApartKeeps, ChecksTyped DEF RaceInv
    <2>2. CASE ~UNCHANGED <<race_row, race_bound, race_tomb>>
      BY <1>4, <2>2, CheckBinds, BindKeeps, ChecksTyped DEF RaceInv
    <2>. QED BY <2>1, <2>2
  <1>5. CASE DaemonStep
    BY <1>5, DaemonTyped, DaemonKeeps DEF RaceInv
  <1>6. CASE Race!restart
    BY <1>6, RestartTyped, RestartKeeps DEF RaceInv
  <1>7. CASE \/ Race!check_dropped \/ Race!check_canceled \/ Race!write_status \/ Race!wipe_row \/ Race!leave_tombstone
             \/ \E p \in Paths : \/ Race!read_public(p) \/ Race!public_wipe(p)
                                 \/ Race!public_tombstone(p) \/ Race!public_sync(p)
             \/ Race!d_tag_task_ends
             \/ Race!age \/ Race!sweep_list \/ Race!sweep_view \/ Race!sweep_keep \/ Race!sweep_wipe
             \/ Race!sweep_tombstone \/ Race!sweep_pending \/ Race!sweep_success \/ Race!confirm_payout_completion
    <2>1. Dealt' /\ OneByOne'
      BY <1>7, ApartSteps, ApartKeeps
    <2>2. RowBound'
      BY <1>7, ApartSteps DEF RaceInv, RowBound, Apart
    <2>3. RaceTypes'
      BY <1>7, ChecksTyped, WritesTyped, FeedsTyped, SweepTyped DEF RaceInv
    <2>. QED BY <2>1, <2>2, <2>3 DEF RaceInv
  <1>. QED BY <1>1, <1>2, <1>3, <1>4, <1>5, <1>6, <1>7 DEF Race!Next, DaemonStep

LEMMA RaceStart == Race!Init => RaceInv /\ Alone /\ Forward /\ WipedTight
  <1>. SUFFICES ASSUME Race!Init PROVE RaceInv /\ Alone /\ Forward /\ WipedTight
    OBVIOUS
  <1>1. /\ race_is_mine \in Mine /\ race_unwritten \in BOOLEAN
        /\ race_seen = {} /\ race_now = 1 /\ race_tomb = 0 /\ race_cursor = 0 /\ race_wiped = 0
        /\ race_book = "Pending" /\ race_note = "None" /\ race_req = [g \in Race!Gens |-> "no"]
        /\ race_disp = Race!Free /\ race_sweep = Race!Asleep
        /\ race_wire = [p \in Paths |-> IF p = "book" THEN Race!Watching(1) ELSE Race!Unsubscribed]
    BY RaceAssumption DEF Race!Init, Race!None
  <1>2. /\ {race_book, race_note} \subseteq Shown /\ "Pending" \in Race!Statuses
        /\ 1 \in Race!Gens /\ 0 \in 0 .. MaxGen /\ 1 \in 0 .. MaxGen /\ {0, 1} \subseteq 0 .. MaxEvents
        /\ 1 \in 1 .. MaxEvents /\ {0, 1} \subseteq Nat
    BY <1>1, RaceConsts DEF Shown, Race!None, Race!Statuses
  <1>3. /\ race_order.status = "Pending" /\ race_order.public = "Pending" /\ race_order.at = 1
        /\ race_order = [status |-> "Pending", gen |-> race_order.gen, public |-> "Pending", at |-> 1]
        /\ race_order.gen = IF race_is_mine THEN 1 ELSE 0
    BY DEF Race!Init
  <1>4. /\ race_row \in Judged /\ race_bound \in 0 .. MaxGen /\ race_row.status \in {"None", "Pending"}
        /\ race_row # Race!NoRow => race_row.idx = race_bound
        /\ race_bound = 0 \/ race_row # Race!NoRow
    <2>1. CASE race_is_mine /\ ~race_unwritten
      <3>1. race_row = Race!Row("Pending", 1) /\ race_bound = race_row.idx
        BY <2>1 DEF Race!Init
      <3>2. race_row.idx = 1 /\ race_row.status = "Pending" /\ race_row \in Race!TradeInfo
        BY <1>2, <3>1, RowFields DEF Race!Row
      <3>. QED BY <1>2, <3>1, <3>2, RowFields DEF Judged
    <2>2. CASE ~(race_is_mine /\ ~race_unwritten)
      <3>1. race_row = Race!NoRow /\ race_bound = 0
        BY <2>2, RowFields DEF Race!Init
      <3>. QED BY <1>2, <3>1, RowFields
    <2>. QED BY <2>1, <2>2
  <1>5. race_net \subseteq Race!Message /\ \A m \in race_net : race_is_mine /\ m.idx = 1 /\ m.action = "NewOrder"
    <2>1. CASE race_is_mine
      <3>1. race_net = {[action |-> "NewOrder", idx |-> 1, ts |-> 1, reply |-> TRUE]}
        BY <2>1 DEF Race!Init
      <3>2. [action |-> "NewOrder", idx |-> 1, ts |-> 1, reply |-> TRUE] \in Race!Message
        BY <1>2 DEF Race!Message, Race!Actions
      <3>. QED BY <2>1, <3>1, <3>2
    <2>2. CASE ~race_is_mine
      BY <2>2 DEF Race!Init
    <2>. QED BY <2>1, <2>2
  <1>6. race_wire \in [Paths -> WireTypes] /\ \A p \in Paths : race_wire[p].pc \in {"off", "idle"} /\ ~race_wire[p].own
    BY <1>1, <1>2, AtRest
  <1>7. /\ race_disp \in DispTypes /\ race_disp.pc = "idle"
        /\ race_sweep \in SweepTypes /\ race_sweep.pc = "idle"
    BY <1>1, AtRest
  <1>8. race_order \in [status : Race!Statuses, gen : 0 .. MaxGen, public : Publics, at : 0 .. MaxEvents]
    BY <1>2, <1>3 DEF Publics
  <1>9. RaceTypes
    BY <1>1, <1>2, <1>4, <1>5, <1>6, <1>7, <1>8 DEF RaceTypes
  <1>10. Dealt /\ OneByOne /\ RowBound
    BY <1>1, <1>3, <1>4, <1>5, <1>7 DEF Dealt, OneByOne, RowBound, Taking
  <1>11. Alone /\ Forward
    BY <1>1, <1>4, <1>6, <1>7 DEF Alone, Forward, RaceOver, Race!is_hard_terminal, Race!HardTerminal
  <1>12. WipedTight
    BY <1>1, <1>2, <1>4, <1>6, <1>7 DEF WipedTight
  <1>. QED BY <1>9, <1>10, <1>11, <1>12 DEF RaceInv

(* Nobody new starts.                                                        *)
Calm ==
    /\ race_disp'.pc # "idle" => race_disp.pc # "idle"
    /\ race_sweep'.pc # "idle" => race_sweep.pc # "idle"
    /\ \A p \in Paths : race_wire'[p].pc \notin {"off", "idle"} => race_wire[p].pc \notin {"off", "idle"}

LEMMA CalmKeeps == ASSUME Alone, Calm PROVE Alone'
  BY DEF Alone, Calm

(* Every step but a start.                                                   *)
LEMMA CalmSteps ==
    ASSUME RaceInv, Race!Next,
           ~ \E m \in race_net : Race!dispatch(m),
           ~ \E p \in Paths : Race!read_public(p),
           ~Race!sweep_list
    PROVE  Calm
  <1>0. race_wire \in [Paths -> WireTypes] /\ \A t \in 0 .. MaxEvents : Race!Watching(t).pc = "idle"
    BY AtRest DEF RaceInv, RaceTypes
  <1>1. CASE \/ \E g \in Race!Gens : Race!take_order(g) \/ Race!take_timeout(g)
             \/ Race!age \/ Race!confirm_payout_completion
    BY <1>1 DEF Calm, Race!take_order, Race!take_timeout, Race!age, Race!confirm_payout_completion
  <1>2. CASE DaemonStep
    BY <1>2 DEF Calm, DaemonStep, Race!accept_take, Race!taken_by_other, Race!pay_out, Race!lapse, Race!cancel,
       Race!expire, Race!progress, Race!Client
  <1>3. CASE Race!persist_confirmed_take
    <2>1. race_disp.pc = "take" /\ race_sweep' = race_sweep
          /\ race_wire' = [p \in Paths |-> IF p = "book" THEN race_wire[p]
                                           ELSE IF race_wire[p].pc = "off" THEN Race!Watching(0)
                                           ELSE [race_wire[p] EXCEPT !.at = 0]]
      BY <1>3 DEF Race!persist_confirmed_take
    <2>2. \A p \in Paths : race_wire'[p].pc \in {race_wire[p].pc, "idle"}
      <3>1. ASSUME NEW p \in Paths PROVE [race_wire[p] EXCEPT !.at = 0].pc = race_wire[p].pc
        BY <1>0 DEF WireTypes
      <3>2. Race!Watching(0).pc = "idle"
        BY AtRest, RaceConsts
      <3>. QED BY <2>1, <3>1, <3>2
    <2>. QED BY <2>1, <2>2 DEF Calm
  <1>4. CASE \/ Race!check_new_order \/ Race!check_dropped \/ Race!check_canceled \/ Race!check_status
             \/ Race!write_status \/ Race!wipe_row \/ Race!leave_tombstone
    BY <1>4 DEF Calm, Race!check_new_order, Race!check_dropped, Race!check_canceled, Race!check_status,
       Race!write_status, Race!wipe_row, Race!leave_tombstone
  <1>5. ASSUME NEW p \in Paths, Race!public_wipe(p) \/ Race!public_tombstone(p) \/ Race!public_sync(p)
        PROVE  Calm
    <2>1. /\ race_wire[p].pc \notin {"off", "idle"} /\ UNCHANGED <<race_disp, race_sweep>>
          /\ \A q \in Paths : q # p => race_wire'[q] = race_wire[q]
      BY <1>0, <1>5 DEF Race!public_wipe, Race!public_tombstone, Race!public_sync
    <2>. QED BY <2>1 DEF Calm
  <1>6. CASE Race!d_tag_task_ends
    <2>1. /\ UNCHANGED <<race_disp, race_sweep>>
          /\ \A q \in Paths : race_wire'[q] = race_wire[q] \/ race_wire'[q] = Race!Unsubscribed
      BY <1>0, <1>6 DEF Race!d_tag_task_ends
    <2>. QED BY <2>1, AtRest DEF Calm
  <1>7. CASE \/ Race!sweep_view \/ Race!sweep_keep \/ Race!sweep_wipe \/ Race!sweep_tombstone
             \/ Race!sweep_pending \/ Race!sweep_success
    BY <1>7 DEF Calm, Race!sweep_view, Race!sweep_keep, Race!sweep_wipe, Race!sweep_tombstone,
       Race!sweep_pending, Race!sweep_success
  <1>8. CASE Race!restart
    <2>1. /\ race_disp' = Race!Free /\ race_sweep' = Race!Asleep
          /\ race_wire' = [p \in Paths |-> IF p = "book" THEN Race!Watching(0) ELSE Race!Unsubscribed]
      BY <1>8 DEF Race!restart
    <2>2. Race!Watching(0).pc = "idle"
      BY AtRest, RaceConsts
    <2>. QED BY <2>1, <2>2, AtRest DEF Calm
  <1>. QED BY <1>1, <1>2, <1>3, <1>4, <1>5, <1>6, <1>7, <1>8 DEF Race!Next, DaemonStep

LEMMA AloneKeeps == ASSUME RaceInv, Alone, Race!Next PROVE Alone'
  <1>0. race_wire \in [Paths -> WireTypes]
    BY DEF RaceInv, RaceTypes
  <1>1. CASE \E m \in race_net : Race!dispatch(m)
    BY <1>1 DEF Alone, Race!dispatch, Race!MayStart, Race!Quiet
  <1>2. ASSUME NEW p \in Paths, Race!read_public(p) PROVE Alone'
    <2>1. /\ Race!MayStart /\ UNCHANGED <<race_disp, race_sweep>>
          /\ \A q \in Paths : q # p => race_wire'[q] = race_wire[q]
      BY <1>0, <1>2 DEF Race!read_public
    <2>. QED BY <2>1 DEF Alone, Race!MayStart, Race!Quiet
  <1>3. CASE Race!sweep_list
    BY <1>3 DEF Alone, Race!sweep_list, Race!MayStart, Race!Quiet
  <1>. QED BY <1>1, <1>2, <1>3, CalmSteps, CalmKeeps

(* Past the terminal gate an arm finds a finished trade only with an admin's *)
(* verdict to write.                                                         *)
LEMMA GateHolds ==
    ASSUME RaceInv, ~Race!status_write_blocked(race_disp.msg), Race!is_hard_terminal(race_row.status)
    PROVE  Race!is_hard_terminal(Race!Written(race_disp.msg.action))
  <1>1. race_row # Race!NoRow
    BY RowFields, StatusOfAction DEF Race!is_hard_terminal, Race!HardTerminal
  <1>2. Race!admin_verdict_refines(race_row.status, race_disp.msg.action)
    BY <1>1 DEF Race!status_write_blocked, Race!status_sync_blocked_by_terminal, Race!local_trade_status
  <1>3. race_disp.msg.action \in {"AdminCanceled", "AdminSettled"}
    BY <1>2 DEF Race!admin_verdict_refines
  <1>4. /\ Race!Written("AdminCanceled") = "CanceledByAdmin"
        /\ Race!Written("AdminSettled") = "SettledByAdmin"
    BY DEF Race!Written, Race!status_for_action
  <1>. QED BY <1>3, <1>4 DEF Race!is_hard_terminal, Race!HardTerminal

NotNew == {"None", "Pending"}

(* The statuses that matter to the gates.                                    *)
LEMMA StatusKinds ==
    /\ ~Race!is_hard_terminal("None") /\ ~Race!is_hard_terminal("Pending")
    /\ Race!is_hard_terminal("Success")
    /\ \A s \in Race!Waiting : ~Race!is_hard_terminal(s) /\ s \notin NotNew /\ s # "SettledHoldInvoice"
    /\ ~Race!is_hard_terminal("SettledHoldInvoice")
    /\ \A s : Race!is_hard_terminal(s) => s \notin NotNew
  BY DEF Race!is_hard_terminal, Race!HardTerminal, Race!Waiting, NotNew

(* But for the steps that bind a key, a row is gone or keeps its key.        *)
LEMMA RowSteps ==
    ASSUME RaceInv, Race!Next,
           ~Race!persist_confirmed_take, ~Race!check_new_order, ~Race!check_status
    PROVE  /\ UNCHANGED race_bound
           /\ \/ race_row' = Race!NoRow
              \/ race_row # Race!NoRow /\ race_row'.idx = race_row.idx
  <1>1. CASE \/ \E g \in Race!Gens : Race!take_order(g) \/ Race!take_timeout(g)
             \/ \E m \in race_net : Race!dispatch(m)
             \/ DaemonStep \/ Race!restart
    <2>1. UNCHANGED <<race_row, race_bound>>
      BY <1>1 DEF DaemonStep, Race!accept_take, Race!taken_by_other, Race!pay_out, Race!lapse, Race!cancel,
         Race!expire, Race!progress, Race!Client, Race!take_order, Race!take_timeout, Race!dispatch, Race!restart,
         Race!local
    <2>. QED BY <2>1
  <1>2. CASE \/ Race!check_dropped \/ Race!check_canceled \/ Race!write_status \/ Race!wipe_row \/ Race!leave_tombstone
             \/ \E p \in Paths : \/ Race!read_public(p) \/ Race!public_wipe(p)
                                 \/ Race!public_tombstone(p) \/ Race!public_sync(p)
             \/ Race!d_tag_task_ends
             \/ Race!age \/ Race!sweep_list \/ Race!sweep_view \/ Race!sweep_keep \/ Race!sweep_wipe
             \/ Race!sweep_tombstone \/ Race!sweep_pending \/ Race!sweep_success \/ Race!confirm_payout_completion
    BY <1>2, ApartSteps DEF Apart
  <1>. QED BY <1>1, <1>2 DEF Race!Next, DaemonStep

(* What the holder of the lock does to the row.                              *)
DispWrites == \/ Race!persist_confirmed_take \/ Race!check_new_order \/ Race!check_status
              \/ Race!write_status \/ Race!wipe_row

LEMMA IdleWrites == ASSUME race_disp.pc = "idle" PROVE ~DispWrites
  BY DEF DispWrites, Race!persist_confirmed_take, Race!check_new_order, Race!check_status, Race!write_status,
     Race!wipe_row

(* Beside those and what the feeds and the sweep write, a row only ages or   *)
(* is paid out.                                                              *)
LEMMA RestingRow ==
    ASSUME RaceInv, Race!Next, ~DispWrites,
           \A p \in Paths : ~Race!public_wipe(p) /\ ~Race!public_sync(p),
           ~Race!sweep_wipe, ~Race!sweep_pending, ~Race!sweep_success
    PROVE  /\ race_row'.status \notin NotNew => race_row.status \notin NotNew
           /\ race_row.status \in Race!Waiting => race_row'.status = race_row.status
           /\ race_row' = Race!NoRow <=> race_row = Race!NoRow
  <1>0. race_row \in Judged
    BY DEF RaceInv, RaceTypes
  <1>1. CASE Race!age
    <2>1. race_row'.status = race_row.status /\ race_row # Race!NoRow /\ race_row' # Race!NoRow
      BY <1>0, <1>1, RowFields DEF Race!age, Judged, Race!TradeInfo, Race!NoRow, Race!Waiting
    <2>. QED BY <2>1
  <1>2. CASE Race!confirm_payout_completion
    <2>1. Race!WriteStatus("Success") /\ Race!local_trade_status = "SettledHoldInvoice"
      BY <1>2 DEF Race!confirm_payout_completion, Race!PayoutCompleted
    <2>2. race_row = Race!NoRow \/ race_row.status = "SettledHoldInvoice"
      BY <2>1 DEF Race!local_trade_status
    <2>3. race_row' = Race!NoRow <=> race_row = Race!NoRow
      BY <1>0, <2>1, WritesStatus DEF Race!Statuses, Race!HardTerminal
    <2>. QED BY <2>2, <2>3, StatusKinds, RowFields DEF NotNew
  <1>3. CASE \/ \E g \in Race!Gens : Race!take_order(g) \/ Race!take_timeout(g)
             \/ \E m \in race_net : Race!dispatch(m)
             \/ DaemonStep
             \/ \E p \in Paths : Race!read_public(p) \/ Race!public_tombstone(p)
             \/ Race!d_tag_task_ends
             \/ Race!sweep_list \/ Race!sweep_view \/ Race!sweep_keep \/ Race!sweep_tombstone
             \/ Race!check_dropped \/ Race!check_canceled \/ Race!leave_tombstone \/ Race!restart
    <2>1. UNCHANGED race_row
      BY <1>3 DEF DaemonStep, Race!accept_take, Race!taken_by_other, Race!pay_out, Race!lapse, Race!cancel,
         Race!expire, Race!progress, Race!Client, Race!take_order, Race!take_timeout, Race!local, Race!dispatch,
         Race!read_public, Race!public_tombstone, Race!d_tag_task_ends, Race!sweep_list, Race!sweep_view,
         Race!sweep_keep, Race!sweep_tombstone, Race!check_dropped, Race!check_canceled, Race!leave_tombstone,
         Race!restart
    <2>. QED BY <2>1
  <1>. QED BY <1>1, <1>2, <1>3 DEF Race!Next, DaemonStep, DispWrites

(* What becomes of what a feed has read.                                     *)
LEMMA WireSteps ==
    ASSUME RaceInv, Race!Next, NEW p \in Paths
    PROVE  /\ UNCHANGED race_is_mine
           /\ \/ race_wire'[p].pc \in {"off", "idle"} /\ (race_wire'[p].own => race_wire[p].own)
              \/ /\ race_wire'[p].own = race_wire[p].own /\ race_wire'[p].local = race_wire[p].local
                 /\ race_wire'[p].idx = race_wire[p].idx
                 /\ \/ race_wire'[p].pc = race_wire[p].pc /\ ~Race!public_wipe(p) /\ ~Race!public_sync(p)
                    \/ race_wire[p].pc = "wipe" /\ race_wire'[p].pc = "tomb" /\ Race!public_wipe(p)
              \/ Race!read_public(p)
  <1>0. /\ race_wire \in [Paths -> WireTypes] /\ "idle" # "off"
        /\ \A t \in 0 .. MaxEvents : Race!Watching(t).pc = "idle" /\ ~Race!Watching(t).own
        /\ Race!Unsubscribed.pc = "off" /\ ~Race!Unsubscribed.own
    BY AtRest DEF RaceInv, RaceTypes
  <1>. DEFINE Goal ==
        \/ race_wire'[p].pc \in {"off", "idle"} /\ (race_wire'[p].own => race_wire[p].own)
        \/ /\ race_wire'[p].own = race_wire[p].own /\ race_wire'[p].local = race_wire[p].local
           /\ race_wire'[p].idx = race_wire[p].idx
           /\ \/ race_wire'[p].pc = race_wire[p].pc /\ ~Race!public_wipe(p) /\ ~Race!public_sync(p)
              \/ race_wire[p].pc = "wipe" /\ race_wire'[p].pc = "tomb" /\ Race!public_wipe(p)
        \/ Race!read_public(p)
  <1>1. \A q \in Paths : Race!public_wipe(q) => race_wire'[q].pc = "tomb" /\ race_wire[q].pc = "wipe"
    BY <1>0 DEF Race!public_wipe, WireTypes
  <1>2. \A q \in Paths : Race!public_sync(q) => /\ race_wire'[q].pc = "idle" /\ race_wire[q].pc = "sync"
                                                /\ ~race_wire'[q].own
    <2>1. ASSUME NEW q \in Paths, Race!public_sync(q)
          PROVE  race_wire'[q] = Race!Watching(race_wire[q].at) /\ race_wire[q].pc = "sync"
      BY <1>0, <2>1 DEF Race!public_sync
    <2>2. \A q \in Paths : race_wire[q].at \in 0 .. MaxEvents
      BY <1>0 DEF WireTypes
    <2>. QED BY <1>0, <2>1, <2>2
  <1>3. race_wire'[p] = race_wire[p] => Goal
    BY <1>1, <1>2
  <1>4. CASE \/ \E g \in Race!Gens : Race!take_order(g) \/ Race!take_timeout(g)
             \/ \E m \in race_net : Race!dispatch(m)
             \/ DaemonStep
             \/ Race!check_new_order \/ Race!check_dropped \/ Race!check_canceled \/ Race!check_status
             \/ Race!write_status \/ Race!wipe_row \/ Race!leave_tombstone
             \/ Race!age \/ Race!sweep_list \/ Race!sweep_view \/ Race!sweep_keep \/ Race!sweep_wipe
             \/ Race!sweep_tombstone \/ Race!sweep_pending \/ Race!sweep_success \/ Race!confirm_payout_completion
    <2>1. UNCHANGED <<race_wire, race_is_mine>>
      BY <1>4 DEF DaemonStep, Race!accept_take, Race!taken_by_other, Race!pay_out, Race!lapse, Race!cancel,
         Race!expire, Race!progress, Race!Client, Race!take_order, Race!take_timeout, Race!dispatch,
         Race!check_new_order, Race!check_dropped, Race!check_canceled, Race!check_status, Race!write_status,
         Race!wipe_row, Race!leave_tombstone, Race!age, Race!sweep_list, Race!sweep_view, Race!sweep_keep,
         Race!sweep_wipe, Race!sweep_tombstone, Race!sweep_pending, Race!sweep_success,
         Race!confirm_payout_completion, Race!counts, Race!roles
    <2>. QED BY <1>3, <2>1
  <1>5. CASE Race!persist_confirmed_take
    <2>1. /\ race_wire' = [q \in Paths |-> IF q = "book" THEN race_wire[q]
                                           ELSE IF race_wire[q].pc = "off" THEN Race!Watching(0)
                                           ELSE [race_wire[q] EXCEPT !.at = 0]]
          /\ race_disp.pc = "take" /\ UNCHANGED race_is_mine
      BY <1>5 DEF Race!persist_confirmed_take, Race!counts, Race!roles
    <2>2. CASE race_wire'[p] = race_wire[p]
      BY <1>3, <2>1, <2>2
    <2>3. CASE race_wire'[p] = Race!Watching(0)
      <3>1. 0 \in 0 .. MaxEvents
        BY RaceConsts
      <3>. QED BY <1>0, <2>1, <2>3, <3>1
    <2>4. CASE race_wire'[p] = [race_wire[p] EXCEPT !.at = 0]
      <3>1. /\ race_wire'[p].own = race_wire[p].own /\ race_wire'[p].local = race_wire[p].local
            /\ race_wire'[p].idx = race_wire[p].idx /\ race_wire'[p].pc = race_wire[p].pc
        BY <1>0, <2>4 DEF WireTypes
      <3>. QED BY <1>1, <1>2, <2>1, <3>1
    <2>. QED BY <2>1, <2>2, <2>3, <2>4
  <1>6. ASSUME NEW q \in Paths, \/ Race!read_public(q) \/ Race!public_wipe(q)
                                \/ Race!public_tombstone(q) \/ Race!public_sync(q)
        PROVE  Goal /\ UNCHANGED race_is_mine
    <2>1. UNCHANGED race_is_mine
      BY <1>6 DEF Race!read_public, Race!public_wipe, Race!public_tombstone, Race!public_sync, Race!counts, Race!roles
    <2>2. CASE q # p
      <3>1. race_wire'[p] = race_wire[p]
        BY <1>0, <1>6, <2>2 DEF Race!read_public, Race!public_wipe, Race!public_tombstone, Race!public_sync
      <3>. QED BY <1>3, <2>1, <3>1
    <2>3. CASE q = p /\ Race!public_wipe(p)
      <3>1. /\ race_wire'[p] = [race_wire[p] EXCEPT !.pc = "tomb"]
        BY <1>0, <2>3 DEF Race!public_wipe
      <3>2. /\ race_wire'[p].own = race_wire[p].own /\ race_wire'[p].local = race_wire[p].local
            /\ race_wire'[p].idx = race_wire[p].idx
        BY <1>0, <3>1 DEF WireTypes
      <3>. QED BY <1>1, <2>1, <2>3, <3>2
    <2>4. CASE q = p /\ Race!public_tombstone(p)
      <3>1. race_wire'[p] = Race!Watching(race_wire[p].at) /\ race_wire[p].at \in 0 .. MaxEvents
        BY <1>0, <2>4 DEF Race!public_tombstone, WireTypes
      <3>. QED BY <1>0, <2>1, <3>1
    <2>. QED BY <1>2, <1>6, <2>1, <2>2, <2>3, <2>4
  <1>7. CASE Race!d_tag_task_ends \/ Race!restart
    <2>1. UNCHANGED race_is_mine
      BY <1>7 DEF Race!d_tag_task_ends, Race!restart, Race!counts, Race!roles
    <2>2. \/ race_wire'[p] = race_wire[p] \/ race_wire'[p] = Race!Unsubscribed
          \/ race_wire'[p] = Race!Watching(0)
      BY <1>0, <1>7 DEF Race!d_tag_task_ends, Race!restart
    <2>3. 0 \in 0 .. MaxEvents
      BY RaceConsts
    <2>. QED BY <1>0, <1>3, <2>1, <2>2, <2>3
  <1>. QED BY <1>4, <1>5, <1>6, <1>7 DEF Race!Next, DaemonStep

(* What becomes of what the sweep has read.                                  *)
LEMMA SweepSteps ==
    ASSUME RaceInv, Race!Next
    PROVE  \/ race_sweep'.pc = "idle"
           \/ /\ race_sweep'.snap = race_sweep.snap /\ race_sweep.pc # "idle"
              /\ \/ race_sweep' = race_sweep /\ ~Race!sweep_wipe
                 \/ race_sweep.pc = "listed" /\ race_sweep'.pc = "viewed" /\ ~Race!sweep_wipe
                 \/ race_sweep'.pc = "tomb" /\ Race!sweep_wipe
              /\ ~Race!sweep_pending /\ ~Race!sweep_success
           \/ Race!sweep_list
  <1>0. race_sweep \in SweepTypes /\ Race!Asleep.pc = "idle"
    BY AtRest DEF RaceInv, RaceTypes
  <1>1. \/ Race!sweep_keep \/ Race!sweep_tombstone \/ Race!sweep_pending \/ Race!sweep_success \/ Race!restart
        => race_sweep'.pc = "idle"
    BY <1>0 DEF Race!sweep_keep, Race!sweep_tombstone, Race!sweep_pending, Race!sweep_success, Race!restart
  <1>2. ~Race!sweep_keep /\ ~Race!sweep_tombstone /\ ~Race!sweep_pending /\ ~Race!sweep_success /\ ~Race!restart
          => \/ race_sweep' = race_sweep \/ Race!sweep_view \/ Race!sweep_wipe \/ Race!sweep_list
    BY DEF Race!Next, Race!accept_take, Race!taken_by_other, Race!pay_out, Race!lapse, Race!cancel,
       Race!expire, Race!progress, Race!Client, Race!take_order, Race!take_timeout, Race!dispatch,
       Race!persist_confirmed_take, Race!check_new_order, Race!check_dropped, Race!check_canceled, Race!check_status,
       Race!write_status, Race!wipe_row, Race!leave_tombstone, Race!age, Race!read_public, Race!public_wipe,
       Race!public_tombstone, Race!public_sync, Race!d_tag_task_ends, Race!confirm_payout_completion
  <1>3. Race!sweep_wipe => /\ race_sweep.pc = "viewed" /\ race_sweep'.pc = "tomb" /\ race_sweep'.snap = race_sweep.snap
    BY <1>0 DEF Race!sweep_wipe, SweepTypes
  <1>4. Race!sweep_view => /\ race_sweep.pc = "listed" /\ race_sweep'.pc = "viewed" /\ race_sweep'.snap = race_sweep.snap
    BY <1>0 DEF Race!sweep_view, SweepTypes
  <1>. QED BY <1>1, <1>2, <1>3, <1>4

(* What becomes of what the holder of the lock has read.                     *)
LEMMA DispSteps ==
    ASSUME RaceInv, Race!Next
    PROVE  \/ race_disp'.pc \in {"idle", "write", "take"}
           \/ race_disp' = race_disp /\ ~DispWrites /\ ~Race!leave_tombstone
           \/ /\ Race!wipe_row /\ race_disp.pc = "wipe" /\ race_disp'.pc = "tomb"
              /\ race_disp'.snap = race_disp.snap /\ race_row' = Race!NoRow
           \/ /\ race_disp.pc = "check" /\ race_disp'.pc = "wipe" /\ race_disp'.snap = race_disp.snap
              /\ race_disp.kind \notin {"NeverWritten", "Wiped"} /\ UNCHANGED <<race_row, race_bound, race_tomb>>
           \/ /\ race_disp.pc = "idle" /\ UNCHANGED <<race_row, race_tomb, race_bound>>
              /\ \E m \in race_net : race_disp' = [pc |-> "check", msg |-> m, snap |-> race_row,
                                                   kind |-> Race!trade_row_state(m.idx)]
  <1>0. race_disp \in DispTypes /\ Race!Free.pc = "idle"
    BY TakeFacts, AtRest
  <1>1. CASE \/ Race!persist_confirmed_take \/ Race!check_dropped \/ Race!write_status \/ Race!leave_tombstone
             \/ Race!restart
    <2>1. race_disp' = Race!Free
      BY <1>1 DEF Race!persist_confirmed_take, Race!check_dropped, Race!write_status, Race!leave_tombstone, Race!restart
    <2>. QED BY <1>0, <2>1
  <1>2. Race!check_new_order \/ Race!check_status => race_disp'.pc \in {"idle", "write"} /\ race_disp.pc = "check"
    BY CheckBinds
  <1>3. Race!wipe_row => /\ race_disp.pc = "wipe" /\ race_disp'.pc = "tomb"
                         /\ race_disp'.snap = race_disp.snap /\ race_row' = Race!NoRow
    BY <1>0 DEF Race!wipe_row, DispTypes
  <1>4. CASE Race!check_canceled
    <2>1. /\ race_disp.pc = "check" /\ race_disp.kind # "Wiped" /\ UNCHANGED <<race_row, race_bound, race_tomb>>
          /\ \/ race_disp' = Race!Free \/ race_disp' = [race_disp EXCEPT !.pc = "write"]
             \/ race_disp.kind # "NeverWritten" /\ race_disp' = [race_disp EXCEPT !.pc = "wipe"]
      BY <1>4 DEF Race!check_canceled, Race!dropped
    <2>. QED BY <1>0, <2>1 DEF DispTypes
  <1>5. CASE \E m \in race_net : Race!dispatch(m)
    <2>1. PICK m \in race_net : Race!dispatch(m)
      BY <1>5
    <2>2. race_disp.pc = "idle" /\ UNCHANGED <<race_row, race_tomb, race_bound>>
      BY <2>1 DEF Race!dispatch, Race!local
    <2>3. CASE race_disp' \in {race_disp, Race!Free}
      BY <1>0, <2>2, <2>3
    <2>4. CASE race_disp' = [Race!Free EXCEPT !.pc = "take", !.msg = m]
      BY <2>4, AtRest DEF DispTypes
    <2>5. CASE race_disp' = [pc |-> "check", msg |-> m, snap |-> race_row, kind |-> Race!trade_row_state(m.idx)]
      BY <2>2, <2>5
    <2>. QED BY <2>1, <2>3, <2>4, <2>5 DEF Race!dispatch
  <1>6. race_disp' = race_disp => ~DispWrites /\ ~Race!leave_tombstone
    <2>1. Race!persist_confirmed_take => race_disp.pc = "take" /\ race_disp' = Race!Free
      BY DEF Race!persist_confirmed_take
    <2>2. Race!write_status => race_disp.pc = "write" /\ race_disp' = Race!Free
      BY DEF Race!write_status
    <2>3. Race!leave_tombstone => race_disp.pc = "tomb" /\ race_disp' = Race!Free
      BY DEF Race!leave_tombstone
    <2>. QED BY <1>0, <1>2, <1>3, <2>1, <2>2, <2>3 DEF DispWrites
  <1>7. CASE \/ \E g \in Race!Gens : Race!take_order(g) \/ Race!take_timeout(g)
             \/ DaemonStep
             \/ \E p \in Paths : \/ Race!read_public(p) \/ Race!public_wipe(p)
                                 \/ Race!public_tombstone(p) \/ Race!public_sync(p)
             \/ Race!d_tag_task_ends
             \/ Race!age \/ Race!sweep_list \/ Race!sweep_view \/ Race!sweep_keep \/ Race!sweep_wipe
             \/ Race!sweep_tombstone \/ Race!sweep_pending \/ Race!sweep_success \/ Race!confirm_payout_completion
    <2>1. race_disp' = race_disp
      BY <1>7 DEF DaemonStep, Race!accept_take, Race!taken_by_other, Race!pay_out, Race!lapse, Race!cancel,
         Race!expire, Race!progress, Race!Client, Race!take_order, Race!take_timeout, Race!read_public,
         Race!public_wipe, Race!public_tombstone, Race!public_sync, Race!d_tag_task_ends, Race!age,
         Race!sweep_list, Race!sweep_view, Race!sweep_keep, Race!sweep_wipe, Race!sweep_tombstone,
         Race!sweep_pending, Race!sweep_success, Race!confirm_payout_completion
    <2>. QED BY <1>6, <2>1
  <1>. QED BY <1>1, <1>2, <1>3, <1>4, <1>5, <1>7 DEF Race!Next, DaemonStep

Tombs == Race!leave_tombstone \/ (\E p \in Paths : Race!public_tombstone(p)) \/ Race!sweep_tombstone

LEMMA TombSteps ==
    ASSUME Race!Next, ~DispWrites, ~Tombs
    PROVE  UNCHANGED <<race_tomb, race_wiped>>
  BY DEF Race!Next, DispWrites, Tombs, Race!accept_take, Race!taken_by_other, Race!pay_out, Race!lapse, Race!cancel,
     Race!expire, Race!progress, Race!Client, Race!take_order, Race!take_timeout, Race!local, Race!dispatch,
     Race!check_dropped, Race!check_canceled, Race!read_public, Race!public_wipe, Race!public_sync,
     Race!d_tag_task_ends, Race!age, Race!sweep_list, Race!sweep_view, Race!sweep_keep, Race!sweep_wipe,
     Race!sweep_pending, Race!sweep_success, Race!confirm_payout_completion, Race!restart

(* WipedTight by its parts.                                                  *)
TightRow ==
    /\ race_wiped <= race_bound
    /\ race_wiped = race_bound /\ race_bound # 0 => race_row = Race!NoRow /\ race_tomb = race_bound
TightDisp ==
    /\ race_disp.pc = "check" =>
         /\ race_disp.kind = "Exists" => race_row # Race!NoRow /\ race_disp.snap.idx = race_bound
         /\ race_disp.kind = "NeverWritten" => race_row = Race!NoRow /\ ~Race!tombstone_covers(race_disp.msg.idx)
         /\ race_disp.kind # "Unknown"
    /\ race_disp.pc \in {"wipe", "tomb"} => race_disp.snap.idx = race_bound
TightOthers ==
    /\ race_sweep.pc # "idle" => race_sweep.snap.idx = race_bound
    /\ \A p \in Paths : race_wire[p].pc \in {"wipe", "tomb"} => race_wire[p].idx = race_bound
TightTomb ==
    \/ race_disp.pc = "tomb" \/ race_sweep.pc = "tomb" \/ \E p \in Paths : race_wire[p].pc = "tomb"
    => race_row = Race!NoRow

LEMMA TightParts == WipedTight <=> (~Interleaved => TightRow /\ TightDisp /\ TightOthers /\ TightTomb)
  BY RaceConsts DEF WipedTight, TightRow, TightDisp, TightOthers, TightTomb

LEMMA TightRowKeeps ==
    ASSUME RaceInv, Alone, ~Interleaved, TightRow, TightDisp, TightOthers, TightTomb, Race!Next
    PROVE  TightRow'
  <1>0. /\ race_bound \in Nat /\ race_wiped \in Nat /\ race_bound \in 0 .. MaxGen
        /\ race_disp.pc # "idle" => race_disp.msg.idx \in Nat /\ race_disp.msg.idx # 0 /\ race_disp.msg.idx >= race_bound
    BY TakeFacts, RaceConsts DEF RaceInv, RaceTypes, RowBound
  <1>1. CASE Race!persist_confirmed_take
    <2>1. race_bound' = race_disp.msg.idx /\ race_disp.pc = "take" /\ UNCHANGED race_wiped
      BY <1>1 DEF Race!persist_confirmed_take
    <2>2. race_disp.msg.idx \in Race!Gens /\ Taking(race_disp.msg.idx)
      BY <2>1, TakeFacts DEF RaceInv, RowBound, Taking
    <2>3. race_bound < race_disp.msg.idx
      BY <2>2 DEF RaceInv, OneByOne
    <2>. QED BY <1>0, <2>1, <2>3 DEF TightRow
  <1>2. CASE Race!check_new_order \/ Race!check_status
    <2>1. CASE UNCHANGED <<race_row, race_bound, race_tomb>>
      BY <1>2, <2>1, CheckBinds DEF TightRow
    <2>2. CASE ~UNCHANGED <<race_row, race_bound, race_tomb>>
      <3>1. /\ race_bound' = race_disp.msg.idx /\ race_disp.pc = "check" /\ UNCHANGED race_wiped
            /\ race_row = Race!NoRow /\ ~Race!tombstone_covers(race_disp.msg.idx)
        BY <1>2, <2>2, CheckBinds DEF TightDisp
      <3>2. race_wiped # race_disp.msg.idx
        BY <1>0, <3>1 DEF TightRow, Race!tombstone_covers
      <3>. QED BY <1>0, <3>1, <3>2 DEF TightRow
    <2>. QED BY <2>1, <2>2
  <1>3. ASSUME NEW g, g = race_bound, Race!LeaveTombstone(g), UNCHANGED <<race_row, race_bound>>, race_row = Race!NoRow
        PROVE  TightRow'
    BY <1>0, <1>3 DEF TightRow, Race!LeaveTombstone
  <1>4. CASE Race!leave_tombstone
    BY <1>3, <1>4 DEF Race!leave_tombstone, TightDisp, TightTomb
  <1>5. ASSUME NEW p \in Paths, Race!public_tombstone(p) PROVE TightRow'
    BY <1>3, <1>5 DEF Race!public_tombstone, TightOthers, TightTomb
  <1>6. CASE Race!sweep_tombstone
    BY <1>3, <1>6 DEF Race!sweep_tombstone, TightOthers, TightTomb
  <1>7. CASE ~Race!persist_confirmed_take /\ ~Race!check_new_order /\ ~Race!check_status /\ ~Tombs
    <2>1. UNCHANGED <<race_tomb, race_wiped, race_bound>>
      <3>1. CASE Race!write_status \/ Race!wipe_row
        BY <3>1 DEF Race!write_status, Race!wipe_row
      <3>2. CASE ~Race!write_status /\ ~Race!wipe_row
        BY <1>7, <3>2, TombSteps, RowSteps DEF DispWrites
      <3>. QED BY <3>1, <3>2
    <2>2. race_row = Race!NoRow => race_row' = Race!NoRow
      BY <1>7, RowSteps
    <2>. QED BY <2>1, <2>2 DEF TightRow
  <1>. QED BY <1>1, <1>2, <1>4, <1>5, <1>6, <1>7 DEF Tombs

LEMMA TightDispKeeps ==
    ASSUME RaceInv, Alone, ~Interleaved, TightRow, TightDisp, TightOthers, TightTomb, Race!Next
    PROVE  TightDisp'
  <1>0. race_disp \in DispTypes
    BY TakeFacts
  <1>1. CASE race_disp'.pc \in {"idle", "write", "take"}
    BY <1>1 DEF TightDisp
  <1>2. CASE race_disp' = race_disp /\ ~DispWrites /\ ~Race!leave_tombstone /\ race_disp.pc # "idle"
    <2>1. race_sweep.pc = "idle" /\ \A p \in Paths : race_wire[p].pc \in {"off", "idle"}
      BY <1>2 DEF Alone
    <2>2. /\ \A p \in Paths : ~Race!public_wipe(p) /\ ~Race!public_sync(p) /\ ~Race!public_tombstone(p)
          /\ ~Race!sweep_wipe /\ ~Race!sweep_pending /\ ~Race!sweep_success /\ ~Race!sweep_tombstone
      BY <2>1 DEF Race!public_wipe, Race!public_sync, Race!public_tombstone, Race!sweep_wipe, Race!sweep_pending,
         Race!sweep_success, Race!sweep_tombstone
    <2>3. /\ race_row' = Race!NoRow <=> race_row = Race!NoRow
          /\ UNCHANGED <<race_bound, race_tomb>>
      BY <1>2, <2>2, RestingRow, RowSteps, TombSteps DEF DispWrites, Tombs
    <2>. QED BY <1>2, <2>3 DEF TightDisp, Race!tombstone_covers
  <1>3. CASE Race!wipe_row /\ race_disp'.pc = "tomb"
    <2>1. race_disp.pc = "wipe" /\ race_disp'.snap = race_disp.snap /\ UNCHANGED race_bound
      BY <1>0, <1>3 DEF Race!wipe_row, DispTypes
    <2>. QED BY <1>3, <2>1 DEF TightDisp
  <1>4. CASE /\ race_disp.pc = "check" /\ race_disp'.pc = "wipe" /\ race_disp'.snap = race_disp.snap
             /\ race_disp.kind \notin {"NeverWritten", "Wiped"} /\ UNCHANGED <<race_row, race_bound, race_tomb>>
    <2>1. race_disp.kind = "Exists"
      BY <1>0, <1>4 DEF DispTypes, TightDisp
    <2>. QED BY <1>4, <2>1 DEF TightDisp
  <1>5. CASE /\ UNCHANGED <<race_row, race_tomb, race_bound>>
             /\ \E m \in race_net : race_disp' = [pc |-> "check", msg |-> m, snap |-> race_row,
                                                  kind |-> Race!trade_row_state(m.idx)]
    BY <1>5 DEF TightDisp, Race!trade_row_state, Race!tombstone_covers, RaceInv, RowBound
  <1>6. CASE race_disp' = race_disp /\ race_disp.pc = "idle"
    BY <1>6 DEF TightDisp
  <1>. QED BY <1>1, <1>2, <1>3, <1>4, <1>5, <1>6, DispSteps

(* While another than the lock's holder is at work no key is bound.          *)
LEMMA KeyStands ==
    ASSUME RaceInv, Race!Next, race_disp.pc = "idle"
    PROVE  UNCHANGED race_bound /\ (race_row = Race!NoRow => race_row' = Race!NoRow)
  BY IdleWrites, RowSteps DEF DispWrites

LEMMA TightOthersKeeps ==
    ASSUME RaceInv, Alone, ~Interleaved, TightRow, TightDisp, TightOthers, TightTomb, Race!Next
    PROVE  TightOthers'
  <1>1. ASSUME race_sweep'.pc # "idle" PROVE race_sweep'.snap.idx = race_bound'
    <2>1. CASE Race!sweep_list
      <3>1. /\ race_sweep'.snap = race_row /\ UNCHANGED race_bound
            /\ race_row.status \in Race!Waiting \cup {"SettledHoldInvoice"}
        BY <2>1 DEF Race!sweep_list, Race!local
      <3>2. race_row # Race!NoRow
        BY <3>1, RowFields DEF Race!Waiting
      <3>. QED BY <3>1, <3>2 DEF RaceInv, RowBound
    <2>2. CASE ~Race!sweep_list
      <3>1. race_sweep'.snap = race_sweep.snap /\ race_sweep.pc # "idle"
        BY <1>1, <2>2, SweepSteps
      <3>2. race_disp.pc = "idle"
        BY <3>1 DEF Alone
      <3>. QED BY <3>1, <3>2, KeyStands DEF TightOthers
    <2>. QED BY <2>1, <2>2
  <1>2. ASSUME NEW p \in Paths, race_wire'[p].pc \in {"wipe", "tomb"} PROVE race_wire'[p].idx = race_bound'
    <2>1. CASE Race!read_public(p)
      <3>1. /\ race_wire'[p].idx = race_row.idx /\ UNCHANGED race_bound
            /\ race_wire'[p].pc = "wipe" => Race!cancellation_wipes_history(race_row.status)
            /\ race_wire'[p].pc # "tomb"
        BY <2>1 DEF Race!read_public, RaceInv, RaceTypes
      <3>2. race_row # Race!NoRow
        BY <1>2, <3>1, RowFields DEF Race!cancellation_wipes_history, Race!Waiting
      <3>. QED BY <3>1, <3>2 DEF RaceInv, RowBound
    <2>2. CASE ~Race!read_public(p)
      <3>1. race_wire'[p].idx = race_wire[p].idx /\ race_wire[p].pc \in {"wipe", "tomb"}
        BY <1>2, <2>2, WireSteps
      <3>2. race_disp.pc = "idle"
        BY <3>1 DEF Alone
      <3>. QED BY <3>1, <3>2, KeyStands DEF TightOthers
    <2>. QED BY <2>1, <2>2
  <1>. QED BY <1>1, <1>2 DEF TightOthers

LEMMA TightTombKeeps ==
    ASSUME RaceInv, Alone, ~Interleaved, TightRow, TightDisp, TightOthers, TightTomb, Race!Next
    PROVE  TightTomb'
  <1>1. CASE race_disp'.pc = "tomb"
    <2>1. race_row' = Race!NoRow \/ (race_disp.pc = "tomb" /\ ~DispWrites)
      BY <1>1, DispSteps
    <2>2. race_disp.pc = "tomb" /\ ~DispWrites => race_row' = Race!NoRow
      BY RowSteps DEF TightTomb, DispWrites
    <2>. QED BY <2>1, <2>2 DEF TightTomb
  <1>2. CASE race_sweep'.pc = "tomb"
    <2>1. Race!sweep_list => race_sweep'.pc = "listed"
      BY DEF Race!sweep_list
    <2>2. Race!sweep_wipe \/ race_sweep.pc = "tomb"
      BY <1>2, <2>1, SweepSteps
    <2>3. race_sweep.pc = "tomb" => race_disp.pc = "idle" /\ race_row = Race!NoRow
      BY DEF Alone, TightTomb
    <2>4. Race!sweep_wipe => race_row' = Race!NoRow
      BY DEF Race!sweep_wipe
    <2>. QED BY <2>2, <2>3, <2>4, KeyStands DEF TightTomb
  <1>3. ASSUME NEW p \in Paths, race_wire'[p].pc = "tomb" PROVE TightTomb'
    <2>1. Race!read_public(p) => race_wire'[p].pc # "tomb"
      BY DEF Race!read_public, RaceInv, RaceTypes
    <2>2. Race!public_wipe(p) \/ race_wire[p].pc = "tomb"
      BY <1>3, <2>1, WireSteps
    <2>3. race_wire[p].pc = "tomb" => race_disp.pc = "idle" /\ race_row = Race!NoRow
      BY DEF Alone, TightTomb
    <2>4. Race!public_wipe(p) => race_row' = Race!NoRow
      BY DEF Race!public_wipe
    <2>. QED BY <2>2, <2>3, <2>4, KeyStands DEF TightTomb
  <1>. QED BY <1>1, <1>2, <1>3 DEF TightTomb

LEMMA WipedTightKeeps == ASSUME RaceInv, Alone, WipedTight, Race!Next PROVE WipedTight'
  <1>. SUFFICES ASSUME ~Interleaved PROVE (TightRow /\ TightDisp /\ TightOthers /\ TightTomb)'
    BY DEF WipedTight, TightRow, TightDisp, TightOthers, TightTomb
  <1>. QED BY TightParts, TightRowKeeps, TightDispKeeps, TightOthersKeeps, TightTombKeeps

(* What a step may do to a finished trade and to the row of a retake.        *)
(* An arm writes in its next step, and goes on to write only past its gate.  *)
LEMMA WriteStands ==
    ASSUME RaceInv, Race!Next, race_disp'.pc = "write", race_disp.pc = "write"
    PROVE  race_disp' = race_disp
  <1>1. ~Race!persist_confirmed_take /\ ~Race!check_dropped /\ ~Race!write_status /\ ~Race!leave_tombstone /\ ~Race!restart
    BY AtRest DEF Race!persist_confirmed_take, Race!check_dropped, Race!write_status, Race!leave_tombstone, Race!restart
  <1>2. /\ ~Race!check_new_order /\ ~Race!check_canceled /\ ~Race!check_status /\ ~Race!wipe_row
        /\ \A m \in race_net : ~Race!dispatch(m)
    BY DEF Race!check_new_order, Race!check_canceled, Race!check_status, Race!wipe_row, Race!dispatch
  <1>. QED BY <1>1, <1>2 DEF Race!Next, Race!accept_take, Race!taken_by_other, Race!pay_out,
       Race!lapse, Race!cancel, Race!expire, Race!progress, Race!Client, Race!take_order, Race!take_timeout,
       Race!read_public, Race!public_wipe, Race!public_tombstone, Race!public_sync, Race!d_tag_task_ends, Race!age,
       Race!sweep_list, Race!sweep_view, Race!sweep_keep, Race!sweep_wipe, Race!sweep_tombstone,
       Race!sweep_pending, Race!sweep_success, Race!confirm_payout_completion

LEMMA WriteJudged ==
    ASSUME RaceInv, Race!Next, race_disp'.pc = "write", race_disp.pc # "write"
    PROVE  /\ ~Race!status_write_blocked(race_disp.msg) /\ race_disp'.msg = race_disp.msg
           /\ race_row' = race_row \/ race_row'.status = Race!Written(race_disp.msg.action)
  <1>0. race_disp \in DispTypes
    BY TakeFacts
  <1>1. Race!check_new_order \/ Race!check_canceled \/ Race!check_status
    <2>1. ~Race!persist_confirmed_take /\ ~Race!check_dropped /\ ~Race!write_status /\ ~Race!leave_tombstone /\ ~Race!restart
      BY AtRest DEF Race!persist_confirmed_take, Race!check_dropped, Race!write_status, Race!leave_tombstone, Race!restart
    <2>2. ~Race!wipe_row
      BY <1>0 DEF Race!wipe_row, DispTypes
    <2>3. ~ \E m \in race_net : Race!dispatch(m)
      <3>1. ASSUME NEW m \in race_net, Race!dispatch(m) PROVE FALSE
        <4>1. [Race!Free EXCEPT !.pc = "take", !.msg = m].pc = "take"
          BY AtRest DEF DispTypes
        <4>2. \/ race_disp' = race_disp \/ race_disp' = Race!Free
              \/ race_disp' = [Race!Free EXCEPT !.pc = "take", !.msg = m]
              \/ race_disp' = [pc |-> "check", msg |-> m, snap |-> race_row, kind |-> Race!trade_row_state(m.idx)]
          BY <3>1 DEF Race!dispatch
        <4>3. CASE race_disp' = race_disp
          BY <4>3
        <4>4. CASE race_disp' = Race!Free
          BY <4>4, AtRest
        <4>5. CASE race_disp' = [Race!Free EXCEPT !.pc = "take", !.msg = m]
          <5>1. race_disp'.pc = "take"
            BY <4>1, <4>5
          <5>. QED BY <5>1
        <4>6. CASE race_disp' = [pc |-> "check", msg |-> m, snap |-> race_row, kind |-> Race!trade_row_state(m.idx)]
          BY <4>6
        <4>. QED BY <4>2, <4>3, <4>4, <4>5, <4>6
      <3>. QED BY <3>1
    <2>4. race_disp' # race_disp
      OBVIOUS
    <2>. QED BY <2>1, <2>2, <2>3, <2>4 DEF Race!Next, Race!accept_take, Race!taken_by_other, Race!pay_out,
       Race!lapse, Race!cancel, Race!expire, Race!progress, Race!Client, Race!take_order, Race!take_timeout,
       Race!read_public, Race!public_wipe, Race!public_tombstone, Race!public_sync, Race!d_tag_task_ends, Race!age,
       Race!sweep_list, Race!sweep_view, Race!sweep_keep, Race!sweep_wipe, Race!sweep_tombstone,
       Race!sweep_pending, Race!sweep_success, Race!confirm_payout_completion
  <1>2. CASE Race!check_new_order
    <2>1. /\ ~Race!status_write_blocked(race_disp.msg) /\ UNCHANGED race_row
          /\ race_disp' = [race_disp EXCEPT !.pc = "write", !.snap = Race!NoRow]
      BY <1>2, AtRest DEF Race!check_new_order, Race!republished
    <2>. QED BY <1>0, <2>1 DEF DispTypes
  <1>3. CASE Race!check_canceled
    <2>1. ~Race!status_write_blocked(race_disp.msg) /\ UNCHANGED race_row
      BY <1>3 DEF Race!check_canceled, Race!dropped
    <2>2. \/ race_disp' = Race!Free
          \/ race_disp' = [race_disp EXCEPT !.pc = "wipe"] \/ race_disp' = [race_disp EXCEPT !.pc = "write"]
      BY <1>3 DEF Race!check_canceled
    <2>. QED BY <1>0, <2>1, <2>2, AtRest DEF DispTypes
  <1>4. CASE Race!check_status
    <2>1. ~Race!status_write_blocked(race_disp.msg)
      BY <1>4 DEF Race!check_status, Race!dropped
    <2>. QED BY <1>4, <2>1, CheckBinds
  <1>. QED BY <1>1, <1>2, <1>3, <1>4

LEMMA LockMakesRow ==
    ASSUME RaceInv, Forward, Race!Next, race_disp'.pc = "check", race_disp'.kind = "NeverWritten"
    PROVE  race_row' = Race!NoRow
  <1>1. CASE race_disp' = race_disp /\ ~DispWrites
    <2>1. race_row = Race!NoRow
      BY <1>1 DEF Forward
    <2>. QED BY <1>1, <2>1, RowSteps DEF DispWrites
  <1>2. ASSUME NEW m \in race_net, UNCHANGED race_row,
               race_disp' = [pc |-> "check", msg |-> m, snap |-> race_row, kind |-> Race!trade_row_state(m.idx)]
        PROVE  race_row' = Race!NoRow
    BY <1>2 DEF Race!trade_row_state
  <1>. QED BY <1>1, <1>2, DispSteps

(* Who is at work past the end of a trade and had not judged it before, read *)
(* the ended row: its gate leaves it nothing to undo.                        *)
LEMMA ForwardKeeps ==
    ASSUME RaceInv, Forward, Race!Next, Overtakes
    PROVE  Forward'
  <1>1. ASSUME RaceOver', NEW w \in Decided' \ race_late' PROVE Harmless(w)'
    <2>1. RaceOver /\ race_late' = race_late \cap Decided'
      BY <1>1 DEF Overtakes
    <2>2. w \in Decided => Harmless(w)
      BY <1>1, <2>1 DEF Forward
    <2>3. "lock" \notin Paths /\ "sweep" \notin Paths
      BY RaceConsts
    <2>4. CASE w = "lock"
      <3>1. race_disp'.pc = "write"
        BY <1>1, <2>3, <2>4 DEF Decided
      <3>2. CASE race_disp.pc = "write"
        <4>1. Race!is_hard_terminal(Race!Written(race_disp.msg.action))
          BY <2>2, <2>4, <3>2 DEF Decided, Harmless
        <4>2. race_disp' = race_disp
          BY <3>1, <3>2, WriteStands
        <4>. QED BY <2>3, <2>4, <4>1, <4>2 DEF Harmless
      <3>3. CASE race_disp.pc # "write"
        <4>1. /\ ~Race!status_write_blocked(race_disp.msg) /\ race_disp'.msg = race_disp.msg
          BY <3>1, <3>3, WriteJudged
        <4>2. Race!is_hard_terminal(Race!Written(race_disp.msg.action))
          BY <2>1, <4>1, GateHolds DEF RaceOver
        <4>. QED BY <2>3, <2>4, <4>1, <4>2 DEF Harmless
      <3>. QED BY <3>2, <3>3
    <2>5. CASE w = "sweep"
      <3>1. race_sweep'.pc # "idle"
        BY <1>1, <2>3, <2>5 DEF Decided
      <3>2. race_sweep.pc = "idle"
        BY <2>2, <2>5 DEF Decided, Harmless
      <3>3. Race!sweep_list
        BY <3>1, <3>2, SweepSteps
      <3>4. race_row.status \in Race!Waiting \cup {"SettledHoldInvoice"}
        BY <3>3 DEF Race!sweep_list
      <3>. QED BY <2>1, <3>4, StatusKinds DEF RaceOver
    <2>6. CASE w \in Paths
      <3>1. race_wire'[w].pc = "sync"
        BY <1>1, <2>3, <2>6 DEF Decided
      <3>2. CASE Race!read_public(w)
        <4>1. race_wire'[w].local = Race!local_trade_status
          BY <2>6, <3>2 DEF Race!read_public, RaceInv, RaceTypes
        <4>2. race_row # Race!NoRow
          BY <2>1, RowFields, StatusKinds DEF RaceOver
        <4>. QED BY <2>1, <2>3, <2>6, <4>1, <4>2 DEF Harmless, RaceOver, Race!local_trade_status
      <3>3. CASE ~Race!read_public(w)
        <4>1. race_wire[w].pc = "sync" /\ race_wire'[w].local = race_wire[w].local
          BY <2>6, <3>1, <3>3, WireSteps
        <4>. QED BY <2>2, <2>3, <2>6, <4>1 DEF Decided, Harmless
      <3>. QED BY <3>2, <3>3
    <2>. QED BY <1>1, <2>4, <2>5, <2>6 DEF Decided
  <1>. QED BY <1>1, LockMakesRow DEF Forward

(* A trade reopened was reopened by a writer of race_late, which is done.    *)
LEMMA StaysFinished ==
    ASSUME RaceInv, Forward, Race!Next, Overtakes,
           RaceOver, race_row'.idx = race_row.idx, race_late \ race_late' = {}
    PROVE  RaceOver'
  <1>0. /\ race_row \in Judged /\ race_row # Race!NoRow /\ race_row.status \notin NotNew
        /\ race_row.idx \in Race!Gens /\ race_row.idx = race_bound /\ race_bound \in Nat /\ race_row.idx # 0
    BY RowFields, StatusKinds, TakeFacts DEF RaceInv, RaceTypes, RowBound, NotNew, RaceOver
  <1>. USE DEF RaceOver
  <1>a. "lock" \notin Paths /\ "sweep" \notin Paths
    BY RaceConsts
  <1>b. \/ RaceOver'
        \/ race_late' = race_late \cap Decided' /\ \A w \in race_late : w \in Decided'
    BY DEF Overtakes
  <1>c. \A w \in Decided : w \notin Decided' => RaceOver' \/ Harmless(w)
    BY <1>b DEF Forward
  <1>1. race_row' # Race!NoRow
    BY <1>0, RowFields
  <1>2. \A s \in Race!Statuses : Race!WriteStatus(s) => race_row'.status = s
    BY <1>0, WritesStatus
  <1>3. CASE Race!persist_confirmed_take
    <2>1. race_row'.idx = race_disp.msg.idx /\ race_disp.pc = "take"
      BY <1>3 DEF Race!persist_confirmed_take, Race!Row
    <2>2. race_disp.msg.idx \in Race!Gens /\ Taking(race_disp.msg.idx)
      BY <2>1, TakeFacts DEF RaceInv, RowBound, Taking
    <2>3. race_bound < race_disp.msg.idx
      BY <2>2 DEF RaceInv, OneByOne
    <2>. QED BY <1>0, <2>1, <2>2, <2>3, TakeFacts
  <1>4. CASE Race!check_new_order \/ Race!check_status
    <2>1. UNCHANGED race_row
      BY <1>0, <1>4, CheckBinds DEF Forward
    <2>. QED BY <2>1
  <1>5. CASE Race!write_status
    <2>1. race_disp.pc = "write" /\ (race_row' = race_row \/ Race!WriteStatus(Race!Written(race_disp.msg.action)))
      BY <1>5 DEF Race!write_status
    <2>2. Race!Written(race_disp.msg.action) \in Race!Statuses
      BY <2>1, TakeFacts, MessageFields, StatusOfAction DEF RaceInv, RowBound
    <2>3. "lock" \in Decided /\ "lock" \notin Decided'
      BY <1>5, <1>a, <2>1, AtRest DEF Decided, Race!write_status
    <2>4. RaceOver' \/ Race!is_hard_terminal(Race!Written(race_disp.msg.action))
      BY <1>c, <2>3 DEF Harmless
    <2>. QED BY <1>2, <2>1, <2>2, <2>4
  <1>6. CASE Race!wipe_row
    BY <1>1, <1>6 DEF Race!wipe_row
  <1>7. ASSUME NEW p \in Paths, Race!public_sync(p) PROVE Race!is_hard_terminal(race_row'.status)
    <2>. DEFINE s == race_wire[p].status
    <2>1. race_wire[p].pc = "sync" /\ s \in Publics /\ s \in Race!Statuses
      BY <1>7 DEF Race!public_sync, RaceInv, RaceTypes, Publics, Race!Statuses, Race!HardTerminal
    <2>2. CASE UNCHANGED race_row
      BY <2>2
    <2>3. CASE /\ Race!wire_status_applies(race_wire[p].local, s) /\ Race!WriteStatus(s)
               /\ p = "dtag" \/ race_wire[p].own
      <3>1. race_wire'[p].pc = "idle"
        BY <1>7, AtRest DEF Race!public_sync, RaceInv, RaceTypes, WireTypes
      <3>2. p \in Decided /\ p \notin Decided'
        BY <1>a, <2>1, <3>1 DEF Decided
      <3>3. RaceOver' \/ race_wire[p].local \notin NotNew
        BY <1>c, <3>2, StatusKinds DEF Harmless
      <3>4. race_wire[p].local \notin NotNew => Race!is_hard_terminal(s)
        BY <2>1, <2>3 DEF Race!wire_status_applies, NotNew, Race!None, Publics
      <3>. QED BY <1>2, <2>1, <2>3, <3>3, <3>4
    <2>. QED BY <1>7, <2>2, <2>3 DEF Race!public_sync
  <1>8. ASSUME NEW p \in Paths, Race!public_wipe(p) PROVE Race!is_hard_terminal(race_row'.status)
    BY <1>1, <1>8 DEF Race!public_wipe
  <1>9. CASE Race!sweep_wipe
    BY <1>1, <1>9 DEF Race!sweep_wipe
  <1>10. CASE Race!sweep_pending
    <2>1. "sweep" \in Decided /\ "sweep" \notin Decided'
      BY <1>10, <1>a, AtRest DEF Race!sweep_pending, Decided
    <2>. QED BY <1>c, <2>1 DEF Harmless
  <1>11. CASE Race!sweep_success \/ Race!confirm_payout_completion
    <2>1. UNCHANGED race_row \/ Race!WriteStatus("Success")
      BY <1>11 DEF Race!sweep_success, Race!confirm_payout_completion, Race!PayoutCompleted
    <2>2. "Success" \in Race!Statuses
      BY DEF Race!Statuses, Race!HardTerminal
    <2>. QED BY <1>2, <2>1, <2>2, StatusKinds
  <1>12. CASE Race!age
    BY <1>12, StatusKinds DEF Race!age
  <1>13. CASE UNCHANGED race_row
    BY <1>13
  <1>14. CASE \/ \E g \in Race!Gens : Race!take_order(g) \/ Race!take_timeout(g)
              \/ \E m \in race_net : Race!dispatch(m)
              \/ DaemonStep
              \/ Race!check_dropped \/ Race!check_canceled \/ Race!leave_tombstone
              \/ \E p \in Paths : Race!read_public(p) \/ Race!public_tombstone(p)
              \/ Race!d_tag_task_ends
              \/ Race!sweep_list \/ Race!sweep_view \/ Race!sweep_keep \/ Race!sweep_tombstone
              \/ Race!restart
    BY <1>13, <1>14 DEF DaemonStep, Race!accept_take, Race!taken_by_other, Race!pay_out, Race!lapse, Race!cancel,
       Race!expire, Race!progress, Race!Client, Race!take_order, Race!take_timeout, Race!local, Race!dispatch,
       Race!check_dropped, Race!check_canceled, Race!leave_tombstone, Race!read_public, Race!public_tombstone,
       Race!d_tag_task_ends, Race!sweep_list, Race!sweep_view, Race!sweep_keep, Race!sweep_tombstone, Race!restart
  <1>. QED BY <1>3, <1>4, <1>5, <1>6, <1>7, <1>8, <1>9, <1>10, <1>11, <1>12, <1>14 DEF Race!Next, DaemonStep

-----------------------------------------------------------------------------
LEMMA RaceStutters ==
    ASSUME UNCHANGED RaceVars
    PROVE  /\ RaceInv => RaceInv'
           /\ Alone => Alone'
           /\ Forward /\ UNCHANGED race_late => Forward'
           /\ WipedTight => WipedTight'
  <1>1. RaceInv => RaceInv'
    BY DEF RaceVars, RaceInv, RaceTypes, Dealt, OneByOne, Taking, RowBound
  <1>2. Alone => Alone'
    BY DEF RaceVars, Alone
  <1>3. Forward /\ UNCHANGED race_late => Forward'
    BY DEF RaceVars, Forward, Harmless, Decided, RaceOver
  <1>4. WipedTight => WipedTight'
    BY DEF RaceVars, WipedTight, Race!tombstone_covers
  <1>. QED BY <1>1, <1>2, <1>3, <1>4

LEMMA RaceMoves == [MCNext]_MCvars => [Race!Next]_RaceVars
  BY DEF MCNext, MCvars

LEMMA LateMoves == [MCNext]_MCvars => (Overtakes /\ Race!Next) \/ UNCHANGED <<RaceVars, race_late>>
  BY DEF MCNext, MCvars

LEMMA RaceKeeps == MCSpec => [](RaceInv /\ Alone /\ WipedTight)
  <1>1. MCInit => RaceInv /\ Alone /\ WipedTight
    BY RaceStart DEF MCInit
  <1>2. RaceInv /\ Alone /\ WipedTight /\ [MCNext]_MCvars => (RaceInv /\ Alone /\ WipedTight)'
    BY RaceMoves, RaceStutters, RaceStep, AloneKeeps, WipedTightKeeps
  <1>. QED BY <1>1, <1>2, PTL DEF MCSpec

LEMMA RaceForward == MCSpec => []Forward
  <1>1. MCInit => Forward
    BY RaceStart DEF MCInit
  <1>2. RaceInv /\ Forward /\ [MCNext]_MCvars => Forward'
    BY LateMoves, RaceStutters, ForwardKeeps
  <1>. QED BY <1>1, <1>2, RaceKeeps, PTL DEF MCSpec

(* Whoever comes between a handler's steps, and for any number of takes, the *)
(* row of a confirmed take is not removed or rewritten on behalf of an       *)
(* earlier take: the generation gate is read under the lock that a take      *)
(* holds until it is written (dispatch_mostro_message,                       *)
(* persist_confirmed_take in api/orders.rs).                                 *)
THEOREM RetakeIsKept == MCSpec => Race!RetakeKept
  <1>. DEFINE Kept == race_row # Race!NoRow /\ race_row' # race_row /\ race_disp.pc \in {"wipe", "write"}
                        => race_disp.msg.idx >= race_row.idx
  <1>1. RaceInv => (race_row # Race!NoRow /\ race_disp.pc \in {"wipe", "write"} => race_disp.msg.idx >= race_row.idx)
    BY DEF RaceInv, RowBound
  <1>2. RaceInv /\ [MCNext]_MCvars => [Kept]_(Race!vars)
    BY <1>1
  <1>3. MCSpec => [][Kept]_(Race!vars)
    BY <1>2, RaceKeeps, PTL DEF MCSpec
  <1>. QED BY <1>3 DEF Race!RetakeKept

(* Whoever comes between a handler's steps, and for any number of takes,     *)
(* events, restarts and sweeps, for a maker and for a taker, with either     *)
(* public feed: a finished trade is taken back to an unfinished status only  *)
(* by a writer that had judged the row before the trade ended; no gate that  *)
(* is read afterwards lets one through (status_write_blocked,                *)
(* wire_status_applies, is_hard_terminal).  And a retake's row is kept.      *)
THEOREM RaceIsSafe == MCSpec => RaceSteps
  <1>. DEFINE Stays == RaceOver /\ race_row'.idx = race_row.idx /\ ~RaceOver' => race_late \ race_late' # {}
  <1>1. RaceInv /\ Forward /\ [MCNext]_MCvars => [Stays]_MCvars
    <2>. SUFFICES ASSUME RaceInv, Forward, [MCNext]_MCvars PROVE Stays
      OBVIOUS
    <2>1. CASE UNCHANGED <<RaceVars, race_late>>
      BY <2>1 DEF RaceVars, RaceOver
    <2>2. CASE Overtakes /\ Race!Next
      BY <2>2, StaysFinished
    <2>. QED BY <2>1, <2>2, LateMoves
  <1>2. MCSpec => [][Stays]_MCvars
    BY <1>1, RaceKeeps, RaceForward, PTL DEF MCSpec
  <1>3. MCSpec => FinishedKept
    BY <1>2 DEF FinishedKept
  <1>. QED BY <1>3, RetakeIsKept DEF RaceSteps

(* With handlers that are whole, a row wiped on purpose is not brought back  *)
(* by its own history, in whatever order and however often the relays hand   *)
(* the messages back: only a later take makes a new one (tombstone_covers,   *)
(* trade_row_state, adopt_range_remainder).                                  *)
THEOREM WipedIsGone == ASSUME ~Interleaved PROVE MCSpec => []Race!WipedStaysWiped
  <1>1. RaceInv /\ WipedTight => (race_row # Race!NoRow => race_row.idx > race_wiped)
    <2>. SUFFICES ASSUME RaceInv, WipedTight, race_row # Race!NoRow PROVE race_row.idx > race_wiped
      OBVIOUS
    <2>1. race_row.idx = race_bound /\ race_bound \in Nat /\ race_bound # 0 /\ race_wiped \in Nat
      BY RowFields, TakeFacts, RaceConsts DEF RaceInv, RowBound, RaceTypes
    <2>2. race_wiped <= race_bound /\ race_wiped # race_bound
      BY <2>1 DEF WipedTight
    <2>. QED BY <2>1, <2>2
  <1>2. RaceInv /\ WipedTight => Race!WipedStaysWiped
    BY <1>1 DEF Race!WipedStaysWiped
  <1>. QED BY <1>2, RaceKeeps, PTL

(* What is stored and held of a row has its types, for any number of takes,  *)
(* events, restarts and sweeps: a wiped row leaves an index that is one of   *)
(* its order's, and no arm writes a status the row does not know.            *)
THEOREM RowIsTyped == MCSpec => []Race!TypeOK
  <1>1. RaceInv => Race!TypeOK
    <2>. SUFFICES ASSUME RaceInv PROVE Race!TypeOK
      OBVIOUS
    <2>1. /\ race_disp \in DispTypes /\ race_sweep \in SweepTypes
          /\ \A p \in Paths : race_wire[p] \in WireTypes
      BY DEF RaceInv, RaceTypes
    <2>2. /\ race_disp.pc \in {"idle", "take", "check", "write", "wipe", "tomb"}
          /\ race_disp.msg \in Race!Message \cup {Race!NoMessage} /\ race_disp.snap \in Judged
          /\ race_disp.kind \in {"Exists", "Wiped", "NeverWritten", "Unknown"}
      BY <2>1 DEF DispTypes
    <2>3. race_sweep.pc \in {"idle", "listed", "viewed", "tomb"} /\ race_sweep.snap \in Judged
      BY <2>1 DEF SweepTypes
    <2>4. \A p \in Paths : /\ race_wire[p].pc \in {"off", "idle", "wipe", "tomb", "sync"}
                           /\ race_wire[p].status \in Shown /\ race_wire[p].local \in Shown
                           /\ race_wire[p].own \in BOOLEAN
                           /\ race_wire[p].idx \in 0 .. MaxGen /\ race_wire[p].at \in 0 .. MaxEvents
      BY <2>1 DEF WireTypes
    <2>5. /\ race_order.status \in Race!Statuses /\ race_order.gen \in 0 .. MaxGen
          /\ race_order.public \in Race!Statuses /\ race_order.at \in 0 .. MaxEvents
      BY DEF RaceInv, RaceTypes, Publics, Race!Statuses, Race!HardTerminal
    <2>. QED BY <2>2, <2>3, <2>4, <2>5 DEF Race!TypeOK, RaceInv, RaceTypes, Judged, Shown
  <1>. QED BY <1>1, RaceKeeps, PTL
=============================================================================
