---------------------------- MODULE ClaimsProofs ----------------------------
(***************************************************************************)
(* Proofs about the payout claim of a slashed bond, for any number of      *)
(* submissions, anchors and claim windows, and about the Cashu escrow.     *)
(***************************************************************************)
EXTENDS MCClaims, FiniteSetTheorems, WellFoundedInduction, TLAPS

(* What a copy of the claim says is so, given what the daemon sent (n), its *)
(* own view (d) and the clock (t).  Copies are held across awaits.          *)
Copy(c, n, d, t) ==
    /\ c \in BondClaim
    /\ c # NoClaim => \E m \in n : m.action = "AddBondInvoice" /\ m.slashed = c.slashed
    /\ c.phase = "Acknowledged" => \E m \in n : m.action = "BondInvoiceAccepted"
    /\ c.phase = "Completed" => d.state = "paid"
    /\ c.phase = "Expired" => t > c.deadline

Shapes ==
    /\ sub \in [Submits -> [pc : PCs, held : BondClaim, inbox : {"none", "ack", "rejected"},
                            result : Results]]
    /\ disp \in [pc : {"idle", "load", "store"}, msg : Message \cup {NoMessage}, held : BondClaim]
    /\ daemon \in [state : {"asking", "paying", "paid"}, slashed : Slashes,
                   by : Submits \cup {NoSubmit}, round : Nat, asks : Nat]

Copies == /\ Copy(claim, net, daemon, clock)
          /\ \A s \in Submits : Copy(sub[s].held, net, daemon, clock)
          /\ Copy(disp.held, net, daemon, clock)

(* Nothing is submitted before there is a claim; only the dispatcher makes *)
(* the first one.                                                          *)
Started == /\ claim = NoClaim => /\ stored = {} /\ disp.held = NoClaim
                                 /\ \A s \in Submits : sub[s].pc = "idle"
           /\ disp.pc = "store" /\ disp.held = NoClaim => claim = NoClaim

(* A submission works on a clone, expired if it says so, and only a word   *)
(* of the daemon rejects it.                                               *)
Working == \A s \in Submits :
    /\ sub[s].pc \in {"read", "expiring", "publishing", "published", "rejected"}
         => sub[s].held # NoClaim
    /\ sub[s].pc = "idle" => sub[s].held = NoClaim
    /\ sub[s].pc = "expiring" => clock > sub[s].held.deadline
    /\ sub[s].inbox # "none" \/ sub[s].pc = "rejected" => Answers(s)

(* The handler's message was sent; what was said of the payout is so.      *)
Said == /\ disp.pc # "idle" => disp.msg \in net /\ disp.msg.action # "CantDo"
        /\ daemon.state # "asking" => daemon.by \in Submits
        /\ \A m \in net : m.action = "BondPayoutCompleted" => daemon.state = "paid"

(* As long as the daemon kept one anchor, every copy has one deadline.     *)
Kept(n) == \A m, o \in n : m.action = "AddBondInvoice" /\ o.action = "AddBondInvoice"
                             => m.slashed = o.slashed
SameDeadline == Kept(net) =>
    /\ \A s \in Submits : sub[s].held # NoClaim => sub[s].held.deadline = claim.deadline
    /\ disp.held # NoClaim => disp.held.deadline = claim.deadline

ClaimInv == /\ TypeOK /\ Shapes /\ Copies /\ Started /\ Working /\ Said /\ SameDeadline
            /\ SubmittedUntilJudged

-----------------------------------------------------------------------------
(* A copy stays true as messages come, time passes and a payout is made.   *)
LEMMA CopyStays ==
    ASSUME NEW c, NEW n, NEW d, NEW t, NEW n2, NEW d2, NEW t2, Copy(c, n, d, t),
           n \subseteq n2, d.state = "paid" => d2.state = "paid", t \in Nat, t2 \in Nat, t <= t2
    PROVE  Copy(c, n2, d2, t2)
<1>1. c.phase = "Expired" => c.deadline \in Nat
  BY DEF Copy, BondClaim, NoClaim
<1> QED
  BY <1>1 DEF Copy

LEMMA NoClaimIs == /\ NoClaim \in BondClaim /\ NoClaim.phase = "None"
                   /\ \A c \in BondClaim : c # NoClaim => c.phase \in Phases /\ c.slashed \in Slashes
                                                          /\ c.deadline \in Nat
                   /\ \A n, d, t : Copy(NoClaim, n, d, t)
BY DEF NoClaim, BondClaim, Phases, Copy

(* Another phase of the same claim. *)
LEMMA PhaseSet ==
    ASSUME NEW c \in BondClaim, c # NoClaim, NEW p \in Phases
    PROVE  LET u == [c EXCEPT !.phase = p] IN
           /\ u \in BondClaim /\ u # NoClaim /\ u.phase = p
           /\ u.slashed = c.slashed /\ u.deadline = c.deadline
BY DEF NoClaim, BondClaim, Phases

(* An add-bond-invoice makes the claim, or leaves the deadline where it is *)
(* while the anchor is the same; only an acknowledged claim is re-armed.   *)
LEMMA UpsertCopy ==
    ASSUME NEW c, NEW n, NEW d, NEW t, NEW m \in n, NEW w \in Windows, Copy(c, n, d, t),
           n \subseteq Message, t \in Nat, m.action = "AddBondInvoice"
    PROVE  LET u == upsert_claim(c, m, w, t) IN
           /\ Copy(u, n, d, t) /\ u # NoClaim
           /\ c # NoClaim /\ Kept(n) => u.deadline = c.deadline
           /\ c # NoClaim /\ Kept(n) /\ c.phase # "Acknowledged" => u = c
<1> DEFINE u == upsert_claim(c, m, w, t)
           k == m.slashed + w
<1>1. m.slashed \in Slashes /\ m.slashed \in Nat /\ k \in Nat
  <2>1. m \in Message
    OBVIOUS
  <2>2. m.slashed \in Slashes
    BY <2>1 DEF Message
  <2>3. m.slashed \in Nat /\ w \in Nat
    BY <2>2, ClaimsAssumption
  <2> QED
    BY <2>2, <2>3
<1>2. c \in BondClaim
  BY DEF Copy
<1> HIDE DEF k
<1>3. CASE c = NoClaim \/ c.slashed # m.slashed
  <2>1. u = [phase |-> IF t > k THEN "Expired" ELSE "Pending", slashed |-> m.slashed, deadline |-> k]
    BY <1>3, NoClaimIs DEF upsert_claim, fresh, claim_deadline, past, k
  <2>2. u \in BondClaim /\ u # NoClaim /\ u.slashed = m.slashed /\ u.phase \in {"Expired", "Pending"}
        /\ (u.phase = "Expired" => t > u.deadline)
    BY <1>1, <2>1 DEF BondClaim, Phases, NoClaim
  <2>3. Copy(u, n, d, t)
    BY <2>2 DEF Copy
  <2>4. c # NoClaim => ~Kept(n)
    BY <1>3 DEF Copy, Kept
  <2> QED
    BY <2>2, <2>3, <2>4
<1>4. CASE c # NoClaim /\ c.slashed = m.slashed
  <2>1. c.phase # "None" /\ c.phase \in Phases
    BY <1>2, <1>4, NoClaimIs DEF Phases
  <2>2. c.phase = "Expired" => past(t, c.deadline)
    BY DEF Copy, past
  <2>3. u = IF c.phase = "Acknowledged" THEN [c EXCEPT !.phase = "Pending"] ELSE c
    BY <1>4, <2>1, <2>2 DEF upsert_claim
  <2> DEFINE v == [c EXCEPT !.phase = "Pending"]
  <2>4. /\ v \in BondClaim /\ v # NoClaim /\ v.phase = "Pending"
        /\ v.slashed = c.slashed /\ v.deadline = c.deadline
    <3>1. "Pending" \in Phases
      BY DEF Phases
    <3> QED
      BY <1>2, <1>4, <3>1, PhaseSet
  <2> HIDE DEF v
  <2>5. Copy(v, n, d, t)
    BY <1>4, <2>4 DEF Copy
  <2> QED
    BY <1>4, <2>3, <2>4, <2>5 DEF v
<1> QED
  BY <1>3, <1>4

(* A verdict moves a claim's phase, if any, and nothing else of it.        *)
LEMMA AdvanceCopy ==
    ASSUME NEW c, NEW n, NEW d, NEW t, NEW m \in n, Copy(c, n, d, t),
           m.action \in {"BondInvoiceAccepted", "BondPayoutCompleted"},
           m.action = "BondPayoutCompleted" => d.state = "paid"
    PROVE  LET u == advance(c, Verdict(m)) IN
           /\ Copy(u, n, d, t) /\ (c = NoClaim => u = c)
           /\ c # NoClaim => u # NoClaim /\ u.deadline = c.deadline
<1> DEFINE p == Verdict(m)
           v == [c EXCEPT !.phase = p]
<1>1. /\ p \in {"Acknowledged", "Completed"}
      /\ p = "Acknowledged" => m.action = "BondInvoiceAccepted"
      /\ p = "Completed" => d.state = "paid"
  BY DEF Verdict
<1>2. c \in BondClaim
  BY DEF Copy
<1> HIDE DEF p
<1>3. (advance(c, p) = c \/ advance(c, p) = v) /\ (c = NoClaim => advance(c, p) = c)
  BY NoClaimIs DEF advance
<1>4. CASE c = NoClaim
  BY <1>3, <1>4 DEF p
<1>5. CASE c # NoClaim
  <2>1. /\ v \in BondClaim /\ v # NoClaim /\ v.phase = p
        /\ v.slashed = c.slashed /\ v.deadline = c.deadline
    <3>1. p \in Phases
      BY <1>1 DEF Phases
    <3> QED
      BY <1>2, <1>5, <3>1, PhaseSet
  <2> HIDE DEF v
  <2>2. Copy(v, n, d, t)
    BY <1>1, <1>5, <2>1 DEF Copy
  <2> QED
    BY <1>3, <1>5, <2>1, <2>2 DEF p
<1> QED
  BY <1>4, <1>5

(* A rejection re-arms a claim in time, and expires a late one.            *)
LEMMA RejectionCopy ==
    ASSUME NEW c, NEW n, NEW d, NEW t, Copy(c, n, d, t), c # NoClaim
    PROVE  LET u == after_rejection(c, t) IN
           Copy(u, n, d, t) /\ u # NoClaim /\ u.deadline = c.deadline
<1>1. c \in BondClaim
  BY DEF Copy
<1>2. CASE c.phase \in {"Acknowledged", "Completed"}
  BY <1>2 DEF after_rejection
<1>3. CASE c.phase \notin {"Acknowledged", "Completed"}
  <2> DEFINE p == IF past(t, c.deadline) THEN "Expired" ELSE "Pending"
             v == [c EXCEPT !.phase = p]
  <2>1. p \in Phases /\ p \in {"Expired", "Pending"} /\ (p = "Expired" => t > c.deadline)
    BY DEF Phases, past
  <2>2. after_rejection(c, t) = v
    BY <1>3 DEF after_rejection
  <2> HIDE DEF p
  <2>3. v # NoClaim /\ v.deadline = c.deadline /\ v.phase = p /\ v.slashed = c.slashed
        /\ v \in BondClaim
    BY <1>1, <2>1, PhaseSet
  <2>4. Copy(v, n, d, t)
    BY <2>1, <2>3 DEF Copy
  <2> QED
    BY <2>2, <2>3, <2>4
<1> QED
  BY <1>2, <1>3

-----------------------------------------------------------------------------
(* Steps of the daemon, of time and of a delivery: the claim and every     *)
(* copy stay, and what they say stays true.                                *)
LEMMA OutsideKeeps ==
    ASSUME ClaimInv, UNCHANGED <<claim, sub, entry, disp, stored>>,
           net \subseteq net', net' \subseteq Message, seen' \subseteq net', sent' \subseteq Submits,
           clock' \in Nat, clock <= clock', restarts' \in Nat,
           daemon' \in [state : {"asking", "paying", "paid"}, slashed : Slashes,
                        by : Submits \cup {NoSubmit}, round : Nat, asks : Nat],
           daemon.state = "paid" => daemon'.state = "paid",
           daemon'.state # "asking" => daemon'.by \in Submits,
           \A m \in net' : m.action = "BondPayoutCompleted" => daemon'.state = "paid"
    PROVE  ClaimInv'
<1> USE DEF ClaimInv
<1>1. Shapes'
  BY DEF Shapes
<1>2. TypeOK'
  BY DEF TypeOK
<1>3. Copies'
  <2>1. clock \in Nat
    BY DEF TypeOK
  <2>2. Copy(claim, net', daemon', clock') /\ Copy(disp.held, net', daemon', clock')
    BY <2>1, CopyStays DEF Copies
  <2>3. \A s \in Submits : Copy(sub[s].held, net', daemon', clock')
    BY <2>1, CopyStays DEF Copies
  <2> QED
    BY <2>2, <2>3 DEF Copies
<1>4. Started'
  BY DEF Started
<1>5. Working'
  <2>1. \A s \in Submits : Answers(s) => Answers(s)'
    BY DEF Answers
  <2>2. \A s \in Submits : sub[s].pc = "expiring" => clock' > sub[s].held.deadline
    <3> TAKE s \in Submits
    <3> HAVE sub[s].pc = "expiring"
    <3>1. sub[s].held.deadline \in Nat /\ clock > sub[s].held.deadline
      BY NoClaimIs DEF Working, Shapes
    <3>2. clock \in Nat
      BY DEF TypeOK
    <3> QED
      BY <3>1, <3>2
  <2> QED
    BY <2>1, <2>2 DEF Working
<1>6. Said'
  BY DEF Said
<1>7. SameDeadline'
  BY DEF SameDeadline, Kept
<1>8. SubmittedUntilJudged'
  BY DEF SubmittedUntilJudged, OneAnchor, Answers
<1> QED
  BY <1>1, <1>2, <1>3, <1>4, <1>5, <1>6, <1>7, <1>8

LEMMA DaemonKeeps ==
    ASSUME ClaimInv, ask \/ pay \/ give_up_paying \/ reanchor
                     \/ (\E s \in Submits : accept(s) \/ reject(s))
    PROVE  ClaimInv'
<1> USE DEF ClaimInv
<1> DEFINE D == [state : {"asking", "paying", "paid"}, slashed : Slashes,
                 by : Submits \cup {NoSubmit}, round : Nat, asks : Nat]
<1>1. daemon \in D /\ net \subseteq Message /\ seen \subseteq net /\ sent \subseteq Submits
      /\ clock \in Nat /\ restarts \in Nat
  BY DEF Shapes, TypeOK
<1>2. CASE ask
  <2> DEFINE m == [action |-> "AddBondInvoice", slashed |-> daemon.slashed,
                   n |-> daemon.asks + 1, round |-> daemon.round]
  <2>1. daemon' \in D /\ daemon'.state = daemon.state /\ daemon.state = "asking"
    BY <1>1, <1>2 DEF ask
  <2>2. m \in Message /\ m.action = "AddBondInvoice"
    BY <1>1 DEF Message
  <2>3. net' = net \cup {m} /\ UNCHANGED <<claim, sub, entry, disp, seen, sent, stored, env>>
    BY <1>2 DEF ask
  <2> HIDE DEF m
  <2>4. \A x \in net' : x.action = "BondPayoutCompleted" => daemon'.state = "paid"
    BY <2>1, <2>2, <2>3 DEF Said
  <2> QED
    BY <1>1, <2>1, <2>2, <2>3, <2>4, OutsideKeeps DEF env
<1>3. CASE pay
  <2> DEFINE m == [action |-> "BondPayoutCompleted", rid |-> daemon.by]
  <2>1. daemon' \in D /\ daemon'.state = "paid" /\ daemon'.by \in Submits /\ daemon'.by = daemon.by
    BY <1>1, <1>3 DEF pay, Said
  <2>2. m \in Message
    BY <2>1 DEF Message
  <2>3. net' = net \cup {m} /\ UNCHANGED <<claim, sub, entry, disp, seen, sent, stored, env>>
    BY <1>3 DEF pay
  <2> HIDE DEF m
  <2> QED
    BY <1>1, <2>1, <2>2, <2>3, OutsideKeeps DEF env
<1>4. CASE give_up_paying
  <2>1. daemon' \in D /\ daemon'.state = "asking" /\ daemon.state = "paying"
    <3> DEFINE r == daemon.round + 1
    <3>1. r \in Nat /\ daemon.state = "paying"
      BY <1>1, <1>4 DEF give_up_paying
    <3>2. daemon' = [daemon EXCEPT !.state = "asking", !.round = r, !.asks = 0]
      BY <1>1, <1>4 DEF give_up_paying
    <3> HIDE DEF r
    <3> QED
      BY <1>1, <3>1, <3>2
  <2>2. UNCHANGED <<claim, sub, entry, disp, seen, net, sent, stored, env>>
    BY <1>4 DEF give_up_paying
  <2>3. \A x \in net' : x.action = "BondPayoutCompleted" => daemon'.state = "paid"
    BY <2>1, <2>2 DEF Said
  <2> QED
    BY <1>1, <2>1, <2>2, <2>3, OutsideKeeps DEF env
<1>5. CASE reanchor
  <2>1. daemon' \in D /\ daemon'.state = "asking" /\ daemon.state = "asking"
    BY <1>1, <1>5 DEF reanchor
  <2>2. UNCHANGED <<claim, sub, entry, disp, seen, net, sent, stored, env>>
    BY <1>5 DEF reanchor
  <2>3. \A x \in net' : x.action = "BondPayoutCompleted" => daemon'.state = "paid"
    BY <2>1, <2>2 DEF Said
  <2> QED
    BY <1>1, <2>1, <2>2, <2>3, OutsideKeeps DEF env
<1>6. CASE \E s \in Submits : accept(s)
  <2> PICK s \in Submits : accept(s)
    BY <1>6
  <2> DEFINE m == [action |-> "BondInvoiceAccepted", rid |-> s]
  <2>1. daemon' \in D /\ daemon'.state = "paying" /\ daemon'.by = s /\ daemon.state = "asking"
    BY <1>1 DEF accept
  <2>2. m \in Message /\ m.action = "BondInvoiceAccepted"
    BY DEF Message
  <2>3. net' = net \cup {m} /\ UNCHANGED <<claim, sub, entry, disp, seen, sent, stored, env>>
    BY DEF accept
  <2> HIDE DEF m
  <2>4. \A x \in net' : x.action = "BondPayoutCompleted" => daemon'.state = "paid"
    BY <2>1, <2>2, <2>3 DEF Said
  <2> QED
    BY <1>1, <2>1, <2>2, <2>3, <2>4, OutsideKeeps DEF env
<1>7. CASE \E s \in Submits : reject(s)
  <2> PICK s \in Submits : reject(s)
    BY <1>7
  <2> DEFINE m == [action |-> "CantDo", rid |-> s]
  <2>1. m \in Message /\ m.action = "CantDo"
    BY DEF Message
  <2>2. net' = net \cup {m} /\ UNCHANGED <<claim, sub, entry, disp, seen, daemon, sent, stored, env>>
    BY DEF reject
  <2> HIDE DEF m
  <2>3. \A x \in net' : x.action = "BondPayoutCompleted" => daemon'.state = "paid"
    BY <2>1, <2>2 DEF Said
  <2>4. daemon.state # "asking" => daemon.by \in Submits
    BY DEF Said
  <2> QED
    BY <1>1, <2>1, <2>2, <2>3, <2>4, OutsideKeeps DEF env
<1> QED
  BY <1>2, <1>3, <1>4, <1>5, <1>6, <1>7

-----------------------------------------------------------------------------
SubType == [pc : PCs, held : BondClaim, inbox : {"none", "ack", "rejected"}, result : Results]

(* A step of submission s, which becomes r and may write the claim: what   *)
(* it writes is a true copy, and never a phase that reopens the form of a  *)
(* published invoice nobody judged.                                        *)
LEMMA SubmissionKeeps ==
    ASSUME ClaimInv, NEW s \in Submits, NEW r \in SubType, sub' = [sub EXCEPT ![s] = r],
           claim # NoClaim, UNCHANGED <<disp, seen, outside, env>>,
           entry' \in [id : Submits \cup {NoSubmit}, waiting : BOOLEAN],
           Copy(r.held, net, daemon, clock), Copy(claim', net, daemon, clock), claim' # NoClaim,
           Kept(net) => claim'.deadline = claim.deadline,
           Kept(net) /\ r.held # NoClaim => r.held.deadline = claim.deadline,
           r.pc \in {"read", "expiring", "publishing", "published", "rejected"}
             => r.held # NoClaim,
           r.pc = "idle" => r.held = NoClaim,
           r.pc = "expiring" => clock > r.held.deadline,
           r.inbox # "none" \/ r.pc = "rejected" => Answers(s),
           stored' \subseteq Submits,
           \/ claim' = claim /\ stored' = stored
           \/ claim'.phase \in {"Submitted", "Expired"}
           \/ Answers(s)
    PROVE  ClaimInv'
<1> USE DEF ClaimInv
<1>1. /\ sub'[s] = r /\ \A o \in Submits \ {s} : sub'[o] = sub[o]
      /\ sub' \in [Submits -> SubType]
  BY DEF Shapes, SubType
<1>2. UNCHANGED <<net, daemon, sent, clock, restarts>> /\ \A o \in Submits : Answers(o)' <=> Answers(o)
  BY DEF outside, env, Answers
<1>3. Shapes'
  BY <1>1, <1>2 DEF Shapes, SubType
<1>4. TypeOK'
  <2>1. claim' \in BondClaim
    BY DEF Copy
  <2>2. \A o \in Submits : /\ sub'[o].pc \in PCs /\ sub'[o].held \in BondClaim
                           /\ sub'[o].inbox \in {"none", "ack", "rejected"}
                           /\ sub'[o].result \in Results
    BY <1>1 DEF SubType
  <2> QED
    BY <1>2, <2>1, <2>2 DEF TypeOK
<1>5. Copies'
  <2>1. \A o \in Submits : Copy(sub'[o].held, net, daemon, clock)
    BY <1>1 DEF Copies
  <2> QED
    BY <1>2, <2>1 DEF Copies
<1>6. Started'
  BY <1>2 DEF Started
<1>7. Working'
  <2>1. \A o \in Submits :
          /\ sub'[o].pc \in {"read", "expiring", "publishing", "published", "rejected"}
               => sub'[o].held # NoClaim
          /\ sub'[o].pc = "idle" => sub'[o].held = NoClaim
          /\ sub'[o].pc = "expiring" => clock > sub'[o].held.deadline
          /\ sub'[o].inbox # "none" \/ sub'[o].pc = "rejected" => Answers(o)
    <3> TAKE o \in Submits
    <3>1. CASE o = s
      BY <1>1, <3>1
    <3>2. CASE o # s
      BY <1>1, <3>2 DEF Working
    <3> QED
      BY <3>1, <3>2
  <2> QED
    BY <1>2, <2>1 DEF Working
<1>8. Said'
  BY <1>2 DEF Said
<1>9. SameDeadline'
  <2>1. ASSUME Kept(net), NEW o \in Submits, sub'[o].held # NoClaim
        PROVE  sub'[o].held.deadline = claim'.deadline
    <3>1. CASE o = s
      BY <1>1, <2>1, <3>1
    <3>2. CASE o # s
      BY <1>1, <2>1, <3>2 DEF SameDeadline
    <3> QED
      BY <3>1, <3>2
  <2>2. ASSUME Kept(net), disp'.held # NoClaim
        PROVE  disp'.held.deadline = claim'.deadline
    BY <2>2 DEF SameDeadline
  <2> QED
    BY <1>2, <2>1, <2>2 DEF SameDeadline
<1>10. SubmittedUntilJudged'
  BY <1>2 DEF SubmittedUntilJudged, OneAnchor
<1> QED
  BY <1>3, <1>4, <1>5, <1>6, <1>7, <1>8, <1>9, <1>10

(* The claim is read and the form checked: nothing is written. *)
LEMMA ReadKeeps ==
    ASSUME ClaimInv, NEW s \in Submits, read_claim(s)
    PROVE  ClaimInv'
<1> USE DEF ClaimInv
<1>1. claim # NoClaim /\ claim \in BondClaim /\ UNCHANGED <<claim, entry, disp, seen, outside, stored, env>>
      /\ sub[s] \in SubType /\ stored \subseteq Submits /\ Copy(claim, net, daemon, clock)
      /\ entry \in [id : Submits \cup {NoSubmit}, waiting : BOOLEAN]
  BY DEF read_claim, Shapes, SubType, TypeOK, Copies
<1>2. Fresh \in SubType /\ Fresh.held = NoClaim /\ Fresh.inbox = "none" /\ Fresh.pc = "idle"
  BY NoClaimIs DEF Fresh, SubType, PCs, Results
<1>3. CASE claim.phase \notin {"Pending", "Submitted"}
  <2> DEFINE r == [Fresh EXCEPT !.pc = "returned", !.result = "notclaimable"]
  <2>1. r \in SubType /\ r.held = NoClaim /\ r.inbox = "none" /\ r.pc = "returned"
    BY NoClaimIs DEF Fresh, SubType, PCs, Results
  <2>2. sub' = [sub EXCEPT ![s] = r]
    BY <1>3 DEF read_claim
  <2> HIDE DEF r
  <2> QED
    BY <1>1, <2>1, <2>2, NoClaimIs, SubmissionKeeps
<1>4. CASE claim.phase \in {"Pending", "Submitted"}
  <2> DEFINE p == IF past(clock, claim.deadline) THEN "expiring" ELSE "read"
             r == [Fresh EXCEPT !.pc = p, !.held = claim]
  <2>1. p \in {"expiring", "read"} /\ (p = "expiring" => clock > claim.deadline)
    BY DEF past
  <2>2. sub' = [sub EXCEPT ![s] = r]
    BY <1>4 DEF read_claim
  <2> HIDE DEF p
  <2>3. r \in SubType /\ r.held = claim /\ r.inbox = "none" /\ r.pc = p
    BY <1>1, <2>1 DEF Fresh, SubType, PCs, Results
  <2> HIDE DEF r
  <2> QED
    BY <1>1, <2>1, <2>2, <2>3, SubmissionKeeps
<1> QED
  BY <1>3, <1>4

(* The steps that only move the submission. *)
LEMMA MoveKeeps ==
    ASSUME ClaimInv, NEW s \in Submits, NEW p \in PCs \ {"idle", "read", "expiring", "rejected"},
           NEW e \in Results,
           sub[s].pc # "idle",
           p \in {"publishing", "published"} => sub[s].pc \in {"read", "publishing"},
           sub' = [sub EXCEPT ![s].pc = p, ![s].result = e],
           entry' \in [id : Submits \cup {NoSubmit}, waiting : BOOLEAN],
           UNCHANGED <<claim, disp, seen, outside, stored, env>>
    PROVE  ClaimInv'
<1> USE DEF ClaimInv
<1> DEFINE r == [sub[s] EXCEPT !.pc = p, !.result = e]
<1>1. sub[s] \in SubType /\ stored \subseteq Submits
  BY DEF Shapes, SubType, TypeOK
<1>2. sub' = [sub EXCEPT ![s] = r]
  BY DEF Shapes
<1>3. r \in SubType /\ r.held = sub[s].held /\ r.inbox = sub[s].inbox /\ r.pc = p
  BY <1>1 DEF SubType
<1> HIDE DEF r
<1>4. claim # NoClaim /\ Copy(claim, net, daemon, clock) /\ Copy(r.held, net, daemon, clock)
  BY <1>3 DEF Started, Copies
<1>5. /\ r.inbox # "none" => Answers(s)
      /\ p \in {"publishing", "published"} => r.held # NoClaim
      /\ Kept(net) /\ r.held # NoClaim => r.held.deadline = claim.deadline
  BY <1>3 DEF Working, SameDeadline
<1> QED
  BY <1>1, <1>2, <1>3, <1>4, <1>5, SubmissionKeeps

(* A clone is written back: as expired past its deadline, as submitted     *)
(* after the publish.                                                      *)
LEMMA WriteKeeps ==
    ASSUME ClaimInv, NEW s \in Submits, persist_expired(s) \/ persist_submitted(s)
    PROVE  ClaimInv'
<1> USE DEF ClaimInv
<1> DEFINE c == sub[s].held
           q == sub[s].result
<1>1. /\ sub[s] \in SubType /\ stored \subseteq Submits
      /\ entry \in [id : Submits \cup {NoSubmit}, waiting : BOOLEAN]
      /\ UNCHANGED <<entry, disp, seen, outside, env>>
  BY DEF Shapes, SubType, TypeOK, persist_expired, persist_submitted
<1>2. /\ c \in BondClaim /\ c # NoClaim /\ Copy(c, net, daemon, clock) /\ claim # NoClaim
      /\ Kept(net) => c.deadline = claim.deadline
  BY <1>1 DEF Copies, Working, SameDeadline, Started, persist_expired, persist_submitted, SubType
<1>3. (sub[s].inbox # "none" => Answers(s)) /\ (sub[s].pc = "expiring" => clock > c.deadline)
  BY DEF Working
<1>4. CASE persist_expired(s)
  <2> DEFINE r == [sub[s] EXCEPT !.pc = "returned", !.result = "expired"]
             v == [c EXCEPT !.phase = "Expired"]
  <2>1. sub' = [sub EXCEPT ![s] = r] /\ claim' = v /\ UNCHANGED stored
    BY <1>4 DEF persist_expired, Return, Shapes
  <2>2. r \in SubType /\ r.held = c /\ r.inbox = sub[s].inbox /\ r.pc = "returned"
    BY <1>1 DEF SubType, PCs, Results
  <2>3. v \in BondClaim /\ v # NoClaim /\ v.phase = "Expired" /\ v.slashed = c.slashed
        /\ v.deadline = c.deadline
    <3>1. "Expired" \in Phases
      BY DEF Phases
    <3> QED
      BY <1>2, <3>1, PhaseSet
  <2>4. clock > c.deadline
    BY <1>3, <1>4 DEF persist_expired
  <2> HIDE DEF r, v, c
  <2>5. Copy(v, net, daemon, clock)
    BY <1>2, <2>3, <2>4 DEF Copy
  <2> QED
    BY <1>1, <1>2, <1>3, <2>1, <2>2, <2>3, <2>5, SubmissionKeeps
<1>5. CASE persist_submitted(s)
  <2> DEFINE r == [sub[s] EXCEPT !.pc = "waiting"]
             v == [c EXCEPT !.phase = "Submitted"]
  <2>1. sub' = [sub EXCEPT ![s] = r] /\ claim' = v /\ stored' = stored \cup {s}
    BY <1>5 DEF persist_submitted, Step, Shapes
  <2>2. r \in SubType /\ r.held = c /\ r.inbox = sub[s].inbox /\ r.pc = "waiting"
    BY <1>1 DEF SubType, PCs, Results
  <2>3. v \in BondClaim /\ v # NoClaim /\ v.phase = "Submitted" /\ v.slashed = c.slashed
        /\ v.deadline = c.deadline
    <3>1. "Submitted" \in Phases
      BY DEF Phases
    <3> QED
      BY <1>2, <3>1, PhaseSet
  <2> HIDE DEF r, v, c
  <2>4. Copy(v, net, daemon, clock)
    BY <1>2, <2>3 DEF Copy
  <2> QED
    BY <1>1, <1>2, <1>3, <2>1, <2>2, <2>3, <2>4, SubmissionKeeps
<1> QED
  BY <1>4, <1>5

(* A rejection is judged from the claim of the moment, and written back    *)
(* later.                                                                  *)
LEMMA RejectionKeeps ==
    ASSUME ClaimInv, NEW s \in Submits, resolve_rejection(s) \/ persist_rejection(s)
    PROVE  ClaimInv'
<1> USE DEF ClaimInv
<1>1. /\ sub[s] \in SubType /\ stored \subseteq Submits
      /\ entry \in [id : Submits \cup {NoSubmit}, waiting : BOOLEAN]
      /\ UNCHANGED <<entry, disp, seen, outside, stored, env>>
  BY DEF Shapes, SubType, TypeOK, resolve_rejection, persist_rejection
<1>2. claim # NoClaim /\ Copy(claim, net, daemon, clock) /\ Answers(s)
  BY DEF Started, Copies, Working, resolve_rejection, persist_rejection
<1>3. CASE resolve_rejection(s)
  <2> DEFINE u == after_rejection(claim, clock)
             p == IF u = claim /\ claim.phase \in {"Acknowledged", "Completed", "Expired"}
                  THEN "returned" ELSE "rejected"
             r == [sub[s] EXCEPT !.held = u, !.pc = p, !.result = "rejected"]
  <2>1. Copy(u, net, daemon, clock) /\ u # NoClaim /\ u.deadline = claim.deadline
    BY <1>2, RejectionCopy
  <2>2. p \in {"returned", "rejected"}
    OBVIOUS
  <2>3. sub' = [sub EXCEPT ![s].held = u, ![s].pc = p, ![s].result = "rejected"] /\ claim' = claim
    BY <1>3 DEF resolve_rejection
  <2> HIDE DEF u, p
  <2>4. sub' = [sub EXCEPT ![s] = r]
    BY <2>3 DEF Shapes
  <2>5. r \in SubType /\ r.held = u /\ r.inbox = sub[s].inbox /\ r.pc = p
    BY <1>1, <2>1, <2>2 DEF SubType, PCs, Results, Copy
  <2> HIDE DEF r
  <2> QED
    BY <1>1, <1>2, <2>1, <2>2, <2>3, <2>4, <2>5, SubmissionKeeps
<1>4. CASE persist_rejection(s)
  <2> DEFINE c == sub[s].held
             r == [sub[s] EXCEPT !.pc = "returned", !.result = "rejected"]
  <2>1. sub' = [sub EXCEPT ![s] = r] /\ claim' = c
    BY <1>4 DEF persist_rejection, Return, Shapes
  <2>2. r \in SubType /\ r.held = c /\ r.inbox = sub[s].inbox /\ r.pc = "returned"
    BY <1>1 DEF SubType, PCs, Results
  <2>3. c # NoClaim /\ Copy(c, net, daemon, clock) /\ (Kept(net) => c.deadline = claim.deadline)
    BY <1>4 DEF persist_rejection, Working, Copies, SameDeadline
  <2> HIDE DEF r, c
  <2> QED
    BY <1>1, <1>2, <2>1, <2>2, <2>3, SubmissionKeeps
<1> QED
  BY <1>3, <1>4

LEMMA SubmitKeeps ==
    ASSUME ClaimInv, NEW s \in Submits, Submit(s)
    PROVE  ClaimInv'
<1>1. /\ entry \in [id : Submits \cup {NoSubmit}, waiting : BOOLEAN]
      /\ NoEntry \in [id : Submits \cup {NoSubmit}, waiting : BOOLEAN]
      /\ sub \in [Submits -> SubType] /\ sub[s].result \in Results
  BY DEF ClaimInv, Shapes, SubType, TypeOK, NoEntry
<1>2. ASSUME NEW p \in {"publishing", "published"}, sub' = [sub EXCEPT ![s].pc = p],
             sub[s].pc \in {"read", "publishing"},
             entry' \in [id : Submits \cup {NoSubmit}, waiting : BOOLEAN],
             UNCHANGED <<claim, disp, seen, outside, stored, env>>
      PROVE  ClaimInv'
  <2> DEFINE q == sub[s].result
  <2>1. sub' = [sub EXCEPT ![s].pc = p, ![s].result = q] /\ q \in Results
    BY <1>1, <1>2 DEF SubType
  <2>2. p \in PCs \ {"idle", "read", "expiring", "rejected"}
    BY <1>2 DEF PCs
  <2>3. sub[s].pc # "idle"
    BY <1>2
  <2> HIDE DEF q
  <2> QED
    BY <1>2, <2>1, <2>2, <2>3, MoveKeeps
<1>4. CASE register(s)
  BY <1>1, <1>2, <1>4 DEF register, Step
<1>5. CASE publish(s)
  BY <1>1, <1>2, <1>5 DEF publish, Step
<1>3. CASE publish_failed(s) \/ acknowledged(s) \/ timeout(s)
  <2> PICK e \in {"failed", "ok", "noresponse"} :
        /\ sub' = [sub EXCEPT ![s].pc = "returned", ![s].result = e]
        /\ sub[s].pc \in {"publishing", "waiting"}
        /\ entry' \in [id : Submits \cup {NoSubmit}, waiting : BOOLEAN]
        /\ UNCHANGED <<claim, disp, seen, outside, stored, env>>
    BY <1>1, <1>3 DEF publish_failed, acknowledged, timeout, Return
  <2>1. e \in Results /\ "returned" \in PCs \ {"idle", "read", "expiring", "rejected"}
    BY DEF Results, PCs
  <2> QED
    BY <2>1, MoveKeeps
<1> QED
  BY <1>3, <1>4, <1>5, ReadKeeps, WriteKeeps, RejectionKeeps DEF Submit

-----------------------------------------------------------------------------
(* Handlers: the submission is woken, and the claim read, then written.    *)
LEMMA DispatchKeepsClaim ==
    ASSUME ClaimInv, NEW m \in net, dispatch(m)
    PROVE  ClaimInv'
<1> USE DEF ClaimInv
<1> DEFINE D == [pc : {"idle", "load", "store"}, msg : Message \cup {NoMessage}, held : BondClaim]
<1>1. /\ UNCHANGED <<claim, net, daemon, sent, stored, clock, restarts>>
      /\ seen' = seen \cup {m} /\ m \in Message /\ net \subseteq Message /\ seen \subseteq net
      /\ disp \in D /\ disp.pc = "idle" /\ sub \in [Submits -> SubType]
  BY DEF dispatch, outside, env, TypeOK, Shapes, SubType
<1>2. /\ disp' \in D /\ (disp'.held = NoClaim \/ disp'.held = disp.held) /\ disp'.pc # "store"
      /\ disp'.pc # "idle" => disp'.msg \in net /\ disp'.msg.action # "CantDo"
  <2> DEFINE d == [pc |-> "load", msg |-> m, held |-> NoClaim]
  <2>1. d \in D /\ d.held = NoClaim /\ d.pc = "load" /\ d.msg = m
    BY <1>1, NoClaimIs
  <2>2. (disp' = d /\ m.action # "CantDo") \/ disp' = disp
    BY DEF dispatch
  <2> HIDE DEF d
  <2> QED
    BY <1>1, <2>1, <2>2
<1>3. /\ entry' \in [id : Submits \cup {NoSubmit}, waiting : BOOLEAN]
      /\ sub' \in [Submits -> SubType]
      /\ \A s \in Submits : /\ sub'[s].pc = sub[s].pc /\ sub'[s].held = sub[s].held
                            /\ sub'[s].inbox = sub[s].inbox \/ Answers(s)
  <2>0. entry \in [id : Submits \cup {NoSubmit}, waiting : BOOLEAN]
        /\ NoEntry \in [id : Submits \cup {NoSubmit}, waiting : BOOLEAN]
    BY DEF TypeOK, NoEntry
  <2>1. CASE m.action = "AddBondInvoice"
    BY <1>1, <2>0, <2>1 DEF dispatch
  <2>2. CASE m.action # "AddBondInvoice"
    <3>1. m.rid \in Submits /\ Answers(m.rid)
      BY <1>1, <2>2 DEF Message, Answers
    <3>2. PICK reply \in {"ack", "rejected"} : Wake(m.rid, reply)
      BY <2>2 DEF dispatch
    <3>3. CASE sub' = sub
      BY <1>1, <2>0, <3>2, <3>3 DEF Wake
    <3>4. CASE sub' = [sub EXCEPT ![m.rid].inbox = reply]
      <4>1. entry' \in [id : Submits \cup {NoSubmit}, waiting : BOOLEAN]
        BY <2>0, <3>2 DEF Wake
      <4> DEFINE i == m.rid
                 r == [sub[i] EXCEPT !.inbox = reply]
      <4>2. sub' = [sub EXCEPT ![i] = r]
        BY <3>4
      <4>3. r \in SubType /\ r.pc = sub[i].pc /\ r.held = sub[i].held
        BY <1>1, <3>1 DEF SubType
      <4> HIDE DEF i, r
      <4>4. i \in Submits /\ Answers(i)
        BY <3>1 DEF i
      <4> QED
        BY <1>1, <4>1, <4>2, <4>3, <4>4
    <3> QED
      BY <3>2, <3>3, <3>4 DEF Wake
  <2> QED
    BY <2>1, <2>2
<1>4. Shapes' /\ TypeOK'
  <2>1. Shapes'
    BY <1>1, <1>2, <1>3 DEF Shapes, SubType
  <2>2. \A s \in Submits : /\ sub'[s].pc \in PCs /\ sub'[s].held \in BondClaim
                           /\ sub'[s].inbox \in {"none", "ack", "rejected"}
                           /\ sub'[s].result \in Results
    BY <1>3 DEF SubType
  <2>3. disp'.pc \in {"idle", "load", "store"} /\ disp'.held \in BondClaim
    BY <1>2
  <2> QED
    BY <1>1, <1>3, <2>1, <2>2, <2>3 DEF TypeOK
<1>5. Copies'
  BY <1>1, <1>2, <1>3, NoClaimIs DEF Copies
<1>6. \A s \in Submits : Answers(s)' <=> Answers(s)
  BY <1>1 DEF Answers
<1>7. Started' /\ Working'
  BY <1>1, <1>2, <1>3, <1>6 DEF Started, Working
<1>8. Said'
  BY <1>1, <1>2 DEF Said
<1>9. SameDeadline'
  BY <1>1, <1>2, <1>3 DEF SameDeadline
<1>10. SubmittedUntilJudged'
  BY <1>1, <1>6 DEF SubmittedUntilJudged, OneAnchor
<1> QED
  BY <1>4, <1>5, <1>7, <1>8, <1>9, <1>10

LEMMA LoadKeeps ==
    ASSUME ClaimInv, load_claim
    PROVE  ClaimInv'
<1> USE DEF ClaimInv
<1>1. /\ disp'.pc = "store" /\ disp'.held = claim /\ disp'.msg = disp.msg /\ disp.pc = "load"
      /\ disp' \in [pc : {"idle", "load", "store"}, msg : Message \cup {NoMessage}, held : BondClaim]
      /\ UNCHANGED <<claim, sub, entry, seen, net, daemon, sent, stored, clock, restarts>>
  BY DEF load_claim, Shapes, TypeOK, outside, env
<1>2. Shapes' /\ TypeOK'
  BY <1>1 DEF Shapes, TypeOK
<1>3. Copies' /\ Said'
  BY <1>1 DEF Copies, Said
<1>4. Started' /\ SameDeadline'
  BY <1>1 DEF Started, SameDeadline
<1>5. \A s \in Submits : Answers(s)' <=> Answers(s)
  BY <1>1 DEF Answers
<1>6. Working' /\ SubmittedUntilJudged'
  BY <1>1, <1>5 DEF Working, SubmittedUntilJudged, OneAnchor
<1> QED
  BY <1>2, <1>3, <1>4, <1>6

(* What the arm makes of the claim it read is written over the claim of    *)
(* the moment, unless it changed nothing.                                  *)
LEMMA StoreWrites ==
    ASSUME ClaimInv, store_claim
    PROVE  /\ Copy(claim', net, daemon, clock)
           /\ claim # NoClaim => claim' # NoClaim
           /\ claim # NoClaim /\ Kept(net) => claim'.deadline = claim.deadline
           /\ stored # {} /\ Kept(net) /\ (\A s \in Submits : ~Answers(s)) => claim' = claim
<1> USE DEF ClaimInv
<1> DEFINE c == disp.held
           m == disp.msg
<1>1. PICK w \in Windows : LET next == Applied(m, c, w) IN
                           claim' = IF next = c THEN claim ELSE next
  BY DEF store_claim
<1> DEFINE u == Applied(m, c, w)
<1>2. /\ m \in net /\ m.action # "CantDo" /\ net \subseteq Message /\ clock \in Nat
      /\ Copy(c, net, daemon, clock) /\ Copy(claim, net, daemon, clock)
      /\ c = NoClaim => claim = NoClaim
      /\ c # NoClaim /\ Kept(net) => c.deadline = claim.deadline
      /\ claim = NoClaim => stored = {}
  BY DEF store_claim, Said, TypeOK, Copies, Started, SameDeadline
<1> HIDE DEF c, m
<1>3. /\ Copy(u, net, daemon, clock) /\ (c # NoClaim => u # NoClaim)
      /\ c # NoClaim /\ Kept(net) => u.deadline = c.deadline
  <2>1. CASE m.action = "AddBondInvoice"
    <3>1. u = upsert_claim(c, m, w, clock)
      BY <2>1 DEF Applied
    <3> QED
      BY <1>2, <2>1, <3>1, UpsertCopy
  <2>2. CASE m.action # "AddBondInvoice"
    <3>1. u = advance(c, Verdict(m))
      BY <2>2 DEF Applied
    <3>2. m \in Message
      BY <1>2
    <3>3. m.action \in {"BondInvoiceAccepted", "BondPayoutCompleted"}
      BY <1>2, <2>2, <3>2 DEF Message
    <3>4. m.action = "BondPayoutCompleted" => daemon.state = "paid"
      BY <1>2 DEF Said
    <3> QED
      BY <1>2, <3>1, <3>3, <3>4, AdvanceCopy
  <2> QED
    BY <2>1, <2>2
<1>4. ASSUME stored # {}, Kept(net), \A s \in Submits : ~Answers(s)
      PROVE  u = c
  <2>1. m \in Message
    BY <1>2
  <2>2. m.action = "AddBondInvoice"
    BY <1>2, <1>4, <2>1 DEF Answers, Message
  <2>3. u = upsert_claim(c, m, w, clock)
    BY <2>2 DEF Applied
  <2>4. c.phase # "Acknowledged"
    <3> SUFFICES ASSUME c.phase = "Acknowledged" PROVE FALSE
      OBVIOUS
    <3>1. PICK x \in net : x.action = "BondInvoiceAccepted"
      BY <1>2 DEF Copy
    <3>2. x \in Message
      BY <1>2
    <3>3. x.rid \in Submits
      BY <3>1, <3>2 DEF Message
    <3> QED
      BY <1>4, <3>1, <3>3 DEF Answers
  <2>5. c # NoClaim
    BY <1>2, <1>4
  <2> QED
    BY <1>2, <1>4, <2>2, <2>3, <2>4, <2>5, UpsertCopy
<1> HIDE DEF u
<1>5. claim' = IF u = c THEN claim ELSE u
  BY <1>1 DEF u
<1> QED
  BY <1>2, <1>3, <1>4, <1>5

LEMMA StoreKeeps ==
    ASSUME ClaimInv, store_claim
    PROVE  ClaimInv'
<1> USE DEF ClaimInv
<1>1. /\ disp.pc = "store" /\ disp' = Idle
      /\ UNCHANGED <<sub, entry, seen, net, daemon, sent, stored, clock, restarts>>
  BY DEF store_claim, outside, env
<1>2. /\ Idle.pc = "idle" /\ Idle.held = NoClaim
      /\ Idle \in [pc : {"idle", "load", "store"}, msg : Message \cup {NoMessage}, held : BondClaim]
  BY NoClaimIs DEF Idle
<1>3. claim' \in BondClaim
  BY StoreWrites DEF Copy
<1>4. Shapes' /\ TypeOK'
  BY <1>1, <1>2, <1>3 DEF Shapes, TypeOK
<1>5. Copies'
  BY <1>1, <1>2, NoClaimIs, StoreWrites DEF Copies
<1>6. \A s \in Submits : Answers(s)' <=> Answers(s)
  BY <1>1 DEF Answers
<1>7. Started' /\ Working' /\ Said'
  BY <1>1, <1>2, <1>6, StoreWrites DEF Started, Working, Said
<1>8. SameDeadline'
  <2>1. ASSUME Kept(net), NEW s \in Submits, sub[s].held # NoClaim
        PROVE  sub[s].held.deadline = claim'.deadline
    <3>1. claim # NoClaim
      BY <2>1 DEF Started, Working
    <3> QED
      BY <2>1, <3>1, StoreWrites DEF SameDeadline
  <2> QED
    BY <1>1, <1>2, <2>1 DEF SameDeadline
<1>9. SubmittedUntilJudged'
  <2> SUFFICES ASSUME stored # {}, OneAnchor', \A s \in Submits : ~Answers(s)
               PROVE  claim'.phase \in {"Submitted", "Expired"}
    BY <1>1, <1>6 DEF SubmittedUntilJudged
  <2>1. Kept(net)
    BY <1>1 DEF OneAnchor, Kept
  <2>2. claim' = claim
    BY <2>1, StoreWrites
  <2> QED
    BY <1>1, <2>2 DEF SubmittedUntilJudged, OneAnchor
<1> QED
  BY <1>4, <1>5, <1>7, <1>8, <1>9

(* Only the claim survives a stop. *)
LEMMA RestartKeeps ==
    ASSUME ClaimInv, restart
    PROVE  ClaimInv'
<1> USE DEF ClaimInv
<1>1. /\ disp' = Idle /\ entry' = NoEntry /\ seen' = {} /\ restarts' = restarts + 1
      /\ UNCHANGED <<claim, net, daemon, sent, stored, clock>>
  BY DEF restart, outside
<1>0. sub' = [s \in Submits |-> IF sub[s].pc \in {"idle", "read", "expiring"} THEN Fresh
                                ELSE [sub[s] EXCEPT !.pc = "returned", !.inbox = "none"]]
  BY DEF restart, outside
<1>2. /\ Idle.pc = "idle" /\ Idle.held = NoClaim
      /\ Idle \in [pc : {"idle", "load", "store"}, msg : Message \cup {NoMessage}, held : BondClaim]
      /\ NoEntry \in [id : Submits \cup {NoSubmit}, waiting : BOOLEAN]
  BY NoClaimIs DEF Idle, NoEntry
<1>3. /\ Fresh \in SubType /\ Fresh.held = NoClaim /\ Fresh.inbox = "none" /\ Fresh.pc = "idle"
  BY NoClaimIs DEF Fresh, SubType, PCs, Results
<1>4. ASSUME NEW s \in Submits
      PROVE  /\ sub'[s] \in SubType /\ sub'[s].inbox = "none"
             /\ \/ sub'[s].pc = "idle" /\ sub'[s].held = NoClaim
                \/ sub'[s].pc = "returned" /\ sub'[s].held = sub[s].held /\ sub[s].pc # "idle"
  <2>1. CASE sub[s].pc \in {"idle", "read", "expiring"}
    BY <1>0, <1>3, <2>1
  <2>2. CASE sub[s].pc \notin {"idle", "read", "expiring"}
    <3> DEFINE r == [sub[s] EXCEPT !.pc = "returned", !.inbox = "none"]
    <3>1. sub'[s] = r
      BY <1>0, <2>2
    <3>2. r \in SubType /\ r.inbox = "none" /\ r.pc = "returned" /\ r.held = sub[s].held
      BY DEF Shapes, SubType, PCs
    <3> HIDE DEF r
    <3> QED
      BY <2>2, <3>1, <3>2
  <2> QED
    BY <2>1, <2>2
<1>5. Shapes' /\ TypeOK'
  <2>1. sub' \in [Submits -> SubType]
    BY <1>0, <1>4
  <2>2. Shapes'
    BY <1>1, <1>2, <2>1 DEF Shapes, SubType
  <2>3. \A s \in Submits : /\ sub'[s].pc \in PCs /\ sub'[s].held \in BondClaim
                           /\ sub'[s].inbox \in {"none", "ack", "rejected"}
                           /\ sub'[s].result \in Results
    BY <1>4 DEF SubType
  <2>4. disp'.pc \in {"idle", "load", "store"} /\ disp'.held \in BondClaim
    BY <1>1, <1>2
  <2>5. clock' \in Nat /\ restarts' \in Nat
    <3>1. clock \in Nat /\ restarts \in Nat
      BY DEF TypeOK
    <3> QED
      BY <1>1, <3>1
  <2> QED
    BY <1>1, <1>2, <2>2, <2>3, <2>4, <2>5 DEF TypeOK
<1>6. Copies'
  <2>1. Copy(claim, net, daemon, clock) /\ Copy(NoClaim, net, daemon, clock)
        /\ \A s \in Submits : Copy(sub[s].held, net, daemon, clock)
    BY NoClaimIs DEF Copies
  <2>2. \A s \in Submits : Copy(sub'[s].held, net, daemon, clock)
    BY <1>4, <2>1
  <2>3. disp'.held = NoClaim
    BY <1>1, <1>2
  <2> QED
    BY <1>1, <2>1, <2>2, <2>3 DEF Copies
<1>7. Started' /\ Working'
  BY <1>1, <1>2, <1>4 DEF Started, Working
<1>8. Said' /\ SameDeadline'
  <2>1. disp'.held = NoClaim /\ disp'.pc = "idle"
    BY <1>1, <1>2
  <2>2. ASSUME Kept(net), NEW s \in Submits, sub'[s].held # NoClaim
        PROVE  sub'[s].held.deadline = claim.deadline
    BY <1>4, <2>2 DEF SameDeadline
  <2> QED
    BY <1>1, <2>1, <2>2 DEF Said, SameDeadline
<1>9. SubmittedUntilJudged'
  BY <1>1 DEF SubmittedUntilJudged, OneAnchor, Answers
<1> QED
  BY <1>5, <1>6, <1>7, <1>8, <1>9

LEMMA ClaimInvInit == Init => ClaimInv
<1> SUFFICES ASSUME Init PROVE ClaimInv
  OBVIOUS
<1>1. /\ claim = NoClaim /\ sub = [s \in Submits |-> Fresh] /\ entry = NoEntry /\ disp = Idle
      /\ seen = {} /\ net = {} /\ sent = {} /\ stored = {} /\ clock = 0 /\ restarts = 0
      /\ daemon \in [state : {"asking"}, slashed : Slashes, by : {NoSubmit}, round : {0}, asks : {0}]
  BY DEF Init
<1>2. /\ Idle.pc = "idle" /\ Idle.held = NoClaim
      /\ Idle \in [pc : {"idle", "load", "store"}, msg : Message \cup {NoMessage}, held : BondClaim]
      /\ NoEntry \in [id : Submits \cup {NoSubmit}, waiting : BOOLEAN]
  BY NoClaimIs DEF Idle, NoEntry
<1>3. /\ Fresh \in SubType /\ Fresh.held = NoClaim /\ Fresh.inbox = "none" /\ Fresh.pc = "idle"
  BY NoClaimIs DEF Fresh, SubType, PCs, Results
<1>4. Shapes
  BY <1>1, <1>2, <1>3 DEF Shapes, SubType
<1>5. TypeOK
  <2>1. \A s \in Submits : /\ sub[s].pc \in PCs /\ sub[s].held \in BondClaim
                           /\ sub[s].inbox \in {"none", "ack", "rejected"}
                           /\ sub[s].result \in Results
    BY <1>1, <1>3 DEF SubType
  <2>2. disp.pc \in {"idle", "load", "store"} /\ disp.held \in BondClaim
    BY <1>1, <1>2
  <2>3. daemon.state \in {"asking", "paying", "paid"}
    BY <1>1
  <2> QED
    BY <1>1, <1>2, <2>1, <2>2, <2>3, NoClaimIs DEF TypeOK
<1>6. Copies /\ Started /\ Working /\ Said /\ SameDeadline
  BY <1>1, <1>2, <1>3, NoClaimIs DEF Copies, Started, Working, Said, SameDeadline
<1>7. SubmittedUntilJudged
  BY <1>1 DEF SubmittedUntilJudged
<1> QED
  BY <1>4, <1>5, <1>6, <1>7 DEF ClaimInv

LEMMA ClaimStep ==
    ASSUME ClaimInv, [MCNext]_MCvars
    PROVE  ClaimInv'
<1>1. /\ clock \in Nat /\ restarts \in Nat /\ seen \subseteq net /\ net \subseteq Message
      /\ sent \subseteq Submits /\ (daemon.state # "asking" => daemon.by \in Submits)
      /\ \A m \in net : m.action = "BondPayoutCompleted" => daemon.state = "paid"
      /\ daemon \in [state : {"asking", "paying", "paid"}, slashed : Slashes,
                     by : Submits \cup {NoSubmit}, round : Nat, asks : Nat]
  BY DEF ClaimInv, TypeOK, Said, Shapes
<1>2. CASE UNCHANGED vars
  BY <1>1, <1>2, OutsideKeeps DEF vars, outside, env
<1>3. CASE tick
  <2>1. clock' \in Nat /\ clock <= clock'
    BY <1>1, <1>3 DEF tick
  <2> QED
    BY <1>1, <1>3, <2>1, OutsideKeeps DEF tick, outside
<1>4. CASE \E s \in Submits : reach_daemon(s)
  BY <1>1, <1>4, OutsideKeeps DEF reach_daemon, env
<1>5. CASE Next
  BY <1>3, <1>4, <1>5, SubmitKeeps, DispatchKeepsClaim, LoadKeeps, StoreKeeps, DaemonKeeps,
     RestartKeeps DEF Next
<1>6. Next \/ UNCHANGED vars
  BY DEF MCNext, MCvars
<1> QED
  BY <1>2, <1>5, <1>6

LEMMA ClaimInvariant == MCSpec => []ClaimInv
<1>1. MCInit => ClaimInv
  BY ClaimInvInit DEF MCInit
<1> QED
  BY <1>1, ClaimStep, PTL DEF MCSpec

(* The claim shows no verdict the daemon did not give, no retry, replay,   *)
(* restart or failed second submission reopens the form of an invoice      *)
(* nobody judged, and it expires only past its deadline                    *)
(* (mostro/bond_claims.rs, api/bond.rs submit_bond_payout_invoice): for    *)
(* any number of submissions, however they overlap with the dispatcher.    *)
THEOREM ClaimTellsTruth == MCSpec => []ClaimSound
<1>1. ClaimInv => ClaimSound
  <2> SUFFICES ASSUME ClaimInv PROVE TypeOK /\ VerdictsReal /\ SubmittedUntilJudged
                                     /\ ExpiredOnlyPastDeadline
    BY DEF ClaimSound
  <2> QED
    BY DEF ClaimInv, Copies, Copy, VerdictsReal, ExpiredOnlyPastDeadline
<1> QED
  BY <1>1, ClaimInvariant, PTL

(* The deadline the user was shown stays, whatever window the node         *)
(* advertises by now, as long as the daemon keeps the anchor of the slash  *)
(* (upsert_claim; the clones a submission writes back).                    *)
THEOREM DeadlineStays == MCSpec => DeadlineFrozen
<1> DEFINE Stays == claim # NoClaim /\ OneAnchor => claim'.deadline = claim.deadline
<1>1. ASSUME ClaimInv, [MCNext]_MCvars
      PROVE  Stays \/ UNCHANGED vars
  <2> SUFFICES ASSUME claim # NoClaim, OneAnchor, claim' # claim
               PROVE  claim'.deadline = claim.deadline
    OBVIOUS
  <2>1. Kept(net)
    BY DEF OneAnchor, Kept
  <2>2. Next
    BY <1>1 DEF MCNext, MCvars, vars
  <2>3. CASE \E s \in Submits : persist_expired(s) \/ persist_submitted(s) \/ persist_rejection(s)
    <3> PICK s \in Submits : persist_expired(s) \/ persist_submitted(s) \/ persist_rejection(s)
      BY <2>3
    <3>1. /\ sub[s].held # NoClaim /\ sub[s].held \in BondClaim
          /\ sub[s].held.deadline = claim.deadline
      BY <1>1, <2>1 DEF ClaimInv, Working, Shapes, SameDeadline, persist_expired, persist_submitted,
         persist_rejection
    <3>2. "Expired" \in Phases /\ "Submitted" \in Phases
      BY DEF Phases
    <3>3. claim' \in {sub[s].held, [sub[s].held EXCEPT !.phase = "Expired"],
                      [sub[s].held EXCEPT !.phase = "Submitted"]}
      BY DEF persist_expired, persist_submitted, persist_rejection
    <3> DEFINE c == sub[s].held
               v(p) == [c EXCEPT !.phase = p]
    <3>4. \A p \in Phases : v(p).deadline = c.deadline
      BY <3>1, PhaseSet
    <3>5. claim' \in {c, v("Expired"), v("Submitted")}
      BY <3>3
    <3>6. c.deadline = claim.deadline
      BY <3>1
    <3> HIDE DEF c, v
    <3> QED
      BY <3>2, <3>4, <3>5, <3>6
  <2>4. CASE store_claim
    BY <1>1, <2>1, <2>4, StoreWrites
  <2> QED
    BY <2>2, <2>3, <2>4 DEF Next, Submit, read_claim, register, publish, publish_failed,
       acknowledged, resolve_rejection, timeout, reach_daemon, accept, reject, dispatch, load_claim,
       ask, pay, give_up_paying, reanchor, restart, tick
<1>2. ClaimInv /\ [MCNext]_MCvars => [Stays]_vars
  BY <1>1
<1> QED
  BY <1>2, ClaimInvariant, PTL DEF MCSpec, DeadlineFrozen

-----------------------------------------------------------------------------
(* The Cashu wallet and its escrow. *)

(* The sats out of the wallet: reserved by a send, or in a token.          *)
OutOf(o) == send[o].saga \in {"reserved", "created"}
Out == {o \in Sends : OutOf(o)}

SendState == /\ IsFiniteSet(Out) /\ spendable + Cardinality(Out) = Funds
             /\ \A o \in Sends : /\ send[o].pc = "idle" => send[o].saga = "none"
                                 /\ send[o].pc = "prepared" => send[o].saga = "reserved"
                                 /\ send[o].pc # "done" => send[o].result = "none"

EscrowInv == /\ Mint!TypeOK /\ SendState
             /\ Mint!FailedSendIsBack /\ Mint!EscrowHolds /\ Mint!MovesWhole
             /\ checking \/ verified => token # Mint!NoToken /\ Mint!verify_conditions

SendType == [pc : {"idle", "prepared", "failing", "done"}, kind : {"plain", "escrow"},
             saga : {"none", "reserved", "created", "revoked"},
             result : {"none", "token", "CashuSendFailed", "CashuSendUnresolved"}]

(* The escrow module counts signers with the operator used here. *)
LEMMA MintCardinality == \A S : Mint!Cardinality(S) = Cardinality(S)
BY DEF Mint!Cardinality, Cardinality

LEMMA TwoSign == \A x, y : x # y => Cardinality({x, y}) = 2
<1> SUFFICES ASSUME NEW x, NEW y, x # y PROVE Cardinality({x, y}) = 2
  OBVIOUS
<1>1. IsFiniteSet({x}) /\ Cardinality({x}) = 1
  BY FS_Singleton
<1>2. Cardinality({x} \cup {y}) = 2
  BY <1>1, FS_AddElement
<1> QED
  BY <1>2

(* A send that becomes r: the sats it takes out or brings back are those   *)
(* the wallet counts, and a failed one leaves nothing behind.              *)
LEMMA SendKeeps ==
    ASSUME EscrowInv, NEW o \in Sends, NEW r \in SendType, send' = [send EXCEPT ![o] = r],
           spendable' \in Nat,
           spendable' = spendable + (IF OutOf(o) THEN 1 ELSE 0)
                                  - (IF r.saga \in {"reserved", "created"} THEN 1 ELSE 0),
           r.pc = "idle" => r.saga = "none", r.pc = "prepared" => r.saga = "reserved",
           r.pc # "done" => r.result = "none",
           r.result = "CashuSendFailed" => r.saga \in {"none", "revoked"}
    PROVE  /\ SendState' /\ Mint!FailedSendIsBack' /\ spendable' \in 0 .. Funds
           /\ send' \in [Sends -> SendType]
<1> USE DEF EscrowInv
<1> DEFINE out == r.saga \in {"reserved", "created"}
<1>1. /\ send \in [Sends -> SendType] /\ spendable \in Nat /\ send'[o] = r
      /\ \A x \in Sends \ {o} : send'[x] = send[x]
  BY DEF Mint!TypeOK, SendType
<1>2. Out' = IF out THEN Out \cup {o} ELSE Out \ {o}
  <2>1. \A x \in Sends : x \in Out' <=> IF x = o THEN out ELSE x \in Out
    BY <1>1 DEF Out, OutOf
  <2>2. Out \subseteq Sends /\ Out' \subseteq Sends
    BY DEF Out
  <2> HIDE DEF out
  <2> QED
    BY <2>1, <2>2
<1>3. IsFiniteSet(Out) /\ Cardinality(Out) \in Nat /\ spendable + Cardinality(Out) = Funds
  BY FS_CardinalityType DEF SendState
<1>4. o \in Out <=> OutOf(o)
  BY DEF Out
<1> HIDE DEF out
<1>5. /\ IsFiniteSet(Out')
      /\ Cardinality(Out') = Cardinality(Out) + (IF out THEN 1 ELSE 0) - (IF OutOf(o) THEN 1 ELSE 0)
  <2>1. CASE out
    BY <1>2, <1>3, <1>4, <2>1, FS_AddElement
  <2>2. CASE ~out
    BY <1>2, <1>3, <1>4, <2>2, FS_RemoveElement
  <2> QED
    BY <2>1, <2>2
<1>6. spendable' + Cardinality(Out') = Funds
  BY <1>1, <1>3, <1>5 DEF out
<1>7. spendable' \in 0 .. Funds
  <2>1. Cardinality(Out') \in Nat
    BY <1>5, FS_CardinalityType
  <2> QED
    BY <1>6, <2>1, MintAssumption
<1>8. \A x \in Sends : /\ send'[x].pc = "idle" => send'[x].saga = "none"
                       /\ send'[x].pc = "prepared" => send'[x].saga = "reserved"
                       /\ send'[x].pc # "done" => send'[x].result = "none"
                       /\ send'[x].result = "CashuSendFailed" => send'[x].saga \in {"none", "revoked"}
  <2> TAKE x \in Sends
  <2>1. CASE x = o
    BY <1>1, <2>1
  <2>2. CASE x # o
    BY <1>1, <2>2 DEF SendState, Mint!FailedSendIsBack
  <2> QED
    BY <2>1, <2>2
<1> QED
  BY <1>1, <1>5, <1>6, <1>7, <1>8 DEF SendState, Mint!FailedSendIsBack

LEMMA TokenIs == Mint!NoToken \in Mint!Tokens
BY MintAssumption DEF Mint!NoToken, Mint!Tokens, Mint!Condition

(* A send, which makes the escrow token if there is none: what was         *)
(* verified is about the token there was.                                  *)
LEMMA SendStepKeeps ==
    ASSUME EscrowInv, NEW o \in Sends,
           Mint!prepare_send(o) \/ Mint!confirm(o) \/ Mint!send_failed(o)
    PROVE  EscrowInv'
<1> USE DEF EscrowInv
<1>1. /\ send \in [Sends -> SendType] /\ send[o] \in SendType /\ spendable \in Nat
      /\ token \in Mint!Tokens
      /\ UNCHANGED <<spentBy, time, verified, checking, handed>>
  BY DEF Mint!TypeOK, SendType, Mint!prepare_send, Mint!confirm, Mint!send_failed, Mint!escrow
<1>2. /\ SendState' /\ Mint!FailedSendIsBack' /\ spendable' \in 0 .. Funds
      /\ send' \in [Sends -> SendType]
  <2>1. CASE Mint!prepare_send(o)
    <3>1. PICK k \in {"plain", "escrow"} :
            \/ /\ spendable > 0 /\ spendable' = spendable - 1
               /\ send' = [send EXCEPT ![o] = [@ EXCEPT !.pc = "prepared", !.kind = k, !.saga = "reserved"]]
            \/ /\ send' = [send EXCEPT ![o] = [@ EXCEPT !.pc = "done", !.kind = k, !.result = "CashuSendFailed"]]
               /\ UNCHANGED spendable
      BY <2>1 DEF Mint!prepare_send
    <3>2. send[o].saga = "none" /\ send[o].result = "none" /\ ~OutOf(o)
      BY <2>1 DEF Mint!prepare_send, SendState, OutOf
    <3>3. CASE spendable' = spendable - 1 /\ spendable > 0
               /\ send' = [send EXCEPT ![o] = [@ EXCEPT !.pc = "prepared", !.kind = k, !.saga = "reserved"]]
      <4> DEFINE r == [send[o] EXCEPT !.pc = "prepared", !.kind = k, !.saga = "reserved"]
      <4>1. r \in SendType /\ r.pc = "prepared" /\ r.saga = "reserved" /\ r.result = "none"
        BY <1>1, <3>2 DEF SendType
      <4>2. send' = [send EXCEPT ![o] = r]
        BY <3>3
      <4> HIDE DEF r
      <4>3. spendable' = spendable + (IF OutOf(o) THEN 1 ELSE 0)
                                        - (IF r.saga \in {"reserved", "created"} THEN 1 ELSE 0)
            /\ spendable' \in Nat
        BY <1>1, <3>2, <3>3, <4>1
      <4> QED
        BY <1>1, <4>1, <4>2, <4>3, SendKeeps
    <3>4. CASE send' = [send EXCEPT ![o] = [@ EXCEPT !.pc = "done", !.kind = k, !.result = "CashuSendFailed"]]
               /\ UNCHANGED spendable
      <4> DEFINE r == [send[o] EXCEPT !.pc = "done", !.kind = k, !.result = "CashuSendFailed"]
      <4>1. r \in SendType /\ r.pc = "done" /\ r.saga = "none"
        BY <1>1, <3>2 DEF SendType
      <4>2. send' = [send EXCEPT ![o] = r]
        BY <3>4
      <4> HIDE DEF r
      <4>3. spendable' = spendable + (IF OutOf(o) THEN 1 ELSE 0)
                                        - (IF r.saga \in {"reserved", "created"} THEN 1 ELSE 0)
            /\ spendable' \in Nat
        BY <1>1, <3>2, <3>4, <4>1
      <4> QED
        BY <1>1, <4>1, <4>2, <4>3, SendKeeps
    <3> QED
      BY <3>1, <3>3, <3>4
  <2>2. CASE Mint!confirm(o)
    <3>1. send[o].saga = "reserved" /\ send[o].result = "none" /\ OutOf(o)
      BY <2>2 DEF Mint!confirm, SendState, OutOf
    <3>2. PICK p \in {"done", "failing"}, g \in {"none", "reserved", "created"}, q \in {"token", "none"} :
            /\ p # "done" => q = "none"
            /\ send' = [send EXCEPT ![o] = [@ EXCEPT !.pc = p, !.saga = g, !.result = q]]
            /\ spendable' = IF g = "none" THEN spendable + 1 ELSE spendable
      <4>1. CASE send' = [send EXCEPT ![o] = [@ EXCEPT !.pc = "done", !.saga = "created", !.result = "token"]]
                 /\ UNCHANGED spendable
        BY <4>1
      <4>2. CASE send' = [send EXCEPT ![o] = [@ EXCEPT !.pc = "failing", !.saga = "none"]]
                 /\ spendable' = spendable + 1
        <5>1. send' = [send EXCEPT ![o] = [@ EXCEPT !.pc = "failing", !.saga = "none", !.result = "none"]]
          BY <1>1, <3>1, <4>2 DEF SendType
        <5> QED
          BY <4>2, <5>1
      <4>3. CASE \E s \in {"reserved", "created"} :
                   send' = [send EXCEPT ![o] = [@ EXCEPT !.pc = "failing", !.saga = s]]
                   /\ UNCHANGED spendable
        <5>1. PICK s \in {"reserved", "created"} :
                /\ send' = [send EXCEPT ![o] = [@ EXCEPT !.pc = "failing", !.saga = s]]
                /\ UNCHANGED spendable
          BY <4>3
        <5>2. send' = [send EXCEPT ![o] = [@ EXCEPT !.pc = "failing", !.saga = s, !.result = "none"]]
          BY <1>1, <3>1, <5>1 DEF SendType
        <5> QED
          BY <5>1, <5>2
      <4> QED
        BY <2>2, <4>1, <4>2, <4>3 DEF Mint!confirm
    <3> DEFINE r == [send[o] EXCEPT !.pc = p, !.saga = g, !.result = q]
    <3>3. r \in SendType /\ r.pc = p /\ r.saga = g /\ r.result = q
      BY <1>1 DEF SendType
    <3>4. send' = [send EXCEPT ![o] = r]
      BY <3>2
    <3> HIDE DEF r
    <3>5. spendable' = spendable + (IF OutOf(o) THEN 1 ELSE 0)
                                      - (IF r.saga \in {"reserved", "created"} THEN 1 ELSE 0)
          /\ spendable' \in Nat
      BY <1>1, <3>1, <3>2, <3>3
    <3> QED
      BY <3>2, <3>3, <3>4, <3>5, SendKeeps
  <2>3. CASE Mint!send_failed(o)
    <3>1. send[o].pc = "failing" /\ send[o].result = "none"
      BY <2>3 DEF Mint!send_failed, SendState
    <3>2. CASE Mint!Revocable(o) /\ spendable' = spendable + 1
               /\ send' = [send EXCEPT ![o] = [@ EXCEPT !.pc = "done", !.saga = "revoked",
                                                        !.result = "CashuSendFailed"]]
      <4> DEFINE r == [send[o] EXCEPT !.pc = "done", !.saga = "revoked", !.result = "CashuSendFailed"]
      <4>1. r \in SendType /\ r.pc = "done" /\ r.saga = "revoked"
        BY <1>1 DEF SendType
      <4>2. send' = [send EXCEPT ![o] = r] /\ OutOf(o) /\ spendable' \in Nat
        BY <1>1, <3>2 DEF Mint!Revocable, OutOf
      <4> HIDE DEF r
      <4>3. spendable' = spendable + (IF OutOf(o) THEN 1 ELSE 0)
                                        - (IF r.saga \in {"reserved", "created"} THEN 1 ELSE 0)
            /\ spendable' \in Nat
        BY <1>1, <3>2, <4>1, <4>2
      <4> QED
        BY <1>1, <4>1, <4>2, <4>3, SendKeeps
    <3>3. CASE send' = [send EXCEPT ![o] = [@ EXCEPT !.pc = "done", !.result = "CashuSendUnresolved"]]
               /\ UNCHANGED spendable
      <4> DEFINE r == [send[o] EXCEPT !.pc = "done", !.result = "CashuSendUnresolved"]
      <4>1. r \in SendType /\ r.pc = "done" /\ r.saga = send[o].saga /\ r.result = "CashuSendUnresolved"
        BY <1>1 DEF SendType
      <4>2. send' = [send EXCEPT ![o] = r] /\ (OutOf(o) <=> r.saga \in {"reserved", "created"})
        BY <3>3, <4>1 DEF OutOf
      <4> HIDE DEF r
      <4>3. spendable' = spendable + (IF OutOf(o) THEN 1 ELSE 0)
                                        - (IF r.saga \in {"reserved", "created"} THEN 1 ELSE 0)
            /\ spendable' \in Nat
        BY <1>1, <3>3, <4>1, <4>2
      <4> QED
        BY <1>1, <4>1, <4>2, <4>3, SendKeeps
    <3> QED
      BY <2>3, <3>2, <3>3 DEF Mint!send_failed
  <2> QED
    BY <2>1, <2>2, <2>3
<1>3. token' \in Mint!Tokens /\ (token # Mint!NoToken => token' = token)
  <2>1. CASE token' = token
    BY <1>1, <2>1
  <2>2. CASE token' # token
    <3>1. PICK l \in time + 1 .. MintMaxTime : token' = Mint!escrow_conditions(l) /\ token = Mint!NoToken
      BY <2>2 DEF Mint!prepare_send, Mint!confirm, Mint!send_failed
    <3>2. l \in 0 .. MintMaxTime
      BY MintAssumption DEF Mint!TypeOK
    <3> QED
      BY <3>1, <3>2 DEF Mint!escrow_conditions, Mint!Tokens, Mint!Condition
  <2> QED
    BY <2>1, <2>2
<1>4. Mint!TypeOK'
  BY <1>1, <1>2, <1>3 DEF Mint!TypeOK, SendType
<1>5. Mint!EscrowHolds' /\ Mint!MovesWhole'
  BY <1>1 DEF Mint!EscrowHolds, Mint!MovesWhole
<1>6. (checking \/ verified => token # Mint!NoToken /\ Mint!verify_conditions)'
  BY <1>1, <1>3 DEF Mint!verify_conditions
<1> QED
  BY <1>2, <1>4, <1>5, <1>6

(* The sends stay; the escrow moves. *)
LEMMA SendsStay ==
    ASSUME EscrowInv, UNCHANGED <<spendable, send>>
    PROVE  SendState' /\ Mint!FailedSendIsBack'
BY DEF EscrowInv, SendState, Out, OutOf, Mint!FailedSendIsBack

(* Of a token verified or being verified, the seller alone can spend a     *)
(* proof only from the locktime on.                                        *)
LEMMA SpendKeeps ==
    ASSUME EscrowInv, NEW signers \in SUBSET Mint!Parties, NEW ps \in SUBSET Proofs,
           Mint!Spendable(signers, ps), Mint!Spend(signers, ps),
           ps = Proofs \/ signers = {"seller"}, Cardinality(signers) = 2 \/ signers = {"seller"},
           UNCHANGED <<spendable, send, token, time, verified, checking, handed>>
    PROVE  EscrowInv'
<1> USE DEF EscrowInv
<1>1. /\ spentBy' = [p \in Proofs |-> IF p \in ps THEN signers ELSE spentBy[p]]
      /\ \A p \in ps : spentBy[p] = {} /\ Mint!Satisfies(signers, p)
  BY DEF Mint!Spend, Mint!Spendable
<1>2. \A p \in Proofs : spentBy'[p] = IF p \in ps THEN signers ELSE spentBy[p]
  BY <1>1
<1>3. Mint!TypeOK'
  BY <1>1 DEF Mint!TypeOK
<1>4. (checking \/ verified => token # Mint!NoToken /\ Mint!verify_conditions)'
  BY DEF Mint!verify_conditions
<1>5. ASSUME verified, signers = {"seller"}, NEW p \in ps
      PROVE  time >= MinLocktime
  <2>1. Cardinality(signers) = 1
    BY <1>5, FS_Singleton
  <2>2. token[p].keys = "three" /\ token[p].locktime >= MinLocktime /\ token[p].locktime \in Nat
        /\ time \in Nat
    BY <1>5, MintAssumption DEF Mint!verify_conditions, Mint!TypeOK, Mint!Tokens, Mint!Condition
  <2>3. Mint!Satisfies(signers, p)
    BY <1>1
  <2>4. time >= token[p].locktime
    BY <2>1, <2>2, <2>3, MintCardinality DEF Mint!Satisfies
  <2> QED
    BY <2>2, <2>4, MintAssumption
<1>6. Mint!EscrowHolds'
  <2> SUFFICES ASSUME verified, NEW p \in Proofs
               PROVE  spentBy'[p] = {} \/ Mint!Cardinality(spentBy'[p]) >= 2 \/ time >= MinLocktime
    BY DEF Mint!EscrowHolds
  <2>1. CASE p \in ps
    BY <1>2, <1>5, <2>1, MintCardinality
  <2>2. CASE p \notin ps
    BY <1>2, <2>2 DEF Mint!EscrowHolds
  <2> QED
    BY <2>1, <2>2
<1>7. Mint!MovesWhole'
  <2> SUFFICES ASSUME verified, time < MinLocktime, NEW p \in Proofs, NEW q \in Proofs
               PROVE  spentBy'[p] = spentBy'[q]
    BY DEF Mint!MovesWhole
  <2>1. CASE ps = Proofs
    BY <1>2, <2>1
  <2>2. CASE ps # Proofs
    <3>1. time \in Nat
      BY MintAssumption DEF Mint!TypeOK
    <3>2. ~(time >= MinLocktime)
      BY <3>1, MintAssumption
    <3>3. ps = {}
      BY <1>5, <2>2, <3>2
    <3> QED
      BY <1>2, <3>3 DEF Mint!MovesWhole
  <2> QED
    BY <2>1, <2>2
<1> QED
  BY <1>3, <1>4, <1>6, <1>7, SendsStay

LEMMA EscrowStepKeeps ==
    ASSUME EscrowInv,
           \/ Mint!token_arrives \/ Mint!verify_escrow_token \/ Mint!check_proofs_spent \/ Mint!Tick
           \/ \E x \in Mint!Parties : Mint!sign_proofs(x)
           \/ \E x \in {"seller", "buyer"}, peer \in Mint!Parties : Mint!combine_and_redeem(x, peer)
           \/ Mint!reclaim_after_locktime \/ Mint!seller_spends
    PROVE  EscrowInv'
<1> USE DEF EscrowInv
<1>1. /\ token \in Mint!Tokens /\ time \in 0 .. MintMaxTime /\ time \in Nat
      /\ checking \/ verified => token # Mint!NoToken /\ Mint!verify_conditions
  BY MintAssumption DEF Mint!TypeOK
<1>2. CASE Mint!token_arrives
  <2>1. UNCHANGED <<spendable, send, spentBy, time, verified, checking, handed>>
        /\ token = Mint!NoToken /\ token' \in Mint!Tokens
    BY <1>2 DEF Mint!token_arrives, Mint!escrow
  <2>2. ~checking /\ ~verified
    BY <1>1, <2>1
  <2>3. Mint!TypeOK'
    BY <2>1 DEF Mint!TypeOK
  <2> QED
    BY <2>1, <2>2, <2>3, SendsStay DEF Mint!EscrowHolds, Mint!MovesWhole
<1>3. CASE Mint!verify_escrow_token
  <2>1. /\ UNCHANGED <<spendable, send, token, spentBy, time, verified, handed>> /\ checking' = TRUE
        /\ token # Mint!NoToken /\ Mint!verify_conditions
    BY <1>3 DEF Mint!verify_escrow_token
  <2>2. Mint!TypeOK' /\ Mint!verify_conditions'
    BY <2>1 DEF Mint!TypeOK, Mint!verify_conditions
  <2> QED
    BY <2>1, <2>2, SendsStay DEF Mint!EscrowHolds, Mint!MovesWhole
<1>4. CASE Mint!check_proofs_spent
  <2>1. /\ UNCHANGED <<spendable, send, token, spentBy, time, handed>>
        /\ checking /\ checking' = FALSE
        /\ verified' = FALSE \/ verified' = (\A p \in Proofs : spentBy[p] = {})
    BY <1>4 DEF Mint!check_proofs_spent
  <2>2. verified' \in BOOLEAN /\ (verified' => \A p \in Proofs : spentBy[p] = {})
    BY <2>1
  <2>3. Mint!TypeOK' /\ Mint!verify_conditions'
    BY <1>1, <2>1, <2>2 DEF Mint!TypeOK, Mint!verify_conditions
  <2>4. Mint!EscrowHolds' /\ Mint!MovesWhole'
    BY <2>1, <2>2 DEF Mint!EscrowHolds, Mint!MovesWhole
  <2> QED
    BY <1>1, <2>1, <2>3, <2>4, SendsStay
<1>5. CASE Mint!Tick
  <2>1. /\ UNCHANGED <<spendable, send, token, spentBy, verified, checking, handed>>
        /\ time' = time + 1 /\ time < MintMaxTime
    BY <1>5 DEF Mint!Tick
  <2>2. time' \in 0 .. MintMaxTime /\ (time >= MinLocktime => time' >= MinLocktime)
        /\ (time' < MinLocktime => time < MinLocktime)
    BY <1>1, <2>1, MintAssumption
  <2>3. Mint!TypeOK' /\ (Mint!verify_conditions => Mint!verify_conditions')
    BY <2>1, <2>2 DEF Mint!TypeOK, Mint!verify_conditions
  <2>4. Mint!EscrowHolds' /\ Mint!MovesWhole'
    BY <2>1, <2>2 DEF Mint!EscrowHolds, Mint!MovesWhole
  <2> QED
    BY <1>1, <2>1, <2>3, <2>4, SendsStay
<1>6. CASE \E x \in Mint!Parties : Mint!sign_proofs(x)
  <2>1. /\ UNCHANGED <<spendable, send, token, spentBy, time, verified, checking>>
        /\ handed' \in [Mint!Parties -> SUBSET Proofs]
    BY <1>6 DEF Mint!sign_proofs, Mint!TypeOK
  <2>2. Mint!TypeOK'
    BY <2>1 DEF Mint!TypeOK
  <2> QED
    BY <1>1, <2>1, <2>2, SendsStay DEF Mint!EscrowHolds, Mint!MovesWhole, Mint!verify_conditions
<1>7. CASE \E x \in {"seller", "buyer"}, peer \in Mint!Parties : Mint!combine_and_redeem(x, peer)
  <2> PICK x \in {"seller", "buyer"}, peer \in Mint!Parties : Mint!combine_and_redeem(x, peer)
    BY <1>7
  <2> DEFINE two == {x, peer}
  <2>1. x # peer /\ Mint!Spendable(two, Proofs) /\ Mint!Spend(two, Proofs)
        /\ UNCHANGED <<spendable, send, token, time, verified, checking, handed>>
    BY DEF Mint!combine_and_redeem, Mint!receive_proofs
  <2>2. two \in SUBSET Mint!Parties /\ Cardinality(two) = 2 /\ Proofs \in SUBSET Proofs
    BY <2>1, TwoSign DEF Mint!Parties
  <2> HIDE DEF two
  <2> QED
    BY <2>1, <2>2, SpendKeeps
<1>8. CASE Mint!reclaim_after_locktime
  <2>1. {"seller"} \in SUBSET Mint!Parties /\ Proofs \in SUBSET Proofs
    BY DEF Mint!Parties
  <2> QED
    BY <1>8, <2>1, SpendKeeps DEF Mint!reclaim_after_locktime, Mint!receive_proofs
<1>9. CASE Mint!seller_spends
  <2>1. {"seller"} \in SUBSET Mint!Parties
    BY DEF Mint!Parties
  <2> QED
    BY <1>9, <2>1, SpendKeeps DEF Mint!seller_spends
<1> QED
  BY <1>2, <1>3, <1>4, <1>5, <1>6, <1>7, <1>8, <1>9

LEMMA EscrowInvariant == MCSpec => []EscrowInv
<1>1. ASSUME MCInit PROVE EscrowInv
  <2>1. Mint!Init
    BY <1>1 DEF MCInit
  <2>2. \A o \in Sends : send[o] = [pc |-> "idle", kind |-> "plain", saga |-> "none", result |-> "none"]
    BY <2>1 DEF Mint!Init
  <2>3. Out = {}
    BY <2>2 DEF Out, OutOf
  <2>4. SendState
    BY <2>1, <2>2, <2>3, FS_EmptySet, MintAssumption DEF SendState, Mint!Init
  <2>5. Mint!TypeOK
    <3>1. /\ spendable = Funds /\ token = Mint!NoToken /\ time = 0
          /\ verified = FALSE /\ checking = FALSE
          /\ spentBy = [p \in Proofs |-> {}] /\ handed = [x \in Mint!Parties |-> {}]
          /\ send = [o \in Sends |-> [pc |-> "idle", kind |-> "plain", saga |-> "none",
                                      result |-> "none"]]
      BY <2>1 DEF Mint!Init
    <3>2. send \in [Sends -> SendType]
      BY <3>1 DEF SendType
    <3>3. spendable \in 0 .. Funds /\ time \in 0 .. MintMaxTime /\ token \in Mint!Tokens
      BY <3>1, TokenIs, MintAssumption
    <3>4. verified \in BOOLEAN /\ checking \in BOOLEAN
      BY <3>1
    <3>5. spentBy \in [Proofs -> SUBSET Mint!Parties] /\ handed \in [Mint!Parties -> SUBSET Proofs]
      BY <3>1
    <3> QED
      BY <3>2, <3>3, <3>4, <3>5 DEF Mint!TypeOK, SendType
  <2>6. Mint!FailedSendIsBack
    BY <2>2 DEF Mint!FailedSendIsBack
  <2>7. ~verified /\ ~checking
    BY <2>1 DEF Mint!Init
  <2> QED
    BY <2>4, <2>5, <2>6, <2>7 DEF EscrowInv, Mint!EscrowHolds, Mint!MovesWhole
<1>2. ASSUME EscrowInv, [MCNext]_MCvars PROVE EscrowInv'
  <2>1. Mint!Next \/ UNCHANGED MintVars
    BY <1>2 DEF MCNext, MCvars
  <2>2. CASE Mint!Next
    BY <1>2, <2>2, SendStepKeeps, EscrowStepKeeps DEF Mint!Next
  <2>3. CASE UNCHANGED MintVars
    <3>1. UNCHANGED <<spendable, send, token, spentBy, time, verified, checking, handed>>
      BY <2>3 DEF MintVars
    <3> QED
      BY <1>2, <3>1, SendsStay DEF EscrowInv, Mint!TypeOK, Mint!EscrowHolds, Mint!MovesWhole,
         Mint!verify_conditions
  <2> QED
    BY <2>1, <2>2, <2>3
<1> QED
  BY <1>1, <1>2, PTL DEF MCSpec

(* A send the wallet reports as failed left nothing reserved and no token; *)
(* an escrow the buyer's app called good stays until the trade's locktime  *)
(* unless two parties sign it away, and then moves as a whole              *)
(* (cashu/escrow.rs verify_escrow_token, combine_and_redeem; create_token):*)
(* for any number of sends and proofs and any locktime.                    *)
THEOREM EscrowIsSafe == MCSpec => []EscrowSound
<1>1. EscrowInv => EscrowSound
  BY DEF EscrowInv, EscrowSound
<1> QED
  BY <1>1, EscrowInvariant, PTL

-----------------------------------------------------------------------------
(* The browser's store, on an object store of any number of rows, with any *)
(* number of calls in one tab or two.                                      *)

CallRecords ==
    [pc : {"idle", "local", "origin", "in", "write", "done", "dropped"},
     op : Web!Ops \cup {Web!NoOp}, row : 0 .. MaxRows,
     doc : Web!Store!Row \cup {Web!NoOp}, todo : SUBSET Web!Store!Rows]

WebTypes ==
    /\ DOMAIN trades \subseteq Web!Store!Rows /\ trades \in [DOMAIN trades -> Web!Store!Row]
    /\ managed \in BOOLEAN /\ call \in [Calls -> CallRecords]
    /\ web_local \in [Web!Tabs -> Calls \cup {0}] /\ origin \in Calls \cup {0}
    /\ gone \subseteq Calls

(* Who waits for the browser's lock or is inside holds the tab's mutex, and *)
(* who is inside the browser's lock too, when there is one.                 *)
LocksHeld ==
    /\ \A t \in Web!Tabs : web_local[t] # 0 => Web!Tab(web_local[t]) = t
    /\ \A c \in Calls :
         /\ call[c].pc \in {"origin", "in", "write"} <=> web_local[Web!Tab(c)] = c
         /\ call[c].pc = "origin" => managed
         /\ call[c].pc \in {"in", "write"} /\ managed => origin = c
         /\ origin = c => call[c].pc \in {"in", "write"}

(* What the caller is about to write back is the document that is there,    *)
(* with its fields changed; what it is about to delete is every row of the  *)
(* order.                                                                   *)
ReadStands(c) ==
    /\ call[c].pc \in {"local", "origin", "in", "write"} => call[c].op \in Web!Ops
    /\ call[c].pc = "write" =>
         /\ call[c].op.what # "save"
         /\ call[c].todo # {}
         /\ call[c].op.what = "delete" => call[c].todo = Web!Store!RowsOf(trades, call[c].op.order)
         /\ call[c].op.what # "delete" =>
              /\ call[c].row \in Web!Store!RowsOf(trades, call[c].op.order)
              /\ call[c].row = Web!Store!Newest(trades, call[c].op.order)
              /\ call[c].doc = Web!patched(c, trades[call[c].row], call[c].op)

WebInv == WebTypes /\ LocksHeld /\ \A c \in Calls : ReadStands(c)

-----------------------------------------------------------------------------
(* The SQLite file.                                                        *)

SqlTypes ==
    /\ sql_trades \in {"none", "v1", "v2"} /\ text \in BOOLEAN
    /\ schema \in {"none", "v1", "v2", "v3"}
    /\ DOMAIN rows \subseteq Msgs /\ rows \in [DOMAIN rows -> Sql!Row]
    /\ pc \in Sql!Steps /\ fk \in BOOLEAN
    /\ probe \in [exists : BOOLEAN, data : BOOLEAN]
    /\ faults \in 0 .. MaxFaults /\ kept \subseteq Msgs
    /\ misread \in BOOLEAN /\ failed \in BOOLEAN

(* A failure or a wrong answer is a fault of this run, or of an earlier one. *)
FaultsCounted ==
    /\ misread => faults # 0
    /\ failed => faults # 0 /\ pc \in {"closed", "restore"}

(* Foreign keys are off from the pin to the rebuild, and on once restored.  *)
KeysOff ==
    /\ pc \in {"pinned", "repair", "messages", "rebuild"} => ~fk
    /\ pc \in {"init", "open"} => fk

(* How far the file is, at each step of open(), when every probe told true. *)
Repaired == {"messages", "rebuild", "init", "open"}
Migrated ==
    /\ text => sql_trades = "v2"
    /\ ~misread =>
         /\ kept \subseteq DOMAIN rows
         /\ schema \in {"none", "v1"} => kept = {}
         /\ pc = "repair" \/ pc \in Repaired \/ (pc = "restore" /\ ~failed) => sql_trades # "v1"
         /\ pc \in Repaired \/ (pc = "restore" /\ ~failed) => ~text
         /\ pc = "rebuild" => schema # "v1" /\ (schema = "v2" => probe.data)
         /\ pc = "init" \/ (pc = "restore" /\ ~failed) => schema \in {"none", "v3"}
         /\ pc = "open" => sql_trades = "v2" /\ schema = "v3"

FlagsOne == \A m \in DOMAIN rows : rows[m].col = rows[m].doc

SqlInv == SqlTypes /\ FaultsCounted /\ KeysOff /\ Migrated /\ FlagsOne

LEMMA SqlStart == Sql!Init => SqlInv
  <1>. SUFFICES ASSUME Sql!Init PROVE SqlInv
    OBVIOUS
  <1>1. /\ sql_trades \in {"none", "v1", "v2"} /\ schema \in {"none", "v1", "v2", "v3"}
        /\ schema \in {"v2", "v3"} <=> sql_trades = "v2"
        /\ text \in BOOLEAN /\ (text => sql_trades = "v2")
        /\ kept = IF schema = "v1" THEN {} ELSE DOMAIN rows
        /\ pc = "closed" /\ fk = TRUE /\ probe = [exists |-> FALSE, data |-> FALSE]
        /\ faults = 0 /\ misread = FALSE /\ failed = FALSE
    BY DEF Sql!Init
  <1>2. PICK S \in SUBSET Msgs, read \in BOOLEAN :
          rows = [m \in S |-> [col |-> read, doc |-> read]] /\ (schema = "none" => S = {})
    BY DEF Sql!Init
  <1>3. DOMAIN rows = S /\ rows \in [S -> Sql!Row] /\ FlagsOne
    BY <1>2 DEF Sql!Row, FlagsOne
  <1>4. SqlTypes
    <2>1. /\ rows \in [DOMAIN rows -> Sql!Row] /\ DOMAIN rows \subseteq Msgs /\ kept \subseteq Msgs
      BY <1>1, <1>3
    <2>2. faults \in 0 .. MaxFaults
      BY <1>1, StoreAssumption
    <2>. QED BY <1>1, <2>1, <2>2 DEF SqlTypes, Sql!Steps
  <1>5. Migrated
    BY <1>1, <1>2, <1>3 DEF Migrated, Repaired
  <1>. QED BY <1>1, <1>3, <1>4, <1>5 DEF SqlInv, FaultsCounted, KeysOff

(* A probe tells the truth, or a fault is counted. *)
LEMMA ProbeTells ==
    ASSUME SqlTypes, FaultsCounted, NEW truth \in BOOLEAN, NEW answer \in BOOLEAN, Sql!Probe(truth, answer)
    PROVE  /\ faults' \in 0 .. MaxFaults /\ misread' \in BOOLEAN
           /\ ~misread' => answer = truth /\ ~misread
           /\ misread' => faults' # 0
           /\ faults # 0 => faults' # 0
           /\ answer => truth
  <1>1. faults \in 0 .. MaxFaults /\ MaxFaults \in Nat /\ misread \in BOOLEAN /\ (misread => faults # 0)
    BY StoreAssumption DEF SqlTypes, FaultsCounted
  <1>2. CASE answer = truth /\ faults' = faults /\ misread' = misread
    BY <1>1, <1>2
  <1>3. CASE truth /\ ~answer /\ faults < MaxFaults /\ faults' = faults + 1 /\ misread' = TRUE
    <2>1. faults' \in 0 .. MaxFaults /\ faults' # 0
      BY <1>1, <1>3
    <2>. QED BY <1>3, <2>1
  <1>. QED BY <1>2, <1>3 DEF Sql!Probe

LEMMA SqlFault ==
    ASSUME SqlInv, NEW next, Sql!statement_fails(next), next \in {"closed", "restore"},
           pc \in {"pinned", "messages", "rebuild", "init"}
    PROVE  SqlInv'
  <1>1. /\ faults' \in 0 .. MaxFaults /\ faults' # 0 /\ failed' = TRUE /\ pc' = next
        /\ UNCHANGED <<sql_trades, text, schema, rows, fk, probe, kept, misread>>
    BY StoreAssumption DEF SqlInv, SqlTypes, Sql!statement_fails, Sql!file
  <1>2. SqlTypes'
    BY <1>1 DEF SqlInv, SqlTypes, Sql!Steps
  <1>. QED BY <1>1, <1>2 DEF SqlInv, FaultsCounted, KeysOff, Migrated, Repaired, FlagsOne

LEMMA SqlOpens ==
    ASSUME SqlInv, Sql!open \/ Sql!restore_foreign_keys \/ Sql!stop
    PROVE  SqlInv'
  <1>1. CASE Sql!open
    <2>1. SqlTypes'
      BY <1>1 DEF SqlInv, SqlTypes, Sql!Steps, Sql!open, Sql!file
    <2>. QED BY <1>1, <2>1 DEF SqlInv, FaultsCounted, KeysOff, Migrated, Repaired, FlagsOne, Sql!open, Sql!file
  <1>2. CASE Sql!restore_foreign_keys
    <2>1. SqlTypes'
      BY <1>2 DEF SqlInv, SqlTypes, Sql!Steps, Sql!restore_foreign_keys, Sql!file
    <2>. QED BY <1>2, <2>1 DEF SqlInv, FaultsCounted, KeysOff, Migrated, Repaired, FlagsOne,
                               Sql!restore_foreign_keys, Sql!file
  <1>3. CASE Sql!stop
    <2>1. faults' \in 0 .. MaxFaults /\ (faults # 0 => faults' # 0)
      BY <1>3, StoreAssumption DEF SqlInv, SqlTypes, Sql!stop
    <2>2. SqlTypes'
      BY <1>3, <2>1 DEF SqlInv, SqlTypes, Sql!Steps, Sql!stop, Sql!file
    <2>. QED BY <1>3, <2>1, <2>2 DEF SqlInv, FaultsCounted, KeysOff, Migrated, Repaired, FlagsOne, Sql!stop, Sql!file
  <1>. QED BY <1>1, <1>2, <1>3

LEMMA TradesMigrated == ASSUME SqlInv, Sql!drop_legacy_trades PROVE SqlInv'
  <1>1. pc = "pinned" /\ ~fk
    BY DEF SqlInv, KeysOff, Sql!drop_legacy_trades
  <1>2. CASE Sql!statement_fails("restore")
    BY <1>1, <1>2, SqlFault
  <1>3. CASE ~Sql!statement_fails("restore")
    <2>1. PICK old \in BOOLEAN :
            /\ Sql!Probe(sql_trades = "v1", old)
            /\ pc' = "repair" /\ sql_trades' = IF old THEN "none" ELSE sql_trades
            /\ UNCHANGED <<text, schema, rows, fk, probe, kept, failed>>
      BY <1>1, <1>3 DEF Sql!drop_legacy_trades
    <2>2. /\ faults' \in 0 .. MaxFaults /\ misread' \in BOOLEAN
          /\ ~misread' => (old <=> sql_trades = "v1") /\ ~misread
          /\ misread' => faults' # 0
          /\ old => sql_trades = "v1"
      BY <2>1, ProbeTells DEF SqlInv
    <2>3. SqlTypes'
      BY <2>1, <2>2 DEF SqlInv, SqlTypes, Sql!Steps
    <2>4. ~failed
      BY <1>1 DEF SqlInv, FaultsCounted
    <2>. QED BY <1>1, <2>1, <2>2, <2>3, <2>4 DEF SqlInv, FaultsCounted, KeysOff, Migrated, Repaired, FlagsOne
  <1>. QED BY <1>2, <1>3

LEMMA AmountsRepaired == ASSUME SqlInv, Sql!repair_amount_sats PROVE SqlInv'
  <1>1. /\ pc = "repair" /\ pc' = "messages" /\ ~fk /\ ~failed
        /\ UNCHANGED <<sql_trades, schema, rows, fk, probe, kept, failed>>
    BY DEF SqlInv, KeysOff, FaultsCounted, Sql!repair_amount_sats
  <1>2. /\ faults' \in 0 .. MaxFaults /\ misread' \in BOOLEAN /\ text' \in BOOLEAN
        /\ ~misread' => ~misread /\ (sql_trades = "v2" => ~text')
        /\ misread' => faults' # 0
        /\ text' => text
    <2>1. /\ faults \in 0 .. MaxFaults /\ MaxFaults \in Nat /\ misread \in BOOLEAN /\ text \in BOOLEAN
          /\ misread => faults # 0
      BY StoreAssumption DEF SqlInv, SqlTypes, FaultsCounted
    <2>2. CASE text' = (IF sql_trades = "v2" THEN FALSE ELSE text) /\ UNCHANGED <<faults, misread>>
      BY <2>1, <2>2
    <2>3. CASE faults < MaxFaults /\ faults' = faults + 1 /\ misread' = TRUE /\ UNCHANGED text
      BY <2>1, <2>3
    <2>. QED BY <2>2, <2>3 DEF Sql!repair_amount_sats
  <1>3. SqlTypes'
    BY <1>1, <1>2 DEF SqlInv, SqlTypes, Sql!Steps
  <1>. QED BY <1>1, <1>2, <1>3 DEF SqlInv, FaultsCounted, KeysOff, Migrated, Repaired, FlagsOne

LEMMA UnreadableDropped == ASSUME SqlInv, Sql!drop_unreadable_messages PROVE SqlInv'
  <1>1. pc = "messages" /\ ~fk /\ ~failed
    BY DEF SqlInv, KeysOff, FaultsCounted, Sql!drop_unreadable_messages
  <1>2. CASE Sql!statement_fails("restore")
    BY <1>1, <1>2, SqlFault
  <1>3. CASE ~Sql!statement_fails("restore")
    <2>1. PICK e \in BOOLEAN, d \in BOOLEAN :
            /\ \/ e = (schema # "none") /\ Sql!Probe(schema \in {"v2", "v3"}, d)
               \/ d = (schema \in {"v2", "v3"}) /\ Sql!Probe(schema # "none", e)
            /\ probe' = [exists |-> e, data |-> d]
            /\ IF e /\ ~d THEN schema' = "none" /\ rows' = <<>> ELSE UNCHANGED <<schema, rows>>
            /\ pc' = "rebuild" /\ UNCHANGED <<sql_trades, text, fk, kept, failed>>
      BY <1>1, <1>3 DEF Sql!drop_unreadable_messages
    <2>2. /\ faults' \in 0 .. MaxFaults /\ misread' \in BOOLEAN
          /\ misread' => faults' # 0
          /\ ~misread' => (e <=> schema # "none") /\ (d <=> schema \in {"v2", "v3"}) /\ ~misread
      <3>. DEFINE there == schema # "none"
                  readable == schema \in {"v2", "v3"}
      <3>0. SqlTypes /\ FaultsCounted /\ there \in BOOLEAN /\ readable \in BOOLEAN
        BY DEF SqlInv
      <3>1. CASE e = there /\ Sql!Probe(readable, d)
        <4>1. /\ faults' \in 0 .. MaxFaults /\ misread' \in BOOLEAN
              /\ ~misread' => d = readable /\ ~misread
              /\ misread' => faults' # 0
          BY <3>0, <3>1, ProbeTells
        <4>. QED BY <3>1, <4>1
      <3>2. CASE d = readable /\ Sql!Probe(there, e)
        <4>1. /\ faults' \in 0 .. MaxFaults /\ misread' \in BOOLEAN
              /\ ~misread' => e = there /\ ~misread
              /\ misread' => faults' # 0
          BY <3>0, <3>2, ProbeTells
        <4>. QED BY <3>2, <4>1
      <3>. QED BY <2>1, <3>1, <3>2
    <2>3. DOMAIN rows' \subseteq Msgs /\ rows' \in [DOMAIN rows' -> Sql!Row] /\ FlagsOne'
      <3>1. CASE rows' = rows
        BY <3>1 DEF SqlInv, SqlTypes, FlagsOne
      <3>2. CASE rows' = <<>>
        <4>1. DOMAIN rows' = {} /\ rows' \in [{} -> Sql!Row]
          BY <3>2
        <4>. QED BY <4>1 DEF FlagsOne
      <3>. QED BY <2>1, <3>1, <3>2
    <2>4. SqlTypes'
      BY <2>1, <2>2, <2>3 DEF SqlInv, SqlTypes, Sql!Steps
    <2>5. ~misread' => (e /\ ~d => schema = "v1") /\ probe'.data = d
      BY <2>1, <2>2 DEF SqlInv, SqlTypes
    <2>. QED BY <1>1, <2>1, <2>2, <2>3, <2>4, <2>5 DEF SqlInv, FaultsCounted, KeysOff, Migrated, Repaired
  <1>. QED BY <1>2, <1>3

LEMMA MessagesRebuilt == ASSUME SqlInv, Sql!SQLITE_DROP_MESSAGES_FK_SQL PROVE SqlInv'
  <1>1. pc = "rebuild" /\ ~fk /\ ~failed
    BY DEF SqlInv, KeysOff, FaultsCounted, Sql!SQLITE_DROP_MESSAGES_FK_SQL
  <1>2. CASE Sql!statement_fails("restore")
    BY <1>1, <1>2, SqlFault
  <1>3. CASE ~Sql!statement_fails("restore")
    <2>1. PICK has_fk \in BOOLEAN :
            /\ Sql!Probe(schema \in {"v1", "v2"}, has_fk)
            /\ IF has_fk /\ probe.data
                 THEN IF schema = "v1" THEN failed' = TRUE /\ UNCHANGED <<schema, fk>>
                      ELSE schema' = "v3" /\ fk' = TRUE /\ UNCHANGED failed
                 ELSE UNCHANGED <<schema, fk, failed>>
            /\ pc' = "restore" /\ UNCHANGED <<sql_trades, text, rows, probe, kept>>
      BY <1>1, <1>3 DEF Sql!SQLITE_DROP_MESSAGES_FK_SQL
    <2>2. /\ faults' \in 0 .. MaxFaults /\ misread' \in BOOLEAN
          /\ ~misread' => (has_fk <=> schema \in {"v1", "v2"}) /\ ~misread
          /\ misread' => faults' # 0
          /\ faults # 0 => faults' # 0
      <3>. DEFINE referring == schema \in {"v1", "v2"}
      <3>1. SqlTypes /\ FaultsCounted /\ referring \in BOOLEAN /\ Sql!Probe(referring, has_fk)
        BY <2>1 DEF SqlInv
      <3>. QED BY <3>1, ProbeTells
    <2>3. SqlTypes'
      BY <2>1, <2>2 DEF SqlInv, SqlTypes, Sql!Steps
    <2>4. FaultsCounted'
      <3>1. schema = "v1" => misread
        BY <1>1 DEF SqlInv, Migrated
      <3>2. failed' => faults' # 0
        BY <1>1, <2>1, <2>2, <3>1 DEF SqlInv, FaultsCounted
      <3>. QED BY <2>1, <2>2, <3>2 DEF FaultsCounted
    <2>5. ~misread' => schema' \in {"none", "v3"} /\ (schema' = "none" => schema = "none")
      BY <1>1, <2>1, <2>2 DEF SqlInv, SqlTypes, Migrated
    <2>. QED BY <1>1, <2>1, <2>2, <2>3, <2>4, <2>5 DEF SqlInv, KeysOff, Migrated, Repaired, FlagsOne
  <1>. QED BY <1>2, <1>3

LEMMA TablesThere == ASSUME SqlInv, Sql!SQLITE_INIT_SQL PROVE SqlInv'
  <1>1. pc = "init" /\ fk /\ ~failed
    BY DEF SqlInv, KeysOff, FaultsCounted, Sql!SQLITE_INIT_SQL
  <1>2. CASE Sql!statement_fails("closed")
    BY <1>1, <1>2, SqlFault
  <1>3. CASE ~Sql!statement_fails("closed")
    <2>1. /\ sql_trades' = IF sql_trades = "none" THEN "v2" ELSE sql_trades
          /\ schema' = IF schema = "none" /\ sql_trades # "v1" THEN "v3" ELSE schema
          /\ IF sql_trades = "v1" THEN pc' = "closed" /\ failed' = TRUE ELSE pc' = "open" /\ UNCHANGED failed
          /\ UNCHANGED <<text, rows, fk, probe, faults, kept, misread>>
      BY <1>3 DEF Sql!SQLITE_INIT_SQL
    <2>2. SqlTypes'
      BY <2>1 DEF SqlInv, SqlTypes, Sql!Steps
    <2>3. FaultsCounted'
      <3>1. sql_trades = "v1" => misread
        BY <1>1 DEF SqlInv, Migrated, Repaired
      <3>. QED BY <1>1, <2>1, <3>1 DEF SqlInv, FaultsCounted
    <2>4. Migrated'
      BY <1>1, <2>1 DEF SqlInv, SqlTypes, Migrated, Repaired
    <2>. QED BY <1>1, <2>1, <2>2, <2>3, <2>4 DEF SqlInv, KeysOff, FlagsOne
  <1>. QED BY <1>2, <1>3

LEMMA MessagesKept ==
    ASSUME SqlInv, (\E m \in Msgs : Sql!save_message(m)) \/ Sql!mark_messages_read
    PROVE  SqlInv'
  <1>1. CASE \E m \in Msgs : Sql!save_message(m)
    <2>1. PICK m \in Msgs : Sql!save_message(m)
      BY <1>1
    <2>2. /\ pc = "open" /\ schema = "v3" /\ kept' = kept \cup {m}
          /\ UNCHANGED <<sql_trades, text, schema, pc, fk, probe, faults, misread, failed>>
          /\ DOMAIN rows' = DOMAIN rows \cup {m}
          /\ \A x \in DOMAIN rows' : rows'[x] = IF x = m THEN [col |-> FALSE, doc |-> FALSE] ELSE rows[x]
          /\ rows' = [x \in DOMAIN rows' |-> rows'[x]]
      BY <2>1 DEF Sql!save_message
    <2>3. \A x \in DOMAIN rows' : rows'[x] \in Sql!Row /\ rows'[x].col = rows'[x].doc
      <3>1. \A x \in DOMAIN rows : rows[x] \in Sql!Row /\ rows[x].col = rows[x].doc
        BY DEF SqlInv, SqlTypes, FlagsOne
      <3>2. rows'[m] \in Sql!Row /\ rows'[m].col = rows'[m].doc
        <4>1. rows'[m] = [col |-> FALSE, doc |-> FALSE]
          BY <2>2
        <4>. QED BY <4>1 DEF Sql!Row
      <3>3. \A x \in DOMAIN rows' : x # m => x \in DOMAIN rows /\ rows'[x] = rows[x]
        BY <2>2
      <3>. QED BY <3>1, <3>2, <3>3
    <2>4. DOMAIN rows' \subseteq Msgs /\ rows' \in [DOMAIN rows' -> Sql!Row]
      BY <2>2, <2>3 DEF SqlInv, SqlTypes
    <2>5. SqlTypes'
      BY <2>2, <2>4 DEF SqlInv, SqlTypes
    <2>. QED BY <2>2, <2>3, <2>5 DEF SqlInv, FaultsCounted, KeysOff, Migrated, Repaired, FlagsOne
  <1>2. CASE Sql!mark_messages_read
    <2>1. /\ UNCHANGED <<sql_trades, text, schema, pc, fk, probe, faults, kept, misread, failed>>
          /\ rows' = [m \in DOMAIN rows |-> IF ~rows[m].col THEN [col |-> TRUE, doc |-> TRUE] ELSE rows[m]]
      BY <1>2 DEF Sql!mark_messages_read
    <2>2. DOMAIN rows' = DOMAIN rows /\ \A x \in DOMAIN rows' : rows'[x] \in Sql!Row /\ rows'[x].col = rows'[x].doc
      BY <2>1 DEF SqlInv, SqlTypes, FlagsOne, Sql!Row
    <2>3. rows' \in [DOMAIN rows' -> Sql!Row]
      BY <2>1, <2>2
    <2>4. SqlTypes'
      BY <2>1, <2>2, <2>3 DEF SqlInv, SqlTypes
    <2>. QED BY <2>1, <2>2, <2>4 DEF SqlInv, FaultsCounted, KeysOff, Migrated, Repaired, FlagsOne
  <1>. QED BY <1>1, <1>2

LEMMA SqlStep == SqlInv /\ Sql!Next => SqlInv'
  BY SqlOpens, TradesMigrated, AmountsRepaired, UnreadableDropped, MessagesRebuilt, TablesThere, MessagesKept
     DEF Sql!Next

LEMMA SqlStutter == SqlInv /\ UNCHANGED SqlVars => SqlInv'
  BY DEF SqlInv, SqlVars, SqlTypes, FaultsCounted, KeysOff, Migrated, Repaired, FlagsOne

LEMMA SqlServes ==
    SqlInv => Sql!TypeOK /\ Sql!MessagesPreserved /\ Sql!OpenIsCurrent /\ Sql!OpensEveryVersion /\ Sql!FlagsAgree
  <1>. SUFFICES ASSUME SqlInv
                PROVE  /\ Sql!TypeOK /\ Sql!MessagesPreserved /\ Sql!OpenIsCurrent
                       /\ Sql!OpensEveryVersion /\ Sql!FlagsAgree
    OBVIOUS
  <1>1. Sql!TypeOK
    BY DEF SqlInv, SqlTypes, Sql!TypeOK
  <1>2. Sql!MessagesPreserved /\ Sql!OpenIsCurrent /\ Sql!OpensEveryVersion
    BY DEF SqlInv, FaultsCounted, KeysOff, Migrated, Repaired, Sql!MessagesPreserved, Sql!OpenIsCurrent,
           Sql!OpensEveryVersion
  <1>3. Sql!FlagsAgree
    <2>1. \A m \in DOMAIN rows : (~rows[m].col) <=> (~rows[m].doc)
      BY DEF SqlInv, FlagsOne
    <2>. QED BY <2>1 DEF Sql!FlagsAgree, Sql!list_unread_messages, Sql!list_messages
  <1>. QED BY <1>1, <1>2, <1>3

-----------------------------------------------------------------------------
(* The browser's store: locks.                                             *)

Others(c) == call' = [call EXCEPT ![c] = call'[c]] /\ managed' = managed

(* What a step of a call does to the locks. *)
LockMove(c) ==
    \/ call[c].pc = "idle" /\ call'[c].pc = "local" /\ UNCHANGED <<web_local, origin>>
    \/ /\ call[c].pc = "local" /\ web_local[Web!Tab(c)] = 0
       /\ web_local' = [web_local EXCEPT ![Web!Tab(c)] = c]
       /\ call'[c].pc = IF managed THEN "origin" ELSE "in"
       /\ UNCHANGED origin
    \/ /\ call[c].pc = "origin" /\ origin = 0 /\ origin' = c /\ call'[c].pc = "in"
       /\ UNCHANGED web_local
    \/ /\ call[c].pc \in {"in", "write"} /\ call'[c].pc = "write" /\ UNCHANGED <<web_local, origin>>
    \/ /\ call[c].pc \in {"local", "origin", "in", "write"} /\ call'[c].pc \in {"done", "dropped"}
       /\ Web!release(c)

LEMMA TabStays ==
    /\ \A c : Web!Tab(c) \in Web!Tabs
    /\ managed' = managed => \A c : Web!Tab(c)' = Web!Tab(c)
    /\ ~managed => \A c : Web!Tab(c) = 1
  BY DEF Web!Tab, Web!Tabs

(* One call at a time is inside. *)
LEMMA InsideAlone ==
    ASSUME LocksHeld, NEW c \in Calls, NEW d \in Calls,
           call[c].pc \in {"in", "write"}, call[d].pc \in {"in", "write"}
    PROVE  c = d
  <1>1. web_local[Web!Tab(c)] = c /\ web_local[Web!Tab(d)] = d
    BY DEF LocksHeld
  <1>2. CASE managed
    BY <1>2 DEF LocksHeld
  <1>3. CASE ~managed
    BY <1>1, <1>3, TabStays
  <1>. QED BY <1>2, <1>3

LEMMA LocksStay ==
    ASSUME WebTypes, LocksHeld, NEW c \in Calls, Others(c), LockMove(c), call'[c] \in CallRecords
    PROVE  LocksHeld' /\ web_local' \in [Web!Tabs -> Calls \cup {0}] /\ origin' \in Calls \cup {0}
  <1>. DEFINE Tab(d) == Web!Tab(d)
  <1>1. /\ 0 \notin Calls /\ managed' = managed
        /\ \A d : Tab(d) \in Web!Tabs /\ Web!Tab(d)' = Tab(d)
        /\ web_local \in [Web!Tabs -> Calls \cup {0}] /\ origin \in Calls \cup {0}
        /\ \A d \in Calls : d # c => call'[d] = call[d]
    BY StoreAssumption, TabStays DEF Others, WebTypes
  <1>2. /\ \A t \in Web!Tabs : web_local[t] # 0 => Tab(web_local[t]) = t
        /\ \A d \in Calls : /\ call[d].pc \in {"origin", "in", "write"} <=> web_local[Tab(d)] = d
                            /\ call[d].pc = "origin" => managed
                            /\ call[d].pc \in {"in", "write"} /\ managed => origin = d
                            /\ origin = d => call[d].pc \in {"in", "write"}
    BY DEF LocksHeld
  <1>. DEFINE L == web_local'
              Good == /\ L \in [Web!Tabs -> Calls \cup {0}] /\ origin' \in Calls \cup {0}
                      /\ \A t \in Web!Tabs : L[t] # 0 => Tab(L[t]) = t
                      /\ \A d \in Calls : /\ call'[d].pc \in {"origin", "in", "write"} <=> L[Tab(d)] = d
                                          /\ call'[d].pc = "origin" => managed
                                          /\ call'[d].pc \in {"in", "write"} /\ managed => origin' = d
                                          /\ origin' = d => call'[d].pc \in {"in", "write"}
  <1>3. Good => LocksHeld' /\ L \in [Web!Tabs -> Calls \cup {0}] /\ origin' \in Calls \cup {0}
    BY <1>1 DEF LocksHeld
  <1>. HIDE DEF Tab
  <1>4. CASE call[c].pc = "idle" /\ call'[c].pc = "local" /\ UNCHANGED <<web_local, origin>>
    <2>. QED BY <1>1, <1>2, <1>3, <1>4
  <1>5. CASE /\ call[c].pc = "local" /\ web_local[Web!Tab(c)] = 0
             /\ web_local' = [web_local EXCEPT ![Web!Tab(c)] = c]
             /\ call'[c].pc = IF managed THEN "origin" ELSE "in"
             /\ UNCHANGED origin
    <2>1. /\ web_local[Tab(c)] = 0 /\ L = [web_local EXCEPT ![Tab(c)] = c] /\ origin # c
      BY <1>2, <1>5 DEF Tab
    <2>2. /\ L[Tab(c)] = c /\ \A t \in Web!Tabs : t # Tab(c) => L[t] = web_local[t]
          /\ L \in [Web!Tabs -> Calls \cup {0}]
      BY <1>1, <2>1
    <2>3. \A d \in Calls : d # c => (L[Tab(d)] = d <=> web_local[Tab(d)] = d)
      BY <1>1, <2>1, <2>2
    <2>4. call'[c].pc \in {"origin", "in"} /\ (call'[c].pc = "origin" <=> managed)
      BY <1>5
    <2>5. \A t \in Web!Tabs : L[t] # 0 => Tab(L[t]) = t
      BY <1>2, <2>2
    <2>. QED BY <1>1, <1>2, <1>3, <1>5, <2>2, <2>3, <2>4, <2>5
  <1>6. CASE /\ call[c].pc = "origin" /\ origin = 0 /\ origin' = c /\ call'[c].pc = "in"
             /\ UNCHANGED web_local
    BY <1>1, <1>2, <1>3, <1>6
  <1>7. CASE call[c].pc \in {"in", "write"} /\ call'[c].pc = "write" /\ UNCHANGED <<web_local, origin>>
    BY <1>1, <1>2, <1>3, <1>7
  <1>8. CASE /\ call[c].pc \in {"local", "origin", "in", "write"} /\ call'[c].pc \in {"done", "dropped"}
             /\ Web!release(c)
    <2>1. /\ L = [t \in Web!Tabs |-> IF web_local[t] = c THEN 0 ELSE web_local[t]]
          /\ origin' = IF origin = c THEN 0 ELSE origin
      BY <1>8 DEF Web!release
    <2>2. /\ L \in [Web!Tabs -> Calls \cup {0}] /\ origin' \in Calls \cup {0} /\ origin' # c
          /\ \A t \in Web!Tabs : L[t] # c /\ (web_local[t] # c => L[t] = web_local[t])
          /\ \A t \in Web!Tabs : L[t] # 0 => L[t] = web_local[t]
      BY <1>1, <2>1
    <2>3. \A d \in Calls : d # c => (L[Tab(d)] = d <=> web_local[Tab(d)] = d) /\ (origin' = d <=> origin = d)
      BY <1>1, <2>1, <2>2
    <2>4. L[Tab(c)] # c
      BY <1>1, <2>2
    <2>. QED BY <1>1, <1>2, <1>3, <1>8, <2>2, <2>3, <2>4
  <1>. QED BY <1>4, <1>5, <1>6, <1>7, <1>8 DEF LockMove

-----------------------------------------------------------------------------
(* The browser's store: documents.                                         *)

LEMMA LeastRow == ASSUME NEW T \in SUBSET Nat, T # {} PROVE \E x \in T : \A y \in T : x <= y
  <1>. DEFINE R == OpToRel(<, Nat)
  <1>1. IsWellFoundedOn(R, Nat)
    BY NatLessThanWellFounded
  <1>. HIDE DEF R
  <1>2. PICK x \in T : \A y \in T : ~ (<<y, x>> \in R)
    BY <1>1, WFMin
  <1>3. \A y \in T : <<y, x>> \in R <=> y < x
    BY DEF R, OpToRel
  <1>4. \A y \in T : y \in Nat /\ ~(y < x)
    BY <1>2, <1>3
  <1>. QED BY <1>4

LEMMA NewestRow ==
    ASSUME NEW T \in SUBSET Web!Store!Rows, T # {}
    PROVE  Web!Max(T) \in T /\ Web!Store!Max(T) = Web!Max(T)
  <1>. DEFINE U == {u \in Nat : \E x \in T : u = MaxRows - x}
  <1>1. T \subseteq 1 .. MaxRows /\ MaxRows \in Nat
    BY StoreAssumption DEF Web!Store!Rows
  <1>2. U \in SUBSET Nat /\ U # {} /\ \A y \in T : MaxRows - y \in U
    <2>1. \A y \in T : MaxRows - y \in Nat
      BY <1>1
    <2>2. \A y \in T : MaxRows - y \in U
      BY <2>1
    <2>. QED BY <2>2
  <1>3. PICK u \in U : \A v \in U : u <= v
    BY <1>2, LeastRow
  <1>4. PICK x \in T : u = MaxRows - x
    OBVIOUS
  <1>5. \A y \in T : x >= y
    BY <1>1, <1>2, <1>3, <1>4
  <1>6. Web!Max(T) \in T
    BY <1>5 DEF Web!Max
  <1>7. Web!Store!Max(T) = Web!Max(T)
    BY DEF Web!Max, Web!Store!Max
  <1>. QED BY <1>6, <1>7

LEMMA DocsTyped ==
    ASSUME WebTypes
    PROVE  /\ \A r \in DOMAIN trades :
                /\ r \in Web!Store!Rows /\ trades[r] \in Web!Store!Row
                /\ trades[r].order \in Orders /\ trades[r].doc \in Web!Store!Docs
           /\ \A o : /\ Web!Store!RowsOf(trades, o) \subseteq DOMAIN trades
                     /\ Web!Store!RowsOf(trades, o) \subseteq Web!Store!Rows
                     /\ \A r : r \in Web!Store!RowsOf(trades, o) <=> r \in DOMAIN trades /\ trades[r].order = o
  BY DEF WebTypes, Web!Store!Row, Web!Store!RowsOf

LEMMA ChangedIsDoc ==
    ASSUME NEW doc \in Web!Store!Docs, NEW c \in Calls, NEW S \in SUBSET Fields
    PROVE  Web!Store!changed(doc, [f \in S |-> c]) \in Web!Store!Docs
  BY DEF Web!Store!changed, Web!Store!Docs

(* What a call of each kind was asked. *)
LEMMA AskedFor ==
    ASSUME NEW op \in Web!Ops
    PROVE  /\ op.what \in {"save", "patch", "rename", "delete"} /\ op.order \in Orders
           /\ op.what = "save" => op.row \in Web!Store!Rows
           /\ op.what = "patch" => op.fields \in SUBSET Fields /\ op.fields # {}
           /\ op.what = "rename" => op.new \in Orders
  <1>1. CASE op \in [what : {"save"}, row : Web!Store!Rows, order : Orders]
    BY <1>1
  <1>2. CASE op \in [what : {"patch"}, order : Orders, fields : (SUBSET Fields) \ {{}}]
    <2>1. op.what = "patch" /\ op.order \in Orders /\ op.fields \in (SUBSET Fields) \ {{}}
      BY <1>2
    <2>2. op.fields \in SUBSET Fields /\ op.fields # {}
      BY <2>1
    <2>. QED BY <2>1, <2>2
  <1>3. CASE op \in [what : {"rename"}, order : Orders, new : Orders]
    BY <1>3
  <1>4. CASE op \in [what : {"delete"}, order : Orders]
    BY <1>4
  <1>. QED BY <1>1, <1>2, <1>3, <1>4 DEF Web!Ops

LEMMA PatchedIsRow ==
    ASSUME NEW c \in Calls, NEW row \in Web!Store!Row, NEW op \in Web!Ops, op.what \in {"patch", "rename"}
    PROVE  Web!patched(c, row, op) \in Web!Store!Row
  <1>1. row.order \in Orders /\ row.doc \in Web!Store!Docs /\ row = [order |-> row.order, doc |-> row.doc]
    BY DEF Web!Store!Row
  <1>2. CASE op.what = "patch"
    <2>1. Web!patched(c, row, op) = [row EXCEPT !.doc = Web!Store!changed(row.doc, [f \in op.fields |-> c])]
      BY <1>2 DEF Web!patched
    <2>2. Web!Store!changed(row.doc, [f \in op.fields |-> c]) \in Web!Store!Docs
      BY <1>1, <1>2, AskedFor, ChangedIsDoc
    <2>. QED BY <1>1, <2>1, <2>2 DEF Web!Store!Row
  <1>3. CASE op.what = "rename"
    <2>1. Web!patched(c, row, op) = [row EXCEPT !.order = op.new]
      BY <1>3 DEF Web!patched
    <2>. QED BY <1>1, <1>3, <2>1, AskedFor DEF Web!Store!Row
  <1>. QED BY <1>2, <1>3

(* A step of one call leaves the others where they are: what another one    *)
(* read and will write back is still there.                                 *)
LEMMA CallKeepsWeb ==
    ASSUME WebInv, NEW c \in Calls, Others(c), LockMove(c), call'[c] \in CallRecords, gone' \subseteq Calls,
           DOMAIN trades' \subseteq Web!Store!Rows, trades' \in [DOMAIN trades' -> Web!Store!Row],
           trades' = trades \/ call[c].pc \in {"in", "write"},
           ReadStands(c)'
    PROVE  WebInv'
  <1>1. call \in [Calls -> CallRecords] /\ \A d \in Calls : d # c => call'[d] = call[d]
    BY DEF WebInv, WebTypes, Others
  <1>2. call' \in [Calls -> CallRecords] /\ managed' \in BOOLEAN
    BY <1>1 DEF Others, WebInv, WebTypes
  <1>3. LocksHeld' /\ WebTypes'
    BY <1>2, LocksStay DEF WebInv, WebTypes
  <1>4. ASSUME NEW d \in Calls, d # c PROVE ReadStands(d)'
    <2>1. CASE trades' = trades
      BY <1>1, <1>4, <2>1 DEF WebInv, ReadStands
    <2>2. CASE trades' # trades
      <3>1. call[d].pc # "write"
        BY <1>4, <2>2, InsideAlone DEF WebInv
      <3>. QED BY <1>1, <1>4, <3>1 DEF WebInv, ReadStands
    <2>. QED BY <2>1, <2>2
  <1>. QED BY <1>3, <1>4 DEF WebInv

LEMMA WebStutter == WebInv /\ UNCHANGED WebVars => WebInv'
  <1>. SUFFICES ASSUME WebInv, UNCHANGED WebVars PROVE WebInv'
    OBVIOUS
  <1>1. UNCHANGED <<trades, managed, call, web_local, origin, gone>>
    BY DEF WebVars
  <1>2. WebTypes'
    BY <1>1 DEF WebInv, WebTypes
  <1>3. LocksHeld'
    BY <1>1, TabStays DEF WebInv, LocksHeld
  <1>4. \A c \in Calls : ReadStands(c)'
    BY <1>1 DEF WebInv, ReadStands
  <1>. QED BY <1>2, <1>3, <1>4 DEF WebInv

LEMMA WebStart == Web!Init => WebInv
  <1>. SUFFICES ASSUME Web!Init PROVE WebInv
    OBVIOUS
  <1>1. PICK S \in SUBSET Web!Store!Rows : trades \in [S -> [order : Orders, doc : Web!Store!Saved]]
    BY DEF Web!Init, Web!Store!Init
  <1>2. [order : Orders, doc : Web!Store!Saved] \subseteq Web!Store!Row
    <2>1. Web!Store!Saved \subseteq Web!Store!Docs
      BY DEF Web!Store!Saved, Web!Store!Docs
    <2>. QED BY <2>1 DEF Web!Store!Row
  <1>3. DOMAIN trades = S /\ trades \in [S -> Web!Store!Row]
    BY <1>1, <1>2
  <1>4. /\ managed \in BOOLEAN /\ call = [c \in Calls |-> Web!Fresh]
        /\ web_local = [t \in Web!Tabs |-> 0] /\ origin = 0 /\ gone = {}
    BY DEF Web!Init
  <1>5. Web!Fresh \in CallRecords /\ Web!Fresh.pc = "idle"
    <2>1. 0 \in 0 .. MaxRows
      BY StoreAssumption
    <2>. QED BY <2>1 DEF CallRecords, Web!Fresh
  <1>6. WebTypes
    BY <1>3, <1>4, <1>5 DEF WebTypes
  <1>7. LocksHeld
    BY <1>4, <1>5, TabStays, StoreAssumption DEF LocksHeld
  <1>. QED BY <1>4, <1>5, <1>6, <1>7 DEF WebInv, ReadStands

LEMMA CallFields ==
    ASSUME WebInv, NEW c \in Calls
    PROVE  /\ call \in [Calls -> CallRecords] /\ call[c] \in CallRecords
           /\ call[c].pc \in {"idle", "local", "origin", "in", "write", "done", "dropped"}
           /\ call[c].op \in Web!Ops \cup {Web!NoOp} /\ call[c].row \in 0 .. MaxRows
           /\ call[c].doc \in Web!Store!Row \cup {Web!NoOp} /\ call[c].todo \in SUBSET Web!Store!Rows
           /\ gone \subseteq Calls /\ managed \in BOOLEAN /\ ReadStands(c)
  BY DEF WebInv, WebTypes, CallRecords

(* Steps that leave the table alone and keep what the call has in hand. *)
LEMMA GoesKeepsWeb ==
    ASSUME WebInv, NEW c \in Calls, NEW to, Web!goes(c, to),
           to \in {"origin", "in", "done", "dropped"}, to \in {"origin", "in"} => call[c].pc \in {"local", "origin"},
           managed' = managed, trades' = trades, gone' \subseteq Calls, LockMove(c)
    PROVE  WebInv'
  <1>1. call' = [call EXCEPT ![c].pc = to]
    BY DEF Web!goes
  <1>2. /\ call'[c].pc = to /\ call'[c].op = call[c].op /\ call'[c] \in CallRecords
        /\ call' = [call EXCEPT ![c] = call'[c]]
    BY <1>1, CallFields DEF CallRecords
  <1>3. ReadStands(c)'
    BY <1>2, CallFields DEF ReadStands
  <1>. QED BY <1>2, <1>3, CallKeepsWeb DEF Others, WebInv, WebTypes

LEMMA LocksKeepWeb ==
    ASSUME WebInv, NEW c \in Calls,
           \/ \E op \in Web!Ops : Web!begin(c, op)
           \/ Web!exclusive(c) \/ Web!acquire(c) \/ Web!fails(c) \/ Web!drop_call(c)
    PROVE  WebInv'
  <1>1. CASE \E op \in Web!Ops : Web!begin(c, op)
    <2>1. PICK op \in Web!Ops : Web!begin(c, op)
      BY <1>1
    <2>2. /\ call[c].pc = "idle" /\ call' = [call EXCEPT ![c].pc = "local", ![c].op = op]
          /\ UNCHANGED <<trades, managed, web_local, origin, gone>>
      BY <2>1 DEF Web!begin
    <2>3. /\ call'[c].pc = "local" /\ call'[c].op = op /\ call'[c] \in CallRecords
          /\ call' = [call EXCEPT ![c] = call'[c]]
      BY <2>2, CallFields DEF CallRecords
    <2>4. ReadStands(c)'
      BY <2>3 DEF ReadStands
    <2>. QED BY <2>2, <2>3, <2>4, CallKeepsWeb DEF Others, LockMove, WebInv, WebTypes
  <1>2. CASE Web!exclusive(c)
    <2>1. LockMove(c)
      <3>1. call'[c].pc = IF managed THEN "origin" ELSE "in"
        BY <1>2, CallFields DEF Web!exclusive, Web!goes, CallRecords
      <3>. QED BY <1>2, <3>1 DEF Web!exclusive, LockMove
    <2>2. CASE managed
      BY <1>2, <2>1, <2>2, GoesKeepsWeb, CallFields DEF Web!exclusive
    <2>3. CASE ~managed
      BY <1>2, <2>1, <2>3, GoesKeepsWeb, CallFields DEF Web!exclusive
    <2>. QED BY <2>2, <2>3
  <1>3. CASE Web!acquire(c)
    <2>1. CASE call[c].pc = "origin" /\ origin' = c /\ Web!goes(c, "in") /\ UNCHANGED gone
      <3>1. call'[c].pc = "in"
        BY <2>1, CallFields DEF Web!goes, CallRecords
      <3>2. LockMove(c)
        BY <1>3, <2>1, <3>1 DEF Web!acquire, LockMove
      <3>. QED BY <1>3, <2>1, <3>2, GoesKeepsWeb, CallFields DEF Web!acquire
    <2>2. CASE c \in gone /\ gone' = gone \ {c} /\ UNCHANGED <<origin, call>>
      <3>1. UNCHANGED <<trades, managed, call, web_local, origin>> /\ gone' \subseteq Calls
        BY <1>3, <2>2, CallFields DEF Web!acquire
      <3>2. WebTypes'
        BY <3>1 DEF WebInv, WebTypes
      <3>3. LocksHeld'
        BY <3>1, TabStays DEF WebInv, LocksHeld
      <3>4. \A d \in Calls : ReadStands(d)'
        BY <3>1 DEF WebInv, ReadStands
      <3>. QED BY <3>2, <3>3, <3>4 DEF WebInv
    <2>. QED BY <1>3, <2>1, <2>2 DEF Web!acquire
  <1>4. CASE Web!fails(c)
    <2>1. call'[c].pc = "done"
      BY <1>4, CallFields DEF Web!fails, Web!goes, CallRecords
    <2>2. LockMove(c)
      BY <1>4, <2>1 DEF Web!fails, LockMove
    <2>. QED BY <1>4, <2>2, GoesKeepsWeb, CallFields DEF Web!fails
  <1>5. CASE Web!drop_call(c)
    <2>1. call'[c].pc = "dropped"
      BY <1>5, CallFields DEF Web!drop_call, Web!goes, CallRecords
    <2>2. LockMove(c)
      BY <1>5, <2>1 DEF Web!drop_call, LockMove
    <2>. QED BY <1>5, <2>2, GoesKeepsWeb, CallFields DEF Web!drop_call
  <1>. QED BY <1>1, <1>2, <1>3, <1>4, <1>5

LEMMA ReadKeepsWeb == ASSUME WebInv, NEW c \in Calls, Web!trade_documents(c) PROVE WebInv'
  <1>. DEFINE op == call[c].op
              found == Web!Store!RowsOf(trades, op.order)
  <1>1. /\ call[c].pc = "in" /\ op.what # "save" /\ op \in Web!Ops
        /\ UNCHANGED <<trades, managed, gone>>
    BY CallFields DEF Web!trade_documents, ReadStands
  <1>2. CASE found = {}
    <2>1. Web!goes(c, "done") /\ Web!release(c)
      BY <1>2 DEF Web!trade_documents
    <2>2. call'[c].pc = "done"
      BY <2>1, CallFields DEF Web!goes, CallRecords
    <2>3. LockMove(c)
      BY <1>1, <2>1, <2>2 DEF LockMove
    <2>. QED BY <1>1, <2>1, <2>3, GoesKeepsWeb, CallFields
  <1>3. CASE found # {}
    <2>. DEFINE doc == IF op.what = "delete" THEN Web!NoOp ELSE Web!patched(c, trades[Web!Max(found)], op)
    <2>1. /\ call' = [call EXCEPT ![c].pc = "write", ![c].todo = found, ![c].row = Web!Max(found), ![c].doc = doc]
          /\ UNCHANGED <<web_local, origin>>
      BY <1>3 DEF Web!trade_documents
    <2>2. /\ found \in SUBSET Web!Store!Rows /\ Web!Max(found) \in found
          /\ Web!Store!Newest(trades, op.order) = Web!Max(found)
      BY <1>3, DocsTyped, NewestRow DEF WebInv, Web!Store!Newest
    <2>3. Web!Max(found) \in 0 .. MaxRows /\ trades[Web!Max(found)] \in Web!Store!Row
      BY <2>2, DocsTyped, StoreAssumption DEF WebInv, Web!Store!Rows
    <2>4. doc \in Web!Store!Row \cup {Web!NoOp}
      BY <1>1, <2>3, AskedFor, PatchedIsRow
    <2>. HIDE DEF found, doc
    <2>5. /\ call'[c].pc = "write" /\ call'[c].op = op /\ call'[c].todo = found
          /\ call'[c].row = Web!Max(found) /\ call'[c].doc = doc
          /\ call'[c] \in CallRecords /\ call' = [call EXCEPT ![c] = call'[c]]
      BY <2>1, <2>2, <2>3, <2>4, CallFields DEF CallRecords
    <2>6. ReadStands(c)'
      BY <1>1, <1>3, <2>2, <2>5 DEF ReadStands, found, doc
    <2>. QED BY <1>1, <2>1, <2>5, <2>6, CallKeepsWeb DEF Others, LockMove, WebInv, WebTypes
  <1>. QED BY <1>2, <1>3

LEMMA WriteKeepsWeb ==
    ASSUME WebInv, NEW c \in Calls,
           Web!patch_trade_by_order_id(c) \/ Web!save_trade(c) \/ Web!delete_trade_by_order_id(c)
    PROVE  WebInv'
  <1>. DEFINE op == call[c].op
  <1>1. CASE Web!patch_trade_by_order_id(c) \/ Web!save_trade(c)
    <2>1. /\ call[c].pc \in {"in", "write"} /\ Web!goes(c, "done") /\ Web!release(c)
          /\ UNCHANGED <<managed, gone>>
      BY <1>1 DEF Web!patch_trade_by_order_id, Web!save_trade
    <2>2. \E r \in Web!Store!Rows, row \in Web!Store!Row :
            trades' = [x \in DOMAIN trades \cup {r} |-> IF x = r THEN row ELSE trades[x]]
      <3>1. CASE Web!patch_trade_by_order_id(c)
        <4>1. /\ call[c].pc = "write" /\ op.what \in {"patch", "rename"}
              /\ trades' = [x \in DOMAIN trades \cup {call[c].row} |-> IF x = call[c].row THEN call[c].doc ELSE trades[x]]
          BY <3>1 DEF Web!patch_trade_by_order_id, Web!Store!save_trade
        <4>2. /\ call[c].row \in Web!Store!RowsOf(trades, op.order)
              /\ call[c].doc = Web!patched(c, trades[call[c].row], op) /\ op \in Web!Ops
          BY <4>1, CallFields DEF ReadStands
        <4>3. call[c].row \in Web!Store!Rows /\ call[c].doc \in Web!Store!Row
          BY <4>1, <4>2, DocsTyped, PatchedIsRow DEF WebInv
        <4>. QED BY <4>1, <4>3
      <3>2. CASE Web!save_trade(c)
        <4>. DEFINE row == [order |-> op.order, doc |-> [f \in Fields |-> c]]
        <4>1. /\ call[c].pc = "in" /\ op.what = "save" /\ op \in Web!Ops
              /\ trades' = [x \in DOMAIN trades \cup {op.row} |-> IF x = op.row THEN row ELSE trades[x]]
          BY <3>2, CallFields DEF Web!save_trade, Web!Store!save_trade, ReadStands
        <4>2. row \in Web!Store!Row
          <5>1. [f \in Fields |-> c] \in Web!Store!Docs /\ op.order \in Orders
            BY <4>1, AskedFor DEF Web!Store!Docs
          <5>. QED BY <5>1 DEF Web!Store!Row
        <4>3. op.row \in Web!Store!Rows
          BY <4>1, AskedFor
        <4>. QED BY <4>1, <4>2, <4>3
      <3>. QED BY <1>1, <3>1, <3>2
    <2>3. DOMAIN trades' \subseteq Web!Store!Rows /\ trades' \in [DOMAIN trades' -> Web!Store!Row]
      <3>1. PICK r \in Web!Store!Rows, row \in Web!Store!Row :
              trades' = [x \in DOMAIN trades \cup {r} |-> IF x = r THEN row ELSE trades[x]]
        BY <2>2
      <3>2. DOMAIN trades' = DOMAIN trades \cup {r}
            /\ \A x \in DOMAIN trades' : trades'[x] \in Web!Store!Row
        BY <3>1 DEF WebInv, WebTypes
      <3>. QED BY <3>1, <3>2 DEF WebInv, WebTypes
    <2>4. /\ call'[c].pc = "done" /\ call'[c] \in CallRecords
          /\ call' = [call EXCEPT ![c] = call'[c]]
      BY <2>1, CallFields DEF CallRecords, Web!goes
    <2>5. ReadStands(c)'
      BY <2>4 DEF ReadStands
    <2>. QED BY <2>1, <2>3, <2>4, <2>5, CallKeepsWeb DEF Others, LockMove, WebInv, WebTypes
  <1>2. CASE Web!delete_trade_by_order_id(c)
    <2>. DEFINE T == call[c].todo
                r == Web!Max(T)
    <2>1. /\ call[c].pc = "write" /\ op.what = "delete" /\ r \in DOMAIN trades
          /\ trades' = [x \in DOMAIN trades \ {r} |-> trades[x]]
          /\ UNCHANGED <<managed, gone>>
      BY <1>2 DEF Web!delete_trade_by_order_id, Web!Store!delete_trade_row
    <2>2. /\ T = Web!Store!RowsOf(trades, op.order) /\ T # {} /\ op \in Web!Ops
          /\ T \in SUBSET Web!Store!Rows /\ r \in T
      BY <2>1, CallFields, NewestRow DEF ReadStands
    <2>3. DOMAIN trades' \subseteq Web!Store!Rows /\ trades' \in [DOMAIN trades' -> Web!Store!Row]
      BY <2>1 DEF WebInv, WebTypes
    <2>4. Web!Store!RowsOf(trades', op.order) = T \ {r}
      BY <2>1, <2>2 DEF Web!Store!RowsOf
    <2>. HIDE DEF T, r
    <2>5. CASE T = {r}
      <3>1. call' = [call EXCEPT ![c].pc = "done", ![c].todo = {}] /\ Web!release(c)
        BY <1>2, <2>5 DEF Web!delete_trade_by_order_id, T, r
      <3>2. /\ call'[c].pc = "done" /\ call'[c] \in CallRecords /\ call' = [call EXCEPT ![c] = call'[c]]
        BY <3>1, CallFields DEF CallRecords
      <3>3. ReadStands(c)'
        BY <3>2 DEF ReadStands
      <3>. QED BY <2>1, <2>3, <3>1, <3>2, <3>3, CallKeepsWeb, CallFields DEF Others, LockMove
    <2>6. CASE T # {r}
      <3>1. call' = [call EXCEPT ![c].todo = T \ {r}] /\ UNCHANGED <<web_local, origin>>
        BY <1>2, <2>6, CallFields DEF Web!delete_trade_by_order_id, T, r
      <3>2. /\ call'[c].pc = "write" /\ call'[c].op = op /\ call'[c].todo = T \ {r}
            /\ call'[c] \in CallRecords /\ call' = [call EXCEPT ![c] = call'[c]]
        BY <2>1, <2>2, <3>1, CallFields DEF CallRecords
      <3>3. T \ {r} # {}
        BY <2>2, <2>6
      <3>4. ReadStands(c)'
        BY <2>1, <2>2, <2>4, <3>2, <3>3 DEF ReadStands
      <3>. QED BY <2>1, <2>3, <3>1, <3>2, <3>4, CallKeepsWeb, CallFields DEF Others, LockMove
    <2>. QED BY <2>5, <2>6
  <1>. QED BY <1>1, <1>2

LEMMA WebStep == WebInv /\ Web!Next => WebInv'
  BY LocksKeepWeb, ReadKeepsWeb, WriteKeepsWeb DEF Web!Next, Web!Step

LEMMA WebServes == WebInv => Web!TypeOK /\ Web!LocksOwned
  <1>. SUFFICES ASSUME WebInv PROVE Web!TypeOK /\ Web!LocksOwned
    OBVIOUS
  <1>1. Web!TypeOK
    BY CallFields DEF WebInv, WebTypes, Web!TypeOK, Web!Store!TypeOK
  <1>2. Web!LocksOwned
    <2>1. origin # 0 => call[origin].pc \in {"in", "write"}
      BY DEF WebInv, WebTypes, LocksHeld
    <2>2. ASSUME NEW t \in Web!Tabs, web_local[t] # 0 PROVE call[web_local[t]].pc \in {"origin", "in", "write"}
      BY <2>2 DEF WebInv, WebTypes, LocksHeld
    <2>. QED BY <2>1, <2>2 DEF Web!LocksOwned
  <1>. QED BY <1>1, <1>2

-----------------------------------------------------------------------------
(* The browser's store implements Storage.                                 *)

LEMMA WebImplements ==
    ASSUME WebInv, Web!Next, trades' # trades
    PROVE  Web!Store!Next
  <1>1. PICK c \in Calls : Web!patch_trade_by_order_id(c) \/ Web!save_trade(c) \/ Web!delete_trade_by_order_id(c)
    BY DEF Web!Next, Web!Step, Web!begin, Web!exclusive, Web!acquire, Web!trade_documents, Web!fails, Web!drop_call
  <1>. DEFINE op == call[c].op
  <1>2. CASE Web!save_trade(c)
    <2>1. /\ call[c].pc = "in" /\ op.what = "save" /\ op \in Web!Ops
          /\ Web!Store!save_trade(op.row, [order |-> op.order, doc |-> [f \in Fields |-> c]])
      BY <1>2, CallFields DEF Web!save_trade, ReadStands
    <2>2. op.row \in Web!Store!Rows /\ op.order \in Orders
      BY <2>1, AskedFor
    <2>3. [f \in Fields |-> c] \in Web!Store!Saved
      BY DEF Web!Store!Saved
    <2>4. [order |-> op.order, doc |-> [f \in Fields |-> c]] \in [order : Orders, doc : Web!Store!Saved]
      BY <2>2, <2>3
    <2>. QED BY <2>1, <2>2, <2>4 DEF Web!Store!Next
  <1>3. CASE Web!delete_trade_by_order_id(c)
    <2>1. Web!Store!delete_trade_row(Web!Max(call[c].todo)) /\ Web!Max(call[c].todo) \in DOMAIN trades
      BY <1>3 DEF Web!delete_trade_by_order_id, Web!Store!delete_trade_row
    <2>2. Web!Max(call[c].todo) \in Web!Store!Rows
      BY <2>1, DocsTyped DEF WebInv
    <2>. QED BY <2>1, <2>2 DEF Web!Store!Next
  <1>4. CASE Web!patch_trade_by_order_id(c)
    <2>. DEFINE r == call[c].row
                found == Web!Store!RowsOf(trades, op.order)
    <2>1. /\ call[c].pc = "write" /\ op.what \in {"patch", "rename"} /\ op \in Web!Ops
          /\ trades' = [x \in DOMAIN trades \cup {r} |-> IF x = r THEN call[c].doc ELSE trades[x]]
      BY <1>4, CallFields DEF Web!patch_trade_by_order_id, Web!Store!save_trade, ReadStands
    <2>2. /\ r \in found /\ r = Web!Store!Newest(trades, op.order) /\ r \in DOMAIN trades
          /\ call[c].doc = Web!patched(c, trades[r], op) /\ {r} \in SUBSET found
      BY <2>1, CallFields, DocsTyped DEF ReadStands, WebInv
    <2>. HIDE DEF found
    <2>3. trades' = [x \in DOMAIN trades |-> IF x \in {r} THEN Web!patched(c, trades[x], op) ELSE trades[x]]
      BY <2>1, <2>2
    <2>4. CASE op.what = "patch"
      <3>. DEFINE ch == [f \in op.fields |-> c]
      <3>1. ch \in Web!Store!Patches /\ op.order \in Orders
        BY <2>1, <2>4, AskedFor DEF Web!Store!Patches
      <3>2. \A x : Web!patched(c, trades[x], op) = [trades[x] EXCEPT !.doc = Web!Store!changed(@, ch)]
        BY <2>4 DEF Web!patched
      <3>. HIDE DEF ch
      <3>3. trades' = [x \in DOMAIN trades |->
                         IF x \in {r} THEN [trades[x] EXCEPT !.doc = Web!Store!changed(@, ch)] ELSE trades[x]]
        BY <2>3, <3>2
      <3>4. Web!Store!update_trade_fields(op.order, ch)
        BY <2>2, <3>3 DEF Web!Store!update_trade_fields, found
      <3>. QED BY <3>1, <3>4 DEF Web!Store!Next
    <2>5. CASE op.what = "rename"
      <3>1. op.new \in Orders /\ op.order \in Orders
        BY <2>1, <2>5, AskedFor
      <3>2. \A x : Web!patched(c, trades[x], op) = [trades[x] EXCEPT !.order = op.new]
        BY <2>5 DEF Web!patched
      <3>3. trades' = [x \in DOMAIN trades |->
                         IF x \in {r} THEN [trades[x] EXCEPT !.order = op.new] ELSE trades[x]]
        BY <2>3, <3>2
      <3>4. Web!Store!update_trade_order_id(op.order, op.new)
        BY <2>2, <3>3 DEF Web!Store!update_trade_order_id, found
      <3>. QED BY <3>1, <3>4 DEF Web!Store!Next
    <2>. QED BY <2>1, <2>4, <2>5
  <1>. QED BY <1>1, <1>2, <1>3, <1>4

LEMMA DeletesEvery ==
    ASSUME WebInv, Web!Next, NEW c \in Calls, call[c].op.what = "delete", call[c].pc = "write",
           call'[c].pc = "done", call'[c].todo = {}
    PROVE  Web!Store!RowsOf(trades', call[c].op.order) = {}
  <1>. DEFINE T == call[c].todo
              r == Web!Max(T)
  <1>1. T # {} /\ T = Web!Store!RowsOf(trades, call[c].op.order) /\ T \in SUBSET Web!Store!Rows
    BY CallFields DEF ReadStands
  <1>2. CASE Web!delete_trade_by_order_id(c)
    <2>1. trades' = [x \in DOMAIN trades \ {r} |-> trades[x]]
      BY <1>2 DEF Web!delete_trade_by_order_id, Web!Store!delete_trade_row
    <2>2. T = {r}
      <3>1. ASSUME T # {r} PROVE FALSE
        <4>1. call' = [call EXCEPT ![c].todo = @ \ {r}]
          BY <1>2, <3>1 DEF Web!delete_trade_by_order_id
        <4>. QED BY <4>1, CallFields DEF CallRecords
      <3>. QED BY <3>1
    <2>. QED BY <1>1, <2>1, <2>2 DEF Web!Store!RowsOf
  <1>3. CASE Web!fails(c) \/ Web!drop_call(c)
    <2>1. call'[c].todo = T
      BY <1>3, CallFields DEF Web!fails, Web!drop_call, Web!goes, CallRecords
    <2>. QED BY <1>1, <2>1
  <1>4. CASE \/ \E op \in Web!Ops : Web!begin(c, op)
             \/ Web!exclusive(c) \/ Web!acquire(c) \/ Web!trade_documents(c)
             \/ Web!patch_trade_by_order_id(c) \/ Web!save_trade(c)
    <2>1. Web!acquire(c)
      BY <1>4 DEF Web!begin, Web!exclusive, Web!trade_documents, Web!patch_trade_by_order_id, Web!save_trade
    <2>. QED BY <2>1 DEF Web!acquire
  <1>5. CASE \E d \in Calls \ {c} : (\E op \in Web!Ops : Web!begin(d, op)) \/ Web!Step(d) \/ Web!fails(d) \/ Web!drop_call(d)
    <2>1. call'[c] = call[c]
      BY <1>5, CallFields DEF Web!begin, Web!Step, Web!exclusive, Web!acquire, Web!trade_documents,
         Web!patch_trade_by_order_id, Web!save_trade, Web!delete_trade_by_order_id, Web!fails, Web!drop_call, Web!goes
    <2>. QED BY <2>1
  <1>. QED BY <1>2, <1>3, <1>4, <1>5 DEF Web!Next, Web!Step

LEMMA StoresInvariant == MCSpec => [](WebInv /\ SqlInv)
  <1>1. MCInit => WebInv /\ SqlInv
    BY WebStart, SqlStart DEF MCInit
  <1>2. WebInv /\ SqlInv /\ [MCNext]_MCvars => (WebInv /\ SqlInv)'
    <2>. SUFFICES ASSUME WebInv, SqlInv, [MCNext]_MCvars PROVE WebInv' /\ SqlInv'
      OBVIOUS
    <2>1. Web!Next \/ UNCHANGED WebVars
      BY DEF MCNext, MCvars
    <2>2. Sql!Next \/ UNCHANGED SqlVars
      BY DEF MCNext, MCvars
    <2>. QED BY <2>1, <2>2, WebStep, WebStutter, SqlStep, SqlStutter
  <1>. QED BY <1>1, <1>2, PTL DEF MCSpec

(* No lock of the browser's store is left to a call that failed or was      *)
(* dropped, also in the lock manager's queue (web_lock.rs acquire); every    *)
(* version of the SQLite file opens, one that opened is the current one, no  *)
(* migration that failed halfway loses a message that can be read, and badge *)
(* and chat agree (db/sqlite.rs open_sync, run_migrations,                   *)
(* mark_messages_read): for any number of rows, calls, messages and faults.  *)
THEOREM StoresAreSound == MCSpec => []StoreSound
  <1>1. WebInv /\ SqlInv => StoreSound
    BY WebServes, SqlServes DEF StoreSound
  <1>. QED BY <1>1, StoresInvariant, PTL

(* The browser's store, which reads a document and writes it back in another *)
(* transaction, does what the statements of the trait do in one step: no      *)
(* patch of this or another tab is lost, and a delete that ran to its end     *)
(* left no row of the order (db/indexeddb.rs patch_serial,                    *)
(* delete_trade_by_order_id): for any number of rows, fields and calls.       *)
THEOREM StoreIsImplemented == MCSpec => StoreSteps
  <1>. DEFINE Statement == trades' # trades /\ Web!Store!Next
              Deleted == \A c \in Calls :
                call[c].op.what = "delete" /\ call[c].pc = "write" /\ call'[c].pc = "done" /\ call'[c].todo = {}
                  => Web!Store!RowsOf(trades', call[c].op.order) = {}
  <1>1. MCInit => Web!Store!Init
    BY DEF MCInit, Web!Init
  <1>2. WebInv /\ [MCNext]_MCvars => [Statement]_trades
    <2>. SUFFICES ASSUME WebInv, [MCNext]_MCvars, trades' # trades PROVE Web!Store!Next
      OBVIOUS
    <2>1. Web!Next
      BY DEF MCNext, MCvars, WebVars
    <2>. QED BY <2>1, WebImplements
  <1>3. WebInv /\ [MCNext]_MCvars => [Deleted]_Web!vars
    <2>. SUFFICES ASSUME WebInv, [MCNext]_MCvars, Web!vars' # Web!vars PROVE Deleted
      OBVIOUS
    <2>1. Web!Next
      BY DEF MCNext, MCvars, WebVars, Web!vars
    <2>. QED BY <2>1, DeletesEvery
  <1>4. MCSpec => Web!Store!Init /\ [][Statement]_trades /\ [][Deleted]_Web!vars
    BY <1>1, <1>2, <1>3, StoresInvariant, PTL DEF MCSpec
  <1>. QED BY <1>4 DEF StoreSteps, Web!StoreImplemented, Web!Store!Spec, Web!DeletesAll
=============================================================================
