----------------------- MODULE PendingRequestsProofs -----------------------
(***************************************************************************)
(* Proofs about the registry of pending daemon requests: the types of its  *)
(* state, and the correlation rule (OnlyOwnReply), for every set of keys   *)
(* and attempts, every clock skew and any number of restarts.              *)
(***************************************************************************)
EXTENDS PendingRequests, SequenceTheorems, TLAPS

(* A dispute record's own nonce is an attempt's: it can be superseded. *)
NoncedDispute == \A k \in Keys : pending[k].kind = "Dispute" => pending[k].id \in Attempts

(* A record with a waiter is the record that waiter registered. *)
WaiterOwns ==
    \A k \in Keys : pending[k].tx # NoAttempt =>
        LET a == pending[k].tx IN
        /\ KeyOf[a] = k /\ pending[k].kind = KindOf[a] /\ pending[k].id = request_id(a)
        /\ pending[k].kind = "Restore" => pending[k].sent_at = sentAt[a]
        /\ call[a].pc # "idle"

(* A reply on its way to a waiter belongs to it. *)
SendingOwn == \A s \in sending : call[s.to].pc # "idle" /\ Own(s.to, s.msg)

(* Nothing was sent to a call that has not started. *)
IdleUntouched == \A a \in Attempts : call[a].pc = "idle" => call[a].inbox.reply = "none"

Correlated == WaiterOwns /\ SendingOwn /\ IdleUntouched /\ OnlyOwnReply

-----------------------------------------------------------------------------
(* The sequence operations on the superseded nonces keep their type. *)
LEMMA SupersededTypes ==
    ASSUME NEW S, NEW s \in Seq(S)
    PROVE  /\ \A e \in S : Append(s, e) \in Seq(S)
           /\ \A e : Contains(s, e) => WithoutNonce(s, e) \in Seq(S)
           /\ Len(s) > 0 => /\ s[Len(s)] \in S
                            /\ SubSeq(s, 1, Len(s) - 1) \in Seq(S)
<1>1. Len(s) \in Nat /\ \A i \in 1 .. Len(s) : s[i] \in S
  BY ElementOfSeq, LenProperties
<1>2. \A m, n \in Int : 1 <= m /\ n <= Len(s) => SubSeq(s, m, n) \in Seq(S)
  <2> TAKE m, n \in Int
  <2> HAVE 1 <= m /\ n <= Len(s)
  <2>1. \A i \in m .. n : s[i] \in S
    BY <1>1
  <2> QED
    BY <2>1, SubSeqProperties
<1>3. ASSUME NEW e, Contains(s, e) PROVE WithoutNonce(s, e) \in Seq(S)
  <2> DEFINE j == CHOOSE i \in 1 .. Len(s) : s[i] = e
  <2>1. j \in 1 .. Len(s)
    BY <1>3 DEF Contains
  <2>2. SubSeq(s, 1, j - 1) \in Seq(S) /\ SubSeq(s, j + 1, Len(s)) \in Seq(S)
    <3> HIDE DEF j
    <3> QED
      BY <1>1, <1>2, <2>1
  <2>3. SubSeq(s, 1, j - 1) \o SubSeq(s, j + 1, Len(s)) \in Seq(S)
    BY <2>2, ConcatProperties
  <2> QED
    BY <2>3 DEF WithoutNonce, RemoveAt
<1> QED
  BY <1>1, <1>2, <1>3, AppendProperties

-----------------------------------------------------------------------------
(* What the operations write into a record keeps its type. *)
LEMMA RecordTypes ==
    ASSUME TypeOK, NoncedDispute, NEW a \in Attempts
    PROVE  /\ NewRequest(a) \in Request /\ Detached(a) \in Request /\ RolledBack(a) \in Request
           /\ NewRequest(a).kind = "Dispute" => NewRequest(a).id \in Attempts
           /\ Detached(a).kind = "Dispute" => Detached(a).id \in Attempts
           /\ RolledBack(a).kind = "Dispute" => RolledBack(a).id \in Attempts
<1> DEFINE p == pending[KeyOf[a]]
<1>1. KeyOf[a] \in Keys /\ KindOf[a] \in Kinds /\ clock \in Nat
  BY PendingAssumption DEF TypeOK
<1>2. p \in Request /\ (p.kind = "Dispute" => p.id \in Attempts)
  BY <1>1 DEF TypeOK, NoncedDispute
<1>3. p.superseded \in Seq(Attempts)
  BY <1>2 DEF Request
<1>4. superseded_by(a) \in Seq(Attempts)
  BY <1>2, <1>3, SupersededTypes, EmptySeq DEF superseded_by
<1>5. NewRequest(a) \in Request
  BY <1>1, <1>4 DEF NewRequest, Request, request_id
<1>6. NewRequest(a).kind = "Dispute" => NewRequest(a).id \in Attempts
  BY DEF NewRequest, request_id
<1>7. Detached(a) \in Request /\ (Detached(a).kind = "Dispute" => Detached(a).id \in Attempts)
  BY <1>2 DEF Detached, Request
<1>8. NoRequest \in Request
  BY EmptySeq DEF NoRequest, Request
<1>9. RolledBack(a) \in Request
  <2>1. Len(p.superseded) > 0 => /\ p.superseded[Len(p.superseded)] \in Attempts
                                 /\ SubSeq(p.superseded, 1, Len(p.superseded) - 1) \in Seq(Attempts)
    BY <1>3, SupersededTypes
  <2> QED
    BY <1>2, <1>8, <2>1 DEF RolledBack, Request
<1>10. RolledBack(a).kind = "Dispute" => RolledBack(a).id \in Attempts
  BY <1>2, <1>3, SupersededTypes DEF RolledBack, NoRequest, Request
<1> QED
  BY <1>5, <1>6, <1>7, <1>9, <1>10

TypeInv == TypeOK /\ NoncedDispute

(* Replacing one record by a well-formed one keeps the registry's type. *)
LEMMA RecordReplaced ==
    ASSUME TypeInv, NEW k \in Keys, NEW r \in Request,
           r.kind = "Dispute" => r.id \in Attempts,
           pending' = [pending EXCEPT ![k] = r]
    PROVE  pending' \in [Keys -> Request] /\ NoncedDispute'
BY DEF TypeInv, TypeOK, NoncedDispute

(* A woken waiter is an attempt, and the message sent to it is a reply. *)
LEMMA WokenType ==
    ASSUME TypeInv, NEW m \in net, NEW reply \in Replies
    PROVE  Woken(pending[m.key], m, reply) \subseteq [to : Attempts, msg : Reply]
<1>1. m \in Message /\ pending[m.key] \in Request
  BY DEF TypeInv, TypeOK, Message
<1>2. m.rid \in Attempts \cup {NoAttempt} /\ m.ts \in Int
  BY <1>1 DEF Message
<1>3. [reply |-> reply, rid |-> m.rid, ts |-> m.ts] \in Reply
  BY <1>2 DEF Reply
<1>4. pending[m.key].tx \in Attempts \cup {NoAttempt}
  BY <1>1 DEF Request
<1> QED
  BY <1>3, <1>4 DEF Woken, TypeInv, TypeOK

(* Every step of an API call keeps the types. *)
LEMMA CallStepType ==
    ASSUME TypeInv, NEW a \in Attempts, CallStep(a)
    PROVE  TypeInv'
<1>1. KeyOf[a] \in Keys /\ KindOf[a] \in Kinds
  BY PendingAssumption
<1>2. call[a] \in Call /\ call[a].inbox \in Reply
  BY DEF TypeInv, TypeOK, Call
<1>3. \A pc \in PCs, r \in Results : SetCall(a, pc, r) \in [Attempts -> Call]
  BY DEF TypeInv, TypeOK, SetCall, Call
<1>4. Closed(a) \subseteq Keys
  BY DEF Closed, TypeInv, TypeOK
<1>5. CASE register(a)
  <2>1. pending' \in [Keys -> Request] /\ NoncedDispute'
    BY <1>1, <1>5, RecordTypes, RecordReplaced DEF register, TypeInv
  <2> QED
    BY <1>1, <1>3, <1>5, <2>1 DEF register, TypeInv, TypeOK, wire, effects, env, PCs, Results
<1>6. CASE refuse(a)
  BY <1>3, <1>6 DEF refuse, TypeInv, TypeOK, NoncedDispute, wire, effects, env, PCs, Results
<1>7. CASE publish(a)
  BY <1>3, <1>7 DEF publish, TypeInv, TypeOK, NoncedDispute, wire, effects, env, PCs, Results
<1>8. CASE publish_failed(a)
  <2>1. pending' \in [Keys -> Request] /\ NoncedDispute'
    BY <1>1, <1>8, RecordTypes, RecordReplaced DEF publish_failed, TypeInv
  <2> QED
    BY <1>3, <1>4, <1>8, <2>1 DEF publish_failed, TypeInv, TypeOK, wire, effects, env, PCs, Results
<1>9. CASE receive(a)
  <2>1. call[a].inbox.reply \in Results
    BY <1>2 DEF Reply, Results
  <2>2. call' \in [Attempts -> Call]
    BY <1>3, <1>9, <2>1 DEF receive, PCs
  <2> QED
    BY <1>1, <1>4, <1>9, <2>2 DEF receive, TypeInv, TypeOK, NoncedDispute, wire, effects, env
<1>10. CASE elapse(a)
  BY <1>3, <1>10 DEF elapse, TypeInv, TypeOK, NoncedDispute, wire, effects, env, PCs, Results
<1>11. CASE detach(a)
  <2>1. pending' \in [Keys -> Request] /\ NoncedDispute'
    BY <1>1, <1>11, RecordTypes, RecordReplaced DEF detach, TypeInv
  <2> QED
    BY <1>3, <1>4, <1>11, <2>1 DEF detach, TypeInv, TypeOK, wire, effects, env, PCs, Results
<1> QED
  BY <1>5, <1>6, <1>7, <1>8, <1>9, <1>10, <1>11 DEF CallStep

(* Every dispatched message keeps the types. *)
LEMMA DispatchType ==
    ASSUME TypeInv, NEW m \in net, dispatch(m)
    PROVE  TypeInv'
<1> DEFINE p == pending[m.key]
<1>1. m \in Message /\ m.key \in Keys /\ m.rid \in Attempts \cup {NoAttempt}
  BY DEF TypeInv, TypeOK, Message
<1>2. p \in Request /\ (p.kind = "Dispute" => p.id \in Attempts)
  BY <1>1 DEF TypeInv, TypeOK, NoncedDispute
<1>3. ASSUME Consume(m) PROVE pending' \in [Keys -> Request] /\ NoncedDispute'
  <2>1. NoRequest \in Request /\ NoRequest.kind # "Dispute"
    BY EmptySeq DEF NoRequest, Request
  <2> QED
    BY <1>1, <1>3, <2>1, RecordReplaced DEF Consume
<1>4. ASSUME Answer(m) PROVE answered' \subseteq Attempts
  BY <1>1, <1>4 DEF Answer, TypeInv, TypeOK
<1>5. ASSUME NEW reply \in Replies, sending' = Woken(p, m, reply)
      PROVE  sending' \subseteq [to : Attempts, msg : Reply]
  BY <1>5, WokenType
<1>6. UNCHANGED <<call, net, published, sentAt, opening, clock, restarts>>
  BY DEF dispatch, wire, env
<1> SUFFICES /\ pending' \in [Keys -> Request] /\ NoncedDispute'
             /\ sending' \subseteq [to : Attempts, msg : Reply]
             /\ answered' \subseteq Attempts /\ late' \subseteq Attempts
             /\ bound' \subseteq Keys /\ disputed' \subseteq Keys /\ disputes' \subseteq Keys
  BY <1>6 DEF TypeInv, TypeOK
<1>7. ASSUME p.kind # "None", request_id_matches(p, m.rid) PROVE m.rid \in Attempts
  BY <1>1, <1>2, <1>7, PendingAssumption DEF request_id_matches, Request
<1> USE DEF Replies
<1>8. CASE dispatch_take(m)
  BY <1>3, <1>4, <1>5, <1>8 DEF dispatch_take, TypeInv, TypeOK
<1>9. CASE dispatch_ack(m)
  BY <1>3, <1>4, <1>5, <1>9 DEF dispatch_ack, TypeInv, TypeOK
<1>10. CASE dispatch_older_dispute(m)
  <2>1. Contains(p.superseded, m.rid) /\ p.superseded \in Seq(Attempts)
    BY <1>2, <1>10 DEF dispatch_older_dispute, TakesOlder, Request
  <2>2. m.rid \in Attempts
    BY <2>1, ElementOfSeq DEF Contains
  <2>3. WithoutNonce(p.superseded, m.rid) \in Seq(Attempts)
    BY <2>1, SupersededTypes
  <2>4. [p EXCEPT !.superseded = WithoutNonce(p.superseded, m.rid)] \in Request
    BY <1>2, <2>3 DEF Request
  <2>5. pending' = [pending EXCEPT ![m.key] =
                      [p EXCEPT !.superseded = WithoutNonce(p.superseded, m.rid)]]
    BY <1>10 DEF dispatch_older_dispute
  <2>6. pending' \in [Keys -> Request] /\ NoncedDispute'
    BY <1>1, <1>2, <2>4, <2>5, RecordReplaced DEF Request
  <2> QED
    BY <1>1, <1>4, <1>10, <2>2, <2>6 DEF dispatch_older_dispute, TypeInv, TypeOK
<1>11. CASE dispatch_dispute(m)
  <2>1. m.rid \in Attempts
    BY <1>7, <1>11 DEF dispatch_dispute, TakesDispute
  <2> QED
    BY <1>1, <1>3, <1>4, <1>5, <1>11, <2>1 DEF dispatch_dispute, TypeInv, TypeOK
<1>12. CASE dispatch_new_order(m)
  <2>1. m.rid \in Attempts
    BY <1>7, <1>12 DEF dispatch_new_order, TakesCreate
  <2> QED
    BY <1>1, <1>3, <1>4, <1>5, <1>12, <2>1 DEF dispatch_new_order, TypeInv, TypeOK
<1>13. CASE dispatch_create_bond(m)
  <2>1. m.rid \in Attempts /\ p.kind = "Create"
    BY <1>7, <1>13 DEF dispatch_create_bond, TakesBond
  <2>2. [p EXCEPT !.bond_requested = TRUE, !.tx = NoAttempt] \in Request
    BY <1>2 DEF Request
  <2>3. pending' = [pending EXCEPT ![m.key] = [p EXCEPT !.bond_requested = TRUE, !.tx = NoAttempt]]
    BY <1>1, <1>13 DEF dispatch_create_bond, TypeInv, TypeOK
  <2>4. pending' \in [Keys -> Request] /\ NoncedDispute'
    BY <1>1, <1>2, <2>2, <2>3, RecordReplaced DEF Request
  <2> QED
    BY <1>1, <1>5, <1>13, <2>1, <2>4 DEF dispatch_create_bond, TypeInv, TypeOK
<1>14. CASE dispatch_restore(m)
  BY <1>3, <1>5, <1>14 DEF dispatch_restore, effects, TypeInv, TypeOK
<1>15. CASE dispatch_cant_do(m)
  BY <1>3, <1>5, <1>15 DEF dispatch_cant_do, effects, TypeInv, TypeOK
<1>16. CASE dispatch_unmatched(m)
  BY <1>1, <1>16 DEF dispatch_unmatched, TypeInv, TypeOK, NoncedDispute
<1> QED
  BY <1>8, <1>9, <1>10, <1>11, <1>12, <1>13, <1>14, <1>15, <1>16 DEF dispatch

(* The inductive form of type correctness. *)
LEMMA TypeInvariant == Spec => []TypeInv
<1>1. Init => TypeInv
  <2>1. NoRequest \in Request /\ NoRequest.kind # "Dispute"
    BY EmptySeq DEF NoRequest, Request
  <2>2. NoReply \in Reply
    BY DEF NoReply, Reply
  <2> QED
    BY <2>1, <2>2, PendingAssumption
       DEF Init, TypeInv, TypeOK, NoncedDispute, Call, PCs, Results
<1>2. TypeInv /\ [Next]_vars => TypeInv'
  <2> SUFFICES ASSUME TypeInv, [Next]_vars PROVE TypeInv'
    OBVIOUS
  <2>1. ASSUME NEW a \in Attempts, reach_daemon(a) PROVE TypeInv'
    BY <2>1 DEF reach_daemon, TypeInv, TypeOK, NoncedDispute, effects, env
  <2>2. ASSUME NEW a \in Attempts, daemon_answers(a) PROVE TypeInv'
    <3>1. KeyOf[a] \in Keys /\ KindOf[a] \in Kinds /\ clock \in Int
      BY PendingAssumption DEF TypeInv, TypeOK
    <3>2. PICK action \in AnswersTo(KindOf[a]) :
            net' = net \cup {[key |-> KeyOf[a], action |-> action,
                               rid |-> IF KindOf[a] = "Restore" THEN NoAttempt ELSE a,
                               ts  |-> IF KindOf[a] = "Restore" THEN clock ELSE 0]}
      BY <2>2 DEF daemon_answers
    <3>3. action \in Actions
      BY <3>1 DEF AnswersTo, Actions, Kinds
    <3>4. net' \subseteq Message
      BY <3>1, <3>2, <3>3 DEF Message, TypeInv, TypeOK
    <3> QED
      BY <2>2, <3>4 DEF daemon_answers, TypeInv, TypeOK, NoncedDispute, effects, env
  <2>3. ASSUME NEW s \in sending, send(s) PROVE TypeInv'
    <3>1. s.to \in Attempts /\ s.msg \in Reply
      BY DEF TypeInv, TypeOK
    <3>2. call' \in [Attempts -> Call]
      BY <2>3, <3>1 DEF send, TypeInv, TypeOK, Call
    <3> QED
      BY <2>3, <3>2 DEF send, TypeInv, TypeOK, NoncedDispute, wire, effects, env
  <2>4. ASSUME NEW k \in Keys, purge(k) PROVE TypeInv'
    <3>1. NoRequest \in Request /\ NoRequest.kind # "Dispute"
      BY EmptySeq DEF NoRequest, Request
    <3>2. pending' \in [Keys -> Request] /\ NoncedDispute'
      BY <2>4, <3>1, RecordReplaced DEF purge
    <3> QED
      BY <2>4, <3>2 DEF purge, TypeInv, TypeOK, wire, effects, env
  <2>5. CASE restart
    <3>1. NoRequest \in Request /\ NoRequest.kind # "Dispute" /\ NoReply \in Reply
      BY EmptySeq DEF NoRequest, Request, NoReply, Reply
    <3>2. call' \in [Attempts -> Call]
      BY <2>5, <3>1 DEF restart, TypeInv, TypeOK, Call, PCs
    <3>3. pending' \in [Keys -> Request] /\ NoncedDispute'
      BY <2>5, <3>1 DEF restart, NoncedDispute
    <3>4. /\ sending' = {} /\ opening' = {} /\ restarts' = restarts + 1
          /\ UNCHANGED <<net, published, sentAt, bound, answered, late, disputed, disputes, clock>>
      BY <2>5 DEF restart, wire, effects
    <3> QED
      BY <3>2, <3>3, <3>4 DEF TypeInv, TypeOK
  <2>6. CASE tick
    BY <2>6 DEF tick, TypeInv, TypeOK, NoncedDispute, wire, effects
  <2>7. CASE UNCHANGED vars
    BY <2>7 DEF vars, wire, effects, env, TypeInv, TypeOK, NoncedDispute
  <2> QED
    BY <2>1, <2>2, <2>3, <2>4, <2>5, <2>6, <2>7, CallStepType, DispatchType DEF Next
<1> QED
  BY <1>1, <1>2, PTL DEF Spec

(* Type correctness of the registry, for every instance: the superseded    *)
(* nonces of register_dispute_request and roll_back_dispute_request make   *)
(* NoncedDispute part of the induction.                                    *)
THEOREM TypeCorrect == Spec => []TypeOK
<1>1. TypeInv => TypeOK
  BY DEF TypeInv
<1> QED
  BY <1>1, TypeInvariant, PTL

-----------------------------------------------------------------------------
(* Waking the waiter of a consumed record sends it a reply of its own. *)
LEMMA WokenOwn ==
    ASSUME TypeInv, Correlated, NEW m \in net, NEW reply \in Replies,
           \/ pending[m.key].kind # "Restore" /\ request_id_matches(pending[m.key], m.rid)
           \/ TakesRestore(pending[m.key], m)
    PROVE  \A s \in Woken(pending[m.key], m, reply) : call[s.to].pc # "idle" /\ Own(s.to, s.msg)
<1> DEFINE p == pending[m.key]
           msg == [reply |-> reply, rid |-> m.rid, ts |-> m.ts]
<1>1. m.key \in Keys /\ p \in Request /\ p.tx \in Attempts \cup {NoAttempt}
  BY DEF TypeInv, TypeOK, Message, Request
<1>2. CASE p.tx = NoAttempt
  BY <1>2 DEF Woken, Correlated, SendingOwn
<1>3. CASE p.tx # NoAttempt
  <2> DEFINE a == p.tx
  <2>1. /\ p.kind = KindOf[a] /\ p.id = request_id(a) /\ call[a].pc # "idle"
        /\ p.kind = "Restore" => p.sent_at = sentAt[a]
    BY <1>1, <1>3 DEF Correlated, WaiterOwns
  <2>2. Own(a, msg)
    BY <2>1 DEF Own, request_id, request_id_matches, TakesRestore, Recent
  <2>3. Woken(p, m, reply) = sending \cup {[to |-> a, msg |-> msg]}
    BY <1>3 DEF Woken
  <2> QED
    BY <2>1, <2>2, <2>3 DEF Correlated, SendingOwn
<1> QED
  BY <1>2, <1>3

(* A dispatched message keeps the correlation: a record that stays keeps   *)
(* its waiter or loses it, and only the record's own reply is sent.        *)
LEMMA DispatchCorrelated ==
    ASSUME TypeInv, Correlated, NEW m \in net, dispatch(m)
    PROVE  Correlated'
<1> DEFINE p == pending[m.key]
<1>1. m.key \in Keys /\ m.rid \in Attempts \cup {NoAttempt} /\ p \in Request
  BY DEF TypeInv, TypeOK, Message
<1>2. UNCHANGED <<call, sentAt>>
  BY DEF dispatch
<1>3. IdleUntouched' /\ OnlyOwnReply'
  BY <1>2 DEF Correlated, IdleUntouched, OnlyOwnReply, Own
<1>4. pending \in [Keys -> Request]
  BY DEF TypeInv, TypeOK
<1>5. ASSUME NEW r, pending' = [pending EXCEPT ![m.key] = r],
             \/ r.tx = NoAttempt
             \/ r.tx = p.tx /\ r.id = p.id /\ r.kind = p.kind /\ r.sent_at = p.sent_at
      PROVE  WaiterOwns'
  <2> SUFFICES ASSUME NEW k \in Keys, pending'[k].tx # NoAttempt
               PROVE  LET a == pending'[k].tx IN
                      /\ KeyOf[a] = k /\ pending'[k].kind = KindOf[a]
                      /\ pending'[k].id = request_id(a)
                      /\ pending'[k].kind = "Restore" => pending'[k].sent_at = sentAt[a]
                      /\ call[a].pc # "idle"
    BY <1>2 DEF WaiterOwns, request_id
  <2>1. CASE k # m.key
    BY <1>4, <1>5, <2>1 DEF Correlated, WaiterOwns
  <2>2. CASE k = m.key
    BY <1>1, <1>4, <1>5, <2>2 DEF Correlated, WaiterOwns
  <2> QED
    BY <2>1, <2>2
<1>6. ASSUME Consume(m) PROVE WaiterOwns'
  BY <1>5, <1>6 DEF Consume, NoRequest
<1>7. ASSUME NEW reply \in Replies, sending' \in {sending, Woken(p, m, reply)},
             \/ p.kind # "Restore" /\ request_id_matches(p, m.rid)
             \/ TakesRestore(p, m)
      PROVE  SendingOwn'
  BY <1>2, <1>7, WokenOwn DEF Correlated, SendingOwn, Own
<1> SUFFICES WaiterOwns' /\ SendingOwn'
  BY <1>3 DEF Correlated
<1> USE DEF Replies
<1>8. CASE dispatch_take(m)
  BY <1>6, <1>7, <1>8 DEF dispatch_take, TakesTake
<1>9. CASE dispatch_ack(m)
  BY <1>6, <1>7, <1>9 DEF dispatch_ack, TakesInvoice, TakesClaim
<1>10. CASE dispatch_older_dispute(m)
  <2>1. pending' = [pending EXCEPT ![m.key] =
                      [p EXCEPT !.superseded = WithoutNonce(p.superseded, m.rid)]]
    BY <1>10 DEF dispatch_older_dispute
  <2>2. WaiterOwns'
    BY <1>1, <1>5, <2>1 DEF Request
  <2> QED
    BY <1>2, <1>10, <2>2 DEF dispatch_older_dispute, Correlated, SendingOwn, Own
<1>11. CASE dispatch_dispute(m)
  BY <1>6, <1>7, <1>11 DEF dispatch_dispute, TakesDispute
<1>12. CASE dispatch_new_order(m)
  BY <1>6, <1>7, <1>12 DEF dispatch_new_order, TakesCreate
<1>13. CASE dispatch_create_bond(m)
  <2>1. pending' = [pending EXCEPT ![m.key] = [p EXCEPT !.bond_requested = TRUE, !.tx = NoAttempt]]
    BY <1>1, <1>4, <1>13 DEF dispatch_create_bond
  <2>2. WaiterOwns'
    BY <1>1, <1>5, <2>1 DEF Request
  <2> QED
    BY <1>7, <1>13, <2>2 DEF dispatch_create_bond, TakesBond
<1>14. CASE dispatch_restore(m)
  BY <1>6, <1>7, <1>14 DEF dispatch_restore
<1>15. CASE dispatch_cant_do(m)
  <2>1. request_id_matches(p, m.rid) /\ ~TakesRestore(p, m)
    BY <1>15 DEF dispatch_cant_do, TakesRejected
  <2>2. CASE p.kind # "Restore"
    BY <1>6, <1>7, <1>15, <2>1, <2>2 DEF dispatch_cant_do
  <2>3. CASE p.kind = "Restore"
    (* A waiting restore has id 0, which no message echoes. *)
    <3>1. p.tx = NoAttempt
      BY <1>1, <2>1, <2>3, PendingAssumption
         DEF Correlated, WaiterOwns, request_id, request_id_matches
    <3>2. sending' = sending
      BY <1>15, <3>1 DEF dispatch_cant_do, Woken
    <3> QED
      BY <1>2, <1>6, <1>15, <3>2 DEF dispatch_cant_do, Correlated, SendingOwn, Own
  <2> QED
    BY <2>2, <2>3
<1>16. CASE dispatch_unmatched(m)
  BY <1>2, <1>16 DEF dispatch_unmatched, Correlated, WaiterOwns, SendingOwn, Own, request_id
<1> QED
  BY <1>8, <1>9, <1>10, <1>11, <1>12, <1>13, <1>14, <1>15, <1>16 DEF dispatch

(* The steps of an API call keep the correlation: registering makes the    *)
(* caller the owner of its key's record; detaching and rolling back only   *)
(* take waiters away.                                                      *)
LEMMA CallStepCorrelated ==
    ASSUME TypeInv, Correlated, NEW a \in Attempts, CallStep(a)
    PROVE  Correlated'
<1>1. KeyOf[a] \in Keys /\ KindOf[a] \in Kinds /\ pending \in [Keys -> Request]
      /\ call \in [Attempts -> Call] /\ sending \subseteq [to : Attempts, msg : Reply]
      /\ sentAt \in [Attempts -> Nat] /\ pending[KeyOf[a]] \in Request
  BY PendingAssumption DEF TypeInv, TypeOK
<1>2. ASSUME NEW pc \in PCs \ {"idle"}, NEW result, call' = SetCall(a, pc, result),
             \/ pending' = pending
             \/ \E r : /\ pending' = [pending EXCEPT ![KeyOf[a]] = r]
                       /\ \/ r.tx = NoAttempt
                          \/ r = pending[KeyOf[a]],
             UNCHANGED <<sending, sentAt>>
      PROVE  Correlated'
  <2>1. \A b \in Attempts : /\ call'[b].inbox = call[b].inbox
                            /\ call'[b].pc = "idle" => call[b].pc = "idle"
    BY <1>1, <1>2 DEF SetCall, Call
  <2>2. \A k \in Keys : pending'[k].tx # NoAttempt => pending'[k] = pending[k]
    BY <1>1, <1>2
  <2>3. WaiterOwns'
    <3> SUFFICES ASSUME NEW k \in Keys, pending'[k].tx # NoAttempt
                 PROVE  LET b == pending[k].tx IN
                        /\ KeyOf[b] = k /\ pending[k].kind = KindOf[b]
                        /\ pending[k].id = request_id(b)
                        /\ pending[k].kind = "Restore" => pending[k].sent_at = sentAt[b]
                        /\ call'[b].pc # "idle"
      BY <1>2, <2>2 DEF WaiterOwns, request_id
    <3>1. pending[k].tx \in Attempts
      BY <1>1, <2>2 DEF Request
    <3> QED
      BY <2>1, <2>2, <3>1 DEF Correlated, WaiterOwns
  <2>0. sending' = sending /\ sentAt' = sentAt
    BY <1>2
  <2>4. SendingOwn'
    BY <1>1, <2>0, <2>1 DEF Correlated, SendingOwn, Own
  <2>5. IdleUntouched' /\ OnlyOwnReply'
    BY <2>0, <2>1 DEF Correlated, IdleUntouched, OnlyOwnReply, Own
  <2> QED
    BY <2>3, <2>4, <2>5 DEF Correlated
<1>3. CASE register(a)
  <2>1. call[a].pc = "idle"
    BY <1>3 DEF register, MayStart
  <2>2. \A k \in Keys : pending[k].tx # a
    BY <2>1, PendingAssumption DEF Correlated, WaiterOwns
  <2>3. \A s \in sending : s.to # a
    BY <2>1 DEF Correlated, SendingOwn
  <2>4. \A b \in Attempts : /\ call'[b].inbox = call[b].inbox
                            /\ b # a => call'[b] = call[b] /\ sentAt'[b] = sentAt[b]
                            /\ call'[b].pc = "idle" => call[b].pc = "idle"
    BY <1>1, <1>3 DEF register, SetCall, Call
  <2>5. call'[a].pc = "registered" /\ sentAt'[a] = clock
    BY <1>1, <1>3 DEF register, SetCall, Call
  <2>6. WaiterOwns'
    <3> SUFFICES ASSUME NEW k \in Keys, pending'[k].tx # NoAttempt
                 PROVE  LET b == pending'[k].tx IN
                        /\ KeyOf[b] = k /\ pending'[k].kind = KindOf[b]
                        /\ pending'[k].id = request_id(b)
                        /\ pending'[k].kind = "Restore" => pending'[k].sent_at = sentAt'[b]
                        /\ call'[b].pc # "idle"
      BY DEF WaiterOwns, request_id
    <3>1. CASE k = KeyOf[a]
      <4>1. pending'[k] = NewRequest(a)
        BY <1>1, <1>3, <3>1 DEF register
      <4> QED
        BY <2>5, <3>1, <4>1 DEF NewRequest
    <3>2. CASE k # KeyOf[a]
      <4>1. pending'[k] = pending[k]
        BY <1>1, <1>3, <3>2 DEF register
      <4>2. pending[k].tx \in Attempts \ {a}
        BY <1>1, <2>2, <4>1 DEF Request
      <4> QED
        BY <2>4, <4>1, <4>2 DEF Correlated, WaiterOwns
    <3> QED
      BY <3>1, <3>2
  <2>7. SendingOwn'
    BY <1>1, <1>3, <2>3, <2>4 DEF register, Correlated, SendingOwn, Own
  <2>8. IdleUntouched' /\ OnlyOwnReply'
    BY <2>1, <2>4 DEF Correlated, IdleUntouched, OnlyOwnReply, Own
  <2> QED
    BY <2>6, <2>7, <2>8 DEF Correlated
<1>4. CASE refuse(a)
  BY <1>2, <1>4 DEF refuse, PCs
<1>5. CASE publish(a)
  BY <1>2, <1>5 DEF publish, PCs
<1>6. CASE publish_failed(a)
  <2>1. RolledBack(a).tx = NoAttempt \/ RolledBack(a) = pending[KeyOf[a]]
    BY <1>1 DEF RolledBack, NoRequest, Request
  <2> QED
    BY <1>2, <1>6, <2>1 DEF publish_failed, PCs
<1>7. CASE receive(a)
  BY <1>2, <1>7 DEF receive, PCs
<1>8. CASE elapse(a)
  BY <1>2, <1>8 DEF elapse, PCs
<1>9. CASE detach(a)
  <2>1. Detached(a).tx = NoAttempt \/ Detached(a) = pending[KeyOf[a]]
    BY <1>1 DEF Detached, Request
  <2> QED
    BY <1>2, <1>9, <2>1 DEF detach, PCs
<1> QED
  BY <1>3, <1>4, <1>5, <1>6, <1>7, <1>8, <1>9 DEF CallStep

(* The correlation is an invariant. *)
LEMMA CorrelatedInvariant == Spec => []Correlated
<1>1. Init => Correlated
  BY DEF Init, Correlated, WaiterOwns, SendingOwn, IdleUntouched, OnlyOwnReply, NoRequest, NoReply
<1>2. TypeInv /\ Correlated /\ [Next]_vars => Correlated'
  <2> SUFFICES ASSUME TypeInv, Correlated, [Next]_vars PROVE Correlated'
    OBVIOUS
  <2> USE DEF Correlated, WaiterOwns, SendingOwn, IdleUntouched, OnlyOwnReply, Own, request_id
  <2>1. ASSUME NEW a \in Attempts, reach_daemon(a) \/ daemon_answers(a) PROVE Correlated'
    BY <2>1 DEF reach_daemon, daemon_answers
  <2>2. ASSUME NEW s \in sending, send(s) PROVE Correlated'
    <3>1. s.to \in Attempts /\ call \in [Attempts -> Call]
      BY DEF TypeInv, TypeOK
    <3>2. \A b \in Attempts : call'[b].pc = call[b].pc
      BY <2>2, <3>1 DEF send, Call
    <3>3. \A b \in Attempts : \/ call'[b].inbox = call[b].inbox
                              \/ b = s.to /\ call'[b].inbox = s.msg
      BY <2>2, <3>1 DEF send, Call
    <3>4. UNCHANGED <<pending, sentAt>> /\ sending' \subseteq sending
      BY <2>2 DEF send
    <3>5. WaiterOwns'
      <4>1. \A k \in Keys : pending[k].tx # NoAttempt => pending[k].tx \in Attempts
        BY DEF TypeInv, TypeOK, Request
      <4> QED
        BY <3>2, <3>4, <4>1
    <3>6. SendingOwn'
      BY <3>2, <3>4 DEF TypeInv, TypeOK
    <3>7. IdleUntouched' /\ OnlyOwnReply'
      BY <3>2, <3>3, <3>4
    <3> QED
      BY <3>5, <3>6, <3>7
  <2>3. ASSUME NEW k \in Keys, purge(k) PROVE Correlated'
    <3>1. pending' = [pending EXCEPT ![k] = NoRequest] /\ UNCHANGED <<call, sending, sentAt>>
      BY <2>3 DEF purge
    <3>2. \A j \in Keys : pending'[j].tx # NoAttempt => pending'[j] = pending[j]
      BY <3>1 DEF NoRequest, TypeInv, TypeOK
    <3> QED
      BY <3>1, <3>2
  <2>4. CASE restart
    <3>1. \A k \in Keys : pending'[k].tx = NoAttempt
      BY <2>4 DEF restart, NoRequest
    <3>2. sending' = {}
      BY <2>4 DEF restart
    <3>3. ASSUME NEW a \in Attempts PROVE call'[a].inbox.reply = "none"
      <4>1. call'[a] = IF call[a].pc = "idle" THEN call[a]
                       ELSE [call[a] EXCEPT !.pc = "returned", !.inbox = NoReply]
        BY <2>4 DEF restart
      <4>2. call[a] \in Call
        BY DEF TypeInv, TypeOK
      <4> QED
        BY <4>1, <4>2 DEF NoReply, Call
    <3> QED
      BY <3>1, <3>2, <3>3
  <2>5. CASE tick
    BY <2>5 DEF tick
  <2>6. CASE UNCHANGED vars
    BY <2>6 DEF vars
  <2> QED
    BY <2>1, <2>2, <2>3, <2>4, <2>5, <2>6, CallStepCorrelated, DispatchCorrelated DEF Next
<1> QED
  BY <1>1, <1>2, TypeInvariant, PTL DEF Spec

(* The correlation rule: whatever the relays replay, reorder or duplicate, *)
(* whichever calls overlap on a key, and whenever they time out, fail or   *)
(* are killed, a call only ever receives a reply that echoes its own nonce *)
(* (a restore: one no older than the request, up to the clock skew).       *)
THEOREM OnlyOwnReplies == Spec => []OnlyOwnReply
<1>1. Correlated => OnlyOwnReply
  BY DEF Correlated
<1> QED
  BY <1>1, CorrelatedInvariant, PTL
-----------------------------------------------------------------------------
(* When a call is settled: one reply at most, and no record left for it    *)
(* that a later reply could mistake for a call that gave up.               *)

Flying == {"registered", "waiting", "elapsed"}

GaveUp(c, a) == c[a].result = "noresponse"

(* The nonces of the attempts a dispute record inherited. *)
Older(s) == {s[i] : i \in DOMAIN s}

(* A call has no result before it returns. *)
ResultAtReturn == \A a \in Attempts : call[a].pc # "returned" => call[a].result = "none"

(* What a record says of the attempts it names, by the calls' states c: a  *)
(* dispute's older attempts gave up, and so did the attempt of a record    *)
(* without a waiter, unless a bond reply took the waiter.                  *)
RecordSound(k, r, c) ==
    /\ r.kind \in {"None", "Restore"} => r.id = Zero
    /\ r.kind \notin {"None", "Restore"} =>
         r.id \in Attempts /\ KindOf[r.id] = r.kind /\ KeyOf[r.id] = k
    /\ \A b \in Older(r.superseded) : KindOf[b] = "Dispute" /\ KeyOf[b] = k /\ GaveUp(c, b)
    /\ Older(r.superseded) # {} => r.kind = "Dispute"
    /\ r.tx = NoAttempt /\ r.kind \in {"Create", "Dispute"} =>
         (r.kind = "Create" /\ r.bond_requested) \/ GaveUp(c, r.id)

RecordsSound == \A k \in Keys : RecordSound(k, pending[k], call)

(* While a record holds a call's waiter, the call runs and was sent nothing. *)
WaiterFlies ==
    \A k \in Keys : pending[k].tx # NoAttempt =>
        LET a == pending[k].tx IN
        /\ call[a].pc \in Flying /\ call[a].inbox.reply = "none"
        /\ \A s \in sending : s.to # a

(* A call is sent one reply in its life. *)
OneReply == \A s \in sending : /\ call[s.to].inbox.reply = "none"
                               /\ \A t \in sending : t.to = s.to => t = s

(* PENDING_OPENS admits one open_dispute per trade at a time. *)
OneDisputeFlies ==
    \A a \in Attempts : KindOf[a] = "Dispute" /\ call[a].pc \in Flying =>
        /\ KeyOf[a] \in opening
        /\ \A b \in Attempts :
             KindOf[b] = "Dispute" /\ KeyOf[b] = KeyOf[a] /\ call[b].pc \in Flying => a = b

Settled == /\ ResultAtReturn /\ RecordsSound /\ WaiterFlies /\ OneReply /\ OneDisputeFlies
           /\ LateOnlyAfterTimeout

(* What the sequence operations do to the inherited nonces. *)
LEMMA OlderOf ==
    ASSUME NEW S, NEW s \in Seq(S)
    PROVE  /\ Older(s) \subseteq S /\ Older(<<>>) = {}
           /\ \A e \in S : Older(Append(s, e)) = Older(s) \cup {e}
           /\ \A e : Contains(s, e) => e \in Older(s) /\ Older(WithoutNonce(s, e)) \subseteq Older(s)
           /\ Len(s) > 0 => Older(s) = Older(SubSeq(s, 1, Len(s) - 1)) \cup {s[Len(s)]}
<1>1. Len(s) \in Nat /\ DOMAIN s = 1 .. Len(s) /\ \A i \in 1 .. Len(s) : s[i] \in S
  BY ElementOfSeq, LenProperties
<1>2. Older(s) \subseteq S /\ Older(<<>>) = {}
  BY <1>1 DEF Older
<1>3. ASSUME NEW e \in S PROVE Older(Append(s, e)) = Older(s) \cup {e}
  <2>1. /\ DOMAIN Append(s, e) = 1 .. Len(s) + 1 /\ Append(s, e)[Len(s) + 1] = e
        /\ \A i \in 1 .. Len(s) : Append(s, e)[i] = s[i]
    BY AppendProperties, LenProperties
  <2> QED
    BY <1>1, <2>1 DEF Older
<1>4. \A m, n \in Int : 1 <= m /\ n <= Len(s) =>
        SubSeq(s, m, n) \in Seq(S) /\ Older(SubSeq(s, m, n)) = {s[i] : i \in m .. n}
  <2> TAKE m, n \in Int
  <2> HAVE 1 <= m /\ n <= Len(s)
  <2>1. \A i \in m .. n : s[i] \in S
    BY <1>1
  <2>2. /\ SubSeq(s, m, n) \in Seq(S) /\ Len(SubSeq(s, m, n)) = (IF m <= n THEN n - m + 1 ELSE 0)
        /\ \A i \in 1 .. n - m + 1 : SubSeq(s, m, n)[i] = s[m + i - 1]
    BY <2>1, SubSeqProperties
  <2>3. DOMAIN SubSeq(s, m, n) = 1 .. n - m + 1
    BY <2>2, LenProperties
  <2>4. \A i \in m .. n : i - m + 1 \in 1 .. n - m + 1 /\ s[i] = SubSeq(s, m, n)[i - m + 1]
    BY <2>2
  <2>5. \A i \in 1 .. n - m + 1 : m + i - 1 \in m .. n
    OBVIOUS
  <2> DEFINE t == SubSeq(s, m, n)
  <2>6. \A i \in 1 .. n - m + 1 : t[i] \in {s[q] : q \in m .. n}
    BY <2>2, <2>5
  <2>7. \A i \in m .. n : s[i] \in {t[q] : q \in 1 .. n - m + 1}
    BY <2>4
  <2> HIDE DEF t
  <2>8. {t[q] : q \in 1 .. n - m + 1} = {s[i] : i \in m .. n}
    BY <2>6, <2>7
  <2> QED
    BY <2>2, <2>3, <2>8 DEF Older, t
<1>5. ASSUME NEW e, Contains(s, e)
      PROVE  e \in Older(s) /\ Older(WithoutNonce(s, e)) \subseteq Older(s)
  <2> DEFINE j == CHOOSE i \in 1 .. Len(s) : s[i] = e
             left == SubSeq(s, 1, j - 1)
             right == SubSeq(s, j + 1, Len(s))
  <2>1. j \in 1 .. Len(s) /\ s[j] = e
    BY <1>5 DEF Contains
  <2>2. WithoutNonce(s, e) = left \o right
    BY DEF WithoutNonce, RemoveAt
  <2> HIDE DEF j
  <2>3. left \in Seq(S) /\ right \in Seq(S)
    BY <1>1, <1>4, <2>1
  <2>4. Older(left) \subseteq Older(s) /\ Older(right) \subseteq Older(s)
    <3>1. Older(left) = {s[i] : i \in 1 .. j - 1} /\ Older(right) = {s[i] : i \in j + 1 .. Len(s)}
      BY <1>1, <1>4, <2>1
    <3> QED
      BY <1>1, <2>1, <3>1 DEF Older
  <2> HIDE DEF left, right
  <2>5. Older(left \o right) \subseteq Older(left) \cup Older(right)
    <3>1. /\ Len(left) \in Nat /\ Len(right) \in Nat
          /\ DOMAIN left = 1 .. Len(left) /\ DOMAIN right = 1 .. Len(right)
          /\ DOMAIN (left \o right) = 1 .. Len(left) + Len(right)
      BY <2>3, ConcatProperties, LenProperties
    <3>2. \A i \in 1 .. Len(left) + Len(right) :
            (left \o right)[i] = IF i <= Len(left) THEN left[i] ELSE right[i - Len(left)]
      BY <2>3, ConcatProperties
    <3>3. \A i \in 1 .. Len(left) + Len(right) :
            (i <= Len(left) /\ i \in 1 .. Len(left)) \/ i - Len(left) \in 1 .. Len(right)
      BY <3>1
    <3> QED
      BY <3>1, <3>2, <3>3 DEF Older
  <2> QED
    BY <1>1, <2>1, <2>2, <2>4, <2>5 DEF Older
<1>6. ASSUME Len(s) > 0 PROVE Older(s) = Older(SubSeq(s, 1, Len(s) - 1)) \cup {s[Len(s)]}
  <2>1. Older(SubSeq(s, 1, Len(s) - 1)) = {s[i] : i \in 1 .. Len(s) - 1}
    BY <1>1, <1>4
  <2>2. 1 .. Len(s) = (1 .. Len(s) - 1) \cup {Len(s)}
    BY <1>1, <1>6
  <2> QED
    BY <1>1, <2>1, <2>2 DEF Older
<1> QED
  BY <1>2, <1>3, <1>5, <1>6

(* A record keeps what it says while the attempts that gave up stay so. *)
LEMMA RecordStays ==
    ASSUME NEW k, NEW r \in Request, NEW c, NEW d, RecordSound(k, r, c),
           \A b \in Attempts : GaveUp(c, b) => GaveUp(d, b)
    PROVE  RecordSound(k, r, d)
<1>1. Older(r.superseded) \subseteq Attempts
  BY OlderOf DEF Request
<1>2. r.kind \in {"Create", "Dispute"} => r.id \in Attempts
  BY DEF RecordSound
<1> QED
  BY <1>1, <1>2 DEF RecordSound

(* An absent record names nobody. *)
LEMMA AbsentSound == \A k, c : RecordSound(k, NoRequest, c)
<1>1. Older(NoRequest.superseded) = {}
  BY DEF NoRequest, Older
<1> QED
  BY <1>1 DEF NoRequest, RecordSound

(* A call's step changes no other call, touches no inbox, and only a call  *)
(* that has not returned takes one.                                        *)
LEMMA CallStepFrame ==
    ASSUME TypeInv, ResultAtReturn, NEW a \in Attempts, CallStep(a)
    PROVE  /\ call[a].pc # "returned"
           /\ \A b \in Attempts : call'[b].inbox = call[b].inbox
           /\ \A b \in Attempts \ {a} : call'[b] = call[b]
           /\ \A b \in Attempts : GaveUp(call, b) => GaveUp(call', b)
           /\ ResultAtReturn'
           /\ UNCHANGED <<sending, late>>
<1>1. call \in [Attempts -> Call] /\ call[a] \in Call
  BY DEF TypeInv, TypeOK
<1>2. call[a].pc # "returned" /\ UNCHANGED <<sending, late>>
  BY DEF CallStep, register, refuse, publish, publish_failed, receive, elapse, detach, MayStart,
         effects
<1>3. PICK pc \in PCs, result \in Results :
        call' = SetCall(a, pc, result) /\ (pc # "returned" => result = "none")
  <2>1. call[a].inbox.reply \in Results
    BY <1>1 DEF Call, Reply, Results
  <2> QED
    BY <2>1 DEF CallStep, register, refuse, publish, publish_failed, receive, elapse, detach,
                PCs, Results
<1>4. /\ call' \in [Attempts -> Call] /\ call'[a].inbox = call[a].inbox
      /\ call'[a].pc = pc /\ call'[a].result = result
      /\ \A b \in Attempts \ {a} : call'[b] = call[b]
  BY <1>1, <1>3 DEF SetCall, Call
<1>5. ~GaveUp(call, a)
  BY <1>2 DEF ResultAtReturn, GaveUp
<1>6. \A b \in Attempts : GaveUp(call, b) => GaveUp(call', b)
  BY <1>4, <1>5 DEF GaveUp
<1>7. ResultAtReturn'
  BY <1>3, <1>4 DEF ResultAtReturn
<1> QED
  BY <1>2, <1>4, <1>6, <1>7

(* What the calls' operations write into a record is true of the attempts. *)
LEMMA WrittenSound ==
    ASSUME TypeInv, Correlated, Settled, NEW a \in Attempts
    PROVE  /\ MayStart(a) /\ ~refused(a, {"registered", "waiting"}) =>
                RecordSound(KeyOf[a], NewRequest(a), call)
           /\ RecordSound(KeyOf[a], RolledBack(a), call)
           /\ \A c : /\ \A b \in Attempts : GaveUp(call, b) => GaveUp(c, b)
                     /\ GaveUp(c, a)
                     => RecordSound(KeyOf[a], Detached(a), c)
<1> DEFINE k == KeyOf[a]
           p == pending[k]
<1>1. k \in Keys /\ KindOf[a] \in Kinds /\ p \in Request /\ p.superseded \in Seq(Attempts)
      /\ a # NoAttempt /\ a # Zero
  BY PendingAssumption DEF TypeInv, TypeOK, Request
<1>2. RecordSound(k, p, call)
  BY <1>1 DEF Settled, RecordsSound
<1>3. ASSUME MayStart(a), ~refused(a, {"registered", "waiting"})
      PROVE  RecordSound(k, NewRequest(a), call)
  <2>1. CASE KindOf[a] = "Dispute" /\ p.kind = "Dispute"
    <3>1. k \notin opening
      BY <1>3, <2>1 DEF refused
    <3>2. p.tx = NoAttempt
      <4> SUFFICES ASSUME p.tx # NoAttempt PROVE FALSE
        OBVIOUS
      <4>1. p.tx \in Attempts /\ KeyOf[p.tx] = k /\ KindOf[p.tx] = "Dispute"
        BY <1>1, <2>1 DEF Correlated, WaiterOwns, Request
      <4>2. call[p.tx].pc \in Flying
        BY <1>1 DEF Settled, WaiterFlies
      <4> QED
        BY <3>1, <4>1, <4>2 DEF Settled, OneDisputeFlies
    <3>3. p.id \in Attempts /\ KindOf[p.id] = "Dispute" /\ KeyOf[p.id] = k /\ GaveUp(call, p.id)
      BY <1>2, <2>1, <3>2 DEF RecordSound
    <3>4. Older(superseded_by(a)) = Older(p.superseded) \cup {p.id}
      BY <1>1, <2>1, <3>3, OlderOf DEF superseded_by
    <3> QED
      BY <1>1, <1>2, <2>1, <3>3, <3>4 DEF RecordSound, NewRequest, request_id
  <2>2. CASE ~(KindOf[a] = "Dispute" /\ p.kind = "Dispute")
    <3>1. Older(superseded_by(a)) = {}
      BY <2>2 DEF superseded_by, Older
    <3> QED
      BY <1>1, <3>1 DEF RecordSound, NewRequest, request_id, Kinds
  <2> QED
    BY <2>1, <2>2
<1>4. RecordSound(k, RolledBack(a), call)
  <2>1. CASE ~request_id_matches(p, request_id(a))
    BY <1>2, <2>1 DEF RolledBack
  <2>2. CASE request_id_matches(p, request_id(a)) /\ KindOf[a] = "Dispute" /\ Len(p.superseded) > 0
    <3> DEFINE n == Len(p.superseded)
               rest == SubSeq(p.superseded, 1, n - 1)
               r == [p EXCEPT !.id = p.superseded[n], !.tx = NoAttempt, !.superseded = rest]
    <3>1. RolledBack(a) = r
      BY <2>2 DEF RolledBack
    <3>2. Older(p.superseded) = Older(rest) \cup {p.superseded[n]}
      BY <1>1, <2>2, OlderOf
    <3>3. Older(p.superseded) \subseteq Attempts
      BY <1>1, OlderOf
    <3>4. p.kind = "Dispute"
      BY <1>2, <3>2 DEF RecordSound
    <3>5. r.id = p.superseded[n] /\ r.kind = "Dispute" /\ r.superseded = rest /\ r.tx = NoAttempt
      BY <1>1, <3>4 DEF Request
    <3> HIDE DEF r, rest, n
    <3> QED
      BY <1>2, <3>1, <3>2, <3>3, <3>4, <3>5 DEF RecordSound
  <2>3. CASE request_id_matches(p, request_id(a))
             /\ ~(KindOf[a] = "Dispute" /\ Len(p.superseded) > 0)
    BY <2>3, AbsentSound DEF RolledBack
  <2> QED
    BY <2>1, <2>2, <2>3
<1>5. ASSUME NEW c, \A b \in Attempts : GaveUp(call, b) => GaveUp(c, b), GaveUp(c, a)
      PROVE  RecordSound(k, Detached(a), c)
  <2>1. RecordSound(k, p, c)
    BY <1>1, <1>2, <1>5, RecordStays
  <2>2. CASE ~request_id_matches(p, request_id(a))
    BY <2>1, <2>2 DEF Detached
  <2>3. CASE request_id_matches(p, request_id(a))
    <3>1. Detached(a) = [p EXCEPT !.tx = NoAttempt]
      BY <2>3 DEF Detached
    <3>2. /\ Detached(a).id = p.id /\ Detached(a).kind = p.kind /\ Detached(a).tx = NoAttempt
          /\ Detached(a).superseded = p.superseded /\ Detached(a).bond_requested = p.bond_requested
      BY <1>1, <3>1 DEF Request
    <3>3. p.kind \in {"Create", "Dispute"} => p.id = a
      BY <1>1, <1>2, <2>3, PendingAssumption DEF RecordSound, request_id_matches, request_id
    <3> QED
      BY <1>5, <2>1, <3>2, <3>3 DEF RecordSound
  <2> QED
    BY <2>2, <2>3
<1> QED
  BY <1>3, <1>4, <1>5

(* The steps of an API call keep every other call's settlement, and settle *)
(* the caller's own.                                                       *)
LEMMA CallStepSettled ==
    ASSUME TypeInv, Correlated, Settled, NEW a \in Attempts, CallStep(a)
    PROVE  Settled'
<1> DEFINE k == KeyOf[a]
<1>1. /\ k \in Keys /\ KindOf[a] \in Kinds /\ a # NoAttempt
      /\ pending \in [Keys -> Request] /\ call \in [Attempts -> Call]
      /\ \A s \in sending : s.to \in Attempts
      /\ \A j \in Keys : pending[j].tx # NoAttempt => pending[j].tx \in Attempts
  BY PendingAssumption DEF TypeInv, TypeOK, Request
<1>2. /\ call[a].pc # "returned" /\ ResultAtReturn' /\ sending' = sending /\ late' = late
      /\ \A b \in Attempts : call'[b].inbox = call[b].inbox
      /\ \A b \in Attempts \ {a} : call'[b] = call[b]
      /\ \A b \in Attempts : GaveUp(call, b) => GaveUp(call', b)
  BY CallStepFrame DEF Settled
<1>3. OneReply'
  BY <1>1, <1>2 DEF Settled, OneReply
<1>4. LateOnlyAfterTimeout'
  BY <1>2 DEF Settled, LateOnlyAfterTimeout, GaveUp, TypeInv, TypeOK
<1>5. ASSUME NEW r, pending' = [pending EXCEPT ![k] = r], RecordSound(k, r, call')
      PROVE  RecordsSound'
  <2> SUFFICES ASSUME NEW j \in Keys PROVE RecordSound(j, pending'[j], call')
    BY DEF RecordsSound
  <2>1. CASE j = k
    BY <1>1, <1>5, <2>1
  <2>2. CASE j # k
    <3>1. pending'[j] = pending[j] /\ pending[j] \in Request /\ RecordSound(j, pending[j], call)
      BY <1>1, <1>5, <2>2 DEF Settled, RecordsSound
    <3> QED
      BY <1>2, <3>1, RecordStays
  <2> QED
    BY <2>1, <2>2
<1>6. ASSUME pending' = pending PROVE RecordsSound'
  <2> SUFFICES ASSUME NEW j \in Keys PROVE RecordSound(j, pending[j], call')
    BY <1>6 DEF RecordsSound
  <2>1. pending[j] \in Request /\ RecordSound(j, pending[j], call)
    BY <1>1 DEF Settled, RecordsSound
  <2> QED
    BY <1>2, <2>1, RecordStays
(* No waiter is left behind, unless the record is another call's. *)
<1>7. ASSUME \A j \in Keys : pending'[j].tx # NoAttempt => pending'[j] = pending[j]
                                                           /\ pending[j].tx # a
      PROVE  WaiterFlies'
  BY <1>1, <1>2, <1>7 DEF Settled, WaiterFlies
<1>8. ASSUME call[a].pc \in Flying, call'[a].pc \in Flying, opening' = opening
      PROVE  OneDisputeFlies'
  BY <1>1, <1>2, <1>8 DEF Settled, OneDisputeFlies
<1>9. ASSUME call[a].pc \in Flying, call'[a].pc \notin Flying, opening' = Closed(a)
      PROVE  OneDisputeFlies'
  BY <1>1, <1>2, <1>9 DEF Settled, OneDisputeFlies, Closed
<1>10. \A pc, result : call' = SetCall(a, pc, result) => call'[a].pc = pc /\ call'[a].result = result
  BY <1>1 DEF SetCall, Call
<1>11. \A j \in Keys : pending[j].tx = a => /\ j = k /\ pending[j].id = request_id(a)
                                           /\ pending[j].kind = KindOf[a]
  BY <1>1 DEF Correlated, WaiterOwns
<1>12. request_id_matches(pending[k], request_id(a)) \/ pending[k].tx # a
  BY <1>1, <1>11 DEF request_id_matches, Kinds
<1>13. CASE register(a)
  <2>1. /\ MayStart(a) /\ ~refused(a, {"registered", "waiting"}) /\ call[a].pc = "idle"
        /\ pending' = [pending EXCEPT ![k] = NewRequest(a)] /\ call'[a].pc = "registered"
        /\ opening' = IF KindOf[a] = "Dispute" THEN opening \cup {k} ELSE opening
    BY <1>10, <1>13 DEF register, MayStart
  <2>2. RecordSound(k, NewRequest(a), call)
    BY <2>1, WrittenSound
  <2>3. NewRequest(a) \in Request
    BY RecordTypes DEF TypeInv
  <2>4. RecordsSound'
    BY <1>2, <1>5, <2>1, <2>2, <2>3, RecordStays
  <2>5. WaiterFlies'
    <3> SUFFICES ASSUME NEW j \in Keys, pending'[j].tx # NoAttempt
                 PROVE  LET b == pending'[j].tx IN
                        /\ call'[b].pc \in Flying /\ call'[b].inbox.reply = "none"
                        /\ \A s \in sending' : s.to # b
      BY DEF WaiterFlies
    <3>1. CASE j = k
      <4>1. pending'[j].tx = a
        BY <1>1, <2>1, <3>1 DEF NewRequest
      <4>2. call[a].inbox.reply = "none" /\ \A s \in sending : s.to # a
        BY <2>1 DEF Correlated, IdleUntouched, SendingOwn
      <4> QED
        BY <1>2, <2>1, <4>1, <4>2 DEF Flying
    <3>2. CASE j # k
      <4>1. pending'[j] = pending[j] /\ pending[j].tx \in Attempts \ {a}
        BY <1>1, <1>11, <2>1, <3>2
      <4> QED
        BY <1>1, <1>2, <4>1 DEF Settled, WaiterFlies
    <3> QED
      BY <3>1, <3>2
  <2>6. OneDisputeFlies'
    BY <1>1, <1>2, <2>1 DEF Settled, OneDisputeFlies, refused, Flying
  <2> QED
    BY <1>2, <1>3, <1>4, <2>4, <2>5, <2>6 DEF Settled
<1>14. CASE refuse(a)
  <2>1. /\ call[a].pc = "idle" /\ call'[a].pc = "returned"
        /\ pending' = pending /\ opening' = opening
    BY <1>10, <1>14 DEF refuse, MayStart
  <2>2. \A j \in Keys : pending[j].tx # a
    BY <1>1, <2>1 DEF Settled, WaiterFlies, Flying
  <2>3. OneDisputeFlies'
    BY <1>1, <1>2, <2>1 DEF Settled, OneDisputeFlies, Flying
  <2> QED
    BY <1>2, <1>3, <1>4, <1>6, <1>7, <2>1, <2>2, <2>3 DEF Settled
<1>15. CASE publish(a) \/ elapse(a)
  <2>1. /\ call[a].pc \in Flying /\ call'[a].pc \in Flying
        /\ pending' = pending /\ opening' = opening
    BY <1>10, <1>15 DEF publish, elapse, Flying
  <2>2. WaiterFlies'
    BY <1>1, <1>2, <2>1 DEF Settled, WaiterFlies
  <2> QED
    BY <1>2, <1>3, <1>4, <1>6, <1>8, <2>1, <2>2 DEF Settled
<1>16. CASE publish_failed(a) \/ detach(a)
  <2>1. /\ call[a].pc \in Flying /\ call'[a].pc = "returned" /\ opening' = Closed(a)
    BY <1>10, <1>16 DEF publish_failed, detach, Flying
  <2>2. OneDisputeFlies'
    BY <1>9, <2>1 DEF Flying
  <2>3. PICK r \in Request : /\ pending' = [pending EXCEPT ![k] = r] /\ RecordSound(k, r, call')
                             /\ r.tx # NoAttempt => r = pending[k] /\ r.tx # a
    <3>1. CASE publish_failed(a)
      <4>1. RolledBack(a) \in Request
        BY RecordTypes DEF TypeInv
      <4>2. RecordSound(k, RolledBack(a), call')
        BY <1>2, <4>1, RecordStays, WrittenSound
      <4>3. RolledBack(a).tx # NoAttempt => RolledBack(a) = pending[k] /\ RolledBack(a).tx # a
        BY <1>1, <1>12 DEF RolledBack, NoRequest, Request
      <4> QED
        BY <3>1, <4>1, <4>2, <4>3 DEF publish_failed
    <3>2. CASE detach(a)
      <4>1. Detached(a) \in Request
        BY RecordTypes DEF TypeInv
      <4>2. GaveUp(call', a)
        BY <1>10, <3>2 DEF detach, GaveUp
      <4>3. RecordSound(k, Detached(a), call')
        BY <1>2, <4>2, WrittenSound
      <4>4. Detached(a).tx # NoAttempt => Detached(a) = pending[k] /\ Detached(a).tx # a
        BY <1>1, <1>12 DEF Detached, Request
      <4> QED
        BY <3>2, <4>1, <4>3, <4>4 DEF detach
    <3> QED
      BY <1>16, <3>1, <3>2
  <2>4. RecordsSound'
    BY <1>5, <2>3
  <2>5. \A j \in Keys : pending'[j].tx # NoAttempt => pending'[j] = pending[j] /\ pending[j].tx # a
    BY <1>1, <1>11, <2>3
  <2> QED
    BY <1>2, <1>3, <1>4, <1>7, <2>2, <2>4, <2>5 DEF Settled
<1>17. CASE receive(a)
  <2>1. /\ call[a].pc \in Flying /\ call'[a].pc = "returned" /\ opening' = Closed(a)
        /\ call[a].inbox.reply # "none" /\ pending' = pending
    BY <1>10, <1>17 DEF receive, Flying
  <2>2. \A j \in Keys : pending[j].tx # a
    BY <1>1, <2>1 DEF Settled, WaiterFlies
  <2>3. OneDisputeFlies'
    BY <1>9, <2>1 DEF Flying
  <2> QED
    BY <1>2, <1>3, <1>4, <1>6, <1>7, <2>1, <2>2, <2>3 DEF Settled
<1> QED
  BY <1>13, <1>14, <1>15, <1>16, <1>17 DEF CallStep

(* A dispatched message: the record it consumes is gone, or has no waiter  *)
(* any more, before its waiter is sent the reply.                          *)
LEMMA DispatchSettled ==
    ASSUME TypeInv, Correlated, Settled, NEW m \in net, dispatch(m)
    PROVE  Settled'
<1> DEFINE p == pending[m.key]
<1>1. /\ m.key \in Keys /\ m.rid \in Attempts \cup {NoAttempt}
      /\ p \in Request /\ p.superseded \in Seq(Attempts)
      /\ pending \in [Keys -> Request] /\ call \in [Attempts -> Call]
      /\ \A s \in sending : s.to \in Attempts
      /\ \A j \in Keys : pending[j].tx # NoAttempt => pending[j].tx \in Attempts
  BY DEF TypeInv, TypeOK, Message, Request
<1>2. UNCHANGED <<call, opening>>
  BY DEF dispatch
<1>3. ResultAtReturn' /\ OneDisputeFlies'
  BY <1>2 DEF Settled, ResultAtReturn, OneDisputeFlies
<1>4. RecordSound(m.key, p, call)
  BY <1>1 DEF Settled, RecordsSound
<1>5. \A j \in Keys : pending[j].tx # NoAttempt /\ pending[j].tx = p.tx => j = m.key
  BY <1>1 DEF Correlated, WaiterOwns
<1>6. ASSUME NEW r, pending' = [pending EXCEPT ![m.key] = r], RecordSound(m.key, r, call)
      PROVE  RecordsSound'
  <2> SUFFICES ASSUME NEW j \in Keys PROVE RecordSound(j, pending'[j], call)
    BY <1>2 DEF RecordsSound
  <2> QED
    BY <1>1, <1>6 DEF Settled, RecordsSound
<1>7. ASSUME NEW r, pending' = [pending EXCEPT ![m.key] = r],
             \/ r.tx = NoAttempt /\ (sending' = sending \/ \E reply : sending' = Woken(p, m, reply))
             \/ r.tx = p.tx /\ sending' = sending
      PROVE  WaiterFlies' /\ OneReply'
  <2>1. \A j \in Keys : j # m.key => pending'[j] = pending[j]
    BY <1>1, <1>7
  <2>2. pending'[m.key] = r
    BY <1>1, <1>7
  <2>3. CASE sending' = sending
    <3>1. OneReply'
      BY <1>2, <2>3 DEF Settled, OneReply
    <3>2. WaiterFlies'
      BY <1>1, <1>2, <1>7, <2>1, <2>2, <2>3 DEF Settled, WaiterFlies
    <3> QED
      BY <3>1, <3>2
  <2>4. CASE sending' # sending
    <3>1. PICK reply : sending' = Woken(p, m, reply)
      BY <1>7, <2>4
    <3>2. p.tx # NoAttempt /\ r.tx = NoAttempt
      BY <1>7, <2>4, <3>1 DEF Woken
    <3> DEFINE new == [to |-> p.tx, msg |-> [reply |-> reply, rid |-> m.rid, ts |-> m.ts]]
    <3>3. sending' = sending \cup {new} /\ new.to = p.tx
      BY <3>1, <3>2 DEF Woken
    <3> HIDE DEF new
    <3>4. call[p.tx].inbox.reply = "none" /\ \A s \in sending : s.to # p.tx
      BY <1>1, <3>2 DEF Settled, WaiterFlies
    <3>5. OneReply'
      BY <1>2, <3>3, <3>4 DEF Settled, OneReply
    <3>6. WaiterFlies'
      BY <1>1, <1>2, <1>5, <2>1, <2>2, <3>2, <3>3 DEF Settled, WaiterFlies
    <3> QED
      BY <3>5, <3>6
  <2> QED
    BY <2>3, <2>4
<1>8. ASSUME late' \in {late, late \cup {m.rid}},
             late' # late => m.rid \in Attempts /\ GaveUp(call, m.rid)
      PROVE  LateOnlyAfterTimeout'
  BY <1>2, <1>8 DEF Settled, LateOnlyAfterTimeout, GaveUp
<1>9. ASSUME Consume(m), sending' = sending \/ \E reply : sending' = Woken(p, m, reply)
      PROVE  RecordsSound' /\ WaiterFlies' /\ OneReply'
  <2>1. NoRequest.tx = NoAttempt
    BY DEF NoRequest
  <2>2. RecordsSound'
    BY <1>6, <1>9, AbsentSound DEF Consume
  <2>3. WaiterFlies' /\ OneReply'
    BY <1>7, <1>9, <2>1 DEF Consume
  <2> QED
    BY <2>2, <2>3
<1>10. ASSUME request_id_matches(p, m.rid), p.kind \in {"Create", "Dispute"}, p.tx = NoAttempt,
              p.kind = "Create" => ~p.bond_requested
       PROVE  m.rid \in Attempts /\ GaveUp(call, m.rid)
  BY <1>4, <1>10 DEF RecordSound, request_id_matches
<1>11. CASE dispatch_take(m) \/ dispatch_ack(m) \/ dispatch_restore(m) \/ dispatch_cant_do(m)
  <2>1. Consume(m) /\ (\E reply : sending' = Woken(p, m, reply)) /\ late' = late
    BY <1>11 DEF dispatch_take, dispatch_ack, dispatch_restore, dispatch_cant_do, effects
  <2> QED
    BY <1>3, <1>8, <1>9, <2>1 DEF Settled
<1>12. CASE dispatch_older_dispute(m)
  <2> DEFINE r == [p EXCEPT !.superseded = WithoutNonce(p.superseded, m.rid)]
  <2>1. /\ pending' = [pending EXCEPT ![m.key] = r] /\ sending' = sending
        /\ late' = late \cup {m.rid} /\ Contains(p.superseded, m.rid)
    BY <1>12 DEF dispatch_older_dispute, TakesOlder
  <2>2. /\ r.tx = p.tx /\ r.id = p.id /\ r.kind = p.kind /\ r.bond_requested = p.bond_requested
        /\ r.superseded = WithoutNonce(p.superseded, m.rid)
    BY <1>1 DEF Request
  <2>3. /\ Older(r.superseded) \subseteq Older(p.superseded) /\ m.rid \in Older(p.superseded)
        /\ Older(p.superseded) \subseteq Attempts
    BY <1>1, <2>1, <2>2, OlderOf
  <2> HIDE DEF r
  <2>4. RecordSound(m.key, r, call)
    BY <1>4, <2>2, <2>3 DEF RecordSound
  <2>5. m.rid \in Attempts /\ GaveUp(call, m.rid)
    BY <1>4, <2>3 DEF RecordSound
  <2>6. RecordsSound'
    BY <1>6, <2>1, <2>4
  <2>7. WaiterFlies' /\ OneReply'
    BY <1>7, <2>1, <2>2
  <2> QED
    BY <1>3, <1>8, <2>1, <2>5, <2>6, <2>7 DEF Settled
<1>13. CASE dispatch_dispute(m)
  <2>1. /\ Consume(m) /\ (\E reply : sending' = Woken(p, m, reply))
        /\ late' = IF p.tx = NoAttempt THEN late \cup {m.rid} ELSE late
        /\ request_id_matches(p, m.rid) /\ p.kind = "Dispute"
    BY <1>13 DEF dispatch_dispute, TakesDispute
  <2> QED
    BY <1>3, <1>8, <1>9, <1>10, <2>1 DEF Settled
<1>14. CASE dispatch_new_order(m)
  <2>1. /\ Consume(m) /\ (sending' = sending \/ \E reply : sending' = Woken(p, m, reply))
        /\ late' = IF ~p.bond_requested /\ p.tx = NoAttempt THEN late \cup {m.rid} ELSE late
        /\ request_id_matches(p, m.rid) /\ p.kind = "Create"
    BY <1>14 DEF dispatch_new_order, TakesCreate
  <2> QED
    BY <1>3, <1>8, <1>9, <1>10, <2>1 DEF Settled
<1>15. CASE dispatch_create_bond(m)
  <2> DEFINE r == [p EXCEPT !.bond_requested = TRUE, !.tx = NoAttempt]
  <2>1. /\ pending' = [pending EXCEPT ![m.key] = r] /\ (\E reply : sending' = Woken(p, m, reply))
        /\ late' = IF ~p.bond_requested /\ p.tx = NoAttempt THEN late \cup {m.rid} ELSE late
        /\ request_id_matches(p, m.rid) /\ p.kind = "Create"
    BY <1>1, <1>15 DEF dispatch_create_bond, TakesBond
  <2>2. /\ r.tx = NoAttempt /\ r.id = p.id /\ r.kind = p.kind /\ r.bond_requested
        /\ r.superseded = p.superseded
    BY <1>1 DEF Request
  <2> HIDE DEF r
  <2>3. RecordSound(m.key, r, call)
    BY <1>4, <2>1, <2>2 DEF RecordSound
  <2>4. RecordsSound'
    BY <1>6, <2>1, <2>3
  <2>5. WaiterFlies' /\ OneReply'
    BY <1>7, <2>1, <2>2
  <2> QED
    BY <1>3, <1>8, <1>10, <2>1, <2>4, <2>5 DEF Settled
<1>16. CASE dispatch_unmatched(m)
  BY <1>2, <1>3, <1>16 DEF dispatch_unmatched, Settled, RecordsSound, WaiterFlies, OneReply,
                           LateOnlyAfterTimeout
<1> QED
  BY <1>11, <1>12, <1>13, <1>14, <1>15, <1>16 DEF dispatch

(* Settlement is an invariant. *)
LEMMA SettledInvariant == Spec => []Settled
<1>1. Init => Settled
  <2> SUFFICES ASSUME Init PROVE Settled
    OBVIOUS
  <2>1. RecordsSound
    BY AbsentSound DEF Init, RecordsSound
  <2> QED
    BY <2>1 DEF Init, Settled, ResultAtReturn, WaiterFlies, OneReply, OneDisputeFlies,
                LateOnlyAfterTimeout, NoRequest, Flying
<1>2. TypeInv /\ Correlated /\ Settled /\ [Next]_vars => Settled'
  <2> SUFFICES ASSUME TypeInv, Correlated, Settled, [Next]_vars PROVE Settled'
    OBVIOUS
  <2>0. /\ pending \in [Keys -> Request] /\ call \in [Attempts -> Call]
        /\ \A s \in sending : s.to \in Attempts /\ late \subseteq Attempts
        /\ \A j \in Keys : pending[j].tx # NoAttempt => pending[j].tx \in Attempts
    BY DEF TypeInv, TypeOK, Request
  <2>1. ASSUME UNCHANGED <<pending, call, sending, opening, late>> PROVE Settled'
    BY <2>1 DEF Settled, ResultAtReturn, RecordsSound, WaiterFlies, OneReply, OneDisputeFlies,
                LateOnlyAfterTimeout
  <2>2. ASSUME NEW a \in Attempts, reach_daemon(a) \/ daemon_answers(a) PROVE Settled'
    BY <2>1, <2>2 DEF reach_daemon, daemon_answers, effects
  <2>3. ASSUME NEW s \in sending, send(s) PROVE Settled'
    <3>1. /\ UNCHANGED <<pending, opening, late>> /\ sending' = sending \ {s}
          /\ \A b \in Attempts : call'[b].pc = call[b].pc /\ call'[b].result = call[b].result
          /\ \A b \in Attempts \ {s.to} : call'[b].inbox = call[b].inbox
      BY <2>0, <2>3 DEF send, effects, Call
    <3>2. \A b \in Attempts : GaveUp(call, b) => GaveUp(call', b)
      BY <3>1 DEF GaveUp
    <3>3. RecordsSound'
      <4> SUFFICES ASSUME NEW j \in Keys PROVE RecordSound(j, pending[j], call')
        BY <3>1 DEF RecordsSound
      <4>1. pending[j] \in Request /\ RecordSound(j, pending[j], call)
        BY <2>0 DEF Settled, RecordsSound
      <4> QED
        BY <3>2, <4>1, RecordStays
    <3>4. \A j \in Keys : pending[j].tx # s.to \/ pending[j].tx = NoAttempt
      BY <2>0 DEF Settled, WaiterFlies
    <3>5. WaiterFlies'
      BY <2>0, <3>1, <3>4 DEF Settled, WaiterFlies
    <3>6. \A t \in sending : t # s => t.to # s.to
      BY DEF Settled, OneReply
    <3>7. OneReply'
      BY <2>0, <3>1, <3>6 DEF Settled, OneReply
    <3>8. ResultAtReturn' /\ OneDisputeFlies' /\ LateOnlyAfterTimeout'
      BY <2>0, <3>1 DEF Settled, ResultAtReturn, OneDisputeFlies, LateOnlyAfterTimeout
    <3> QED
      BY <3>3, <3>5, <3>7, <3>8 DEF Settled
  <2>4. ASSUME NEW k \in Keys, purge(k) PROVE Settled'
    <3>1. /\ pending' = [pending EXCEPT ![k] = NoRequest]
          /\ UNCHANGED <<call, sending, opening, late>>
      BY <2>4 DEF purge, effects
    <3>2. RecordsSound'
      BY <2>0, <3>1, AbsentSound DEF Settled, RecordsSound
    <3>3. \A j \in Keys : pending'[j].tx # NoAttempt => pending'[j] = pending[j]
      BY <2>0, <3>1 DEF NoRequest
    <3>4. WaiterFlies'
      BY <3>1, <3>3 DEF Settled, WaiterFlies
    <3> QED
      BY <3>1, <3>2, <3>4 DEF Settled, ResultAtReturn, OneReply, OneDisputeFlies,
                              LateOnlyAfterTimeout
  <2>5. CASE restart
    <3>1. pending' = [k \in Keys |-> NoRequest] /\ sending' = {} /\ late' = late
      BY <2>5 DEF restart, effects
    <3>2. ASSUME NEW a \in Attempts
          PROVE  /\ call'[a].pc \in {"idle", "returned"} /\ call'[a].result = call[a].result
                 /\ call'[a].pc = "idle" => call[a].pc = "idle"
      <4>1. call'[a] = IF call[a].pc = "idle" THEN call[a]
                       ELSE [call[a] EXCEPT !.pc = "returned", !.inbox = NoReply]
        BY <2>5 DEF restart
      <4>2. call[a] \in Call
        BY <2>0
      <4>3. CASE call[a].pc = "idle"
        BY <4>1, <4>3
      <4>4. CASE call[a].pc # "idle"
        BY <4>1, <4>2, <4>4 DEF Call
      <4> QED
        BY <4>3, <4>4
    <3>3. RecordsSound'
      BY <3>1, AbsentSound DEF RecordsSound
    <3>4. WaiterFlies' /\ OneReply'
      BY <3>1 DEF WaiterFlies, OneReply, NoRequest
    <3>5. ResultAtReturn' /\ OneDisputeFlies' /\ LateOnlyAfterTimeout'
      BY <3>1, <3>2 DEF Settled, ResultAtReturn, OneDisputeFlies, LateOnlyAfterTimeout, Flying,
                        TypeInv, TypeOK
    <3> QED
      BY <3>3, <3>4, <3>5 DEF Settled
  <2>6. CASE tick
    BY <2>1, <2>6 DEF tick, effects
  <2>7. CASE UNCHANGED vars
    BY <2>1, <2>7 DEF vars, effects
  <2> QED
    BY <2>2, <2>3, <2>4, <2>5, <2>6, <2>7, CallStepSettled, DispatchSettled DEF Next
<1> QED
  BY <1>1, <1>2, TypeInvariant, CorrelatedInvariant, PTL DEF Spec

(* A late reply is only ever applied for a call that gave up on it: never  *)
(* for one that got its reply or still waits, through retries of a         *)
(* dispute, roll-backs, purges, restarts and repeated deliveries.          *)
THEOREM LateAfterTimeout == Spec => []LateOnlyAfterTimeout
<1>1. Settled => LateOnlyAfterTimeout
  BY DEF Settled
<1> QED
  BY <1>1, SettledInvariant, PTL

-----------------------------------------------------------------------------
(* No waiting call is stranded.                                            *)

Fresh == {"Create", "Take"}
OnBound == {"AddInvoice", "BondClaimSubmit", "Dispute"}

(* A create or a take derives its trade key, so the database binds no      *)
(* order to it; the calls that act on an order already bound to a key meet *)
(* no restore there, no call of another such kind, and a payout claim not  *)
(* even a second claim.                                                    *)
CallsApart ==
    /\ \A a \in Attempts : KindOf[a] \in Fresh => KeyOf[a] \notin BoundKeys
    /\ \A a, b \in Attempts :
         a # b /\ KeyOf[a] = KeyOf[b] /\ KindOf[a] \notin Fresh /\ KindOf[b] \in OnBound
         => KindOf[a] = KindOf[b] /\ KindOf[a] # "BondClaimSubmit"

(* Only a call that derived the key, or the database, binds it. *)
BoundByCall ==
    \A k \in bound : \/ k \in BoundKeys
                     \/ \E b \in Attempts : /\ KindOf[b] \in Fresh /\ KeyOf[b] = k
                                            /\ call[b].pc # "idle"

(* A create's record stands for a call that started; its bond reply took   *)
(* the waiter.                                                             *)
CreateStarted ==
    \A k \in Keys : /\ pending[k].kind = "Create" => call[pending[k].id].pc # "idle"
                    /\ pending[k].bond_requested => pending[k].tx = NoAttempt

(* A key is derived by one call, and a restore has its key to itself. *)
Alone ==
    \A a, b \in Attempts : KeyOf[a] = KeyOf[b] =>
        /\ KindOf[a] \in Fresh /\ KindOf[b] \in Fresh /\ call[a].pc # "idle" /\ call[b].pc # "idle"
           => a = b
        /\ KindOf[a] = "Restore" /\ KindOf[b] = "Restore"
              /\ call[a].pc \in Flying /\ call[b].pc \in Flying
           => a = b

(* Nothing is bound to the key of a create or a take that was not answered. *)
FreshUnbound ==
    \A k \in Keys : pending[k].tx # NoAttempt /\ KindOf[pending[k].tx] \in Fresh => k \notin bound

RepliesSent == \A s \in sending : s.msg.reply # "none"

Attached == /\ NoStrandedCall /\ BoundByCall /\ CreateStarted /\ Alone /\ FreshUnbound
            /\ RepliesSent

(* The steps of an API call strand no other call. *)
LEMMA CallStepAttached ==
    ASSUME CallsApart, TypeInv, Correlated, Settled, Attached, NEW a \in Attempts, CallStep(a)
    PROVE  Attached'
<1> DEFINE k == KeyOf[a]
           p == pending[k]
<1>1. /\ k \in Keys /\ KindOf[a] \in Kinds /\ a # NoAttempt /\ a # Zero /\ p \in Request
      /\ pending \in [Keys -> Request] /\ call \in [Attempts -> Call]
      /\ \A b \in Attempts : KeyOf[b] \in Keys /\ b # NoAttempt
      /\ \A j \in Keys : pending[j].tx # NoAttempt => pending[j].tx \in Attempts
  BY PendingAssumption DEF TypeInv, TypeOK, Request
<1>2. /\ call[a].pc # "returned" /\ sending' = sending
      /\ \A b \in Attempts : call'[b].inbox = call[b].inbox
      /\ \A b \in Attempts \ {a} : call'[b] = call[b]
  BY CallStepFrame DEF Settled
<1>3. \A pc, result : call' = SetCall(a, pc, result) => call'[a].pc = pc
  BY <1>1 DEF SetCall, Call
<1>4. /\ call'[a].pc # "idle"
      /\ call[a].pc = "idle" => MayStart(a)
      /\ call[a].pc = "idle" /\ KindOf[a] \in Fresh \cup {"Restore"} => call'[a].pc = "registered"
      /\ call'[a].pc \in {"registered", "waiting"} /\ call[a].pc # "idle" => call[a].pc = "registered"
      /\ call'[a].pc \in Flying => call[a].pc \in Flying \cup {"idle"}
  BY <1>3 DEF CallStep, register, refuse, publish, publish_failed, receive, elapse, detach,
              refused, Fresh, Flying, MayStart
<1>5. RepliesSent'
  BY <1>2 DEF Attached, RepliesSent
<1>6. Alone'
  <2> SUFFICES ASSUME NEW b \in Attempts, KeyOf[b] = k, b # a
               PROVE  /\ ~(KindOf[a] \in Fresh /\ KindOf[b] \in Fresh /\ call'[b].pc # "idle")
                      /\ ~(KindOf[a] = "Restore" /\ KindOf[b] = "Restore" /\ call'[a].pc \in Flying
                           /\ call'[b].pc \in Flying)
    BY <1>2 DEF Attached, Alone
  <2>1. call'[b] = call[b]
    BY <1>2
  <2>2. CASE call[a].pc = "idle"
    BY <1>4, <2>1, <2>2 DEF MayStart, Fresh, Flying
  <2>3. CASE call[a].pc # "idle"
    BY <1>4, <2>1, <2>3 DEF Attached, Alone
  <2> QED
    BY <2>2, <2>3
<1>7. bound' = bound \/ (bound' = bound \cup {k} /\ KindOf[a] \in Fresh /\ receive(a))
  BY DEF CallStep, register, refuse, publish, publish_failed, receive, elapse, detach, effects, Fresh
<1>8. BoundByCall'
  <2>1. \A b \in Attempts : call[b].pc # "idle" => call'[b].pc # "idle"
    BY <1>2, <1>4
  <2> QED
    BY <1>4, <1>7, <2>1 DEF Attached, BoundByCall
(* A record after the step is the old one, the caller's new one, or one    *)
(* without a waiter.                                                       *)
<1>9. \A j \in Keys \ {k} : pending'[j] = pending[j]
  BY <1>1 DEF CallStep, register, refuse, publish, publish_failed, receive, elapse, detach
<1>10. \/ register(a) /\ pending'[k] = NewRequest(a)
       \/ ~register(a) /\ pending'[k] = p
       \/ /\ ~register(a) /\ request_id_matches(p, request_id(a)) /\ pending'[k].tx = NoAttempt
          /\ pending'[k].kind = "Create" => p.kind = "Create" /\ pending'[k].id = p.id
  <2>1. CASE register(a)
    BY <1>1, <2>1 DEF register
  <2>2. CASE publish_failed(a)
    <3>1. ~register(a) /\ pending'[k] = RolledBack(a)
      BY <1>1, <2>2 DEF publish_failed, register, MayStart
    <3>2. \/ RolledBack(a) = p
          \/ /\ request_id_matches(p, request_id(a)) /\ RolledBack(a).tx = NoAttempt
             /\ RolledBack(a).kind = "Create" => FALSE
      <4>1. RecordSound(k, p, call) /\ p.superseded \in Seq(Attempts)
        BY <1>1 DEF Settled, RecordsSound, Request
      <4>2. Len(p.superseded) > 0 => p.kind = "Dispute"
        <5>1. Len(p.superseded) > 0 => p.superseded[Len(p.superseded)] \in Older(p.superseded)
          BY <4>1, OlderOf
        <5> QED
          BY <4>1, <5>1 DEF RecordSound
      <4>3. Len(p.superseded) \in Nat
        BY <4>1, LenProperties
      <4> QED
        BY <1>1, <4>2, <4>3 DEF RolledBack, NoRequest, Request
    <3> QED
      BY <3>1, <3>2
  <2>3. CASE detach(a)
    <3>1. ~register(a) /\ pending'[k] = Detached(a)
      BY <1>1, <2>3 DEF detach, register, MayStart
    <3>2. \/ Detached(a) = p
          \/ /\ request_id_matches(p, request_id(a)) /\ Detached(a).tx = NoAttempt
             /\ Detached(a).kind = p.kind /\ Detached(a).id = p.id
      BY <1>1 DEF Detached, Request
    <3> QED
      BY <3>1, <3>2
  <2>4. CASE refuse(a) \/ publish(a) \/ receive(a) \/ elapse(a)
    <3>1. pending' = pending
      BY <2>4 DEF refuse, publish, receive, elapse
    <3>2. CASE register(a)
      BY <1>1, <3>2 DEF register
    <3> QED
      BY <3>1, <3>2
  <2> QED
    BY <2>1, <2>2, <2>3, <2>4 DEF CallStep
<1>11. CreateStarted'
  <2> SUFFICES ASSUME NEW j \in Keys
               PROVE  /\ pending'[j].kind = "Create" => call'[pending'[j].id].pc # "idle"
                      /\ pending'[j].bond_requested => pending'[j].tx = NoAttempt
    BY DEF CreateStarted
  <2>1. pending[j].kind = "Create" => pending[j].id \in Attempts /\ call'[pending[j].id].pc # "idle"
    <3>1. pending[j].kind = "Create" => pending[j].id \in Attempts
      BY DEF Settled, RecordsSound, RecordSound
    <3> QED
      BY <1>2, <1>4, <3>1 DEF Attached, CreateStarted
  <2>2. CASE j # k \/ pending'[k] = p
    BY <1>9, <2>1, <2>2 DEF Attached, CreateStarted
  <2>3. CASE j = k /\ pending'[k] = NewRequest(a)
    BY <1>4, <2>3 DEF NewRequest, request_id
  <2>4. CASE j = k /\ pending'[k] # p /\ pending'[k] # NewRequest(a)
    BY <1>10, <2>1, <2>4
  <2> QED
    BY <2>2, <2>3, <2>4
<1>12. ASSUME KindOf[a] \in Fresh, call[a].pc = "idle" PROVE k \notin bound
  BY <1>1, <1>4, <1>12 DEF Attached, BoundByCall, CallsApart, MayStart, Fresh
<1>13. FreshUnbound'
  <2> SUFFICES ASSUME NEW j \in Keys, pending'[j].tx # NoAttempt, KindOf[pending'[j].tx] \in Fresh
               PROVE  j \notin bound'
    BY DEF FreshUnbound
  <2>1. CASE pending'[j] = pending[j]
    <3>1. j \notin bound
      BY <2>1 DEF Attached, FreshUnbound
    <3>2. ASSUME receive(a), KindOf[a] \in Fresh PROVE j # k
      <4>1. pending[j].tx \in Attempts /\ KeyOf[pending[j].tx] = j
            /\ call[pending[j].tx].pc \in Flying /\ call[pending[j].tx].inbox.reply = "none"
        BY <1>1, <2>1 DEF Correlated, WaiterOwns, Settled, WaiterFlies
      <4>2. call[a].pc = "waiting" /\ call[a].inbox.reply # "none"
        BY <3>2 DEF receive
      <4> QED
        BY <2>1, <3>2, <4>1, <4>2 DEF Attached, Alone, Flying
    <3> QED
      BY <1>7, <3>1, <3>2
  <2>2. CASE pending'[j] # pending[j]
    <3>1. j = k /\ register(a) /\ pending'[k].tx = a
      BY <1>9, <1>10, <2>2 DEF NewRequest
    <3>2. k \notin bound
      BY <1>12, <2>2, <3>1 DEF register, MayStart
    <3>3. ~receive(a)
      BY <3>1 DEF register, receive, MayStart
    <3> QED
      BY <1>7, <3>1, <3>2, <3>3
  <2> QED
    BY <2>1, <2>2
<1>14. NoStrandedCall'
  <2> SUFFICES ASSUME NEW b \in Attempts, call'[b].pc \in {"registered", "waiting"},
                      \A s \in sending : s.to # b, call[b].inbox.reply = "none"
               PROVE  pending'[KeyOf[b]].tx = b
    BY <1>2 DEF NoStrandedCall, Hungup
  <2>1. CASE b = a /\ call[a].pc = "idle"
    <3>1. register(a)
      BY <1>3, <2>1 DEF CallStep, refuse, publish, publish_failed, receive, elapse, detach
    <3> QED
      BY <1>10, <2>1, <3>1 DEF NewRequest
  <2>2. CASE ~(b = a /\ call[a].pc = "idle")
    <3>1. call[b].pc \in {"registered", "waiting"}
      BY <1>2, <1>4, <2>2
    <3>2. pending[KeyOf[b]].tx = b
      BY <3>1 DEF Attached, NoStrandedCall, Hungup
    <3>3. /\ pending[KeyOf[b]].kind = KindOf[b] /\ pending[KeyOf[b]].id = request_id(b)
          /\ KeyOf[b] \in Keys /\ b # NoAttempt
      BY <1>1, <3>2 DEF Correlated, WaiterOwns
    <3>4. CASE KeyOf[b] # k \/ pending'[k] = p
      BY <1>9, <3>2, <3>3, <3>4
    <3>5. CASE KeyOf[b] = k /\ b = a
      (* The caller publishes: its record stays. *)
      <4>1. publish(a)
        BY <1>3, <2>2, <3>5 DEF CallStep, register, refuse, publish_failed, receive, elapse,
                                detach, MayStart
      <4> QED
        BY <3>2, <3>5, <4>1 DEF publish
    <3>6. CASE KeyOf[b] = k /\ b # a /\ register(a)
      <4>1. MayStart(a) /\ ~refused(a, {"registered", "waiting"})
        BY <3>6 DEF register
      <4>2. KindOf[a] \in OnBound /\ k \in bound
        BY <3>1, <3>6, <4>1 DEF MayStart, OnBound
      <4>3. KindOf[b] \notin Fresh
        BY <3>2, <3>3, <3>6, <4>2 DEF Attached, FreshUnbound
      <4>4. KindOf[b] = KindOf[a] /\ KindOf[a] \in {"AddInvoice", "Dispute"}
        BY <3>6, <4>2, <4>3 DEF CallsApart, OnBound
      <4>5. CASE KindOf[a] = "AddInvoice"
        BY <3>1, <3>2, <3>3, <3>6, <4>1, <4>4, <4>5 DEF refused, in_flight
      <4>6. CASE KindOf[a] = "Dispute"
        BY <3>1, <3>6, <4>1, <4>4, <4>6 DEF refused, Settled, OneDisputeFlies, Flying
      <4> QED
        BY <4>4, <4>5, <4>6
    <3>7. CASE KeyOf[b] = k /\ b # a /\ ~register(a) /\ pending'[k] # p
      <4>1. request_id_matches(p, request_id(a)) /\ call[a].pc \in Flying
        <5>1. publish_failed(a) \/ detach(a)
          BY <3>7, <1>1 DEF CallStep, refuse, publish, receive, elapse
        <5> QED
          BY <1>10, <3>7, <5>1 DEF publish_failed, detach, Flying, NewRequest
      <4>2. KindOf[a] = "Restore" /\ KindOf[b] = "Restore"
        BY <1>1, <3>3, <3>7, <4>1, PendingAssumption DEF request_id_matches, request_id
      <4> QED
        BY <3>1, <3>7, <4>1, <4>2 DEF Attached, Alone, Flying
    <3> QED
      BY <3>4, <3>5, <3>6, <3>7
  <2> QED
    BY <2>1, <2>2
<1> QED
  BY <1>5, <1>6, <1>8, <1>11, <1>13, <1>14 DEF Attached

(* A dispatched message strands nobody: a waiter it takes is sent a reply. *)
LEMMA DispatchAttached ==
    ASSUME TypeInv, Correlated, Settled, Attached, NEW m \in net, dispatch(m)
    PROVE  Attached'
<1> DEFINE p == pending[m.key]
<1>1. /\ m.key \in Keys /\ p \in Request /\ pending \in [Keys -> Request]
      /\ \A j \in Keys : pending[j].tx # NoAttempt => pending[j].tx \in Attempts
      /\ \A b \in Attempts : KeyOf[b] \in Keys /\ b # NoAttempt
  BY PendingAssumption DEF TypeInv, TypeOK, Message, Request
<1>2. call' = call
  BY DEF dispatch
<1>3. Alone'
  BY <1>2 DEF Attached, Alone
<1>4. p.kind = "Create" => /\ p.id \in Attempts /\ KindOf[p.id] = "Create" /\ KeyOf[p.id] = m.key
                           /\ call[p.id].pc # "idle"
  BY <1>1 DEF Settled, RecordsSound, RecordSound, Attached, CreateStarted
(* What every case says of the record, the replies sent and the keys bound. *)
<1>5. ASSUME NEW r, pending' = [pending EXCEPT ![m.key] = r],
             r.tx = p.tx \/ r.tx = NoAttempt, r.bond_requested => r.tx = NoAttempt,
             r.kind = "Create" => p.kind = "Create" /\ r.id = p.id,
             \/ sending' = sending /\ r.tx = p.tx
             \/ \E reply \in Replies : sending' = Woken(p, m, reply),
             \/ bound' = bound
             \/ bound' = bound \cup {m.key} /\ p.kind = "Create" /\ r.tx = NoAttempt
      PROVE  Attached'
  <2>1. /\ \A j \in Keys \ {m.key} : pending'[j] = pending[j]
        /\ pending'[m.key] = r
    BY <1>1, <1>5
  <2>2. RepliesSent' /\ sending \subseteq sending'
    BY <1>5 DEF Attached, RepliesSent, Woken, Replies
  <2>3. BoundByCall'
    BY <1>1, <1>2, <1>4, <1>5 DEF Attached, BoundByCall, Fresh
  <2>4. CreateStarted'
    BY <1>1, <1>2, <1>4, <1>5, <2>1 DEF Attached, CreateStarted
  <2>5. FreshUnbound'
    BY <1>1, <1>5, <2>1 DEF Attached, FreshUnbound
  <2>6. NoStrandedCall'
    <3> SUFFICES ASSUME NEW a \in Attempts, call[a].pc \in {"registered", "waiting"},
                        \A s \in sending' : s.to # a, call[a].inbox.reply = "none"
                 PROVE  pending'[KeyOf[a]].tx = a
      BY <1>2 DEF NoStrandedCall, Hungup
    <3>1. pending[KeyOf[a]].tx = a
      BY <2>2 DEF Attached, NoStrandedCall, Hungup
    <3>2. CASE KeyOf[a] # m.key
      BY <1>1, <2>1, <3>1, <3>2
    <3>3. CASE KeyOf[a] = m.key /\ r.tx = p.tx
      BY <1>1, <2>1, <3>1, <3>3
    <3>4. CASE KeyOf[a] = m.key /\ r.tx # p.tx
      <4>1. PICK reply \in Replies : sending' = Woken(p, m, reply)
        BY <1>5, <3>4
      <4>2. [to |-> a, msg |-> [reply |-> reply, rid |-> m.rid, ts |-> m.ts]] \in sending'
        BY <1>1, <3>1, <3>4, <4>1 DEF Woken
      <4> QED
        BY <4>2
    <3> QED
      BY <3>2, <3>3, <3>4
  <2> QED
    BY <1>3, <2>2, <2>3, <2>4, <2>5, <2>6 DEF Attached
<1>6. ASSUME Consume(m), \E reply \in Replies : sending' = Woken(p, m, reply),
             \/ bound' = bound
             \/ bound' = bound \cup {m.key} /\ p.kind = "Create"
      PROVE  Attached'
  <2>1. NoRequest.tx = NoAttempt /\ ~NoRequest.bond_requested /\ NoRequest.kind # "Create"
    BY DEF NoRequest
  <2> QED
    BY <1>5, <1>6, <2>1 DEF Consume
<1>7. CASE dispatch_take(m) \/ dispatch_ack(m) \/ dispatch_dispute(m)
  <2>1. Consume(m) /\ (\E reply \in Replies : sending' = Woken(p, m, reply)) /\ bound' = bound
    BY <1>7 DEF dispatch_take, dispatch_ack, dispatch_dispute, Replies
  <2> QED
    BY <1>6, <2>1
<1>8. CASE dispatch_restore(m) \/ dispatch_cant_do(m)
  <2>1. Consume(m) /\ (\E reply \in Replies : sending' = Woken(p, m, reply)) /\ bound' = bound
    BY <1>8 DEF dispatch_restore, dispatch_cant_do, Replies, effects
  <2> QED
    BY <1>6, <2>1
<1>9. CASE dispatch_older_dispute(m)
  <2> DEFINE r == [p EXCEPT !.superseded = WithoutNonce(p.superseded, m.rid)]
  <2>1. pending' = [pending EXCEPT ![m.key] = r] /\ sending' = sending /\ bound' = bound
    BY <1>9 DEF dispatch_older_dispute
  <2>2. /\ r.tx = p.tx /\ r.id = p.id /\ r.kind = p.kind /\ r.bond_requested = p.bond_requested
    BY <1>1 DEF Request
  <2>3. p.bond_requested => p.tx = NoAttempt
    BY <1>1 DEF Attached, CreateStarted
  <2> HIDE DEF r
  <2> QED
    BY <1>5, <2>1, <2>2, <2>3
<1>10. CASE dispatch_new_order(m)
  <2>1. /\ Consume(m) /\ bound' = bound \cup {m.key} /\ p.kind = "Create"
        /\ sending' = IF p.bond_requested THEN sending ELSE Woken(p, m, "accepted")
    BY <1>10 DEF dispatch_new_order, TakesCreate
  <2>2. p.bond_requested => p.tx = NoAttempt
    BY <1>1 DEF Attached, CreateStarted
  <2>3. sending' = Woken(p, m, "accepted")
    BY <2>1, <2>2 DEF Woken
  <2> QED
    BY <1>6, <2>1, <2>3 DEF Replies
<1>11. CASE dispatch_create_bond(m)
  <2> DEFINE r == [p EXCEPT !.bond_requested = TRUE, !.tx = NoAttempt]
  <2>1. /\ pending' = [pending EXCEPT ![m.key] = r] /\ sending' = Woken(p, m, "bond")
        /\ bound' = bound \cup {m.key} /\ p.kind = "Create"
    BY <1>1, <1>11 DEF dispatch_create_bond, TakesBond
  <2>2. r.tx = NoAttempt /\ r.id = p.id
    BY <1>1 DEF Request
  <2> HIDE DEF r
  <2> QED
    BY <1>5, <2>1, <2>2 DEF Replies
<1>12. CASE dispatch_unmatched(m)
  BY <1>2, <1>3, <1>12 DEF dispatch_unmatched, Attached, NoStrandedCall, Hungup, BoundByCall,
                           CreateStarted, FreshUnbound, RepliesSent
<1> QED
  BY <1>7, <1>8, <1>9, <1>10, <1>11, <1>12 DEF dispatch

(* No call that still waits is hung up on: no registration, roll-back,     *)
(* detach or purge by another call drops its sender without a reply, on    *)
(* threads and on the event loop, when the calls of a trade meet only      *)
(* calls of their own kind (CallsApart).                                   *)
THEOREM NoneStranded == ASSUME CallsApart PROVE Spec => []NoStrandedCall
<1>1. Init => Attached
  BY DEF Init, Attached, NoStrandedCall, BoundByCall, CreateStarted, Alone, FreshUnbound,
         RepliesSent, NoRequest, Flying
<1>2. TypeInv /\ Correlated /\ Settled /\ Attached /\ [Next]_vars => Attached'
  <2> SUFFICES ASSUME TypeInv, Correlated, Settled, Attached, [Next]_vars PROVE Attached'
    OBVIOUS
  <2>0. /\ pending \in [Keys -> Request] /\ call \in [Attempts -> Call]
        /\ \A s \in sending : s.to \in Attempts
        /\ \A j \in Keys : pending[j].kind = "Create" => pending[j].id \in Attempts
    BY DEF TypeInv, TypeOK, Settled, RecordsSound, RecordSound
  <2>1. ASSUME UNCHANGED <<pending, call, sending, bound>> PROVE Attached'
    BY <2>1 DEF Attached, NoStrandedCall, Hungup, BoundByCall, CreateStarted, Alone, FreshUnbound,
                RepliesSent
  <2>2. ASSUME NEW a \in Attempts, reach_daemon(a) \/ daemon_answers(a) PROVE Attached'
    BY <2>1, <2>2 DEF reach_daemon, daemon_answers, effects
  <2>3. ASSUME NEW s \in sending, send(s) PROVE Attached'
    <3>1. /\ UNCHANGED <<pending, bound>> /\ sending' = sending \ {s}
          /\ \A b \in Attempts : call'[b].pc = call[b].pc
          /\ \A b \in Attempts \ {s.to} : call'[b].inbox = call[b].inbox
          /\ call[s.to].pc \in {"registered", "waiting"} => call'[s.to].inbox = s.msg
      BY <2>0, <2>3 DEF send, effects, Call
    <3>2. s.msg.reply # "none"
      BY DEF Attached, RepliesSent
    <3>3. NoStrandedCall'
      BY <2>0, <3>1, <3>2 DEF Attached, NoStrandedCall, Hungup
    <3>4. BoundByCall' /\ CreateStarted' /\ Alone' /\ FreshUnbound' /\ RepliesSent'
      BY <2>0, <3>1 DEF Attached, BoundByCall, CreateStarted, Alone, FreshUnbound, RepliesSent
    <3> QED
      BY <3>3, <3>4 DEF Attached
  <2>4. ASSUME NEW k \in Keys, purge(k) PROVE Attached'
    <3>1. /\ pending' = [pending EXCEPT ![k] = NoRequest] /\ pending[k].tx = NoAttempt
          /\ UNCHANGED <<call, sending, bound>>
      BY <2>4 DEF purge, effects
    <3>2. /\ \A j \in Keys : pending'[j].tx = pending[j].tx
          /\ \A j \in Keys : pending'[j] = pending[j] \/ pending'[j] = NoRequest
      BY <2>0, <3>1 DEF NoRequest
    <3>3. NoStrandedCall'
      BY <3>1, <3>2, PendingAssumption DEF Attached, NoStrandedCall, Hungup
    <3>4. CreateStarted' /\ FreshUnbound'
      BY <3>1, <3>2 DEF Attached, CreateStarted, FreshUnbound, NoRequest
    <3> QED
      BY <3>1, <3>3, <3>4 DEF Attached, BoundByCall, Alone, RepliesSent
  <2>5. CASE restart
    <3>1. pending' = [k \in Keys |-> NoRequest] /\ sending' = {} /\ bound' = bound
      BY <2>5 DEF restart, effects
    <3>2. ASSUME NEW a \in Attempts
          PROVE  /\ call'[a].pc \in {"idle", "returned"}
                 /\ call'[a].pc = "idle" <=> call[a].pc = "idle"
      <4>1. call'[a] = IF call[a].pc = "idle" THEN call[a]
                       ELSE [call[a] EXCEPT !.pc = "returned", !.inbox = NoReply]
        BY <2>5 DEF restart
      <4>2. call[a] \in Call
        BY <2>0
      <4>3. CASE call[a].pc = "idle"
        BY <4>1, <4>3
      <4>4. CASE call[a].pc # "idle"
        BY <4>1, <4>2, <4>4 DEF Call
      <4> QED
        BY <4>3, <4>4
    <3>3. NoStrandedCall' /\ Alone'
      BY <3>2 DEF Attached, NoStrandedCall, Alone, Flying
    <3>4. BoundByCall'
      BY <3>1, <3>2 DEF Attached, BoundByCall
    <3>5. CreateStarted' /\ FreshUnbound' /\ RepliesSent'
      BY <3>1 DEF CreateStarted, FreshUnbound, RepliesSent, NoRequest
    <3> QED
      BY <3>3, <3>4, <3>5 DEF Attached
  <2>6. CASE tick
    BY <2>1, <2>6 DEF tick, effects
  <2>7. CASE UNCHANGED vars
    BY <2>1, <2>7 DEF vars, effects
  <2> QED
    BY <2>2, <2>3, <2>4, <2>5, <2>6, <2>7, CallStepAttached, DispatchAttached DEF Next
<1>3. Attached => NoStrandedCall
  BY DEF Attached
<1> QED
  BY <1>1, <1>2, <1>3, TypeInvariant, CorrelatedInvariant, SettledInvariant, PTL DEF Spec

-----------------------------------------------------------------------------
(* Accepted disputes are recorded; timed-out ones stay answerable.         *)

WaitingReply(a) == /\ call[a].pc \in {"registered", "waiting"}
                   /\ \/ call[a].inbox.reply = "accepted"
                      \/ \E s \in sending : s.to = a /\ s.msg.reply = "accepted"

(* The acceptance of a dispute is recorded, or it is on its way to a       *)
(* caller that will record it, or the caller is gone.                      *)
AcceptedHeld ==
    \A a \in answered : KindOf[a] = "Dispute" =>
        \/ KeyOf[a] \in disputes
        \/ WaitingReply(a)
        \/ call[a].pc = "returned" /\ call[a].result \in {"failed", "none"}

NeverElapsed == \A a \in Attempts : call[a].pc # "elapsed"

Recorded == NeverElapsed /\ AcceptedHeld

(* A message that accepts a dispute names the key of its trade, and the    *)
(* waiter it wakes is the attempt it accepts.                              *)
LEMMA AcceptedDispute ==
    ASSUME TypeInv, Correlated, Settled, NEW m \in net, dispatch(m),
           NEW a \in answered', KindOf[a] = "Dispute", a \notin answered
    PROVE  /\ a = m.rid /\ KeyOf[a] = m.key
           /\ \/ m.key \in disputes'
              \/ /\ pending[m.key].tx = a
                 /\ sending' = Woken(pending[m.key], m, "accepted")
<1> DEFINE p == pending[m.key]
<1>1. m.key \in Keys /\ p \in Request /\ p.superseded \in Seq(Attempts)
  BY DEF TypeInv, TypeOK, Message, Request
<1>2. RecordSound(m.key, p, call)
  BY <1>1 DEF Settled, RecordsSound
<1>3. dispatch_take(m) \/ dispatch_ack(m) \/ dispatch_older_dispute(m) \/ dispatch_dispute(m)
      \/ dispatch_new_order(m)
  BY DEF dispatch, dispatch_create_bond, dispatch_restore, dispatch_cant_do, dispatch_unmatched,
         effects
<1>4. Answer(m) /\ a = m.rid
  BY <1>3 DEF dispatch_take, dispatch_ack, dispatch_older_dispute, dispatch_dispute,
              dispatch_new_order, Answer
<1>5. CASE dispatch_take(m) \/ dispatch_ack(m) \/ dispatch_new_order(m)
  <2>1. request_id_matches(p, m.rid) /\ p.kind \in {"Take", "AddInvoice", "BondClaimSubmit", "Create"}
    BY <1>5 DEF dispatch_take, dispatch_ack, dispatch_new_order, TakesTake, TakesInvoice,
                TakesClaim, TakesCreate
  <2> QED
    BY <1>2, <1>4, <2>1 DEF RecordSound, request_id_matches
<1>6. CASE dispatch_older_dispute(m)
  <2>1. m.rid \in Older(p.superseded)
    BY <1>1, <1>6, OlderOf DEF dispatch_older_dispute, TakesOlder
  <2> QED
    BY <1>2, <1>4, <1>6, <2>1 DEF RecordSound, dispatch_older_dispute
<1>7. CASE dispatch_dispute(m)
  <2>1. p.kind = "Dispute" /\ p.id = m.rid /\ sending' = Woken(p, m, "accepted")
    BY <1>7 DEF dispatch_dispute, TakesDispute, request_id_matches
  <2>2. KeyOf[a] = m.key
    BY <1>2, <1>4, <2>1 DEF RecordSound
  <2>3. CASE p.tx = NoAttempt
    BY <1>4, <1>7, <2>2, <2>3 DEF dispatch_dispute
  <2>4. CASE p.tx # NoAttempt
    BY <1>1, <1>4, <2>1, <2>2, <2>4 DEF Correlated, WaiterOwns, request_id
  <2> QED
    BY <2>3, <2>4
<1> QED
  BY <1>3, <1>5, <1>6, <1>7

(* An accepted dispute ends with its dispute record, whichever attempt the *)
(* daemon accepted and whether its caller still waited, when the app runs  *)
(* on one event loop; on threads a reply can be lost between an elapsed    *)
(* wait and its detach.                                                    *)
THEOREM DisputesRecorded == ASSUME ~Preemptive PROVE Spec => []AcceptedDisputeRecorded
<1>1. Init => Recorded
  BY DEF Init, Recorded, NeverElapsed, AcceptedHeld
<1>2. TypeInv /\ Correlated /\ Settled /\ Recorded /\ [Next]_vars => Recorded'
  <2> SUFFICES ASSUME TypeInv, Correlated, Settled, Recorded, [Next]_vars PROVE Recorded'
    OBVIOUS
  <2>0. /\ pending \in [Keys -> Request] /\ call \in [Attempts -> Call]
        /\ \A s \in sending : s.to \in Attempts
        /\ answered \subseteq Attempts
    BY DEF TypeInv, TypeOK
  <2>1. ASSUME UNCHANGED <<call, sending, answered, disputes>> PROVE Recorded'
    BY <2>1 DEF Recorded, NeverElapsed, AcceptedHeld, WaitingReply
  <2>2. ASSUME NEW a \in Attempts, CallStep(a) PROVE Recorded'
    <3>1. /\ call[a].pc # "returned" /\ sending' = sending
          /\ \A b \in Attempts : call'[b].inbox = call[b].inbox
          /\ \A b \in Attempts \ {a} : call'[b] = call[b]
      BY <2>2, CallStepFrame DEF Settled
    <3>2. \A pc, result : call' = SetCall(a, pc, result) => call'[a].pc = pc /\ call'[a].result = result
      BY <2>0 DEF SetCall, Call
    <3>3. answered' = answered /\ disputes \subseteq disputes'
      BY <2>2 DEF CallStep, register, refuse, publish, publish_failed, receive, elapse, detach,
                  effects
    <3>4. NeverElapsed'
      <4>1. call'[a].pc # "elapsed"
        BY <2>2, <3>2 DEF CallStep, register, refuse, publish, publish_failed, receive, elapse,
                          detach
      <4> QED
        BY <3>1, <4>1 DEF Recorded, NeverElapsed
    <3>5. ASSUME a \in answered, KindOf[a] = "Dispute", KeyOf[a] \notin disputes'
          PROVE  \/ WaitingReply(a)'
                 \/ call'[a].pc = "returned" /\ call'[a].result \in {"failed", "none"}
      <4>1. WaitingReply(a)
        BY <2>0, <3>1, <3>3, <3>5 DEF Recorded, AcceptedHeld
      <4>2. CASE publish(a)
        BY <3>1, <3>2, <4>1, <4>2 DEF publish, WaitingReply
      <4>3. CASE publish_failed(a)
        BY <3>2, <4>3 DEF publish_failed
      <4>4. CASE receive(a)
        <5>1. call[a].inbox.reply = "accepted"
          BY <4>1, <4>4 DEF receive, WaitingReply, Settled, OneReply
        <5> QED
          BY <3>5, <4>4, <5>1 DEF receive
      <4>5. CASE detach(a)
        <5>1. call[a].inbox.reply = "none" /\ \A s \in sending : s.to # a
          BY <3>5, <4>5 DEF detach, Recorded, NeverElapsed
        <5> QED
          BY <4>1, <5>1 DEF WaitingReply
      <4>6. CASE register(a) \/ refuse(a) \/ elapse(a)
        BY <4>1, <4>6 DEF register, refuse, elapse, MayStart, WaitingReply
      <4> QED
        BY <2>2, <4>2, <4>3, <4>4, <4>5, <4>6 DEF CallStep
    <3>6. AcceptedHeld'
      <4> SUFFICES ASSUME NEW b \in answered, KindOf[b] = "Dispute", KeyOf[b] \notin disputes'
                   PROVE  \/ WaitingReply(b)'
                          \/ call'[b].pc = "returned" /\ call'[b].result \in {"failed", "none"}
        BY <3>3 DEF AcceptedHeld
      <4>1. CASE b = a
        BY <3>5, <4>1
      <4>2. CASE b # a
        BY <2>0, <3>1, <3>3, <4>2 DEF Recorded, AcceptedHeld, WaitingReply
      <4> QED
        BY <4>1, <4>2
    <3> QED
      BY <3>4, <3>6 DEF Recorded
  <2>3. ASSUME NEW m \in net, dispatch(m) PROVE Recorded'
    <3>1. call' = call
      BY <2>3 DEF dispatch
    <3>2. sending \subseteq sending' /\ disputes \subseteq disputes'
      BY <2>3 DEF dispatch, dispatch_take, dispatch_ack, dispatch_older_dispute, dispatch_dispute,
                  dispatch_new_order, dispatch_create_bond, dispatch_restore, dispatch_cant_do,
                  dispatch_unmatched, Woken, effects
    <3> SUFFICES ASSUME NEW a \in answered', KindOf[a] = "Dispute"
                 PROVE  \/ KeyOf[a] \in disputes' \/ WaitingReply(a)'
                        \/ call[a].pc = "returned" /\ call[a].result \in {"failed", "none"}
      BY <3>1 DEF Recorded, NeverElapsed, AcceptedHeld
    <3>3. CASE a \in answered
      BY <3>1, <3>2, <3>3 DEF Recorded, AcceptedHeld, WaitingReply
    <3>4. CASE a \notin answered
      <4>1. CASE m.key \in disputes'
        BY <2>3, <3>4, <4>1, AcceptedDispute
      <4>2. CASE pending[m.key].tx = a /\ sending' = Woken(pending[m.key], m, "accepted")
        <5>1. m.key \in Keys /\ a # NoAttempt /\ a \in Attempts
          <6>1. m \in Message /\ pending[m.key] \in Request /\ a = m.rid
            BY <2>3, <3>4, AcceptedDispute DEF TypeInv, TypeOK, Message
          <6>2. a # NoAttempt
            BY <2>3, <3>4 DEF dispatch, dispatch_take, dispatch_ack, dispatch_older_dispute,
                              dispatch_dispute, dispatch_new_order, dispatch_create_bond,
                              dispatch_restore, dispatch_cant_do, dispatch_unmatched, Answer,
                              effects
          <6> QED
            BY <6>1, <6>2 DEF Message
        <5>2. call[a].pc \in {"registered", "waiting"}
          BY <4>2, <5>1 DEF Settled, WaiterFlies, Recorded, NeverElapsed, Flying
        <5> DEFINE new == [to |-> a, msg |-> [reply |-> "accepted", rid |-> m.rid, ts |-> m.ts]]
        <5>3. new \in sending' /\ new.to = a /\ new.msg.reply = "accepted"
          BY <4>2, <5>1 DEF Woken
        <5> QED
          BY <3>1, <5>2, <5>3 DEF WaitingReply
      <4> QED
        BY <2>3, <3>4, <4>1, <4>2, AcceptedDispute
    <3> QED
      BY <3>3, <3>4
  <2>4. ASSUME NEW a \in Attempts, reach_daemon(a) \/ daemon_answers(a) PROVE Recorded'
    BY <2>1, <2>4 DEF reach_daemon, daemon_answers, effects
  <2>5. ASSUME NEW s \in sending, send(s) PROVE Recorded'
    <3>1. /\ UNCHANGED <<answered, disputes>> /\ sending' = sending \ {s}
          /\ \A b \in Attempts : call'[b].pc = call[b].pc /\ call'[b].result = call[b].result
          /\ \A b \in Attempts \ {s.to} : call'[b].inbox = call[b].inbox
          /\ call[s.to].pc \in {"registered", "waiting"} => call'[s.to].inbox = s.msg
      BY <2>0, <2>5 DEF send, effects, Call
    <3>2. ASSUME NEW a \in Attempts, WaitingReply(a) PROVE WaitingReply(a)'
      <4>1. CASE a = s.to
        BY <2>0, <3>1, <3>2, <4>1 DEF WaitingReply, Settled, OneReply
      <4>2. CASE a # s.to
        BY <2>0, <3>1, <3>2, <4>2 DEF WaitingReply
      <4> QED
        BY <4>1, <4>2
    <3> QED
      BY <2>0, <3>1, <3>2 DEF Recorded, NeverElapsed, AcceptedHeld
  <2>6. ASSUME NEW k \in Keys, purge(k) PROVE Recorded'
    BY <2>1, <2>6 DEF purge, effects
  <2>7. CASE restart
    <3>1. UNCHANGED <<answered, disputes>>
      BY <2>7 DEF restart, effects
    <3>2. ASSUME NEW a \in Attempts
          PROVE  /\ call'[a].pc \in {"idle", "returned"} /\ call'[a].result = call[a].result
                 /\ call'[a].pc = "idle" => call[a].pc = "idle"
      <4>1. call'[a] = IF call[a].pc = "idle" THEN call[a]
                       ELSE [call[a] EXCEPT !.pc = "returned", !.inbox = NoReply]
        BY <2>7 DEF restart
      <4>2. call[a] \in Call
        BY <2>0
      <4>3. CASE call[a].pc = "idle"
        BY <4>1, <4>3
      <4>4. CASE call[a].pc # "idle"
        BY <4>1, <4>2, <4>4 DEF Call
      <4> QED
        BY <4>3, <4>4
    <3> QED
      BY <2>0, <3>1, <3>2 DEF Recorded, NeverElapsed, AcceptedHeld, WaitingReply, Settled,
                              ResultAtReturn
  <2>8. CASE tick
    BY <2>1, <2>8 DEF tick, effects
  <2>9. CASE UNCHANGED vars
    BY <2>1, <2>9 DEF vars, effects
  <2> QED
    BY <2>2, <2>3, <2>4, <2>5, <2>6, <2>7, <2>8, <2>9 DEF Next
<1>3. Recorded => AcceptedDisputeRecorded
  BY DEF Recorded, AcceptedHeld, WaitingReply, AcceptedDisputeRecorded
<1> QED
  BY <1>1, <1>2, <1>3, TypeInvariant, CorrelatedInvariant, SettledInvariant, PTL DEF Spec

(* A trade under dispute: no other request uses its key, and its           *)
(* subscription does not end.                                              *)
DisputesApart ==
    \A a \in Attempts : KindOf[a] = "Dispute" =>
        /\ KeyOf[a] \notin WatchedKeys
        /\ \A b \in Attempts : KeyOf[b] = KeyOf[a] => KindOf[b] = "Dispute"

Refused(k) == \E b \in Attempts : KeyOf[b] = k /\ "CantDo" \in Verdicts(b)

(* A dispute that runs or timed out can be answered, unless an attempt on  *)
(* its trade was accepted or refused.                                      *)
DisputeHeld ==
    restarts = 0 =>
        \A a \in Attempts :
            KindOf[a] = "Dispute" /\ (call[a].pc \in Flying \/ GaveUp(call, a)) =>
                \/ a \in Answerable(KeyOf[a])
                \/ DisputeAccepted(KeyOf[a])
                \/ Refused(KeyOf[a])

(* The steps of a call take at most its own nonce from a dispute record. *)
LEMMA CallStepAnswerable ==
    ASSUME DisputesApart, TypeInv, Settled, NEW a \in Attempts, CallStep(a),
           NEW b \in Attempts, KindOf[b] = "Dispute"
    PROVE  /\ b # a /\ b \in Answerable(KeyOf[b]) => b \in Answerable(KeyOf[b])'
           /\ b = a /\ (call'[a].pc \in Flying \/ GaveUp(call', a)) =>
                \/ register(a) /\ a \in Answerable(KeyOf[a])'
                \/ call[a].pc \in Flying /\ Answerable(KeyOf[a])' = Answerable(KeyOf[a])
<1> DEFINE k == KeyOf[a]
           p == pending[k]
<1>1. /\ k \in Keys /\ p \in Request /\ p.superseded \in Seq(Attempts)
      /\ pending \in [Keys -> Request] /\ call \in [Attempts -> Call]
  BY PendingAssumption DEF TypeInv, TypeOK, Request
<1>2. \A pc, result : call' = SetCall(a, pc, result) => call'[a].pc = pc /\ call'[a].result = result
  BY <1>1 DEF SetCall, Call
<1>3. RecordSound(k, p, call)
  BY <1>1 DEF Settled, RecordsSound
<1>4. \A j \in Keys : Answerable(j) = IF pending[j].kind = "Dispute"
                                      THEN {pending[j].id} \cup Older(pending[j].superseded) ELSE {}
  BY DEF Answerable, Older
<1>5. \A j \in Keys : Answerable(j)' = IF pending'[j].kind = "Dispute"
                                       THEN {pending'[j].id} \cup Older(pending'[j].superseded)
                                       ELSE {}
  BY DEF Answerable, Older
<1>6. KeyOf[b] \in Keys /\ (KeyOf[b] = k => KindOf[a] = "Dispute")
  BY PendingAssumption DEF DisputesApart
<1>7. ASSUME KeyOf[b] # k PROVE Answerable(KeyOf[b])' = Answerable(KeyOf[b])
  <2>1. pending'[KeyOf[b]] = pending[KeyOf[b]]
    BY <1>1, <1>6, <1>7 DEF CallStep, register, refuse, publish, publish_failed, receive, elapse,
                            detach
  <2> QED
    BY <1>4, <1>5, <1>6, <2>1
<1>8. CASE KeyOf[b] = k /\ register(a)
  <2>1. pending'[k] = NewRequest(a) /\ KindOf[a] = "Dispute" /\ call'[a].pc = "registered"
    BY <1>1, <1>2, <1>6, <1>8 DEF register
  <2>2. /\ NewRequest(a).kind = "Dispute" /\ NewRequest(a).id = a
        /\ NewRequest(a).superseded = superseded_by(a)
    BY <2>1 DEF NewRequest, request_id
  <2>3. p.kind = "Dispute" => p.id \in Attempts
    BY <1>3 DEF RecordSound
  <2>4. p.kind = "Dispute" => Older(superseded_by(a)) = Older(p.superseded) \cup {p.id}
    BY <1>1, <2>1, <2>3, OlderOf DEF superseded_by
  <2>5. a \in Answerable(k)' /\ Answerable(k) \subseteq Answerable(k)'
    BY <1>1, <1>4, <1>5, <2>1, <2>2, <2>4
  <2> QED
    BY <1>8, <2>5
<1>9. CASE KeyOf[b] = k /\ publish_failed(a)
  <2>1. /\ pending'[k] = RolledBack(a) /\ KindOf[a] = "Dispute"
        /\ call'[a].pc = "returned" /\ call'[a].result = "failed"
    BY <1>1, <1>2, <1>6, <1>9 DEF publish_failed
  <2>2. ASSUME b # a, b \in Answerable(k) PROVE b \in Answerable(k)'
    <3>1. CASE RolledBack(a) = p
      BY <1>1, <1>4, <1>5, <2>1, <2>2, <3>1
    <3>2. CASE RolledBack(a) # p
      <4> DEFINE n == Len(p.superseded)
                 rest == SubSeq(p.superseded, 1, n - 1)
                 r == [p EXCEPT !.id = p.superseded[n], !.tx = NoAttempt, !.superseded = rest]
      <4>1. p.id = a /\ RolledBack(a) = IF n > 0 THEN r ELSE NoRequest
        BY <2>1, <3>2 DEF RolledBack, request_id_matches, request_id
      <4>2. b \in Older(p.superseded) /\ p.kind = "Dispute"
        BY <1>1, <1>4, <2>2, <4>1
      <4>3. n > 0
        <5>1. n \in Nat /\ DOMAIN p.superseded = 1 .. n
          BY <1>1, LenProperties
        <5> QED
          BY <4>2, <5>1 DEF Older
      <4>4. Older(p.superseded) = Older(rest) \cup {p.superseded[n]}
        BY <1>1, <4>3, OlderOf
      <4>5. r.id = p.superseded[n] /\ r.kind = "Dispute" /\ r.superseded = rest
        BY <1>1, <4>2 DEF Request
      <4> HIDE DEF r, rest, n
      <4> QED
        BY <1>1, <1>5, <2>1, <4>1, <4>2, <4>3, <4>4, <4>5
    <3> QED
      BY <3>1, <3>2
  <2> QED
    BY <1>9, <2>1, <2>2 DEF Flying, GaveUp
<1>10. CASE KeyOf[b] = k /\ detach(a)
  <2>1. pending'[k] = Detached(a) /\ call[a].pc \in Flying
    BY <1>1, <1>10 DEF detach, Flying
  <2>2. Detached(a).id = p.id /\ Detached(a).kind = p.kind /\ Detached(a).superseded = p.superseded
    BY <1>1 DEF Detached, Request
  <2>3. Answerable(k)' = Answerable(k)
    BY <1>1, <1>4, <1>5, <2>1, <2>2
  <2> QED
    BY <1>10, <2>1, <2>3
<1>11. CASE refuse(a) \/ receive(a)
  <2>1. pending' = pending /\ call'[a].pc = "returned"
    BY <1>2, <1>11 DEF refuse, receive
  <2>2. call'[a].result # "noresponse"
    <3>1. call[a].inbox.reply # "noresponse"
      BY <1>1 DEF Call, Reply, Replies
    <3> QED
      BY <1>2, <1>11, <3>1 DEF refuse, receive
  <2>3. Answerable(KeyOf[b])' = Answerable(KeyOf[b])
    BY <1>4, <1>5, <1>6, <2>1
  <2> QED
    BY <2>1, <2>2, <2>3 DEF GaveUp, Flying
<1>12. CASE publish(a) \/ elapse(a)
  <2>1. pending' = pending /\ call[a].pc \in Flying
    BY <1>12 DEF publish, elapse, Flying
  <2>2. Answerable(KeyOf[b])' = Answerable(KeyOf[b])
    BY <1>4, <1>5, <1>6, <2>1
  <2> QED
    BY <2>1, <2>2
<1> QED
  BY <1>7, <1>8, <1>9, <1>10, <1>11, <1>12 DEF CallStep

(* A message that takes a nonce from a dispute record accepts the dispute, *)
(* or refuses it.                                                          *)
LEMMA DispatchAnswerable ==
    ASSUME DisputesApart, TypeInv, Settled, NEW m \in net, dispatch(m),
           NEW k \in Keys, NEW b \in Answerable(k)
    PROVE  b \in Answerable(k)' \/ DisputeAccepted(k)' \/ Refused(k)
<1> DEFINE p == pending[m.key]
<1>1. /\ m.key \in Keys /\ m.rid \in Attempts \cup {NoAttempt} /\ p \in Request
      /\ p.superseded \in Seq(Attempts) /\ pending \in [Keys -> Request]
  BY DEF TypeInv, TypeOK, Message, Request
<1>2. RecordSound(m.key, p, call)
  BY <1>1 DEF Settled, RecordsSound
<1>3. CASE pending'[k] = pending[k]
  BY <1>3 DEF Answerable
<1>4. CASE pending'[k] # pending[k]
  <2>1. k = m.key
    BY <1>1, <1>4 DEF dispatch, dispatch_take, dispatch_ack, dispatch_older_dispute,
                      dispatch_dispute, dispatch_new_order, dispatch_create_bond, dispatch_restore,
                      dispatch_cant_do, dispatch_unmatched, Consume
  <2>2. p.kind = "Dispute"
    BY <2>1 DEF Answerable
  <2>3. dispatch_older_dispute(m) \/ dispatch_dispute(m) \/ dispatch_cant_do(m)
    BY <1>4, <2>2 DEF dispatch, dispatch_take, dispatch_ack, dispatch_new_order,
                      dispatch_create_bond, dispatch_restore, dispatch_unmatched, TakesTake,
                      TakesInvoice, TakesClaim, TakesCreate, TakesBond, TakesRestore
  <2>4. CASE dispatch_older_dispute(m)
    <3>1. m.rid \in Older(p.superseded) /\ m.rid \in Attempts
      BY <1>1, <2>4, OlderOf DEF dispatch_older_dispute, TakesOlder
    <3>2. KindOf[m.rid] = "Dispute" /\ KeyOf[m.rid] = k
      BY <1>2, <2>1, <3>1 DEF RecordSound
    <3>3. m.rid \in answered'
      BY <2>4, <3>1, PendingAssumption DEF dispatch_older_dispute, Answer
    <3> QED
      BY <3>2, <3>3 DEF DisputeAccepted
  <2>5. CASE dispatch_dispute(m)
    <3>1. m.rid = p.id
      BY <2>5 DEF dispatch_dispute, TakesDispute, request_id_matches
    <3>2. m.rid \in Attempts /\ KindOf[m.rid] = "Dispute" /\ KeyOf[m.rid] = k
      BY <1>2, <2>1, <2>2, <3>1 DEF RecordSound
    <3>3. m.rid \in answered'
      BY <2>5, <3>2, PendingAssumption DEF dispatch_dispute, Answer
    <3> QED
      BY <3>2, <3>3 DEF DisputeAccepted
  <2>6. CASE dispatch_cant_do(m)
    <3>1. m.rid = p.id /\ m.action = "CantDo"
      BY <2>6 DEF dispatch_cant_do, TakesRejected, request_id_matches
    <3>2. m.rid \in Attempts /\ KeyOf[m.rid] = k
      BY <1>2, <2>1, <2>2, <3>1 DEF RecordSound
    <3>3. "CantDo" \in Verdicts(m.rid)
      BY <3>1 DEF Verdicts
    <3> QED
      BY <3>2, <3>3 DEF Refused
  <2> QED
    BY <2>3, <2>4, <2>5, <2>6
<1> QED
  BY <1>3, <1>4

(* Every timed-out open_dispute stays answerable through any number of     *)
(* retries, failed retries and roll-backs, unless the daemon refused an    *)
(* attempt; a dispute that a late acceptance could still match is only     *)
(* forgotten with its process.                                             *)
THEOREM TimedOutAnswerable == ASSUME DisputesApart PROVE Spec => []AnswerableUnlessRefused
<1>1. Init => DisputeHeld
  BY DEF Init, DisputeHeld, Flying, GaveUp
<1>2. TypeInv /\ Correlated /\ Settled /\ DisputeHeld /\ [Next]_vars => DisputeHeld'
  <2> SUFFICES ASSUME TypeInv, Correlated, Settled, DisputeHeld, [Next]_vars, restarts' = 0,
                      NEW a \in Attempts, KindOf[a] = "Dispute",
                      call'[a].pc \in Flying \/ GaveUp(call', a)
               PROVE  a \in Answerable(KeyOf[a])' \/ DisputeAccepted(KeyOf[a])' \/ Refused(KeyOf[a])'
    BY DEF DisputeHeld, GaveUp
  <2>0. /\ pending \in [Keys -> Request] /\ call \in [Attempts -> Call] /\ KeyOf[a] \in Keys
        /\ \A s \in sending : s.to \in Attempts
        /\ restarts \in Nat
    BY PendingAssumption DEF TypeInv, TypeOK
  <2>1. ~restart
    <3>1. restart => restarts' = restarts + 1
      BY DEF restart
    <3> QED
      BY <2>0, <3>1
  <2>2. restarts = 0
    BY <2>1 DEF Next, CallStep, register, refuse, publish, publish_failed, receive, elapse, detach,
                reach_daemon, daemon_answers, dispatch, send, purge, tick, vars, env
  <2>3. answered \subseteq answered' /\ net \subseteq net'
    BY <2>1 DEF Next, CallStep, register, refuse, publish, publish_failed, receive, elapse, detach,
                reach_daemon, daemon_answers, dispatch, dispatch_take, dispatch_ack,
                dispatch_older_dispute, dispatch_dispute, dispatch_new_order, dispatch_create_bond,
                dispatch_restore, dispatch_cant_do, dispatch_unmatched, Answer, send, purge, tick,
                vars, effects, wire
  <2>4. /\ DisputeAccepted(KeyOf[a]) => DisputeAccepted(KeyOf[a])'
        /\ Refused(KeyOf[a]) => Refused(KeyOf[a])'
    BY <2>3 DEF DisputeAccepted, Refused, Verdicts
  <2>5. ASSUME call[a].pc \in Flying \/ GaveUp(call, a),
               a \in Answerable(KeyOf[a]) =>
                 a \in Answerable(KeyOf[a])' \/ DisputeAccepted(KeyOf[a])' \/ Refused(KeyOf[a])
        PROVE  a \in Answerable(KeyOf[a])' \/ DisputeAccepted(KeyOf[a])' \/ Refused(KeyOf[a])'
    BY <2>2, <2>4, <2>5 DEF DisputeHeld
  <2>6. ASSUME pending' = pending, call'[a].pc = call[a].pc, call'[a].result = call[a].result
        PROVE  a \in Answerable(KeyOf[a])' \/ DisputeAccepted(KeyOf[a])' \/ Refused(KeyOf[a])'
    BY <2>5, <2>6 DEF Answerable, GaveUp
  <2>7. ASSUME NEW b \in Attempts, CallStep(b)
        PROVE  a \in Answerable(KeyOf[a])' \/ DisputeAccepted(KeyOf[a])' \/ Refused(KeyOf[a])'
    <3>1. CASE a = b
      BY <2>5, <2>7, <3>1, CallStepAnswerable
    <3>2. CASE a # b
      <4>1. call'[a] = call[a]
        BY <2>7, <3>2, CallStepFrame DEF Settled
      <4> QED
        BY <2>5, <2>7, <3>2, <4>1, CallStepAnswerable DEF GaveUp
    <3> QED
      BY <3>1, <3>2
  <2>8. ASSUME NEW m \in net, dispatch(m)
        PROVE  a \in Answerable(KeyOf[a])' \/ DisputeAccepted(KeyOf[a])' \/ Refused(KeyOf[a])'
    <3>1. call' = call
      BY <2>8 DEF dispatch
    <3> QED
      BY <2>0, <2>5, <2>8, <3>1, DispatchAnswerable
  <2>9. ASSUME NEW b \in Attempts, reach_daemon(b) \/ daemon_answers(b)
        PROVE  a \in Answerable(KeyOf[a])' \/ DisputeAccepted(KeyOf[a])' \/ Refused(KeyOf[a])'
    BY <2>6, <2>9 DEF reach_daemon, daemon_answers
  <2>10. ASSUME NEW s \in sending, send(s)
         PROVE  a \in Answerable(KeyOf[a])' \/ DisputeAccepted(KeyOf[a])' \/ Refused(KeyOf[a])'
    BY <2>0, <2>6, <2>10 DEF send, Call
  <2>11. ASSUME NEW k \in Keys, purge(k)
         PROVE  a \in Answerable(KeyOf[a])' \/ DisputeAccepted(KeyOf[a])' \/ Refused(KeyOf[a])'
    <3>1. KeyOf[a] # k /\ call' = call
      BY <2>11 DEF purge, DisputesApart
    <3>2. pending'[KeyOf[a]] = pending[KeyOf[a]]
      BY <2>0, <2>11, <3>1 DEF purge
    <3> QED
      BY <2>5, <3>1, <3>2 DEF Answerable
  <2>12. CASE tick \/ UNCHANGED vars
    BY <2>6, <2>12 DEF tick, vars
  <2> QED
    BY <2>1, <2>7, <2>8, <2>9, <2>10, <2>11, <2>12 DEF Next
<1>3. DisputeHeld => AnswerableUnlessRefused
  BY DEF DisputeHeld, AnswerableUnlessRefused, TimedOut, GaveUp, Refused
<1> QED
  BY <1>1, <1>2, <1>3, TypeInvariant, CorrelatedInvariant, SettledInvariant, PTL DEF Spec
=============================================================================
