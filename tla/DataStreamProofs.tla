------------------------- MODULE DataStreamProofs -------------------------
(* Theorems about DataStream, for every number of links, sessions and       *)
(* segments, every window, ring size and fan-out.                           *)
EXTENDS DataStream, FiniteSetTheorems, TLAPS

-----------------------------------------------------------------------------
(* What the helpers return.                                                 *)

(* One more segment sent moves the send number up by at most one. *)
LEMMA PlusOneBound ==
    ASSUME NEW a \in SeqNum, NEW m \in Nat, a <= m
    PROVE  Plus(a, 1) <= m + 1
BY WindowAssumption DEF Plus, SeqNum

(* Unsigned addition of at most one turn stays in range. *)
LEMMA PlusType ==
    ASSUME NEW s \in SeqNum, NEW n \in 0..SeqMod
    PROVE  Plus(s, n) \in SeqNum
BY WindowAssumption DEF Plus, SeqNum

(* A fresh SessionState is a session. *)
LEMMA NewSessionType ==
    ASSUME NEW h \in BOOLEAN
    PROVE  NewSession(h) \in Session
BY WindowAssumption DEF NewSession, Session, Slot, SeqNum

(* emplace keeps a session a session. *)
LEMMA EmplaceType ==
    ASSUME NEW s \in Session, NEW seg \in Segment
    PROVE  Emplace(s, seg) \in Session
BY DEF Emplace, Session, Segment

(* So does deliverInOrder. *)
LEMMA DeliverType ==
    ASSUME NEW s \in Session, NEW n \in 0..SeqMod
    PROVE  deliverInOrder(s, n) \in Session
<1>1. Plus(s.expected_rx_seq, n) \in SeqNum
  BY PlusType DEF Session
<1>2. [i \in SeqNum |-> IF i \in Run(s, n) THEN NoPayload ELSE s.rx_buffer[i]] \in [SeqNum -> Slot]
  BY DEF Session, Slot
<1> QED
  BY <1>1, <1>2 DEF deliverInOrder, Session

(* What deliverInOrder takes out of rx_buffer are payloads. *)
LEMMA TakenType ==
    ASSUME NEW s \in Session, NEW n \in 0..SeqMod, RunLength(s, n)
    PROVE  Taken(s, n) \in Seq(Payloads) /\ Len(Taken(s, n)) = n
<1>1. ASSUME NEW i \in 1..n
      PROVE  s.rx_buffer[Plus(s.expected_rx_seq, i - 1)] \in Payloads
  <2>1. i - 1 \in 0..(n - 1) /\ i - 1 \in 0..SeqMod
    BY WindowAssumption
  <2>2. Plus(s.expected_rx_seq, i - 1) \in LeftAfter(s, i - 1)
    BY <2>1 DEF RunLength, CanTake, IsBegin
  <2>3. /\ Plus(s.expected_rx_seq, i - 1) \in SeqNum
        /\ s.rx_buffer[Plus(s.expected_rx_seq, i - 1)] # NoPayload
    BY <2>2 DEF LeftAfter
  <2> QED
    BY <2>3 DEF Session, Slot
<1>2. n \in Nat
  BY WindowAssumption
<1> QED
  BY <1>1, <1>2 DEF Taken

(* The dedup ring keeps its type and its size. *)
LEMMA RememberType ==
    ASSUME NEW q \in Seq(DedupKeyType), Len(q) <= DedupRing, NEW dk \in DedupKeyType
    PROVE  Remember(q, dk) \in Seq(DedupKeyType) /\ Len(Remember(q, dk)) <= DedupRing
<1>1. CASE Len(q) < DedupRing
  BY <1>1, WindowAssumption DEF Remember
<1>2. CASE ~(Len(q) < DedupRing)
  <2>1. q # <<>> /\ Len(q) = DedupRing
    BY <1>2, WindowAssumption
  <2>2. Tail(q) \in Seq(DedupKeyType) /\ Len(Tail(q)) = Len(q) - 1
    BY <2>1
  <2> QED
    BY <1>2, <2>1, <2>2, WindowAssumption DEF Remember
<1> QED
  BY <1>1, <1>2

(* Writing copies of a segment to links keeps the queues queues. *)
LEMMA CopiesType ==
    ASSUME NEW e \in End, NEW S, NEW seg \in Segment,
           net \in [End -> [Links -> Seq(Segment)]]
    PROVE  WithCopies(e, S, seg) \in [Links -> Seq(Segment)]
BY DEF WithCopies, Peer, End

LEMMA MarkerType ==
    ASSUME NEW kind \in {"SYN", "FIN"}, NEW k \in Keys, NEW seq \in SeqNum
    PROVE  Marker(kind, k, seq) \in Segment
BY DEF Marker, Segment, Slot

LEMMA PeerType == ASSUME NEW e \in End PROVE Peer(e) \in End /\ Peer(e) # e
BY DEF Peer, End

-----------------------------------------------------------------------------
(* Type correctness.                                                        *)

(* A marker or a data segment sent by end e keeps net well typed. *)
LEMMA SendType ==
    ASSUME net \in [End -> [Links -> Seq(Segment)]], NEW e \in End,
           NEW seg \in Segment, sendSegment(e, seg)
    PROVE  net' \in [End -> [Links -> Seq(Segment)]]
BY CopiesType, PeerType DEF sendSegment

(* Reading a segment keeps net well typed. *)
LEMMA DropType ==
    ASSUME net \in [End -> [Links -> Seq(Segment)]], NEW e \in End, NEW l \in Links,
           net[e][l] # <<>>, Drop(e, l)
    PROVE  net' \in [End -> [Links -> Seq(Segment)]]
<1>1. Tail(net[e][l]) \in Seq(Segment)
  OBVIOUS
<1> QED
  BY <1>1 DEF Drop

(* Recording a dedup key keeps the rings well typed. *)
LEMMA RecordType ==
    ASSUME dedup \in [End -> Seq(DedupKeyType)], \A d \in End : Len(dedup[d]) <= DedupRing,
           NEW e \in End, NEW seg \in Segment, Record(e, seg)
    PROVE  /\ dedup' \in [End -> Seq(DedupKeyType)]
           /\ \A d \in End : Len(dedup'[d]) <= DedupRing
<1>1. DedupKey(seg) \in DedupKeyType
  BY DEF DedupKey, DedupKeyType, Segment
<1>2. /\ Remember(dedup[e], DedupKey(seg)) \in Seq(DedupKeyType)
      /\ Len(Remember(dedup[e], DedupKey(seg))) <= DedupRing
  BY <1>1, RememberType
<1>3. dedup' = [dedup EXCEPT ![e] = Remember(dedup[e], DedupKey(seg))]
  BY DEF Record
<1> QED
  BY <1>2, <1>3

(* Starting a handler keeps the history well typed. *)
LEMMA NewHandlerType ==
    ASSUME TypeOK, NEW e \in End, NEW k \in Keys, NewHandler(e, k)
    PROVE  /\ instances' \in [End -> [Keys -> Nat]]
           /\ prior' \in [End -> [Keys -> Nat]]
           /\ eof' \in [End -> [Keys -> BOOLEAN]]
<1>1. instances[e][k] + 1 \in Nat /\ prior[e][k] + Len(handed[e][k]) \in Nat
  BY DEF TypeOK
<1> QED
  BY <1>1 DEF TypeOK, NewHandler

(* What end e reads next from link l. *)
LEMMA HeadType ==
    ASSUME net \in [End -> [Links -> Seq(Segment)]], NEW e \in End, NEW l \in Links,
           net[e][l] # <<>>
    PROVE  Head(net[e][l]) \in Segment
OBVIOUS

(* Replacing one session by a session, or erasing it, keeps sessions well typed. *)
LEMMA SessionUpdateType ==
    ASSUME sessions \in [End -> [Keys -> Session \cup {NoSession}]],
           NEW e \in End, NEW k \in Keys, NEW s \in Session \cup {NoSession},
           sessions' = [sessions EXCEPT ![e][k] = s]
    PROVE  sessions' \in [End -> [Keys -> Session \cup {NoSession}]]
OBVIOUS

(* Init establishes TypeOK. *)
LEMMA TypeInit == Init => TypeOK
BY BoundsAssumption, WindowAssumption DEF Init, TypeOK, End

(* A step preserves TypeOK. *)
LEMMA TypeStep == TypeOK /\ [Next]_vars => TypeOK'
<1> SUFFICES ASSUME TypeOK, [Next]_vars PROVE TypeOK'
  OBVIOUS
<1>1. ASSUME NEW k \in Keys, openSession(k) PROVE TypeOK'
  <2> DEFINE m == Marker("SYN", k, 0)
  <2>1. m \in Segment /\ "inport" \in End
    BY MarkerType, WindowAssumption DEF SeqNum, End
  <2>2. net' \in [End -> [Links -> Seq(Segment)]]
    BY <1>1, <2>1, SendType DEF openSession, TypeOK
  <2>3. sessions' \in [End -> [Keys -> Session \cup {NoSession}]]
    BY <1>1, <2>1, NewSessionType, SessionUpdateType DEF openSession, TypeOK
  <2>4. handed' \in [End -> [Keys -> Seq(Payloads)]]
    BY <1>1, <2>1 DEF openSession, TypeOK
  <2> QED
    BY <1>1, <2>1, <2>2, <2>3, <2>4, NewHandlerType DEF openSession, TypeOK
<1>2. ASSUME NEW e \in End, NEW k \in Keys, NEW p \in Payloads, sendSessionData(e, k, p)
      PROVE  TypeOK'
  <2> DEFINE s == sessions[e][k]
             seg == [kind |-> "DATA", key |-> k, seq |-> s.next_send_seq, payload |-> p]
  <2>1. s \in Session
    BY <1>2 DEF sendSessionData, TypeOK
  <2>2. seg \in Segment
    BY <2>1 DEF Segment, Session, Slot
  <2>3. net' \in [End -> [Links -> Seq(Segment)]]
    BY <1>2, <2>2, SendType DEF sendSessionData, TypeOK
  <2>4. Plus(s.next_send_seq, 1) \in SeqNum
    BY <2>1, PlusType, WindowAssumption DEF Session
  <2>5. [s EXCEPT !.next_send_seq = Plus(s.next_send_seq, 1)] \in Session
    BY <2>1, <2>4 DEF Session
  <2>6. sessions' = [sessions EXCEPT ![e][k] = [s EXCEPT !.next_send_seq = Plus(s.next_send_seq, 1)]]
    BY <1>2 DEF sendSessionData
  <2>7. sessions' \in [End -> [Keys -> Session \cup {NoSession}]]
    BY <2>5, <2>6, SessionUpdateType DEF TypeOK
  <2>8. sent' \in [End -> [Keys -> Seq(Payloads)]]
    BY <1>2 DEF sendSessionData, TypeOK
  <2> QED
    BY <1>2, <2>3, <2>7, <2>8 DEF sendSessionData, TypeOK
<1>3. ASSUME NEW e \in End, NEW k \in Keys, closeSession(e, k) PROVE TypeOK'
  <2> DEFINE m == Marker("FIN", k, sessions[e][k].next_send_seq)
  <2>1. sessions[e][k] \in Session
    BY <1>3 DEF closeSession, TypeOK
  <2>2. m \in Segment
    BY <2>1, MarkerType DEF Session
  <2>3. net' \in [End -> [Links -> Seq(Segment)]]
    BY <1>3, <2>2, SendType DEF closeSession, TypeOK
  <2>4. sessions' \in [End -> [Keys -> Session \cup {NoSession}]]
    BY <1>3, SessionUpdateType DEF closeSession, TypeOK
  <2> QED
    BY <1>3, <2>3, <2>4 DEF closeSession, TypeOK, history
<1>4. ASSUME NEW e \in End, NEW l \in Links, ReceiveDuplicate(e, l) PROVE TypeOK'
  <2>1. net' \in [End -> [Links -> Seq(Segment)]]
    BY <1>4, DropType DEF ReceiveDuplicate, TypeOK
  <2> QED
    BY <1>4, <2>1 DEF ReceiveDuplicate, TypeOK, history
<1>5. ASSUME NEW e \in End, NEW l \in Links, ReceiveOutOfWindow(e, l) PROVE TypeOK'
  <2>1. net' \in [End -> [Links -> Seq(Segment)]]
    BY <1>5, DropType DEF ReceiveOutOfWindow, TypeOK
  <2> QED
    BY <1>5, <2>1 DEF ReceiveOutOfWindow, TypeOK, history
<1>6. ASSUME NEW e \in End, NEW l \in Links, ReceiveSyn(e, l) PROVE TypeOK'
  <2> DEFINE seg == Head(net[e][l])
             k == seg.key
  <2>1. net[e][l] # <<>> /\ seg \in Segment /\ k \in Keys
    BY <1>6, HeadType DEF ReceiveSyn, Accepts, TypeOK, Segment
  <2>2. net' \in [End -> [Links -> Seq(Segment)]]
    BY <1>6, <2>1, DropType DEF ReceiveSyn, TypeOK
  <2>3. dedup' \in [End -> Seq(DedupKeyType)] /\ \A d \in End : Len(dedup'[d]) <= DedupRing
    BY <1>6, <2>1, RecordType DEF ReceiveSyn, Accepts, TypeOK
  <2>4. unknown_cb(e) \in BOOLEAN
    BY DEF unknown_cb
  <2>5. sessions' \in [End -> [Keys -> Session \cup {NoSession}]]
    BY <1>6, <2>1, <2>4, NewSessionType, SessionUpdateType DEF ReceiveSyn, TypeOK
  <2>6. /\ instances' \in [End -> [Keys -> Nat]]
        /\ prior' \in [End -> [Keys -> Nat]]
        /\ eof' \in [End -> [Keys -> BOOLEAN]]
    BY <1>6, <2>1, NewHandlerType DEF ReceiveSyn, TypeOK
  <2>7. handed' \in [End -> [Keys -> Seq(Payloads)]]
    <3>1. handed' = handed \/ handed' = [handed EXCEPT ![e][k] = <<>>]
      BY <1>6 DEF ReceiveSyn
    <3>2. <<>> \in Seq(Payloads)
      OBVIOUS
    <3>3. handed \in [End -> [Keys -> Seq(Payloads)]]
      BY DEF TypeOK
    <3>4. [handed EXCEPT ![e][k] = <<>>] \in [End -> [Keys -> Seq(Payloads)]]
      BY <2>1, <3>2, <3>3
    <3> QED
      BY <3>1, <3>3, <3>4
  <2> QED
    BY <1>6, <2>2, <2>3, <2>5, <2>6, <2>7 DEF ReceiveSyn, TypeOK
<1>7. ASSUME NEW e \in End, NEW l \in Links, ReceiveFin(e, l) PROVE TypeOK'
  <2> DEFINE seg == Head(net[e][l])
             k == seg.key
             s == sessions[e][k]
             m == Marker("FIN", k, s.next_send_seq)
  <2>1. net[e][l] # <<>> /\ seg \in Segment /\ k \in Keys /\ Tail(net[e][l]) \in Seq(Segment)
    <3>1. net[e][l] # <<>> /\ net[e][l] \in Seq(Segment)
      BY <1>7 DEF ReceiveFin, Accepts, TypeOK
    <3>2. seg \in Segment /\ Tail(net[e][l]) \in Seq(Segment)
      BY <3>1
    <3> QED
      BY <3>1, <3>2 DEF Segment
  <2>2. dedup' \in [End -> Seq(DedupKeyType)] /\ \A d \in End : Len(dedup'[d]) <= DedupRing
    BY <1>7, <2>1, RecordType DEF ReceiveFin, Accepts, TypeOK
  <2>3. sessions' \in [End -> [Keys -> Session \cup {NoSession}]]
    BY <1>7, <2>1, SessionUpdateType DEF ReceiveFin, TypeOK
  <2>4. net' \in [End -> [Links -> Seq(Segment)]] /\ eof' \in [End -> [Keys -> BOOLEAN]]
    <3>1. CASE s # NoSession /\ s.handler
      <4>1. s \in Session
        BY <2>1, <3>1 DEF TypeOK
      <4>2. m \in Segment
        BY <2>1, <4>1, MarkerType DEF Session
      <4>3. PICK S \in Selections(e) :
               net' = [net EXCEPT ![e][l] = Tail(@), ![Peer(e)] = WithCopies(e, S, m)]
        BY <1>7, <3>1 DEF ReceiveFin
      <4>4. WithCopies(e, S, m) \in [Links -> Seq(Segment)]
        BY <4>2, CopiesType DEF TypeOK
      <4>5. net' \in [End -> [Links -> Seq(Segment)]]
        BY <2>1, <4>3, <4>4, PeerType DEF TypeOK
      <4>6. eof' = [eof EXCEPT ![e][k] = TRUE]
        BY <1>7, <3>1 DEF ReceiveFin
      <4> QED
        BY <2>1, <4>5, <4>6 DEF TypeOK
    <3>2. CASE ~(s # NoSession /\ s.handler)
      <4>1. Drop(e, l) /\ eof' = eof
        BY <1>7, <3>2 DEF ReceiveFin
      <4> QED
        BY <2>1, <4>1, DropType DEF TypeOK
    <3> QED
      BY <3>1, <3>2
  <2> QED
    BY <1>7, <2>2, <2>3, <2>4 DEF ReceiveFin, TypeOK
<1>8. ASSUME NEW e \in End, NEW l \in Links, ReceiveData(e, l) PROVE TypeOK'
  <2> DEFINE seg == Head(net[e][l])
             k == seg.key
             new == sessions[e][k] = NoSession
             s == Emplace(IF new THEN NewSession(unknown_cb(e)) ELSE sessions[e][k], seg)
  <2>1. net[e][l] # <<>> /\ seg \in Segment /\ k \in Keys
    BY <1>8, HeadType DEF ReceiveData, Accepts, TypeOK, Segment
  <2>2. net' \in [End -> [Links -> Seq(Segment)]]
    BY <1>8, <2>1, DropType DEF ReceiveData, TypeOK
  <2>3. dedup' \in [End -> Seq(DedupKeyType)] /\ \A d \in End : Len(dedup'[d]) <= DedupRing
    BY <1>8, <2>1, RecordType DEF ReceiveData, Accepts, TypeOK
  <2>4. (IF new THEN NewSession(unknown_cb(e)) ELSE sessions[e][k]) \in Session
    <3>1. NewSession(unknown_cb(e)) \in Session
      BY NewSessionType DEF unknown_cb
    <3>2. sessions[e][k] \in Session \cup {NoSession}
      BY <2>1 DEF TypeOK
    <3> QED
      BY <3>1, <3>2
  <2>5. s \in Session
    BY <2>1, <2>4, EmplaceType
  <2>6. PICK n \in 0..SeqMod :
          /\ RunLength(s, n)
          /\ sessions' = [sessions EXCEPT ![e][k] = deliverInOrder(s, n)]
          /\ handed' = [handed EXCEPT ![e][k] =
                            (IF new /\ s.handler THEN <<>> ELSE @) \o Taken(s, n)]
    BY <1>8 DEF ReceiveData
  <2>7. sessions' \in [End -> [Keys -> Session \cup {NoSession}]]
    BY <2>1, <2>5, <2>6, DeliverType, SessionUpdateType DEF TypeOK
  <2>8. (IF new /\ s.handler THEN <<>> ELSE handed[e][k]) \o Taken(s, n) \in Seq(Payloads)
    <3>1. Taken(s, n) \in Seq(Payloads)
      BY <2>5, <2>6, TakenType
    <3>2. handed[e][k] \in Seq(Payloads) /\ <<>> \in Seq(Payloads)
      BY <2>1 DEF TypeOK
    <3>3. ASSUME NEW b \in Seq(Payloads) PROVE b \o Taken(s, n) \in Seq(Payloads)
      BY <3>1
    <3> QED
      BY <3>2, <3>3
  <2>9. handed' \in [End -> [Keys -> Seq(Payloads)]]
    BY <2>1, <2>6, <2>8 DEF TypeOK
  <2>10. /\ instances' \in [End -> [Keys -> Nat]]
         /\ prior' \in [End -> [Keys -> Nat]]
         /\ eof' \in [End -> [Keys -> BOOLEAN]]
    <3>1. NewHandler(e, k) \/ UNCHANGED <<prior, instances, eof>>
      BY <1>8 DEF ReceiveData
    <3> QED
      BY <2>1, <3>1, NewHandlerType DEF TypeOK
  <2> QED
    BY <1>8, <2>2, <2>3, <2>7, <2>9, <2>10 DEF ReceiveData, TypeOK
<1>9. ASSUME NEW e \in End, NEW l \in Links, LinkDown(e, l) \/ LinkDownNoticed(e, l)
      PROVE  TypeOK'
  <2>1. live' = [live EXCEPT ![e] = @ \ {l}] /\ net' = [net EXCEPT ![e][l] = <<>>]
    BY <1>9 DEF LinkDown, LinkDownNoticed
  <2>2. <<>> \in Seq(Segment)
    OBVIOUS
  <2>3. net' \in [End -> [Links -> Seq(Segment)]]
    BY <2>1, <2>2 DEF TypeOK
  <2>4. live' \in [End -> SUBSET Links]
    BY <2>1 DEF TypeOK
  <2>5. downs' \in Nat
    BY <1>9 DEF LinkDown, LinkDownNoticed, TypeOK
  <2>6. UNCHANGED <<sessions, dedup, sent, handed, prior, instances, eof>>
    BY <1>9 DEF LinkDown, LinkDownNoticed, history
  <2> QED
    BY <2>3, <2>4, <2>5, <2>6 DEF TypeOK
<1>10. ASSUME NEW l \in Links, LinkUp(l) PROVE TypeOK'
  BY <1>10 DEF LinkUp, TypeOK, history
<1>11. ASSUME UNCHANGED vars PROVE TypeOK'
  BY <1>11 DEF vars, TypeOK
<1> QED
  BY <1>1, <1>2, <1>3, <1>4, <1>5, <1>6, <1>7, <1>8, <1>9, <1>10, <1>11 DEF Next, onChannelBytes

(* TypeOK is an invariant: sequence numbers never leave the unsigned range, *)
(* the dedup ring never outgrows kDedupRing and rx_buffer, net and the      *)
(* streams hold nothing but segments and payloads.                          *)
THEOREM TypeCorrect == Spec => []TypeOK
BY TypeInit, TypeStep, PTL DEF Spec

-----------------------------------------------------------------------------
(* The receive window, for any numbering, wrapped or not.                   *)

(* Everything session s buffers lies in its window. *)
Windowed(s) ==
    \A i \in SeqNum : s.rx_buffer[i] # NoPayload => Rel(i, s.expected_rx_seq) < RecvWindow

(* Moving the start of the window over the run that deliverInOrder took     *)
(* brings the other numbers closer, never past the end of the window.       *)
LEMMA RelAfterRun ==
    ASSUME NEW exp \in SeqNum, NEW n \in 0..SeqMod, NEW i \in SeqNum,
           \A m \in 0..(n - 1) : i # Plus(exp, m)
    PROVE  Rel(i, Plus(exp, n)) <= Rel(i, exp)
<1>1. Rel(i, exp) \in 0..(SeqMod - 1)
  BY WindowAssumption DEF Rel, SeqNum
<1>2. Plus(exp, Rel(i, exp)) = i
  BY WindowAssumption DEF Rel, Plus, SeqNum
<1>3. Rel(i, exp) >= n
  <2>1. SUFFICES ASSUME Rel(i, exp) < n PROVE FALSE
    BY <1>1, WindowAssumption
  <2>2. Rel(i, exp) \in 0..(n - 1)
    BY <1>1, <2>1, WindowAssumption
  <2> QED
    BY <1>2, <2>2
<1>4. i \in Int /\ exp \in Int /\ n \in Int /\ SeqMod \in Int
  BY WindowAssumption DEF SeqNum
<1> QED
  BY <1>3, <1>4, WindowAssumption DEF Rel, Plus, SeqNum

(* deliverInOrder keeps a windowed session windowed. *)
LEMMA DeliverWindowed ==
    ASSUME NEW s \in Session, NEW n \in 0..SeqMod, Windowed(s)
    PROVE  Windowed(deliverInOrder(s, n))
<1> DEFINE d == deliverInOrder(s, n)
<1>1. d.expected_rx_seq = Plus(s.expected_rx_seq, n)
  BY DEF deliverInOrder, Session
<1>2. d.rx_buffer = [i \in SeqNum |-> IF i \in Run(s, n) THEN NoPayload ELSE s.rx_buffer[i]]
  BY DEF deliverInOrder, Session
<1>3. SUFFICES ASSUME NEW i \in SeqNum, d.rx_buffer[i] # NoPayload
               PROVE  Rel(i, d.expected_rx_seq) < RecvWindow
  BY DEF Windowed
<1>4. i \notin Run(s, n) /\ s.rx_buffer[i] # NoPayload
  BY <1>2, <1>3
<1>5. s.expected_rx_seq \in SeqNum
  BY DEF Session
<1>6. Rel(i, Plus(s.expected_rx_seq, n)) <= Rel(i, s.expected_rx_seq)
  BY <1>3, <1>4, <1>5, RelAfterRun DEF Run
<1>7. Rel(i, s.expected_rx_seq) < RecvWindow
  BY <1>3, <1>4 DEF Windowed
<1>8. Plus(s.expected_rx_seq, n) \in SeqNum
  BY <1>5, PlusType
<1>9. /\ Rel(i, s.expected_rx_seq) \in Int
      /\ Rel(i, Plus(s.expected_rx_seq, n)) \in Int
  BY <1>3, <1>5, <1>8, WindowAssumption DEF Rel, SeqNum
<1> QED
  BY <1>1, <1>6, <1>7, <1>9, WindowAssumption

(* A fresh session is windowed: it buffers nothing. *)
LEMMA NewWindowed == ASSUME NEW h \in BOOLEAN PROVE Windowed(NewSession(h))
BY DEF Windowed, NewSession

(* A segment inside the window keeps the session windowed. *)
LEMMA EmplaceWindowed ==
    ASSUME NEW s \in Session, NEW seg \in Segment, Windowed(s),
           Rel(seg.seq, s.expected_rx_seq) < RecvWindow
    PROVE  Windowed(Emplace(s, seg))
<1> DEFINE t == Emplace(s, seg)
<1>1. t.expected_rx_seq = s.expected_rx_seq
  BY DEF Emplace, Session
<1>2. ASSUME NEW i \in SeqNum, i # seg.seq PROVE t.rx_buffer[i] = s.rx_buffer[i]
  BY <1>2 DEF Emplace, Session, Segment
<1> QED
  BY <1>1, <1>2 DEF Windowed

(* The session that ReceiveData starts from. *)
Base(e, k) == IF sessions[e][k] = NoSession THEN NewSession(unknown_cb(e)) ELSE sessions[e][k]

LEMMA BaseType ==
    ASSUME TypeOK, NEW e \in End, NEW k \in Keys
    PROVE  Base(e, k) \in Session /\ Base(e, k).expected_rx_seq = Expected(e, k)
<1>1. NewSession(unknown_cb(e)) \in Session /\ NewSession(unknown_cb(e)).expected_rx_seq = 0
  BY NewSessionType DEF unknown_cb, NewSession
<1>2. sessions[e][k] \in Session \cup {NoSession}
  BY DEF TypeOK
<1> QED
  BY <1>1, <1>2 DEF Base, Expected

(* What ReceiveData does, without the detail of its LETs: the segment, the  *)
(* session with it in the buffer and the length of the run are named.       *)
DataStep(e, l, seg, s, n) ==
    /\ net[e][l] # <<>>
    /\ seg = Head(net[e][l])
    /\ seg.kind = "DATA"
    /\ Rel(seg.seq, Expected(e, seg.key)) < RecvWindow
    /\ s = Emplace(Base(e, seg.key), seg)
    /\ RunLength(s, n)
    /\ sessions' = [sessions EXCEPT ![e][seg.key] = deliverInOrder(s, n)]
    /\ handed' = [handed EXCEPT ![e][seg.key] =
           (IF sessions[e][seg.key] = NoSession /\ s.handler THEN <<>> ELSE @) \o Taken(s, n)]
    /\ IF sessions[e][seg.key] = NoSession /\ s.handler
       THEN NewHandler(e, seg.key) ELSE UNCHANGED <<prior, instances, eof>>
    /\ Drop(e, l)
    /\ sent' = sent

LEMMA ReceiveDataFacts ==
    ASSUME TypeOK, NEW e \in End, NEW l \in Links, ReceiveData(e, l)
    PROVE  \E seg \in Segment : \E s \in Session : \E n \in 0..SeqMod : DataStep(e, l, seg, s, n)
<1> DEFINE seg == Head(net[e][l])
           s == Emplace(Base(e, seg.key), seg)
<1>1. net[e][l] # <<>> /\ seg \in Segment /\ seg.key \in Keys
  BY HeadType DEF ReceiveData, Accepts, TypeOK, Segment
<1>2. s \in Session
  BY <1>1, BaseType, EmplaceType
<1>3. PICK n \in 0..SeqMod :
          /\ RunLength(s, n)
          /\ sessions' = [sessions EXCEPT ![e][seg.key] = deliverInOrder(s, n)]
          /\ handed' = [handed EXCEPT ![e][seg.key] =
                 (IF sessions[e][seg.key] = NoSession /\ s.handler THEN <<>> ELSE @) \o Taken(s, n)]
  BY DEF ReceiveData, Base
<1>4. /\ seg.kind = "DATA"
      /\ Rel(seg.seq, Expected(e, seg.key)) < RecvWindow
  BY DEF ReceiveData, Accepts, InWindow
<1>5. /\ IF sessions[e][seg.key] = NoSession /\ s.handler
         THEN NewHandler(e, seg.key) ELSE UNCHANGED <<prior, instances, eof>>
      /\ Drop(e, l)
      /\ sent' = sent
  BY DEF ReceiveData, Base
<1>6. DataStep(e, l, seg, s, n)
  BY <1>1, <1>3, <1>4, <1>5 DEF DataStep
<1> HIDE DEF seg, s
<1> QED
  BY <1>1, <1>2, <1>3, <1>6

(* A session appears, changes or goes away only in these ways. *)
LEMMA SessionsStep ==
    ASSUME TypeOK, [Next]_vars, NEW d \in End, NEW j \in Keys,
           sessions'[d][j] # sessions[d][j]
    PROVE  \/ sessions'[d][j] = NoSession
           \/ \E h \in BOOLEAN : sessions'[d][j] = NewSession(h)
           \/ /\ sessions[d][j] # NoSession
              /\ sessions'[d][j] =
                   [sessions[d][j] EXCEPT !.next_send_seq = Plus(sessions[d][j].next_send_seq, 1)]
              /\ Len(sent[d][j]) < MaxSegs[d]
              /\ \E p \in Payloads : sent' = [sent EXCEPT ![d][j] = Append(@, p)]
           \/ \E seg \in Segment : \E n \in 0..SeqMod :
                /\ seg.kind = "DATA" /\ seg.key = j
                /\ \E l \in Links : net[d][l] # <<>> /\ seg = Head(net[d][l])
                /\ Rel(seg.seq, Expected(d, j)) < RecvWindow
                /\ RunLength(Emplace(Base(d, j), seg), n)
                /\ sessions'[d][j] = deliverInOrder(Emplace(Base(d, j), seg), n)
<1> DEFINE Goal == \/ sessions'[d][j] = NoSession
                   \/ \E h \in BOOLEAN : sessions'[d][j] = NewSession(h)
                   \/ /\ sessions[d][j] # NoSession
                      /\ sessions'[d][j] =
                           [sessions[d][j] EXCEPT
                               !.next_send_seq = Plus(sessions[d][j].next_send_seq, 1)]
                      /\ Len(sent[d][j]) < MaxSegs[d]
                      /\ \E p \in Payloads : sent' = [sent EXCEPT ![d][j] = Append(@, p)]
                   \/ \E seg \in Segment : \E n \in 0..SeqMod :
                        /\ seg.kind = "DATA" /\ seg.key = j
                        /\ \E l \in Links : net[d][l] # <<>> /\ seg = Head(net[d][l])
                        /\ Rel(seg.seq, Expected(d, j)) < RecvWindow
                        /\ RunLength(Emplace(Base(d, j), seg), n)
                        /\ sessions'[d][j] = deliverInOrder(Emplace(Base(d, j), seg), n)
<1>0. sessions \in [End -> [Keys -> Session \cup {NoSession}]]
  BY DEF TypeOK
<1>1. ASSUME NEW k \in Keys, openSession(k) PROVE Goal
  <2>1. sessions' = [sessions EXCEPT !["inport"][k] = NewSession(TRUE)]
    BY <1>1 DEF openSession
  <2>2. sessions'[d][j] = NewSession(TRUE)
    BY <1>0, <2>1
  <2> QED
    BY <2>2
<1>2. ASSUME NEW e \in End, NEW k \in Keys, NEW p \in Payloads, sendSessionData(e, k, p)
      PROVE  Goal
  <2>1. sessions[e][k] # NoSession
    BY <1>2 DEF sendSessionData
  <2>2. sessions' = [sessions EXCEPT ![e][k] =
           [sessions[e][k] EXCEPT !.next_send_seq = Plus(sessions[e][k].next_send_seq, 1)]]
    BY <1>2 DEF sendSessionData
  <2>3. d = e /\ j = k
    BY <1>0, <2>2
  <2>4. Len(sent[d][j]) < MaxSegs[d] /\ sent' = [sent EXCEPT ![d][j] = Append(@, p)]
    BY <1>2, <2>3 DEF sendSessionData
  <2> QED
    BY <1>0, <2>1, <2>2, <2>3, <2>4
<1>3. ASSUME NEW e \in End, NEW k \in Keys, closeSession(e, k) PROVE Goal
  BY <1>0, <1>3 DEF closeSession
<1>4. ASSUME NEW e \in End, NEW l \in Links,
             ReceiveDuplicate(e, l) \/ ReceiveOutOfWindow(e, l) \/ LinkDown(e, l)
                \/ LinkDownNoticed(e, l)
      PROVE  Goal
  BY <1>4 DEF ReceiveDuplicate, ReceiveOutOfWindow, LinkDown, LinkDownNoticed
<1>5. ASSUME NEW e \in End, NEW l \in Links, ReceiveSyn(e, l) PROVE Goal
  <2> DEFINE k == Head(net[e][l]).key
             v == NewSession(unknown_cb(e))
  <2>1. sessions' = [sessions EXCEPT ![e][k] = v]
    BY <1>5 DEF ReceiveSyn
  <2>2. sessions'[d][j] = v
    BY <1>0, <2>1
  <2>3. unknown_cb(e) \in BOOLEAN
    BY DEF unknown_cb
  <2> QED
    BY <2>2, <2>3
<1>6. ASSUME NEW e \in End, NEW l \in Links, ReceiveFin(e, l) PROVE Goal
  <2> DEFINE k == Head(net[e][l]).key
  <2>1. sessions' = [sessions EXCEPT ![e][k] = NoSession]
    BY <1>6 DEF ReceiveFin
  <2> QED
    BY <1>0, <2>1
<1>7. ASSUME NEW e \in End, NEW l \in Links, ReceiveData(e, l) PROVE Goal
  <2>0. PICK seg \in Segment, s \in Session, n \in 0..SeqMod :
            DataStep(e, l, seg, s, n)
    BY <1>7, ReceiveDataFacts
  <2>1. /\ net[e][l] # <<>> /\ seg = Head(net[e][l])
        /\ seg.kind = "DATA"
        /\ Rel(seg.seq, Expected(e, seg.key)) < RecvWindow
        /\ s = Emplace(Base(e, seg.key), seg)
        /\ RunLength(s, n)
        /\ sessions' = [sessions EXCEPT ![e][seg.key] = deliverInOrder(s, n)]
    BY <2>0 DEF DataStep
  <2>2. d = e /\ j = seg.key
    BY <1>0, <2>1
  <2>3. sessions'[d][j] = deliverInOrder(Emplace(Base(d, j), seg), n)
    BY <1>0, <2>1, <2>2
  <2> QED
    BY <2>1, <2>2, <2>3
<1>8. ASSUME NEW l \in Links, LinkUp(l) PROVE Goal
  BY <1>8 DEF LinkUp
<1>9. ASSUME UNCHANGED vars PROVE Goal
  BY <1>9 DEF vars
<1> QED
  BY <1>1, <1>2, <1>3, <1>4, <1>5, <1>6, <1>7, <1>8, <1>9 DEF Next, onChannelBytes

(* A step preserves WindowBounded. *)
LEMMA WindowStep == TypeOK /\ WindowBounded /\ [Next]_vars => WindowBounded'
<1> SUFFICES ASSUME TypeOK, WindowBounded, [Next]_vars,
                    NEW d \in End, NEW j \in Keys, sessions'[d][j] # NoSession
             PROVE  Windowed(sessions'[d][j])
  BY DEF WindowBounded, Windowed
<1>1. sessions[d][j] # NoSession => sessions[d][j] \in Session /\ Windowed(sessions[d][j])
  BY DEF TypeOK, WindowBounded, Windowed
<1>2. CASE sessions'[d][j] = sessions[d][j]
  BY <1>1, <1>2
<1>3. ASSUME NEW h \in BOOLEAN, sessions'[d][j] = NewSession(h) PROVE Windowed(sessions'[d][j])
  BY <1>3, NewWindowed
<1>4. ASSUME sessions[d][j] # NoSession,
             sessions'[d][j] =
               [sessions[d][j] EXCEPT !.next_send_seq = Plus(sessions[d][j].next_send_seq, 1)]
      PROVE  Windowed(sessions'[d][j])
  <2>1. sessions[d][j] \in Session /\ Windowed(sessions[d][j])
    BY <1>1, <1>4
  <2>2. /\ sessions'[d][j].rx_buffer = sessions[d][j].rx_buffer
        /\ sessions'[d][j].expected_rx_seq = sessions[d][j].expected_rx_seq
    BY <1>4, <2>1 DEF Session
  <2> QED
    BY <2>1, <2>2 DEF Windowed
<1>5. ASSUME NEW seg \in Segment, NEW n \in 0..SeqMod, seg.key = j,
             Rel(seg.seq, Expected(d, j)) < RecvWindow,
             sessions'[d][j] = deliverInOrder(Emplace(Base(d, j), seg), n)
      PROVE  Windowed(sessions'[d][j])
  <2>1. Base(d, j) \in Session /\ Base(d, j).expected_rx_seq = Expected(d, j)
    BY BaseType
  <2>2. Windowed(Base(d, j))
    BY <1>1, NewWindowed DEF Base, unknown_cb
  <2>3. Emplace(Base(d, j), seg) \in Session /\ Windowed(Emplace(Base(d, j), seg))
    BY <1>5, <2>1, <2>2, EmplaceType, EmplaceWindowed
  <2> QED
    BY <1>5, <2>3, DeliverWindowed
<1>6. \/ sessions'[d][j] = sessions[d][j]
      \/ \E h \in BOOLEAN : sessions'[d][j] = NewSession(h)
      \/ /\ sessions[d][j] # NoSession
         /\ sessions'[d][j] =
              [sessions[d][j] EXCEPT !.next_send_seq = Plus(sessions[d][j].next_send_seq, 1)]
      \/ \E seg \in Segment : \E n \in 0..SeqMod :
           /\ seg.key = j
           /\ Rel(seg.seq, Expected(d, j)) < RecvWindow
           /\ sessions'[d][j] = deliverInOrder(Emplace(Base(d, j), seg), n)
  BY SessionsStep
<1> QED
  BY <1>2, <1>3, <1>4, <1>5, <1>6

(* rx_buffer is capped by the receive window under any loss, duplication,   *)
(* reordering and wrap of the numbers, whatever the peer sends.             *)
THEOREM WindowAlways == Spec => []WindowBounded
<1>1. Init => WindowBounded
  BY DEF Init, WindowBounded
<1> QED
  BY <1>1, WindowStep, TypeCorrect, PTL DEF Spec

-----------------------------------------------------------------------------
(* Numbering, as long as no session outlives its 32-bit sequence numbers.   *)

NoWrap == \A e \in End : MaxSegs[e] + RecvWindow <= SeqMod

OnLink(q, x) == \E i \in 1..Len(q) : q[i] = x

(* A step appends to at most one stream, within its bound. *)
LEMMA SentStep ==
    ASSUME TypeOK, [Next]_vars, NEW d \in End, NEW j \in Keys
    PROVE  \/ sent'[d][j] = sent[d][j]
           \/ /\ Len(sent[d][j]) < MaxSegs[d]
              /\ \E p \in Payloads : sent'[d][j] = Append(sent[d][j], p)
<1> DEFINE Goal == \/ sent'[d][j] = sent[d][j]
                   \/ /\ Len(sent[d][j]) < MaxSegs[d]
                      /\ \E p \in Payloads : sent'[d][j] = Append(sent[d][j], p)
<1>1. ASSUME NEW e \in End, NEW k \in Keys, NEW p \in Payloads, sendSessionData(e, k, p)
      PROVE  Goal
  <2>1. Len(sent[e][k]) < MaxSegs[e] /\ sent' = [sent EXCEPT ![e][k] = Append(@, p)]
    BY <1>1 DEF sendSessionData
  <2> QED
    BY <2>1 DEF TypeOK
<1>2. ASSUME NEW e \in End, NEW l \in Links, onChannelBytes(e, l) PROVE sent' = sent
  BY <1>2 DEF onChannelBytes, ReceiveDuplicate, ReceiveOutOfWindow, ReceiveSyn, ReceiveFin,
              ReceiveData, history
<1>3. ASSUME NEW k \in Keys, openSession(k) PROVE sent' = sent
  BY <1>3 DEF openSession
<1>4. ASSUME NEW e \in End, NEW k \in Keys, closeSession(e, k) PROVE sent' = sent
  BY <1>4 DEF closeSession, history
<1>5. ASSUME NEW e \in End, NEW l \in Links, LinkDown(e, l) \/ LinkDownNoticed(e, l)
      PROVE  sent' = sent
  BY <1>5 DEF LinkDown, LinkDownNoticed, history
<1>6. ASSUME NEW l \in Links, LinkUp(l) PROVE sent' = sent
  BY <1>6 DEF LinkUp, history
<1>7. ASSUME UNCHANGED vars PROVE sent' = sent
  BY <1>7 DEF vars
<1> QED
  BY <1>1, <1>2, <1>3, <1>4, <1>5, <1>6, <1>7 DEF Next

(* So what was in a stream stays where it is. *)
LEMMA SentGrows ==
    ASSUME TypeOK, TypeOK', [Next]_vars, NEW d \in End, NEW j \in Keys
    PROVE  /\ Len(sent[d][j]) \in Nat /\ Len(sent'[d][j]) \in Nat
           /\ Len(sent[d][j]) <= Len(sent'[d][j])
           /\ \A i \in 1..Len(sent[d][j]) : sent'[d][j][i] = sent[d][j][i]
<1>1. sent[d][j] \in Seq(Payloads) /\ sent'[d][j] \in Seq(Payloads)
  BY DEF TypeOK
<1>2. ASSUME NEW q \in Seq(Payloads), NEW p \in Payloads
      PROVE  /\ Len(q) <= Len(Append(q, p))
             /\ \A i \in 1..Len(q) : Append(q, p)[i] = q[i]
  OBVIOUS
<1>3. CASE sent'[d][j] = sent[d][j]
  BY <1>1, <1>3
<1>4. CASE \E p \in Payloads : sent'[d][j] = Append(sent[d][j], p)
  BY <1>1, <1>2, <1>4
<1> QED
  BY <1>3, <1>4, SentStep

(* An appended segment is all that is new. *)
LEMMA AppendOnLink ==
    ASSUME NEW q \in Seq(Segment), NEW seg \in Segment, NEW x, OnLink(Append(q, seg), x)
    PROVE  OnLink(q, x) \/ x = seg
<1>1. PICK i \in 1..Len(Append(q, seg)) : Append(q, seg)[i] = x
  BY DEF OnLink
<1>2. i \in 1..(Len(q) + 1)
  BY <1>1
<1>3. CASE i = Len(q) + 1
  BY <1>1, <1>3
<1>4. CASE i \in 1..Len(q)
  <2>1. q[i] = x
    BY <1>1, <1>4
  <2> QED
    BY <1>4, <2>1 DEF OnLink
<1> QED
  BY <1>2, <1>3, <1>4

(* A copy that sendSegment writes is the only thing it adds to a link. *)
LEMMA CopyOnLink ==
    ASSUME TypeOK, NEW e \in End, NEW seg \in Segment, sendSegment(e, seg),
           NEW d \in End, NEW l \in Links, NEW x, OnLink(net'[d][l], x)
    PROVE  OnLink(net[d][l], x) \/ (d = Peer(e) /\ x = seg)
<1>1. PICK S \in Selections(e) : net' = [net EXCEPT ![Peer(e)] = WithCopies(e, S, seg)]
  BY DEF sendSegment
<1>2. net[d][l] \in Seq(Segment)
  BY DEF TypeOK
<1>3. CASE d # Peer(e)
  BY <1>1, <1>3 DEF TypeOK
<1>4. CASE d = Peer(e)
  <2>1. net'[d][l] = net[d][l] \/ net'[d][l] = Append(net[d][l], seg)
    BY <1>1, <1>4 DEF TypeOK, WithCopies
  <2> QED
    BY <1>2, <1>4, <2>1, AppendOnLink
<1> QED
  BY <1>3, <1>4

(* Reading adds nothing. *)
LEMMA DropOnLink ==
    ASSUME TypeOK, NEW e \in End, NEW m \in Links, net[e][m] # <<>>,
           NEW d \in End, NEW l \in Links, NEW x,
           net'[d][l] = IF d = e /\ l = m THEN Tail(net[e][m]) ELSE net[d][l],
           OnLink(net'[d][l], x)
    PROVE  OnLink(net[d][l], x)
<1>1. net[e][m] \in Seq(Segment) /\ net[d][l] \in Seq(Segment)
  BY DEF TypeOK
<1>2. CASE d = e /\ l = m
  <2>1. net'[d][l] = Tail(net[e][m])
    BY <1>2
  <2>2. Len(Tail(net[e][m])) = Len(net[e][m]) - 1
        /\ \A i \in 1..Len(Tail(net[e][m])) : Tail(net[e][m])[i] = net[e][m][i + 1]
    BY <1>1
  <2>3. PICK i \in 1..Len(Tail(net[e][m])) : Tail(net[e][m])[i] = x
    BY <2>1 DEF OnLink
  <2>4. i + 1 \in 1..Len(net[e][m]) /\ net[e][m][i + 1] = x
    BY <1>1, <2>2, <2>3
  <2> QED
    BY <1>2, <2>4 DEF OnLink
<1>3. CASE ~(d = e /\ l = m)
  BY <1>3
<1> QED
  BY <1>2, <1>3

(* The DATA segment that the client's or the relay's call puts on a link. *)
SentNow(d, x) ==
    /\ sessions[Peer(d)][x.key] # NoSession
    /\ sessions[Peer(d)][x.key].handler
    /\ x.seq = sessions[Peer(d)][x.key].next_send_seq
    /\ sent'[Peer(d)][x.key] = Append(sent[Peer(d)][x.key], x.payload)

(* A DATA segment is on a link because it was, or because it is sent now. *)
LEMMA NetStep ==
    ASSUME TypeOK, [Next]_vars, NEW d \in End, NEW l \in Links, NEW x \in Segment,
           x.kind = "DATA", OnLink(net'[d][l], x)
    PROVE  OnLink(net[d][l], x) \/ SentNow(d, x)
<1> DEFINE Goal == OnLink(net[d][l], x) \/ SentNow(d, x)
<1>1. ASSUME NEW k \in Keys, openSession(k) PROVE Goal
  <2>1. Marker("SYN", k, 0) \in Segment /\ "inport" \in End /\ Marker("SYN", k, 0).kind = "SYN"
    BY MarkerType, WindowAssumption DEF SeqNum, End, Marker
  <2>2. sendSegment("inport", Marker("SYN", k, 0))
    BY <1>1 DEF openSession
  <2> QED
    BY <2>1, <2>2, CopyOnLink
<1>2. ASSUME NEW e \in End, NEW k \in Keys, NEW p \in Payloads, sendSessionData(e, k, p)
      PROVE  Goal
  <2> DEFINE seg == [kind |-> "DATA", key |-> k,
                     seq |-> sessions[e][k].next_send_seq, payload |-> p]
  <2>1. /\ sessions[e][k] # NoSession
        /\ sessions[e][k].handler
        /\ sendSegment(e, seg)
        /\ sent' = [sent EXCEPT ![e][k] = Append(@, p)]
    BY <1>2 DEF sendSessionData
  <2>2. sessions[e][k] \in Session
    BY <2>1 DEF TypeOK
  <2>3. seg \in Segment
    BY <2>2 DEF Segment, Session, Slot
  <2>4. OnLink(net[d][l], x) \/ (d = Peer(e) /\ x = seg)
    BY <2>1, <2>3, CopyOnLink
  <2>5. ASSUME d = Peer(e), x = seg PROVE SentNow(d, x)
    <3>1. Peer(d) = e
      BY <2>5 DEF Peer, End
    <3>2. x.key = k /\ x.payload = p /\ x.seq = sessions[e][k].next_send_seq
      BY <2>5
    <3> QED
      BY <2>1, <3>1, <3>2 DEF SentNow, TypeOK
  <2> QED
    BY <2>4, <2>5
<1>3. ASSUME NEW e \in End, NEW k \in Keys, closeSession(e, k) PROVE Goal
  <2> DEFINE m == Marker("FIN", k, sessions[e][k].next_send_seq)
  <2>1. sessions[e][k] \in Session
    BY <1>3 DEF closeSession, TypeOK
  <2>2. m \in Segment /\ m.kind = "FIN"
    BY <2>1, MarkerType DEF Session, Marker
  <2>3. sendSegment(e, m)
    BY <1>3 DEF closeSession
  <2> QED
    BY <2>2, <2>3, CopyOnLink
<1>4. ASSUME NEW e \in End, NEW m \in Links, net[e][m] # <<>>, Drop(e, m) PROVE Goal
  <2>1. net'[d][l] = IF d = e /\ l = m THEN Tail(net[e][m]) ELSE net[d][l]
    BY <1>4 DEF Drop, TypeOK
  <2> QED
    BY <1>4, <2>1, DropOnLink
<1>5. ASSUME NEW e \in End, NEW m \in Links, ReceiveFin(e, m) PROVE Goal
  <2> DEFINE k == Head(net[e][m]).key
             s == sessions[e][k]
             f == Marker("FIN", k, s.next_send_seq)
  <2>1. net[e][m] # <<>> /\ k \in Keys /\ net[e][m] \in Seq(Segment)
    <3>1. net[e][m] # <<>> /\ net[e][m] \in Seq(Segment)
      <4>1. net[e][m] # <<>>
        BY <1>5 DEF ReceiveFin, Accepts
      <4> QED
        BY <4>1 DEF TypeOK
    <3>2. Head(net[e][m]) \in Segment
      BY <3>1
    <3> QED
      BY <3>1, <3>2 DEF Segment
  <2>2. CASE s # NoSession /\ s.handler
    <3>1. s \in Session
      <4>1. sessions \in [End -> [Keys -> Session \cup {NoSession}]]
        BY DEF TypeOK
      <4> HIDE DEF k
      <4> QED
        BY <2>1, <2>2, <4>1
    <3>2. f \in Segment /\ f.kind = "FIN"
      BY <2>1, <3>1, MarkerType DEF Session, Marker
    <3>3. PICK S \in Selections(e) :
             net' = [net EXCEPT ![e][m] = Tail(@), ![Peer(e)] = WithCopies(e, S, f)]
      BY <1>5, <2>2 DEF ReceiveFin
    <3>4. CASE d = e
      <4>1. net'[d][l] = IF d = e /\ l = m THEN Tail(net[e][m]) ELSE net[d][l]
        BY <3>3, <3>4, PeerType DEF TypeOK
      <4> QED
        BY <2>1, <4>1, DropOnLink
    <3>5. CASE d # e
      <4>1. d = Peer(e)
        BY <3>5 DEF Peer, End
      <4>2. net'[d][l] = net[d][l] \/ net'[d][l] = Append(net[d][l], f)
        BY <3>3, <4>1 DEF TypeOK, WithCopies
      <4>3. net[d][l] \in Seq(Segment) /\ x # f
        BY <3>2 DEF TypeOK
      <4> QED
        BY <3>2, <4>2, <4>3, AppendOnLink
    <3> QED
      BY <3>4, <3>5
  <2>3. CASE ~(s # NoSession /\ s.handler)
    BY <1>4, <1>5, <2>1, <2>3 DEF ReceiveFin
  <2> QED
    BY <2>2, <2>3
<1>6. ASSUME NEW e \in End, NEW m \in Links, onChannelBytes(e, m) PROVE Goal
  BY <1>4, <1>5, <1>6 DEF onChannelBytes, ReceiveDuplicate, ReceiveOutOfWindow, ReceiveSyn,
                          ReceiveData, Accepts
<1>7. ASSUME NEW e \in End, NEW m \in Links, LinkDown(e, m) \/ LinkDownNoticed(e, m) PROVE Goal
  <2>1. net' = [net EXCEPT ![e][m] = <<>>]
    BY <1>7 DEF LinkDown, LinkDownNoticed
  <2>2. net'[d][l] = net[d][l] \/ net'[d][l] = <<>>
    BY <2>1 DEF TypeOK
  <2> QED
    BY <2>2 DEF OnLink
<1>8. ASSUME NEW m \in Links, LinkUp(m) PROVE Goal
  BY <1>8 DEF LinkUp
<1>9. ASSUME UNCHANGED vars PROVE Goal
  BY <1>9 DEF vars
<1> QED
  BY <1>1, <1>2, <1>3, <1>6, <1>7, <1>8, <1>9 DEF Next

(* The numbers of session s, when its own handlers wrote own segments and   *)
(* the peer's wrote peer: what it buffers lies between the next number to   *)
(* deliver and the end of the peer's stream.                                *)
InRange(s, own, peer) ==
    /\ s.next_send_seq <= own
    /\ s.expected_rx_seq <= peer
    /\ \A i \in SeqNum : s.rx_buffer[i] # NoPayload =>
          s.expected_rx_seq <= i /\ i < peer

(* It does not sit on the segment it waits for. *)
Waiting(s) == s.handler => s.rx_buffer[s.expected_rx_seq] = NoPayload

NumbersInv ==
    /\ \A e \in End, k \in Keys : Len(sent[e][k]) <= MaxSegs[e]
    /\ \A e \in End, k \in Keys : sessions[e][k] # NoSession =>
          /\ InRange(sessions[e][k], Len(sent[e][k]), Len(sent[Peer(e)][k]))
          /\ Waiting(sessions[e][k])
    /\ \A e \in End, l \in Links : \A x \in Segment :
          (x.kind = "DATA" /\ OnLink(net[e][l], x)) => x.seq < Len(sent[Peer(e)][x.key])

LEMMA InRangeGrows ==
    ASSUME NEW s \in Session, NEW o \in Nat, NEW p \in Nat, NEW o2 \in Nat, NEW p2 \in Nat,
           o <= o2, p <= p2, InRange(s, o, p)
    PROVE  InRange(s, o2, p2)
BY WindowAssumption DEF InRange, Session, SeqNum

(* Without wrap, a number in the window is not behind it. *)
LEMMA NotBehind ==
    ASSUME NEW exp \in SeqNum, NEW i \in SeqNum, NEW peer \in Nat,
           peer + RecvWindow <= SeqMod, exp <= peer, Rel(i, exp) < RecvWindow
    PROVE  exp <= i
BY WindowAssumption DEF Rel, SeqNum

(* deliverInOrder without wrap: the run is exactly the numbers from the     *)
(* expected one up to the first that is missing.                            *)
LEMMA DeliverNumbers ==
    ASSUME NEW s \in Session, NEW n \in 0..SeqMod, NEW own \in Nat, NEW peer \in Nat,
           peer + RecvWindow <= SeqMod, InRange(s, own, peer), RunLength(s, n)
    PROVE  /\ s.expected_rx_seq + n <= peer
           /\ \A m \in 0..(n - 1) :
                /\ Plus(s.expected_rx_seq, m) = s.expected_rx_seq + m
                /\ s.rx_buffer[s.expected_rx_seq + m] # NoPayload
           /\ deliverInOrder(s, n).expected_rx_seq = s.expected_rx_seq + n
           /\ InRange(deliverInOrder(s, n), own, peer)
           /\ Waiting(deliverInOrder(s, n))
<1> DEFINE exp == s.expected_rx_seq
           d == deliverInOrder(s, n)
<1>1. exp \in SeqNum /\ exp \in Nat /\ n \in Nat /\ exp <= peer /\ peer < SeqMod
      /\ SeqMod \in Nat /\ RecvWindow \in Nat
  BY WindowAssumption DEF Session, SeqNum, InRange
<1>2. ASSUME NEW m \in 0..(n - 1)
      PROVE  Plus(exp, m) \in SeqNum /\ s.rx_buffer[Plus(exp, m)] # NoPayload
  <2>1. s.handler
    BY <1>1, <1>2 DEF RunLength
  <2>2. IsBegin(s, m)
    BY <1>2, <2>1 DEF RunLength, CanTake
  <2> QED
    BY <2>2 DEF IsBegin, LeftAfter
<1>3. exp + n <= peer
  <2>1. SUFFICES ASSUME exp + n > peer PROVE FALSE
    BY <1>1
  <2>2. peer - exp \in 0..(n - 1)
    BY <1>1, <2>1
  <2>3. Plus(exp, peer - exp) = peer
    BY <1>1 DEF Plus
  <2>4. peer \in SeqNum /\ s.rx_buffer[peer] # NoPayload
    BY <1>2, <2>2, <2>3
  <2>5. peer < peer
    BY <2>4 DEF InRange
  <2> QED
    BY <1>1, <2>5
<1>4. \A m \in 0..n : Plus(exp, m) = exp + m
  BY <1>1, <1>3 DEF Plus
<1>5. \A m \in 0..(n - 1) : s.rx_buffer[exp + m] # NoPayload
  <2>1. \A m \in 0..(n - 1) : m \in 0..n
    BY <1>1
  <2> QED
    BY <1>2, <1>4, <2>1
<1>6. d.expected_rx_seq = exp + n /\ d.next_send_seq = s.next_send_seq /\ d.handler = s.handler
  <2>1. d.expected_rx_seq = Plus(exp, n) /\ d.next_send_seq = s.next_send_seq
        /\ d.handler = s.handler
    BY DEF deliverInOrder, Session
  <2>2. n \in 0..n
    BY <1>1
  <2> QED
    BY <1>4, <2>1, <2>2
<1>7. \A i \in SeqNum : d.rx_buffer[i] = IF i \in Run(s, n) THEN NoPayload ELSE s.rx_buffer[i]
  BY DEF deliverInOrder, Session
<1>8. \A i \in SeqNum : i \in Run(s, n) <=> (exp <= i /\ i < exp + n)
  <2>1. \A m \in 0..(n - 1) : Plus(exp, m) = exp + m
    <3>1. \A m \in 0..(n - 1) : m \in 0..n
      BY <1>1
    <3> QED
      BY <1>4, <3>1
  <2>2. ASSUME NEW i \in SeqNum, i \in Run(s, n) PROVE exp <= i /\ i < exp + n
    <3>1. PICK m \in 0..(n - 1) : i = Plus(exp, m)
      BY <2>2 DEF Run
    <3> QED
      BY <1>1, <2>1, <3>1
  <2>3. ASSUME NEW i \in SeqNum, exp <= i, i < exp + n PROVE i \in Run(s, n)
    <3>1. i - exp \in 0..(n - 1) /\ exp + (i - exp) = i
      BY <1>1, <2>3 DEF SeqNum
    <3>2. Plus(exp, i - exp) = i
      BY <2>1, <3>1
    <3> QED
      BY <3>1, <3>2 DEF Run
  <2> QED
    BY <2>2, <2>3
<1>9. ASSUME NEW i \in SeqNum, d.rx_buffer[i] # NoPayload PROVE exp + n <= i /\ i < peer
  <2>1. i \notin Run(s, n) /\ s.rx_buffer[i] # NoPayload
    BY <1>7, <1>9
  <2>2. exp <= i /\ i < peer
    BY <1>9, <2>1 DEF InRange
  <2> QED
    BY <1>1, <1>8, <1>9, <2>1, <2>2 DEF SeqNum
<1>10. InRange(d, own, peer)
  BY <1>3, <1>6, <1>9 DEF InRange
<1>11. Waiting(d)
  <2>1. SUFFICES ASSUME s.handler, d.rx_buffer[exp + n] # NoPayload PROVE FALSE
    BY <1>6 DEF Waiting
  <2>2. ~IsBegin(s, n)
    BY <2>1 DEF RunLength
  <2>3. exp + n \in SeqNum
    BY <1>1, <1>3 DEF SeqNum
  <2>4. exp + n \notin Run(s, n) /\ s.rx_buffer[exp + n] # NoPayload
    BY <1>7, <2>1, <2>3
  <2>5. exp + n \in LeftAfter(s, n)
    BY <2>3, <2>4 DEF LeftAfter
  <2>6. ASSUME NEW i \in LeftAfter(s, n) PROVE exp + n <= i
    <3>1. i \in SeqNum /\ d.rx_buffer[i] # NoPayload
      BY <1>7, <2>6 DEF LeftAfter
    <3> QED
      BY <1>9, <3>1
  <2>7. Plus(exp, n) = exp + n
    <3>1. n \in 0..n
      BY <1>1
    <3> QED
      BY <1>4, <3>1
  <2> QED
    BY <2>2, <2>5, <2>6, <2>7 DEF IsBegin
<1> QED
  BY <1>3, <1>4, <1>5, <1>6, <1>10, <1>11

(* The first thing on a link is on the link. *)
LEMMA HeadOnLink ==
    ASSUME NEW q \in Seq(Segment), q # <<>>
    PROVE  Head(q) \in Segment /\ OnLink(q, Head(q))
<1>1. 1 \in 1..Len(q) /\ q[1] = Head(q)
  OBVIOUS
<1> QED
  BY <1>1 DEF OnLink

(* Storing a segment of the peer's stream keeps a session in range. *)
LEMMA EmplaceInRange ==
    ASSUME NEW s \in Session, NEW seg \in Segment, NEW own \in Nat, NEW peer \in Nat,
           peer + RecvWindow <= SeqMod, InRange(s, own, peer), seg.seq < peer,
           Rel(seg.seq, s.expected_rx_seq) < RecvWindow
    PROVE  InRange(Emplace(s, seg), own, peer)
<1> DEFINE t == Emplace(s, seg)
<1>1. /\ t.expected_rx_seq = s.expected_rx_seq
      /\ t.next_send_seq = s.next_send_seq
  BY DEF Emplace, Session
<1>2. ASSUME NEW i \in SeqNum, i # seg.seq PROVE t.rx_buffer[i] = s.rx_buffer[i]
  BY <1>2 DEF Emplace, Session, Segment
<1>3. seg.seq \in SeqNum /\ s.expected_rx_seq \in SeqNum
  BY DEF Segment, Session
<1>4. s.expected_rx_seq <= seg.seq
  BY <1>3, NotBehind DEF InRange
<1> QED
  BY <1>1, <1>2, <1>4 DEF InRange

(* A fresh session is in range of any streams, and waits. *)
LEMMA NewInRange ==
    ASSUME NEW h \in BOOLEAN, NEW own \in Nat, NEW peer \in Nat
    PROVE  InRange(NewSession(h), own, peer) /\ Waiting(NewSession(h))
<1>1. 0 \in SeqNum
  BY WindowAssumption DEF SeqNum
<1> QED
  BY <1>1 DEF InRange, Waiting, NewSession

(* A step preserves NumbersInv. *)
LEMMA NumbersStep ==
    ASSUME NoWrap, TypeOK, TypeOK', NumbersInv, [Next]_vars
    PROVE  NumbersInv'
<1>1. ASSUME NEW e \in End, NEW k \in Keys PROVE Len(sent'[e][k]) <= MaxSegs[e]
  <2>1. sent[e][k] \in Seq(Payloads) /\ Len(sent[e][k]) <= MaxSegs[e] /\ MaxSegs[e] \in Nat
    BY BoundsAssumption DEF TypeOK, NumbersInv
  <2> QED
    BY <2>1, SentStep
<1>2. ASSUME NEW e \in End, NEW k \in Keys
      PROVE  /\ Len(sent[e][k]) \in Nat /\ Len(sent'[e][k]) \in Nat
             /\ Len(sent[e][k]) <= Len(sent'[e][k])
  BY SentGrows
<1>3. ASSUME NEW e \in End, NEW k \in Keys, sessions'[e][k] # NoSession
      PROVE  /\ InRange(sessions'[e][k], Len(sent'[e][k]), Len(sent'[Peer(e)][k]))
             /\ Waiting(sessions'[e][k])
  <2> DEFINE s == sessions[e][k]
             t == sessions'[e][k]
             own == Len(sent[e][k])
             peer == Len(sent[Peer(e)][k])
             own2 == Len(sent'[e][k])
             peer2 == Len(sent'[Peer(e)][k])
  <2>1. /\ own \in Nat /\ peer \in Nat /\ own2 \in Nat /\ peer2 \in Nat
        /\ own <= own2 /\ peer <= peer2 /\ Peer(e) \in End
    BY <1>2, PeerType
  <2>2. s # NoSession => s \in Session /\ InRange(s, own, peer) /\ Waiting(s)
    <3>1. s \in Session \cup {NoSession}
      BY DEF TypeOK
    <3>2. s # NoSession => InRange(s, own, peer) /\ Waiting(s)
      BY DEF NumbersInv
    <3> QED
      BY <3>1, <3>2
  <2>3. peer + RecvWindow <= SeqMod
    <3>1. peer <= MaxSegs[Peer(e)] /\ MaxSegs[Peer(e)] + RecvWindow <= SeqMod
          /\ MaxSegs[Peer(e)] \in Nat
      BY <2>1, BoundsAssumption DEF NumbersInv, NoWrap
    <3> QED
      BY <2>1, <3>1, WindowAssumption
  <2>grow. ASSUME NEW r \in Session, InRange(r, own, peer) PROVE InRange(r, own2, peer2)
    <3> HIDE DEF own, peer, own2, peer2
    <3> QED
      BY <2>1, <2>grow, InRangeGrows
  <2>4. CASE t = s
    <3>1. s \in Session /\ InRange(s, own, peer) /\ Waiting(s)
      BY <1>3, <2>2, <2>4
    <3> QED
      BY <2>4, <2>grow, <3>1
  <2>5. ASSUME NEW h \in BOOLEAN, t = NewSession(h)
        PROVE  InRange(t, own2, peer2) /\ Waiting(t)
    BY <2>1, <2>5, NewInRange
  <2>6. ASSUME s # NoSession, t = [s EXCEPT !.next_send_seq = Plus(s.next_send_seq, 1)],
               NEW p \in Payloads, sent' = [sent EXCEPT ![e][k] = Append(@, p)]
        PROVE  InRange(t, own2, peer2) /\ Waiting(t)
    <3>1. s \in Session
      BY <2>2, <2>6
    <3>2. /\ t.next_send_seq = Plus(s.next_send_seq, 1)
          /\ t.expected_rx_seq = s.expected_rx_seq
          /\ t.rx_buffer = s.rx_buffer
          /\ t.handler = s.handler
      BY <2>6, <3>1 DEF Session
    <3>3. sent[e][k] \in Seq(Payloads) /\ sent'[e][k] = Append(sent[e][k], p)
      BY <2>6 DEF TypeOK
    <3>4. own2 = own + 1
      BY <3>3
    <3>5. s.next_send_seq \in SeqNum /\ s.next_send_seq <= own
      BY <2>2, <2>6, <3>1 DEF Session, InRange
    <3>6. Plus(s.next_send_seq, 1) <= own2
      <4> HIDE DEF s, own, own2
      <4> QED
        BY <2>1, <3>4, <3>5, PlusOneBound
    <3>7. InRange(s, own2, peer2) /\ Waiting(s)
      BY <2>1, <2>2, <2>6, <3>1, InRangeGrows
    <3> QED
      BY <3>2, <3>6, <3>7 DEF InRange, Waiting
  <2>7. ASSUME NEW seg \in Segment, NEW n \in 0..SeqMod,
               seg.kind = "DATA", seg.key = k,
               \E l \in Links : net[e][l] # <<>> /\ seg = Head(net[e][l]),
               Rel(seg.seq, Expected(e, k)) < RecvWindow,
               RunLength(Emplace(Base(e, k), seg), n),
               t = deliverInOrder(Emplace(Base(e, k), seg), n)
        PROVE  InRange(t, own2, peer2) /\ Waiting(t)
    <3>1. Base(e, k) \in Session /\ Base(e, k).expected_rx_seq = Expected(e, k)
      BY BaseType
    <3>2. InRange(Base(e, k), own, peer)
      BY <2>1, <2>2, NewInRange DEF Base, unknown_cb
    <3>3. PICK l \in Links : net[e][l] # <<>> /\ seg = Head(net[e][l])
      BY <2>7
    <3>4. net[e][l] \in Seq(Segment)
      BY DEF TypeOK
    <3>5. OnLink(net[e][l], seg)
      BY <3>3, <3>4, HeadOnLink
    <3>6. seg.seq < peer
      BY <2>7, <3>5 DEF NumbersInv
    <3>7. Emplace(Base(e, k), seg) \in Session /\ InRange(Emplace(Base(e, k), seg), own, peer)
      BY <2>1, <2>3, <2>7, <3>1, <3>2, <3>6, EmplaceType, EmplaceInRange
    <3>8. InRange(t, own, peer) /\ Waiting(t)
      BY <2>1, <2>3, <2>7, <3>7, DeliverNumbers
    <3>9. t \in Session
      BY <1>3 DEF TypeOK
    <3> QED
      BY <2>grow, <3>8, <3>9
  <2>8. \/ t = s
        \/ \E h \in BOOLEAN : t = NewSession(h)
        \/ /\ s # NoSession /\ t = [s EXCEPT !.next_send_seq = Plus(s.next_send_seq, 1)]
           /\ \E p \in Payloads : sent' = [sent EXCEPT ![e][k] = Append(@, p)]
        \/ \E seg \in Segment : \E n \in 0..SeqMod :
             /\ seg.kind = "DATA" /\ seg.key = k
             /\ \E l \in Links : net[e][l] # <<>> /\ seg = Head(net[e][l])
             /\ Rel(seg.seq, Expected(e, k)) < RecvWindow
             /\ RunLength(Emplace(Base(e, k), seg), n)
             /\ t = deliverInOrder(Emplace(Base(e, k), seg), n)
    BY <1>3, SessionsStep
  <2> QED
    BY <2>4, <2>5, <2>6, <2>7, <2>8
<1>4. ASSUME NEW e \in End, NEW l \in Links, NEW x \in Segment,
             x.kind = "DATA", OnLink(net'[e][l], x)
      PROVE  x.seq < Len(sent'[Peer(e)][x.key])
  <2>1. x.key \in Keys /\ x.seq \in SeqNum /\ Peer(e) \in End
    BY PeerType DEF Segment
  <2>2. CASE OnLink(net[e][l], x)
    <3>1. x.seq < Len(sent[Peer(e)][x.key])
      BY <1>4, <2>2 DEF NumbersInv
    <3> QED
      BY <1>2, <2>1, <3>1 DEF SeqNum
  <2>3. CASE SentNow(e, x)
    <3>1. sent[Peer(e)][x.key] \in Seq(Payloads)
          /\ sent'[Peer(e)][x.key] \in Seq(Payloads)
      BY <2>1 DEF TypeOK
    <3>2. Len(sent'[Peer(e)][x.key]) = Len(sent[Peer(e)][x.key]) + 1
      BY <2>3, <3>1 DEF SentNow
    <3>3. x.seq <= Len(sent[Peer(e)][x.key])
      <4>1. /\ sessions[Peer(e)][x.key] # NoSession
            /\ x.seq = sessions[Peer(e)][x.key].next_send_seq
        BY <2>3 DEF SentNow
      <4>2. InRange(sessions[Peer(e)][x.key], Len(sent[Peer(e)][x.key]),
                    Len(sent[Peer(Peer(e))][x.key]))
        BY <2>1, <4>1 DEF NumbersInv
      <4> QED
        BY <4>1, <4>2 DEF InRange
    <3> QED
      BY <2>1, <3>1, <3>2, <3>3 DEF SeqNum
  <2> QED
    BY <1>4, <2>2, <2>3, NetStep
<1> QED
  BY <1>1, <1>3, <1>4 DEF NumbersInv

LEMMA NumbersInit == Init => NumbersInv
<1> SUFFICES ASSUME Init PROVE NumbersInv
  OBVIOUS
<1>1. \A e \in End, k \in Keys : Len(sent[e][k]) <= MaxSegs[e]
  BY BoundsAssumption DEF Init
<1>2. \A e \in End, k \in Keys : sessions[e][k] = NoSession
  BY DEF Init
<1>3. \A e \in End, l \in Links, x \in Segment : ~OnLink(net[e][l], x)
  BY DEF Init, OnLink
<1> QED
  BY <1>1, <1>2, <1>3 DEF NumbersInv

(* The numbering stays in range for ever. *)
LEMMA NumbersAlways == ASSUME NoWrap PROVE Spec => [](TypeOK /\ NumbersInv)
<1>1. TypeOK /\ NumbersInv /\ TypeOK' /\ [Next]_vars => NumbersInv'
  BY NumbersStep
<1> QED
  BY <1>1, NumbersInit, TypeCorrect, PTL DEF Spec

(* No session sits on the segment it waits for, as long as no stream is so  *)
(* long that its numbers wrap: deliverInOrder always takes the whole run.   *)
THEOREM NothingHeldBackAlways == ASSUME NoWrap PROVE Spec => []NothingHeldBack
<1>1. TypeOK /\ NumbersInv => NothingHeldBack
  BY DEF NumbersInv, Waiting, NothingHeldBack
<1> QED
  BY <1>1, NumbersAlways, PTL

-----------------------------------------------------------------------------
(* The stream from a client to its relay.                                   *)

(* Session s of a relay that was given h, when the client wrote w. *)
Matches(s, h, w) ==
    /\ s.handler
    /\ s.expected_rx_seq = Len(h)
    /\ \A i \in SeqNum : s.rx_buffer[i] # NoPayload => s.rx_buffer[i] = w[i + 1]

(* Segment number i of a session, on a link or in rx_buffer, carries the    *)
(* i+1st chunk that the client wrote, and the relay has been given exactly  *)
(* expected_rx_seq chunks.                                                  *)
StreamInv ==
    /\ \A k \in Keys : instances["inport"][k] = 0 => sent["inport"][k] = <<>>
    /\ \A k \in Keys : (sessions["inport"][k] # NoSession /\ sessions["inport"][k].handler) =>
          /\ instances["inport"][k] # 0
          /\ sessions["inport"][k].next_send_seq = Len(sent["inport"][k])
    /\ \A k \in Keys : sessions["outport"][k] # NoSession =>
          Matches(sessions["outport"][k], handed["outport"][k], sent["inport"][k])
    /\ \A l \in Links : \A x \in Segment :
          (x.kind = "DATA" /\ OnLink(net["outport"][l], x)) =>
              x.payload = sent["inport"][x.key][x.seq + 1]
    /\ InOrderForward

(* A client's session with a handler was just opened, or it was there and   *)
(* has sent what the step appended to its stream.                           *)
LEMMA InportStep ==
    ASSUME TypeOK, StreamInv, [Next]_vars, NEW j \in Keys
    PROVE  /\ instances'["inport"][j] = 0 =>
                 instances["inport"][j] = 0 /\ sent'["inport"][j] = sent["inport"][j]
           /\ (sessions'["inport"][j] # NoSession /\ sessions'["inport"][j].handler) =>
                 /\ instances'["inport"][j] # 0
                 /\ \/ /\ sent["inport"][j] = <<>>
                       /\ sent'["inport"][j] = sent["inport"][j]
                       /\ sessions'["inport"][j].next_send_seq = 0
                    \/ /\ sessions["inport"][j] # NoSession /\ sessions["inport"][j].handler
                       /\ sent'["inport"][j] = sent["inport"][j]
                       /\ sessions'["inport"][j].next_send_seq = sessions["inport"][j].next_send_seq
                    \/ /\ sessions["inport"][j] # NoSession /\ sessions["inport"][j].handler
                       /\ \E p \in Payloads : sent'["inport"][j] = Append(sent["inport"][j], p)
                       /\ Len(sent["inport"][j]) < MaxSegs["inport"]
                       /\ sessions'["inport"][j].next_send_seq =
                              Plus(sessions["inport"][j].next_send_seq, 1)
<1> DEFINE s == sessions["inport"][j]
           t == sessions'["inport"][j]
           inst == instances["inport"][j]
           inst2 == instances'["inport"][j]
           w == sent["inport"][j]
           w2 == sent'["inport"][j]
           Same == inst2 = inst /\ w2 = w
                      /\ (t = NoSession \/ ~t.handler
                          \/ (s # NoSession /\ s.handler /\ t.next_send_seq = s.next_send_seq))
           Opened == inst2 # 0 /\ w = <<>> /\ w2 = w /\ t.next_send_seq = 0
           Wrote == /\ inst2 = inst /\ s # NoSession /\ s.handler
                    /\ \E p \in Payloads : w2 = Append(w, p)
                    /\ Len(w) < MaxSegs["inport"]
                    /\ t.next_send_seq = Plus(s.next_send_seq, 1)
           Goal == Same \/ Opened \/ Wrote
<1>0. /\ sessions \in [End -> [Keys -> Session \cup {NoSession}]]
      /\ instances \in [End -> [Keys -> Nat]]
      /\ sent \in [End -> [Keys -> Seq(Payloads)]]
      /\ "inport" \in End
  BY DEF TypeOK, End
<1>1. ASSUME NEW k \in Keys, openSession(k) PROVE Goal
  <2>1. /\ instances["inport"][k] = 0
        /\ sessions' = [sessions EXCEPT !["inport"][k] = NewSession(TRUE)]
        /\ instances' = [instances EXCEPT !["inport"][k] = @ + 1]
        /\ sent' = sent
    BY <1>1 DEF openSession, NewHandler
  <2>2. CASE j = k
    <3>1. inst2 = inst + 1 /\ inst = 0 /\ w2 = w /\ w = <<>>
      BY <1>0, <2>1, <2>2 DEF StreamInv
    <3>2. t = NewSession(TRUE)
      BY <1>0, <2>1, <2>2
    <3> QED
      BY <3>1, <3>2 DEF NewSession
  <2>3. CASE j # k
    BY <1>0, <2>1, <2>3
  <2> QED
    BY <2>2, <2>3
<1>2. ASSUME NEW e \in End, NEW k \in Keys, NEW p \in Payloads, sendSessionData(e, k, p)
      PROVE  Goal
  <2>1. /\ sessions[e][k] # NoSession /\ sessions[e][k].handler
        /\ Len(sent[e][k]) < MaxSegs[e]
        /\ sessions' = [sessions EXCEPT ![e][k] =
              [sessions[e][k] EXCEPT !.next_send_seq = Plus(sessions[e][k].next_send_seq, 1)]]
        /\ sent' = [sent EXCEPT ![e][k] = Append(@, p)]
        /\ instances' = instances
    BY <1>2 DEF sendSessionData
  <2>2. CASE e = "inport" /\ j = k
    <3>1. s \in Session /\ s # NoSession /\ s.handler
      BY <1>0, <2>1, <2>2
    <3>2. t = [s EXCEPT !.next_send_seq = Plus(s.next_send_seq, 1)]
      BY <1>0, <2>1, <2>2
    <3>3. t.next_send_seq = Plus(s.next_send_seq, 1)
      BY <3>1, <3>2 DEF Session
    <3>4. w2 = Append(w, p) /\ Len(w) < MaxSegs["inport"] /\ inst2 = inst
      BY <1>0, <2>1, <2>2
    <3> QED
      BY <3>1, <3>3, <3>4
  <2>3. CASE ~(e = "inport" /\ j = k)
    <3>1. s = t /\ w2 = w /\ inst2 = inst
      BY <1>0, <2>1, <2>3
    <3> QED
      BY <3>1
  <2> QED
    BY <2>2, <2>3
<1>3. ASSUME t = s \/ t = NoSession, inst2 = inst, w2 = w PROVE Goal
  BY <1>3
<1>4. ASSUME NEW e \in End, NEW k \in Keys, closeSession(e, k) PROVE Goal
  <2>1. sessions' = [sessions EXCEPT ![e][k] = NoSession] /\ instances' = instances /\ sent' = sent
    BY <1>4 DEF closeSession, history
  <2> QED
    BY <1>0, <1>3, <2>1
<1>5. ASSUME NEW e \in End, NEW l \in Links,
             ReceiveDuplicate(e, l) \/ ReceiveOutOfWindow(e, l) \/ LinkDown(e, l)
                \/ LinkDownNoticed(e, l)
      PROVE  Goal
  BY <1>3, <1>5 DEF ReceiveDuplicate, ReceiveOutOfWindow, LinkDown, LinkDownNoticed, history
<1>6. ASSUME NEW e \in End, NEW l \in Links, ReceiveSyn(e, l) PROVE Goal
  <2> DEFINE k == Head(net[e][l]).key
  <2>1. CASE e = "inport"
    <3>1. ~unknown_cb(e)
      BY <2>1 DEF unknown_cb
    <3>2. instances' = instances /\ sent' = sent
      BY <1>6, <3>1 DEF ReceiveSyn
    <3>3. sessions' = sessions \/ sessions' = [sessions EXCEPT ![e][k] = NewSession(unknown_cb(e))]
      BY <1>6 DEF ReceiveSyn
    <3>4. t = s \/ t = NewSession(unknown_cb(e))
      <4>1. CASE sessions' = sessions
        BY <4>1
      <4>2. CASE sessions' = [sessions EXCEPT ![e][k] = NewSession(unknown_cb(e))]
        <5> HIDE DEF k
        <5> QED
          BY <1>0, <4>2
      <4> QED
        BY <3>3, <4>1, <4>2
    <3>5. ~NewSession(unknown_cb(e)).handler
      BY <3>1 DEF NewSession
    <3> QED
      BY <1>3, <3>2, <3>4, <3>5
  <2>2. CASE e # "inport"
    <3>1. sessions' = sessions \/ sessions' = [sessions EXCEPT ![e][k] = NewSession(unknown_cb(e))]
      BY <1>6 DEF ReceiveSyn
    <3>2. instances' = instances \/ instances' = [instances EXCEPT ![e][k] = @ + 1]
      BY <1>6 DEF ReceiveSyn, NewHandler
    <3>3. sent' = sent
      BY <1>6 DEF ReceiveSyn
    <3>4. t = s /\ inst2 = inst
      BY <1>0, <2>2, <3>1, <3>2
    <3> QED
      BY <1>3, <3>3, <3>4
  <2> QED
    BY <2>1, <2>2
<1>7. ASSUME NEW e \in End, NEW l \in Links, ReceiveFin(e, l) PROVE Goal
  <2> DEFINE k == Head(net[e][l]).key
  <2>1. sessions' = [sessions EXCEPT ![e][k] = NoSession] /\ instances' = instances /\ sent' = sent
    BY <1>7 DEF ReceiveFin
  <2>2. t = s \/ t = NoSession
    BY <1>0, <2>1
  <2> QED
    BY <1>3, <2>1, <2>2
<1>8. ASSUME NEW e \in End, NEW l \in Links, ReceiveData(e, l) PROVE Goal
  <2>0. PICK seg \in Segment, r \in Session, n \in 0..SeqMod :
            DataStep(e, l, seg, r, n)
    BY <1>8, ReceiveDataFacts
  <2>1. /\ r = Emplace(Base(e, seg.key), seg)
        /\ sessions' = [sessions EXCEPT ![e][seg.key] = deliverInOrder(r, n)]
        /\ IF sessions[e][seg.key] = NoSession /\ r.handler
           THEN NewHandler(e, seg.key) ELSE UNCHANGED <<prior, instances, eof>>
        /\ sent' = sent
    BY <2>0 DEF DataStep
  <2>2. instances' = instances \/ instances' = [instances EXCEPT ![e][seg.key] = @ + 1]
    BY <2>1 DEF NewHandler
  <2>3. CASE ~(e = "inport" /\ j = seg.key)
    <3>1. t = s /\ inst2 = inst
      BY <1>0, <2>1, <2>2, <2>3
    <3> QED
      BY <1>3, <2>1, <3>1
  <2>4. CASE e = "inport" /\ j = seg.key
    <3>1. t = deliverInOrder(r, n)
      BY <1>0, <2>1, <2>4
    <3>2. t.next_send_seq = r.next_send_seq /\ t.handler = r.handler
      BY <3>1 DEF deliverInOrder, Session
    <3>3. Base(e, j) \in Session
      BY <2>4, BaseType
    <3>4. r.next_send_seq = Base(e, j).next_send_seq /\ r.handler = Base(e, j).handler
      BY <2>1, <2>4, <3>3 DEF Emplace, Session
    <3>5. CASE s = NoSession
      <4>1. ~r.handler
        BY <2>4, <3>4, <3>5 DEF Base, NewSession, unknown_cb
      <4>2. instances' = instances
        BY <2>1, <4>1
      <4> QED
        BY <2>1, <3>2, <4>1, <4>2
    <3>6. CASE s # NoSession
      <4>1. t.next_send_seq = s.next_send_seq /\ t.handler = s.handler
        BY <2>4, <3>2, <3>4, <3>6 DEF Base
      <4>2. instances' = instances
        BY <2>1, <2>4, <3>6
      <4> QED
        BY <2>1, <3>6, <4>1, <4>2
    <3> QED
      BY <3>5, <3>6
  <2> QED
    BY <2>3, <2>4
<1>9. ASSUME NEW l \in Links, LinkUp(l) PROVE Goal
  BY <1>3, <1>9 DEF LinkUp, history
<1>10. ASSUME UNCHANGED vars PROVE Goal
  BY <1>3, <1>10 DEF vars
<1>11. Goal
  BY <1>1, <1>2, <1>4, <1>5, <1>6, <1>7, <1>8, <1>9, <1>10 DEF Next, onChannelBytes
<1>12. s # NoSession /\ s.handler => inst # 0
  BY DEF StreamInv
<1> QED
  BY <1>11, <1>12

(* The relay's side keeps what it has, or a relay is attached by a SYN, or  *)
(* a DATA segment arrives.                                                  *)
OutportKept(k) ==
    \/ sessions'["outport"][k] = sessions["outport"][k]
    \/ sessions'["outport"][k] = NoSession
    \/ /\ sessions["outport"][k] # NoSession
       /\ sessions'["outport"][k] = [sessions["outport"][k] EXCEPT !.next_send_seq =
                                         Plus(sessions["outport"][k].next_send_seq, 1)]

LEMMA OutportStep ==
    ASSUME TypeOK, [Next]_vars
    PROVE  \/ /\ handed'["outport"] = handed["outport"]
              /\ instances'["outport"] = instances["outport"]
              /\ \A k \in Keys : OutportKept(k)
           \/ /\ sent' = sent
              /\ \E k \in Keys :
                   /\ sessions' = [sessions EXCEPT !["outport"][k] = NewSession(TRUE)]
                   /\ handed' = [handed EXCEPT !["outport"][k] = <<>>]
                   /\ instances' = [instances EXCEPT !["outport"][k] = @ + 1]
           \/ \E l \in Links : ReceiveData("outport", l)
<1> DEFINE Kept == /\ handed'["outport"] = handed["outport"]
                   /\ instances'["outport"] = instances["outport"]
                   /\ \A k \in Keys : OutportKept(k)
           Attached == /\ sent' = sent
                       /\ \E k \in Keys :
                            /\ sessions' = [sessions EXCEPT !["outport"][k] = NewSession(TRUE)]
                            /\ handed' = [handed EXCEPT !["outport"][k] = <<>>]
                            /\ instances' = [instances EXCEPT !["outport"][k] = @ + 1]
           Arrived == \E l \in Links : ReceiveData("outport", l)
           Goal == Kept \/ Attached \/ Arrived
<1>0. /\ sessions \in [End -> [Keys -> Session \cup {NoSession}]]
      /\ instances \in [End -> [Keys -> Nat]]
      /\ handed \in [End -> [Keys -> Seq(Payloads)]]
      /\ "inport" \in End /\ "outport" \in End
  BY DEF TypeOK, End
<1>1. ASSUME NEW k \in Keys, openSession(k) PROVE Goal
  <2>1. /\ sessions' = [sessions EXCEPT !["inport"][k] = NewSession(TRUE)]
        /\ instances' = [instances EXCEPT !["inport"][k] = @ + 1]
        /\ handed' = [handed EXCEPT !["inport"][k] = <<>>]
    BY <1>1 DEF openSession, NewHandler
  <2>2. sessions'["outport"] = sessions["outport"]
    BY <1>0, <2>1
  <2> QED
    BY <1>0, <2>1, <2>2 DEF OutportKept
<1>2. ASSUME NEW e \in End, NEW k \in Keys, NEW p \in Payloads, sendSessionData(e, k, p)
      PROVE  Goal
  <2>1. /\ sessions[e][k] # NoSession
        /\ sessions' = [sessions EXCEPT ![e][k] =
              [sessions[e][k] EXCEPT !.next_send_seq = Plus(sessions[e][k].next_send_seq, 1)]]
        /\ instances' = instances /\ handed' = handed
    BY <1>2 DEF sendSessionData
  <2>2. ASSUME NEW j \in Keys PROVE OutportKept(j)
    BY <1>0, <2>1 DEF OutportKept
  <2> QED
    BY <2>1, <2>2
<1>3. ASSUME NEW e \in End, NEW k, sessions' = [sessions EXCEPT ![e][k] = NoSession],
             instances' = instances, handed' = handed
      PROVE  Goal
  <2>1. ASSUME NEW j \in Keys PROVE OutportKept(j)
    BY <1>0, <1>3 DEF OutportKept
  <2> QED
    BY <1>3, <2>1
<1>4. ASSUME NEW e \in End, NEW k \in Keys, closeSession(e, k) PROVE Goal
  BY <1>3, <1>4 DEF closeSession, history
<1>5. ASSUME sessions' = sessions, instances' = instances, handed' = handed PROVE Goal
  BY <1>5 DEF OutportKept
<1>6. ASSUME NEW e \in End, NEW l \in Links,
             ReceiveDuplicate(e, l) \/ ReceiveOutOfWindow(e, l) \/ LinkDown(e, l)
                \/ LinkDownNoticed(e, l)
      PROVE  Goal
  BY <1>5, <1>6 DEF ReceiveDuplicate, ReceiveOutOfWindow, LinkDown, LinkDownNoticed, history
<1>7. ASSUME NEW e \in End, NEW l \in Links, ReceiveSyn(e, l) PROVE Goal
  <2> DEFINE k == Head(net[e][l]).key
  <2>1. k \in Keys
    BY <1>7, HeadType DEF ReceiveSyn, Accepts, TypeOK, Segment
  <2>2. CASE sessions[e][k] # NoSession
    BY <1>5, <1>7, <2>2 DEF ReceiveSyn
  <2>3. CASE sessions[e][k] = NoSession /\ e = "outport"
    <3>1. unknown_cb(e) = TRUE
      BY <2>3 DEF unknown_cb
    <3> QED
      BY <1>7, <2>1, <2>3, <3>1 DEF ReceiveSyn, NewHandler
  <2>4. CASE sessions[e][k] = NoSession /\ e # "outport"
    <3>1. ~unknown_cb(e)
      BY <2>4 DEF unknown_cb
    <3>2. /\ sessions' = [sessions EXCEPT ![e][k] = NewSession(unknown_cb(e))]
          /\ handed' = handed /\ instances' = instances
      BY <1>7, <2>4, <3>1 DEF ReceiveSyn
    <3>3. sessions'["outport"] = sessions["outport"]
      BY <1>0, <2>4, <3>2
    <3> QED
      BY <3>2, <3>3 DEF OutportKept
  <2> QED
    BY <2>2, <2>3, <2>4
<1>8. ASSUME NEW e \in End, NEW l \in Links, ReceiveFin(e, l) PROVE Goal
  BY <1>3, <1>8 DEF ReceiveFin
<1>9. ASSUME NEW e \in End, NEW l \in Links, ReceiveData(e, l) PROVE Goal
  <2>1. CASE e = "outport"
    BY <1>9, <2>1
  <2>2. CASE e # "outport"
    <3>0. PICK seg \in Segment, r \in Session, n \in 0..SeqMod :
              DataStep(e, l, seg, r, n)
      BY <1>9, ReceiveDataFacts
    <3>1. /\ sessions' = [sessions EXCEPT ![e][seg.key] = deliverInOrder(r, n)]
          /\ handed' = [handed EXCEPT ![e][seg.key] =
                 (IF sessions[e][seg.key] = NoSession /\ r.handler THEN <<>> ELSE @)
                     \o Taken(r, n)]
          /\ IF sessions[e][seg.key] = NoSession /\ r.handler
             THEN NewHandler(e, seg.key) ELSE UNCHANGED <<prior, instances, eof>>
      BY <3>0 DEF DataStep
    <3>2. instances' = instances \/ instances' = [instances EXCEPT ![e][seg.key] = @ + 1]
      BY <3>1 DEF NewHandler
    <3>3. /\ sessions'["outport"] = sessions["outport"]
          /\ handed'["outport"] = handed["outport"]
          /\ instances'["outport"] = instances["outport"]
      BY <1>0, <2>2, <3>1, <3>2
    <3> QED
      BY <3>3 DEF OutportKept
  <2> QED
    BY <2>1, <2>2
<1>10. ASSUME NEW l \in Links, LinkUp(l) PROVE Goal
  BY <1>5, <1>10 DEF LinkUp, history
<1>11. ASSUME UNCHANGED vars PROVE Goal
  BY <1>5, <1>11 DEF vars
<1> QED
  BY <1>1, <1>2, <1>4, <1>6, <1>7, <1>8, <1>9, <1>10, <1>11 DEF Next, onChannelBytes

(* What the arrival of DATA does to one session of a relay: chunks h become *)
(* h followed by the run, and stay a prefix of what the client wrote.       *)
LEMMA RunExtends ==
    ASSUME NEW s \in Session, NEW n \in 0..SeqMod, NEW h \in Seq(Payloads),
           NEW w \in Seq(Payloads), Len(w) + RecvWindow <= SeqMod, NEW own \in Nat,
           InRange(s, own, Len(w)), RunLength(s, n), Matches(s, h, w), IsPrefixOf(h, w)
    PROVE  /\ Matches(deliverInOrder(s, n), h \o Taken(s, n), w)
           /\ IsPrefixOf(h \o Taken(s, n), w)
<1> DEFINE exp == s.expected_rx_seq
           d == deliverInOrder(s, n)
           g == h \o Taken(s, n)
<1>1. /\ exp + n <= Len(w)
      /\ \A m \in 0..(n - 1) : Plus(exp, m) = exp + m /\ s.rx_buffer[exp + m] # NoPayload
      /\ d.expected_rx_seq = exp + n
  BY DeliverNumbers
<1>2. Taken(s, n) \in Seq(Payloads) /\ Len(Taken(s, n)) = n
  BY TakenType
<1>3. exp = Len(h) /\ n \in Nat /\ exp \in Nat /\ Len(w) < SeqMod /\ SeqMod \in Nat
      /\ Len(w) \in Nat
  BY WindowAssumption DEF Matches
<1>4. g \in Seq(Payloads) /\ Len(g) = exp + n
  BY <1>2, <1>3
<1>5. ASSUME NEW i \in 1..n PROVE Taken(s, n)[i] = w[exp + i]
  <2>1. i - 1 \in 0..(n - 1) /\ exp + (i - 1) \in SeqNum /\ exp + (i - 1) + 1 = exp + i
    BY <1>1, <1>3 DEF SeqNum
  <2>2. Taken(s, n)[i] = s.rx_buffer[exp + (i - 1)]
    BY <1>1, <2>1 DEF Taken
  <2>3. s.rx_buffer[exp + (i - 1)] = w[exp + (i - 1) + 1]
    BY <1>1, <2>1 DEF Matches
  <2> QED
    BY <2>1, <2>2, <2>3
<1>6. IsPrefixOf(g, w)
  <2>1. ASSUME NEW i \in 1..Len(g) PROVE g[i] = w[i]
    <3>1. CASE i <= exp
      <4>1. i \in 1..Len(h) /\ g[i] = h[i]
        BY <1>2, <1>3, <1>4, <3>1
      <4> QED
        BY <4>1 DEF IsPrefixOf
    <3>2. CASE ~(i <= exp)
      <4>1. i - exp \in 1..n /\ exp + (i - exp) = i
        BY <1>3, <1>4, <3>2
      <4>2. g[i] = Taken(s, n)[i - exp]
        BY <1>2, <1>3, <1>4, <3>2
      <4> QED
        BY <1>5, <4>1, <4>2
    <3> QED
      BY <3>1, <3>2
  <2> QED
    BY <1>1, <1>4, <2>1 DEF IsPrefixOf
<1>7. Matches(d, g, w)
  <2>1. d.handler = s.handler
    BY DEF deliverInOrder, Session
  <2>2. \A i \in SeqNum : d.rx_buffer[i] = IF i \in Run(s, n) THEN NoPayload ELSE s.rx_buffer[i]
    BY DEF deliverInOrder, Session
  <2> QED
    BY <1>1, <1>4, <2>1, <2>2 DEF Matches
<1> QED
  BY <1>6, <1>7

(* A fresh relay matches any stream: it has been given nothing. *)
LEMMA NewMatches ==
    ASSUME NEW w PROVE Matches(NewSession(TRUE), <<>>, w)
BY DEF Matches, NewSession

(* A prefix stays a prefix, and a match a match, when the stream grows. *)
LEMMA MatchesGrows ==
    ASSUME NEW s \in Session, NEW h \in Seq(Payloads), NEW w \in Seq(Payloads),
           NEW w2 \in Seq(Payloads), NEW own \in Nat,
           Len(w) <= Len(w2), \A i \in 1..Len(w) : w2[i] = w[i],
           InRange(s, own, Len(w)), Matches(s, h, w)
    PROVE  Matches(s, h, w2)
<1>1. ASSUME NEW i \in SeqNum, s.rx_buffer[i] # NoPayload PROVE s.rx_buffer[i] = w2[i + 1]
  <2>1. i + 1 \in 1..Len(w) /\ s.rx_buffer[i] = w[i + 1]
    BY <1>1 DEF InRange, Matches, SeqNum
  <2> QED
    BY <2>1
<1> QED
  BY <1>1 DEF Matches

LEMMA PrefixGrows ==
    ASSUME NEW h \in Seq(Payloads), NEW w \in Seq(Payloads), NEW w2 \in Seq(Payloads),
           Len(w) <= Len(w2), \A i \in 1..Len(w) : w2[i] = w[i], IsPrefixOf(h, w)
    PROVE  IsPrefixOf(h, w2)
BY DEF IsPrefixOf

(* Storing the right chunk keeps the match. *)
LEMMA EmplaceMatches ==
    ASSUME NEW s \in Session, NEW seg \in Segment, NEW h, NEW w,
           Matches(s, h, w), seg.payload = w[seg.seq + 1]
    PROVE  Matches(Emplace(s, seg), h, w)
<1> DEFINE t == Emplace(s, seg)
<1>1. t.handler = s.handler /\ t.expected_rx_seq = s.expected_rx_seq
  BY DEF Emplace, Session
<1>2. ASSUME NEW i \in SeqNum
      PROVE  t.rx_buffer[i] = s.rx_buffer[i] \/ (i = seg.seq /\ t.rx_buffer[i] = seg.payload)
  BY DEF Emplace, Session, Segment
<1> QED
  BY <1>1, <1>2 DEF Matches

(* A step preserves the relay's part of StreamInv. *)
LEMMA RelayStep ==
    ASSUME NoWrap, TypeOK, TypeOK', NumbersInv, StreamInv, [Next]_vars, NEW j \in Keys
    PROVE  /\ sessions'["outport"][j] # NoSession =>
                  Matches(sessions'["outport"][j], handed'["outport"][j], sent'["inport"][j])
           /\ IsPrefixOf(handed'["outport"][j], sent'["inport"][j])
<1> DEFINE s == sessions["outport"][j]
           t == sessions'["outport"][j]
           h == handed["outport"][j]
           h2 == handed'["outport"][j]
           w == sent["inport"][j]
           w2 == sent'["inport"][j]
           own == Len(sent["outport"][j])
<1>0. /\ "inport" \in End /\ "outport" \in End /\ Peer("outport") = "inport"
      /\ sessions \in [End -> [Keys -> Session \cup {NoSession}]]
      /\ handed \in [End -> [Keys -> Seq(Payloads)]]
      /\ h \in Seq(Payloads) /\ h2 \in Seq(Payloads)
      /\ w \in Seq(Payloads) /\ w2 \in Seq(Payloads) /\ own \in Nat /\ Len(w) \in Nat
  <2>1. "inport" \in End /\ "outport" \in End /\ Peer("outport") = "inport"
    BY DEF End, Peer
  <2>2. /\ sessions \in [End -> [Keys -> Session \cup {NoSession}]]
        /\ handed \in [End -> [Keys -> Seq(Payloads)]]
        /\ h \in Seq(Payloads) /\ h2 \in Seq(Payloads)
    <3>1. /\ sessions \in [End -> [Keys -> Session \cup {NoSession}]]
          /\ handed \in [End -> [Keys -> Seq(Payloads)]]
          /\ handed' \in [End -> [Keys -> Seq(Payloads)]]
      BY DEF TypeOK
    <3> QED
      BY <2>1, <3>1
  <2>3. w \in Seq(Payloads) /\ w2 \in Seq(Payloads) /\ sent["outport"][j] \in Seq(Payloads)
    BY <2>1 DEF TypeOK
  <2> QED
    BY <2>1, <2>2, <2>3
<1>1. Len(w) <= Len(w2) /\ \A i \in 1..Len(w) : w2[i] = w[i]
  BY <1>0, SentGrows
<1>2. s # NoSession => s \in Session /\ InRange(s, own, Len(w)) /\ Matches(s, h, w)
  <2>1. s \in Session \cup {NoSession}
    BY <1>0
  <2>2. s # NoSession => InRange(s, own, Len(w)) /\ Matches(s, h, w)
    BY <1>0 DEF NumbersInv, StreamInv
  <2> QED
    BY <2>1, <2>2
<1>3. IsPrefixOf(h, w)
  BY DEF StreamInv, InOrderForward
<1>4. Len(w) + RecvWindow <= SeqMod
  <2>1. Len(w) <= MaxSegs["inport"] /\ MaxSegs["inport"] + RecvWindow <= SeqMod
        /\ MaxSegs["inport"] \in Nat /\ Len(w) \in Nat
    BY <1>0, BoundsAssumption DEF NumbersInv, NoWrap
  <2> QED
    BY <2>1, WindowAssumption
<1>5. CASE h2 = h /\ OutportKept(j)
  <2>1. IsPrefixOf(h2, w2)
    <3> HIDE DEF h, w, w2, h2
    <3> QED
      BY <1>0, <1>1, <1>3, <1>5, PrefixGrows
  <2>2. ASSUME t # NoSession PROVE Matches(t, h2, w2)
    <3>1. s # NoSession /\ s \in Session
      BY <1>2, <1>5, <2>2 DEF OutportKept
    <3>2. /\ t.handler = s.handler /\ t.expected_rx_seq = s.expected_rx_seq
          /\ t.rx_buffer = s.rx_buffer
      BY <1>5, <2>2, <3>1 DEF OutportKept, Session
    <3>3. Matches(s, h, w2)
      <4>1. InRange(s, own, Len(w)) /\ Matches(s, h, w)
        BY <1>2, <3>1
      <4> HIDE DEF s, h, w, w2, own
      <4> QED
        BY <1>0, <1>1, <3>1, <4>1, MatchesGrows
    <3> QED
      BY <1>5, <3>2, <3>3 DEF Matches
  <2> QED
    BY <2>1, <2>2
<1>6. CASE t = NewSession(TRUE) /\ h2 = <<>>
  <2>1. IsPrefixOf(<<>>, w2)
    BY <1>0 DEF IsPrefixOf
  <2> QED
    BY <1>6, <2>1, NewMatches
<1>7. ASSUME NEW l \in Links, ReceiveData("outport", l)
      PROVE  (t # NoSession => Matches(t, h2, w2)) /\ IsPrefixOf(h2, w2)
  <2>0. PICK seg \in Segment, r \in Session, n \in 0..SeqMod :
            DataStep("outport", l, seg, r, n)
    BY <1>0, <1>7, ReceiveDataFacts
  <2>1. /\ net["outport"][l] # <<>>
        /\ seg = Head(net["outport"][l])
        /\ seg.kind = "DATA"
        /\ Rel(seg.seq, Expected("outport", seg.key)) < RecvWindow
        /\ r = Emplace(Base("outport", seg.key), seg)
        /\ RunLength(r, n)
        /\ sessions' = [sessions EXCEPT !["outport"][seg.key] = deliverInOrder(r, n)]
        /\ handed' = [handed EXCEPT !["outport"][seg.key] =
               (IF sessions["outport"][seg.key] = NoSession /\ r.handler THEN <<>> ELSE @)
                   \o Taken(r, n)]
        /\ sent' = sent
    BY <2>0 DEF DataStep
  <2>2. CASE seg.key # j
    <3>1. t = s /\ h2 = h /\ w2 = w
      BY <1>0, <2>1, <2>2
    <3> QED
      BY <1>5, <3>1 DEF OutportKept
  <2>3. CASE seg.key = j
    <3> DEFINE b == Base("outport", j)
               h0 == IF s = NoSession THEN <<>> ELSE h
    <3>1. b \in Session /\ b.expected_rx_seq = Expected("outport", j)
      BY <1>0, BaseType
    <3>2. InRange(b, own, Len(w)) /\ Matches(b, h0, w)
      <4>1. CASE s = NoSession
        <5>1. b = NewSession(TRUE)
          BY <4>1 DEF Base, unknown_cb
        <5>2. InRange(NewSession(TRUE), own, Len(w))
          <6> HIDE DEF own, w
          <6> QED
            BY <1>0, NewInRange
        <5>3. Matches(NewSession(TRUE), <<>>, w)
          BY NewMatches
        <5> QED
          BY <4>1, <5>1, <5>2, <5>3
      <4>2. CASE s # NoSession
        BY <1>2, <4>2 DEF Base
      <4> QED
        BY <4>1, <4>2
    <3>3. OnLink(net["outport"][l], seg)
      <4>1. net["outport"][l] \in Seq(Segment)
        BY <1>0 DEF TypeOK
      <4> QED
        BY <2>1, <4>1, HeadOnLink
    <3>4. seg.seq < Len(w) /\ seg.payload = w[seg.seq + 1]
      BY <1>0, <2>1, <2>3, <3>3 DEF NumbersInv, StreamInv
    <3>5. r = Emplace(b, seg) /\ r \in Session
      BY <2>1, <2>3
    <3>6. Matches(r, h0, w)
      BY <3>1, <3>2, <3>4, <3>5, EmplaceMatches
    <3>7. InRange(r, own, Len(w))
      <4>1. Rel(seg.seq, b.expected_rx_seq) < RecvWindow
        <5>1. Rel(seg.seq, Expected("outport", j)) < RecvWindow
          BY <2>1, <2>3
        <5> HIDE DEF b
        <5> QED
          BY <3>1, <5>1
      <4> HIDE DEF b, w, own
      <4> QED
        BY <1>0, <1>4, <3>1, <3>2, <3>4, <3>5, <4>1, EmplaceInRange
    <3>8. h0 \in Seq(Payloads) /\ IsPrefixOf(h0, w)
      <4>1. IsPrefixOf(<<>>, w)
        <5> HIDE DEF w
        <5> QED
          BY <1>0 DEF IsPrefixOf
      <4>2. <<>> \in Seq(Payloads)
        OBVIOUS
      <4> HIDE DEF h, w, s
      <4> QED
        BY <1>0, <1>3, <4>1, <4>2
    <3>9. Matches(deliverInOrder(r, n), h0 \o Taken(r, n), w) /\ IsPrefixOf(h0 \o Taken(r, n), w)
      <4> HIDE DEF h0, w, own
      <4> QED
        BY <1>0, <1>4, <2>1, <3>6, <3>7, <3>8, RunExtends
    <3>10. r.handler
      BY <3>6 DEF Matches
    <3>11. t = deliverInOrder(r, n) /\ h2 = h0 \o Taken(r, n) /\ w2 = w
      BY <1>0, <2>1, <2>3, <3>10
    <3> QED
      BY <3>9, <3>11
  <2> QED
    BY <2>2, <2>3
<1>8. CASE /\ handed'["outport"] = handed["outport"]
           /\ \A k \in Keys : OutportKept(k)
  BY <1>5, <1>8
<1>9. ASSUME NEW k \in Keys,
             sessions' = [sessions EXCEPT !["outport"][k] = NewSession(TRUE)],
             handed' = [handed EXCEPT !["outport"][k] = <<>>]
      PROVE  (t # NoSession => Matches(t, h2, w2)) /\ IsPrefixOf(h2, w2)
  <2>1. CASE k = j
    BY <1>0, <1>6, <1>9, <2>1
  <2>2. CASE k # j
    <3>1. t = s /\ h2 = h
      BY <1>0, <1>9, <2>2
    <3> QED
      BY <1>5, <3>1 DEF OutportKept
  <2> QED
    BY <2>1, <2>2
<1> QED
  BY <1>7, <1>8, <1>9, OutportStep

(* A step preserves StreamInv. *)
LEMMA StreamStep ==
    ASSUME NoWrap, TypeOK, TypeOK', NumbersInv, StreamInv, [Next]_vars
    PROVE  StreamInv'
<1>0. "inport" \in End /\ "outport" \in End /\ Peer("outport") = "inport"
  BY DEF End, Peer
<1>1. ASSUME NEW k \in Keys, instances'["inport"][k] = 0 PROVE sent'["inport"][k] = <<>>
  BY <1>1, InportStep DEF StreamInv
<1>2. ASSUME NEW k \in Keys, sessions'["inport"][k] # NoSession, sessions'["inport"][k].handler
      PROVE  /\ instances'["inport"][k] # 0
             /\ sessions'["inport"][k].next_send_seq = Len(sent'["inport"][k])
  <2> DEFINE s == sessions["inport"][k]
             t == sessions'["inport"][k]
             w == sent["inport"][k]
             w2 == sent'["inport"][k]
  <2>1. s # NoSession /\ s.handler => s.next_send_seq = Len(w)
    BY DEF StreamInv
  <2>2. w \in Seq(Payloads)
    BY <1>0 DEF TypeOK
  <2>3. ASSUME s # NoSession, s.handler, Len(w) < MaxSegs["inport"],
               t.next_send_seq = Plus(s.next_send_seq, 1),
               NEW p \in Payloads, w2 = Append(w, p)
        PROVE  t.next_send_seq = Len(w2)
    <3>1. Len(w2) = Len(w) + 1 /\ Len(w) \in Nat
      BY <2>2, <2>3
    <3>2. Len(w) + 1 < SeqMod
      <4>1. MaxSegs["inport"] + RecvWindow <= SeqMod /\ MaxSegs["inport"] \in Nat
        BY <1>0, BoundsAssumption DEF NoWrap
      <4> QED
        BY <2>3, <3>1, <4>1, WindowAssumption
    <3> QED
      BY <2>1, <2>3, <3>1, <3>2 DEF Plus
  <2>4. instances'["inport"][k] # 0
    BY <1>2, InportStep
  <2>5. \/ w = <<>> /\ w2 = w /\ t.next_send_seq = 0
        \/ s # NoSession /\ s.handler /\ w2 = w /\ t.next_send_seq = s.next_send_seq
        \/ /\ s # NoSession /\ s.handler
           /\ \E p \in Payloads : w2 = Append(w, p)
           /\ Len(w) < MaxSegs["inport"]
           /\ t.next_send_seq = Plus(s.next_send_seq, 1)
    BY <1>2, InportStep
  <2>6. t.next_send_seq = Len(w2)
    BY <2>1, <2>3, <2>5
  <2> QED
    BY <2>4, <2>6
<1>3. ASSUME NEW k \in Keys
      PROVE  /\ sessions'["outport"][k] # NoSession =>
                  Matches(sessions'["outport"][k], handed'["outport"][k], sent'["inport"][k])
             /\ IsPrefixOf(handed'["outport"][k], sent'["inport"][k])
  BY RelayStep
<1>4. ASSUME NEW l \in Links, NEW x \in Segment, x.kind = "DATA", OnLink(net'["outport"][l], x)
      PROVE  x.payload = sent'["inport"][x.key][x.seq + 1]
  <2> DEFINE w == sent["inport"][x.key]
             w2 == sent'["inport"][x.key]
  <2>1. x.key \in Keys /\ x.seq \in SeqNum /\ w \in Seq(Payloads)
    BY <1>0 DEF Segment, TypeOK
  <2>2. CASE OnLink(net["outport"][l], x)
    <3>1. x.seq < Len(w) /\ x.payload = w[x.seq + 1]
      BY <1>0, <1>4, <2>2 DEF NumbersInv, StreamInv
    <3>2. x.seq + 1 \in 1..Len(w)
      BY <2>1, <3>1 DEF SeqNum
    <3>3. \A i \in 1..Len(w) : w2[i] = w[i]
      BY <1>0, <2>1, SentGrows
    <3> QED
      BY <3>1, <3>2, <3>3
  <2>3. CASE SentNow("outport", x)
    <3>1. /\ sessions["inport"][x.key] # NoSession
          /\ sessions["inport"][x.key].handler
          /\ x.seq = sessions["inport"][x.key].next_send_seq
          /\ w2 = Append(w, x.payload)
      BY <1>0, <2>3 DEF SentNow
    <3>2. x.seq = Len(w)
      BY <2>1, <3>1 DEF StreamInv
    <3> QED
      BY <2>1, <3>1, <3>2
  <2> QED
    BY <1>0, <1>4, <2>2, <2>3, NetStep
<1> QED
  BY <1>1, <1>2, <1>3, <1>4 DEF StreamInv, InOrderForward

LEMMA StreamInit == Init => StreamInv
<1> SUFFICES ASSUME Init PROVE StreamInv
  OBVIOUS
<1>1. "inport" \in End /\ "outport" \in End
  BY DEF End
<1>2. \A k \in Keys : /\ sent["inport"][k] = <<>> /\ handed["outport"][k] = <<>>
                      /\ sessions["inport"][k] = NoSession /\ sessions["outport"][k] = NoSession
  BY <1>1 DEF Init
<1>3. \A l \in Links, x \in Segment : ~OnLink(net["outport"][l], x)
  BY <1>1 DEF Init, OnLink
<1>4. InOrderForward
  BY <1>2 DEF InOrderForward, IsPrefixOf
<1> QED
  BY <1>2, <1>3, <1>4 DEF StreamInv

LEMMA StreamAlways == ASSUME NoWrap PROVE Spec => [](TypeOK /\ NumbersInv /\ StreamInv)
<1>1. TypeOK /\ TypeOK' /\ NumbersInv /\ StreamInv /\ [Next]_vars => StreamInv'
  BY StreamStep
<1>2. Spec => [](TypeOK /\ NumbersInv)
  BY NumbersAlways
<1> QED
  BY <1>1, <1>2, StreamInit, PTL DEF Spec

(* The relay of a session is given a prefix of what its client wrote, each  *)
(* chunk once and in order, for any number of links, any fan-out, any loss  *)
(* and reconnection of links, any size of the dedup ring, and any order in  *)
(* which the copies arrive.                                                 *)
THEOREM InOrderForwardAlways == ASSUME NoWrap PROVE Spec => []InOrderForward
<1>1. StreamInv => InOrderForward
  BY DEF StreamInv
<1>2. Spec => [](TypeOK /\ NumbersInv /\ StreamInv)
  BY StreamAlways
<1> QED
  BY <1>1, <1>2, PTL

-----------------------------------------------------------------------------
(* DataStream implements OrderedPipe.                                       *)

(* A prefix is an initial subsequence. *)
LEMMA PrefixIsSubSeq ==
    ASSUME NEW h \in Seq(Payloads), NEW w \in Seq(Payloads), IsPrefixOf(h, w)
    PROVE  h = SubSeq(w, 1, Len(h)) /\ Len(h) \in 0..Len(w)
<1>1. Len(h) \in Nat /\ Len(h) <= Len(w) /\ \A i \in 1..Len(h) : h[i] = w[i]
  BY DEF IsPrefixOf
<1>2. SubSeq(w, 1, Len(h)) \in Seq(Payloads) /\ Len(SubSeq(w, 1, Len(h))) = Len(h)
      /\ \A i \in 1..Len(h) : SubSeq(w, 1, Len(h))[i] = w[i]
  BY <1>1
<1> QED
  BY <1>1, <1>2

(* The clients' streams change by one write at a time. *)
LEMMA ClientStep ==
    ASSUME TypeOK, [Next]_vars
    PROVE  \/ sent'["inport"] = sent["inport"]
           \/ \E k \in Keys : \E p \in Payloads :
                sent'["inport"] = [sent["inport"] EXCEPT ![k] = Append(@, p)]
<1>1. ASSUME NEW e \in End, NEW k \in Keys, NEW p \in Payloads, sendSessionData(e, k, p)
      PROVE  \/ sent'["inport"] = sent["inport"]
             \/ sent'["inport"] = [sent["inport"] EXCEPT ![k] = Append(@, p)]
  <2>1. sent' = [sent EXCEPT ![e][k] = Append(@, p)] /\ "inport" \in End
    BY <1>1 DEF sendSessionData, End
  <2> QED
    BY <2>1 DEF TypeOK
<1>2. ASSUME NEW e \in End, NEW l \in Links, onChannelBytes(e, l) PROVE sent' = sent
  BY <1>2 DEF onChannelBytes, ReceiveDuplicate, ReceiveOutOfWindow, ReceiveSyn, ReceiveFin,
              ReceiveData, history
<1>3. ASSUME NEW k \in Keys, openSession(k) PROVE sent' = sent
  BY <1>3 DEF openSession
<1>4. ASSUME NEW e \in End, NEW k \in Keys, closeSession(e, k) PROVE sent' = sent
  BY <1>4 DEF closeSession, history
<1>5. ASSUME NEW e \in End, NEW l \in Links, LinkDown(e, l) \/ LinkDownNoticed(e, l)
      PROVE  sent' = sent
  BY <1>5 DEF LinkDown, LinkDownNoticed, history
<1>6. ASSUME NEW l \in Links, LinkUp(l) PROVE sent' = sent
  BY <1>6 DEF LinkUp, history
<1>7. ASSUME UNCHANGED vars PROVE sent' = sent
  BY <1>7 DEF vars
<1>8. CASE \E e \in End, k \in Keys, p \in Payloads : sendSessionData(e, k, p)
  <2>1. PICK e \in End, k \in Keys, p \in Payloads : sendSessionData(e, k, p)
    BY <1>8
  <2>2. \/ sent'["inport"] = sent["inport"]
        \/ sent'["inport"] = [sent["inport"] EXCEPT ![k] = Append(@, p)]
    BY <1>1, <2>1
  <2> QED
    BY <2>2
<1>9. CASE sent' = sent
  BY <1>9
<1>10. \/ sent' = sent
       \/ \E e \in End, k \in Keys, p \in Payloads : sendSessionData(e, k, p)
  BY <1>2, <1>3, <1>4, <1>5, <1>6, <1>7 DEF Next
<1> QED
  BY <1>8, <1>9, <1>10

(* Every step is a step of the pipe or leaves it alone. *)
LEMMA PipeStep ==
    ASSUME TypeOK, TypeOK', StreamInv, StreamInv', [Next]_vars
    PROVE  [Pipe!Next]_(Pipe!pipe)
<1>0. /\ "inport" \in End /\ "outport" \in End
      /\ handed \in [End -> [Keys -> Seq(Payloads)]]
      /\ handed' \in [End -> [Keys -> Seq(Payloads)]]
      /\ sent' \in [End -> [Keys -> Seq(Payloads)]]
      /\ instances \in [End -> [Keys -> Nat]]
      /\ sessions \in [End -> [Keys -> Session \cup {NoSession}]]
  BY DEF TypeOK, End
<1>1. ASSUME NEW k \in Keys
      PROVE  /\ handed'["outport"][k] =
                    SubSeq(sent'["inport"][k], 1, Len(handed'["outport"][k]))
             /\ Len(handed'["outport"][k]) \in 0..Len(sent'["inport"][k])
  <2>1. IsPrefixOf(handed'["outport"][k], sent'["inport"][k])
    BY DEF StreamInv, InOrderForward
  <2>2. handed'["outport"][k] \in Seq(Payloads) /\ sent'["inport"][k] \in Seq(Payloads)
    BY <1>0
  <2> QED
    BY <2>1, <2>2, PrefixIsSubSeq
<1>2. CASE handed'["outport"] = handed["outport"] /\ instances'["outport"] = instances["outport"]
  <2>1. CASE sent'["inport"] = sent["inport"]
    BY <1>2, <2>1 DEF Pipe!pipe
  <2>2. ASSUME NEW k \in Keys, NEW p \in Payloads,
               sent'["inport"] = [sent["inport"] EXCEPT ![k] = Append(@, p)]
        PROVE  Pipe!Next
    BY <1>2, <2>2 DEF Pipe!Next, Pipe!Write
  <2> QED
    BY <2>1, <2>2, ClientStep
<1>3. ASSUME NEW k \in Keys, sent' = sent,
             \E h : handed'["outport"] = [handed["outport"] EXCEPT ![k] = h],
             instances'["outport"] = [instances["outport"] EXCEPT ![k] = @ + 1]
      PROVE  Pipe!Next
  <2>1. handed'["outport"] = [handed["outport"] EXCEPT ![k] = handed'["outport"][k]]
    BY <1>0, <1>3
  <2>2. Len(handed'["outport"][k]) \in 0..Len(sent["inport"][k])
        /\ handed'["outport"][k] = SubSeq(sent["inport"][k], 1, Len(handed'["outport"][k]))
    BY <1>1, <1>3
  <2>3. Pipe!Attach(k)
    BY <1>3, <2>1, <2>2 DEF Pipe!Attach
  <2> QED
    BY <2>3 DEF Pipe!Next
<1>4. ASSUME NEW k \in Keys, sent' = sent,
             \E h : handed'["outport"] = [handed["outport"] EXCEPT ![k] = h],
             Len(handed["outport"][k]) <= Len(handed'["outport"][k]),
             instances'["outport"] = instances["outport"]
      PROVE  Pipe!Next
  <2>1. handed'["outport"] = [handed["outport"] EXCEPT ![k] = handed'["outport"][k]]
    BY <1>0, <1>4
  <2>2. Len(handed'["outport"][k]) \in 0..Len(sent["inport"][k])
        /\ handed'["outport"][k] = SubSeq(sent["inport"][k], 1, Len(handed'["outport"][k]))
    BY <1>1, <1>4
  <2>3. Len(handed["outport"][k]) \in Nat
    BY <1>0
  <2>4. Len(handed'["outport"][k]) \in Len(handed["outport"][k])..Len(sent["inport"][k])
    BY <1>4, <2>2, <2>3
  <2>5. Pipe!Read(k)
    BY <1>4, <2>1, <2>2, <2>4 DEF Pipe!Read
  <2> QED
    BY <2>5 DEF Pipe!Next
<1>5. ASSUME sent' = sent, NEW k \in Keys,
             handed' = [handed EXCEPT !["outport"][k] = <<>>],
             instances' = [instances EXCEPT !["outport"][k] = @ + 1]
      PROVE  Pipe!Next
  <2>1. /\ handed'["outport"] = [handed["outport"] EXCEPT ![k] = <<>>]
        /\ instances'["outport"] = [instances["outport"] EXCEPT ![k] = @ + 1]
    BY <1>0, <1>5
  <2> QED
    BY <1>3, <1>5, <2>1
<1>6. ASSUME NEW l \in Links, ReceiveData("outport", l) PROVE Pipe!Next
  <2>0. PICK seg \in Segment, s \in Session, n \in 0..SeqMod :
            DataStep("outport", l, seg, s, n)
    BY <1>6, <1>0, ReceiveDataFacts
  <2>1. /\ net["outport"][l] # <<>>
        /\ seg = Head(net["outport"][l])
        /\ s = Emplace(Base("outport", seg.key), seg)
        /\ RunLength(s, n)
        /\ sessions' = [sessions EXCEPT !["outport"][seg.key] = deliverInOrder(s, n)]
        /\ handed' = [handed EXCEPT !["outport"][seg.key] =
               (IF sessions["outport"][seg.key] = NoSession /\ s.handler THEN <<>> ELSE @)
                   \o Taken(s, n)]
        /\ IF sessions["outport"][seg.key] = NoSession /\ s.handler
           THEN NewHandler("outport", seg.key) ELSE UNCHANGED <<prior, instances, eof>>
        /\ sent' = sent
    BY <2>0 DEF DataStep
  <2> DEFINE k == seg.key
             h == handed["outport"][k]
  <2>2. k \in Keys /\ h \in Seq(Payloads)
    <3>1. k \in Keys
      BY DEF Segment
    <3> QED
      BY <1>0, <3>1
  <2>3. Taken(s, n) \in Seq(Payloads)
    BY <2>1, TakenType
  <2>4. CASE sessions["outport"][k] = NoSession /\ s.handler
    <3>1. handed'["outport"] = [handed["outport"] EXCEPT ![k] = <<>> \o Taken(s, n)]
      BY <1>0, <2>1, <2>4
    <3>2. instances'["outport"] = [instances["outport"] EXCEPT ![k] = @ + 1]
      BY <1>0, <2>1, <2>4 DEF NewHandler
    <3> QED
      BY <1>3, <2>1, <2>2, <3>1, <3>2
  <2>5. CASE ~(sessions["outport"][k] = NoSession /\ s.handler)
    <3>1. handed'["outport"] = [handed["outport"] EXCEPT ![k] = h \o Taken(s, n)]
      BY <1>0, <2>1, <2>5
    <3>2. handed'["outport"][k] = h \o Taken(s, n)
      BY <1>0, <2>2, <3>1
    <3>3. Len(h) <= Len(h \o Taken(s, n))
      BY <2>2, <2>3
    <3>4. instances' = instances
      BY <2>1, <2>5
    <3> QED
      BY <1>4, <2>1, <2>2, <3>1, <3>2, <3>3, <3>4
  <2> QED
    BY <2>4, <2>5
<1>7. \/ handed'["outport"] = handed["outport"] /\ instances'["outport"] = instances["outport"]
      \/ /\ sent' = sent
         /\ \E k \in Keys :
              /\ handed' = [handed EXCEPT !["outport"][k] = <<>>]
              /\ instances' = [instances EXCEPT !["outport"][k] = @ + 1]
      \/ \E l \in Links : ReceiveData("outport", l)
  BY OutportStep
<1> QED
  BY <1>2, <1>5, <1>6, <1>7

LEMMA PipeInit == Init => Pipe!Init
BY DEF Init, Pipe!Init, End

(* The multipath stream implements the abstract pipe from every client to   *)
(* its relay.                                                               *)
THEOREM Refinement == ASSUME NoWrap PROVE Spec => ImplementsPipe
<1>1. /\ TypeOK /\ NumbersInv /\ StreamInv
      /\ TypeOK' /\ NumbersInv' /\ StreamInv'
      /\ [Next]_vars
      => [Pipe!Next]_(Pipe!pipe)
  BY PipeStep
<1>2. Spec => [](TypeOK /\ NumbersInv /\ StreamInv)
  BY StreamAlways
<1> QED
  BY <1>1, <1>2, PipeInit, PTL DEF Spec, ImplementsPipe, Pipe!Spec


-----------------------------------------------------------------------------
(* The dedup table and the handlers of one session.                         *)

(* The ring of end d is as it was, or has also recorded a key that is not   *)
(* one of session j's DATA.                                                 *)
OtherKey(d, j) ==
    \/ dedup'[d] = dedup[d]
    \/ \E dk \in DedupKeyType : (dk.kind # "DATA" \/ dk.key # j) /\ dedup'[d] = Remember(dedup[d], dk)

(* The three things a step can mean to session j of end d: its handler      *)
(* keeps what it has; a handler is attached by a call or a SYN; DATA of the *)
(* session is read.                                                         *)
Kept(d, j) ==
    /\ handed'[d][j] = handed[d][j] /\ prior'[d][j] = prior[d][j] /\ instances'[d][j] = instances[d][j]
    /\ \/ sessions'[d][j] = sessions[d][j]
       \/ sessions'[d][j] = NoSession
       \/ sessions'[d][j] = NewSession(FALSE)
       \/ /\ sessions[d][j] # NoSession
          /\ sessions'[d][j] =
               [sessions[d][j] EXCEPT !.next_send_seq = Plus(sessions[d][j].next_send_seq, 1)]
    /\ OtherKey(d, j)

Attached(d, j) ==
    /\ sessions'[d][j] = NewSession(TRUE) /\ handed'[d][j] = <<>>
    /\ prior'[d][j] = prior[d][j] + Len(handed[d][j]) /\ instances'[d][j] = instances[d][j] + 1
    /\ OtherKey(d, j)

DataRead(d, j, seg, s, n) ==
    /\ seg.kind = "DATA" /\ seg.key = j /\ DedupKey(seg) \notin Recorded(dedup[d])
    /\ \E l \in Links : net[d][l] # <<>> /\ seg = Head(net[d][l])
    /\ Rel(seg.seq, Expected(d, j)) < RecvWindow
    /\ s = Emplace(Base(d, j), seg) /\ RunLength(s, n)
    /\ sessions'[d][j] = deliverInOrder(s, n)
    /\ dedup'[d] = Remember(dedup[d], DedupKey(seg))
    /\ IF sessions[d][j] = NoSession /\ s.handler
       THEN /\ handed'[d][j] = Taken(s, n)
            /\ prior'[d][j] = prior[d][j] + Len(handed[d][j]) /\ instances'[d][j] = instances[d][j] + 1
       ELSE /\ handed'[d][j] = handed[d][j] \o Taken(s, n)
            /\ prior'[d][j] = prior[d][j] /\ instances'[d][j] = instances[d][j]

LEMMA HandlerStep ==
    ASSUME TypeOK, [Next]_vars, NEW d \in End, NEW j \in Keys
    PROVE  \/ Kept(d, j) \/ Attached(d, j)
           \/ \E seg \in Segment : \E s \in Session : \E n \in 0..SeqMod : DataRead(d, j, seg, s, n)
<1> DEFINE Goal == \/ Kept(d, j) \/ Attached(d, j)
                   \/ \E seg \in Segment : \E s \in Session : \E n \in 0..SeqMod : DataRead(d, j, seg, s, n)
<1>0. /\ sessions \in [End -> [Keys -> Session \cup {NoSession}]]
      /\ instances \in [End -> [Keys -> Nat]] /\ prior \in [End -> [Keys -> Nat]]
      /\ handed \in [End -> [Keys -> Seq(Payloads)]]
      /\ dedup \in [End -> Seq(DedupKeyType)]
      /\ "inport" \in End /\ "outport" \in End
  BY DEF TypeOK, End
<1>1. ASSUME NEW k \in Keys, openSession(k) PROVE Goal
  <2>1. /\ sessions' = [sessions EXCEPT !["inport"][k] = NewSession(TRUE)]
        /\ instances' = [instances EXCEPT !["inport"][k] = @ + 1]
        /\ prior' = [prior EXCEPT !["inport"][k] = @ + Len(handed["inport"][k])]
        /\ handed' = [handed EXCEPT !["inport"][k] = <<>>] /\ dedup' = dedup
    BY <1>1 DEF openSession, NewHandler
  <2>2. CASE d = "inport" /\ j = k
    BY <1>0, <2>1, <2>2 DEF Attached, OtherKey
  <2>3. CASE ~(d = "inport" /\ j = k)
    <3>1. /\ sessions'[d][j] = sessions[d][j] /\ instances'[d][j] = instances[d][j]
          /\ prior'[d][j] = prior[d][j] /\ handed'[d][j] = handed[d][j]
      BY <1>0, <2>1, <2>3
    <3> QED
      BY <2>1, <3>1 DEF Kept, OtherKey
  <2> QED
    BY <2>2, <2>3
<1>2. ASSUME NEW e \in End, NEW k \in Keys, NEW p \in Payloads, sendSessionData(e, k, p)
      PROVE  Goal
  <2>1. /\ sessions[e][k] # NoSession
        /\ sessions' = [sessions EXCEPT ![e][k] =
              [sessions[e][k] EXCEPT !.next_send_seq = Plus(sessions[e][k].next_send_seq, 1)]]
        /\ instances' = instances /\ handed' = handed /\ prior' = prior /\ dedup' = dedup
    BY <1>2 DEF sendSessionData
  <2>2. \/ sessions'[d][j] = sessions[d][j]
        \/ /\ sessions[d][j] # NoSession
           /\ sessions'[d][j] =
                [sessions[d][j] EXCEPT !.next_send_seq = Plus(sessions[d][j].next_send_seq, 1)]
    BY <1>0, <2>1
  <2> QED
    BY <2>1, <2>2 DEF Kept, OtherKey
<1>3. ASSUME sessions' = sessions \/ \E e \in End : \E k \in Keys : sessions' = [sessions EXCEPT ![e][k] = NoSession],
             UNCHANGED <<handed, prior, instances>>, OtherKey(d, j)
      PROVE  Goal
  <2>1. sessions'[d][j] = sessions[d][j] \/ sessions'[d][j] = NoSession
    <3>1. ASSUME NEW e \in End, NEW k \in Keys, sessions' = [sessions EXCEPT ![e][k] = NoSession]
          PROVE  sessions'[d][j] = sessions[d][j] \/ sessions'[d][j] = NoSession
      BY <1>0, <3>1
    <3> QED
      BY <1>3, <3>1
  <2> QED
    BY <1>3, <2>1 DEF Kept
<1>4. ASSUME NEW e \in End, NEW k \in Keys, closeSession(e, k) PROVE Goal
  BY <1>3, <1>4 DEF closeSession, history, OtherKey
<1>5. ASSUME NEW e \in End, NEW l \in Links,
             ReceiveDuplicate(e, l) \/ ReceiveOutOfWindow(e, l) \/ LinkDown(e, l)
                \/ LinkDownNoticed(e, l)
      PROVE  Goal
  BY <1>3, <1>5 DEF ReceiveDuplicate, ReceiveOutOfWindow, LinkDown, LinkDownNoticed, history, OtherKey
<1>a. ASSUME NEW e \in End, NEW l \in Links, NEW kind \in {"SYN", "FIN", "DATA"}, Accepts(e, l, kind)
      PROVE  /\ Head(net[e][l]) \in Segment /\ Head(net[e][l]).key \in Keys /\ Head(net[e][l]).kind = kind
             /\ DedupKey(Head(net[e][l])) \in DedupKeyType
             /\ DedupKey(Head(net[e][l])).kind = kind
             /\ DedupKey(Head(net[e][l])).key = Head(net[e][l]).key
             /\ dedup'[d] = IF d = e THEN Remember(dedup[e], DedupKey(Head(net[e][l]))) ELSE dedup[d]
  <2>1. Head(net[e][l]) \in Segment /\ Head(net[e][l]).kind = kind
    BY <1>a, HeadType DEF Accepts, TypeOK
  <2>2. dedup' = [dedup EXCEPT ![e] = Remember(dedup[e], DedupKey(Head(net[e][l])))]
    BY <1>a DEF Accepts, Record
  <2> DEFINE g == Head(net[e][l])
             dk == DedupKey(g)
  <2> HIDE DEF g
  <2>3. g \in Segment /\ g.kind = kind
    BY <2>1 DEF g
  <2>4. g.key \in Keys /\ dk \in DedupKeyType /\ dk.kind = kind /\ dk.key = g.key
    BY <2>3 DEF DedupKey, DedupKeyType, Segment
  <2>5. dedup'[d] = IF d = e THEN Remember(dedup[e], DedupKey(Head(net[e][l]))) ELSE dedup[d]
    BY <1>0, <2>2
  <2> QED
    BY <2>1, <2>4, <2>5 DEF g
<1>6. ASSUME NEW e \in End, NEW l \in Links, ReceiveSyn(e, l) PROVE Goal
  <2> DEFINE k == Head(net[e][l]).key
             v == NewSession(unknown_cb(e))
  <2>1. OtherKey(d, j) /\ k \in Keys
    <3>1. Accepts(e, l, "SYN")
      BY <1>6 DEF ReceiveSyn
    <3> QED
      BY <1>a, <3>1 DEF OtherKey
  <2>2. CASE sessions[e][k] # NoSession
    <3>1. UNCHANGED <<sessions, handed, prior, instances>>
      BY <1>6, <2>2 DEF ReceiveSyn
    <3> QED
      BY <1>3, <2>1, <3>1
  <2>3. CASE sessions[e][k] = NoSession /\ unknown_cb(e)
    <3>1. /\ sessions' = [sessions EXCEPT ![e][k] = v]
          /\ instances' = [instances EXCEPT ![e][k] = @ + 1]
          /\ prior' = [prior EXCEPT ![e][k] = @ + Len(handed[e][k])]
          /\ handed' = [handed EXCEPT ![e][k] = <<>>]
      BY <1>6, <2>3 DEF ReceiveSyn, NewHandler
    <3>2. v = NewSession(TRUE)
      BY <2>3 DEF unknown_cb
    <3> HIDE DEF k, v
    <3>3. CASE d = e /\ j = k
      BY <1>0, <2>1, <3>1, <3>2, <3>3 DEF Attached
    <3>4. CASE ~(d = e /\ j = k)
      <4>1. /\ sessions'[d][j] = sessions[d][j] /\ instances'[d][j] = instances[d][j]
            /\ prior'[d][j] = prior[d][j] /\ handed'[d][j] = handed[d][j]
        BY <1>0, <3>1, <3>4
      <4> QED
        BY <2>1, <4>1 DEF Kept
    <3> QED
      BY <3>3, <3>4
  <2>4. CASE sessions[e][k] = NoSession /\ ~unknown_cb(e)
    <3>1. sessions' = [sessions EXCEPT ![e][k] = v] /\ UNCHANGED <<handed, prior, instances>>
      BY <1>6, <2>4 DEF ReceiveSyn
    <3>2. v = NewSession(FALSE)
      BY <2>4 DEF unknown_cb
    <3> HIDE DEF k, v
    <3>3. sessions'[d][j] = sessions[d][j] \/ sessions'[d][j] = NewSession(FALSE)
      BY <1>0, <3>1, <3>2
    <3> QED
      BY <2>1, <3>1, <3>3 DEF Kept
  <2> QED
    BY <2>2, <2>3, <2>4
<1>7. ASSUME NEW e \in End, NEW l \in Links, ReceiveFin(e, l) PROVE Goal
  <2>1. Accepts(e, l, "FIN")
    BY <1>7 DEF ReceiveFin
  <2>2. OtherKey(d, j) /\ Head(net[e][l]).key \in Keys
    BY <1>a, <2>1 DEF OtherKey
  <2>3. sessions' = [sessions EXCEPT ![e][Head(net[e][l]).key] = NoSession] /\ UNCHANGED <<handed, prior, instances>>
    BY <1>7 DEF ReceiveFin
  <2> QED
    BY <1>3, <2>2, <2>3
<1>8. ASSUME NEW e \in End, NEW l \in Links, ReceiveData(e, l) PROVE Goal
  <2>0. PICK seg \in Segment, s \in Session, n \in 0..SeqMod : DataStep(e, l, seg, s, n)
    BY <1>8, ReceiveDataFacts
  <2>1. /\ net[e][l] # <<>> /\ seg = Head(net[e][l])
        /\ seg.kind = "DATA"
        /\ Rel(seg.seq, Expected(e, seg.key)) < RecvWindow
        /\ s = Emplace(Base(e, seg.key), seg)
        /\ RunLength(s, n)
        /\ sessions' = [sessions EXCEPT ![e][seg.key] = deliverInOrder(s, n)]
        /\ handed' = [handed EXCEPT ![e][seg.key] =
               (IF sessions[e][seg.key] = NoSession /\ s.handler THEN <<>> ELSE @) \o Taken(s, n)]
        /\ IF sessions[e][seg.key] = NoSession /\ s.handler
           THEN NewHandler(e, seg.key) ELSE UNCHANGED <<prior, instances, eof>>
    BY <2>0 DEF DataStep
  <2>2. Accepts(e, l, "DATA")
    BY <1>8 DEF ReceiveData
  <2>3. /\ seg.key \in Keys /\ DedupKey(seg) \in DedupKeyType /\ DedupKey(seg).key = seg.key
        /\ dedup'[d] = IF d = e THEN Remember(dedup[e], DedupKey(seg)) ELSE dedup[d]
    BY <1>a, <2>1, <2>2
  <2>4. DedupKey(seg) \notin Recorded(dedup[e])
    BY <2>1, <2>2 DEF Accepts, Fresh
  <2>n. IF sessions[e][seg.key] = NoSession /\ s.handler
        THEN /\ prior' = [prior EXCEPT ![e][seg.key] = @ + Len(handed[e][seg.key])]
             /\ instances' = [instances EXCEPT ![e][seg.key] = @ + 1]
        ELSE prior' = prior /\ instances' = instances
    BY <2>1 DEF NewHandler
  <2>5. CASE d = e /\ j = seg.key
    <3>1. Taken(s, n) \in Seq(Payloads)
      BY <2>1, TakenType
    <3>2. <<>> \o Taken(s, n) = Taken(s, n)
      <4> DEFINE u == Taken(s, n)
      <4> HIDE DEF u
      <4>1. u \in Seq(Payloads)
        BY <3>1 DEF u
      <4>2. <<>> \o u = u
        BY <4>1
      <4> QED
        BY <4>2 DEF u
    <3>3. sessions'[d][j] = deliverInOrder(s, n) /\ dedup'[d] = Remember(dedup[d], DedupKey(seg))
      BY <1>0, <2>1, <2>3, <2>5
    <3>4. IF sessions[d][j] = NoSession /\ s.handler
          THEN /\ handed'[d][j] = Taken(s, n)
               /\ prior'[d][j] = prior[d][j] + Len(handed[d][j]) /\ instances'[d][j] = instances[d][j] + 1
          ELSE /\ handed'[d][j] = handed[d][j] \o Taken(s, n)
               /\ prior'[d][j] = prior[d][j] /\ instances'[d][j] = instances[d][j]
      <4>1. CASE sessions[d][j] = NoSession /\ s.handler
        <5>1. /\ handed' = [handed EXCEPT ![e][seg.key] = <<>> \o Taken(s, n)]
              /\ prior' = [prior EXCEPT ![e][seg.key] = @ + Len(handed[e][seg.key])]
              /\ instances' = [instances EXCEPT ![e][seg.key] = @ + 1]
          BY <2>1, <2>5, <2>n, <4>1
        <5> QED
          BY <1>0, <2>5, <3>2, <4>1, <5>1
      <4>2. CASE ~(sessions[d][j] = NoSession /\ s.handler)
        BY <1>0, <2>1, <2>5, <4>2
      <4> QED
        BY <4>1, <4>2
    <3>5. DataRead(d, j, seg, s, n)
      BY <2>1, <2>4, <2>5, <3>3, <3>4 DEF DataRead
    <3> QED
      BY <3>5
  <2>6. CASE ~(d = e /\ j = seg.key)
    <3>1. sessions'[d][j] = sessions[d][j] /\ handed'[d][j] = handed[d][j]
      BY <1>0, <2>1, <2>3, <2>6
    <3>2. prior'[d][j] = prior[d][j] /\ instances'[d][j] = instances[d][j]
      <4>1. CASE sessions[e][seg.key] = NoSession /\ s.handler
        <5>1. /\ prior' = [prior EXCEPT ![e][seg.key] = @ + Len(handed[e][seg.key])]
              /\ instances' = [instances EXCEPT ![e][seg.key] = @ + 1]
          BY <2>n, <4>1
        <5> QED
          BY <1>0, <2>3, <2>6, <5>1
      <4>2. CASE ~(sessions[e][seg.key] = NoSession /\ s.handler)
        BY <2>n, <4>2
      <4> QED
        BY <4>1, <4>2
    <3>3. OtherKey(d, j)
      BY <2>3, <2>6 DEF OtherKey
    <3> QED
      BY <3>1, <3>2, <3>3 DEF Kept
  <2> QED
    BY <2>5, <2>6
<1>9. ASSUME NEW l \in Links, LinkUp(l) PROVE Goal
  BY <1>3, <1>9 DEF LinkUp, history, OtherKey
<1>10. ASSUME UNCHANGED vars PROVE Goal
  BY <1>3, <1>10 DEF vars, OtherKey
<1> QED
  BY <1>1, <1>2, <1>4, <1>5, <1>6, <1>7, <1>8, <1>9, <1>10 DEF Next, onChannelBytes

(* As long as the ring is not full, it has forgotten nothing. *)
LEMMA RememberAll ==
    ASSUME NEW q \in Seq(DedupKeyType), NEW dk \in DedupKeyType, Len(Remember(q, dk)) < DedupRing
    PROVE  Len(q) < DedupRing /\ Recorded(Remember(q, dk)) = Recorded(q) \cup {dk}
<1>1. Len(q) < DedupRing
  <2> SUFFICES ASSUME ~(Len(q) < DedupRing) PROVE FALSE
    OBVIOUS
  <2>1. q # <<>> /\ Remember(q, dk) = Append(Tail(q), dk)
    BY WindowAssumption DEF Remember
  <2>2. Tail(q) \in Seq(DedupKeyType) /\ Len(Tail(q)) = Len(q) - 1
    BY <2>1
  <2>3. Len(Append(Tail(q), dk)) = Len(q)
    BY <2>2
  <2> QED
    BY <2>1, <2>3
<1>2. Remember(q, dk) = Append(q, dk)
  BY <1>1 DEF Remember
<1> DEFINE a == Append(q, dk)
<1>3. /\ \A i \in DOMAIN a : (i \in DOMAIN q /\ a[i] = q[i]) \/ a[i] = dk
      /\ \A i \in DOMAIN q : i \in DOMAIN a /\ a[i] = q[i]
      /\ Len(q) + 1 \in DOMAIN a /\ a[Len(q) + 1] = dk
  OBVIOUS
<1> HIDE DEF a
<1>4. Recorded(a) = Recorded(q) \cup {dk}
  BY <1>3 DEF Recorded
<1> QED
  BY <1>1, <1>2, <1>4 DEF a

(* Recording adds one key at most. *)
LEMMA RememberOnly ==
    ASSUME NEW q \in Seq(DedupKeyType), NEW dk \in DedupKeyType
    PROVE  Recorded(Remember(q, dk)) \subseteq Recorded(q) \cup {dk}
<1>1. ASSUME NEW r \in Seq(DedupKeyType) PROVE Recorded(Append(r, dk)) \subseteq Recorded(r) \cup {dk}
  <2> DEFINE a == Append(r, dk)
  <2>1. \A i \in DOMAIN a : (i \in DOMAIN r /\ a[i] = r[i]) \/ a[i] = dk
    OBVIOUS
  <2> HIDE DEF a
  <2>2. Recorded(a) \subseteq Recorded(r) \cup {dk}
    BY <2>1 DEF Recorded
  <2> QED
    BY <2>2 DEF a
<1>2. CASE Len(q) < DedupRing
  BY <1>1, <1>2 DEF Remember
<1>3. CASE ~(Len(q) < DedupRing)
  <2>1. q # <<>> /\ Remember(q, dk) = Append(Tail(q), dk)
    BY <1>3, WindowAssumption DEF Remember
  <2>2. Tail(q) \in Seq(DedupKeyType) /\ \A i \in DOMAIN Tail(q) : i + 1 \in DOMAIN q /\ Tail(q)[i] = q[i + 1]
    BY <2>1
  <2>3. Recorded(Tail(q)) \subseteq Recorded(q)
    <3> DEFINE t == Tail(q)
    <3>1. \A i \in DOMAIN t : i + 1 \in DOMAIN q /\ t[i] = q[i + 1]
      BY <2>2
    <3> HIDE DEF t
    <3>2. Recorded(t) \subseteq Recorded(q)
      BY <3>1 DEF Recorded
    <3> QED
      BY <3>2 DEF t
  <2> QED
    BY <1>1, <2>1, <2>2, <2>3
<1> QED
  BY <1>2, <1>3

(* AtMostOnce made inductive, for one session at one end: a handler that    *)
(* was given something was given segment 0, whose key is then recorded; a   *)
(* handler that was given nothing still waits for segment 0.                *)
FirstKey(k) == [kind |-> "DATA", key |-> k, seq |-> 0]

OnceAt(e, k) ==
    /\ prior[e][k] > 0 \/ handed[e][k] # <<>> => FirstKey(k) \in Recorded(dedup[e])
    /\ prior[e][k] > 0 => handed[e][k] = <<>>
    /\ sessions[e][k] # NoSession /\ sessions[e][k].handler /\ handed[e][k] = <<>> =>
          sessions[e][k].expected_rx_seq = 0 /\ sessions[e][k].rx_buffer[0] = NoPayload

OnceInv == \A e \in End, k \in Keys : Len(dedup[e]) < DedupRing => OnceAt(e, k)

(* deliverInOrder of a session that waits for segment 0: nothing, unless    *)
(* segment 0 is there, whatever the numbers behind it.                      *)
LEMMA DeliverFirst ==
    ASSUME NEW s \in Session, NEW n \in 0..SeqMod, RunLength(s, n), s.handler, s.expected_rx_seq = 0
    PROVE  /\ n > 0 => s.rx_buffer[0] # NoPayload
           /\ n = 0 => /\ deliverInOrder(s, n).expected_rx_seq = 0
                       /\ deliverInOrder(s, n).rx_buffer[0] = NoPayload
<1>0. 0 \in SeqNum /\ Plus(0, 0) = 0 /\ SeqMod \in Nat /\ n \in Nat
  BY WindowAssumption DEF SeqNum, Plus
<1>1. LeftAfter(s, 0) = {i \in SeqNum : s.rx_buffer[i] # NoPayload}
  BY DEF LeftAfter, Run
<1>2. IsBegin(s, 0) <=> s.rx_buffer[0] # NoPayload
  <2>1. \A i \in SeqNum : 0 <= i
    BY DEF SeqNum
  <2> QED
    BY <1>0, <1>1, <2>1 DEF IsBegin
<1>3. n > 0 => IsBegin(s, 0)
  BY <1>0 DEF RunLength, CanTake
<1>4. n = 0 => ~IsBegin(s, 0)
  BY DEF RunLength
<1>5. n = 0 => deliverInOrder(s, n).expected_rx_seq = 0 /\ deliverInOrder(s, n).rx_buffer[0] = NoPayload
  <2> SUFFICES ASSUME n = 0
               PROVE  deliverInOrder(s, 0).expected_rx_seq = 0 /\ deliverInOrder(s, 0).rx_buffer[0] = NoPayload
    OBVIOUS
  <2> QED
    BY <1>0, <1>2, <1>4 DEF deliverInOrder, Session
<1> QED
  BY <1>2, <1>3, <1>5

LEMMA OnceStep == TypeOK /\ TypeOK' /\ OnceInv /\ [Next]_vars => OnceInv'
<1> SUFFICES ASSUME TypeOK, TypeOK', OnceInv, [Next]_vars,
                    NEW e \in End, NEW k \in Keys, Len(dedup'[e]) < DedupRing
             PROVE  OnceAt(e, k)'
  BY DEF OnceInv
<1> DEFINE s == sessions[e][k]
           t == sessions'[e][k]
           h == handed[e][k]
           h2 == handed'[e][k]
<1>0. /\ s \in Session \cup {NoSession} /\ h \in Seq(Payloads) /\ h2 \in Seq(Payloads)
      /\ prior[e][k] \in Nat /\ dedup[e] \in Seq(DedupKeyType) /\ 0 \in SeqNum
      /\ FirstKey(k) \in DedupKeyType
  <2>1. 0 \in SeqNum
    BY WindowAssumption DEF SeqNum
  <2>2. FirstKey(k) \in DedupKeyType
    BY <2>1 DEF FirstKey, DedupKeyType
  <2> QED
    BY <2>1, <2>2 DEF TypeOK
<1>1. ASSUME NEW dk \in DedupKeyType, dedup'[e] = Remember(dedup[e], dk)
      PROVE  Len(dedup[e]) < DedupRing /\ Recorded(dedup'[e]) = Recorded(dedup[e]) \cup {dk}
  BY <1>0, <1>1, RememberAll
<1>2. OtherKey(e, k) => Len(dedup[e]) < DedupRing /\ Recorded(dedup[e]) \subseteq Recorded(dedup'[e])
  BY <1>1 DEF OtherKey
<1>3. CASE Kept(e, k)
  <2>1. OnceAt(e, k)
    BY <1>2, <1>3 DEF Kept, OnceInv
  <2>2. t # NoSession /\ t.handler =>
            /\ s # NoSession /\ s.handler
            /\ t.expected_rx_seq = s.expected_rx_seq /\ t.rx_buffer = s.rx_buffer
    <3>1. CASE t = [s EXCEPT !.next_send_seq = Plus(s.next_send_seq, 1)] /\ s # NoSession
      BY <1>0, <3>1 DEF Session
    <3>2. CASE t = NewSession(FALSE)
      BY <3>2 DEF NewSession
    <3> QED
      BY <1>3, <3>1, <3>2 DEF Kept
  <2> QED
    BY <1>2, <1>3, <2>1, <2>2 DEF OnceAt, Kept
<1>4. CASE Attached(e, k)
  <2>1. OnceAt(e, k)
    BY <1>2, <1>4 DEF Attached, OnceInv
  <2>2. t = NewSession(TRUE) /\ t.expected_rx_seq = 0 /\ t.rx_buffer[0] = NoPayload
    BY <1>0, <1>4 DEF Attached, NewSession
  <2>3. prior'[e][k] > 0 => prior[e][k] > 0 \/ h # <<>>
    BY <1>0, <1>4 DEF Attached
  <2> QED
    BY <1>2, <1>4, <2>1, <2>2, <2>3 DEF OnceAt, Attached
<1>5. ASSUME NEW seg \in Segment, NEW r \in Session, NEW n \in 0..SeqMod, DataRead(e, k, seg, r, n)
      PROVE  OnceAt(e, k)'
  <2> DEFINE dk == DedupKey(seg)
             b == Base(e, k)
             fresh == s = NoSession /\ r.handler
             h0 == IF fresh THEN <<>> ELSE h
  <2>0. /\ seg.kind = "DATA" /\ seg.key = k /\ dk \notin Recorded(dedup[e])
        /\ r = Emplace(b, seg) /\ RunLength(r, n) /\ t = deliverInOrder(r, n)
        /\ dedup'[e] = Remember(dedup[e], dk)
        /\ h2 = IF fresh THEN Taken(r, n) ELSE h \o Taken(r, n)
        /\ prior'[e][k] = IF fresh THEN prior[e][k] + Len(h) ELSE prior[e][k]
    BY <1>5 DEF DataRead
  <2>1. dk \in DedupKeyType /\ (dk = FirstKey(k) <=> seg.seq = 0)
    BY <2>0 DEF DedupKey, DedupKeyType, FirstKey, Segment
  <2>2. /\ Recorded(dedup'[e]) = Recorded(dedup[e]) \cup {dk} /\ OnceAt(e, k)
    BY <1>1, <2>0, <2>1 DEF OnceInv
  <2>3. Taken(r, n) \in Seq(Payloads) /\ Len(Taken(r, n)) = n
    BY <2>0, TakenType
  <2>4. b \in Session /\ r.handler = b.handler /\ r.expected_rx_seq = b.expected_rx_seq
        /\ r.rx_buffer[0] = IF seg.seq = 0 /\ b.rx_buffer[0] = NoPayload THEN seg.payload ELSE b.rx_buffer[0]
    <3>1. b \in Session
      BY BaseType
    <3> HIDE DEF b
    <3> QED
      BY <1>0, <2>0, <3>1 DEF Emplace, Session, Segment
  <2>5. s = NoSession => b.expected_rx_seq = 0 /\ b.rx_buffer[0] = NoPayload
    BY <1>0 DEF Base, NewSession
  <2>6. s # NoSession => b = s
    BY DEF Base
  <2>7. /\ h0 \in Seq(Payloads) /\ (h2 = <<>> <=> h0 = <<>> /\ n = 0)
        /\ prior'[e][k] > 0 => prior[e][k] > 0 \/ h # <<>>
    <3>1. h0 \in Seq(Payloads) /\ (h2 = <<>> <=> h0 = <<>> /\ n = 0)
      <4>1. CASE fresh
        BY <2>0, <2>3, <4>1
      <4>2. CASE ~fresh
        BY <1>0, <2>0, <2>3, <4>2
      <4> QED
        BY <4>1, <4>2
    <3>2. prior'[e][k] > 0 => prior[e][k] > 0 \/ h # <<>>
      BY <1>0, <2>0
    <3> QED
      BY <3>1, <3>2
  <2>8. r.handler /\ h0 = <<>> => r.expected_rx_seq = 0 /\ b.rx_buffer[0] = NoPayload
    BY <2>2, <2>4, <2>5, <2>6 DEF OnceAt
  <2>9. r.handler /\ h0 = <<>> => (n > 0 => seg.seq = 0)
    BY <2>0, <2>4, <2>8, DeliverFirst
  <2>10. ~r.handler => n = 0
    BY <2>0 DEF RunLength
  <2>11. prior'[e][k] > 0 \/ h2 # <<>> => FirstKey(k) \in Recorded(dedup'[e])
    <3>1. prior[e][k] > 0 \/ h # <<>> => FirstKey(k) \in Recorded(dedup'[e])
      BY <2>2 DEF OnceAt
    <3>2. h0 = <<>> /\ n # 0 => seg.seq = 0
      BY <2>9, <2>10
    <3>3. h0 # <<>> => h # <<>>
      OBVIOUS
    <3> HIDE DEF h0, h, h2, dk
    <3> QED
      BY <2>1, <2>2, <2>7, <3>1, <3>2, <3>3
  <2>12. prior'[e][k] > 0 => h2 = <<>>
    <3> SUFFICES ASSUME prior'[e][k] > 0 PROVE h0 = <<>> /\ n = 0
      BY <2>7
    <3>1. FirstKey(k) \in Recorded(dedup[e])
      BY <2>2, <2>7 DEF OnceAt
    <3>2. seg.seq # 0
      BY <2>0, <2>1, <3>1
    <3>3. h0 = <<>>
      <4>1. ~fresh => prior[e][k] > 0
        BY <2>0
      <4> QED
        BY <2>2, <4>1 DEF OnceAt
    <3> QED
      BY <2>9, <2>10, <3>2, <3>3
  <2>13. t # NoSession /\ t.handler /\ h2 = <<>> => t.expected_rx_seq = 0 /\ t.rx_buffer[0] = NoPayload
    <3>1. t.handler = r.handler
      BY <2>0 DEF deliverInOrder, Session
    <3>2. r.handler /\ h0 = <<>> /\ n = 0 => t.expected_rx_seq = 0 /\ t.rx_buffer[0] = NoPayload
      <4> SUFFICES ASSUME r.handler, h0 = <<>>, n = 0
                   PROVE  t.expected_rx_seq = 0 /\ t.rx_buffer[0] = NoPayload
        OBVIOUS
      <4>1. r.expected_rx_seq = 0
        BY <2>8
      <4>2. deliverInOrder(r, n).expected_rx_seq = 0 /\ deliverInOrder(r, n).rx_buffer[0] = NoPayload
        BY <2>0, <4>1, DeliverFirst
      <4> QED
        BY <2>0, <4>2
    <3> HIDE DEF h0, h, h2, t
    <3> QED
      BY <2>7, <3>1, <3>2
  <2> QED
    BY <2>11, <2>12, <2>13 DEF OnceAt
<1> QED
  BY <1>3, <1>4, <1>5, HandlerStep

(* No dedup ring has had to forget a key yet. *)
RingNotFull == \A e \in End : Len(dedup[e]) < DedupRing

(* As long as the dedup ring has forgotten nothing, a session is not        *)
(* replayed: what one handler of the session was given is never given to a  *)
(* later one, also when late copies attach a new handler after the end, and *)
(* also across a wrap of the numbers (dedup_map_ in onChannelBytes).        *)
THEOREM AtMostOnceAlways == Spec => [](RingNotFull => AtMostOnce)
<1>1. Init => OnceInv
  BY DEF Init, OnceInv, OnceAt
<1>2. OnceInv => (RingNotFull => AtMostOnce)
  BY DEF OnceInv, OnceAt, RingNotFull, AtMostOnce
<1> QED
  BY <1>1, <1>2, OnceStep, TypeInit, TypeStep, PTL DEF Spec

-----------------------------------------------------------------------------
(* The dedup table is not poisoned.                                         *)

(* A DATA key of session k is recorded at end e. *)
DataKeys(e, k) == {dk \in Recorded(dedup[e]) : dk.kind = "DATA" /\ dk.key = k}

(* What is recorded for the attached first handler it has, or will have. *)
HasAll(s, h, D) == \A dk \in D : dk.seq < Len(h) \/ s.rx_buffer[dk.seq] # NoPayload

(* NotPoisoned made inductive: no DATA key is recorded before the first     *)
(* handler exists (a relay writes nothing before its client did), an        *)
(* attached handler has been given expected_rx_seq segments, and what is on *)
(* a link is a real payload, so storing it does fill the slot.              *)
PoisonInv ==
    /\ \A k \in Keys : instances["inport"][k] = 0 => sent["outport"][k] = <<>>
    /\ \A e \in End, k \in Keys : instances[e][k] = 0 => DataKeys(e, k) = {}
    /\ \A e \in End, k \in Keys : (sessions[e][k] # NoSession /\ sessions[e][k].handler) =>
          instances[e][k] # 0 /\ sessions[e][k].expected_rx_seq = Len(handed[e][k])
    /\ \A e \in End, l \in Links : \A x \in Segment :
          (x.kind = "DATA" /\ OnLink(net[e][l], x)) => x.payload \in Payloads
    /\ NotPoisoned

(* A relay that writes was given something. *)
LEMMA RelaySends ==
    ASSUME TypeOK, [Next]_vars, NEW j \in Keys, sent'["outport"][j] # sent["outport"][j]
    PROVE  handed["outport"][j] # <<>>
<1>1. ASSUME NEW e \in End, NEW k \in Keys, NEW p \in Payloads, sendSessionData(e, k, p)
      PROVE  handed["outport"][j] # <<>>
  <2>1. /\ sent' = [sent EXCEPT ![e][k] = Append(@, p)]
        /\ e = "outport" => handed[e][k] # <<>>
    BY <1>1 DEF sendSessionData
  <2>2. e = "outport" /\ k = j
    BY <2>1 DEF TypeOK, End
  <2> QED
    BY <2>1, <2>2
<1>2. ASSUME NEW e \in End, NEW l \in Links, onChannelBytes(e, l) PROVE sent' = sent
  BY <1>2 DEF onChannelBytes, ReceiveDuplicate, ReceiveOutOfWindow, ReceiveSyn, ReceiveFin,
              ReceiveData, history
<1>3. ASSUME NEW k \in Keys, openSession(k) PROVE sent' = sent
  BY <1>3 DEF openSession
<1>4. ASSUME NEW e \in End, NEW k \in Keys, closeSession(e, k) PROVE sent' = sent
  BY <1>4 DEF closeSession, history
<1>5. ASSUME NEW e \in End, NEW l \in Links, LinkDown(e, l) \/ LinkDownNoticed(e, l)
      PROVE  sent' = sent
  BY <1>5 DEF LinkDown, LinkDownNoticed, history
<1>6. ASSUME NEW l \in Links, LinkUp(l) PROVE sent' = sent
  BY <1>6 DEF LinkUp, history
<1>7. ASSUME UNCHANGED vars PROVE sent' = sent
  BY <1>7 DEF vars
<1> QED
  BY <1>1, <1>2, <1>3, <1>4, <1>5, <1>6, <1>7 DEF Next

(* Delivering a run moves what it takes from the buffer to the handler. *)
LEMMA DeliverHasAll ==
    ASSUME NEW s \in Session, NEW n \in 0..SeqMod, NEW own \in Nat, NEW peer \in Nat,
           peer + RecvWindow <= SeqMod, InRange(s, own, peer), RunLength(s, n),
           NEW len \in Nat, s.expected_rx_seq = len, NEW i \in SeqNum,
           i < len \/ s.rx_buffer[i] # NoPayload
    PROVE  i < len + n \/ deliverInOrder(s, n).rx_buffer[i] # NoPayload
<1>1. n \in Nat /\ i \in Nat
  BY WindowAssumption DEF SeqNum
<1>2. CASE i < len
  BY <1>1, <1>2
<1>3. CASE i \in Run(s, n)
  <2>1. PICK m \in 0..(n - 1) : i = Plus(s.expected_rx_seq, m)
    BY <1>3 DEF Run
  <2>2. i = len + m
    BY <2>1, DeliverNumbers
  <2> QED
    BY <1>1, <2>1, <2>2
<1>4. CASE s.rx_buffer[i] # NoPayload /\ i \notin Run(s, n)
  BY <1>4 DEF deliverInOrder, Session
<1> QED
  BY <1>2, <1>3, <1>4

LEMMA PoisonStep ==
    ASSUME NoWrap, TypeOK, TypeOK', NumbersInv, StreamInv, PoisonInv, [Next]_vars
    PROVE  PoisonInv'
<1>1. ASSUME NEW k \in Keys, instances'["inport"][k] = 0 PROVE sent'["outport"][k] = <<>>
  <2>1. instances["inport"][k] = 0
    BY <1>1, InportStep
  <2>2. sent["inport"][k] = <<>> /\ sent["outport"][k] = <<>>
    BY <2>1 DEF StreamInv, PoisonInv
  <2>3. handed["outport"][k] = <<>>
    <3>1. handed["outport"][k] \in Seq(Payloads)
      BY DEF TypeOK, End
    <3>2. Len(handed["outport"][k]) <= Len(sent["inport"][k])
      BY DEF StreamInv, InOrderForward, IsPrefixOf
    <3> QED
      BY <2>2, <3>1, <3>2
  <2> QED
    BY <2>2, <2>3, RelaySends
<1>2. ASSUME NEW e \in End, NEW l \in Links, NEW x \in Segment,
             x.kind = "DATA", OnLink(net'[e][l], x)
      PROVE  x.payload \in Payloads
  <2>1. CASE OnLink(net[e][l], x)
    BY <1>2, <2>1 DEF PoisonInv
  <2>2. CASE SentNow(e, x)
    <3>1. x.key \in Keys /\ Peer(e) \in End
      BY PeerType DEF Segment
    <3>2. sent[Peer(e)][x.key] \in Seq(Payloads) /\ sent'[Peer(e)][x.key] \in Seq(Payloads)
      BY <3>1 DEF TypeOK
    <3>3. sent'[Peer(e)][x.key] = Append(sent[Peer(e)][x.key], x.payload)
      BY <2>2 DEF SentNow
    <3> DEFINE q == sent[Peer(e)][x.key]
               r == sent'[Peer(e)][x.key]
    <3>4. q \in Seq(Payloads) /\ r \in Seq(Payloads) /\ r = Append(q, x.payload)
      BY <3>2, <3>3
    <3> HIDE DEF q, r
    <3>5. Len(q) + 1 \in 1..Len(r) /\ r[Len(q) + 1] = x.payload
      BY <3>4
    <3> QED
      BY <3>4, <3>5
  <2> QED
    BY <1>2, <2>1, <2>2, NetStep
<1>3. ASSUME NEW e \in End, NEW k \in Keys
      PROVE  /\ instances'[e][k] = 0 => DataKeys(e, k)' = {}
             /\ (sessions'[e][k] # NoSession /\ sessions'[e][k].handler) =>
                  instances'[e][k] # 0 /\ sessions'[e][k].expected_rx_seq = Len(handed'[e][k])
             /\ (sessions'[e][k] # NoSession /\ sessions'[e][k].handler /\ instances'[e][k] = 1) =>
                  HasAll(sessions'[e][k], handed'[e][k], DataKeys(e, k)')
  <2> DEFINE s == sessions[e][k]
             t == sessions'[e][k]
             h == handed[e][k]
             h2 == handed'[e][k]
             D == DataKeys(e, k)
  <2>d. PICK D2 : D2 = DataKeys(e, k)'
    OBVIOUS
  <2> DEFINE Goal == /\ instances'[e][k] = 0 => D2 = {}
                     /\ (t # NoSession /\ t.handler) =>
                          instances'[e][k] # 0 /\ t.expected_rx_seq = Len(h2)
                     /\ (t # NoSession /\ t.handler /\ instances'[e][k] = 1) => HasAll(t, h2, D2)
  <2>0. /\ s \in Session \cup {NoSession} /\ h \in Seq(Payloads) /\ h2 \in Seq(Payloads)
        /\ instances[e][k] \in Nat /\ dedup[e] \in Seq(DedupKeyType)
        /\ dedup'[e] \in Seq(DedupKeyType)
    BY DEF TypeOK
  <2>1. /\ instances[e][k] = 0 => D = {}
        /\ (s # NoSession /\ s.handler) => instances[e][k] # 0 /\ s.expected_rx_seq = Len(h)
        /\ (s # NoSession /\ s.handler /\ instances[e][k] = 1) => HasAll(s, h, D)
    BY DEF PoisonInv, NotPoisoned, HasAll, DataKeys
  <2>2. D2 = {dk \in Recorded(dedup'[e]) : dk.kind = "DATA" /\ dk.key = k}
    BY <2>d DEF DataKeys, Recorded
  <2>3. OtherKey(e, k) => D2 \subseteq D
    <3>1. ASSUME NEW dk \in DedupKeyType, dk.kind # "DATA" \/ dk.key # k,
                 dedup'[e] = Remember(dedup[e], dk)
          PROVE  D2 \subseteq D
      BY <2>0, <2>2, <3>1, RememberOnly DEF DataKeys
    <3>2. CASE dedup'[e] = dedup[e]
      BY <2>2, <3>2 DEF DataKeys
    <3> QED
      BY <3>1, <3>2 DEF OtherKey
  <2>4. ASSUME Kept(e, k) PROVE Goal
    <3>1. D2 \subseteq D /\ h2 = h /\ instances'[e][k] = instances[e][k]
      BY <2>3, <2>4 DEF Kept
    <3>2. t # NoSession /\ t.handler =>
              /\ s # NoSession /\ s.handler
              /\ t.expected_rx_seq = s.expected_rx_seq /\ t.rx_buffer = s.rx_buffer
      <4>1. CASE t = [s EXCEPT !.next_send_seq = Plus(s.next_send_seq, 1)] /\ s # NoSession
        BY <2>0, <4>1 DEF Session
      <4>2. CASE t = NewSession(FALSE)
        BY <4>2 DEF NewSession
      <4> QED
        BY <2>4, <4>1, <4>2 DEF Kept
    <3> HIDE DEF s, t, h, h2, D
    <3> QED
      BY <2>1, <3>1, <3>2 DEF HasAll
  <2>5. ASSUME Attached(e, k) PROVE Goal
    <3>1. D2 \subseteq D /\ h2 = <<>> /\ instances'[e][k] = instances[e][k] + 1
      BY <2>3, <2>5 DEF Attached
    <3>2. t.expected_rx_seq = 0
      BY <2>5 DEF Attached, NewSession
    <3>3. instances'[e][k] # 0 /\ (instances'[e][k] = 1 => D2 = {})
      BY <2>0, <2>1, <3>1
    <3> QED
      BY <3>1, <3>2, <3>3 DEF HasAll
  <2>6. ASSUME NEW seg \in Segment, NEW r \in Session, NEW n \in 0..SeqMod, DataRead(e, k, seg, r, n)
        PROVE  Goal
    <3> DEFINE b == Base(e, k)
               fresh == s = NoSession /\ r.handler
               h0 == IF fresh THEN <<>> ELSE h
               own == Len(sent[e][k])
               peer == Len(sent[Peer(e)][k])
    <3>0. /\ seg.kind = "DATA" /\ seg.key = k
          /\ Rel(seg.seq, Expected(e, k)) < RecvWindow
          /\ r = Emplace(b, seg) /\ RunLength(r, n) /\ t = deliverInOrder(r, n)
          /\ dedup'[e] = Remember(dedup[e], DedupKey(seg))
          /\ h2 = IF fresh THEN Taken(r, n) ELSE h \o Taken(r, n)
          /\ instances'[e][k] = IF fresh THEN instances[e][k] + 1 ELSE instances[e][k]
      BY <2>6 DEF DataRead
    <3>1. PICK l \in Links : net[e][l] # <<>> /\ seg = Head(net[e][l])
      BY <2>6 DEF DataRead
    <3>2. OnLink(net[e][l], seg)
      <4>1. net[e][l] \in Seq(Segment)
        BY DEF TypeOK
      <4> QED
        BY <3>1, <4>1, HeadOnLink
    <3>3. seg.payload \in Payloads /\ seg.seq < peer /\ seg.seq \in SeqNum
      BY <3>0, <3>2 DEF PoisonInv, NumbersInv, Segment
    <3>4. /\ own \in Nat /\ peer \in Nat /\ peer + RecvWindow <= SeqMod
          /\ b \in Session /\ b.expected_rx_seq = Expected(e, k) /\ InRange(b, own, peer)
      <4>1. Peer(e) \in End
        BY PeerType
      <4>2. sent[e][k] \in Seq(Payloads) /\ sent[Peer(e)][k] \in Seq(Payloads)
        BY <4>1 DEF TypeOK
      <4>3. own \in Nat /\ peer \in Nat
        BY <4>2
      <4>4. peer + RecvWindow <= SeqMod
        <5>1. peer <= MaxSegs[Peer(e)] /\ MaxSegs[Peer(e)] + RecvWindow <= SeqMod
              /\ MaxSegs[Peer(e)] \in Nat
          BY <4>1, BoundsAssumption DEF NumbersInv, NoWrap
        <5> QED
          BY <4>3, <5>1, WindowAssumption
      <4>5. b \in Session /\ b.expected_rx_seq = Expected(e, k)
        BY BaseType
      <4>6. s # NoSession => InRange(s, own, peer)
        BY DEF NumbersInv
      <4>7. InRange(b, own, peer)
        BY <4>3, <4>6, NewInRange DEF Base, unknown_cb
      <4> QED
        BY <4>3, <4>4, <4>5, <4>7
    <3>5. InRange(r, own, peer)
      <4> HIDE DEF b, own, peer
      <4> QED
        BY <3>0, <3>3, <3>4, EmplaceInRange
    <3>6. /\ r.handler = b.handler /\ r.expected_rx_seq = b.expected_rx_seq
          /\ r.rx_buffer[seg.seq] # NoPayload
          /\ \A i \in SeqNum : b.rx_buffer[i] # NoPayload => r.rx_buffer[i] # NoPayload
      <4> HIDE DEF b
      <4> QED
        BY <3>0, <3>3, <3>4, PayloadAssumption DEF Emplace, Session
    <3>7. t.expected_rx_seq = r.expected_rx_seq + n /\ t.handler = r.handler
      <4>1. t.handler = r.handler
        BY <3>0 DEF deliverInOrder, Session
      <4>2. deliverInOrder(r, n).expected_rx_seq = r.expected_rx_seq + n
        <5> HIDE DEF own, peer
        <5> QED
          BY <3>0, <3>4, <3>5, DeliverNumbers
      <4> QED
        BY <3>0, <4>1, <4>2
    <3>8. h0 \in Seq(Payloads) /\ Len(h2) = Len(h0) + n
      <4>1. Taken(r, n) \in Seq(Payloads) /\ Len(Taken(r, n)) = n
        BY <3>0, TakenType
      <4>2. n \in Nat
        BY WindowAssumption
      <4>3. CASE fresh
        BY <3>0, <4>1, <4>2, <4>3
      <4>4. CASE ~fresh
        <5>1. h2 = h \o Taken(r, n) /\ h0 = h
          BY <3>0, <4>4
        <5> DEFINE u == Taken(r, n)
        <5>2. u \in Seq(Payloads) /\ Len(u) = n /\ h2 = h \o u
          BY <4>1, <5>1
        <5> HIDE DEF u, h, h2, h0
        <5>3. h \in Seq(Payloads)
          BY <2>0
        <5>4. Len(h \o u) = Len(h) + Len(u)
          <6>1. \A x, y \in Seq(Payloads) : Len(x \o y) = Len(x) + Len(y)
            OBVIOUS
          <6> QED
            BY <5>2, <5>3, <6>1
        <5> QED
          BY <5>1, <5>2, <5>3, <5>4
      <4> QED
        BY <4>3, <4>4
    <3>9. r.handler => r.expected_rx_seq = Len(h0)
      <4>1. CASE s = NoSession
        BY <3>6, <4>1 DEF Base, NewSession
      <4>2. CASE s # NoSession
        BY <2>1, <3>6, <4>2 DEF Base
      <4> QED
        BY <4>1, <4>2
    <3>10. instances'[e][k] # 0
      <4>1. CASE e = "inport"
        <5>1. sent["outport"][k] # <<>>
          <6>1. Len(sent["outport"][k]) > 0
            BY <3>3, <3>4, <4>1 DEF Peer, SeqNum
          <6> QED
            BY <6>1
        <5>2. instances[e][k] # 0
          BY <4>1, <5>1 DEF PoisonInv
        <5> QED
          BY <2>0, <3>0, <5>2
      <4>2. CASE e = "outport"
        <5>1. s # NoSession => s.handler
          BY <4>2 DEF StreamInv, Matches
        <5>2. s = NoSession => r.handler
          BY <3>6, <4>2 DEF Base, NewSession, unknown_cb
        <5> QED
          BY <2>0, <2>1, <3>0, <5>1, <5>2
      <4> QED
        BY <4>1, <4>2 DEF End
    <3>11. ASSUME r.handler, instances'[e][k] = 1, NEW dk \in D2
           PROVE  dk.seq \in SeqNum /\ (dk.seq < Len(h0) \/ r.rx_buffer[dk.seq] # NoPayload)
      <4>1. dk \in Recorded(dedup[e]) \cup {DedupKey(seg)} /\ dk.kind = "DATA" /\ dk.key = k
        <5>1. DedupKey(seg) \in DedupKeyType
          BY DEF DedupKey, DedupKeyType, Segment
        <5> QED
          BY <2>0, <2>2, <3>0, <5>1, RememberOnly
      <4>2. CASE dk = DedupKey(seg)
        <5>1. dk.seq = seg.seq
          BY <4>2 DEF DedupKey
        <5> QED
          BY <3>3, <3>6, <5>1
      <4>3. CASE dk \in D
        <5>1. dk.seq \in SeqNum
          <6>1. PICK i \in DOMAIN dedup[e] : dk = dedup[e][i]
            BY <4>3 DEF DataKeys, Recorded
          <6>2. dk \in DedupKeyType
            BY <2>0, <6>1
          <6> QED
            BY <6>2 DEF DedupKeyType
        <5>2. ~fresh
          BY <2>0, <2>1, <3>0, <3>11, <4>3
        <5>3. s # NoSession /\ s.handler /\ instances[e][k] = 1 /\ b = s /\ h0 = h
          <6>1. s # NoSession /\ instances[e][k] = 1 /\ h0 = h
            BY <3>0, <3>11, <5>2
          <6>2. b = s
            BY <6>1 DEF Base
          <6> QED
            BY <3>6, <3>11, <6>1, <6>2
        <5>4. dk.seq < Len(h) \/ s.rx_buffer[dk.seq] # NoPayload
          BY <2>1, <4>3, <5>3 DEF HasAll
        <5> QED
          BY <3>6, <5>1, <5>3, <5>4
      <4> QED
        BY <4>1, <4>2, <4>3 DEF DataKeys
    <3>12. ASSUME t.handler, instances'[e][k] = 1 PROVE HasAll(t, h2, D2)
      <4> SUFFICES ASSUME NEW dk \in D2 PROVE dk.seq < Len(h2) \/ t.rx_buffer[dk.seq] # NoPayload
        BY DEF HasAll
      <4>1. r.handler /\ r.expected_rx_seq = Len(h0) /\ Len(h0) \in Nat
        BY <3>7, <3>8, <3>9, <3>12
      <4>2. dk.seq \in SeqNum /\ (dk.seq < Len(h0) \/ r.rx_buffer[dk.seq] # NoPayload)
        BY <3>11, <3>12, <4>1
      <4>3. dk.seq < Len(h0) + n \/ deliverInOrder(r, n).rx_buffer[dk.seq] # NoPayload
        <5> HIDE DEF h0, own, peer
        <5> QED
          BY <3>0, <3>4, <3>5, <4>1, <4>2, DeliverHasAll
      <4> QED
        BY <3>0, <3>8, <4>3
    <3>13. t.handler => t.expected_rx_seq = Len(h2)
      BY <3>7, <3>8, <3>9
    <3> HIDE DEF s, t, h, h2, D
    <3> QED
      BY <3>10, <3>12, <3>13
  <2>7. Goal
    BY <2>4, <2>5, <2>6, HandlerStep
  <2> QED
    BY <2>7, <2>d
<1>4. NotPoisoned'
  <2> SUFFICES ASSUME NEW e \in End, NEW k \in Keys, sessions'[e][k] # NoSession,
                      sessions'[e][k].handler, instances'[e][k] = 1,
                      NEW dk \in Recorded(dedup'[e]), dk.kind = "DATA", dk.key = k
               PROVE  dk.seq < Len(handed'[e][k]) \/ sessions'[e][k].rx_buffer[dk.seq] # NoPayload
    BY DEF NotPoisoned, Recorded
  <2>1. HasAll(sessions'[e][k], handed'[e][k], DataKeys(e, k)')
    BY <1>3
  <2>2. dk \in DataKeys(e, k)'
    BY DEF DataKeys, Recorded
  <2> QED
    BY <2>1, <2>2 DEF HasAll
<1> QED
  BY <1>1, <1>2, <1>3, <1>4 DEF PoisonInv

(* As long as no stream wraps its numbers, the dedup table refuses no DATA  *)
(* that the attached first handler of a session still lacks: the key is     *)
(* recorded after the window guard (onChannelBytes), so each recorded       *)
(* number was delivered or waits in rx_buffer.                              *)
THEOREM NotPoisonedAlways == ASSUME NoWrap PROVE Spec => []NotPoisoned
<1>1. Init => PoisonInv
  <2> SUFFICES ASSUME Init PROVE PoisonInv
    OBVIOUS
  <2>1. \A e \in End, k \in Keys : sessions[e][k] = NoSession /\ sent[e][k] = <<>>
    BY DEF Init
  <2>2. \A e \in End : Recorded(dedup[e]) = {}
    BY DEF Init, Recorded
  <2>3. \A e \in End, l \in Links, x \in Segment : ~OnLink(net[e][l], x)
    BY DEF Init, OnLink
  <2>4. "outport" \in End
    BY DEF End
  <2> QED
    BY <2>1, <2>2, <2>3, <2>4 DEF PoisonInv, DataKeys, NotPoisoned
<1>2. TypeOK /\ NumbersInv /\ StreamInv /\ PoisonInv /\ TypeOK' /\ [Next]_vars => PoisonInv'
  BY PoisonStep
<1>3. PoisonInv => NotPoisoned
  BY DEF PoisonInv
<1> QED
  BY <1>1, <1>2, <1>3, StreamAlways, PTL DEF Spec

-----------------------------------------------------------------------------
(* The stream back from a relay to its client.                              *)

HasHandler(e, k) == sessions[e][k] # NoSession /\ sessions[e][k].handler

(* What a step means to the stream that end e writes in session j: it is    *)
(* written to, or its writer keeps its number, or a new writer starts at 0. *)
LEMMA WriterStep ==
    ASSUME TypeOK, [Next]_vars, NEW e \in End, NEW j \in Keys
    PROVE  \/ \E p \in Payloads : sendSessionData(e, j, p)
           \/ /\ sent'[e][j] = sent[e][j]
              /\ HasHandler(e, j)' =>
                   \/ /\ HasHandler(e, j) /\ instances'[e][j] = instances[e][j]
                      /\ sessions'[e][j].next_send_seq = sessions[e][j].next_send_seq
                   \/ /\ sessions'[e][j].next_send_seq = 0
                      /\ instances'[e][j] = instances[e][j] + 1
<1> DEFINE s == sessions[e][j]
           t == sessions'[e][j]
           Same == /\ sent'[e][j] = sent[e][j]
                   /\ (t # NoSession /\ t.handler) =>
                        \/ /\ s # NoSession /\ s.handler /\ instances'[e][j] = instances[e][j]
                           /\ t.next_send_seq = s.next_send_seq
                        \/ t.next_send_seq = 0 /\ instances'[e][j] = instances[e][j] + 1
           Goal == (\E p \in Payloads : sendSessionData(e, j, p)) \/ Same
<1>0. /\ sessions \in [End -> [Keys -> Session \cup {NoSession}]]
      /\ instances \in [End -> [Keys -> Nat]]
      /\ sent \in [End -> [Keys -> Seq(Payloads)]]
      /\ "inport" \in End
  BY DEF TypeOK, End
<1>1. ASSUME t = s \/ t = NoSession, instances'[e][j] = instances[e][j], sent'[e][j] = sent[e][j]
      PROVE  Goal
  BY <1>1
<1>2. ASSUME NEW d \in End, NEW k \in Keys, NEW h \in BOOLEAN, ~(d = e /\ k = j) \/ s = NoSession,
             sessions' = [sessions EXCEPT ![d][k] = NewSession(h)], sent' = sent,
             IF h THEN instances' = [instances EXCEPT ![d][k] = @ + 1] ELSE instances' = instances
      PROVE  Goal
  <2>1. CASE d = e /\ k = j
    <3>1. t = NewSession(h) /\ (h => instances'[e][j] = instances[e][j] + 1)
      BY <1>0, <1>2, <2>1
    <3> QED
      BY <1>2, <3>1 DEF NewSession
  <2>2. CASE ~(d = e /\ k = j)
    <3>1. t = s /\ instances'[e][j] = instances[e][j]
      BY <1>0, <1>2, <2>2
    <3> QED
      BY <1>1, <1>2, <3>1
  <2> QED
    BY <2>1, <2>2
<1>3. ASSUME NEW k \in Keys, openSession(k) PROVE Goal
  <2>1. /\ sessions["inport"][k] = NoSession
        /\ sessions' = [sessions EXCEPT !["inport"][k] = NewSession(TRUE)]
        /\ instances' = [instances EXCEPT !["inport"][k] = @ + 1]
        /\ sent' = sent
    BY <1>3 DEF openSession, NewHandler
  <2> QED
    BY <1>0, <1>2, <2>1
<1>4. ASSUME NEW d \in End, NEW k \in Keys, NEW p \in Payloads, sendSessionData(d, k, p)
      PROVE  Goal
  <2>1. CASE d = e /\ k = j
    BY <1>4, <2>1
  <2>2. CASE ~(d = e /\ k = j)
    <3>1. /\ sessions' = [sessions EXCEPT ![d][k] =
                 [sessions[d][k] EXCEPT !.next_send_seq = Plus(sessions[d][k].next_send_seq, 1)]]
          /\ sent' = [sent EXCEPT ![d][k] = Append(@, p)]
          /\ instances' = instances
      BY <1>4 DEF sendSessionData
    <3>2. t = s /\ sent'[e][j] = sent[e][j]
      BY <1>0, <2>2, <3>1
    <3> QED
      BY <1>1, <3>1, <3>2
  <2> QED
    BY <2>1, <2>2
<1>5. ASSUME NEW d \in End, NEW k \in Keys, closeSession(d, k) PROVE Goal
  <2>1. sessions' = [sessions EXCEPT ![d][k] = NoSession] /\ instances' = instances /\ sent' = sent
    BY <1>5 DEF closeSession, history
  <2> QED
    BY <1>0, <1>1, <2>1
<1>6. ASSUME NEW d \in End, NEW l \in Links,
             ReceiveDuplicate(d, l) \/ ReceiveOutOfWindow(d, l) \/ LinkDown(d, l)
                \/ LinkDownNoticed(d, l)
      PROVE  Goal
  BY <1>1, <1>6 DEF ReceiveDuplicate, ReceiveOutOfWindow, LinkDown, LinkDownNoticed, history
<1>7. ASSUME NEW d \in End, NEW l \in Links, ReceiveSyn(d, l) PROVE Goal
  <2> DEFINE k == Head(net[d][l]).key
  <2>1. k \in Keys /\ sent' = sent
    <3>1. net[d][l] # <<>> /\ sent' = sent
      BY <1>7 DEF ReceiveSyn, Accepts
    <3> QED
      BY <3>1, HeadType DEF TypeOK, Segment
  <2>2. CASE sessions[d][k] = NoSession
    <3>1. /\ sessions' = [sessions EXCEPT ![d][k] = NewSession(unknown_cb(d))]
          /\ IF unknown_cb(d) THEN instances' = [instances EXCEPT ![d][k] = @ + 1] ELSE instances' = instances
      BY <1>7, <2>2 DEF ReceiveSyn, NewHandler
    <3>2. unknown_cb(d) \in BOOLEAN
      BY DEF unknown_cb
    <3>3. ~(d = e /\ k = j) \/ s = NoSession
      BY <2>2
    <3> HIDE DEF k, Goal
    <3> QED
      BY <1>2, <2>1, <2>2, <3>1, <3>2, <3>3
  <2>3. CASE sessions[d][k] # NoSession
    <3>1. sessions' = sessions /\ instances' = instances
      BY <1>7, <2>3 DEF ReceiveSyn
    <3> QED
      BY <1>1, <2>1, <3>1
  <2> QED
    BY <2>2, <2>3
<1>8. ASSUME NEW d \in End, NEW l \in Links, ReceiveFin(d, l) PROVE Goal
  <2> DEFINE k == Head(net[d][l]).key
  <2>1. sessions' = [sessions EXCEPT ![d][k] = NoSession] /\ instances' = instances /\ sent' = sent
    BY <1>8 DEF ReceiveFin
  <2>2. t = s \/ t = NoSession
    BY <1>0, <2>1
  <2> QED
    BY <1>1, <2>1, <2>2
<1>9. ASSUME NEW d \in End, NEW l \in Links, ReceiveData(d, l) PROVE Goal
  <2>0. PICK seg \in Segment, r \in Session, n \in 0..SeqMod : DataStep(d, l, seg, r, n)
    BY <1>9, ReceiveDataFacts
  <2>1. /\ r = Emplace(Base(d, seg.key), seg)
        /\ sessions' = [sessions EXCEPT ![d][seg.key] = deliverInOrder(r, n)]
        /\ IF sessions[d][seg.key] = NoSession /\ r.handler
           THEN instances' = [instances EXCEPT ![d][seg.key] = @ + 1] ELSE instances' = instances
        /\ sent' = sent
    BY <2>0 DEF DataStep, NewHandler
  <2>2. CASE ~(d = e /\ seg.key = j)
    <3>1. t = s /\ instances'[e][j] = instances[e][j]
      BY <1>0, <2>1, <2>2
    <3> QED
      BY <1>1, <2>1, <3>1
  <2>3. CASE d = e /\ seg.key = j
    <3>1. t = deliverInOrder(r, n)
      BY <1>0, <2>1, <2>3
    <3>2. t.next_send_seq = r.next_send_seq /\ t.handler = r.handler
      BY <3>1 DEF deliverInOrder, Session
    <3>3. Base(e, j) \in Session
      BY BaseType
    <3>4. r.next_send_seq = Base(e, j).next_send_seq /\ r.handler = Base(e, j).handler
      BY <2>1, <2>3, <3>3 DEF Emplace, Session
    <3>5. CASE s = NoSession
      <4>1. r.next_send_seq = 0
        BY <3>4, <3>5 DEF Base, NewSession
      <4>2. r.handler => instances'[e][j] = instances[e][j] + 1
        BY <1>0, <2>1, <2>3, <3>5
      <4> QED
        BY <2>1, <3>2, <4>1, <4>2
    <3>6. CASE s # NoSession
      <4>1. t.next_send_seq = s.next_send_seq /\ t.handler = s.handler
        BY <3>2, <3>4, <3>6 DEF Base
      <4>2. instances' = instances
        BY <2>1, <2>3, <3>6
      <4> QED
        BY <2>1, <3>6, <4>1, <4>2
    <3> QED
      BY <3>5, <3>6
  <2> QED
    BY <2>2, <2>3
<1>10. ASSUME NEW l \in Links, LinkUp(l) PROVE Goal
  BY <1>1, <1>10 DEF LinkUp, history
<1>11. ASSUME UNCHANGED vars PROVE Goal
  BY <1>1, <1>11 DEF vars
<1>12. Goal
  BY <1>3, <1>4, <1>5, <1>6, <1>7, <1>8, <1>9, <1>10, <1>11 DEF Next, onChannelBytes
<1> QED
  BY <1>12 DEF HasHandler

(* A ring that is not full was not full before the step and has forgotten   *)
(* nothing.                                                                 *)
LEMMA RingStep ==
    ASSUME TypeOK, [Next]_vars, NEW e \in End, Len(dedup'[e]) < DedupRing
    PROVE  Len(dedup[e]) < DedupRing /\ Recorded(dedup[e]) \subseteq Recorded(dedup'[e])
<1>0. dedup \in [End -> Seq(DedupKeyType)]
  BY DEF TypeOK
<1>1. ASSUME NEW d \in End, NEW seg \in Segment, Record(d, seg)
      PROVE  \/ dedup'[e] = dedup[e]
             \/ \E dk \in DedupKeyType : dedup'[e] = Remember(dedup[e], dk)
  <2>1. dedup' = [dedup EXCEPT ![d] = Remember(dedup[d], DedupKey(seg))]
    BY <1>1 DEF Record
  <2>2. DedupKey(seg) \in DedupKeyType
    BY DEF DedupKey, DedupKeyType, Segment
  <2> QED
    BY <1>0, <2>1, <2>2
<1>2. ASSUME NEW d \in End, NEW l \in Links,
             ReceiveSyn(d, l) \/ ReceiveFin(d, l) \/ ReceiveData(d, l)
      PROVE  \/ dedup'[e] = dedup[e]
             \/ \E dk \in DedupKeyType : dedup'[e] = Remember(dedup[e], dk)
  <2>1. net[d][l] # <<>> /\ Record(d, Head(net[d][l]))
    BY <1>2 DEF ReceiveSyn, ReceiveFin, ReceiveData, Accepts
  <2>2. Head(net[d][l]) \in Segment
    BY <2>1, HeadType DEF TypeOK
  <2> QED
    BY <1>1, <2>1, <2>2
<1>3. \/ dedup'[e] = dedup[e]
      \/ \E dk \in DedupKeyType : dedup'[e] = Remember(dedup[e], dk)
  <2>1. ASSUME NEW d \in End, NEW l \in Links, onChannelBytes(d, l)
        PROVE  \/ dedup'[e] = dedup[e]
               \/ \E dk \in DedupKeyType : dedup'[e] = Remember(dedup[e], dk)
    <3>1. CASE ReceiveDuplicate(d, l) \/ ReceiveOutOfWindow(d, l)
      BY <3>1 DEF ReceiveDuplicate, ReceiveOutOfWindow
    <3> QED
      BY <1>2, <2>1, <3>1 DEF onChannelBytes
  <2>2. ASSUME NEW k \in Keys, openSession(k) PROVE dedup' = dedup
    BY <2>2 DEF openSession
  <2>3. ASSUME NEW d \in End, NEW k \in Keys, NEW p \in Payloads, sendSessionData(d, k, p)
        PROVE  dedup' = dedup
    BY <2>3 DEF sendSessionData
  <2>4. ASSUME NEW d \in End, NEW k \in Keys, closeSession(d, k) PROVE dedup' = dedup
    BY <2>4 DEF closeSession
  <2>5. ASSUME NEW d \in End, NEW l \in Links, LinkDown(d, l) \/ LinkDownNoticed(d, l)
        PROVE  dedup' = dedup
    BY <2>5 DEF LinkDown, LinkDownNoticed
  <2>6. ASSUME NEW l \in Links, LinkUp(l) PROVE dedup' = dedup
    BY <2>6 DEF LinkUp
  <2>7. ASSUME UNCHANGED vars PROVE dedup' = dedup
    BY <2>7 DEF vars
  <2> QED
    BY <2>1, <2>2, <2>3, <2>4, <2>5, <2>6, <2>7 DEF Next
<1>4. dedup[e] \in Seq(DedupKeyType)
  BY <1>0
<1> QED
  BY <1>3, <1>4, RememberAll

(* Some handler of session k at end e was given something. *)
Given(e, k) == prior[e][k] > 0 \/ handed[e][k] # <<>>

(* Which streams are known to be one handler's: the relay is the first, or  *)
(* the ring has forgotten nothing, so that no relay was given anything      *)
(* after another had been.                                                  *)
OneStream(k) == instances["outport"][k] <= 1 \/ Len(dedup["outport"]) < DedupRing

(* Before a second handler there is no earlier one that was given anything, *)
(* and a relay that wrote was given something first.                        *)
FirstInv ==
    /\ \A k \in Keys : sent["outport"][k] # <<>> => Given("outport", k)
    /\ \A e \in End, k \in Keys :
          /\ instances[e][k] <= 1 => prior[e][k] = 0
          /\ instances[e][k] = 0 => handed[e][k] = <<>>

(* FirstInv is inductive. *)
LEMMA FirstStep ==
    ASSUME TypeOK, TypeOK', PoisonInv, FirstInv, [Next]_vars
    PROVE  FirstInv'
<1>1. ASSUME NEW e \in End, NEW k \in Keys
      PROVE  /\ Given(e, k) => Given(e, k)'
             /\ instances'[e][k] <= 1 => prior'[e][k] = 0
             /\ instances'[e][k] = 0 => handed'[e][k] = <<>>
  <2> DEFINE h == handed[e][k]
             h2 == handed'[e][k]
             p == prior[e][k]
             p2 == prior'[e][k]
             i == instances[e][k]
             i2 == instances'[e][k]
  <2>0. /\ h \in Seq(Payloads) /\ h2 \in Seq(Payloads) /\ p \in Nat /\ i \in Nat
        /\ (i <= 1 => p = 0) /\ (i = 0 => h = <<>>)
    BY DEF TypeOK, FirstInv
  <2>1. ASSUME i2 = i + 1, p2 = p + Len(h)
        PROVE  /\ (p > 0 \/ h # <<>>) => p2 > 0
               /\ (i2 <= 1 => p2 = 0) /\ i2 # 0
    <3>1. Len(h) \in Nat /\ (h # <<>> => Len(h) > 0) /\ (h = <<>> => Len(h) = 0)
      BY <2>0
    <3> HIDE DEF h, p, p2, i, i2
    <3> QED
      BY <2>0, <2>1, <3>1
  <2>2. CASE Kept(e, k)
    BY <2>0, <2>2 DEF Kept, Given
  <2>3. CASE Attached(e, k)
    <3>1. i2 = i + 1 /\ p2 = p + Len(h)
      BY <2>3 DEF Attached
    <3> QED
      BY <2>1, <3>1 DEF Given
  <2>4. ASSUME NEW seg \in Segment, NEW r \in Session, NEW n \in 0..SeqMod, DataRead(e, k, seg, r, n)
        PROVE  /\ Given(e, k) => Given(e, k)'
               /\ i2 <= 1 => p2 = 0
               /\ i2 = 0 => h2 = <<>>
    <3>1. CASE sessions[e][k] = NoSession /\ r.handler
      <4>1. i2 = i + 1 /\ p2 = p + Len(h)
        BY <2>4, <3>1 DEF DataRead
      <4> QED
        BY <2>1, <4>1 DEF Given
    <3>2. CASE ~(sessions[e][k] = NoSession /\ r.handler)
      <4>1. h2 = h \o Taken(r, n) /\ p2 = p /\ i2 = i
        BY <2>4, <3>2 DEF DataRead
      <4>2. Taken(r, n) \in Seq(Payloads) /\ Len(Taken(r, n)) = n /\ RunLength(r, n)
        BY <2>4, TakenType DEF DataRead
      <4>3. h # <<>> => h2 # <<>>
        BY <2>0, <4>1, <4>2
      <4>4. i = 0 => n = 0
        <5>1. SUFFICES ASSUME i = 0, r.handler PROVE FALSE
          BY <4>2 DEF RunLength
        <5>2. sessions[e][k] # NoSession /\ Base(e, k) = sessions[e][k]
          BY <3>2, <5>1 DEF Base
        <5>3. Base(e, k) \in Session
          BY BaseType
        <5>4. r.handler = Base(e, k).handler
          BY <2>4, <5>3 DEF DataRead, Emplace, Session
        <5> QED
          BY <5>1, <5>2, <5>4 DEF PoisonInv
      <4>5. i2 = 0 => h2 = <<>>
        BY <2>0, <4>1, <4>2, <4>4
      <4> QED
        BY <2>0, <4>1, <4>3, <4>5 DEF Given
    <3> QED
      BY <3>1, <3>2
  <2> QED
    BY <2>2, <2>3, <2>4, HandlerStep
<1>2. ASSUME NEW k \in Keys, sent'["outport"][k] # <<>> PROVE Given("outport", k)'
  <2>0. "outport" \in End
    BY DEF End
  <2>1. CASE sent'["outport"][k] = sent["outport"][k]
    BY <1>1, <1>2, <2>0, <2>1 DEF FirstInv
  <2>2. CASE sent'["outport"][k] # sent["outport"][k]
    <3>1. Given("outport", k)
      BY <2>2, RelaySends DEF Given
    <3> QED
      BY <1>1, <2>0, <3>1
  <2> QED
    BY <2>1, <2>2
<1> QED
  BY <1>1, <1>2 DEF FirstInv

(* A stream that is one handler's was so before the step. *)
LEMMA OneStreamStep ==
    ASSUME TypeOK, TypeOK', [Next]_vars, NEW k \in Keys, OneStream(k)'
    PROVE  OneStream(k)
<1>0. "outport" \in End /\ instances["outport"][k] \in Nat
  BY DEF TypeOK, End
<1>1. instances["outport"][k] <= instances'["outport"][k]
  <2>1. instances'["outport"][k] = instances["outport"][k]
          \/ instances'["outport"][k] = instances["outport"][k] + 1
    <3>1. CASE Kept("outport", k) \/ Attached("outport", k)
      BY <3>1 DEF Kept, Attached
    <3>2. ASSUME NEW seg \in Segment, NEW r \in Session, NEW n \in 0..SeqMod,
                 DataRead("outport", k, seg, r, n)
          PROVE  instances'["outport"][k] = instances["outport"][k]
                   \/ instances'["outport"][k] = instances["outport"][k] + 1
      BY <3>2 DEF DataRead
    <3> QED
      BY <1>0, <3>1, <3>2, HandlerStep
  <2> QED
    BY <1>0, <2>1
<1>2. instances'["outport"][k] \in Nat
  BY <1>0 DEF TypeOK
<1> QED
  BY <1>0, <1>1, <1>2, RingStep DEF OneStream

(* Way back: as long as the stream is one handler's, a relay that was given *)
(* anything numbers its answers by their place in the stream, segment       *)
(* number i carries the i+1st of them, and the client's handler has been    *)
(* given exactly expected_rx_seq of them.                                   *)
BackAt(k) ==
    /\ HasHandler("outport", k) =>
          sessions["outport"][k].next_send_seq =
              IF handed["outport"][k] = <<>> THEN 0 ELSE Len(sent["outport"][k])
    /\ \A l \in Links : \A x \in Segment :
          (x.kind = "DATA" /\ x.key = k /\ OnLink(net["inport"][l], x)) =>
              x.payload = sent["outport"][k][x.seq + 1]
    /\ HasHandler("inport", k) =>
          Matches(sessions["inport"][k], handed["inport"][k], sent["outport"][k])
    /\ IsPrefixOf(handed["inport"][k], sent["outport"][k])

BackInv == \A k \in Keys : OneStream(k) => BackAt(k)

(* The number of the relay's next answer. *)
LEMMA AnswerNumber ==
    ASSUME NoWrap, TypeOK, TypeOK', OnceInv', FirstInv, FirstInv', [Next]_vars,
           NEW k \in Keys, OneStream(k)', BackAt(k), HasHandler("outport", k)'
    PROVE  sessions'["outport"][k].next_send_seq =
               IF handed'["outport"][k] = <<>> THEN 0 ELSE Len(sent'["outport"][k])
<1> DEFINE s == sessions["outport"][k]
           t == sessions'["outport"][k]
           h == handed["outport"][k]
           h2 == handed'["outport"][k]
           w == sent["outport"][k]
           w2 == sent'["outport"][k]
           i == instances["outport"][k]
           i2 == instances'["outport"][k]
           p == prior["outport"][k]
           p2 == prior'["outport"][k]
<1>0. /\ "outport" \in End /\ w \in Seq(Payloads) /\ h \in Seq(Payloads) /\ h2 \in Seq(Payloads)
      /\ i \in Nat /\ p \in Nat /\ p2 \in Nat
      /\ sessions \in [End -> [Keys -> Session \cup {NoSession}]]
      /\ sent \in [End -> [Keys -> Seq(Payloads)]]
  <2>1. "outport" \in End
    BY DEF End
  <2> QED
    BY <2>1 DEF TypeOK
<1>1. ASSUME NEW b \in Payloads, sendSessionData("outport", k, b)
      PROVE  t.next_send_seq = IF h2 = <<>> THEN 0 ELSE Len(w2)
  <2>1. /\ HasHandler("outport", k) /\ Len(w) < MaxSegs["outport"] /\ h # <<>> /\ h2 = h
        /\ sessions' = [sessions EXCEPT !["outport"][k] =
               [sessions["outport"][k] EXCEPT !.next_send_seq = Plus(sessions["outport"][k].next_send_seq, 1)]]
        /\ sent' = [sent EXCEPT !["outport"][k] = Append(@, b)]
    BY <1>1 DEF sendSessionData, HasHandler
  <2>2. s \in Session /\ s.next_send_seq = Len(w)
    BY <1>0, <2>1 DEF BackAt, HasHandler
  <2>3. t = [s EXCEPT !.next_send_seq = Plus(s.next_send_seq, 1)] /\ w2 = Append(w, b)
    BY <1>0, <2>1
  <2>4. t.next_send_seq = Plus(Len(w), 1) /\ Len(w2) = Len(w) + 1 /\ Len(w) \in Nat
    BY <1>0, <2>2, <2>3 DEF Session
  <2>5. MaxSegs["outport"] + RecvWindow <= SeqMod /\ MaxSegs["outport"] \in Nat
    BY <1>0, BoundsAssumption DEF NoWrap
  <2>6. Plus(Len(w), 1) = Len(w) + 1
    BY <2>1, <2>4, <2>5, WindowAssumption DEF Plus
  <2> QED
    BY <2>1, <2>4, <2>6
<1>2. h2 # <<>> => p2 = 0
  <2>1. p2 > 0 => h2 = <<>>
    <3>1. CASE i2 <= 1
      BY <1>0, <3>1 DEF FirstInv
    <3>2. CASE Len(dedup'["outport"]) < DedupRing
      BY <1>0, <3>2 DEF OnceInv, OnceAt
    <3> QED
      BY <3>1, <3>2 DEF OneStream
  <2> HIDE DEF p2, h2
  <2> QED
    BY <1>0, <2>1
<1>3. ASSUME w2 = w, h = <<>>, p = 0 PROVE Len(w2) = 0
  <2>1. w = <<>>
    BY <1>0, <1>3 DEF FirstInv, Given
  <2> QED
    BY <1>3, <2>1
<1>4. ASSUME w2 = w, HasHandler("outport", k), i2 = i, t.next_send_seq = s.next_send_seq
      PROVE  t.next_send_seq = IF h2 = <<>> THEN 0 ELSE Len(w2)
  <2>1. s.next_send_seq = IF h = <<>> THEN 0 ELSE Len(w)
    BY <1>4 DEF BackAt
  <2>2. (h # <<>> => h2 # <<>>) /\ p2 = p
    <3>1. CASE Kept("outport", k)
      BY <3>1 DEF Kept
    <3>2. CASE Attached("outport", k)
      BY <1>0, <1>4, <3>2 DEF Attached
    <3>3. ASSUME NEW seg \in Segment, NEW r \in Session, NEW n \in 0..SeqMod,
                 DataRead("outport", k, seg, r, n)
          PROVE  (h # <<>> => h2 # <<>>) /\ p2 = p
      <4>0. \/ i2 = i + 1
            \/ h2 = h \o Taken(r, n) /\ p2 = p
        BY <3>3 DEF DataRead
      <4>1. h2 = h \o Taken(r, n) /\ p2 = p
        BY <1>0, <1>4, <4>0
      <4>2. Taken(r, n) \in Seq(Payloads)
        BY <3>3, TakenType DEF DataRead
      <4> QED
        BY <1>0, <4>1, <4>2
    <3> QED
      BY <1>0, <3>1, <3>2, <3>3, HandlerStep
  <2>3. h = <<>> /\ h2 # <<>> => Len(w2) = 0
    BY <1>2, <1>3, <1>4, <2>2
  <2> HIDE DEF h, h2, w, w2, s, t
  <2> QED
    BY <1>4, <2>1, <2>2, <2>3
<1>5. ASSUME w2 = w, i2 = i + 1, t.next_send_seq = 0
      PROVE  t.next_send_seq = IF h2 = <<>> THEN 0 ELSE Len(w2)
  <2>1. p2 = p + Len(h)
    <3>1. CASE Kept("outport", k)
      BY <1>0, <1>5, <3>1 DEF Kept
    <3>2. CASE Attached("outport", k)
      BY <3>2 DEF Attached
    <3>3. ASSUME NEW seg \in Segment, NEW r \in Session, NEW n \in 0..SeqMod,
                 DataRead("outport", k, seg, r, n)
          PROVE  p2 = p + Len(h)
      <4>1. p2 = p + Len(h) \/ i2 = i
        BY <3>3 DEF DataRead
      <4> QED
        BY <1>0, <1>5, <4>1
    <3> QED
      BY <1>0, <3>1, <3>2, <3>3, HandlerStep
  <2>2. h2 # <<>> => p = 0 /\ h = <<>>
    <3>1. Len(h) \in Nat /\ (Len(h) = 0 => h = <<>>)
      BY <1>0
    <3> HIDE DEF h, h2, p, p2
    <3> QED
      BY <1>0, <1>2, <2>1, <3>1
  <2> QED
    BY <1>3, <1>5, <2>2
<1>6. HasHandler("outport", k)' = (t # NoSession /\ t.handler)
  BY DEF HasHandler
<1> QED
  BY <1>0, <1>1, <1>4, <1>5, WriterStep

(* What is on a link to the client. *)
LEMMA AnswerOnLink ==
    ASSUME TypeOK, TypeOK', NumbersInv, [Next]_vars, NEW k \in Keys, BackAt(k),
           NEW l \in Links, NEW x \in Segment, x.kind = "DATA", x.key = k, OnLink(net'["inport"][l], x)
    PROVE  x.payload = sent'["outport"][k][x.seq + 1]
<1>0. "inport" \in End /\ "outport" \in End /\ Peer("inport") = "outport"
  BY DEF End, Peer
<1> DEFINE w == sent["outport"][k]
           w2 == sent'["outport"][k]
<1>1. x.seq \in SeqNum /\ w \in Seq(Payloads)
  BY <1>0 DEF Segment, TypeOK
<1>2. CASE OnLink(net["inport"][l], x)
  <2>1. x.seq < Len(w) /\ x.payload = w[x.seq + 1]
    BY <1>0, <1>2 DEF NumbersInv, BackAt
  <2>2. x.seq + 1 \in 1..Len(w)
    BY <1>1, <2>1 DEF SeqNum
  <2>3. \A i \in 1..Len(w) : w2[i] = w[i]
    BY <1>0, SentGrows
  <2> QED
    BY <2>1, <2>2, <2>3
<1>3. CASE SentNow("inport", x)
  <2>1. /\ HasHandler("outport", k)
        /\ x.seq = sessions["outport"][k].next_send_seq
        /\ w2 = Append(w, x.payload)
    BY <1>0, <1>3 DEF SentNow, HasHandler
  <2>2. w2 # w
    <3>1. Len(w2) = Len(w) + 1
      BY <1>1, <2>1
    <3> QED
      BY <1>1, <3>1
  <2>3. x.seq = Len(w)
    BY <2>1, <2>2, RelaySends DEF BackAt
  <2> QED
    BY <1>1, <2>1, <2>3
<1> QED
  BY <1>0, <1>2, <1>3, NetStep

(* What the client's handler is given stays a prefix of the answers. *)
LEMMA ClientReads ==
    ASSUME NoWrap, TypeOK, TypeOK', NumbersInv, [Next]_vars, NEW k \in Keys, BackAt(k)
    PROVE  /\ HasHandler("inport", k)' =>
                  Matches(sessions'["inport"][k], handed'["inport"][k], sent'["outport"][k])
           /\ IsPrefixOf(handed'["inport"][k], sent'["outport"][k])
<1> DEFINE s == sessions["inport"][k]
           t == sessions'["inport"][k]
           h == handed["inport"][k]
           h2 == handed'["inport"][k]
           w == sent["outport"][k]
           w2 == sent'["outport"][k]
           own == Len(sent["inport"][k])
           Goal == ((t # NoSession /\ t.handler) => Matches(t, h2, w2)) /\ IsPrefixOf(h2, w2)
<1>0. /\ "inport" \in End /\ "outport" \in End /\ Peer("inport") = "outport"
      /\ s \in Session \cup {NoSession}
      /\ h \in Seq(Payloads) /\ h2 \in Seq(Payloads)
      /\ w \in Seq(Payloads) /\ w2 \in Seq(Payloads) /\ own \in Nat /\ Len(w) \in Nat
  <2>1. "inport" \in End /\ "outport" \in End /\ Peer("inport") = "outport"
    BY DEF End, Peer
  <2>2. s \in Session \cup {NoSession}
    BY <2>1 DEF TypeOK
  <2>3. h \in Seq(Payloads) /\ h2 \in Seq(Payloads)
    BY <2>1 DEF TypeOK
  <2>4. w \in Seq(Payloads) /\ w2 \in Seq(Payloads) /\ sent["inport"][k] \in Seq(Payloads)
    BY <2>1 DEF TypeOK
  <2> QED
    BY <2>1, <2>2, <2>3, <2>4
<1>1. Len(w) <= Len(w2) /\ \A i \in 1..Len(w) : w2[i] = w[i]
  BY <1>0, SentGrows
<1>2. /\ s # NoSession => s \in Session /\ InRange(s, own, Len(w))
      /\ (s # NoSession /\ s.handler) => Matches(s, h, w)
      /\ IsPrefixOf(h, w)
  <2>1. s # NoSession => InRange(s, own, Len(w))
    BY <1>0 DEF NumbersInv
  <2>2. (s # NoSession /\ s.handler) => Matches(s, h, w)
    BY DEF BackAt, HasHandler
  <2> QED
    BY <1>0, <2>1, <2>2 DEF BackAt
<1>3. Len(w) + RecvWindow <= SeqMod
  <2>1. Len(w) <= MaxSegs["outport"] /\ MaxSegs["outport"] + RecvWindow <= SeqMod
        /\ MaxSegs["outport"] \in Nat /\ Len(w) \in Nat
    BY <1>0, BoundsAssumption DEF NumbersInv, NoWrap
  <2> QED
    BY <2>1, WindowAssumption
<1>4. IsPrefixOf(h, w2)
  <2> HIDE DEF h, w, w2
  <2> QED
    BY <1>0, <1>1, <1>2, PrefixGrows
<1>5. (s # NoSession /\ s.handler) => Matches(s, h, w2)
  <2> SUFFICES ASSUME s # NoSession, s.handler PROVE Matches(s, h, w2)
    OBVIOUS
  <2>1. s \in Session /\ InRange(s, own, Len(w)) /\ Matches(s, h, w)
    BY <1>2
  <2> HIDE DEF s, h, w, w2, own
  <2> QED
    BY <1>0, <1>1, <2>1, MatchesGrows
<1>6. CASE Kept("inport", k)
  <2>1. (t # NoSession /\ t.handler) =>
            /\ s # NoSession /\ s.handler
            /\ t.expected_rx_seq = s.expected_rx_seq /\ t.rx_buffer = s.rx_buffer
    <3>1. CASE t = [s EXCEPT !.next_send_seq = Plus(s.next_send_seq, 1)] /\ s # NoSession
      BY <1>0, <3>1 DEF Session
    <3>2. CASE t = NewSession(FALSE)
      BY <3>2 DEF NewSession
    <3> QED
      BY <1>6, <3>1, <3>2 DEF Kept
  <2>2. h2 = h
    BY <1>6 DEF Kept
  <2> QED
    BY <1>4, <1>5, <2>1, <2>2 DEF Matches, HasHandler
<1>7. CASE Attached("inport", k)
  <2>1. t = NewSession(TRUE) /\ h2 = <<>>
    BY <1>7 DEF Attached
  <2>2. IsPrefixOf(<<>>, w2)
    BY <1>0 DEF IsPrefixOf
  <2> QED
    BY <2>1, <2>2, NewMatches DEF HasHandler
<1>8. ASSUME NEW seg \in Segment, NEW r \in Session, NEW n \in 0..SeqMod,
             DataRead("inport", k, seg, r, n)
      PROVE  Goal
  <2> DEFINE b == Base("inport", k)
  <2>0. PICK l \in Links : net["inport"][l] # <<>> /\ seg = Head(net["inport"][l])
    BY <1>8 DEF DataRead
  <2>1. /\ seg.kind = "DATA" /\ seg.key = k
        /\ Rel(seg.seq, Expected("inport", k)) < RecvWindow
        /\ r = Emplace(b, seg) /\ RunLength(r, n)
        /\ t = deliverInOrder(r, n)
        /\ IF s = NoSession /\ r.handler THEN h2 = Taken(r, n) ELSE h2 = h \o Taken(r, n)
    BY <1>8 DEF DataRead
  <2>3. b \in Session /\ b.expected_rx_seq = Expected("inport", k)
    BY <1>0, BaseType
  <2>4. r.handler = b.handler
    BY <2>1, <2>3 DEF Emplace, Session
  <2>5. t.handler = r.handler
    BY <2>1 DEF deliverInOrder, Session
  <2>6. s = NoSession => ~b.handler
    BY DEF Base, NewSession, unknown_cb
  <2>7. CASE ~r.handler
    <3>1. n = 0
      BY <2>1, <2>7 DEF RunLength
    <3>2. Taken(r, n) \in Seq(Payloads) /\ Len(Taken(r, n)) = 0
      BY <2>1, <3>1, TakenType
    <3>3. h2 = h
      <4>1. h2 = h \o Taken(r, n)
        BY <2>1, <2>7
      <4>2. Taken(r, n) = <<>>
        BY <3>2
      <4> HIDE DEF h, h2
      <4> QED
        BY <1>0, <4>1, <4>2
    <3> QED
      BY <1>4, <2>5, <2>7, <3>3
  <2>8. CASE r.handler
    <3>1. s # NoSession /\ b = s
      BY <2>4, <2>6, <2>8 DEF Base
    <3>2. InRange(b, own, Len(w)) /\ Matches(b, h, w) /\ IsPrefixOf(h, w)
      BY <1>2, <2>4, <2>8, <3>1
    <3>3. OnLink(net["inport"][l], seg)
      <4>1. net["inport"][l] \in Seq(Segment)
        BY <1>0 DEF TypeOK
      <4> QED
        BY <2>0, <4>1, HeadOnLink
    <3>4. seg.seq < Len(w) /\ seg.payload = w[seg.seq + 1]
      BY <1>0, <2>1, <3>3 DEF NumbersInv, BackAt
    <3>5. Matches(r, h, w)
      BY <2>1, <2>3, <3>2, <3>4, EmplaceMatches
    <3>6. InRange(r, own, Len(w))
      <4>1. Rel(seg.seq, b.expected_rx_seq) < RecvWindow
        BY <2>1, <2>3
      <4> HIDE DEF b, w, own
      <4> QED
        BY <1>0, <1>3, <2>1, <2>3, <3>2, <3>4, <4>1, EmplaceInRange
    <3>7. Matches(deliverInOrder(r, n), h \o Taken(r, n), w) /\ IsPrefixOf(h \o Taken(r, n), w)
      <4> HIDE DEF h, w, own
      <4> QED
        BY <1>0, <1>3, <2>1, <3>2, <3>5, <3>6, RunExtends
    <3>8. h2 = h \o Taken(r, n)
      BY <2>1, <3>1
    <3>9. t \in Session /\ InRange(t, own, Len(w))
      <4>1. deliverInOrder(r, n) \in Session
        BY DeliverType
      <4>2. InRange(deliverInOrder(r, n), own, Len(w))
        <5> HIDE DEF w, own
        <5> QED
          BY <1>0, <1>3, <2>1, <3>6, DeliverNumbers
      <4> QED
        BY <2>1, <4>1, <4>2
    <3>10. Matches(t, h2, w) /\ IsPrefixOf(h2, w)
      BY <2>1, <3>7, <3>8
    <3>11. IsPrefixOf(h2, w2)
      <4> HIDE DEF h2, w, w2
      <4> QED
        BY <1>0, <1>1, <3>10, PrefixGrows
    <3>12. Matches(t, h2, w2)
      <4> HIDE DEF t, h2, w, w2, own
      <4> QED
        BY <1>0, <1>1, <3>9, <3>10, MatchesGrows
    <3> QED
      BY <3>11, <3>12
  <2> QED
    BY <2>7, <2>8
<1>9. Goal
  BY <1>0, <1>6, <1>7, <1>8, HandlerStep DEF HasHandler
<1> QED
  BY <1>9 DEF HasHandler

(* BackInv is inductive. *)
LEMMA BackStep ==
    ASSUME NoWrap, TypeOK, TypeOK', NumbersInv, OnceInv', FirstInv, FirstInv', BackInv, [Next]_vars
    PROVE  BackInv'
<1> SUFFICES ASSUME NEW k \in Keys, OneStream(k)' PROVE BackAt(k)'
  BY DEF BackInv
<1>1. BackAt(k)
  BY OneStreamStep DEF BackInv
<1>2. HasHandler("outport", k)' =>
          sessions'["outport"][k].next_send_seq =
              IF handed'["outport"][k] = <<>> THEN 0 ELSE Len(sent'["outport"][k])
  BY <1>1, AnswerNumber
<1>3. \A l \in Links : \A x \in Segment :
          (x.kind = "DATA" /\ x.key = k /\ OnLink(net'["inport"][l], x)) =>
              x.payload = sent'["outport"][k][x.seq + 1]
  BY <1>1, AnswerOnLink
<1>4. /\ HasHandler("inport", k)' =>
             Matches(sessions'["inport"][k], handed'["inport"][k], sent'["outport"][k])
      /\ IsPrefixOf(handed'["inport"][k], sent'["outport"][k])
  BY <1>1, ClientReads
<1> QED
  BY <1>2, <1>3, <1>4 DEF BackAt

(* At the start nothing is recorded. *)
LEMMA PoisonInit == Init => PoisonInv
<1> SUFFICES ASSUME Init PROVE PoisonInv
  OBVIOUS
<1>1. \A e \in End, k \in Keys : sessions[e][k] = NoSession /\ sent[e][k] = <<>>
  BY DEF Init
<1>2. \A e \in End : Recorded(dedup[e]) = {}
  BY DEF Init, Recorded
<1>3. \A e \in End, l \in Links, x \in Segment : ~OnLink(net[e][l], x)
  BY DEF Init, OnLink
<1>4. "outport" \in End
  BY DEF End
<1> QED
  BY <1>1, <1>2, <1>3, <1>4 DEF PoisonInv, DataKeys, NotPoisoned

(* At the start nothing is on its way back. *)
LEMMA BackInit == Init => OnceInv /\ FirstInv /\ BackInv
<1> SUFFICES ASSUME Init PROVE OnceInv /\ FirstInv /\ BackInv
  OBVIOUS
<1>1. OnceInv
  BY DEF Init, OnceInv, OnceAt
<1>2. "inport" \in End /\ "outport" \in End
  BY DEF End
<1>3. FirstInv
  BY <1>2 DEF Init, FirstInv
<1>4. BackInv
  <2>1. ASSUME NEW k \in Keys PROVE BackAt(k)
    <3>1. /\ sessions["outport"][k] = NoSession /\ sessions["inport"][k] = NoSession
          /\ handed["inport"][k] = <<>> /\ sent["outport"][k] = <<>>
      BY <1>2 DEF Init
    <3>2. \A l \in Links, x \in Segment : ~OnLink(net["inport"][l], x)
      BY <1>2 DEF Init, OnLink
    <3> QED
      BY <3>1, <3>2 DEF BackAt, HasHandler, IsPrefixOf
  <2> QED
    BY <2>1 DEF BackInv
<1> QED
  BY <1>1, <1>3, <1>4

(* What the rest rests on. *)
BaseInv == TypeOK /\ NumbersInv /\ StreamInv /\ PoisonInv /\ OnceInv /\ FirstInv /\ BackInv

(* The invariants above hold together, whatever is lost. *)
LEMMA BaseAlways == ASSUME NoWrap PROVE Spec => []BaseInv
<1>1. Spec => [](TypeOK /\ NumbersInv /\ StreamInv)
  BY StreamAlways
<1>2. TypeOK /\ NumbersInv /\ StreamInv /\ PoisonInv /\ TypeOK' /\ [Next]_vars => PoisonInv'
  BY PoisonStep
<1>3. TypeOK /\ TypeOK' /\ OnceInv /\ [Next]_vars => OnceInv'
  BY OnceStep
<1>4. TypeOK /\ TypeOK' /\ PoisonInv /\ FirstInv /\ [Next]_vars => FirstInv'
  BY FirstStep
<1>5. TypeOK /\ TypeOK' /\ NumbersInv /\ OnceInv' /\ FirstInv /\ FirstInv' /\ BackInv /\ [Next]_vars
          => BackInv'
  BY BackStep
<1> QED
  BY <1>1, <1>2, <1>3, <1>4, <1>5, PoisonInit, BackInit, PTL DEF Spec, BaseInv

(* The Outport's dedup ring has not had to forget a key yet. *)
RelayRingNotFull == Len(dedup["outport"]) < DedupRing

(* As long as the Outport's dedup ring has forgotten nothing, both          *)
(* directions are in order: a client too is given a prefix of what its      *)
(* relays wrote, each chunk once, whatever links are lost, and also when    *)
(* late copies attach a second relay to the session (sendSessionData,       *)
(* onChannelBytes).                                                         *)
THEOREM InOrderAlways == ASSUME NoWrap PROVE Spec => [](RelayRingNotFull => InOrder)
<1>1. BaseInv => (RelayRingNotFull => InOrder)
  <2> SUFFICES ASSUME BaseInv, RelayRingNotFull, NEW e \in End, NEW k \in Keys
               PROVE  IsPrefixOf(handed[e][k], sent[Peer(e)][k])
    BY DEF InOrder
  <2>1. CASE e = "outport"
    BY <2>1 DEF BaseInv, StreamInv, InOrderForward, Peer
  <2>2. CASE e = "inport"
    <3>1. OneStream(k) /\ Peer(e) = "outport"
      BY <2>2 DEF OneStream, RelayRingNotFull, Peer, End
    <3> QED
      BY <2>2, <3>1 DEF BaseInv, BackInv, BackAt
  <2> QED
    BY <2>1, <2>2 DEF End
<1> QED
  BY <1>1, BaseAlways, PTL

-----------------------------------------------------------------------------
(* Every segment on every link, and no link lost: the order on the links.   *)

(* No link is ever lost, and the fan-out is at least the number of links    *)
(* (LinkSelector in mode ALL).                                              *)
Lossless == MaxDowns = 0 /\ Fanout >= Cardinality(Links)

(* No end has lost a link. *)
AllUp == \A e \in End : live[e] = Links

(* Without a budget of losses every link stays up. *)
LEMMA UpStep ==
    ASSUME Lossless, TypeOK, AllUp, [Next]_vars
    PROVE  AllUp'
<1>1. ASSUME NEW e \in End, NEW l \in Links, LinkDown(e, l) PROVE FALSE
  BY <1>1 DEF LinkDown, Lossless, TypeOK
<1>2. ASSUME NEW e \in End, NEW l \in Links, LinkDownNoticed(e, l) PROVE FALSE
  BY <1>2, PeerType DEF LinkDownNoticed, AllUp
<1>3. ASSUME NEW l \in Links, LinkUp(l) PROVE FALSE
  BY <1>3 DEF LinkUp, AllUp, End
<1>4. ASSUME NEW e \in End, NEW l \in Links, onChannelBytes(e, l) PROVE live' = live
  BY <1>4 DEF onChannelBytes, ReceiveDuplicate, ReceiveOutOfWindow, ReceiveSyn, ReceiveFin, ReceiveData
<1>5. ASSUME NEW k \in Keys, openSession(k) PROVE live' = live
  BY <1>5 DEF openSession
<1>6. ASSUME NEW e \in End, NEW k \in Keys, NEW p \in Payloads, sendSessionData(e, k, p) PROVE live' = live
  BY <1>6 DEF sendSessionData
<1>7. ASSUME NEW e \in End, NEW k \in Keys, closeSession(e, k) PROVE live' = live
  BY <1>7 DEF closeSession
<1>8. live' = live
  BY <1>1, <1>2, <1>3, <1>4, <1>5, <1>6, <1>7 DEF Next, vars
<1> QED
  BY <1>8 DEF AllUp

(* A segment is copied to every link. *)
LEMMA CopiedToAll ==
    ASSUME Lossless, AllUp, NEW e \in End, NEW seg, NEW S \in Selections(e), NEW l \in Links
    PROVE  WithCopies(e, S, seg)[l] = Append(net[Peer(e)][l], seg)
<1>1. live[e] = Links /\ live[Peer(e)] = Links
  BY PeerType DEF AllUp
<1>2. Cardinality(Links) \in Nat
  BY LinksAssumption, FS_CardinalityType
<1>3. S \in SUBSET Links /\ Cardinality(S) = Cardinality(Links)
  BY <1>1, <1>2, FanoutAssumption DEF Selections, Lossless
<1>4. S = Links
  BY <1>3, LinksAssumption, FS_Subset
<1> QED
  BY <1>1, <1>4 DEF WithCopies

(* Every link to end d carries one more segment. *)
Grows(d, x) == \A l \in Links : net'[d][l] = Append(net[d][l], x)

(* What end c did for session k, when it sent nothing in it: the same       *)
(* handler or none, or at the Outport a new one.                            *)
Idle(c, k) ==
    /\ sent'[c][k] = sent[c][k]
    /\ HasHandler(c, k) => HasHandler(c, k)'
    /\ \/ instances'[c][k] = instances[c][k] /\ (HasHandler(c, k)' => HasHandler(c, k))
       \/ c = "outport" /\ instances'[c][k] = instances[c][k] + 1

(* No segment of session k is added to a link to end d. *)
NoneAdded(d, k) ==
    \A l \in Links :
        \/ net'[d][l] = net[d][l]
        \/ net[d][l] # <<>> /\ net'[d][l] = Tail(net[d][l]) /\ onChannelBytes(d, l)
        \/ \E x \in Segment : x.key # k /\ net'[d][l] = Append(net[d][l], x)

(* The client's side opened session k: its SYN is on every link. *)
Opened(d, k) ==
    /\ d = "outport" /\ Grows(d, Marker("SYN", k, 0))
    /\ instances["inport"][k] = 0 /\ instances'["inport"][k] = 1
    /\ sent'["inport"][k] = sent["inport"][k] /\ HasHandler("inport", k)'

(* The other end wrote p in session k. *)
Wrote(d, k, p) ==
    /\ sendSessionData(Peer(d), k, p)
    /\ Grows(d, [kind |-> "DATA", key |-> k, seq |-> sessions[Peer(d)][k].next_send_seq, payload |-> p])

(* The other end's handler closed session k, of itself or to answer a FIN. *)
Closed(d, k) ==
    /\ HasHandler(Peer(d), k) /\ ~HasHandler(Peer(d), k)'
    /\ Grows(d, Marker("FIN", k, sessions[Peer(d)][k].next_send_seq))
    /\ instances'[Peer(d)][k] = instances[Peer(d)][k]
    /\ sent'[Peer(d)][k] = sent[Peer(d)][k]

(* What a step means to session k on its way to end d. *)
LEMMA PathStep ==
    ASSUME Lossless, TypeOK, AllUp, [Next]_vars, NEW d \in End, NEW k \in Keys
    PROVE  \/ NoneAdded(d, k) /\ Idle(Peer(d), k)
           \/ Opened(d, k)
           \/ \E p \in Payloads : Wrote(d, k, p)
           \/ Closed(d, k)
<1> DEFINE c == Peer(d)
           Quiet == NoneAdded(d, k) /\ Idle(c, k)
           Goal == \/ Quiet \/ Opened(d, k) \/ (\E p \in Payloads : Wrote(d, k, p)) \/ Closed(d, k)
<1>0. /\ "inport" \in End /\ "outport" \in End /\ c \in End /\ c # d
      /\ \A e \in End : e # d => e = c /\ Peer(e) = d
      /\ (d = "outport" <=> c = "inport")
      /\ sessions \in [End -> [Keys -> Session \cup {NoSession}]]
      /\ instances \in [End -> [Keys -> Nat]]
      /\ sent \in [End -> [Keys -> Seq(Payloads)]]
      /\ net \in [End -> [Links -> Seq(Segment)]]
  <2>1. /\ "inport" \in End /\ "outport" \in End /\ c \in End /\ c # d
        /\ \A e \in End : e # d => e = c /\ Peer(e) = d
        /\ (d = "outport" <=> c = "inport")
    BY DEF End, Peer
  <2> QED
    BY <2>1 DEF TypeOK
<1>1. ASSUME NEW e \in End, NEW seg \in Segment, NEW S \in Selections(e),
             net' = [net EXCEPT ![Peer(e)] = WithCopies(e, S, seg)]
      PROVE  IF e = d THEN net'[d] = net[d] ELSE Grows(d, seg)
  <2>1. CASE e = d
    BY <1>0, <1>1, <2>1
  <2>2. CASE e # d
    <3>1. net'[d] = WithCopies(e, S, seg) /\ Peer(e) = d
      BY <1>0, <1>1, <2>2
    <3> QED
      BY <2>2, <3>1, CopiedToAll DEF Grows
  <2> QED
    BY <2>1, <2>2
<1>2. ASSUME NEW e \in End, NEW seg \in Segment, sendSegment(e, seg)
      PROVE  IF e = d THEN net'[d] = net[d] ELSE Grows(d, seg)
  <2>1. PICK S \in Selections(e) : net' = [net EXCEPT ![Peer(e)] = WithCopies(e, S, seg)]
    BY <1>2 DEF sendSegment
  <2> QED
    BY <1>1, <2>1
<1>3. ASSUME net'[d] = net[d] PROVE NoneAdded(d, k)
  BY <1>3 DEF NoneAdded
<1>4. ASSUME NEW seg \in Segment, seg.key # k, Grows(d, seg) PROVE NoneAdded(d, k)
  BY <1>4 DEF NoneAdded, Grows
<1>5. ASSUME sessions'[c][k] = sessions[c][k], instances'[c][k] = instances[c][k], sent'[c][k] = sent[c][k]
      PROVE  Idle(c, k)
  BY <1>5 DEF Idle, HasHandler
<1>6. ASSUME NEW j \in Keys, openSession(j) PROVE Goal
  <2>1. /\ instances["inport"][j] = 0
        /\ sessions' = [sessions EXCEPT !["inport"][j] = NewSession(TRUE)]
        /\ instances' = [instances EXCEPT !["inport"][j] = @ + 1]
        /\ sent' = sent /\ sendSegment("inport", Marker("SYN", j, 0))
    BY <1>6 DEF openSession, NewHandler
  <2>2. Marker("SYN", j, 0) \in Segment /\ Marker("SYN", j, 0).key = j
    BY MarkerType, WindowAssumption DEF SeqNum, Marker
  <2>3. IF d = "inport" THEN net'[d] = net[d] ELSE Grows(d, Marker("SYN", j, 0))
    BY <1>0, <1>2, <2>1, <2>2
  <2>4. CASE d = "outport" /\ j = k
    <3>1. instances'["inport"][k] = 1 /\ sessions'["inport"][k] = NewSession(TRUE)
      <4>1. instances'["inport"][k] = instances["inport"][k] + 1 /\ instances["inport"][k] = 0
        BY <1>0, <2>1, <2>4
      <4>2. sessions'["inport"][k] = NewSession(TRUE)
        BY <1>0, <2>1, <2>4
      <4> QED
        BY <4>1, <4>2
    <3>2. NewSession(TRUE) # NoSession /\ NewSession(TRUE).handler
      <4>1. NewSession(TRUE) \in Session
        BY NewSessionType
      <4> QED
        BY <4>1, SessionAssumption DEF NewSession
    <3> QED
      BY <1>0, <2>1, <2>3, <2>4, <3>1, <3>2 DEF Opened, HasHandler
  <2>5. CASE ~(d = "outport" /\ j = k)
    <3>1. sessions'[c][k] = sessions[c][k] /\ instances'[c][k] = instances[c][k]
      BY <1>0, <2>1, <2>5
    <3>2. NoneAdded(d, k)
      BY <1>0, <1>3, <1>4, <2>2, <2>3, <2>5 DEF End
    <3> QED
      BY <1>5, <2>1, <3>1, <3>2
  <2> QED
    BY <2>4, <2>5
<1>7. ASSUME NEW e \in End, NEW j \in Keys, NEW p \in Payloads, sendSessionData(e, j, p) PROVE Goal
  <2> DEFINE seg == [kind |-> "DATA", key |-> j, seq |-> sessions[e][j].next_send_seq, payload |-> p]
  <2>1. /\ sessions[e][j] # NoSession /\ sendSegment(e, seg)
        /\ sessions' = [sessions EXCEPT ![e][j] =
              [sessions[e][j] EXCEPT !.next_send_seq = Plus(sessions[e][j].next_send_seq, 1)]]
        /\ sent' = [sent EXCEPT ![e][j] = Append(@, p)] /\ instances' = instances
    BY <1>7 DEF sendSessionData
  <2>2. seg \in Segment /\ seg.key = j
    <3>1. sessions[e][j].next_send_seq \in SeqNum
      BY <1>0, <2>1 DEF Session
    <3> QED
      BY <3>1 DEF Segment, Slot
  <2>3. IF e = d THEN net'[d] = net[d] ELSE Grows(d, seg)
    <3> HIDE DEF seg
    <3> QED
      BY <1>2, <2>1, <2>2
  <2>4. CASE e # d /\ j = k
    <3>1. e = c /\ Grows(d, seg)
      BY <1>0, <2>3, <2>4
    <3>2. Wrote(d, k, p)
      BY <1>7, <2>4, <3>1 DEF Wrote
    <3> QED
      BY <3>2
  <2>5. CASE ~(e # d /\ j = k)
    <3>1. sessions'[c][k] = sessions[c][k] /\ sent'[c][k] = sent[c][k]
      BY <1>0, <2>1, <2>5
    <3>2. NoneAdded(d, k)
      <4> HIDE DEF seg
      <4> QED
        BY <1>3, <1>4, <2>2, <2>3, <2>5
    <3> QED
      BY <1>5, <2>1, <3>1, <3>2
  <2> QED
    BY <2>4, <2>5
<1>8. ASSUME NEW e \in End, NEW j \in Keys, closeSession(e, j) PROVE Goal
  <2> DEFINE seg == Marker("FIN", j, sessions[e][j].next_send_seq)
  <2>1. /\ HasHandler(e, j) /\ sendSegment(e, seg)
        /\ sessions' = [sessions EXCEPT ![e][j] = NoSession]
        /\ sent' = sent /\ instances' = instances
    BY <1>8 DEF closeSession, history, HasHandler
  <2>2. seg \in Segment /\ seg.key = j
    <3>1. sessions[e][j].next_send_seq \in SeqNum
      BY <1>0, <2>1 DEF Session, HasHandler
    <3> QED
      BY <3>1, MarkerType DEF Marker
  <2>3. IF e = d THEN net'[d] = net[d] ELSE Grows(d, seg)
    <3> HIDE DEF seg
    <3> QED
      BY <1>2, <2>1, <2>2
  <2>4. CASE e # d /\ j = k
    <3>1. e = c /\ Grows(d, seg)
      BY <1>0, <2>3, <2>4
    <3>2. sessions'[c][k] = NoSession
      BY <1>0, <2>1, <2>4, <3>1
    <3> QED
      BY <2>1, <2>4, <3>1, <3>2 DEF Closed, HasHandler
  <2>5. CASE ~(e # d /\ j = k)
    <3>1. sessions'[c][k] = sessions[c][k]
      BY <1>0, <2>1, <2>5
    <3>2. NoneAdded(d, k)
      <4> HIDE DEF seg
      <4> QED
        BY <1>3, <1>4, <2>2, <2>3, <2>5
    <3> QED
      BY <1>5, <2>1, <3>1, <3>2
  <2> QED
    BY <2>4, <2>5
<1>9. ASSUME NEW e \in End, NEW l \in Links, net[e][l] # <<>>, Drop(e, l), onChannelBytes(e, l)
      PROVE  NoneAdded(d, k)
  <2>1. net' = [net EXCEPT ![e][l] = Tail(net[e][l])]
    BY <1>9 DEF Drop
  <2> QED
    BY <1>0, <1>9, <2>1 DEF NoneAdded
<1>10. ASSUME NEW e \in End, NEW l \in Links, ReceiveDuplicate(e, l) \/ ReceiveOutOfWindow(e, l)
       PROVE  Goal
  <2>1. /\ net[e][l] # <<>> /\ Drop(e, l) /\ onChannelBytes(e, l)
        /\ sessions' = sessions /\ instances' = instances /\ sent' = sent
    BY <1>10 DEF ReceiveDuplicate, ReceiveOutOfWindow, history, onChannelBytes
  <2> QED
    BY <1>5, <1>9, <2>1
<1>11. ASSUME NEW e \in End, NEW l \in Links, ReceiveSyn(e, l) PROVE Goal
  <2> DEFINE j == Head(net[e][l]).key
  <2>1. /\ net[e][l] # <<>> /\ Drop(e, l) /\ onChannelBytes(e, l) /\ sent' = sent
    BY <1>11 DEF ReceiveSyn, Accepts, onChannelBytes
  <2>2. NoneAdded(d, k) /\ j \in Keys
    <3>1. j \in Keys
      BY <1>0, <2>1, HeadType DEF Segment
    <3> QED
      BY <1>9, <2>1, <3>1
  <2>3. Idle(c, k)
    <3>1. CASE sessions[e][j] # NoSession
      <4>1. sessions' = sessions /\ instances' = instances
        BY <1>11, <3>1 DEF ReceiveSyn
      <4> QED
        BY <1>5, <2>1, <4>1
    <3>2. CASE sessions[e][j] = NoSession
      <4>1. /\ sessions' = [sessions EXCEPT ![e][j] = NewSession(unknown_cb(e))]
            /\ IF unknown_cb(e) THEN instances' = [instances EXCEPT ![e][j] = @ + 1]
                                ELSE instances' = instances
        BY <1>11, <3>2 DEF ReceiveSyn, NewHandler
      <4>2. CASE e = c /\ j = k
        <5>1. /\ sessions[c][k] = NoSession /\ sessions'[c][k] = NewSession(unknown_cb(c))
              /\ IF unknown_cb(c) THEN instances'[c][k] = instances[c][k] + 1
                                  ELSE instances'[c][k] = instances[c][k]
          <6> HIDE DEF j
          <6> QED
            BY <1>0, <3>2, <4>1, <4>2
        <5> QED
          <6>1. ~HasHandler(c, k)
            BY <5>1 DEF HasHandler
          <6>2. CASE c = "outport"
            BY <2>1, <5>1, <6>1, <6>2 DEF Idle, unknown_cb
          <6>3. CASE c # "outport"
            <7>1. ~NewSession(unknown_cb(c)).handler /\ instances'[c][k] = instances[c][k]
              BY <5>1, <6>3 DEF NewSession, unknown_cb
            <7>2. ~HasHandler(c, k)'
              BY <5>1, <7>1 DEF HasHandler
            <7> QED
              BY <2>1, <6>1, <7>1, <7>2 DEF Idle
          <6> QED
            BY <6>2, <6>3
      <4>3. CASE ~(e = c /\ j = k)
        <5>1. sessions'[c][k] = sessions[c][k] /\ instances'[c][k] = instances[c][k]
          <6>1. instances' = instances \/ instances' = [instances EXCEPT ![e][j] = @ + 1]
            BY <4>1
          <6>2. instances \in [End -> [Keys -> Nat]] /\ c \in End
            BY <1>0
          <6> HIDE DEF j, c
          <6>3. instances'[c][k] = instances[c][k]
            BY <2>2, <4>3, <6>1, <6>2
          <6>4. sessions'[c][k] = sessions[c][k]
            BY <1>0, <2>2, <4>1, <4>3
          <6> QED
            BY <6>3, <6>4
        <5> QED
          BY <1>5, <2>1, <5>1
      <4> QED
        BY <4>2, <4>3
    <3> QED
      BY <3>1, <3>2
  <2> QED
    BY <2>2, <2>3
<1>12. ASSUME NEW e \in End, NEW l \in Links, ReceiveData(e, l) PROVE Goal
  <2>0. PICK seg \in Segment, r \in Session, n \in 0..SeqMod : DataStep(e, l, seg, r, n)
    BY <1>12, ReceiveDataFacts
  <2>1. /\ net[e][l] # <<>> /\ Drop(e, l) /\ onChannelBytes(e, l) /\ sent' = sent
        /\ r = Emplace(Base(e, seg.key), seg)
        /\ sessions' = [sessions EXCEPT ![e][seg.key] = deliverInOrder(r, n)]
        /\ IF sessions[e][seg.key] = NoSession /\ r.handler
           THEN instances' = [instances EXCEPT ![e][seg.key] = @ + 1] ELSE instances' = instances
    BY <1>12, <2>0 DEF DataStep, NewHandler, onChannelBytes
  <2>2. NoneAdded(d, k) /\ seg.key \in Keys
    BY <1>9, <2>1 DEF Segment
  <2>3. CASE e = c /\ seg.key = k
    <3>1. /\ sessions'[c][k] = deliverInOrder(r, n)
          /\ IF sessions[c][k] = NoSession /\ r.handler
             THEN instances'[c][k] = instances[c][k] + 1 ELSE instances'[c][k] = instances[c][k]
      BY <1>0, <2>1, <2>3
    <3>2. Base(c, k) \in Session
      BY <1>0, BaseType
    <3>3. r.handler = Base(c, k).handler
      BY <2>1, <2>3, <3>2 DEF Emplace, Session
    <3>4. deliverInOrder(r, n).handler = r.handler
      BY DEF deliverInOrder, Session
    <3>5. sessions'[c][k] # NoSession \/ ~HasHandler(c, k)
      <4>1. deliverInOrder(r, n) \in Session
        BY DeliverType
      <4> QED
        BY <3>1, <4>1, SessionAssumption
    <3>6. CASE sessions[c][k] = NoSession
      <4>1. r.handler => c = "outport"
        BY <3>3, <3>6 DEF Base, NewSession, unknown_cb
      <4>2. ~HasHandler(c, k) /\ sent'[c][k] = sent[c][k]
        BY <2>1, <3>6 DEF HasHandler
      <4>3. CASE r.handler
        BY <2>2, <3>1, <3>6, <4>1, <4>2, <4>3 DEF Idle
      <4>4. CASE ~r.handler
        <5>1. ~HasHandler(c, k)' /\ instances'[c][k] = instances[c][k]
          BY <3>1, <3>4, <4>4 DEF HasHandler
        <5> QED
          BY <2>2, <4>2, <5>1 DEF Idle
      <4> QED
        BY <4>3, <4>4
    <3>7. CASE sessions[c][k] # NoSession
      <4>1. r.handler = sessions[c][k].handler
        BY <3>3, <3>7 DEF Base
      <4>2. HasHandler(c, k)' <=> HasHandler(c, k)
        <5>1. sessions'[c][k].handler = sessions[c][k].handler
          BY <3>1, <3>4, <4>1
        <5> QED
          BY <3>5, <3>7, <5>1 DEF HasHandler
      <4>3. instances'[c][k] = instances[c][k] /\ sent'[c][k] = sent[c][k]
        BY <2>1, <3>1, <3>7
      <4> QED
        BY <2>2, <4>2, <4>3 DEF Idle
    <3> QED
      BY <3>6, <3>7
  <2>4. CASE ~(e = c /\ seg.key = k)
    <3>1. sessions'[c][k] = sessions[c][k] /\ instances'[c][k] = instances[c][k]
      <4>1. instances' = instances \/ instances' = [instances EXCEPT ![e][seg.key] = @ + 1]
        BY <2>1
      <4>2. instances \in [End -> [Keys -> Nat]] /\ c \in End
        BY <1>0
      <4> HIDE DEF c
      <4>3. instances'[c][k] = instances[c][k]
        BY <2>2, <2>4, <4>1, <4>2
      <4>4. sessions'[c][k] = sessions[c][k]
        BY <1>0, <2>1, <2>2, <2>4
      <4> QED
        BY <4>3, <4>4
    <3> QED
      BY <1>5, <2>1, <2>2, <3>1
  <2> QED
    BY <2>3, <2>4
<1>13. ASSUME NEW e \in End, NEW l \in Links, ReceiveFin(e, l) PROVE Goal
  <2> DEFINE j == Head(net[e][l]).key
             s == sessions[e][j]
             seg == Marker("FIN", j, s.next_send_seq)
  <2>1. /\ net[e][l] # <<>> /\ onChannelBytes(e, l) /\ sent' = sent /\ instances' = instances
        /\ sessions' = [sessions EXCEPT ![e][j] = NoSession]
    BY <1>13 DEF ReceiveFin, Accepts, onChannelBytes
  <2>2. j \in Keys
    BY <1>0, <2>1, HeadType DEF Segment
  <2>3. CASE ~(s # NoSession /\ s.handler)
    <3>1. Drop(e, l)
      BY <1>13, <2>3 DEF ReceiveFin
    <3>2. NoneAdded(d, k)
      BY <1>9, <2>1, <3>1
    <3>3. Idle(c, k)
      <4>1. CASE e = c /\ j = k
        <5>1. ~HasHandler(c, k)
          BY <2>3, <4>1 DEF HasHandler
        <5>2. sessions'[c][k] = NoSession
          <6> HIDE DEF j
          <6> QED
            BY <1>0, <2>1, <4>1
        <5> QED
          BY <2>1, <5>1, <5>2 DEF Idle, HasHandler
      <4>2. CASE ~(e = c /\ j = k)
        <5>1. sessions'[c][k] = sessions[c][k]
          <6> HIDE DEF j
          <6> QED
            BY <1>0, <2>1, <2>2, <4>2
        <5> QED
          BY <1>5, <2>1, <5>1
      <4> QED
        BY <4>1, <4>2
    <3> QED
      BY <3>2, <3>3
  <2>4. CASE s # NoSession /\ s.handler
    <3>1. PICK S \in Selections(e) :
             net' = [net EXCEPT ![e][l] = Tail(@), ![Peer(e)] = WithCopies(e, S, seg)]
      BY <1>13, <2>4 DEF ReceiveFin
    <3>2. seg \in Segment /\ seg.key = j
      <4>1. s.next_send_seq \in SeqNum
        <5>1. s \in Session
          BY <1>0, <2>2, <2>4
        <5> QED
          BY <5>1 DEF Session
      <4> QED
        BY <2>2, <4>1, MarkerType DEF Marker
    <3>3. CASE e = d
      <4>1. net'[d] = [net[d] EXCEPT ![l] = Tail(net[d][l])] /\ Peer(e) # e
        BY <1>0, <3>1, <3>3, PeerType
      <4>2. NoneAdded(d, k)
        BY <1>0, <2>1, <3>3, <4>1 DEF NoneAdded
      <4>3. sessions'[c][k] = sessions[c][k]
        BY <1>0, <2>1, <3>3
      <4> QED
        BY <1>5, <2>1, <4>2, <4>3
    <3>4. CASE e # d
      <4>1. e = c /\ Peer(e) = d
        BY <1>0, <3>4
      <4>2. net'[d] = WithCopies(e, S, seg)
        BY <1>0, <3>1, <4>1
      <4>3. Grows(d, seg)
        <5> HIDE DEF seg
        <5>1. \A m \in Links : WithCopies(e, S, seg)[m] = Append(net[d][m], seg)
          BY <4>1, CopiedToAll
        <5> QED
          BY <4>2, <5>1 DEF Grows
      <4>4. CASE j = k
        <5>1. HasHandler(c, k) /\ s = sessions[c][k]
          BY <2>4, <4>1, <4>4 DEF HasHandler
        <5>2. sessions'[c][k] = NoSession
          <6> HIDE DEF j
          <6> QED
            BY <1>0, <2>1, <4>1, <4>4
        <5> QED
          BY <2>1, <4>3, <4>4, <5>1, <5>2 DEF Closed, HasHandler
      <4>5. CASE j # k
        <5>1. sessions'[c][k] = sessions[c][k]
          <6> HIDE DEF j
          <6> QED
            BY <1>0, <2>1, <2>2, <4>5
        <5>2. NoneAdded(d, k)
          <6> HIDE DEF seg, j
          <6> QED
            BY <1>4, <3>2, <4>3, <4>5
        <5> QED
          BY <1>5, <2>1, <5>1, <5>2
      <4> QED
        BY <4>4, <4>5
    <3> QED
      BY <3>3, <3>4
  <2> QED
    BY <2>3, <2>4
<1>14. ASSUME NEW e \in End, NEW l \in Links, LinkDown(e, l) \/ LinkDownNoticed(e, l) PROVE FALSE
  BY <1>14, PeerType DEF LinkDown, LinkDownNoticed, Lossless, TypeOK, AllUp
<1>15. ASSUME NEW l \in Links, LinkUp(l) PROVE FALSE
  BY <1>15 DEF LinkUp, AllUp, End
<1>16. ASSUME UNCHANGED vars PROVE Goal
  BY <1>3, <1>5, <1>16 DEF vars
<1> QED
  BY <1>6, <1>7, <1>8, <1>10, <1>11, <1>12, <1>13, <1>14, <1>15, <1>16 DEF Next, onChannelBytes

(* y may come after x on a link, when both are of one session. *)
Follows(x, y) ==
    /\ x.kind # "FIN" /\ y.kind # "SYN"
    /\ (x.kind = "DATA" /\ y.kind = "DATA") => x.seq < y.seq

(* On queue q session k is first SYN, then DATA in ascending order, then    *)
(* FIN.                                                                     *)
Ordered(q, k) ==
    \A i, j \in 1..Len(q) : (i < j /\ q[i].key = k /\ q[j].key = k) => Follows(q[i], q[j])

(* A queue without its first segment. *)
LEMMA TailFacts ==
    ASSUME NEW q \in Seq(Segment), q # <<>>
    PROVE  /\ Tail(q) \in Seq(Segment)
           /\ Len(Tail(q)) \in Nat /\ Len(q) \in Nat /\ Len(Tail(q)) = Len(q) - 1
           /\ \A i \in 1..Len(Tail(q)) : Tail(q)[i] = q[i + 1] /\ i + 1 \in 1..Len(q)
           /\ 1 \in 1..Len(q) /\ q[1] = Head(q) /\ Head(q) \in Segment
OBVIOUS

(* A queue with one more segment. *)
LEMMA AppendFacts ==
    ASSUME NEW q \in Seq(Segment), NEW x \in Segment
    PROVE  /\ Append(q, x) \in Seq(Segment)
           /\ Len(q) \in Nat /\ Len(Append(q, x)) = Len(q) + 1
           /\ \A i \in 1..Len(q) : Append(q, x)[i] = q[i]
           /\ Append(q, x)[Len(q) + 1] = x
OBVIOUS

(* Reading keeps the order. *)
LEMMA TailOrdered ==
    ASSUME NEW q \in Seq(Segment), q # <<>>, NEW k, Ordered(q, k)
    PROVE  Ordered(Tail(q), k)
<1> SUFFICES ASSUME NEW i \in 1..Len(Tail(q)), NEW j \in 1..Len(Tail(q)), i < j,
                    Tail(q)[i].key = k, Tail(q)[j].key = k
             PROVE  Follows(Tail(q)[i], Tail(q)[j])
  BY DEF Ordered
<1>1. /\ Tail(q)[i] = q[i + 1] /\ i + 1 \in 1..Len(q)
      /\ Tail(q)[j] = q[j + 1] /\ j + 1 \in 1..Len(q) /\ i + 1 < j + 1
  BY TailFacts
<1> QED
  BY <1>1 DEF Ordered

(* Sending keeps it when the new segment may follow the others. *)
LEMMA AppendOrdered ==
    ASSUME NEW q \in Seq(Segment), NEW x \in Segment, NEW k, Ordered(q, k),
           \A y \in Segment : (x.key = k /\ OnLink(q, y) /\ y.key = k) => Follows(y, x)
    PROVE  Ordered(Append(q, x), k)
<1> DEFINE a == Append(q, x)
<1> SUFFICES ASSUME NEW i \in 1..Len(a), NEW j \in 1..Len(a), i < j, a[i].key = k, a[j].key = k
             PROVE  Follows(a[i], a[j])
  BY DEF Ordered
<1>1. i \in 1..Len(q) /\ a[i] = q[i] /\ (j \in 1..Len(q) \/ j = Len(q) + 1)
  BY AppendFacts
<1>2. CASE j \in 1..Len(q)
  <2>1. a[j] = q[j]
    BY <1>2, AppendFacts
  <2> HIDE DEF a
  <2> QED
    BY <1>1, <1>2, <2>1 DEF Ordered
<1>3. CASE j = Len(q) + 1
  <2>1. a[j] = x
    BY <1>3, AppendFacts
  <2>2. q[i] \in Segment /\ OnLink(q, q[i])
    BY <1>1 DEF OnLink
  <2> HIDE DEF a
  <2> QED
    BY <1>1, <2>1, <2>2
<1> QED
  BY <1>1, <1>2, <1>3

(* Nothing of a session comes after its FIN, nothing but FIN and higher     *)
(* numbers after DATA, and no SYN after anything.                           *)
LEMMA HeadFirst ==
    ASSUME NEW q \in Seq(Segment), q # <<>>, Ordered(q, Head(q).key),
           NEW x \in Segment, OnLink(q, x), x.key = Head(q).key
    PROVE  x = Head(q) \/ Follows(Head(q), x)
<1>1. PICK i \in 1..Len(q) : q[i] = x
  BY DEF OnLink
<1>2. 1 \in 1..Len(q) /\ q[1] = Head(q)
  BY TailFacts
<1>3. CASE i = 1
  BY <1>1, <1>2, <1>3
<1>4. CASE i # 1
  BY <1>1, <1>2, <1>4 DEF Ordered
<1> QED
  BY <1>3, <1>4

(* Reading takes the first segment and no other. *)
LEMMA TailOnLink ==
    ASSUME NEW q \in Seq(Segment), q # <<>>, NEW x
    PROVE  /\ OnLink(Tail(q), x) => OnLink(q, x)
           /\ OnLink(q, x) => x = Head(q) \/ OnLink(Tail(q), x)
<1>1. OnLink(Tail(q), x) => OnLink(q, x)
  BY TailFacts DEF OnLink
<1>2. ASSUME OnLink(q, x) PROVE x = Head(q) \/ OnLink(Tail(q), x)
  <2>1. PICK i \in 1..Len(q) : q[i] = x
    BY <1>2 DEF OnLink
  <2>2. CASE i = 1
    BY <2>1, <2>2
  <2>3. CASE i # 1
    <3>1. i - 1 \in 1..Len(Tail(q)) /\ (i - 1) + 1 = i
      BY <2>1, <2>3, TailFacts
    <3>2. Tail(q)[i - 1] = q[i]
      BY <3>1, TailFacts
    <3> QED
      BY <2>1, <3>1, <3>2 DEF OnLink
  <2> QED
    BY <2>2, <2>3
<1> QED
  BY <1>1, <1>2

(* Sending adds a segment and takes none. *)
LEMMA StillOnLink ==
    ASSUME NEW q \in Seq(Segment), NEW x \in Segment, NEW y
    PROVE  OnLink(Append(q, x), x) /\ (OnLink(q, y) => OnLink(Append(q, x), y))
<1>1. Len(q) \in Nat /\ Len(Append(q, x)) = Len(q) + 1 /\ Append(q, x)[Len(q) + 1] = x
      /\ \A i \in 1..Len(q) : Append(q, x)[i] = q[i]
  BY AppendFacts
<1>2. Len(q) + 1 \in 1..Len(Append(q, x)) /\ \A i \in 1..Len(q) : i \in 1..Len(Append(q, x))
  BY <1>1
<1> QED
  BY <1>1, <1>2 DEF OnLink

(* The order of session k on the links to end d, as its one sender made it. *)
OrderAt(d, k) ==
    \A l \in Links :
        /\ Ordered(net[d][l], k)
        /\ \A x \in Segment : (OnLink(net[d][l], x) /\ x.key = k) =>
              /\ instances[Peer(d)][k] # 0
              /\ x.kind = "FIN" => ~HasHandler(Peer(d), k)

(* One opening per session, and the order of every stream with one sender. *)
OrderInv ==
    /\ \A k \in Keys : instances["inport"][k] <= 1
    /\ \A d \in End, k \in Keys : instances[Peer(d)][k] <= 1 => OrderAt(d, k)

(* The number of the next DATA of a session's only sender. *)
LEMMA NextNumber ==
    ASSUME BaseInv, NEW c \in End, NEW k \in Keys, NEW p \in Payloads, sendSessionData(c, k, p),
           instances[c][k] <= 1
    PROVE  sessions[c][k].next_send_seq = Len(sent[c][k])
<1>1. HasHandler(c, k) /\ (c = "outport" => handed[c][k] # <<>>)
  BY DEF sendSessionData, HasHandler
<1>2. CASE c = "inport"
  BY <1>1, <1>2 DEF BaseInv, StreamInv, HasHandler
<1>3. CASE c = "outport"
  <2>1. BackAt(k)
    BY <1>3 DEF BaseInv, BackInv, OneStream
  <2> QED
    BY <1>1, <1>3, <2>1 DEF BackAt
<1> QED
  BY <1>2, <1>3 DEF End

(* OrderInv is inductive while no link is lost. *)
LEMMA OrderStep ==
    ASSUME Lossless, BaseInv, TypeOK', AllUp, OrderInv, [Next]_vars
    PROVE  OrderInv'
<1>0. TypeOK /\ NumbersInv /\ PoisonInv /\ "inport" \in End /\ "outport" \in End
  BY DEF BaseInv, End
<1>1. ASSUME NEW d \in End, NEW k \in Keys, instances'[Peer(d)][k] <= 1 PROVE OrderAt(d, k)'
  <2> DEFINE c == Peer(d)
             i == instances[c][k]
             i2 == instances'[c][k]
  <2>0. c \in End /\ i \in Nat /\ i2 \in Nat /\ net \in [End -> [Links -> Seq(Segment)]]
    <3>1. c \in End
      BY PeerType
    <3> HIDE DEF c
    <3> QED
      BY <1>0, <3>1 DEF TypeOK
  <2>a. HasHandler(c, k) => i # 0
    BY <1>0, <2>0 DEF PoisonInv, HasHandler
  <2> SUFFICES ASSUME NEW l \in Links
               PROVE  /\ Ordered(net'[d][l], k)
                      /\ \A x \in Segment : (OnLink(net'[d][l], x) /\ x.key = k) =>
                            i2 # 0 /\ (x.kind = "FIN" => ~HasHandler(c, k)')
    BY DEF OrderAt
  <2> DEFINE q == net[d][l]
             Goal == /\ Ordered(net'[d][l], k)
                     /\ \A x \in Segment : (OnLink(net'[d][l], x) /\ x.key = k) =>
                            i2 # 0 /\ (x.kind = "FIN" => ~HasHandler(c, k)')
  <2>1. q \in Seq(Segment)
    BY <2>0
  <2>2. i <= 1 => /\ Ordered(q, k)
                  /\ \A x \in Segment : (OnLink(q, x) /\ x.key = k) =>
                        i # 0 /\ (x.kind = "FIN" => ~HasHandler(c, k))
    BY <1>1 DEF OrderInv, OrderAt
  <2>3. CASE NoneAdded(d, k) /\ Idle(c, k)
    <3>1. i <= 1 /\ (i2 = i \/ i = 0)
      BY <1>1, <2>0, <2>3 DEF Idle
    <3>2. ASSUME NEW x \in Segment, OnLink(q, x), x.key = k
          PROVE  i2 # 0 /\ (x.kind = "FIN" => ~HasHandler(c, k)')
      <4>1. i # 0 /\ i2 = i /\ (x.kind = "FIN" => ~HasHandler(c, k))
        BY <2>2, <3>1, <3>2
      <4>2. HasHandler(c, k)' => HasHandler(c, k)
        BY <2>0, <2>3, <4>1 DEF Idle
      <4> QED
        BY <4>1, <4>2
    <3>3. CASE net'[d][l] = q
      BY <2>2, <3>1, <3>2, <3>3
    <3>4. CASE q # <<>> /\ net'[d][l] = Tail(q)
      <4>1. Ordered(Tail(q), k)
        BY <2>1, <2>2, <3>1, <3>4, TailOrdered
      <4>2. ASSUME NEW x, OnLink(Tail(q), x) PROVE OnLink(q, x)
        BY <2>1, <3>4, <4>2, TailOnLink
      <4> QED
        BY <3>2, <3>4, <4>1, <4>2
    <3>5. ASSUME NEW y \in Segment, y.key # k, net'[d][l] = Append(q, y) PROVE Goal
      <4>1. Ordered(Append(q, y), k)
        BY <2>1, <2>2, <3>1, <3>5, AppendOrdered
      <4>2. ASSUME NEW x \in Segment, OnLink(Append(q, y), x), x.key = k PROVE OnLink(q, x)
        BY <2>1, <3>5, <4>2, AppendOnLink
      <4> QED
        BY <3>2, <3>5, <4>1, <4>2
    <3> QED
      BY <2>3, <3>3, <3>4, <3>5 DEF NoneAdded
  <2>4. ASSUME NEW y \in Segment, y.key = k, Grows(d, y), i <= 1, i2 # 0,
               \A x \in Segment : (OnLink(q, x) /\ x.key = k) => Follows(x, y),
               (y.kind = "FIN" \/ \E x \in Segment : OnLink(q, x) /\ x.key = k /\ x.kind = "FIN") => ~HasHandler(c, k)'
        PROVE  Goal
    <3>1. net'[d][l] = Append(q, y)
      BY <2>4 DEF Grows
    <3>2. Ordered(Append(q, y), k)
      BY <2>1, <2>2, <2>4, AppendOrdered
    <3>3. ASSUME NEW x \in Segment, OnLink(Append(q, y), x), x.key = k PROVE OnLink(q, x) \/ x = y
      BY <2>1, <3>3, AppendOnLink
    <3> QED
      BY <2>4, <3>1, <3>2, <3>3
  <2>5. CASE Opened(d, k)
    <3> DEFINE y == Marker("SYN", k, 0)
    <3>1. y \in Segment /\ y.key = k /\ y.kind = "SYN"
      BY MarkerType, WindowAssumption DEF SeqNum, Marker
    <3>2. i = 0 /\ i2 = 1 /\ Grows(d, y)
      BY <2>5 DEF Opened, Peer
    <3>3. ASSUME NEW x \in Segment, OnLink(q, x), x.key = k PROVE FALSE
      BY <2>2, <3>2, <3>3
    <3> HIDE DEF y, q, i, i2
    <3> QED
      BY <2>4, <3>1, <3>2, <3>3
  <2>6. ASSUME NEW p \in Payloads, Wrote(d, k, p) PROVE Goal
    <3> DEFINE y == [kind |-> "DATA", key |-> k, seq |-> sessions[c][k].next_send_seq, payload |-> p]
    <3>1. sendSessionData(c, k, p) /\ Grows(d, y)
      BY <2>6 DEF Wrote
    <3>2. HasHandler(c, k) /\ instances' = instances
      BY <3>1 DEF sendSessionData, HasHandler
    <3>3. y \in Segment /\ y.key = k /\ y.kind = "DATA" /\ y.seq = sessions[c][k].next_send_seq
      <4>1. sessions[c][k] \in Session
        BY <1>0, <2>0, <3>2 DEF TypeOK, HasHandler
      <4>2. sessions[c][k].next_send_seq \in SeqNum
        BY <4>1 DEF Session
      <4> QED
        BY <4>2 DEF Segment, Slot
    <3>4. i <= 1 /\ i2 # 0
      BY <1>1, <2>a, <3>2
    <3>5. y.seq = Len(sent[c][k])
      BY <2>0, <3>1, <3>3, <3>4, NextNumber
    <3>6. ASSUME NEW x \in Segment, OnLink(q, x), x.key = k PROVE x.kind # "FIN" /\ Follows(x, y)
      <4>1. x.kind # "FIN"
        BY <2>2, <3>2, <3>4, <3>6
      <4>2. x.kind = "DATA" => x.seq < y.seq
        BY <1>0, <3>5, <3>6 DEF NumbersInv
      <4> QED
        BY <3>3, <4>1, <4>2 DEF Follows
    <3> HIDE DEF y, q, i, i2
    <3> QED
      BY <2>4, <3>1, <3>3, <3>4, <3>6
  <2>7. CASE Closed(d, k)
    <3> DEFINE y == Marker("FIN", k, sessions[c][k].next_send_seq)
    <3>1. /\ HasHandler(c, k) /\ ~HasHandler(c, k)' /\ Grows(d, y) /\ i2 = i
      BY <2>7 DEF Closed
    <3>2. y \in Segment /\ y.key = k /\ y.kind = "FIN"
      <4>1. sessions[c][k] \in Session
        BY <1>0, <2>0, <3>1 DEF TypeOK, HasHandler
      <4>2. sessions[c][k].next_send_seq \in SeqNum
        BY <4>1 DEF Session
      <4> QED
        BY <4>2, MarkerType DEF Marker
    <3>3. i <= 1 /\ i2 # 0
      BY <1>1, <2>a, <3>1
    <3>4. ASSUME NEW x \in Segment, OnLink(q, x), x.key = k PROVE Follows(x, y)
      <4>1. x.kind # "FIN"
        BY <2>2, <3>1, <3>3, <3>4
      <4> QED
        BY <3>2, <4>1 DEF Follows
    <3> HIDE DEF y, q, i, i2
    <3> QED
      BY <2>4, <3>1, <3>2, <3>3, <3>4
  <2>8. Goal
    BY <1>0, <2>3, <2>5, <2>6, <2>7, PathStep
  <2> QED
    BY <2>8
<1>2. ASSUME NEW k \in Keys PROVE instances'["inport"][k] <= 1
  <2>1. instances["inport"][k] <= 1 /\ Peer("outport") = "inport" /\ instances["inport"][k] \in Nat
    BY <1>0 DEF OrderInv, Peer, TypeOK
  <2>2. CASE Idle("inport", k)
    BY <2>1, <2>2 DEF Idle
  <2>3. CASE Opened("outport", k)
    BY <2>3 DEF Opened
  <2>4. ASSUME NEW p \in Payloads, Wrote("outport", k, p) PROVE instances' = instances
    BY <2>4 DEF Wrote, sendSessionData
  <2>5. CASE Closed("outport", k)
    BY <2>1, <2>5 DEF Closed
  <2> QED
    BY <1>0, <2>1, <2>2, <2>3, <2>4, <2>5, PathStep
<1> QED
  BY <1>1, <1>2 DEF OrderInv

-----------------------------------------------------------------------------
(* The end of a stream after its data, when every segment takes every link. *)

(* The dedup key of the SYN of session k. *)
SynKey(k) == [kind |-> "SYN", key |-> k, seq |-> 0]

(* Queue q holds the segment of this kind, session and number. *)
Carries(q, kind, k, n) ==
    \E x \in Segment : OnLink(q, x) /\ x.kind = kind /\ x.key = k /\ x.seq = n

(* What the handler of session k at end d still lacks is on every link. *)
CompleteAt(d, k) ==
    HasHandler(d, k) =>
        \A l \in Links, n \in SeqNum : n < Len(sent[Peer(d)][k]) =>
            n < sessions[d][k].expected_rx_seq \/ Carries(net[d][l], "DATA", k, n)

(* Before the first relay of a session everything of it is on every link,   *)
(* its SYN too.                                                             *)
UnreadAt(k) ==
    /\ SynKey(k) \notin Recorded(dedup["outport"])
    /\ instances["inport"][k] # 0 =>
          \A l \in Links :
              /\ Carries(net["outport"][l], "SYN", k, 0)
              /\ \A n \in SeqNum : n < Len(sent["inport"][k]) => Carries(net["outport"][l], "DATA", k, n)

(* The two for every session that was not started again. *)
CompleteInv ==
    /\ \A k \in Keys : instances["outport"][k] = 0 => UnreadAt(k)
    /\ \A d \in End, k \in Keys :
          (instances[d][k] <= 1 /\ instances[Peer(d)][k] <= 1) => CompleteAt(d, k)

(* A step attaches at most one handler to a session at an end. *)
LEMMA InstancesGrow ==
    ASSUME TypeOK, [Next]_vars, NEW e \in End, NEW k \in Keys
    PROVE  /\ instances[e][k] \in Nat
           /\ instances'[e][k] = instances[e][k] \/ instances'[e][k] = instances[e][k] + 1
<1>1. instances[e][k] \in Nat
  BY DEF TypeOK
<1>2. CASE Kept(e, k) \/ Attached(e, k)
  BY <1>1, <1>2 DEF Kept, Attached
<1>3. ASSUME NEW seg \in Segment, NEW r \in Session, NEW n \in 0..SeqMod, DataRead(e, k, seg, r, n)
      PROVE  instances'[e][k] = instances[e][k] \/ instances'[e][k] = instances[e][k] + 1
  BY <1>3 DEF DataRead
<1> QED
  BY <1>1, <1>2, <1>3, HandlerStep

(* The streams one end may write, in numbers. *)
LEMMA SentBound ==
    ASSUME NoWrap, TypeOK, NumbersInv, NEW e \in End, NEW k \in Keys
    PROVE  Len(sent[e][k]) \in Nat /\ Len(sent[e][k]) + RecvWindow <= SeqMod
<1>1. sent[e][k] \in Seq(Payloads)
  BY DEF TypeOK
<1>2. Len(sent[e][k]) <= MaxSegs[e] /\ MaxSegs[e] + RecvWindow <= SeqMod /\ MaxSegs[e] \in Nat
  BY BoundsAssumption DEF NumbersInv, NoWrap
<1> QED
  BY <1>1, <1>2, WindowAssumption

(* A handler that stays never expects less than before. *)
LEMMA ExpectedGrows ==
    ASSUME NoWrap, TypeOK, NumbersInv, [Next]_vars, NEW d \in End, NEW k \in Keys,
           HasHandler(d, k), HasHandler(d, k)', instances'[d][k] = instances[d][k]
    PROVE  /\ sessions[d][k].expected_rx_seq \in Nat /\ sessions'[d][k].expected_rx_seq \in Nat
           /\ sessions[d][k].expected_rx_seq <= sessions'[d][k].expected_rx_seq
<1> DEFINE s == sessions[d][k]
           t == sessions'[d][k]
           own == Len(sent[d][k])
           peer == Len(sent[Peer(d)][k])
<1>0. /\ s \in Session /\ s # NoSession /\ t # NoSession /\ t.handler /\ instances[d][k] \in Nat
      /\ s.expected_rx_seq \in Nat
  <2>1. s \in Session /\ s # NoSession /\ t # NoSession /\ t.handler /\ instances[d][k] \in Nat
    BY DEF TypeOK, HasHandler
  <2> QED
    BY <2>1, WindowAssumption DEF Session, SeqNum
<1>1. CASE Kept(d, k)
  <2>1. CASE t = NewSession(FALSE)
    BY <1>0, <2>1 DEF NewSession
  <2>2. CASE t = s
    BY <1>0, <2>2
  <2>3. CASE t = [s EXCEPT !.next_send_seq = Plus(s.next_send_seq, 1)]
    BY <1>0, <2>3 DEF Session
  <2> QED
    BY <1>0, <1>1, <2>1, <2>2, <2>3 DEF Kept
<1>2. CASE Attached(d, k)
  BY <1>0, <1>2 DEF Attached
<1>3. ASSUME NEW seg \in Segment, NEW r \in Session, NEW n \in 0..SeqMod, DataRead(d, k, seg, r, n)
      PROVE  t.expected_rx_seq \in Nat /\ s.expected_rx_seq <= t.expected_rx_seq
  <2>1. PICK l \in Links : net[d][l] # <<>> /\ seg = Head(net[d][l])
    BY <1>3 DEF DataRead
  <2>2. /\ seg.kind = "DATA" /\ seg.key = k /\ Rel(seg.seq, Expected(d, k)) < RecvWindow
        /\ r = Emplace(Base(d, k), seg) /\ RunLength(r, n) /\ t = deliverInOrder(r, n)
    BY <1>3 DEF DataRead
  <2>3. Base(d, k) = s /\ Expected(d, k) = s.expected_rx_seq
    BY <1>0 DEF Base, Expected
  <2>4. own \in Nat /\ peer \in Nat /\ peer + RecvWindow <= SeqMod
    BY SentBound, PeerType
  <2>5. InRange(s, own, peer)
    BY <1>0 DEF NumbersInv
  <2>6. seg.seq < peer
    <3>1. net[d][l] \in Seq(Segment)
      BY DEF TypeOK
    <3>2. OnLink(net[d][l], seg)
      BY <2>1, <3>1, HeadOnLink
    <3> QED
      BY <2>2, <3>2 DEF NumbersInv
  <2>7. r = Emplace(s, seg) /\ Rel(seg.seq, s.expected_rx_seq) < RecvWindow
    BY <2>2, <2>3
  <2> HIDE DEF s, own, peer
  <2>8. InRange(r, own, peer)
    BY <1>0, <2>4, <2>5, <2>6, <2>7, EmplaceInRange
  <2>9. deliverInOrder(r, n).expected_rx_seq = r.expected_rx_seq + n
    BY <2>2, <2>4, <2>8, DeliverNumbers
  <2>10. r.expected_rx_seq = s.expected_rx_seq
    BY <1>0, <2>7 DEF Emplace, Session
  <2>11. n \in Nat
    BY WindowAssumption
  <2> QED
    BY <1>0, <2>2, <2>9, <2>10, <2>11
<1> QED
  BY <1>0, <1>1, <1>2, <1>3, HandlerStep

(* DATA that comes first on its link is what its handler waits for, or      *)
(* older: once it is read, the handler has been given it.                   *)
LEMMA ReadDelivers ==
    ASSUME NoWrap, BaseInv, [Next]_vars, NEW d \in End, NEW k \in Keys, NEW l \in Links,
           OrderAt(d, k), CompleteAt(d, k), instances[d][k] <= 1, instances'[d][k] = instances[d][k],
           onChannelBytes(d, l), net[d][l] # <<>>,
           Head(net[d][l]).kind = "DATA", Head(net[d][l]).key = k,
           HasHandler(d, k), HasHandler(d, k)'
    PROVE  Head(net[d][l]).seq < sessions'[d][k].expected_rx_seq
<1> DEFINE q == net[d][l]
           y == Head(q)
           s == sessions[d][k]
           t == sessions'[d][k]
           own == Len(sent[d][k])
           peer == Len(sent[Peer(d)][k])
<1>0. TypeOK /\ NumbersInv /\ PoisonInv
  BY DEF BaseInv
<1>1. /\ s \in Session /\ s # NoSession /\ s.handler /\ t # NoSession /\ t.handler
      /\ s.expected_rx_seq \in Nat /\ s.expected_rx_seq \in SeqNum
  <2>1. s \in Session /\ s # NoSession /\ s.handler /\ t # NoSession /\ t.handler
    BY <1>0 DEF TypeOK, HasHandler
  <2> QED
    BY <2>1, WindowAssumption DEF Session, SeqNum
<1>2. q \in Seq(Segment) /\ y \in Segment /\ OnLink(q, y) /\ y.seq \in SeqNum /\ y.seq \in Nat
  <2>1. q \in Seq(Segment)
    BY <1>0 DEF TypeOK
  <2>2. y \in Segment /\ OnLink(q, y)
    BY <2>1, HeadOnLink
  <2> QED
    BY <2>1, <2>2 DEF Segment, SeqNum
<1>3. own \in Nat /\ peer \in Nat /\ peer + RecvWindow <= SeqMod /\ y.seq < peer
  <2>1. y.seq < peer
    BY <1>0, <1>2 DEF NumbersInv
  <2> QED
    BY <1>0, <2>1, SentBound, PeerType
<1>4. y.seq <= s.expected_rx_seq
  <2> SUFFICES ASSUME y.seq > s.expected_rx_seq PROVE FALSE
    BY <1>1, <1>2
  <2>1. s.expected_rx_seq < peer
    BY <1>1, <1>2, <1>3
  <2>2. Carries(q, "DATA", k, s.expected_rx_seq)
    BY <1>1, <2>1 DEF CompleteAt
  <2>3. PICK z \in Segment : OnLink(q, z) /\ z.kind = "DATA" /\ z.key = k /\ z.seq = s.expected_rx_seq
    BY <2>2 DEF Carries
  <2>4. Ordered(q, k)
    BY DEF OrderAt
  <2>5. z = y \/ Follows(y, z)
    <3>1. q # <<>> /\ Head(q).key = k
      OBVIOUS
    <3> HIDE DEF q
    <3> QED
      BY <1>2, <2>3, <2>4, <3>1, HeadFirst
  <2> QED
    BY <1>1, <1>2, <2>3, <2>5 DEF Follows
<1>5. /\ t.expected_rx_seq \in Nat /\ s.expected_rx_seq <= t.expected_rx_seq
  BY <1>0, ExpectedGrows
<1>6. SUFFICES ASSUME y.seq = s.expected_rx_seq PROVE y.seq < t.expected_rx_seq
  BY <1>1, <1>2, <1>4, <1>5
<1>7. /\ s.rx_buffer[y.seq] = NoPayload
      /\ InRange(s, own, peer)
      /\ s.expected_rx_seq = Len(handed[d][k]) /\ instances[d][k] # 0
      /\ y.payload \in Payloads
  <2>1. InRange(s, own, peer) /\ Waiting(s)
    BY <1>0, <1>1 DEF NumbersInv
  <2>2. s.expected_rx_seq = Len(handed[d][k]) /\ instances[d][k] # 0
    BY <1>0, <1>1 DEF PoisonInv
  <2>3. y.payload \in Payloads
    BY <1>0, <1>2 DEF PoisonInv
  <2> QED
    BY <1>1, <1>6, <2>1, <2>2, <2>3 DEF Waiting
<1>8. CASE ReceiveDuplicate(d, l)
  <2>1. DedupKey(y) \in Recorded(dedup[d])
    BY <1>8 DEF ReceiveDuplicate, Fresh
  <2>2. DedupKey(y).kind = "DATA" /\ DedupKey(y).key = k /\ DedupKey(y).seq = y.seq
    BY DEF DedupKey
  <2>3. instances[d][k] = 1
    <3>1. instances[d][k] \in Nat
      BY <1>0 DEF TypeOK
    <3> QED
      BY <1>7, <3>1
  <2>4. NotPoisoned
    BY <1>0 DEF PoisonInv
  <2>5. y.seq < Len(handed[d][k]) \/ s.rx_buffer[y.seq] # NoPayload
    BY <1>1, <2>1, <2>2, <2>3, <2>4 DEF NotPoisoned
  <2> QED
    BY <1>1, <1>6, <1>7, <2>5
<1>9. CASE ReceiveOutOfWindow(d, l)
  <2>1. ~(Rel(y.seq, Expected(d, k)) < RecvWindow)
    BY <1>9 DEF ReceiveOutOfWindow, InWindow
  <2>2. Expected(d, k) = y.seq
    BY <1>1, <1>6 DEF Expected
  <2> QED
    BY <1>2, <2>1, <2>2, WindowAssumption DEF Rel
<1>10. CASE ReceiveSyn(d, l) \/ ReceiveFin(d, l)
  BY <1>10 DEF ReceiveSyn, ReceiveFin, Accepts
<1>11. CASE ReceiveData(d, l)
  <2>0. PICK seg \in Segment, r \in Session, n \in 0..SeqMod : DataStep(d, l, seg, r, n)
    BY <1>0, <1>11, ReceiveDataFacts
  <2>1. /\ seg = y /\ r = Emplace(s, y) /\ RunLength(r, n) /\ t = deliverInOrder(r, n)
        /\ Rel(y.seq, s.expected_rx_seq) < RecvWindow
    <3>1. /\ seg = y /\ r = Emplace(Base(d, k), y) /\ RunLength(r, n)
          /\ sessions' = [sessions EXCEPT ![d][k] = deliverInOrder(r, n)]
          /\ Rel(y.seq, Expected(d, k)) < RecvWindow
      BY <2>0 DEF DataStep
    <3>2. Base(d, k) = s /\ Expected(d, k) = s.expected_rx_seq
      BY <1>1 DEF Base, Expected
    <3>3. t = deliverInOrder(r, n)
      BY <1>0, <3>1 DEF TypeOK
    <3> QED
      BY <3>1, <3>2, <3>3
  <2> HIDE DEF s, y, own, peer, q
  <2>2. InRange(r, own, peer)
    BY <1>1, <1>2, <1>3, <1>7, <2>1, EmplaceInRange
  <2>3. /\ deliverInOrder(r, n).expected_rx_seq = r.expected_rx_seq + n
        /\ Waiting(deliverInOrder(r, n))
    BY <1>3, <2>1, <2>2, DeliverNumbers
  <2>4. r.expected_rx_seq = s.expected_rx_seq /\ r.rx_buffer[y.seq] = y.payload
    BY <1>1, <1>2, <1>7, <2>1 DEF Emplace, Session
  <2>5. y.payload # NoPayload
    BY <1>7, PayloadAssumption
  <2>6. n # 0
    <3> SUFFICES ASSUME n = 0 PROVE FALSE
      OBVIOUS
    <3>1. deliverInOrder(r, n).expected_rx_seq = y.seq
      BY <1>2, <1>6, <2>3, <2>4
    <3>2. deliverInOrder(r, n).rx_buffer[y.seq] = r.rx_buffer[y.seq]
      <4>1. Run(r, n) = {}
        BY DEF Run
      <4> QED
        BY <1>2, <4>1 DEF deliverInOrder, Session
    <3> QED
      BY <1>1, <2>1, <2>3, <2>4, <2>5, <3>1, <3>2 DEF Waiting
  <2>7. n \in Nat
    BY WindowAssumption
  <2> QED
    BY <1>2, <1>6, <2>1, <2>3, <2>4, <2>6, <2>7
<1> QED
  BY <1>8, <1>9, <1>10, <1>11 DEF onChannelBytes

(* What is on a link stays there until it is read. *)
LEMMA StaysOnLink ==
    ASSUME Lossless, TypeOK, AllUp, [Next]_vars, NEW d \in End, NEW k \in Keys, NEW l \in Links,
           NEW x \in Segment, OnLink(net[d][l], x)
    PROVE  \/ OnLink(net'[d][l], x)
           \/ /\ NoneAdded(d, k) /\ Idle(Peer(d), k)
              /\ onChannelBytes(d, l) /\ net[d][l] # <<>> /\ x = Head(net[d][l])
<1> DEFINE q == net[d][l]
<1>0. q \in Seq(Segment)
  BY DEF TypeOK
<1>1. ASSUME NEW y \in Segment, net'[d][l] = Append(q, y) PROVE OnLink(net'[d][l], x)
  BY <1>0, <1>1, StillOnLink
<1>2. CASE NoneAdded(d, k) /\ Idle(Peer(d), k)
  <2>1. CASE q # <<>> /\ net'[d][l] = Tail(q) /\ onChannelBytes(d, l)
    BY <1>0, <1>2, <2>1, TailOnLink
  <2> QED
    BY <1>1, <1>2, <2>1 DEF NoneAdded
<1>3. CASE Opened(d, k)
  <2>1. Marker("SYN", k, 0) \in Segment
    BY MarkerType, WindowAssumption DEF SeqNum
  <2> QED
    BY <1>1, <1>3, <2>1 DEF Opened, Grows
<1>4. ASSUME HasHandler(Peer(d), k) PROVE sessions[Peer(d)][k].next_send_seq \in SeqNum
  <2>1. Peer(d) \in End
    BY PeerType
  <2>2. sessions[Peer(d)][k] \in Session
    BY <1>4, <2>1 DEF TypeOK, HasHandler
  <2> QED
    BY <2>2 DEF Session
<1>5. ASSUME NEW p \in Payloads, Wrote(d, k, p) PROVE OnLink(net'[d][l], x)
  <2> DEFINE y == [kind |-> "DATA", key |-> k, seq |-> sessions[Peer(d)][k].next_send_seq, payload |-> p]
  <2>1. HasHandler(Peer(d), k) /\ net'[d][l] = Append(q, y)
    BY <1>5 DEF Wrote, Grows, sendSessionData, HasHandler
  <2>2. y \in Segment
    BY <1>4, <2>1 DEF Segment, Slot
  <2> QED
    BY <1>1, <2>1, <2>2
<1>6. CASE Closed(d, k)
  <2>1. Marker("FIN", k, sessions[Peer(d)][k].next_send_seq) \in Segment
    BY <1>4, <1>6, MarkerType DEF Closed
  <2> QED
    BY <1>1, <1>6, <2>1 DEF Closed, Grows
<1> QED
  BY <1>2, <1>3, <1>5, <1>6, PathStep

(* What is written is on every link. *)
LEMMA WrittenOnLink ==
    ASSUME Lossless, BaseInv, AllUp, [Next]_vars, NEW d \in End, NEW k \in Keys, NEW l \in Links,
           instances[Peer(d)][k] <= 1, NEW n \in SeqNum, n < Len(sent'[Peer(d)][k])
    PROVE  \/ n < Len(sent[Peer(d)][k])
           \/ /\ Carries(net'[d][l], "DATA", k, n) /\ instances' = instances
              /\ HasHandler(Peer(d), k)
<1> DEFINE c == Peer(d)
<1>0. TypeOK /\ c \in End /\ net[d][l] \in Seq(Segment)
  <2>1. TypeOK /\ c \in End
    BY PeerType DEF BaseInv
  <2> QED
    BY <2>1 DEF TypeOK
<1>1. sent[c][k] \in Seq(Payloads) /\ sent \in [End -> [Keys -> Seq(Payloads)]]
  BY <1>0 DEF TypeOK
<1>2. CASE sent'[c][k] = sent[c][k]
  BY <1>2
<1>3. ASSUME NEW p \in Payloads, Wrote(d, k, p)
      PROVE  \/ n < Len(sent[c][k])
             \/ /\ Carries(net'[d][l], "DATA", k, n) /\ instances' = instances /\ HasHandler(c, k)
  <2> DEFINE y == [kind |-> "DATA", key |-> k, seq |-> sessions[c][k].next_send_seq, payload |-> p]
  <2>1. sendSessionData(c, k, p) /\ net'[d][l] = Append(net[d][l], y)
    BY <1>3 DEF Wrote, Grows
  <2>2. HasHandler(c, k) /\ instances' = instances /\ sent' = [sent EXCEPT ![c][k] = Append(@, p)]
    BY <2>1 DEF sendSessionData, HasHandler
  <2>3. sessions[c][k].next_send_seq = Len(sent[c][k]) /\ sessions[c][k].next_send_seq \in SeqNum
    <3>1. sessions[c][k] \in Session
      BY <1>0, <2>2 DEF TypeOK, HasHandler
    <3>2. sessions[c][k].next_send_seq = Len(sent[c][k])
      BY <1>0, <2>1, NextNumber
    <3> QED
      BY <3>1, <3>2 DEF Session
  <2>4. y \in Segment /\ y.kind = "DATA" /\ y.key = k /\ y.seq = Len(sent[c][k])
    BY <2>3 DEF Segment, Slot
  <2>5. OnLink(net'[d][l], y)
    <3> HIDE DEF y
    <3> QED
      BY <1>0, <2>1, <2>4, StillOnLink
  <2>6. sent'[c][k] = Append(sent[c][k], p)
    BY <1>0, <1>1, <2>2
  <2>7. n < Len(sent[c][k]) \/ n = Len(sent[c][k])
    <3>1. Len(sent'[c][k]) = Len(sent[c][k]) + 1 /\ Len(sent[c][k]) \in Nat
      BY <1>1, <2>6
    <3> QED
      BY <3>1 DEF SeqNum
  <2> HIDE DEF y
  <2> QED
    BY <2>2, <2>4, <2>5, <2>7 DEF Carries
<1>4. CASE Opened(d, k)
  <2>1. c = "inport" /\ sent'["inport"][k] = sent["inport"][k]
    BY <1>4 DEF Opened, Peer
  <2> QED
    BY <1>2, <2>1
<1>5. (NoneAdded(d, k) /\ Idle(c, k)) \/ Closed(d, k) => sent'[c][k] = sent[c][k]
  BY DEF Idle, Closed
<1> QED
  BY <1>0, <1>2, <1>3, <1>4, <1>5, PathStep

(* A SYN read at the Outport gives its session a relay. *)
LEMMA SynRead ==
    ASSUME BaseInv, NEW l \in Links, ReceiveSyn("outport", l)
    PROVE  instances'["outport"][Head(net["outport"][l]).key] # 0
<1> DEFINE k == Head(net["outport"][l]).key
<1>0. "outport" \in End /\ TypeOK /\ net["outport"][l] # <<>>
  BY DEF End, BaseInv, ReceiveSyn, Accepts
<1>1. k \in Keys /\ instances \in [End -> [Keys -> Nat]]
  <2>1. net \in [End -> [Links -> Seq(Segment)]] /\ instances \in [End -> [Keys -> Nat]]
    BY <1>0 DEF TypeOK
  <2> QED
    BY <1>0, <2>1, HeadType DEF Segment
<1>2. CASE sessions["outport"][k] = NoSession
  <2>1. instances' = [instances EXCEPT !["outport"][k] = @ + 1]
    BY <1>2 DEF ReceiveSyn, NewHandler, unknown_cb
  <2> HIDE DEF k
  <2>2. instances'["outport"][k] = instances["outport"][k] + 1 /\ instances["outport"][k] \in Nat
    BY <1>0, <1>1, <2>1
  <2> QED
    BY <2>2 DEF k
<1>3. CASE sessions["outport"][k] # NoSession
  <2>1. instances' = instances
    BY <1>3 DEF ReceiveSyn
  <2>2. sessions["outport"][k].handler
    BY <1>1, <1>3 DEF BaseInv, StreamInv, Matches
  <2>3. instances["outport"][k] # 0
    BY <1>0, <1>1, <1>3, <2>2 DEF BaseInv, PoisonInv
  <2> QED
    BY <2>1, <2>3
<1> QED
  BY <1>2, <1>3

(* The first of a session that is read at the Outport is its SYN. *)
LEMMA FirstRead ==
    ASSUME BaseInv, OrderInv, NEW l \in Links, onChannelBytes("outport", l), net["outport"][l] # <<>>,
           NEW k \in Keys, Head(net["outport"][l]).key = k, UnreadAt(k)
    PROVE  /\ Head(net["outport"][l]).kind # "DATA"
           /\ instances'["outport"][k] # 0
<1> DEFINE q == net["outport"][l]
           y == Head(q)
<1>0. "outport" \in End /\ "inport" \in End /\ Peer("outport") = "inport" /\ TypeOK
  BY DEF End, Peer, BaseInv
<1>1. q \in Seq(Segment) /\ y \in Segment /\ OnLink(q, y)
  <2>1. q \in Seq(Segment)
    BY <1>0 DEF TypeOK
  <2> QED
    BY <2>1, HeadOnLink
<1>2. OrderAt("outport", k)
  BY <1>0 DEF OrderInv
<1>3. Ordered(q, k) /\ instances["inport"][k] # 0
  BY <1>0, <1>1, <1>2 DEF OrderAt
<1>4. PICK z \in Segment : OnLink(q, z) /\ z.kind = "SYN" /\ z.key = k /\ z.seq = 0
  BY <1>3 DEF UnreadAt, Carries
<1>5. z = y
  <2>1. z = y \/ Follows(y, z)
    <3>1. q # <<>> /\ Head(q).key = k
      OBVIOUS
    <3> HIDE DEF q
    <3> QED
      BY <1>1, <1>3, <1>4, <3>1, HeadFirst
  <2> QED
    BY <1>4, <2>1 DEF Follows
<1>6. DedupKey(y) = SynKey(k)
  BY <1>4, <1>5 DEF DedupKey, SynKey
<1>7. Fresh("outport", y) /\ InWindow("outport", y)
  BY <1>4, <1>5, <1>6 DEF Fresh, InWindow, UnreadAt
<1>8. ReceiveSyn("outport", l)
  BY <1>4, <1>5, <1>7 DEF onChannelBytes, ReceiveDuplicate, ReceiveOutOfWindow, ReceiveFin, ReceiveData, Accepts
<1> QED
  BY <1>4, <1>5, <1>8, SynRead

(* What is recorded anew has just been accepted. *)
LEMMA RecordedStep ==
    ASSUME TypeOK, [Next]_vars, NEW e \in End, NEW dk \in Recorded(dedup'[e]), dk \notin Recorded(dedup[e])
    PROVE  \E l \in Links :
              /\ net[e][l] # <<>> /\ dk = DedupKey(Head(net[e][l]))
              /\ ReceiveSyn(e, l) \/ ReceiveFin(e, l) \/ ReceiveData(e, l)
<1>0. dedup \in [End -> Seq(DedupKeyType)]
  BY DEF TypeOK
<1>1. ASSUME NEW d \in End, NEW l \in Links, ReceiveSyn(d, l) \/ ReceiveFin(d, l) \/ ReceiveData(d, l)
      PROVE  d = e /\ net[d][l] # <<>> /\ dk = DedupKey(Head(net[d][l]))
  <2>1. net[d][l] # <<>> /\ Record(d, Head(net[d][l]))
    BY <1>1 DEF ReceiveSyn, ReceiveFin, ReceiveData, Accepts
  <2>2. Head(net[d][l]) \in Segment
    BY <2>1, HeadType DEF TypeOK
  <2>3. DedupKey(Head(net[d][l])) \in DedupKeyType
    BY <2>2 DEF DedupKey, DedupKeyType, Segment
  <2>4. dedup' = [dedup EXCEPT ![d] = Remember(dedup[d], DedupKey(Head(net[d][l])))]
    BY <2>1 DEF Record
  <2>5. d = e
    BY <1>0, <2>4
  <2>6. dedup'[e] = Remember(dedup[e], DedupKey(Head(net[d][l])))
    BY <1>0, <2>4, <2>5
  <2>7. Recorded(dedup'[e]) \subseteq Recorded(dedup[e]) \cup {DedupKey(Head(net[d][l]))}
    BY <1>0, <2>3, <2>6, RememberOnly
  <2> QED
    BY <2>1, <2>5, <2>7
<1>2. ASSUME dedup' = dedup PROVE FALSE
  BY <1>2
<1>3. ASSUME NEW d \in End, NEW l \in Links, ReceiveDuplicate(d, l) \/ ReceiveOutOfWindow(d, l)
      PROVE  FALSE
  BY <1>2, <1>3 DEF ReceiveDuplicate, ReceiveOutOfWindow
<1>4. ASSUME NEW k \in Keys, openSession(k) PROVE FALSE
  BY <1>2, <1>4 DEF openSession
<1>5. ASSUME NEW d \in End, NEW k \in Keys, NEW p \in Payloads, sendSessionData(d, k, p) PROVE FALSE
  BY <1>2, <1>5 DEF sendSessionData
<1>6. ASSUME NEW d \in End, NEW k \in Keys, closeSession(d, k) PROVE FALSE
  BY <1>2, <1>6 DEF closeSession
<1>7. ASSUME NEW d \in End, NEW l \in Links, LinkDown(d, l) \/ LinkDownNoticed(d, l) PROVE FALSE
  BY <1>2, <1>7 DEF LinkDown, LinkDownNoticed
<1>8. ASSUME NEW l \in Links, LinkUp(l) PROVE FALSE
  BY <1>2, <1>8 DEF LinkUp
<1>9. ~UNCHANGED vars
  BY <1>2 DEF vars
<1>10. \E d \in End, l \in Links : ReceiveSyn(d, l) \/ ReceiveFin(d, l) \/ ReceiveData(d, l)
  BY <1>3, <1>4, <1>5, <1>6, <1>7, <1>8, <1>9 DEF Next, onChannelBytes
<1> QED
  BY <1>1, <1>10

(* A session that is opened has its SYN on every link. *)
LEMMA OpensOnLink ==
    ASSUME Lossless, BaseInv, AllUp, [Next]_vars, NEW k \in Keys, NEW l \in Links,
           instances["inport"][k] = 0, instances'["inport"][k] # 0
    PROVE  Carries(net'["outport"][l], "SYN", k, 0) /\ sent'["inport"][k] = <<>>
<1>0. "outport" \in End /\ "inport" \in End /\ Peer("outport") = "inport" /\ TypeOK
  BY DEF End, Peer, BaseInv
<1>1. ~HasHandler("inport", k) /\ sent["inport"][k] = <<>>
  BY DEF BaseInv, StreamInv, HasHandler
<1>2. Opened("outport", k)
  <2>1. ~Idle("inport", k)
    BY DEF Idle
  <2>2. ~Closed("outport", k)
    BY <1>0, <1>1 DEF Closed
  <2>3. \A p \in Payloads : ~Wrote("outport", k, p)
    BY <1>0, <1>1 DEF Wrote, sendSessionData, HasHandler
  <2> QED
    BY <1>0, <2>1, <2>2, <2>3, PathStep
<1>3. net'["outport"][l] = Append(net["outport"][l], Marker("SYN", k, 0)) /\ sent'["inport"][k] = <<>>
  BY <1>1, <1>2 DEF Opened, Grows
<1>4. Marker("SYN", k, 0) \in Segment /\ net["outport"][l] \in Seq(Segment)
  <2>1. net["outport"][l] \in Seq(Segment)
    BY <1>0 DEF TypeOK
  <2> QED
    BY <2>1, MarkerType, WindowAssumption DEF SeqNum
<1>5. OnLink(net'["outport"][l], Marker("SYN", k, 0))
  BY <1>3, <1>4, StillOnLink
<1> QED
  BY <1>3, <1>4, <1>5 DEF Carries, Marker

(* What nobody has read stays where it is. *)
LEMMA UnreadStep ==
    ASSUME Lossless, BaseInv, AllUp, OrderInv, CompleteInv, [Next]_vars, NEW k \in Keys,
           instances'["outport"][k] = 0
    PROVE  UnreadAt(k)'
<1>0. /\ "outport" \in End /\ "inport" \in End /\ Peer("outport") = "inport" /\ TypeOK
      /\ instances["inport"][k] <= 1
  BY DEF End, Peer, BaseInv, OrderInv
<1>1. UnreadAt(k)
  <2>1. instances["outport"][k] = 0
    BY <1>0, InstancesGrow
  <2> QED
    BY <2>1 DEF CompleteInv
<1>2. SynKey(k) \notin Recorded(dedup'["outport"])
  <2> SUFFICES ASSUME SynKey(k) \in Recorded(dedup'["outport"]) PROVE FALSE
    OBVIOUS
  <2>1. SynKey(k) \notin Recorded(dedup["outport"])
    BY <1>1 DEF UnreadAt
  <2>2. PICK l \in Links :
           /\ net["outport"][l] # <<>> /\ SynKey(k) = DedupKey(Head(net["outport"][l]))
           /\ ReceiveSyn("outport", l) \/ ReceiveFin("outport", l) \/ ReceiveData("outport", l)
    BY <1>0, <2>1, RecordedStep
  <2>3. Head(net["outport"][l]).kind = "SYN" /\ Head(net["outport"][l]).key = k
    BY <2>2 DEF SynKey, DedupKey
  <2>4. ReceiveSyn("outport", l)
    BY <2>2, <2>3 DEF ReceiveFin, ReceiveData, Accepts
  <2> QED
    BY <2>3, <2>4, SynRead
<1>3. ASSUME NEW l \in Links, NEW x \in Segment, OnLink(net["outport"][l], x), x.key = k
      PROVE  OnLink(net'["outport"][l], x)
  <2> SUFFICES ASSUME onChannelBytes("outport", l), net["outport"][l] # <<>>, x = Head(net["outport"][l])
               PROVE  FALSE
    BY <1>0, <1>3, StaysOnLink
  <2> QED
    BY <1>1, <1>3, FirstRead
<1>4. ASSUME NEW l \in Links, NEW kind, NEW n, Carries(net["outport"][l], kind, k, n)
      PROVE  Carries(net'["outport"][l], kind, k, n)
  <2>1. PICK x \in Segment : OnLink(net["outport"][l], x) /\ x.kind = kind /\ x.key = k /\ x.seq = n
    BY <1>4 DEF Carries
  <2> QED
    BY <1>3, <2>1 DEF Carries
<1>5. ASSUME instances'["inport"][k] # 0, NEW l \in Links
      PROVE  /\ Carries(net'["outport"][l], "SYN", k, 0)
             /\ \A n \in SeqNum : n < Len(sent'["inport"][k]) => Carries(net'["outport"][l], "DATA", k, n)
  <2>1. CASE instances["inport"][k] # 0
    <3>1. Carries(net'["outport"][l], "SYN", k, 0)
      BY <1>1, <1>4, <2>1 DEF UnreadAt
    <3>2. ASSUME NEW n \in SeqNum, n < Len(sent'["inport"][k])
          PROVE  Carries(net'["outport"][l], "DATA", k, n)
      <4>1. n < Len(sent["inport"][k]) \/ Carries(net'["outport"][l], "DATA", k, n)
        BY <1>0, <3>2, WrittenOnLink
      <4>2. n < Len(sent["inport"][k]) => Carries(net["outport"][l], "DATA", k, n)
        BY <1>1, <2>1 DEF UnreadAt
      <4> QED
        BY <1>4, <4>1, <4>2
    <3> QED
      BY <3>1, <3>2
  <2>2. CASE instances["inport"][k] = 0
    <3>1. Carries(net'["outport"][l], "SYN", k, 0) /\ sent'["inport"][k] = <<>>
      BY <1>5, <2>2, OpensOnLink
    <3>2. \A n \in SeqNum : ~(n < Len(sent'["inport"][k]))
      BY <3>1 DEF SeqNum
    <3> QED
      BY <3>1, <3>2
  <2> QED
    BY <2>1, <2>2
<1> QED
  BY <1>2, <1>5 DEF UnreadAt

(* What a handler that has just begun lacks, all of the stream, is on every *)
(* link.                                                                    *)
LEMMA BegunComplete ==
    ASSUME Lossless, BaseInv, AllUp, OrderInv, CompleteInv, [Next]_vars, NEW d \in End, NEW k \in Keys,
           NEW l \in Links, NEW n \in SeqNum, n < Len(sent[Peer(d)][k]),
           instances[d][k] = 0
    PROVE  Carries(net'[d][l], "DATA", k, n)
<1>0. TypeOK /\ "outport" \in End /\ Peer("outport") = "inport" /\ Peer("inport") = "outport"
      /\ n \in Nat
  BY DEF BaseInv, Peer, End, SeqNum
<1>1. CASE d = "inport"
  <2>1. sent["outport"][k] = <<>>
    BY <1>1 DEF BaseInv, PoisonInv
  <2> QED
    BY <1>0, <1>1, <2>1
<1>2. CASE d = "outport"
  <2>1. UnreadAt(k)
    BY <1>2 DEF CompleteInv
  <2>2. instances["inport"][k] # 0
    <3> SUFFICES ASSUME instances["inport"][k] = 0 PROVE FALSE
      OBVIOUS
    <3>1. sent["inport"][k] = <<>>
      BY DEF BaseInv, StreamInv
    <3> QED
      BY <1>0, <1>2, <3>1
  <2>3. Carries(net["outport"][l], "DATA", k, n)
    BY <1>0, <1>2, <2>1, <2>2 DEF UnreadAt
  <2>4. PICK x \in Segment : OnLink(net["outport"][l], x) /\ x.kind = "DATA" /\ x.key = k /\ x.seq = n
    BY <2>3 DEF Carries
  <2>5. OnLink(net'["outport"][l], x)
    <3> SUFFICES ASSUME onChannelBytes("outport", l), net["outport"][l] # <<>>, x = Head(net["outport"][l])
                 PROVE  FALSE
      BY <1>0, <2>4, StaysOnLink
    <3> QED
      BY <2>1, <2>4, FirstRead
  <2> QED
    BY <1>2, <2>4, <2>5 DEF Carries
<1> QED
  BY <1>1, <1>2 DEF End

(* DATA leaves a link only for the handler that waits for it. *)
LEMMA CompleteAtStep ==
    ASSUME NoWrap, Lossless, BaseInv, AllUp, OrderInv, CompleteInv, [Next]_vars, NEW d \in End, NEW k \in Keys,
           instances'[d][k] <= 1, instances'[Peer(d)][k] <= 1
    PROVE  CompleteAt(d, k)'
<1> DEFINE c == Peer(d)
<1>0. TypeOK /\ NumbersInv /\ c \in End
  BY PeerType DEF BaseInv
<1>1. /\ instances[d][k] \in Nat /\ instances[c][k] \in Nat /\ instances[d][k] <= 1 /\ instances[c][k] <= 1
      /\ instances'[d][k] = instances[d][k] \/ instances'[d][k] = instances[d][k] + 1
  <2>1. /\ instances[d][k] \in Nat
        /\ instances'[d][k] = instances[d][k] \/ instances'[d][k] = instances[d][k] + 1
    BY <1>0, InstancesGrow
  <2>2. /\ instances[c][k] \in Nat
        /\ instances'[c][k] = instances[c][k] \/ instances'[c][k] = instances[c][k] + 1
    BY <1>0, InstancesGrow
  <2> QED
    BY <2>1, <2>2
<1>2. OrderAt(d, k) /\ CompleteAt(d, k)
  BY <1>1 DEF OrderInv, CompleteInv
<1> SUFFICES ASSUME HasHandler(d, k)', NEW l \in Links, NEW n \in SeqNum, n < Len(sent'[c][k])
             PROVE  n < sessions'[d][k].expected_rx_seq \/ Carries(net'[d][l], "DATA", k, n)
  BY DEF CompleteAt
<1>3. CASE ~(n < Len(sent[c][k]))
  BY <1>1, <1>3, WrittenOnLink
<1>4. CASE n < Len(sent[c][k]) /\ instances'[d][k] = instances[d][k] + 1
  <2>1. instances[d][k] = 0
    BY <1>1, <1>4
  <2> QED
    BY <1>4, <2>1, BegunComplete
<1>5. CASE n < Len(sent[c][k]) /\ instances'[d][k] = instances[d][k]
  <2>1. HasHandler(d, k)
    <3>1. ASSUME NEW p \in Payloads, sendSessionData(d, k, p) PROVE HasHandler(d, k)
      BY <3>1 DEF sendSessionData, HasHandler
    <3>2. instances'[d][k] # instances[d][k] + 1
      BY <1>1, <1>5
    <3> QED
      BY <1>0, <3>1, <3>2, WriterStep
  <2>2. /\ sessions[d][k].expected_rx_seq \in Nat /\ sessions'[d][k].expected_rx_seq \in Nat
        /\ sessions[d][k].expected_rx_seq <= sessions'[d][k].expected_rx_seq
    BY <1>0, <1>5, <2>1, ExpectedGrows
  <2>3. n \in Nat
    BY DEF SeqNum
  <2>4. CASE n < sessions[d][k].expected_rx_seq
    BY <2>2, <2>3, <2>4
  <2>5. CASE Carries(net[d][l], "DATA", k, n)
    <3>1. PICK x \in Segment : OnLink(net[d][l], x) /\ x.kind = "DATA" /\ x.key = k /\ x.seq = n
      BY <2>5 DEF Carries
    <3>2. CASE OnLink(net'[d][l], x)
      BY <3>1, <3>2 DEF Carries
    <3>3. CASE onChannelBytes(d, l) /\ net[d][l] # <<>> /\ x = Head(net[d][l])
      <4>1. Head(net[d][l]).seq < sessions'[d][k].expected_rx_seq
        BY <1>1, <1>2, <1>5, <2>1, <3>1, <3>3, ReadDelivers
      <4> QED
        BY <3>1, <3>3, <4>1
    <3> QED
      BY <1>0, <3>1, <3>2, <3>3, StaysOnLink
  <2> QED
    BY <1>2, <1>5, <2>1, <2>4, <2>5 DEF CompleteAt
<1> QED
  BY <1>1, <1>3, <1>4, <1>5

(* CompleteInv is inductive while no link is lost. *)
LEMMA CompleteStep ==
    ASSUME NoWrap, Lossless, BaseInv, AllUp, OrderInv, CompleteInv, [Next]_vars
    PROVE  CompleteInv'
<1>1. ASSUME NEW k \in Keys, instances'["outport"][k] = 0 PROVE UnreadAt(k)'
  BY <1>1, UnreadStep
<1>2. ASSUME NEW d \in End, NEW k \in Keys, instances'[d][k] <= 1, instances'[Peer(d)][k] <= 1
      PROVE  CompleteAt(d, k)'
  BY <1>2, CompleteAtStep
<1> QED
  BY <1>1, <1>2 DEF CompleteInv

(* What holds only while every link is up and carries every segment. *)
Reliable == AllUp /\ OrderInv /\ CompleteInv

(* At the start every link is up and empty. *)
LEMMA ReliableInit == ASSUME Init PROVE Reliable
<1>0. "inport" \in End /\ "outport" \in End /\ Peer("inport") \in End /\ Peer("outport") \in End
  BY PeerType DEF End
<1>1. AllUp
  BY DEF Init, AllUp
<1>2. /\ \A e \in End, k \in Keys : instances[e][k] = 0 /\ sessions[e][k] = NoSession /\ sent[e][k] = <<>>
      /\ \A e \in End, l \in Links : net[e][l] = <<>>
      /\ \A e \in End : dedup[e] = <<>>
  BY DEF Init
<1>3. \A x : ~OnLink(<<>>, x)
  BY DEF OnLink
<1>4. \A k \in Keys : Ordered(<<>>, k)
  BY DEF Ordered
<1>5. OrderInv
  <2>1. ASSUME NEW d \in End, NEW k \in Keys PROVE OrderAt(d, k)
    BY <1>2, <1>3, <1>4 DEF OrderAt
  <2> QED
    BY <1>0, <1>2, <2>1 DEF OrderInv
<1>6. CompleteInv
  <2>1. ASSUME NEW k \in Keys PROVE UnreadAt(k)
    <3>1. Recorded(dedup["outport"]) = {}
      BY <1>0, <1>2 DEF Recorded
    <3> QED
      BY <1>0, <1>2, <3>1 DEF UnreadAt
  <2>2. ASSUME NEW d \in End, NEW k \in Keys PROVE CompleteAt(d, k)
    BY <1>2 DEF CompleteAt, HasHandler
  <2> QED
    BY <2>1, <2>2 DEF CompleteInv
<1> QED
  BY <1>1, <1>5, <1>6 DEF Reliable

(* Reliable is an invariant. *)
LEMMA ReliableAlways == ASSUME NoWrap, Lossless PROVE Spec => [](BaseInv /\ Reliable)
<1>1. Spec => []BaseInv
  BY BaseAlways
<1>2. Init => Reliable
  BY ReliableInit
<1>3. BaseInv /\ BaseInv' /\ Reliable /\ [Next]_vars => Reliable'
  <2> SUFFICES ASSUME BaseInv, BaseInv', Reliable, [Next]_vars PROVE Reliable'
    OBVIOUS
  <2>0. TypeOK /\ TypeOK' /\ AllUp /\ OrderInv /\ CompleteInv
    BY DEF BaseInv, Reliable
  <2>1. AllUp'
    BY <2>0, UpStep
  <2>2. OrderInv'
    BY <2>0, OrderStep
  <2>3. CompleteInv'
    BY <2>0, CompleteStep
  <2> QED
    BY <2>1, <2>2, <2>3 DEF Reliable
<1> QED
  BY <1>1, <1>2, <1>3, PTL DEF Spec

(* Only a FIN tells a handler of the end. *)
LEMMA EofStep ==
    ASSUME TypeOK, [Next]_vars, NEW e \in End, NEW k \in Keys, ~eof[e][k], eof'[e][k]
    PROVE  \E l \in Links : ReceiveFin(e, l) /\ Head(net[e][l]).key = k /\ HasHandler(e, k)
<1>0. eof \in [End -> [Keys -> BOOLEAN]]
  BY DEF TypeOK
<1>1. ASSUME eof' = eof PROVE FALSE
  BY <1>1
<1>2. ASSUME NEW d \in End, NEW j \in Keys, NewHandler(d, j) PROVE FALSE
  <2>1. eof' = [eof EXCEPT ![d][j] = FALSE]
    BY <1>2 DEF NewHandler
  <2> QED
    BY <1>0, <2>1
<1>3. ASSUME NEW d \in End, NEW l \in Links, net[d][l] # <<>> PROVE Head(net[d][l]).key \in Keys
  BY <1>3, HeadType DEF TypeOK, Segment
<1>4. ASSUME NEW d \in End, NEW l \in Links, ReceiveSyn(d, l) PROVE FALSE
  <2>1. NewHandler(d, Head(net[d][l]).key) \/ eof' = eof
    BY <1>4 DEF ReceiveSyn
  <2> QED
    BY <1>1, <1>2, <1>3, <1>4, <2>1 DEF ReceiveSyn, Accepts
<1>5. ASSUME NEW d \in End, NEW l \in Links, ReceiveData(d, l) PROVE FALSE
  <2>1. NewHandler(d, Head(net[d][l]).key) \/ eof' = eof
    BY <1>5 DEF ReceiveData
  <2> QED
    BY <1>1, <1>2, <1>3, <1>5, <2>1 DEF ReceiveData, Accepts
<1>6. ASSUME NEW d \in End, NEW l \in Links, ReceiveFin(d, l)
      PROVE  d = e /\ Head(net[d][l]).key = k /\ HasHandler(e, k)
  <2> DEFINE j == Head(net[d][l]).key
  <2>1. net[d][l] # <<>>
    BY <1>6 DEF ReceiveFin, Accepts
  <2>2. HasHandler(d, j) /\ eof' = [eof EXCEPT ![d][j] = TRUE]
    BY <1>1, <1>6 DEF ReceiveFin, HasHandler
  <2>3. j \in Keys
    BY <1>3, <2>1
  <2> HIDE DEF j
  <2>4. d = e /\ j = k
    BY <1>0, <2>2, <2>3
  <2> QED
    BY <2>2, <2>4 DEF j
<1>7. ASSUME NEW d \in End, NEW l \in Links, ReceiveDuplicate(d, l) \/ ReceiveOutOfWindow(d, l) PROVE FALSE
  BY <1>1, <1>7 DEF ReceiveDuplicate, ReceiveOutOfWindow, history
<1>8. ASSUME NEW j \in Keys, openSession(j) PROVE FALSE
  <2>1. NewHandler("inport", j) /\ "inport" \in End
    BY <1>8 DEF openSession, End
  <2> QED
    BY <1>2, <2>1
<1>9. ASSUME NEW d \in End, NEW j \in Keys, NEW p \in Payloads, sendSessionData(d, j, p) PROVE FALSE
  BY <1>1, <1>9 DEF sendSessionData
<1>10. ASSUME NEW d \in End, NEW j \in Keys, closeSession(d, j) PROVE FALSE
  BY <1>1, <1>10 DEF closeSession, history
<1>11. ASSUME NEW d \in End, NEW l \in Links, LinkDown(d, l) \/ LinkDownNoticed(d, l) PROVE FALSE
  BY <1>1, <1>11 DEF LinkDown, LinkDownNoticed, history
<1>12. ASSUME NEW l \in Links, LinkUp(l) PROVE FALSE
  BY <1>1, <1>12 DEF LinkUp, history
<1>13. ~UNCHANGED vars
  BY <1>1 DEF vars
<1>14. \E d \in End, l \in Links : ReceiveFin(d, l)
  BY <1>4, <1>5, <1>7, <1>8, <1>9, <1>10, <1>11, <1>12, <1>13 DEF Next, onChannelBytes
<1> QED
  BY <1>6, <1>14

(* A FIN that comes first on its link ends a stream that was handed over.   *)
LEMMA FinLast ==
    ASSUME NoWrap, BaseInv, Reliable, NEW e \in End, NEW k \in Keys, NEW l \in Links,
           net[e][l] # <<>>, Head(net[e][l]).kind = "FIN", Head(net[e][l]).key = k,
           HasHandler(e, k), \A d \in End : instances[d][k] = 1
    PROVE  handed[e][k] = sent[Peer(e)][k]
<1> DEFINE q == net[e][l]
           s == sessions[e][k]
           h == handed[e][k]
           w == sent[Peer(e)][k]
<1>0. TypeOK /\ NumbersInv /\ Peer(e) \in End
  BY PeerType DEF BaseInv
<1>1. q \in Seq(Segment) /\ h \in Seq(Payloads) /\ w \in Seq(Payloads) /\ s \in Session
  BY <1>0 DEF TypeOK, HasHandler
<1>2. s.expected_rx_seq = Len(h) /\ s.expected_rx_seq \in SeqNum
  BY <1>1 DEF BaseInv, PoisonInv, Session, HasHandler
<1>3. CompleteAt(e, k) /\ OrderAt(e, k)
  BY <1>0 DEF Reliable, OrderInv, CompleteInv
<1>4. ~(Len(h) < Len(w))
  <2> SUFFICES ASSUME Len(h) < Len(w) PROVE FALSE
    OBVIOUS
  <2>1. Carries(q, "DATA", k, Len(h))
    BY <1>2, <1>3 DEF CompleteAt, SeqNum
  <2>2. PICK x \in Segment : OnLink(q, x) /\ x.kind = "DATA" /\ x.key = k
    BY <2>1 DEF Carries
  <2>3. Ordered(q, k)
    BY <1>3 DEF OrderAt
  <2>4. q # <<>> /\ Head(q).key = k /\ Head(q).kind = "FIN"
    OBVIOUS
  <2> HIDE DEF q
  <2>5. x = Head(q) \/ Follows(Head(q), x)
    BY <1>1, <2>2, <2>3, <2>4, HeadFirst
  <2> QED
    BY <2>2, <2>4, <2>5 DEF Follows
<1>5. IsPrefixOf(h, w)
  <2>1. CASE e = "outport"
    BY <2>1 DEF BaseInv, StreamInv, InOrderForward, Peer
  <2>2. CASE e = "inport"
    <3>1. OneStream(k)
      BY DEF OneStream, End
    <3>2. BackAt(k)
      BY <3>1 DEF BaseInv, BackInv
    <3> QED
      BY <2>2, <3>2 DEF BackAt, Peer
  <2> QED
    BY <2>1, <2>2 DEF End
<1> HIDE DEF h, w
<1>6. Len(h) = Len(w) /\ \A i \in 1..Len(h) : h[i] = w[i]
  BY <1>1, <1>4, <1>5 DEF IsPrefixOf
<1>7. h = w
  BY <1>1, <1>6
<1> QED
  BY <1>7 DEF h, w

(* CloseAfterData: with every segment on every link and no link lost, the   *)
(* step that tells a session's first handler of a FIN (onChannelBytes, the  *)
(* callback onSessionClose) comes after all that the peer wrote has been    *)
(* handed over, in both directions and however the links race one another.  *)
THEOREM CloseAfterDataAlways == ASSUME NoWrap, Lossless PROVE Spec => CloseAfterData
<1> DEFINE Close == \A e \in End, k \in Keys :
               (~eof[e][k] /\ eof'[e][k] /\ \A d \in End : instances[d][k] = 1)
                   => handed[e][k] = sent[Peer(e)][k]
<1>1. Spec => [](BaseInv /\ Reliable)
  BY ReliableAlways
<1>2. BaseInv /\ Reliable /\ [Next]_vars => [Close]_vars
  <2> SUFFICES ASSUME BaseInv, Reliable, [Next]_vars, NEW e \in End, NEW k \in Keys,
                      ~eof[e][k], eof'[e][k], \A d \in End : instances[d][k] = 1
               PROVE  handed[e][k] = sent[Peer(e)][k]
    OBVIOUS
  <2>1. PICK l \in Links : ReceiveFin(e, l) /\ Head(net[e][l]).key = k /\ HasHandler(e, k)
    BY EofStep DEF BaseInv
  <2>2. net[e][l] # <<>> /\ Head(net[e][l]).kind = "FIN"
    BY <2>1 DEF ReceiveFin, Accepts
  <2> QED
    BY <2>1, <2>2, FinLast
<1>3. Spec => [][Close]_vars
  BY <1>1, <1>2, PTL DEF Spec
<1> QED
  BY <1>3 DEF CloseAfterData

-----------------------------------------------------------------------------
(* No relay outlives its client, while the Outport's dedup ring has dropped *)
(* no key: every key of a session is recorded or still on every link.       *)

(* The dedup keys of DATA and FIN of session k. *)
DataKey(k, n) == [kind |-> "DATA", key |-> k, seq |-> n]
FinKey(k, n) == [kind |-> "FIN", key |-> k, seq |-> n]
(* What the Outport has recorded. *)
Keyed == Recorded(dedup["outport"])

(* The SYN of an opened session is recorded or on every link. *)
SynKept(k) ==
    instances["inport"][k] # 0 =>
        \A l \in Links : Carries(net["outport"][l], "SYN", k, 0) \/ SynKey(k) \in Keyed

(* The segments that a relay started anew would accept first. *)
DataKept(k) ==
    \A l \in Links, n \in SeqNum : (n < Len(sent["inport"][k]) /\ n < RecvWindow) =>
        Carries(net["outport"][l], "DATA", k, n) \/ DataKey(k, n) \in Keyed

(* So is the FIN of a session that its client has left. *)
FinKept(k) ==
    (instances["inport"][k] # 0 /\ ~HasHandler("inport", k)) =>
        \A l \in Links : \E n \in SeqNum :
            Carries(net["outport"][l], "FIN", k, n) \/ FinKey(k, n) \in Keyed

(* After a FIN nothing can start the session again. *)
Finished(k) ==
    /\ sessions["outport"][k] = NoSession
    /\ instances["inport"][k] # 0 /\ ~HasHandler("inport", k)
    /\ SynKey(k) \in Keyed
    /\ \A n \in SeqNum : (n < Len(sent["inport"][k]) /\ n < RecvWindow) => DataKey(k, n) \in Keyed

(* What a relay has taken is recorded. *)
TakenKeyed(k) ==
    sessions["outport"][k] # NoSession =>
        \A n \in SeqNum :
            (n < sessions["outport"][k].expected_rx_seq \/ sessions["outport"][k].rx_buffer[n] # NoPayload) =>
                DataKey(k, n) \in Keyed

(* All of it for one session; a recorded FIN has finished it. *)
LeakAt(k) ==
    /\ SynKept(k) /\ DataKept(k) /\ FinKept(k) /\ TakenKeyed(k)
    /\ \A n \in SeqNum : FinKey(k, n) \in Keyed => Finished(k)

(* A SYN has number 0. *)
SynsFirst ==
    \A l \in Links : \A x \in Segment : (OnLink(net["outport"][l], x) /\ x.kind = "SYN") => x.seq = 0

(* NoLeak made inductive. *)
LeakInv == SynsFirst /\ (RelayRingNotFull => \A k \in Keys : LeakAt(k))

(* Only openSession sends a SYN. *)
LEMMA SynsFirstStep ==
    ASSUME Lossless, TypeOK, AllUp, SynsFirst, [Next]_vars
    PROVE  SynsFirst'
<1>0. "outport" \in End /\ "inport" \in End /\ Peer("outport") = "inport"
  BY DEF End, Peer
<1> SUFFICES ASSUME NEW l \in Links, NEW x \in Segment, OnLink(net'["outport"][l], x), x.kind = "SYN"
             PROVE  x.seq = 0
  BY DEF SynsFirst
<1> DEFINE q == net["outport"][l]
           k == x.key
<1>1. q \in Seq(Segment) /\ k \in Keys
  <2>1. q \in Seq(Segment)
    BY <1>0 DEF TypeOK
  <2>2. k \in Keys
    BY DEF Segment
  <2> QED
    BY <2>1, <2>2
<1>2. CASE OnLink(q, x)
  BY <1>2 DEF SynsFirst
<1>3. ASSUME NEW y \in Segment, net'["outport"][l] = Append(q, y), x # y PROVE OnLink(q, x)
  BY <1>1, <1>3, AppendOnLink
<1>4. CASE NoneAdded("outport", k)
  <2>1. CASE q # <<>> /\ net'["outport"][l] = Tail(q)
    BY <1>1, <1>2, <2>1, TailOnLink
  <2> QED
    BY <1>2, <1>3, <1>4, <2>1 DEF NoneAdded
<1>5. ASSUME HasHandler("inport", k) PROVE sessions["inport"][k].next_send_seq \in SeqNum
  BY <1>0, <1>1, <1>5 DEF TypeOK, HasHandler, Session
<1>6. CASE Opened("outport", k)
  <2>1. Marker("SYN", k, 0) \in Segment /\ Marker("SYN", k, 0).seq = 0
    BY <1>1, MarkerType, WindowAssumption DEF SeqNum, Marker
  <2> QED
    BY <1>2, <1>3, <1>6, <2>1 DEF Opened, Grows
<1>7. ASSUME NEW p \in Payloads, Wrote("outport", k, p) PROVE x.seq = 0
  <2> DEFINE y == [kind |-> "DATA", key |-> k, seq |-> sessions["inport"][k].next_send_seq, payload |-> p]
  <2>1. HasHandler("inport", k) /\ net'["outport"][l] = Append(q, y)
    BY <1>0, <1>7 DEF Wrote, Grows, sendSessionData, HasHandler
  <2>2. y \in Segment /\ y # x
    BY <1>1, <1>5, <2>1 DEF Segment, Slot
  <2> QED
    BY <1>2, <1>3, <2>1, <2>2
<1>8. CASE Closed("outport", k)
  <2> DEFINE y == Marker("FIN", k, sessions["inport"][k].next_send_seq)
  <2>1. HasHandler("inport", k) /\ net'["outport"][l] = Append(q, y)
    BY <1>0, <1>8 DEF Closed, Grows
  <2>2. y \in Segment /\ y # x
    BY <1>1, <1>5, <2>1, MarkerType DEF Marker
  <2> QED
    BY <1>2, <1>3, <2>1, <2>2
<1> QED
  BY <1>0, <1>1, <1>4, <1>6, <1>7, <1>8, PathStep

(* A segment leaves its link only when its key is recorded, or it is DATA   *)
(* outside the window.                                                      *)
LEMMA StaysOrRecorded ==
    ASSUME Lossless, TypeOK, AllUp, [Next]_vars, NEW l \in Links, NEW x \in Segment,
           OnLink(net["outport"][l], x), Len(dedup'["outport"]) < DedupRing
    PROVE  \/ OnLink(net'["outport"][l], x)
           \/ DedupKey(x) \in Keyed'
           \/ ReceiveOutOfWindow("outport", l) /\ x = Head(net["outport"][l])
<1>0. "outport" \in End /\ x.key \in Keys /\ dedup \in [End -> Seq(DedupKeyType)]
  BY DEF End, Segment, TypeOK
<1>1. Keyed \subseteq Keyed'
  BY <1>0, RingStep DEF Keyed
<1>2. SUFFICES ASSUME onChannelBytes("outport", l), net["outport"][l] # <<>>, x = Head(net["outport"][l])
               PROVE  DedupKey(x) \in Keyed' \/ ReceiveOutOfWindow("outport", l)
  BY <1>0, StaysOnLink
<1>3. CASE ReceiveDuplicate("outport", l)
  BY <1>1, <1>2, <1>3 DEF ReceiveDuplicate, Fresh, Keyed
<1>4. CASE ReceiveSyn("outport", l) \/ ReceiveFin("outport", l) \/ ReceiveData("outport", l)
  <2>1. Record("outport", x)
    BY <1>2, <1>4 DEF ReceiveSyn, ReceiveFin, ReceiveData, Accepts
  <2>2. DedupKey(x) \in DedupKeyType
    BY DEF DedupKey, DedupKeyType, Segment
  <2>3. dedup'["outport"] = Remember(dedup["outport"], DedupKey(x))
    BY <1>0, <2>1 DEF Record
  <2>4. DedupKey(x) \in Recorded(dedup'["outport"])
    BY <1>0, <2>2, <2>3, RememberAll
  <2> QED
    BY <2>4 DEF Keyed
<1> QED
  BY <1>2, <1>3, <1>4 DEF onChannelBytes

(* A relay begins with a SYN or with DATA of its session. *)
LEMMA RelayBegins ==
    ASSUME TypeOK, [Next]_vars, NEW k \in Keys,
           sessions["outport"][k] = NoSession, sessions'["outport"][k] # NoSession
    PROVE  \E l \in Links :
              /\ net["outport"][l] # <<>> /\ Head(net["outport"][l]).key = k
              /\ ReceiveSyn("outport", l) \/ ReceiveData("outport", l)
<1>0. sessions \in [End -> [Keys -> Session \cup {NoSession}]] /\ "outport" \in End /\ "inport" \in End
  BY DEF TypeOK, End
<1>1. ASSUME sessions' = sessions PROVE FALSE
  BY <1>1
<1>2. ASSUME NEW d \in End, NEW j \in Keys, NEW v, sessions' = [sessions EXCEPT ![d][j] = v]
      PROVE  d = "outport" /\ j = k /\ v # NoSession
  BY <1>0, <1>2
<1>3. ASSUME NEW d \in End, NEW l \in Links, net[d][l] # <<>> PROVE Head(net[d][l]).key \in Keys
  BY <1>3, HeadType DEF TypeOK, Segment
<1>4. ASSUME NEW d \in End, NEW l \in Links, ReceiveSyn(d, l)
      PROVE  d = "outport" /\ net[d][l] # <<>> /\ Head(net[d][l]).key = k
  <2> DEFINE j == Head(net[d][l]).key
  <2>1. net[d][l] # <<>>
    BY <1>4 DEF ReceiveSyn, Accepts
  <2>2. sessions' = [sessions EXCEPT ![d][j] = NewSession(unknown_cb(d))]
    BY <1>1, <1>4 DEF ReceiveSyn
  <2>3. j \in Keys
    BY <1>3, <2>1
  <2> HIDE DEF j
  <2>4. d = "outport" /\ j = k
    BY <1>2, <2>2, <2>3
  <2> QED
    BY <2>1, <2>4 DEF j
<1>5. ASSUME NEW d \in End, NEW l \in Links, ReceiveData(d, l)
      PROVE  d = "outport" /\ net[d][l] # <<>> /\ Head(net[d][l]).key = k
  <2>0. PICK seg \in Segment, r \in Session, n \in 0..SeqMod : DataStep(d, l, seg, r, n)
    BY <1>5, ReceiveDataFacts
  <2>1. /\ net[d][l] # <<>> /\ seg = Head(net[d][l])
        /\ sessions' = [sessions EXCEPT ![d][seg.key] = deliverInOrder(r, n)]
    BY <2>0 DEF DataStep
  <2>2. seg.key \in Keys
    BY DEF Segment
  <2>3. d = "outport" /\ seg.key = k
    BY <1>2, <2>1, <2>2
  <2> QED
    BY <2>1, <2>3
<1>6. ASSUME NEW d \in End, NEW l \in Links, ReceiveFin(d, l) PROVE FALSE
  <2> DEFINE j == Head(net[d][l]).key
  <2>1. net[d][l] # <<>> /\ sessions' = [sessions EXCEPT ![d][j] = NoSession]
    BY <1>6 DEF ReceiveFin, Accepts
  <2>2. j \in Keys
    BY <1>3, <2>1
  <2> HIDE DEF j
  <2> QED
    BY <1>2, <2>1, <2>2
<1>7. ASSUME NEW d \in End, NEW l \in Links, ReceiveDuplicate(d, l) \/ ReceiveOutOfWindow(d, l) PROVE FALSE
  BY <1>1, <1>7 DEF ReceiveDuplicate, ReceiveOutOfWindow
<1>8. ASSUME NEW j \in Keys, openSession(j) PROVE FALSE
  BY <1>0, <1>2, <1>8 DEF openSession
<1>9. ASSUME NEW d \in End, NEW j \in Keys, NEW p \in Payloads, sendSessionData(d, j, p) PROVE FALSE
  <2>1. /\ sessions[d][j] # NoSession
        /\ sessions' = [sessions EXCEPT ![d][j] =
              [sessions[d][j] EXCEPT !.next_send_seq = Plus(sessions[d][j].next_send_seq, 1)]]
    BY <1>9 DEF sendSessionData
  <2> QED
    BY <1>2, <2>1
<1>10. ASSUME NEW d \in End, NEW j \in Keys, closeSession(d, j) PROVE FALSE
  BY <1>2, <1>10 DEF closeSession
<1>11. ASSUME NEW d \in End, NEW l \in Links, LinkDown(d, l) \/ LinkDownNoticed(d, l) PROVE FALSE
  BY <1>1, <1>11 DEF LinkDown, LinkDownNoticed
<1>12. ASSUME NEW l \in Links, LinkUp(l) PROVE FALSE
  BY <1>1, <1>12 DEF LinkUp
<1>13. ~UNCHANGED vars
  BY <1>1 DEF vars
<1>14. \E d \in End, l \in Links : ReceiveSyn(d, l) \/ ReceiveData(d, l)
  BY <1>6, <1>7, <1>8, <1>9, <1>10, <1>11, <1>12, <1>13 DEF Next, onChannelBytes
<1> QED
  BY <1>4, <1>5, <1>14

(* A SYN leaves its link when its key is recorded. *)
LEMMA SynKeptStep ==
    ASSUME Lossless, BaseInv, AllUp, [Next]_vars, NEW k \in Keys,
           Len(dedup'["outport"]) < DedupRing, SynKept(k)
    PROVE  SynKept(k)'
<1>0. TypeOK /\ "outport" \in End
  BY DEF BaseInv, End
<1>1. Keyed \subseteq Keyed'
  BY <1>0, RingStep DEF Keyed
<1> SUFFICES ASSUME instances'["inport"][k] # 0, NEW l \in Links
             PROVE  Carries(net'["outport"][l], "SYN", k, 0) \/ SynKey(k) \in Keyed'
  BY DEF SynKept
<1>2. CASE instances["inport"][k] = 0
  BY <1>2, OpensOnLink
<1>3. CASE instances["inport"][k] # 0 /\ SynKey(k) \notin Keyed
  <2>1. PICK x \in Segment : OnLink(net["outport"][l], x) /\ x.kind = "SYN" /\ x.key = k /\ x.seq = 0
    BY <1>3 DEF SynKept, Carries
  <2>2. CASE OnLink(net'["outport"][l], x)
    BY <2>1, <2>2 DEF Carries
  <2>3. DedupKey(x) = SynKey(k)
    BY <2>1 DEF DedupKey, SynKey
  <2>4. ~(ReceiveOutOfWindow("outport", l) /\ x = Head(net["outport"][l]))
    BY <2>1 DEF ReceiveOutOfWindow, InWindow
  <2> QED
    BY <1>0, <2>1, <2>2, <2>3, <2>4, StaysOrRecorded
<1> QED
  BY <1>1, <1>2, <1>3

(* So does DATA a new relay would accept: outside the window it is old. *)
LEMMA DataKeptStep ==
    ASSUME Lossless, BaseInv, AllUp, OrderInv, [Next]_vars, NEW k \in Keys,
           Len(dedup'["outport"]) < DedupRing, DataKept(k), TakenKeyed(k)
    PROVE  DataKept(k)'
<1>0. TypeOK /\ "outport" \in End /\ Peer("outport") = "inport" /\ instances["inport"][k] <= 1
  BY DEF BaseInv, End, Peer, OrderInv
<1>1. Keyed \subseteq Keyed'
  BY <1>0, RingStep DEF Keyed
<1> SUFFICES ASSUME NEW l \in Links, NEW n \in SeqNum, n < Len(sent'["inport"][k]), n < RecvWindow
             PROVE  Carries(net'["outport"][l], "DATA", k, n) \/ DataKey(k, n) \in Keyed'
  BY DEF DataKept
<1>2. n < Len(sent["inport"][k]) \/ Carries(net'["outport"][l], "DATA", k, n)
  BY <1>0, WrittenOnLink
<1>3. CASE n < Len(sent["inport"][k]) /\ DataKey(k, n) \notin Keyed
  <2>1. PICK x \in Segment : OnLink(net["outport"][l], x) /\ x.kind = "DATA" /\ x.key = k /\ x.seq = n
    BY <1>3 DEF DataKept, Carries
  <2>2. CASE OnLink(net'["outport"][l], x)
    BY <2>1, <2>2 DEF Carries
  <2>3. DedupKey(x) = DataKey(k, n)
    BY <2>1 DEF DedupKey, DataKey
  <2>4. ASSUME ReceiveOutOfWindow("outport", l), x = Head(net["outport"][l]) PROVE FALSE
    <3>1. ~(Rel(n, Expected("outport", k)) < RecvWindow) /\ n \in Nat
      BY <2>1, <2>4 DEF ReceiveOutOfWindow, InWindow, SeqNum
    <3>2. CASE sessions["outport"][k] = NoSession
      BY <3>1, <3>2 DEF Expected, Rel
    <3>3. CASE sessions["outport"][k] # NoSession
      <4> DEFINE m == sessions["outport"][k].expected_rx_seq
      <4>1. m \in Nat /\ Expected("outport", k) = m
        <5>1. sessions["outport"][k] \in Session
          BY <1>0, <3>3 DEF TypeOK
        <5> QED
          BY <3>3, <5>1 DEF Session, SeqNum, Expected
      <4>2. n < m
        <5> SUFFICES ASSUME n >= m PROVE FALSE
          BY <3>1, <4>1
        <5>1. Rel(n, m) = n - m
          BY <3>1, <4>1 DEF Rel
        <5> HIDE DEF m
        <5> QED
          BY <3>1, <4>1, <5>1, WindowAssumption
      <4> QED
        BY <1>3, <3>3, <4>2 DEF TakenKeyed
    <3> QED
      BY <3>2, <3>3
  <2> QED
    BY <1>0, <2>1, <2>2, <2>3, <2>4, StaysOrRecorded
<1> QED
  BY <1>1, <1>2, <1>3

(* So does a FIN; and a client that leaves sends one on every link. *)
LEMMA FinKeptStep ==
    ASSUME Lossless, BaseInv, AllUp, [Next]_vars, NEW k \in Keys,
           Len(dedup'["outport"]) < DedupRing, FinKept(k)
    PROVE  FinKept(k)'
<1>0. TypeOK /\ "outport" \in End /\ "inport" \in End /\ Peer("outport") = "inport"
  BY DEF BaseInv, End, Peer
<1>1. Keyed \subseteq Keyed'
  BY <1>0, RingStep DEF Keyed
<1> SUFFICES ASSUME instances'["inport"][k] # 0, ~HasHandler("inport", k)', NEW l \in Links
             PROVE  \E n \in SeqNum : Carries(net'["outport"][l], "FIN", k, n) \/ FinKey(k, n) \in Keyed'
  BY DEF FinKept
<1>2. CASE Idle("inport", k)
  <2>1. instances["inport"][k] # 0 /\ ~HasHandler("inport", k)
    BY <1>2 DEF Idle
  <2>2. PICK n \in SeqNum : Carries(net["outport"][l], "FIN", k, n) \/ FinKey(k, n) \in Keyed
    BY <2>1 DEF FinKept
  <2>3. ASSUME Carries(net["outport"][l], "FIN", k, n)
        PROVE  Carries(net'["outport"][l], "FIN", k, n) \/ FinKey(k, n) \in Keyed'
    <3>1. PICK x \in Segment : OnLink(net["outport"][l], x) /\ x.kind = "FIN" /\ x.key = k /\ x.seq = n
      BY <2>3 DEF Carries
    <3>2. CASE OnLink(net'["outport"][l], x)
      BY <3>1, <3>2 DEF Carries
    <3>3. DedupKey(x) = FinKey(k, n)
      BY <3>1 DEF DedupKey, FinKey
    <3>4. ~(ReceiveOutOfWindow("outport", l) /\ x = Head(net["outport"][l]))
      BY <3>1 DEF ReceiveOutOfWindow, InWindow
    <3> QED
      BY <1>0, <3>1, <3>2, <3>3, <3>4, StaysOrRecorded
  <2> QED
    BY <1>1, <2>2, <2>3
<1>3. CASE Closed("outport", k)
  <2> DEFINE n == sessions["inport"][k].next_send_seq
             y == Marker("FIN", k, n)
  <2>1. HasHandler("inport", k) /\ net'["outport"][l] = Append(net["outport"][l], y)
    BY <1>0, <1>3 DEF Closed, Grows
  <2>2. n \in SeqNum
    BY <1>0, <2>1 DEF TypeOK, HasHandler, Session
  <2>3. y \in Segment /\ y.kind = "FIN" /\ y.key = k /\ y.seq = n
    BY <2>2, MarkerType DEF Marker
  <2>4. net["outport"][l] \in Seq(Segment)
    BY <1>0 DEF TypeOK
  <2> HIDE DEF n, y
  <2>5. OnLink(net'["outport"][l], y)
    BY <2>1, <2>3, <2>4, StillOnLink
  <2>6. Carries(net'["outport"][l], "FIN", k, n)
    BY <2>3, <2>5 DEF Carries
  <2> QED
    BY <2>2, <2>6
<1>4. ASSUME NEW p \in Payloads, Wrote("outport", k, p) PROVE FALSE
  <2> DEFINE s == sessions["inport"][k]
             t == [s EXCEPT !.next_send_seq = Plus(s.next_send_seq, 1)]
  <2>1. s # NoSession /\ s.handler /\ sessions' = [sessions EXCEPT !["inport"][k] = t]
    BY <1>0, <1>4 DEF Wrote, sendSessionData
  <2>2. s \in Session /\ sessions \in [End -> [Keys -> Session \cup {NoSession}]]
    BY <1>0, <2>1 DEF TypeOK
  <2>3. t \in Session /\ t.handler
    <3>1. Plus(s.next_send_seq, 1) \in SeqNum
      BY <2>2, WindowAssumption DEF Session, Plus, SeqNum
    <3> HIDE DEF s
    <3> QED
      BY <2>1, <2>2, <3>1 DEF Session
  <2>4. sessions'["inport"][k] = t
    <3> HIDE DEF t
    <3> QED
      BY <1>0, <2>1, <2>2
  <2> HIDE DEF t
  <2> QED
    BY <2>3, <2>4, SessionAssumption DEF HasHandler
<1>5. ~Opened("outport", k)
  BY DEF Opened
<1> QED
  BY <1>0, <1>2, <1>3, <1>4, <1>5, PathStep

(* What is stored or delivered has just been recorded, or was before. *)
LEMMA TakenKeyedStep ==
    ASSUME NoWrap, BaseInv, [Next]_vars, NEW k \in Keys,
           Len(dedup'["outport"]) < DedupRing, TakenKeyed(k)
    PROVE  TakenKeyed(k)'
<1> DEFINE s == sessions["outport"][k]
           t == sessions'["outport"][k]
           own == Len(sent["outport"][k])
           peer == Len(sent["inport"][k])
<1>0. /\ TypeOK /\ NumbersInv /\ "outport" \in End /\ "inport" \in End /\ Peer("outport") = "inport"
      /\ dedup["outport"] \in Seq(DedupKeyType)
  <2>1. TypeOK /\ NumbersInv /\ "outport" \in End /\ "inport" \in End /\ Peer("outport") = "inport"
    BY DEF BaseInv, End, Peer
  <2> QED
    BY <2>1 DEF TypeOK
<1>1. Keyed \subseteq Keyed'
  BY <1>0, RingStep DEF Keyed
<1> SUFFICES ASSUME t # NoSession, NEW n \in SeqNum, n < t.expected_rx_seq \/ t.rx_buffer[n] # NoPayload
             PROVE  DataKey(k, n) \in Keyed'
  BY DEF TakenKeyed
<1>2. ASSUME s # NoSession, n < s.expected_rx_seq \/ s.rx_buffer[n] # NoPayload
      PROVE  DataKey(k, n) \in Keyed'
  BY <1>1, <1>2 DEF TakenKeyed
<1>3. ASSUME NEW h, n < NewSession(h).expected_rx_seq \/ NewSession(h).rx_buffer[n] # NoPayload PROVE FALSE
  BY <1>3 DEF NewSession, SeqNum
<1>4. CASE Kept("outport", k)
  <2>1. CASE t = [s EXCEPT !.next_send_seq = Plus(s.next_send_seq, 1)] /\ s # NoSession
    <3>1. s \in Session
      BY <1>0, <2>1 DEF TypeOK
    <3>2. t.expected_rx_seq = s.expected_rx_seq /\ t.rx_buffer = s.rx_buffer
      BY <2>1, <3>1 DEF Session
    <3> QED
      BY <1>2, <2>1, <3>2
  <2>2. CASE t = s
    BY <1>2, <2>2
  <2>3. CASE t = NewSession(FALSE)
    BY <1>3, <2>3
  <2> QED
    BY <1>4, <2>1, <2>2, <2>3 DEF Kept
<1>5. CASE Attached("outport", k)
  BY <1>3, <1>5 DEF Attached
<1>6. ASSUME NEW seg \in Segment, NEW r \in Session, NEW m \in 0..SeqMod, DataRead("outport", k, seg, r, m)
      PROVE  DataKey(k, n) \in Keyed'
  <2> DEFINE b == Base("outport", k)
  <2>1. PICK l \in Links : net["outport"][l] # <<>> /\ seg = Head(net["outport"][l])
    BY <1>6 DEF DataRead
  <2>2. /\ seg.kind = "DATA" /\ seg.key = k /\ Rel(seg.seq, Expected("outport", k)) < RecvWindow
        /\ r = Emplace(b, seg) /\ RunLength(r, m) /\ t = deliverInOrder(r, m)
        /\ dedup'["outport"] = Remember(dedup["outport"], DedupKey(seg))
    BY <1>6 DEF DataRead
  <2>3. seg.seq \in SeqNum /\ DedupKey(seg) = DataKey(k, seg.seq) /\ DedupKey(seg) \in DedupKeyType
    BY <2>2 DEF Segment, DedupKey, DataKey, DedupKeyType
  <2>4. DataKey(k, seg.seq) \in Keyed'
    <3>1. DedupKey(seg) \in Recorded(dedup'["outport"])
      BY <1>0, <2>2, <2>3, RememberAll
    <3> QED
      BY <2>3, <3>1 DEF Keyed
  <2>5. own \in Nat /\ peer \in Nat /\ peer + RecvWindow <= SeqMod
    BY <1>0, SentBound
  <2>6. b \in Session /\ Expected("outport", k) = b.expected_rx_seq
    <3>1. b \in Session
      BY <1>0, BaseType
    <3> QED
      BY <3>1 DEF Base, Expected, NewSession
  <2>7. InRange(b, own, peer)
    <3>1. CASE s = NoSession
      BY <2>5, <3>1 DEF Base, InRange, NewSession
    <3>2. CASE s # NoSession
      BY <1>0, <3>2 DEF Base, NumbersInv
    <3> QED
      BY <3>1, <3>2
  <2>8. seg.seq < peer
    <3>1. net["outport"][l] \in Seq(Segment)
      BY <1>0 DEF TypeOK
    <3>2. OnLink(net["outport"][l], seg)
      BY <2>1, <3>1, HeadOnLink
    <3> QED
      BY <1>0, <2>2, <3>2 DEF NumbersInv
  <2>9. n < b.expected_rx_seq \/ b.rx_buffer[n] # NoPayload => DataKey(k, n) \in Keyed'
    BY <1>2, <1>3 DEF Base
  <2> HIDE DEF b, own, peer
  <2>10. InRange(r, own, peer)
    BY <2>2, <2>5, <2>6, <2>7, <2>8, EmplaceInRange
  <2>11. /\ \A i \in 0..(m - 1) : r.rx_buffer[r.expected_rx_seq + i] # NoPayload
         /\ t.expected_rx_seq = r.expected_rx_seq + m
    BY <2>2, <2>5, <2>10, DeliverNumbers
  <2>12. n < r.expected_rx_seq \/ r.rx_buffer[n] # NoPayload
    <3>0. r.expected_rx_seq \in Nat /\ n \in Nat /\ m \in Nat
      BY WindowAssumption DEF Session, SeqNum
    <3>1. CASE t.rx_buffer[n] # NoPayload
      BY <2>2, <3>1 DEF deliverInOrder, Session
    <3>2. CASE n < t.expected_rx_seq /\ n >= r.expected_rx_seq
      <4>1. n - r.expected_rx_seq \in 0..(m - 1) /\ r.expected_rx_seq + (n - r.expected_rx_seq) = n
        BY <2>11, <3>0, <3>2
      <4> QED
        BY <2>11, <4>1
    <3> QED
      BY <3>0, <3>1, <3>2
  <2>13. n = seg.seq \/ n < b.expected_rx_seq \/ b.rx_buffer[n] # NoPayload
    BY <2>2, <2>3, <2>6, <2>12 DEF Emplace, Session
  <2> QED
    BY <2>4, <2>9, <2>13
<1> QED
  BY <1>0, <1>4, <1>5, <1>6, HandlerStep

(* What ends a session for good stays so: no SYN and no DATA of it is fresh *)
(* and in the window.                                                       *)
LEMMA FinishedStep ==
    ASSUME NoWrap, Lossless, BaseInv, AllUp, OrderInv, OrderInv', SynsFirst, [Next]_vars, NEW k \in Keys,
           Len(dedup'["outport"]) < DedupRing, Finished(k)
    PROVE  Finished(k)'
<1>0. /\ TypeOK /\ NumbersInv /\ "outport" \in End /\ "inport" \in End /\ Peer("outport") = "inport"
      /\ instances["inport"][k] <= 1 /\ instances'["inport"][k] <= 1
  BY DEF BaseInv, End, Peer, OrderInv
<1>1. Keyed \subseteq Keyed'
  BY <1>0, RingStep DEF Keyed
<1>2. /\ sessions["outport"][k] = NoSession /\ instances["inport"][k] # 0 /\ ~HasHandler("inport", k)
      /\ SynKey(k) \in Keyed
      /\ \A n \in SeqNum : (n < Len(sent["inport"][k]) /\ n < RecvWindow) => DataKey(k, n) \in Keyed
  BY DEF Finished
<1>3. instances'["inport"][k] # 0 /\ instances'["inport"][k] = instances["inport"][k]
  <2>1. /\ instances["inport"][k] \in Nat
        /\ instances'["inport"][k] = instances["inport"][k] \/ instances'["inport"][k] = instances["inport"][k] + 1
    BY <1>0, InstancesGrow
  <2> QED
    BY <1>0, <1>2, <2>1
<1>4. ~HasHandler("inport", k)' /\ sent'["inport"][k] = sent["inport"][k]
  <2>1. \A p \in Payloads : ~sendSessionData("inport", k, p)
    BY <1>2 DEF sendSessionData, HasHandler
  <2>2. instances["inport"][k] \in Nat
    BY <1>0 DEF TypeOK
  <2> QED
    BY <1>0, <1>2, <1>3, <2>1, <2>2, WriterStep
<1>5. sessions'["outport"][k] = NoSession
  <2> SUFFICES ASSUME sessions'["outport"][k] # NoSession PROVE FALSE
    OBVIOUS
  <2>1. PICK l \in Links :
           /\ net["outport"][l] # <<>> /\ Head(net["outport"][l]).key = k
           /\ ReceiveSyn("outport", l) \/ ReceiveData("outport", l)
    BY <1>0, <1>2, RelayBegins
  <2> DEFINE y == Head(net["outport"][l])
  <2>2. y \in Segment /\ OnLink(net["outport"][l], y)
    <3>1. net["outport"][l] \in Seq(Segment)
      BY <1>0 DEF TypeOK
    <3> QED
      BY <2>1, <3>1, HeadOnLink
  <2>3. CASE ReceiveSyn("outport", l)
    <3>1. y.kind = "SYN" /\ DedupKey(y) \notin Keyed
      BY <2>3 DEF ReceiveSyn, Accepts, Fresh, Keyed
    <3>2. y.seq = 0
      BY <2>2, <3>1 DEF SynsFirst
    <3> QED
      BY <1>2, <2>1, <3>1, <3>2 DEF DedupKey, SynKey
  <2>4. CASE ReceiveData("outport", l)
    <3>1. y.kind = "DATA" /\ DedupKey(y) \notin Keyed /\ Rel(y.seq, Expected("outport", k)) < RecvWindow
      BY <2>1, <2>4 DEF ReceiveData, Accepts, Fresh, InWindow, Keyed
    <3>2. y.seq \in SeqNum /\ y.seq \in Nat
      BY <2>2 DEF Segment, SeqNum
    <3>3. y.seq < RecvWindow
      BY <1>2, <3>1, <3>2 DEF Expected, Rel
    <3>4. y.seq < Len(sent["inport"][k])
      BY <1>0, <2>1, <2>2, <3>1 DEF NumbersInv
    <3> QED
      BY <1>2, <2>1, <3>1, <3>2, <3>3, <3>4 DEF DedupKey, DataKey
  <2> QED
    BY <2>1, <2>3, <2>4
<1> QED
  BY <1>1, <1>2, <1>3, <1>4, <1>5 DEF Finished

(* A FIN that is accepted finishes its session. *)
LEMMA FinRead ==
    ASSUME Lossless, BaseInv, OrderInv, NEW k \in Keys, NEW l \in Links, ReceiveFin("outport", l),
           Head(net["outport"][l]).key = k, SynKept(k), DataKept(k), Keyed \subseteq Keyed'
    PROVE  Finished(k)'
<1> DEFINE q == net["outport"][l]
           y == Head(q)
<1>0. /\ TypeOK /\ "outport" \in End /\ "inport" \in End /\ Peer("outport") = "inport"
      /\ instances["inport"][k] <= 1
  BY DEF BaseInv, End, Peer, OrderInv
<1>1. q \in Seq(Segment) /\ sessions \in [End -> [Keys -> Session \cup {NoSession}]]
  BY <1>0 DEF TypeOK
<1>2. /\ q # <<>> /\ y.key = k /\ y.kind = "FIN"
      /\ sessions' = [sessions EXCEPT !["outport"][k] = NoSession]
      /\ sent' = sent /\ instances' = instances
  BY DEF ReceiveFin, Accepts
<1>3. y \in Segment /\ OnLink(q, y)
  BY <1>1, <1>2, HeadOnLink
<1>4. Ordered(q, k) /\ instances["inport"][k] # 0 /\ ~HasHandler("inport", k)
  BY <1>0, <1>2, <1>3 DEF OrderInv, OrderAt
<1>5. ASSUME NEW kind \in {"SYN", "DATA"}, NEW n, Carries(q, kind, k, n) PROVE FALSE
  <2> HIDE DEF q
  <2>1. PICK x \in Segment : OnLink(q, x) /\ x.kind = kind /\ x.key = k
    BY <1>5 DEF Carries
  <2>2. x = y \/ Follows(y, x)
    BY <1>1, <1>2, <1>4, <2>1, HeadFirst
  <2> QED
    BY <1>2, <2>1, <2>2 DEF Follows
<1>6. SynKey(k) \in Keyed
  BY <1>4, <1>5 DEF SynKept
<1>7. \A n \in SeqNum : (n < Len(sent["inport"][k]) /\ n < RecvWindow) => DataKey(k, n) \in Keyed
  BY <1>5 DEF DataKept
<1>8. sessions'["outport"][k] = NoSession /\ sessions'["inport"][k] = sessions["inport"][k]
  BY <1>0, <1>1, <1>2
<1> QED
  BY <1>2, <1>4, <1>6, <1>7, <1>8 DEF Finished, HasHandler

(* LeakInv is inductive while no link is lost. *)
LEMMA LeakStep ==
    ASSUME NoWrap, Lossless, BaseInv, AllUp, OrderInv, OrderInv', LeakInv, [Next]_vars
    PROVE  LeakInv'
<1>0. TypeOK /\ "outport" \in End /\ SynsFirst
  BY DEF BaseInv, End, LeakInv
<1>1. SynsFirst'
  BY <1>0, SynsFirstStep
<1>2. ASSUME RelayRingNotFull', NEW k \in Keys PROVE LeakAt(k)'
  <2>0. Len(dedup'["outport"]) < DedupRing
    BY <1>2 DEF RelayRingNotFull
  <2>1. LeakAt(k) /\ Keyed \subseteq Keyed'
    BY <1>0, <2>0, RingStep DEF LeakInv, Keyed, RelayRingNotFull
  <2>2. SynKept(k) /\ DataKept(k) /\ FinKept(k) /\ TakenKeyed(k)
        /\ \A n \in SeqNum : FinKey(k, n) \in Keyed => Finished(k)
    BY <2>1 DEF LeakAt
  <2>3. SynKept(k)'
    BY <2>0, <2>2, SynKeptStep
  <2>4. DataKept(k)'
    BY <2>0, <2>2, DataKeptStep
  <2>5. FinKept(k)'
    BY <2>0, <2>2, FinKeptStep
  <2>6. TakenKeyed(k)'
    BY <2>0, <2>2, TakenKeyedStep
  <2>7. ASSUME NEW n \in SeqNum, FinKey(k, n) \in Keyed' PROVE Finished(k)'
    <3>1. CASE FinKey(k, n) \in Keyed
      BY <1>0, <2>0, <2>2, <3>1, FinishedStep
    <3>2. CASE FinKey(k, n) \notin Keyed
      <4>1. PICK l \in Links :
               /\ net["outport"][l] # <<>> /\ FinKey(k, n) = DedupKey(Head(net["outport"][l]))
               /\ ReceiveSyn("outport", l) \/ ReceiveFin("outport", l) \/ ReceiveData("outport", l)
        BY <1>0, <2>7, <3>2, RecordedStep DEF Keyed
      <4>2. Head(net["outport"][l]).kind = "FIN" /\ Head(net["outport"][l]).key = k
        BY <4>1 DEF FinKey, DedupKey
      <4>3. ReceiveFin("outport", l)
        BY <4>1, <4>2 DEF ReceiveSyn, ReceiveData, Accepts
      <4> QED
        BY <2>1, <2>2, <4>2, <4>3, FinRead
    <3> QED
      BY <3>1, <3>2
  <2> QED
    BY <2>3, <2>4, <2>5, <2>6, <2>7 DEF LeakAt
<1> QED
  BY <1>1, <1>2 DEF LeakInv

(* At the start there is nothing to leak. *)
LEMMA LeakInit == ASSUME Init PROVE LeakInv
<1>0. "inport" \in End /\ "outport" \in End
  BY DEF End
<1>1. /\ \A e \in End, k \in Keys : instances[e][k] = 0 /\ sessions[e][k] = NoSession /\ sent[e][k] = <<>>
      /\ \A e \in End, l \in Links : net[e][l] = <<>>
      /\ \A e \in End : dedup[e] = <<>>
  BY DEF Init
<1>2. SynsFirst
  BY <1>0, <1>1 DEF SynsFirst, OnLink
<1>3. Keyed = {}
  BY <1>0, <1>1 DEF Keyed, Recorded
<1>4. ASSUME NEW k \in Keys PROVE LeakAt(k)
  <2>1. SynKept(k) /\ FinKept(k) /\ TakenKeyed(k)
    BY <1>0, <1>1 DEF SynKept, FinKept, TakenKeyed
  <2>2. DataKept(k)
    BY <1>0, <1>1 DEF DataKept, SeqNum
  <2> QED
    BY <1>3, <2>1, <2>2 DEF LeakAt
<1> QED
  BY <1>2, <1>4 DEF LeakInv

(* NoLeak: with every segment on every link and no link lost, and as long   *)
(* as the Outport's dedup ring has dropped no key, a session its client has *)
(* left (closeSession at the Inport, or the answer to the relay's FIN) and  *)
(* of which nothing is on the way any more is gone from sessions_ of the    *)
(* Outport too, however the two FINs crossed.                               *)
THEOREM NoLeakAlways ==
    ASSUME NoWrap, Lossless, Links # {} PROVE Spec => [](RelayRingNotFull => NoLeak)
<1>1. Spec => [](BaseInv /\ Reliable)
  BY ReliableAlways
<1>2. Init => LeakInv
  BY LeakInit
<1>3. BaseInv /\ Reliable /\ Reliable' /\ LeakInv /\ [Next]_vars => LeakInv'
  BY LeakStep DEF Reliable
<1>4. LeakInv => (RelayRingNotFull => NoLeak)
  <2> SUFFICES ASSUME LeakInv, RelayRingNotFull, NEW k \in Keys, instances["inport"][k] > 0,
                      sessions["inport"][k] = NoSession, Drained(k)
               PROVE  sessions["outport"][k] = NoSession
    BY DEF NoLeak
  <2>0. "outport" \in End
    BY DEF End
  <2>1. LeakAt(k)
    BY DEF LeakInv
  <2>2. PICK l \in Links : TRUE
    OBVIOUS
  <2>3. instances["inport"][k] # 0 /\ ~HasHandler("inport", k)
    BY DEF HasHandler
  <2>4. PICK n \in SeqNum : Carries(net["outport"][l], "FIN", k, n) \/ FinKey(k, n) \in Keyed
    BY <2>1, <2>3 DEF LeakAt, FinKept
  <2>5. ~Carries(net["outport"][l], "FIN", k, n)
    <3> SUFFICES ASSUME NEW i \in 1..Len(net["outport"][l]), net["outport"][l][i].key = k PROVE FALSE
      BY DEF Carries, OnLink
    <3> QED
      BY <2>0 DEF Drained
  <2> QED
    BY <2>1, <2>4, <2>5 DEF LeakAt, Finished
<1> QED
  BY <1>1, <1>2, <1>3, <1>4, PTL DEF Spec
=============================================================================
