------------------------ MODULE RacingArbiterProofs ------------------------
(* Theorems about the feedback loop, for every set of links and any number  *)
(* of segments, heartbeats and losses.                                      *)
EXTENDS RacingArbiter, FiniteSetTheorems, WellFoundedInduction, TLAPS

-----------------------------------------------------------------------------
(* pickPrimaryLocked compares win-rates without dividing: win[i] / part[i]  *)
(* against win[j] / part[j] by the cross products.                          *)

(* Comparing fractions by cross products is transitive, and strictly so if  *)
(* one of the two comparisons is strict.                                    *)
LEMMA CrossTransitive ==
    ASSUME NEW a \in Nat, NEW b \in Nat, NEW c \in Nat,
           NEW p \in Nat \ {0}, NEW q \in Nat \ {0}, NEW r \in Nat \ {0},
           a * q >= b * p, b * r >= c * q
    PROVE  /\ a * r >= c * p
           /\ (a * q > b * p \/ b * r > c * q) => a * r > c * p
<1> DEFINE x == a * r
           y == c * p
<1>1. x \in Nat /\ y \in Nat
  OBVIOUS
<1>2. (a * q) * r >= (b * p) * r /\ (a * q > b * p => (a * q) * r > (b * p) * r)
  OBVIOUS
<1>3. (b * r) * p >= (c * q) * p /\ (b * r > c * q => (b * r) * p > (c * q) * p)
  OBVIOUS
<1>4. (a * q) * r = x * q /\ (c * q) * p = y * q /\ (b * p) * r = (b * r) * p
  OBVIOUS
<1> HIDE DEF x, y
<1>5. x * q >= y * q /\ ((a * q > b * p \/ b * r > c * q) => x * q > y * q)
  BY <1>2, <1>3, <1>4
<1>6. x >= y /\ (x * q > y * q => x > y)
  BY <1>1, <1>5
<1> QED
  BY <1>5, <1>6 DEF x, y

Counters == win \in [Links -> Nat] /\ part \in [Links -> Nat]

LEMMA BetterTransitive ==
    ASSUME Counters, NEW i \in Measured, NEW j \in Measured, NEW k \in Measured,
           Better(i, j), Better(j, k)
    PROVE  Better(i, k)
<1>1. /\ win[i] \in Nat /\ win[j] \in Nat /\ win[k] \in Nat
      /\ part[i] \in Nat \ {0} /\ part[j] \in Nat \ {0} /\ part[k] \in Nat \ {0}
      /\ i \in Nat /\ j \in Nat /\ k \in Nat
  BY LinksAssumption DEF Counters, Measured
<1> DEFINE ij == win[i] * part[j]
           ji == win[j] * part[i]
           jk == win[j] * part[k]
           kj == win[k] * part[j]
           ik == win[i] * part[k]
           ki == win[k] * part[i]
<1>2. ij \in Nat /\ ji \in Nat /\ jk \in Nat /\ kj \in Nat /\ ik \in Nat /\ ki \in Nat
  BY <1>1
<1>3. /\ ij > ji \/ (ij = ji /\ part[i] > part[j]) \/ (ij = ji /\ part[i] = part[j] /\ i < j)
      /\ jk > kj \/ (jk = kj /\ part[j] > part[k]) \/ (jk = kj /\ part[j] = part[k] /\ j < k)
  BY DEF Better
<1>4. ij >= ji /\ jk >= kj
  BY <1>2, <1>3
<1>5. ik >= ki /\ ((ij > ji \/ jk > kj) => ik > ki)
  BY <1>1, <1>4, CrossTransitive
<1> HIDE DEF ij, ji, jk, kj, ik, ki
<1>6. ik > ki \/ (ik = ki /\ part[i] > part[k]) \/ (ik = ki /\ part[i] = part[k] /\ i < k)
  BY <1>1, <1>2, <1>3, <1>5
<1> QED
  BY <1>6 DEF Better, ik, ki

LEMMA BetterTotal ==
    ASSUME Counters, NEW i \in Measured, NEW j \in Measured
    PROVE  /\ i = j \/ Better(i, j) \/ Better(j, i)
           /\ ~Better(i, i)
<1>1. /\ win[i] \in Nat /\ win[j] \in Nat /\ part[i] \in Nat /\ part[j] \in Nat
      /\ i \in Nat /\ j \in Nat
  BY LinksAssumption DEF Counters, Measured
<1> DEFINE ij == win[i] * part[j]
           ji == win[j] * part[i]
           ii == win[i] * part[i]
<1>2. ij \in Nat /\ ji \in Nat /\ ii \in Nat
  BY <1>1
<1> HIDE DEF ij, ji, ii
<1>3. /\ Better(i, j) <=> \/ ij > ji \/ (ij = ji /\ part[i] > part[j])
                          \/ (ij = ji /\ part[i] = part[j] /\ i < j)
      /\ Better(j, i) <=> \/ ji > ij \/ (ji = ij /\ part[j] > part[i])
                          \/ (ji = ij /\ part[j] = part[i] /\ j < i)
      /\ Better(i, i) <=> \/ ii > ii \/ (ii = ii /\ part[i] > part[i])
                          \/ (ii = ii /\ part[i] = part[i] /\ i < i)
  BY DEF Better, ij, ji, ii
<1> QED
  BY <1>1, <1>2, <1>3

(* There is a best link as soon as one was measured: the least of the       *)
(* nonempty sets of links that beat every link outside has one element.     *)
LEMMA BestExists ==
    ASSUME Counters, Measured # {}
    PROVE  \E i \in Measured : \A j \in Measured \ {i} : Better(i, j)
<1> DEFINE T == {U \in SUBSET Measured : U # {} /\ \A i \in U, j \in Measured \ U : Better(i, j)}
           R == StrictSubsetOrdering(Measured)
<1>1. IsFiniteSet(Measured)
  BY LinksAssumption, FS_Subset DEF Measured
<1>2. IsWellFoundedOn(R, SUBSET Measured)
  BY <1>1, FS_StrictSubsetOrderingWellFounded, FS_FiniteSubsetsOfFinite
<1>3. Measured \in T /\ T \subseteq SUBSET Measured
  OBVIOUS
<1>4. PICK U \in T : \A V \in T : ~(<<V, U>> \in R)
  <2> HIDE DEF T, R
  <2> QED
    BY <1>2, <1>3, WFMin
<1>5. ASSUME NEW V \in T, V \subseteq U PROVE V = U
  BY <1>4, <1>5 DEF StrictSubsetOrdering
<1>6. PICK x \in U : x \in Measured
  OBVIOUS
<1> DEFINE V == {i \in U : Better(i, x)}
<1>7. V = {}
  <2> SUFFICES ASSUME V # {} PROVE FALSE
    OBVIOUS
  <2>1. ASSUME NEW i \in V, NEW j \in Measured \ V PROVE Better(i, j)
    <3>1. i \in U /\ i \in Measured /\ Better(i, x)
      OBVIOUS
    <3>2. CASE j \notin U
      BY <3>1, <3>2
    <3>3. CASE j \in U
      <4>1. ~Better(j, x)
        BY <3>3
      <4>2. j = x \/ Better(x, j)
        BY <1>6, <4>1, BetterTotal
      <4> QED
        BY <1>6, <3>1, <4>2, BetterTransitive
    <3> QED
      BY <3>2, <3>3
  <2>2. V \in T /\ V \subseteq U
    BY <2>1
  <2>3. V = U
    <3> HIDE DEF V, T
    <3> QED
      BY <2>2, <1>5
  <2>4. Better(x, x)
    BY <2>3
  <2> QED
    BY <1>6, <2>4, BetterTotal
<1>8. \A j \in U \ {x} : Better(x, j)
  BY <1>6, <1>7, BetterTotal
<1>9. \A j \in Measured \ {x} : Better(x, j)
  BY <1>6, <1>8
<1> QED
  BY <1>6, <1>9

(* What pickPrimaryLocked answers. *)
LEMMA PickIs ==
    ASSUME Counters
    PROVE  LET best == pickPrimaryLocked
           IN  \/ best = 0 /\ Measured = {}
               \/ best \in Measured /\ \A j \in Measured \ {best} : Better(best, j)
BY BestExists DEF pickPrimaryLocked

-----------------------------------------------------------------------------
(* Type correctness.                                                        *)

NetType == net \in [End -> [Links -> Seq(Message)]]

LEMMA MsgType ==
    ASSUME NEW t \in {"hello", "data", "ack", "closed"}, NEW n \in Nat, NEW l \in Links \cup {0}
    PROVE  Msg(t, n, l) \in Message
BY DEF Msg, Message

LEMMA HelloType ==
    ASSUME generation \in [End -> Nat], NEW e \in End, NEW l \in Links
    PROVE  Hello(e, l) \in Seq(Message)
<1>1. generation[Peer(e)] \in Nat
  BY DEF Peer, End
<1>2. Msg("hello", generation[Peer(e)], IF e = "arbiter" THEN l ELSE 0) \in Message
  BY <1>1, MsgType
<1> QED
  BY <1>2 DEF Hello

(* The message that is read next. *)
LEMMA ReadType ==
    ASSUME NetType, NEW e \in End, NEW l \in Links, NEW t, Reads(e, l, t)
    PROVE  /\ net[e][l] \in Seq(Message) /\ net[e][l] # <<>>
           /\ Head(net[e][l]) \in Message /\ Head(net[e][l]).type = t
           /\ Head(net[e][l]).num \in Nat /\ Head(net[e][l]).link \in Links \cup {0}
           /\ Tail(net[e][l]) \in Seq(Message)
<1>1. net[e][l] \in Seq(Message) /\ net[e][l] # <<>> /\ Head(net[e][l]).type = t
  BY DEF NetType, Reads
<1>2. Head(net[e][l]) \in Message /\ Tail(net[e][l]) \in Seq(Message)
  BY <1>1
<1> QED
  BY <1>1, <1>2 DEF Message

LEMMA ConsumeType ==
    ASSUME NetType, NEW e \in End, NEW l \in Links, NEW t, Reads(e, l, t), Consume(e, l)
    PROVE  NetType' /\ (stalled \in [End -> SUBSET Links] => stalled' \in [End -> SUBSET Links])
<1>1. Tail(net[e][l]) \in Seq(Message)
  BY ReadType
<1>2. NetType'
  BY <1>1 DEF NetType, Consume
<1>3. stalled \in [End -> SUBSET Links] => stalled' \in [End -> SUBSET Links]
  BY DEF Consume
<1> QED
  BY <1>2, <1>3

LEMMA CutType ==
    ASSUME NetType, live \in [End -> SUBSET Links], NEW e \in End, NEW S \in SUBSET Links, Cut(e, S)
    PROVE  /\ NetType' /\ live' \in [End -> SUBSET Links]
           /\ stalled \in [End -> SUBSET Links] => stalled' \in [End -> SUBSET Links]
           /\ carried \subseteq Links => carried' \subseteq Links
<1>1. Msg("closed", 0, 0) \in Message
  BY MsgType
<1>2. NetType'
  BY <1>1 DEF NetType, Cut
<1>3. live' \in [End -> SUBSET Links]
  BY DEF Cut
<1>4. /\ stalled \in [End -> SUBSET Links] => stalled' \in [End -> SUBSET Links]
      /\ carried \subseteq Links => carried' \subseteq Links
  BY DEF Cut
<1> QED
  BY <1>2, <1>3, <1>4

(* What the stall check of a heartbeat may write. *)
LEMMA StallType ==
    ASSUME TypeOK, NEW e \in End, NEW S \in SUBSET Links, evaluateStall(e, S)
    PROVE  stalled' \in [End -> SUBSET Links] /\ stalls' \in Nat
<1>1. stalled \in [End -> SUBSET Links] /\ stalls \in Nat
  BY DEF TypeOK
<1> QED
  BY <1>1 DEF evaluateStall

(* Halving keeps counts counts and their order. *)
LEMMA Halved ==
    ASSUME NEW a \in Nat, NEW b \in Nat, a <= b
    PROVE  a \div 2 \in Nat /\ b \div 2 \in Nat /\ a \div 2 <= b \div 2
OBVIOUS

LEMMA TypeInit == Init => TypeOK
<1> SUFFICES ASSUME Init PROVE TypeOK
  OBVIOUS
<1>1. generation \in [End -> Nat] /\ peer_generation \in [End -> Nat]
  BY DEF Init
<1>2. net \in [End -> [Links -> Seq(Message)]]
  BY <1>1, HelloType DEF Init
<1> QED
  BY <1>1, <1>2, LinksAssumption, BoundAssumption DEF Init, TypeOK, Zero, Never, Unseen

LEMMA TypeStep == TypeOK /\ [Next]_vars => TypeOK'
<1> SUFFICES ASSUME TypeOK, [Next]_vars PROVE TypeOK'
  OBVIOUS
<1>0. /\ NetType /\ Counters /\ live \in [End -> SUBSET Links]
      /\ segs \in Nat /\ ticks \in Nat /\ downs \in Nat /\ stalls \in Nat /\ restarts \in Nat
      /\ stalled \in [End -> SUBSET Links] /\ carried \subseteq Links
  BY DEF TypeOK, NetType, Counters
<1>1. CASE sendSegment
  <2>1. Msg("data", segs', 0) \in Message /\ segs' \in Nat
    BY <1>0, <1>1, MsgType DEF sendSegment
  <2>2. NetType'
    BY <1>0, <1>1, <2>1 DEF sendSegment, NetType, End
  <2>3. rotation' \in 0..(RotMod - 1)
    BY <1>1, LinksAssumption DEF sendSegment, LS!Rotated, TypeOK
  <2> QED
    BY <1>1, <2>1, <2>2, <2>3 DEF sendSegment, TypeOK, NetType, arbiterVars
<1>2. ASSUME NEW S \in SUBSET Links, emitFeedback(S) PROVE TypeOK'
  <2> DEFINE best == pickPrimaryLocked
  <2>1. best = 0 \/ best \in Links
    BY <1>0, PickIs DEF Measured
  <2> HIDE DEF best
  <2>2. /\ win' = [l \in Links |-> win[l] \div 2] /\ part' = [l \in Links |-> part[l] \div 2]
        /\ beaten' = [l \in Links |-> IF beaten[l] = "never" THEN "never" ELSE "before"]
        /\ ticks' = ticks + 1
        /\ UNCHANGED <<live, generation, peer_generation, senderVars, peer_channel, winner,
                       segs, downs, restarts>>
    BY <1>2 DEF emitFeedback
  <2>s. stalled' \in [End -> SUBSET Links] /\ stalls' \in Nat
    BY <1>2, StallType DEF emitFeedback, End
  <2>3. /\ win' \in [Links -> Nat] /\ part' \in [Links -> Nat]
        /\ \A l \in Links : win'[l] <= part'[l]
    <3>1. \A l \in Links : win[l] \in Nat /\ part[l] \in Nat /\ win[l] <= part[l]
      BY DEF TypeOK
    <3>2. \A l \in Links : /\ win[l] \div 2 \in Nat /\ part[l] \div 2 \in Nat
                            /\ win[l] \div 2 <= part[l] \div 2
      BY <3>1, Halved
    <3> QED
      BY <2>2, <3>2
  <2>4. /\ beaten' \in [Links -> {"never", "before", "now"}] /\ ticks' \in Nat
    BY <2>2, <1>0
  <2>5. feedback_epoch' \in Nat /\ decided' \in Seq(Links) /\ NetType' /\ carried' \subseteq Links
    <3>1. CASE best = 0
      BY <1>0, <1>2, <3>1 DEF emitFeedback, TypeOK, NetType, best
    <3>2. CASE best # 0
      <4>1. best \in Links
        BY <2>1, <3>2
      <4>2. /\ feedback_epoch' = feedback_epoch + 1 /\ decided' = Append(decided, best)
            /\ carried' = (live["arbiter"] \ stalled'["arbiter"]) \cap live["sender"]
            /\ net' = [net EXCEPT !["sender"] = [l \in Links |->
                             IF l \in carried' THEN Append(@[l], Msg("ack", feedback_epoch', best)) ELSE @[l]]]
        BY <1>2, <3>2 DEF emitFeedback, best
      <4>3. feedback_epoch' \in Nat /\ decided' \in Seq(Links)
        BY <4>1, <4>2 DEF TypeOK
      <4>4. Msg("ack", feedback_epoch', best) \in Message
        BY <4>1, <4>3, MsgType
      <4>5. NetType'
        BY <1>0, <4>2, <4>4 DEF NetType, End
      <4>6. carried' \subseteq Links
        BY <1>0, <4>2 DEF End
      <4> QED
        BY <4>3, <4>5, <4>6
    <3> QED
      BY <3>1, <3>2
  <2> QED
    BY <2>2, <2>s, <2>3, <2>4, <2>5 DEF TypeOK, NetType, senderVars
<1>3. ASSUME NEW l \in Links, onAck(l) PROVE TypeOK'
  <2>1. /\ Head(net["sender"][l]).num \in Nat /\ Head(net["sender"][l]).link \in Links \cup {0}
        /\ NetType' /\ stalled' \in [End -> SUBSET Links]
    BY <1>0, <1>3, ReadType, ConsumeType DEF onAck, End
  <2> QED
    BY <1>3, <2>1 DEF onAck, TypeOK, NetType, arbiterVars, counts
<1>4. ASSUME NEW l \in Links, RaceWon(l) PROVE TypeOK'
  <2>1. NetType' /\ stalled' \in [End -> SUBSET Links] /\ peer_channel[l] \in Links \cup {0}
    BY <1>0, <1>4, ConsumeType DEF RaceWon, End, TypeOK
  <2>2. /\ win' \in [Links -> Nat] /\ part' \in [Links -> Nat] /\ \A k \in Links : win'[k] <= part'[k]
        /\ winner' \in [1..MaxSegs -> Links \cup {0}]
    <3>1. /\ win \in [Links -> Nat] /\ part \in [Links -> Nat] /\ \A k \in Links : win[k] <= part[k]
          /\ winner \in [1..MaxSegs -> Links \cup {0}]
      BY DEF TypeOK
    <3>2. winner' \in [1..MaxSegs -> Links \cup {0}]
      BY <1>4, <3>1 DEF RaceWon
    <3>3. CASE peer_channel[l] = 0
      BY <1>4, <3>1, <3>2, <3>3 DEF RaceWon
    <3>4. CASE peer_channel[l] # 0
      <4> DEFINE c == peer_channel[l]
      <4>1. c \in Links /\ win' = [win EXCEPT ![c] = @ + 1] /\ part' = [part EXCEPT ![c] = @ + 1]
        BY <1>4, <2>1, <3>4 DEF RaceWon
      <4> HIDE DEF c
      <4> QED
        BY <3>1, <3>2, <4>1
    <3> QED
      BY <3>3, <3>4
  <2> QED
    BY <1>4, <2>1, <2>2 DEF RaceWon, TypeOK, NetType, senderVars, counts
<1>5. ASSUME NEW l \in Links, RaceLost(l) PROVE TypeOK'
  <2>1. NetType' /\ stalled' \in [End -> SUBSET Links] /\ peer_channel[l] \in Links \cup {0}
    BY <1>0, <1>5, ConsumeType DEF RaceLost, End, TypeOK
  <2>2. /\ part' \in [Links -> Nat] /\ \A k \in Links : win[k] <= part'[k]
        /\ beaten' \in [Links -> {"never", "before", "now"}]
    <3>1. /\ win \in [Links -> Nat] /\ part \in [Links -> Nat] /\ \A k \in Links : win[k] <= part[k]
          /\ beaten \in [Links -> {"never", "before", "now"}]
      BY DEF TypeOK
    <3>2. beaten' \in [Links -> {"never", "before", "now"}]
      BY <1>5, <2>1, <3>1 DEF RaceLost
    <3>3. CASE peer_channel[l] = 0
      BY <1>5, <3>1, <3>2, <3>3 DEF RaceLost
    <3>4. CASE peer_channel[l] # 0
      <4> DEFINE c == peer_channel[l]
      <4>1. c \in Links /\ part' = [part EXCEPT ![c] = @ + 1]
        BY <1>5, <2>1, <3>4 DEF RaceLost
      <4> HIDE DEF c
      <4> QED
        BY <3>1, <3>2, <4>1
    <3> QED
      BY <3>3, <3>4
  <2> QED
    BY <1>5, <2>1, <2>2 DEF RaceLost, TypeOK, NetType, senderVars, counts
<1>6. ASSUME NEW l \in Links, Reconnect(l) PROVE TypeOK'
  <2>1. \A e \in End : Hello(e, l) \in Seq(Message)
    BY HelloType DEF TypeOK
  <2>2. NetType'
    BY <1>0, <1>6, <2>1 DEF Reconnect, NetType
  <2>3. live' \in [End -> SUBSET Links] /\ peer_channel' \in [Links -> Links \cup {0}]
    BY <1>6 DEF Reconnect, TypeOK
  <2> QED
    BY <1>6, <2>2, <2>3 DEF Reconnect, TypeOK, NetType, senderVars, counts
<1>7. ASSUME NEW e \in End, NEW l \in Links, onHello(e, l) PROVE TypeOK'
  <2>1. /\ Head(net[e][l]).num \in Nat /\ Head(net[e][l]).link \in Links \cup {0}
        /\ NetType' /\ stalled' \in [End -> SUBSET Links]
    BY <1>0, <1>7, ReadType, ConsumeType DEF onHello
  <2>2. peer_generation' \in [End -> Nat] /\ applied_epoch' \in Nat
    <3>1. peer_generation' = [peer_generation EXCEPT ![e] = Head(net[e][l]).num]
      BY <1>7 DEF onHello
    <3>2. applied_epoch' = applied_epoch \/ applied_epoch' = 0
      BY <1>7 DEF onHello
    <3>3. peer_generation \in [End -> Nat] /\ applied_epoch \in Nat
      BY DEF TypeOK
    <3>4. peer_generation' \in [End -> Nat]
      BY <2>1, <3>1, <3>3
    <3> QED
      BY <3>2, <3>3, <3>4
  <2>3. /\ peer_channel' \in [Links -> Links \cup {0}]
        /\ win' \in [Links -> Nat] /\ part' \in [Links -> Nat] /\ \A k \in Links : win'[k] <= part'[k]
        /\ beaten' \in [Links -> {"never", "before", "now"}]
    <3>1. peer_channel' = peer_channel \/ peer_channel' = [peer_channel EXCEPT ![l] = Head(net[e][l]).link]
      BY <1>7 DEF onHello
    <3>2. UNCHANGED <<win, part>> \/ (win' = Zero /\ part' = Zero) \/ (win' = Zero /\ UNCHANGED part)
      BY <1>7 DEF onHello
    <3>3. beaten' = beaten \/ beaten' = Never
      BY <1>7 DEF onHello
    <3>4. peer_channel' \in [Links -> Links \cup {0}]
      BY <2>1, <3>1 DEF TypeOK
    <3>5. /\ Zero \in [Links -> Nat] /\ Never \in [Links -> {"never", "before", "now"}]
          /\ \A k \in Links : Zero[k] <= Zero[k] /\ Zero[k] = 0
      BY DEF Zero, Never
    <3>6. /\ win \in [Links -> Nat] /\ part \in [Links -> Nat] /\ \A k \in Links : win[k] <= part[k]
          /\ beaten \in [Links -> {"never", "before", "now"}]
      BY DEF TypeOK
    <3>7. \A k \in Links : 0 <= part[k]
      BY <3>6
    <3> QED
      BY <3>2, <3>3, <3>4, <3>5, <3>6, <3>7
  <2> QED
    BY <1>7, <2>1, <2>2, <2>3 DEF onHello, TypeOK, NetType, counts
<1>8. ASSUME NEW e \in End, NEW l \in Links, LinkDown(e, l) PROVE TypeOK'
  <2>1. /\ NetType' /\ live' \in [End -> SUBSET Links]
        /\ stalled' \in [End -> SUBSET Links] /\ carried' \subseteq Links
    BY <1>0, <1>8, CutType DEF LinkDown
  <2>2. /\ downs' = downs + 1
        /\ UNCHANGED <<generation, peer_generation, senderVars, arbiterVars, segs, ticks, stalls, restarts>>
    BY <1>8 DEF LinkDown
  <2> QED
    BY <1>0, <2>1, <2>2 DEF TypeOK, NetType, senderVars, arbiterVars
<1>9. ASSUME NEW e \in End, NEW l \in Links, onClosed(e, l) PROVE TypeOK'
  <2>1. NetType' /\ stalled' \in [End -> SUBSET Links]
    BY <1>0, <1>9, ConsumeType DEF onClosed
  <2> QED
    BY <1>9, <2>1 DEF onClosed, TypeOK, NetType, senderVars, arbiterVars, counts
<1>10. ASSUME NEW e \in End, Restart(e) PROVE TypeOK'
  <2>1. /\ NetType' /\ live' \in [End -> SUBSET Links]
        /\ stalled' \in [End -> SUBSET Links] /\ carried' \subseteq Links
    BY <1>0, <1>10, CutType DEF Restart
  <2>2. generation' \in [End -> Nat] /\ peer_generation' \in [End -> Nat]
    BY <1>10 DEF Restart, TypeOK
  <2>3. {segs', ticks', downs', stalls', restarts'} \subseteq Nat
    BY <1>0, <1>10 DEF Restart
  <2>4. primary' \in Links \cup {0} /\ rotation' \in 0..(RotMod - 1) /\ applied_epoch' \in Nat
    <3>1. \/ primary' = 0 /\ rotation' = 0 /\ applied_epoch' = 0
          \/ primary' = primary /\ rotation' = rotation /\ applied_epoch' = applied_epoch
      BY <1>10 DEF Restart, senderVars
    <3>2. 0 \in 0..(RotMod - 1)
      BY LinksAssumption
    <3> QED
      BY <3>1, <3>2 DEF TypeOK
  <2>5. /\ peer_channel' \in [Links -> Links \cup {0}] /\ winner' \in [1..MaxSegs -> Links \cup {0}]
        /\ win' \in [Links -> Nat] /\ part' \in [Links -> Nat] /\ \A l \in Links : win'[l] <= part'[l]
        /\ feedback_epoch' \in Nat /\ decided' \in Seq(Links)
        /\ beaten' \in [Links -> {"never", "before", "now"}]
    <3>1. CASE e = "sender"
      BY <1>10, <3>1 DEF Restart, arbiterVars, TypeOK
    <3>2. CASE e # "sender"
      <4>1. /\ peer_channel' = Zero /\ winner' = Unseen /\ win' = Zero /\ part' = Zero
            /\ feedback_epoch' = 0 /\ decided' = <<>> /\ beaten' = Never
        BY <1>10, <3>2 DEF Restart
      <4> QED
        BY <4>1 DEF Zero, Unseen, Never
    <3> QED
      BY <3>1, <3>2
  <2> QED
    BY <2>1, <2>2, <2>3, <2>4, <2>5 DEF TypeOK, NetType
<1>11. ASSUME NEW S \in SUBSET Links, SenderHeartbeat(S) PROVE TypeOK'
  <2>1. stalled' \in [End -> SUBSET Links] /\ stalls' \in Nat
    BY <1>11, StallType DEF SenderHeartbeat, End
  <2> QED
    BY <1>11, <2>1 DEF SenderHeartbeat, TypeOK, senderVars, arbiterVars
<1>12. ASSUME NEW e \in End, NEW l \in Links, Recovers(e, l) PROVE TypeOK'
  <2>1. stalled' \in [End -> SUBSET Links]
    BY <1>0, <1>12 DEF Recovers
  <2> QED
    BY <1>12, <2>1 DEF Recovers, TypeOK, senderVars, arbiterVars, counts
<1>13. CASE UNCHANGED vars
  BY <1>13 DEF vars, TypeOK, senderVars, arbiterVars, counts
<1> QED
  BY <1>1, <1>2, <1>3, <1>4, <1>5, <1>6, <1>7, <1>8, <1>9, <1>10, <1>11, <1>12, <1>13 DEF Next

(* Every variable keeps its type in every behaviour, and no link is ever    *)
(* credited with more races won than run (onChannelBytes, emitFeedback).    *)
THEOREM TypeCorrect == Spec => []TypeOK
BY TypeInit, TypeStep, PTL DEF Spec

-----------------------------------------------------------------------------
(* Queues, message by message.                                              *)

LEMMA TailAt ==
    ASSUME NEW q \in Seq(Message), q # <<>>
    PROVE  /\ \A i \in DOMAIN Tail(q) : i + 1 \in DOMAIN q /\ i + 1 # 1 /\ Tail(q)[i] = q[i + 1]
           /\ \A j \in DOMAIN q : j # 1 => j - 1 \in DOMAIN Tail(q) /\ Tail(q)[j - 1] = q[j]
           /\ 1 \in DOMAIN q /\ Head(q) = q[1] /\ Tail(q) \in Seq(Message)
           /\ Tail(q) # <<>> => 1 \in DOMAIN Tail(q) /\ Head(Tail(q)) = Tail(q)[1]
OBVIOUS

LEMMA AppendAt ==
    ASSUME NEW q \in Seq(Message), NEW m \in Message
    PROVE  /\ Append(q, m) \in Seq(Message) /\ Append(q, m) # <<>>
           /\ \A i \in DOMAIN Append(q, m) :
                  \/ i \in DOMAIN q /\ Append(q, m)[i] = q[i]
                  \/ i \notin DOMAIN q /\ Append(q, m)[i] = m /\ (q # <<>> => i # 1)
           /\ \A i \in DOMAIN q : i \in DOMAIN Append(q, m) /\ Append(q, m)[i] = q[i]
           /\ \E i \in DOMAIN Append(q, m) : Append(q, m)[i] = m
           /\ q # <<>> => Head(Append(q, m)) = Head(q)
           /\ q = <<>> => Head(Append(q, m)) = m
<1> DEFINE r == Append(q, m)
<1>1. /\ r \in Seq(Message) /\ Len(r) = Len(q) + 1 /\ r[Len(q) + 1] = m
      /\ \A i \in 1..Len(q) : r[i] = q[i]
  OBVIOUS
<1>2. DOMAIN r = 1..(Len(q) + 1) /\ DOMAIN q = 1..Len(q) /\ Len(q) \in Nat
  BY <1>1
<1>3. q # <<>> => Len(q) # 0 /\ Head(q) = q[1]
  OBVIOUS
<1>4. Head(r) = r[1] /\ r # <<>>
  BY <1>1
<1>5. q = <<>> => Len(q) = 0
  OBVIOUS
<1> HIDE DEF r
<1>6. /\ \A i \in DOMAIN r : \/ i \in DOMAIN q /\ r[i] = q[i]
                             \/ i \notin DOMAIN q /\ r[i] = m /\ (q # <<>> => i # 1)
      /\ \A i \in DOMAIN q : i \in DOMAIN r /\ r[i] = q[i]
      /\ \E i \in DOMAIN r : r[i] = m
      /\ q # <<>> => Head(r) = Head(q)
      /\ q = <<>> => Head(r) = m
  BY <1>1, <1>2, <1>3, <1>4, <1>5
<1> QED
  BY <1>1, <1>4, <1>6 DEF r

LEMMA QueueAt ==
    ASSUME NEW q \in Seq(Message)
    PROVE  \A i \in DOMAIN q : q[i] \in Message /\ q[i].num \in Nat
<1>1. \A i \in DOMAIN q : q[i] \in Message
  OBVIOUS
<1> QED
  BY <1>1 DEF Message

(* Where a Hello can only come first, none is left once the first message   *)
(* has been read.                                                           *)
LEMMA TailLeads ==
    ASSUME NEW q \in Seq(Message), q # <<>>, \A i \in DOMAIN q : i # 1 => q[i].type # "hello"
    PROVE  /\ \A i \in DOMAIN Tail(q) : Tail(q)[i].type # "hello"
           /\ Tail(q) # <<>> => Head(Tail(q)).type # "hello"
BY TailAt

(* What reading a message does to the queues. *)
LEMMA ConsumeAt ==
    ASSUME NetType, NEW e \in End, NEW l \in Links, Consume(e, l)
    PROVE  \A d \in End, k \in Links :
               net'[d][k] = IF d = e /\ k = l THEN Tail(net[e][l]) ELSE net[d][k]
BY DEF NetType, Consume

(* What the end of some links does. *)
LEMMA CutAt ==
    ASSUME NetType, live \in [End -> SUBSET Links], NEW e \in End, NEW S \in SUBSET Links, Cut(e, S)
    PROVE  /\ \A d \in End : live'[d] = IF d = e THEN live[d] \ S ELSE live[d]
           /\ \A d \in End, k \in Links :
                  \/ net'[d][k] = <<>>
                  \/ net'[d][k] = net[d][k] /\ (d # e \/ k \notin S)
                  \/ k \in S /\ d # e /\ k \in live[d] /\ net'[d][k] = Append(net[d][k], Msg("closed", 0, 0))
           /\ \A d \in End, k \in Links \ S : net'[d][k] = net[d][k]
BY DEF NetType, Cut

(* What a heartbeat does. *)
LEMMA FeedbackAt ==
    ASSUME TypeOK, NEW S \in SUBSET Links, emitFeedback(S)
    PROVE  /\ \A k \in Links : net'["arbiter"][k] = net["arbiter"][k]
           /\ \/ /\ feedback_epoch' = feedback_epoch /\ decided' = decided /\ carried' = carried
                 /\ \A k \in Links : net'["sender"][k] = net["sender"][k]
              \/ /\ feedback_epoch' = feedback_epoch + 1
                 /\ \E best \in Measured :
                       /\ \A j \in Measured \ {best} : Better(best, j)
                       /\ decided' = Append(decided, best)
                       /\ Msg("ack", feedback_epoch', best) \in Message
                       /\ carried' \subseteq live["arbiter"] \cap live["sender"]
                       /\ \A k \in Links : net'["sender"][k] =
                             IF k \in carried'
                             THEN Append(net["sender"][k], Msg("ack", feedback_epoch', best))
                             ELSE net["sender"][k]
<1> DEFINE best == pickPrimaryLocked
<1>1. \/ best = 0 /\ Measured = {}
      \/ best \in Measured /\ \A j \in Measured \ {best} : Better(best, j)
  BY PickIs DEF TypeOK, Counters
<1>2. net \in [End -> [Links -> Seq(Message)]] /\ "arbiter" \in End /\ "sender" \in End
  BY DEF TypeOK, End
<1>3. CASE best = 0
  BY <1>3, <1>2 DEF emitFeedback
<1>4. CASE best # 0
  <2>1. best \in Measured /\ \A j \in Measured \ {best} : Better(best, j)
    BY <1>1, <1>4
  <2>2. /\ feedback_epoch' = feedback_epoch + 1 /\ decided' = Append(decided, best)
        /\ carried' = (live["arbiter"] \ stalled'["arbiter"]) \cap live["sender"]
        /\ net' = [net EXCEPT !["sender"] = [l \in Links |->
                         IF l \in carried' THEN Append(@[l], Msg("ack", feedback_epoch', best)) ELSE @[l]]]
    BY <1>4 DEF emitFeedback
  <2>3. Msg("ack", feedback_epoch', best) \in Message
    <3>1. feedback_epoch' \in Nat /\ best \in Links
      BY <2>1, <2>2 DEF TypeOK, Measured
    <3> QED
      BY <3>1, MsgType
  <2> HIDE DEF best
  <2> QED
    BY <1>2, <2>1, <2>2, <2>3
<1> QED
  BY <1>3, <1>4

(* A reconnected link begins with a Hello on either side. *)
LEMMA ReconnectAt ==
    ASSUME TypeOK, NEW l \in Links, Reconnect(l)
    PROVE  /\ \A d \in End, k \in Links : net'[d][k] = IF k = l THEN Hello(d, l) ELSE net[d][k]
           /\ \A d \in End : l \notin live[d] /\ live'[d] = live[d] \cup {l}
BY DEF Reconnect, TypeOK

LEMMA HelloAt ==
    ASSUME NEW e \in End, NEW l \in Links
    PROVE  LET h == Hello(e, l)
           IN  /\ h # <<>> /\ DOMAIN h = {1} /\ Head(h) = h[1]
               /\ h[1].type = "hello" /\ h[1].num = generation[Peer(e)]
               /\ h[1].link = IF e = "arbiter" THEN l ELSE 0
BY DEF Hello, Msg

(* A segment goes to links that are open at the arbiter. *)
LEMMA SendAt ==
    ASSUME TypeOK, sendSegment
    PROVE  /\ segs' = segs + 1 /\ Msg("data", segs', 0) \in Message
           /\ \A k \in Links : net'["sender"][k] = net["sender"][k]
           /\ \A k \in Links : \/ net'["arbiter"][k] = net["arbiter"][k]
                               \/ k \in live["arbiter"] /\
                                  net'["arbiter"][k] = Append(net["arbiter"][k], Msg("data", segs', 0))
<1>1. segs' = segs + 1 /\ segs' \in Nat
  BY DEF sendSegment, TypeOK
<1>2. Msg("data", segs', 0) \in Message
  BY <1>1, MsgType
<1>3. net \in [End -> [Links -> Seq(Message)]] /\ "arbiter" \in End /\ "sender" \in End
  BY DEF TypeOK, End
<1> QED
  BY <1>1, <1>2, <1>3 DEF sendSegment

-----------------------------------------------------------------------------
(* Epochs across restarts, over one link.  (Over several links the theorem  *)
(* is false: feedback of the old arbiter that is still on its way on one    *)
(* link can follow the Hello of the new one on another.)                    *)

(* The sender has yet to read the Hello of the connection l. *)
Greeting(l) == net["sender"][l] # <<>> /\ Head(net["sender"][l]).type = "hello"

(* The arbiter's generation that the connection l stands for. *)
ConnGen(l) == IF Greeting(l) THEN Head(net["sender"][l]).num ELSE peer_generation["sender"]

(* EpochSound made inductive.  A Hello comes first on its connection; what  *)
(* follows is feedback of the generation the Hello names; and an epoch that *)
(* was applied is compared with the arbiter's only as long as the           *)
(* generation is the one the sender knows.                                  *)
HelloLeads(l) == \A i \in DOMAIN net["sender"][l] : i # 1 => net["sender"][l][i].type # "hello"
GenerationsGrow(l) ==
    /\ generation["arbiter"] > 0
    /\ peer_generation["sender"] <= generation["arbiter"]
    /\ ConnGen(l) <= generation["arbiter"]
FeedbackOfGeneration(l) ==
    ConnGen(l) = generation["arbiter"] =>
        \A i \in DOMAIN net["sender"][l] :
            net["sender"][l][i].type = "ack" => net["sender"][l][i].num <= feedback_epoch
OpenIsCurrent(l) ==
    l \in live["sender"] /\ l \in live["arbiter"] => ConnGen(l) = generation["arbiter"]
AppliedOfGeneration ==
    peer_generation["sender"] = generation["arbiter"] => applied_epoch <= feedback_epoch

EpochInv(l) ==
    /\ HelloLeads(l) /\ GenerationsGrow(l) /\ FeedbackOfGeneration(l)
    /\ OpenIsCurrent(l) /\ AppliedOfGeneration

(* The parts of EpochInv depend on the sender's queue and a few variables. *)
LEMMA EpochFrame ==
    ASSUME NEW l \in Links, EpochInv(l),
           net'["sender"][l] = net["sender"][l],
           \A e \in End : l \in live'[e] => l \in live[e],
           peer_generation'["sender"] = peer_generation["sender"],
           generation'["arbiter"] = generation["arbiter"],
           feedback_epoch' = feedback_epoch, applied_epoch' = applied_epoch
    PROVE  EpochInv(l)'
BY DEF EpochInv, HelloLeads, GenerationsGrow, FeedbackOfGeneration, OpenIsCurrent,
       AppliedOfGeneration, ConnGen, Greeting, End

LEMMA EpochStep ==
    ASSUME NewProcess, NEW l, Links = {l}
    PROVE  TypeOK /\ EpochInv(l) /\ [Next]_vars => EpochInv(l)'
<1> SUFFICES ASSUME TypeOK, EpochInv(l), [Next]_vars PROVE EpochInv(l)'
  OBVIOUS
<1> DEFINE q == net["sender"][l]
           g == generation["arbiter"]
           pg == peer_generation["sender"]
<1>0. /\ l \in Links /\ "sender" \in End /\ "arbiter" \in End /\ NetType
      /\ live \in [End -> SUBSET Links]
      /\ q \in Seq(Message) /\ g \in Nat /\ pg \in Nat /\ feedback_epoch \in Nat /\ applied_epoch \in Nat
      /\ \A i \in DOMAIN q : q[i].num \in Nat
  <2>1. /\ l \in Links /\ "sender" \in End /\ "arbiter" \in End /\ NetType
        /\ live \in [End -> SUBSET Links]
        /\ q \in Seq(Message) /\ g \in Nat /\ pg \in Nat /\ feedback_epoch \in Nat /\ applied_epoch \in Nat
    BY DEF TypeOK, NetType, End
  <2> QED
    BY <2>1, QueueAt
<1>i. /\ \A i \in DOMAIN q : i # 1 => q[i].type # "hello"
      /\ g > 0 /\ pg <= g /\ ConnGen(l) <= g
      /\ ConnGen(l) = g => \A i \in DOMAIN q : q[i].type = "ack" => q[i].num <= feedback_epoch
      /\ (l \in live["sender"] /\ l \in live["arbiter"] => ConnGen(l) = g)
      /\ (pg = g => applied_epoch <= feedback_epoch)
  BY DEF EpochInv, HelloLeads, GenerationsGrow, FeedbackOfGeneration, OpenIsCurrent,
         AppliedOfGeneration
<1>1. CASE sendSegment
  BY <1>1, <1>0, SendAt, EpochFrame DEF sendSegment, arbiterVars
<1>2. ASSUME NEW S \in SUBSET Links, emitFeedback(S) PROVE EpochInv(l)'
  <2>0. UNCHANGED <<live, generation, peer_generation, applied_epoch>>
    BY <1>2 DEF emitFeedback, senderVars
  <2>1. CASE feedback_epoch' = feedback_epoch /\ \A k \in Links : net'["sender"][k] = net["sender"][k]
    BY <1>0, <2>0, <2>1, EpochFrame
  <2>2. CASE ~(feedback_epoch' = feedback_epoch /\ \A k \in Links : net'["sender"][k] = net["sender"][k])
    <3>1. PICK m \in Message :
              /\ m.type = "ack" /\ m.num = feedback_epoch' /\ feedback_epoch' = feedback_epoch + 1
              /\ l \in carried' => l \in live["arbiter"] /\ l \in live["sender"]
              /\ net'["sender"][l] = IF l \in carried' THEN Append(q, m) ELSE q
      BY <1>0, <1>2, <2>2, FeedbackAt DEF Msg
    <3>2. CASE l \in carried'
      <4>1. net'["sender"][l] = Append(q, m)
        BY <3>1, <3>2
      <4>2. ConnGen(l)' = ConnGen(l) /\ ConnGen(l) = g
        <5>1. /\ Append(q, m) # <<>> /\ (q # <<>> => Head(Append(q, m)) = Head(q))
              /\ (q = <<>> => Head(Append(q, m)) = m)
          BY <1>0, AppendAt
        <5> QED
          BY <1>i, <2>0, <3>1, <3>2, <4>1, <5>1 DEF ConnGen, Greeting
      <4>3. /\ \A i \in DOMAIN Append(q, m) : i # 1 => Append(q, m)[i].type # "hello"
            /\ \A i \in DOMAIN Append(q, m) : Append(q, m)[i].type = "ack" => Append(q, m)[i].num <= feedback_epoch'
        <5> DEFINE a == Append(q, m)
        <5>1. \A i \in DOMAIN a : (i \in DOMAIN q /\ a[i] = q[i]) \/ a[i] = m
          BY <1>0, AppendAt
        <5> HIDE DEF a
        <5>2. /\ \A i \in DOMAIN a : i # 1 => a[i].type # "hello"
              /\ \A i \in DOMAIN a : a[i].type = "ack" => a[i].num <= feedback_epoch'
          BY <1>0, <1>i, <3>1, <4>2, <5>1
        <5> QED
          BY <5>2 DEF a
      <4> QED
        BY <1>0, <1>i, <2>0, <3>1, <4>1, <4>2, <4>3
           DEF EpochInv, HelloLeads, GenerationsGrow, FeedbackOfGeneration, OpenIsCurrent, AppliedOfGeneration
    <3>3. CASE l \notin carried'
      <4>1. net'["sender"][l] = q /\ ConnGen(l)' = ConnGen(l)
        BY <2>0, <3>1, <3>3 DEF ConnGen, Greeting
      <4> QED
        BY <1>0, <1>i, <2>0, <3>1, <3>3, <4>1
           DEF EpochInv, HelloLeads, GenerationsGrow, FeedbackOfGeneration, OpenIsCurrent, AppliedOfGeneration
    <3> QED
      BY <3>2, <3>3
  <2> QED
    BY <2>1, <2>2
<1>3. ASSUME NEW k \in Links, onAck(k) PROVE EpochInv(l)'
  <2>1. /\ k = l /\ q # <<>> /\ Head(q).type = "ack" /\ net'["sender"][l] = Tail(q)
        /\ UNCHANGED <<live, generation, peer_generation, feedback_epoch>>
        /\ applied_epoch' = applied_epoch \/ applied_epoch' = Head(q).num
    BY <1>0, <1>3, ReadType, ConsumeAt DEF onAck, arbiterVars
  <2>2. ConnGen(l) = pg /\ ~Greeting(l)' /\ ConnGen(l)' = pg
    BY <1>0, <1>i, <2>1, TailLeads DEF ConnGen, Greeting
  <2>3. /\ \A i \in DOMAIN Tail(q) : i # 1 => Tail(q)[i].type # "hello"
        /\ pg = g => \A i \in DOMAIN Tail(q) : Tail(q)[i].type = "ack" => Tail(q)[i].num <= feedback_epoch
        /\ pg = g => Head(q).num <= feedback_epoch
    BY <1>0, <1>i, <2>1, <2>2, TailAt
  <2> QED
    BY <1>0, <1>i, <2>1, <2>2, <2>3
       DEF EpochInv, HelloLeads, GenerationsGrow, FeedbackOfGeneration, OpenIsCurrent, AppliedOfGeneration
<1>4. ASSUME NEW k \in Links, RaceWon(k) PROVE EpochInv(l)'
  BY <1>4, <1>0, ConsumeAt, EpochFrame DEF RaceWon, senderVars
<1>5. ASSUME NEW k \in Links, RaceLost(k) PROVE EpochInv(l)'
  BY <1>5, <1>0, ConsumeAt, EpochFrame DEF RaceLost, senderVars
<1>6. ASSUME NEW k \in Links, Reconnect(k) PROVE EpochInv(l)'
  <2> DEFINE h == Hello("sender", l)
  <2>1. /\ k = l /\ net'["sender"][l] = h
        /\ UNCHANGED <<generation, peer_generation, feedback_epoch, applied_epoch>>
    BY <1>0, <1>6, ReconnectAt DEF Reconnect, senderVars
  <2>2. h # <<>> /\ DOMAIN h = {1} /\ Head(h) = h[1] /\ h[1].type = "hello" /\ h[1].num = g
    BY <1>0, HelloAt DEF Peer
  <2> HIDE DEF h
  <2>3. ConnGen(l)' = g
    BY <2>1, <2>2 DEF ConnGen, Greeting
  <2> QED
    BY <1>0, <1>i, <2>1, <2>2, <2>3
       DEF EpochInv, HelloLeads, GenerationsGrow, FeedbackOfGeneration, OpenIsCurrent, AppliedOfGeneration
<1>7. ASSUME NEW e \in End, NEW k \in Links, onHello(e, k) PROVE EpochInv(l)'
  <2>1. CASE e = "arbiter"
    <3>1. /\ net'["sender"][l] = q /\ peer_generation'["sender"] = pg
          /\ UNCHANGED <<live, generation, feedback_epoch, applied_epoch>>
      BY <1>0, <1>7, <2>1, ConsumeAt DEF onHello, TypeOK
    <3> QED
      BY <1>0, <3>1, EpochFrame
  <2>2. CASE e = "sender"
    <3>1. /\ k = l /\ q # <<>> /\ Head(q).type = "hello" /\ net'["sender"][l] = Tail(q)
          /\ peer_generation'["sender"] = Head(q).num
          /\ UNCHANGED <<live, generation, feedback_epoch>>
          /\ applied_epoch' = IF Head(q).num # pg THEN 0 ELSE applied_epoch
      BY <1>0, <1>7, <2>2, ReadType, ConsumeAt DEF onHello, TypeOK
    <3>2. ConnGen(l) = Head(q).num /\ ~Greeting(l)' /\ ConnGen(l)' = ConnGen(l)
      BY <1>0, <1>i, <3>1, TailLeads DEF ConnGen, Greeting
    <3>3. /\ \A i \in DOMAIN Tail(q) : i # 1 => Tail(q)[i].type # "hello"
          /\ ConnGen(l) = g =>
                \A i \in DOMAIN Tail(q) : Tail(q)[i].type = "ack" => Tail(q)[i].num <= feedback_epoch
      BY <1>0, <1>i, <3>1, TailAt
    <3> QED
      BY <1>0, <1>i, <3>1, <3>2, <3>3
         DEF EpochInv, HelloLeads, GenerationsGrow, FeedbackOfGeneration, OpenIsCurrent, AppliedOfGeneration
  <2> QED
    BY <2>1, <2>2 DEF End
<1>c. ASSUME NEW e \in End, NEW S \in SUBSET Links, Cut(e, S),
             generation'["arbiter"] \in Nat, peer_generation'["sender"] \in Nat,
             \/ UNCHANGED <<generation, peer_generation, feedback_epoch, applied_epoch>>
             \/ /\ e = "arbiter" /\ l \notin live'["arbiter"] /\ generation'["arbiter"] > g
                /\ peer_generation'["sender"] = pg
             \/ /\ e = "sender" /\ l \notin live'["sender"]
                /\ generation'["arbiter"] = g /\ feedback_epoch' = feedback_epoch
                /\ peer_generation'["sender"] = 0 /\ applied_epoch' = 0
      PROVE  EpochInv(l)'
  <2> DEFINE r == net'["sender"][l]
  <2>1. /\ r \in Seq(Message)
        /\ \/ r = <<>> /\ (l \in live'["sender"] => r = q)
           \/ r = q
           \/ r = Append(q, Msg("closed", 0, 0)) /\ l \notin live'["arbiter"]
        /\ l \in live'["sender"] => l \in live["sender"]
        /\ l \in live'["arbiter"] => l \in live["arbiter"]
    <3>1. Msg("closed", 0, 0) \in Message
      BY MsgType
    <3>2. NetType'
      BY <1>0, <1>c, CutType
    <3>3. e = "sender" \/ e = "arbiter"
      BY DEF End
    <3>4. /\ \A d \in End : live'[d] = IF d = e THEN live[d] \ S ELSE live[d]
          /\ \/ r = <<>> \/ r = q
             \/ l \in S /\ "sender" # e /\ l \in live["sender"] /\ r = Append(q, Msg("closed", 0, 0))
          /\ l \notin S => r = q
      <4>1. /\ \A d \in End : live'[d] = IF d = e THEN live[d] \ S ELSE live[d]
            /\ \A d \in End, k \in Links :
                  \/ net'[d][k] = <<>>
                  \/ net'[d][k] = net[d][k] /\ (d # e \/ k \notin S)
                  \/ k \in S /\ d # e /\ k \in live[d] /\ net'[d][k] = Append(net[d][k], Msg("closed", 0, 0))
            /\ \A d \in End, k \in Links \ S : net'[d][k] = net[d][k]
        BY <1>0, <1>c, CutAt
      <4> QED
        BY <1>0, <4>1
    <3>5. e = "arbiter" /\ l \in S /\ l \in live["sender"] => r # <<>>
      <4>1. e = "arbiter" /\ l \in S /\ l \in live["sender"] => r = Append(q, Msg("closed", 0, 0))
        BY <1>0, <1>c DEF Cut
      <4> QED
        BY <1>0, <3>1, <4>1, AppendAt
    <3>6. r \in Seq(Message)
      BY <1>0, <3>2 DEF NetType
    <3>7. l \in live'["sender"] /\ r = <<>> => r = q
      BY <1>0, <3>3, <3>4, <3>5
    <3>8. r = Append(q, Msg("closed", 0, 0)) /\ l \in S /\ "sender" # e => l \notin live'["arbiter"]
      BY <1>0, <3>3, <3>4
    <3>9. \A d \in End : l \in live'[d] => l \in live[d]
      BY <3>4
    <3> HIDE DEF r
    <3> QED
      BY <1>0, <3>4, <3>6, <3>7, <3>8, <3>9
  <2>2. /\ Msg("closed", 0, 0) \in Message /\ Msg("closed", 0, 0).type = "closed"
    BY MsgType DEF Msg
  <2> HIDE DEF r
  <2>3. /\ \A i \in DOMAIN r : i # 1 => r[i].type # "hello"
        /\ \A i \in DOMAIN r : r[i].type \in {"ack", "hello"} => i \in DOMAIN q /\ q[i] = r[i]
    <3>1. \/ \A i \in DOMAIN r : FALSE
          \/ r = q
          \/ \A i \in DOMAIN r : (i \in DOMAIN q /\ r[i] = q[i]) \/ r[i] = Msg("closed", 0, 0)
      <4>1. r = <<>> => \A i \in DOMAIN r : FALSE
        OBVIOUS
      <4>2. \A i \in DOMAIN Append(q, Msg("closed", 0, 0)) :
                \/ i \in DOMAIN q /\ Append(q, Msg("closed", 0, 0))[i] = q[i]
                \/ Append(q, Msg("closed", 0, 0))[i] = Msg("closed", 0, 0)
        BY <1>0, <2>2, AppendAt
      <4> QED
        BY <2>1, <4>1, <4>2
    <3> QED
      BY <1>i, <2>2, <3>1
  <2>4. /\ r # <<>> /\ Head(r).type = "hello" => q # <<>> /\ Head(q) = Head(r)
        /\ r # <<>> /\ Head(r).type # "hello" => ~Greeting(l)
        /\ r = <<>> => (l \in live'["sender"] => ~Greeting(l))
    <3>1. CASE r = <<>>
      BY <2>1, <3>1 DEF Greeting
    <3>2. CASE r = q
      BY <3>2 DEF Greeting
    <3>3. CASE r = Append(q, Msg("closed", 0, 0))
      <4>1. r # <<>> /\ (q # <<>> => Head(r) = Head(q)) /\ (q = <<>> => Head(r) = Msg("closed", 0, 0))
        BY <1>0, <2>2, <3>3, AppendAt
      <4> QED
        BY <2>2, <4>1 DEF Greeting
    <3> QED
      BY <2>1, <3>1, <3>2, <3>3
  <2>5. \/ ConnGen(l)' = ConnGen(l) /\ (l \in live'["sender"] \/ r # <<>>)
        \/ ConnGen(l)' = peer_generation'["sender"] /\ r = <<>> /\ l \notin live'["sender"]
        \/ peer_generation'["sender"] # pg
    BY <2>4 DEF ConnGen, Greeting, r
  <2>6. CASE UNCHANGED <<generation, peer_generation, feedback_epoch, applied_epoch>>
    <3>1. \A i \in DOMAIN <<>> : FALSE
      OBVIOUS
    <3> QED
      BY <1>0, <1>i, <2>1, <2>3, <2>5, <2>6, <3>1
       DEF EpochInv, HelloLeads, GenerationsGrow, FeedbackOfGeneration, OpenIsCurrent, AppliedOfGeneration, r
  <2>7. CASE /\ e = "arbiter" /\ l \notin live'["arbiter"] /\ generation'["arbiter"] > g
             /\ peer_generation'["sender"] = pg
    <3>1. ConnGen(l)' <= g /\ ConnGen(l)' # generation'["arbiter"]
      <4>1. ConnGen(l)' = ConnGen(l) \/ ConnGen(l)' = pg
        BY <2>5, <2>7
      <4>2. ConnGen(l) \in Nat
        BY <1>0, TailAt DEF ConnGen, Greeting
      <4> QED
        BY <1>0, <1>c, <1>i, <2>7, <4>1, <4>2
    <3>2. ConnGen(l)' \in Nat
      BY <1>0, <2>1, <2>5, <2>7, TailAt DEF ConnGen, Greeting
    <3> QED
      BY <1>0, <1>c, <1>i, <2>3, <2>7, <3>1, <3>2
       DEF EpochInv, HelloLeads, GenerationsGrow, FeedbackOfGeneration, OpenIsCurrent, AppliedOfGeneration, r
  <2>8. CASE /\ e = "sender" /\ l \notin live'["sender"]
             /\ generation'["arbiter"] = g /\ feedback_epoch' = feedback_epoch
             /\ peer_generation'["sender"] = 0 /\ applied_epoch' = 0
    <3>1. ConnGen(l)' = 0 \/ ConnGen(l)' = ConnGen(l)
      BY <2>4, <2>8 DEF ConnGen, Greeting, r
    <3> QED
      BY <1>0, <1>i, <2>3, <2>8, <3>1
       DEF EpochInv, HelloLeads, GenerationsGrow, FeedbackOfGeneration, OpenIsCurrent, AppliedOfGeneration, r
  <2> QED
    BY <1>c, <2>6, <2>7, <2>8
<1>8. ASSUME NEW e \in End, NEW k \in Links, LinkDown(e, k) PROVE EpochInv(l)'
  BY <1>0, <1>8, <1>c DEF LinkDown, senderVars, arbiterVars
<1>9. ASSUME NEW e \in End, NEW k \in Links, onClosed(e, k) PROVE EpochInv(l)'
  <2>0. /\ k = l /\ UNCHANGED <<generation, peer_generation, feedback_epoch, applied_epoch>>
        /\ \A d \in End : live'[d] \subseteq live[d]
    BY <1>0, <1>9 DEF onClosed, senderVars, arbiterVars
  <2>1. CASE e = "arbiter"
    <3>1. net'["sender"][l] = q
      BY <1>0, <1>9, <2>1, ConsumeAt DEF onClosed
    <3> QED
      BY <1>0, <2>0, <3>1, EpochFrame
  <2>2. CASE e = "sender"
    <3>1. /\ q # <<>> /\ Head(q).type = "closed" /\ net'["sender"][l] = Tail(q)
          /\ l \notin live'["sender"]
      BY <1>0, <1>9, <2>0, <2>2, ReadType, ConsumeAt DEF onClosed
    <3>2. ConnGen(l) = pg /\ ~Greeting(l)' /\ ConnGen(l)' = pg
      BY <1>0, <1>i, <2>0, <3>1, TailLeads DEF ConnGen, Greeting
    <3>3. /\ \A i \in DOMAIN Tail(q) : i # 1 => Tail(q)[i].type # "hello"
          /\ pg = g => \A i \in DOMAIN Tail(q) : Tail(q)[i].type = "ack" => Tail(q)[i].num <= feedback_epoch
      BY <1>0, <1>i, <3>1, <3>2, TailAt
    <3> QED
      BY <1>0, <1>i, <2>0, <3>1, <3>2, <3>3
         DEF EpochInv, HelloLeads, GenerationsGrow, FeedbackOfGeneration, OpenIsCurrent, AppliedOfGeneration
  <2> QED
    BY <2>1, <2>2 DEF End
<1>10. ASSUME NEW e \in End, Restart(e) PROVE EpochInv(l)'
  <2>0. live[e] \in SUBSET Links /\ Cut(e, live[e]) /\ l \notin live'[e]
    <3>1. live[e] \in SUBSET Links /\ Cut(e, live[e])
      BY <1>0, <1>10 DEF Restart
    <3>2. live'[e] = live[e] \ live[e]
      <4> DEFINE S == live[e]
      <4>1. S \in SUBSET Links /\ Cut(e, S)
        BY <3>1
      <4> HIDE DEF S
      <4>2. live'[e] = live[e] \ S
        BY <1>0, <4>1, CutAt
      <4> QED
        BY <4>2 DEF S
    <3> QED
      BY <3>1, <3>2
  <2>1. CASE e = "arbiter"
    <3>1. generation'["arbiter"] = g + 1 /\ peer_generation'["sender"] = pg
      BY <1>0, <1>10, <2>1 DEF Restart, TypeOK
    <3> QED
      BY <1>0, <2>0, <2>1, <3>1, <1>c
  <2>2. CASE e = "sender"
    <3>1. /\ generation'["arbiter"] = g /\ feedback_epoch' = feedback_epoch
          /\ peer_generation'["sender"] = 0 /\ applied_epoch' = 0
      BY <1>0, <1>10, <2>2 DEF Restart, TypeOK, arbiterVars
    <3> QED
      BY <1>0, <2>0, <2>2, <3>1, <1>c
  <2> QED
    BY <2>1, <2>2 DEF End
<1>11. ASSUME NEW S \in SUBSET Links, SenderHeartbeat(S) PROVE EpochInv(l)'
  BY <1>0, <1>11, EpochFrame DEF SenderHeartbeat, senderVars, arbiterVars
<1>12. ASSUME NEW e \in End, NEW k \in Links, Recovers(e, k) PROVE EpochInv(l)'
  BY <1>0, <1>12, EpochFrame DEF Recovers, senderVars, arbiterVars
<1>13. CASE UNCHANGED vars
  BY <1>0, <1>13, EpochFrame DEF vars, senderVars, arbiterVars
<1> QED
  BY <1>1, <1>2, <1>3, <1>4, <1>5, <1>6, <1>7, <1>8, <1>9, <1>10, <1>11, <1>12, <1>13 DEF Next

(* Over a single link, whatever the losses, the restarts of either process  *)
(* and the feedback under way: once the sender has read the Hello of the    *)
(* living arbiter, its applied_epoch_ is not ahead of the arbiter's         *)
(* feedback_epoch_, so that fresh feedback is never discarded as old        *)
(* (onChannelBytes, Hello and ACK).                                         *)
THEOREM EpochSoundAlways ==
    ASSUME NewProcess, NEW l, Links = {l}
    PROVE  Spec => []EpochSound
<1>1. Init => EpochInv(l)
  <2> SUFFICES ASSUME Init PROVE EpochInv(l)
    OBVIOUS
  <2>1. /\ net["sender"][l] = Hello("sender", l) /\ generation["arbiter"] = 1
        /\ peer_generation["sender"] = 0 /\ applied_epoch = 0 /\ feedback_epoch = 0
    BY DEF Init, End
  <2>2. LET h == net["sender"][l]
        IN  h # <<>> /\ DOMAIN h = {1} /\ Head(h) = h[1] /\ h[1].type = "hello" /\ h[1].num = 1
    BY <2>1, HelloAt DEF Peer, End
  <2> QED
    BY <2>1, <2>2 DEF EpochInv, HelloLeads, GenerationsGrow, FeedbackOfGeneration, OpenIsCurrent,
                      AppliedOfGeneration, ConnGen, Greeting
<1>2. TypeOK /\ EpochInv(l) => EpochSound
  <2> SUFFICES ASSUME TypeOK, EpochInv(l), Greeted PROVE applied_epoch <= feedback_epoch
    BY DEF EpochSound
  <2> DEFINE q == net["sender"][l]
  <2>1. /\ l \in live["sender"] /\ l \in live["arbiter"]
        /\ \A i \in DOMAIN q : q[i].type # "hello"
    BY DEF Greeted, TypeOK, End
  <2>2. q \in Seq(Message)
    BY DEF TypeOK, End
  <2>3. ~Greeting(l)
    <3>1. q # <<>> => 1 \in DOMAIN q /\ Head(q) = q[1]
      BY <2>2
    <3> QED
      BY <2>1, <3>1 DEF Greeting
  <2> QED
    BY <2>1, <2>3 DEF EpochInv, OpenIsCurrent, AppliedOfGeneration, ConnGen
<1> QED
  BY <1>1, <1>2, EpochStep, TypeInit, TypeStep, PTL DEF Spec

-----------------------------------------------------------------------------
(* The last decision rules, over any number of links, as long as neither    *)
(* process restarts.                                                        *)

(* The messages of a queue. *)
In(q) == {q[i] : i \in DOMAIN q}

LEMMA TailIn ==
    ASSUME NEW q \in Seq(Message), q # <<>>
    PROVE  In(q) = {Head(q)} \cup In(Tail(q)) /\ In(q) \subseteq Message /\ Head(q) \in Message
<1> DEFINE t == Tail(q)
<1>0. /\ \A i \in DOMAIN t : i + 1 \in DOMAIN q /\ t[i] = q[i + 1]
      /\ \A j \in DOMAIN q : j # 1 => j - 1 \in DOMAIN t /\ t[j - 1] = q[j]
      /\ 1 \in DOMAIN q /\ Head(q) = q[1]
  BY TailAt
<1> HIDE DEF t
<1>1. In(q) \subseteq {Head(q)} \cup In(t)
  BY <1>0 DEF In
<1>2. {Head(q)} \cup In(t) \subseteq In(q)
  BY <1>0 DEF In
<1>3. In(q) \subseteq Message /\ Head(q) \in Message
  BY DEF In
<1> QED
  BY <1>1, <1>2, <1>3 DEF t

LEMMA AppendIn ==
    ASSUME NEW q \in Seq(Message), NEW m \in Message
    PROVE  /\ In(Append(q, m)) = In(q) \cup {m} /\ In(q) \subseteq Message
           /\ Append(q, m) # <<>> /\ (q # <<>> => Head(Append(q, m)) = Head(q))
<1> DEFINE a == Append(q, m)
<1>1. /\ \A i \in DOMAIN a : (i \in DOMAIN q /\ a[i] = q[i]) \/ a[i] = m
      /\ \A i \in DOMAIN q : i \in DOMAIN a /\ a[i] = q[i]
      /\ \E i \in DOMAIN a : a[i] = m
      /\ a # <<>> /\ (q # <<>> => Head(a) = Head(q))
  BY AppendAt
<1>2. In(q) \subseteq Message
  BY DEF In
<1> HIDE DEF a
<1>3. In(a) = In(q) \cup {m}
  BY <1>1 DEF In
<1> QED
  BY <1>1, <1>2, <1>3 DEF a

LEMMA HelloIn ==
    ASSUME NEW e \in End, NEW l \in Links
    PROVE  /\ In(Hello(e, l)) = {Head(Hello(e, l))} /\ Hello(e, l) # <<>>
           /\ Head(Hello(e, l)).type = "hello" /\ Head(Hello(e, l)).num = generation[Peer(e)]
           /\ Head(Hello(e, l)).link = IF e = "arbiter" THEN l ELSE 0
<1> DEFINE h == Hello(e, l)
<1>1. /\ h # <<>> /\ DOMAIN h = {1} /\ Head(h) = h[1]
      /\ h[1].type = "hello" /\ h[1].num = generation[Peer(e)]
      /\ h[1].link = IF e = "arbiter" THEN l ELSE 0
  BY HelloAt
<1> HIDE DEF h
<1>2. In(h) = {Head(h)}
  BY <1>1 DEF In
<1> QED
  BY <1>1, <1>2 DEF h

LEMMA EmptyIn == In(<<>>) = {}
BY DEF In

(* A queued message the sender may still read is true: a Hello names the    *)
(* only generation there is, and an ACK carries the decision of its epoch.  *)
True(m) ==
    /\ m.type = "hello" => m.num = 1
    /\ m.type = "ack" => m.num \in 1..feedback_epoch /\ m.link = decided[m.num]
AllTrue == \A l \in Links : \A m \in In(net["sender"][l]) : True(m)

(* What the sender has adopted is the decision of its epoch; before it has  *)
(* read a Hello it has adopted nothing, for a Hello comes before any ACK.   *)
Adopted ==
    /\ Len(decided) = feedback_epoch /\ applied_epoch <= feedback_epoch
    /\ applied_epoch # 0 => primary = decided[applied_epoch]
Introduced ==
    /\ generation["arbiter"] = 1 /\ peer_generation["sender"] \in {0, 1}
    /\ peer_generation["sender"] = 0 => applied_epoch = 0 /\ \A l \in live["sender"] : Greeting(l)

(* A link that got the last decision and was not lost since is open at the  *)
(* sender and, while the sender has not adopted that decision, still        *)
(* carries it.                                                              *)
News(l) ==
    /\ l \in live["sender"]
    /\ applied_epoch # feedback_epoch =>
          \E m \in In(net["sender"][l]) : m.type = "ack" /\ m.num = feedback_epoch
Covered == \A l \in carried : l \in Links /\ feedback_epoch # 0 /\ News(l)

FollowInv == restarts = 0 => AllTrue /\ Adopted /\ Introduced /\ Covered

(* A decision makes nothing false that was queued. *)
LEMMA TrueLasts ==
    ASSUME NEW m \in Message, True(m), Adopted, decided \in Seq(Links), feedback_epoch \in Nat,
           NEW b \in Links, feedback_epoch' = feedback_epoch + 1, decided' = Append(decided, b)
    PROVE  True(m)'
<1>1. \A n \in 1..feedback_epoch : n \in 1..feedback_epoch' /\ decided'[n] = decided[n]
  BY DEF Adopted
<1> QED
  BY <1>1 DEF True, Message

(* The sender's side depends on a few variables. *)
LEMMA SenderFrame ==
    ASSUME AllTrue, Adopted, Introduced,
           \A l \in Links : net'["sender"][l] = net["sender"][l],
           live'["sender"] \subseteq live["sender"], live["sender"] \in SUBSET Links,
           peer_generation'["sender"] = peer_generation["sender"],
           generation'["arbiter"] = generation["arbiter"],
           UNCHANGED <<primary, feedback_epoch, applied_epoch, decided>>
    PROVE  AllTrue' /\ Adopted' /\ Introduced'
<1>1. \A l \in Links : Greeting(l) => Greeting(l)'
  BY DEF Greeting
<1>2. \A l \in Links : In(net["sender"][l])' = In(net["sender"][l])
  BY DEF In
<1>3. \A m : True(m) => True(m)'
  BY DEF True
<1>4. AllTrue'
  BY <1>2, <1>3 DEF AllTrue
<1> QED
  BY <1>1, <1>4 DEF Adopted, Introduced

(* No decision is made: its carriers are among those there were. *)
LEMMA CoveredFrame ==
    ASSUME Covered, carried' \subseteq carried, feedback_epoch' = feedback_epoch,
           \A l \in Links : l \in carried' /\ News(l) => News(l)'
    PROVE  Covered'
BY DEF Covered

LEMMA FollowStep == TypeOK /\ FollowInv /\ [Next]_vars => FollowInv'
<1> SUFFICES ASSUME TypeOK, FollowInv, [Next]_vars, restarts' = 0
             PROVE  AllTrue' /\ Adopted' /\ Introduced' /\ Covered'
  BY DEF FollowInv
<1>0. /\ "sender" \in End /\ "arbiter" \in End /\ NetType /\ live \in [End -> SUBSET Links]
      /\ \A e \in End, k \in Links : net[e][k] \in Seq(Message)
      /\ feedback_epoch \in Nat /\ applied_epoch \in Nat /\ decided \in Seq(Links)
      /\ restarts \in Nat
  BY DEF TypeOK, NetType, End
<1>r. restarts = 0 /\ \A e \in End : ~Restart(e)
  <2>1. \A e \in End : ~Restart(e)
    BY <1>0 DEF Restart
  <2> QED
    BY <2>1 DEF Next, sendSegment, emitFeedback, onAck, RaceWon, RaceLost, Reconnect, onHello, LinkDown,
                onClosed, SenderHeartbeat, Recovers, vars, counts
<1>i. AllTrue /\ Adopted /\ Introduced /\ Covered
  BY <1>r DEF FollowInv
<1>f. ASSUME \A k \in Links : net'["sender"][k] = net["sender"][k],
             UNCHANGED <<live, carried, generation, peer_generation, primary, applied_epoch, feedback_epoch, decided>>
      PROVE  AllTrue' /\ Adopted' /\ Introduced' /\ Covered'
  <2>1. ASSUME NEW k \in Links, k \in carried', News(k) PROVE News(k)'
    BY <1>f, <2>1 DEF News
  <2> QED
    BY <1>0, <1>f, <1>i, <2>1, SenderFrame, CoveredFrame
<1>1. CASE sendSegment
  BY <1>1, <1>f, SendAt DEF sendSegment, arbiterVars
<1>2. ASSUME NEW S \in SUBSET Links, emitFeedback(S) PROVE AllTrue' /\ Adopted' /\ Introduced' /\ Covered'
  <2>0. UNCHANGED <<live, generation, peer_generation, primary, applied_epoch>>
    BY <1>2 DEF emitFeedback, senderVars
  <2>1. CASE /\ feedback_epoch' = feedback_epoch /\ decided' = decided /\ carried' = carried
             /\ \A k \in Links : net'["sender"][k] = net["sender"][k]
    BY <1>f, <2>0, <2>1
  <2>2. ASSUME NEW b \in Links, NEW m \in Message, m = Msg("ack", feedback_epoch', b),
               feedback_epoch' = feedback_epoch + 1, decided' = Append(decided, b),
               carried' \subseteq live["arbiter"] \cap live["sender"],
               \A k \in Links : net'["sender"][k] =
                   IF k \in carried' THEN Append(net["sender"][k], m) ELSE net["sender"][k]
        PROVE  AllTrue' /\ Adopted' /\ Introduced' /\ Covered'
    <3>1. \A k \in Links :
              /\ In(net["sender"][k]) \subseteq Message
              /\ In(net'["sender"][k]) \subseteq In(net["sender"][k]) \cup {m}
              /\ k \in carried' => m \in In(net'["sender"][k])
              /\ Greeting(k) => Greeting(k)'
      BY <1>0, <2>2, AppendIn DEF Greeting
    <3>2. Adopted' /\ decided'[feedback_epoch'] = b
      <4>1. /\ Len(decided') = feedback_epoch' /\ decided'[feedback_epoch'] = b
            /\ \A n \in 1..feedback_epoch : decided'[n] = decided[n]
        BY <1>0, <1>i, <2>2 DEF Adopted
      <4> QED
        BY <1>0, <1>i, <2>0, <2>2, <4>1 DEF Adopted
    <3>3. m.type = "ack" /\ m.num = feedback_epoch' /\ m.link = b
      BY <2>2 DEF Msg
    <3>4. True(m)'
      <4>1. m.num \in 1..feedback_epoch' /\ m.link = decided'[m.num]
        <5>1. feedback_epoch' \in 1..feedback_epoch'
          BY <1>0, <2>2
        <5> QED
          BY <3>2, <3>3, <5>1
      <4> QED
        BY <3>3, <4>1 DEF True
    <3>5. AllTrue'
      <4>1. \A x \in Message : True(x) => True(x)'
        BY <1>0, <1>i, <2>2, TrueLasts
      <4> QED
        BY <1>i, <3>1, <3>4, <4>1 DEF AllTrue
    <3>6. Introduced'
      BY <1>0, <1>i, <2>0, <3>1 DEF Introduced
    <3>7. Covered'
      <4>1. carried' \subseteq Links /\ feedback_epoch' # 0
        BY <1>0, <2>2
      <4> QED
        BY <2>0, <2>2, <3>1, <3>3, <4>1 DEF Covered, News
    <3> QED
      BY <3>2, <3>5, <3>6, <3>7
  <2>3. \A b \in Measured : b \in Links
    BY DEF Measured
  <2> QED
    BY <1>2, <2>1, <2>2, <2>3, FeedbackAt
<1>3. ASSUME NEW k \in Links, onAck(k) PROVE AllTrue' /\ Adopted' /\ Introduced' /\ Covered'
  <2> DEFINE q == net["sender"][k]
             m == Head(q)
  <2>1. /\ q \in Seq(Message) /\ q # <<>> /\ m.type = "ack" /\ m.num \in Nat /\ k \in live["sender"]
        /\ \A e \in End, j \in Links : net'[e][j] = IF e = "sender" /\ j = k THEN Tail(q) ELSE net[e][j]
        /\ UNCHANGED <<live, carried, generation, peer_generation, feedback_epoch, decided>>
        /\ IF m.num > applied_epoch
           THEN applied_epoch' = m.num /\ primary' = m.link
           ELSE UNCHANGED <<applied_epoch, primary>>
    <3>1. Reads("sender", k, "ack") /\ Consume("sender", k)
      BY <1>3 DEF onAck
    <3> QED
      BY <1>0, <1>3, <3>1, ReadType, ConsumeAt DEF onAck, arbiterVars, counts, Reads
  <2>2. In(q) = {m} \cup In(Tail(q)) /\ True(m)
    BY <1>i, <2>1, TailIn DEF AllTrue
  <2>3. peer_generation["sender"] # 0
    BY <1>i, <2>1 DEF Introduced, Greeting
  <2> HIDE DEF m, q
  <2>4. \A e \in End, j \in Links : In(net'[e][j]) \subseteq In(net[e][j])
    BY <2>1, <2>2 DEF q
  <2>5. AllTrue'
    <3>1. \A x : True(x) => True(x)'
      BY <2>1 DEF True
    <3> QED
      BY <1>0, <1>i, <2>4, <3>1 DEF AllTrue
  <2>6. Adopted'
    BY <1>0, <1>i, <2>1, <2>2 DEF Adopted, True
  <2>7. Introduced'
    BY <1>i, <2>1, <2>3 DEF Introduced
  <2>8. ASSUME NEW j \in Links, j \in carried', News(j) PROVE News(j)'
    <3>2. \A x \in In(net["sender"][j]) : x = m \/ x \in In(net'["sender"][j])
      BY <1>0, <2>1, <2>2 DEF q
    <3>3. applied_epoch' # feedback_epoch => applied_epoch # feedback_epoch /\ m.num # feedback_epoch
      BY <1>0, <1>i, <2>1, <2>2 DEF Adopted, True
    <3> QED
      BY <2>1, <2>8, <3>2, <3>3 DEF News
  <2> QED
    BY <1>i, <2>1, <2>5, <2>6, <2>7, <2>8, CoveredFrame
<1>a. ASSUME NEW k \in Links, Consume("arbiter", k),
             UNCHANGED <<live, carried, generation, peer_generation, primary, applied_epoch, feedback_epoch, decided>>
      PROVE  AllTrue' /\ Adopted' /\ Introduced' /\ Covered'
  <2>1. \A j \in Links : net'["sender"][j] = net["sender"][j]
    BY <1>0, <1>a, ConsumeAt
  <2> QED
    BY <1>a, <1>f, <2>1
<1>4. ASSUME NEW k \in Links, RaceWon(k) PROVE AllTrue' /\ Adopted' /\ Introduced' /\ Covered'
  BY <1>a, <1>4 DEF RaceWon, senderVars, counts
<1>5. ASSUME NEW k \in Links, RaceLost(k) PROVE AllTrue' /\ Adopted' /\ Introduced' /\ Covered'
  BY <1>a, <1>5 DEF RaceLost, senderVars, counts
<1>6. ASSUME NEW k \in Links, Reconnect(k) PROVE AllTrue' /\ Adopted' /\ Introduced' /\ Covered'
  <2> DEFINE h == Hello("sender", k)
  <2>1. /\ \A e \in End, j \in Links : j # k => net'[e][j] = net[e][j]
        /\ net'["sender"][k] = h
        /\ \A e \in End : k \notin live[e] /\ live'[e] = live[e] \cup {k}
        /\ UNCHANGED <<carried, generation, peer_generation, primary, applied_epoch, feedback_epoch, decided>>
    <3>1. UNCHANGED <<carried, generation, peer_generation, primary, applied_epoch, feedback_epoch, decided>>
      BY <1>6 DEF Reconnect, senderVars, counts
    <3>2. /\ \A e \in End, j \in Links : net'[e][j] = IF j = k THEN Hello(e, k) ELSE net[e][j]
          /\ \A e \in End : k \notin live[e] /\ live'[e] = live[e] \cup {k}
      BY <1>6, ReconnectAt
    <3> QED
      BY <1>0, <3>1, <3>2
  <2>2. /\ In(h) = {Head(h)} /\ h # <<>> /\ Head(h).type = "hello" /\ Head(h).num = 1
    BY <1>0, <1>i, HelloIn DEF Introduced, Peer
  <2> HIDE DEF h
  <2>3. AllTrue'
    <3>1. \A x : True(x) => True(x)'
      BY <2>1 DEF True
    <3>2. PICK m : m = Head(h)
      OBVIOUS
    <3>3. True(m)'
      BY <2>2, <3>2 DEF True
    <3> QED
      BY <1>0, <1>i, <2>1, <2>2, <3>1, <3>2, <3>3 DEF AllTrue
  <2>4. Introduced'
    <3>1. Greeting(k)' /\ \A j \in live["sender"] : Greeting(j) => Greeting(j)'
      BY <1>0, <2>1, <2>2 DEF Greeting
    <3> QED
      BY <1>0, <1>i, <2>1, <3>1 DEF Introduced
  <2>5. ASSUME NEW j \in Links, j \in carried', News(j) PROVE News(j)'
    <3>1. j # k
      BY <1>0, <2>1, <2>5 DEF News
    <3> QED
      BY <1>0, <2>1, <2>5, <3>1 DEF News
  <2> QED
    BY <1>i, <2>1, <2>3, <2>4, <2>5, CoveredFrame DEF Adopted
<1>7. ASSUME NEW e \in End, NEW k \in Links, onHello(e, k) PROVE AllTrue' /\ Adopted' /\ Introduced' /\ Covered'
  <2>0. /\ Reads(e, k, "hello") /\ Consume(e, k)
        /\ UNCHANGED <<live, carried, generation, primary, feedback_epoch, decided>>
    BY <1>7 DEF onHello, counts
  <2>1. CASE e = "arbiter"
    <3>1. peer_generation'["sender"] = peer_generation["sender"] /\ applied_epoch' = applied_epoch
      BY <1>7, <2>1 DEF onHello, TypeOK, End
    <3>2. \A j \in Links : net'["sender"][j] = net["sender"][j]
      BY <1>0, <2>0, <2>1, ConsumeAt
    <3>3. ASSUME NEW j \in Links, j \in carried', News(j) PROVE News(j)'
      BY <2>0, <3>1, <3>2, <3>3 DEF News
    <3> QED
      BY <1>0, <1>i, <2>0, <3>1, <3>2, <3>3, SenderFrame, CoveredFrame
  <2>2. CASE e = "sender"
    <3> DEFINE q == net["sender"][k]
               m == Head(q)
    <3>1. /\ q \in Seq(Message) /\ q # <<>> /\ m.type = "hello" /\ k \in live["sender"]
          /\ \A d \in End, j \in Links : net'[d][j] = IF d = "sender" /\ j = k THEN Tail(q) ELSE net[d][j]
      BY <1>0, <2>0, <2>2, ReadType, ConsumeAt DEF Reads
    <3>2. /\ peer_generation'["sender"] = m.num
          /\ applied_epoch' = IF m.num # peer_generation["sender"] THEN 0 ELSE applied_epoch
      BY <1>0, <1>7, <2>2 DEF onHello, TypeOK
    <3>3. In(q) = {m} \cup In(Tail(q)) /\ m.num = 1
      BY <1>i, <3>1, TailIn DEF AllTrue, True
    <3> HIDE DEF m, q
    <3>4. applied_epoch' = applied_epoch /\ Introduced'
      BY <1>i, <2>0, <3>2, <3>3 DEF Introduced
    <3>5. \A d \in End, j \in Links : In(net'[d][j]) \subseteq In(net[d][j])
      BY <3>1, <3>3 DEF q
    <3>6. AllTrue'
      <4>1. \A x : True(x) => True(x)'
        BY <2>0 DEF True
      <4> QED
        BY <1>0, <1>i, <3>5, <4>1 DEF AllTrue
    <3>7. ASSUME NEW j \in Links, j \in carried', News(j) PROVE News(j)'
      <4>1. \A x \in In(net["sender"][j]) : x = m \/ x \in In(net'["sender"][j])
        BY <1>0, <3>1, <3>3 DEF q
      <4> QED
        BY <2>0, <3>1, <3>4, <3>7, <4>1 DEF News
    <3>8. Adopted'
      BY <1>i, <2>0, <3>4 DEF Adopted
    <3> QED
      BY <1>i, <2>0, <3>4, <3>6, <3>7, <3>8, CoveredFrame
  <2> QED
    BY <2>1, <2>2 DEF End
<1>8. ASSUME NEW e \in End, NEW k \in Links, LinkDown(e, k) PROVE AllTrue' /\ Adopted' /\ Introduced' /\ Covered'
  <2> DEFINE m == Msg("closed", 0, 0)
  <2>0. /\ UNCHANGED <<generation, peer_generation, primary, applied_epoch, feedback_epoch, decided>>
        /\ carried' = carried \ {k} /\ Cut(e, {k}) /\ {k} \in SUBSET Links
    BY <1>8 DEF LinkDown, Cut, senderVars, arbiterVars
  <2>1. m \in Message /\ m.type = "closed"
    BY MsgType DEF Msg
  <2>2. /\ \A d \in End : live'[d] \subseteq live[d] /\ (d = e => live'[d] = live[d] \ {k})
        /\ \A d \in End, j \in Links : j # k => net'[d][j] = net[d][j] /\ (j \in live[d] => j \in live'[d])
        /\ \/ net'["sender"][k] = <<>> /\ e = "sender"
           \/ net'["sender"][k] = Append(net["sender"][k], m)
    <3>1. /\ live' = [live EXCEPT ![e] = @ \ {k}]
          /\ net' = [f \in End |-> [j \in Links |->
                       IF j \notin {k} THEN net[f][j]
                       ELSE IF f = e \/ j \notin live[f] THEN <<>>
                       ELSE Append(net[f][j], m)]]
      BY <2>0 DEF Cut
    <3>2. k \in live["sender"]
      BY <1>8 DEF LinkDown, Peer, End
    <3> HIDE DEF m
    <3> QED
      BY <1>0, <3>1, <3>2
  <2> HIDE DEF m
  <2>3. /\ In(net'["sender"][k]) \subseteq In(net["sender"][k]) \cup {m}
        /\ k \in live'["sender"] => (Greeting(k) => Greeting(k)')
    <3>1. CASE net'["sender"][k] = <<>> /\ e = "sender"
      BY <1>0, <2>2, <3>1, EmptyIn
    <3>2. CASE net'["sender"][k] = Append(net["sender"][k], m)
      BY <1>0, <2>1, <3>2, AppendIn DEF Greeting
    <3> QED
      BY <2>2, <3>1, <3>2
  <2>4. AllTrue'
    <3>1. \A x : True(x) => True(x)'
      BY <2>0 DEF True
    <3>2. True(m)'
      BY <2>1 DEF True
    <3> QED
      BY <1>0, <1>i, <2>2, <2>3, <3>1, <3>2 DEF AllTrue
  <2>5. Introduced'
    <3>1. \A j \in live'["sender"] : j \in live["sender"] /\ (Greeting(j) => Greeting(j)')
      <4>1. \A j \in Links : j # k => (Greeting(j) => Greeting(j)')
        BY <1>0, <2>2 DEF Greeting
      <4> QED
        BY <1>0, <2>2, <2>3, <4>1
    <3> QED
      BY <1>i, <2>0, <3>1 DEF Introduced
  <2>6. Adopted'
    BY <1>i, <2>0 DEF Adopted
  <2>7. Covered'
    <3>1. ASSUME NEW j \in Links, j \in carried', News(j) PROVE News(j)'
      BY <1>0, <2>0, <2>2, <3>1 DEF News
    <3> QED
      BY <1>i, <2>0, <3>1, CoveredFrame
  <2> QED
    BY <2>4, <2>5, <2>6, <2>7
<1>9. ASSUME NEW e \in End, NEW k \in Links, onClosed(e, k) PROVE AllTrue' /\ Adopted' /\ Introduced' /\ Covered'
  <2> DEFINE q == net[e][k]
             m == Head(q)
  <2>0. /\ UNCHANGED <<generation, peer_generation, primary, applied_epoch, feedback_epoch, decided>>
        /\ carried' = carried \ {k}
        /\ \A d \in End : live'[d] = IF d = e THEN live[d] \ {k} ELSE live[d]
    BY <1>0, <1>9 DEF onClosed, senderVars, arbiterVars, counts
  <2>1. /\ q \in Seq(Message) /\ q # <<>> /\ m.type = "closed"
        /\ \A d \in End, j \in Links : net'[d][j] = IF d = e /\ j = k THEN Tail(q) ELSE net[d][j]
    <3>1. Reads(e, k, "closed") /\ Consume(e, k)
      BY <1>9 DEF onClosed
    <3> QED
      BY <1>0, <3>1, ReadType, ConsumeAt
  <2>2. In(q) = {m} \cup In(Tail(q))
    BY <2>1, TailIn
  <2> HIDE DEF m, q
  <2>3. \A d \in End, j \in Links : In(net'[d][j]) \subseteq In(net[d][j])
    BY <2>1, <2>2 DEF q
  <2>4. AllTrue'
    <3>1. \A x : True(x) => True(x)'
      BY <2>0 DEF True
    <3> QED
      BY <1>0, <1>i, <2>3, <3>1 DEF AllTrue
  <2>5. Introduced'
    <3>1. \A j \in live'["sender"] : j \in live["sender"] /\ (Greeting(j) => Greeting(j)')
      BY <1>0, <2>0, <2>1 DEF Greeting
    <3> QED
      BY <1>i, <2>0, <3>1 DEF Introduced
  <2>6. ASSUME NEW j \in Links, j \in carried', News(j) PROVE News(j)'
    BY <1>0, <2>0, <2>1, <2>6 DEF News
  <2>7. Adopted'
    BY <1>i, <2>0 DEF Adopted
  <2> QED
    BY <1>i, <2>0, <2>4, <2>5, <2>6, <2>7, CoveredFrame
<1>10. ASSUME NEW S \in SUBSET Links, SenderHeartbeat(S) PROVE AllTrue' /\ Adopted' /\ Introduced' /\ Covered'
  BY <1>f, <1>10 DEF SenderHeartbeat, senderVars, arbiterVars
<1>11. ASSUME NEW e \in End, NEW k \in Links, Recovers(e, k) PROVE AllTrue' /\ Adopted' /\ Introduced' /\ Covered'
  BY <1>f, <1>11 DEF Recovers, senderVars, arbiterVars
<1>12. CASE UNCHANGED vars
  BY <1>f, <1>12 DEF vars, senderVars, arbiterVars
<1> QED
  BY <1>r, <1>1, <1>2, <1>3, <1>4, <1>5, <1>6, <1>7, <1>8, <1>9, <1>10, <1>11, <1>12 DEF Next

LEMMA FollowInit == Init => FollowInv
<1> SUFFICES ASSUME Init PROVE FollowInv
  OBVIOUS
<1>0. /\ \A e \in End, l \in Links : net[e][l] = Hello(e, l) /\ l \in live[e]
      /\ generation = [e \in End |-> 1] /\ peer_generation["sender"] = 0 /\ applied_epoch = 0 /\ feedback_epoch = 0
      /\ decided = <<>> /\ carried = {} /\ "sender" \in End /\ live["sender"] = Links
  BY DEF Init, End
<1>1. \A e \in End, l \in Links :
          /\ In(net[e][l]) = {Head(net[e][l])} /\ net[e][l] # <<>>
          /\ Head(net[e][l]).type = "hello" /\ Head(net[e][l]).num = 1
  BY <1>0, HelloIn DEF Peer, End
<1>2. AllTrue
  <2>1. \A l \in Links : \A m \in In(net["sender"][l]) : m.type = "hello" /\ m.num = 1
    <3> SUFFICES ASSUME NEW l \in Links, NEW m \in In(net["sender"][l])
                 PROVE  m.type = "hello" /\ m.num = 1
      OBVIOUS
    <3>1. m = Head(net["sender"][l])
      BY <1>0, <1>1
    <3> QED
      BY <1>0, <1>1, <3>1
  <2> QED
    BY <2>1 DEF AllTrue, True
<1>3. Adopted
  BY <1>0 DEF Adopted
<1>4. Introduced
  BY <1>0, <1>1 DEF Introduced, Greeting, End
<1>5. Covered
  BY <1>0 DEF Covered
<1> QED
  BY <1>2, <1>3, <1>4, <1>5 DEF FollowInv

(* Whatever links stall, are lost and come back, in whatever order the      *)
(* copies of the feedback are read: once the sender has read all there is   *)
(* on one link that got the arbiter's last decision and was not lost since, *)
(* it follows that decision (emitFeedback over liveChannels, and            *)
(* applied_epoch_).                                                         *)
THEOREM FollowsLastDecisionAlways == Spec => []FollowsLastDecision
<1>1. TypeOK /\ FollowInv => FollowsLastDecision
  <2> SUFFICES ASSUME TypeOK, FollowInv, restarts = 0, NEW l \in carried, net["sender"][l] = <<>>
               PROVE  primary = decided[Len(decided)]
    BY DEF FollowsLastDecision
  <2>1. Adopted /\ News(l) /\ feedback_epoch # 0
    BY DEF FollowInv, Covered
  <2>2. applied_epoch = feedback_epoch
    BY <2>1, EmptyIn DEF News
  <2> QED
    BY <2>1, <2>2 DEF Adopted
<1> QED
  BY <1>1, FollowInit, FollowStep, TypeInit, TypeStep, PTL DEF Spec

(* Over any number of links, as long as neither process has restarted.      *)
THEOREM EpochSoundWithoutRestart == Spec => [](restarts = 0 => EpochSound)
<1>1. FollowInv => (restarts = 0 => EpochSound)
  BY DEF FollowInv, Adopted, EpochSound
<1> QED
  BY <1>1, FollowInit, FollowStep, TypeInit, TypeStep, PTL DEF Spec

-----------------------------------------------------------------------------
(* A link that never loses a race keeps the others from being chosen in a   *)
(* period in which they lost against it.                                    *)

(* The arbiter has yet to read the Hello of the connection l. *)
Awaits(l) == net["arbiter"][l] # <<>> /\ Head(net["arbiter"][l]).type = "hello"

(* A connection is counted under its id at the sender, which its Hello      *)
(* names, and its Hello is read before any copy.                            *)
Known(l) ==
    /\ peer_channel[l] \in {0, l}
    /\ peer_channel[l] # 0 => peer_generation["arbiter"] = 1
    /\ l \in live["arbiter"] => peer_channel[l] = l \/ Awaits(l)

(* What is under way on l: a copy on Fast has yet to win; one whose twin    *)
(* came first on Fast is of the period in which Fast took part.             *)
UnderWay(l) ==
    \A m \in In(net["arbiter"][l]) :
        /\ m.type = "hello" => m.num = 1 /\ m.link = l
        /\ m.type = "data" =>
             /\ m = Msg("data", m.num, 0) /\ m.num \in 1..segs
             /\ l = Fast => winner[m.num] = 0
             /\ winner[m.num] = Fast => part[Fast] > 0

(* No two copies of one segment in a queue. *)
Once(q) ==
    \A i, j \in DOMAIN q : i # j /\ q[i].type = "data" /\ q[j].type = "data" => q[i].num # q[j].num

Winners ==
    /\ generation["sender"] = 1 /\ peer_generation["arbiter"] \in {0, 1} /\ segs <= MaxSegs
    /\ \A n \in 1..MaxSegs : winner[n] # 0 => n <= segs /\ peer_generation["arbiter"] = 1

Scores ==
    /\ win[Fast] = part[Fast]
    /\ \A c \in Links : beaten[c] = "now" => win[c] < part[c] /\ part[Fast] > 0

BeatenInv ==
    /\ \A l \in Links : Known(l) /\ UnderWay(l)
    /\ Once(net["arbiter"][Fast]) /\ Winners /\ Scores

LEMMA TailOnce ==
    ASSUME NEW q \in Seq(Message), q # <<>>, Once(q)
    PROVE  /\ Once(Tail(q))
           /\ Head(q).type = "data" => \A m \in In(Tail(q)) : m.type = "data" => m.num # Head(q).num
<1> DEFINE t == Tail(q)
<1>0. /\ \A i \in DOMAIN t : i \in Nat /\ i + 1 \in DOMAIN q /\ i + 1 # 1 /\ t[i] = q[i + 1]
      /\ 1 \in DOMAIN q /\ Head(q) = q[1]
  BY TailAt
<1> HIDE DEF t
<1>1. Once(t)
  <2> SUFFICES ASSUME NEW i \in DOMAIN t, NEW j \in DOMAIN t, i # j, t[i].type = "data", t[j].type = "data"
               PROVE  t[i].num # t[j].num
    BY DEF Once
  <2>1. i + 1 # j + 1
    BY <1>0
  <2> QED
    BY <1>0, <2>1 DEF Once
<1>2. Head(q).type = "data" => \A m \in In(t) : m.type = "data" => m.num # Head(q).num
  BY <1>0 DEF Once, In
<1> QED
  BY <1>1, <1>2 DEF t

LEMMA AppendOnce ==
    ASSUME NEW q \in Seq(Message), NEW m \in Message, Once(q),
           m.type = "data" => \A x \in In(q) : x.type = "data" => x.num # m.num
    PROVE  Once(Append(q, m))
<1> DEFINE a == Append(q, m)
<1>1. \A i \in DOMAIN a : (i \in DOMAIN q /\ a[i] = q[i]) \/ (i = Len(q) + 1 /\ a[i] = m)
  OBVIOUS
<1>2. \A i \in DOMAIN q : q[i] \in In(q)
  BY DEF In
<1> HIDE DEF a
<1>3. Once(a)
  BY <1>1, <1>2 DEF Once
<1> QED
  BY <1>3 DEF a

LEMMA OnceShort == Once(<<>>) /\ \A e \in End, l \in Links : Once(Hello(e, l))
<1>1. \A e \in End, l \in Links : DOMAIN Hello(e, l) = {1}
  BY HelloAt
<1> QED
  BY <1>1 DEF Once

(* The arbiter's side depends on a few variables. *)
LEMMA BeatenFrame ==
    ASSUME BeatenInv, TypeOK, Fast \in Links,
           \A l \in Links : net'["arbiter"][l] = net["arbiter"][l],
           live'["arbiter"] \subseteq live["arbiter"],
           peer_generation'["arbiter"] = peer_generation["arbiter"],
           generation'["sender"] = generation["sender"],
           UNCHANGED <<peer_channel, winner, win, part, beaten, segs>>
    PROVE  BeatenInv'
<1>1. \A l \in Links : Known(l)'
  BY DEF BeatenInv, Known, Awaits
<1>2. \A l \in Links : UnderWay(l)'
  BY DEF BeatenInv, UnderWay
<1>3. Once(net["arbiter"][Fast])' /\ Winners' /\ Scores'
  BY DEF BeatenInv, Once, Winners, Scores
<1> QED
  BY <1>1, <1>2, <1>3 DEF BeatenInv

(* A decision of a heartbeat that finds no copy under way. *)
LEMMA BeatenNotBest ==
    ASSUME TypeOK, Scores, Fast \in Links, NEW b \in Measured,
           \A j \in Measured \ {b} : Better(b, j)
    PROVE  beaten[b] # "now"
<1> SUFFICES ASSUME beaten[b] = "now" PROVE FALSE
  OBVIOUS
<1>1. b \in Links /\ win[b] \in Nat /\ part[b] \in Nat /\ part[Fast] \in Nat /\ win[b] < part[b]
      /\ win[Fast] = part[Fast] /\ part[Fast] > 0
  BY DEF TypeOK, Scores, Measured
<1>2. Fast \in Measured /\ Fast # b
  BY <1>1 DEF Measured
<1>3. Better(b, Fast)
  BY <1>2
<1>4. win[b] * part[Fast] < part[Fast] * part[b]
  BY <1>1
<1>5. win[b] * part[Fast] \in Nat /\ part[Fast] * part[b] \in Nat
  BY <1>1
<1> QED
  BY <1>1, <1>3, <1>4, <1>5 DEF Better

LEMMA BeatenStep ==
    ASSUME Prompt, Fast \in Links, MaxRestarts = 0
    PROVE  TypeOK /\ BeatenInv /\ [Next]_vars => BeatenInv'
<1> SUFFICES ASSUME TypeOK, BeatenInv, [Next]_vars PROVE BeatenInv'
  OBVIOUS
<1>0. /\ "sender" \in End /\ "arbiter" \in End /\ NetType /\ live \in [End -> SUBSET Links]
      /\ \A e \in End, k \in Links : net[e][k] \in Seq(Message)
      /\ peer_channel \in [Links -> Links \cup {0}] /\ winner \in [1..MaxSegs -> Links \cup {0}]
      /\ win \in [Links -> Nat] /\ part \in [Links -> Nat] /\ \A k \in Links : win[k] <= part[k]
      /\ segs \in Nat /\ MaxSegs \in Nat /\ Fast # 0 /\ \A k \in Links : k # 0
      /\ beaten \in [Links -> {"never", "before", "now"}]
  BY LinksAssumption, BoundAssumption DEF TypeOK, NetType, End
<1>i. /\ \A k \in Links : Known(k) /\ UnderWay(k)
      /\ Once(net["arbiter"][Fast]) /\ Winners /\ Scores
  BY DEF BeatenInv
<1>m. \A k \in Links : In(net["arbiter"][k]) \subseteq Message
  BY <1>0 DEF In
(* Reading at the arbiter; what its connection is counted under. *)
<1>a. ASSUME NEW k \in Links, NEW t, Reads("arbiter", k, t), Consume("arbiter", k)
      PROVE  LET q == net["arbiter"][k]
             IN  /\ q \in Seq(Message) /\ q # <<>> /\ Head(q) \in Message /\ Head(q).type = t
                 /\ k \in live["arbiter"] /\ In(q) = {Head(q)} \cup In(Tail(q))
                 /\ \A j \in Links : net'["arbiter"][j] = IF j = k THEN Tail(q) ELSE net["arbiter"][j]
                 /\ \A j \in Links : In(net'["arbiter"][j]) \subseteq In(net["arbiter"][j])
                 /\ t # "hello" => peer_channel[k] = k /\ peer_generation["arbiter"] = 1
                 /\ Once(net'["arbiter"][Fast])
                 /\ k = Fast /\ t = "data" =>
                      \A x \in In(net'["arbiter"][Fast]) : x.type = "data" => x.num # Head(q).num
  <2> DEFINE q == net["arbiter"][k]
  <2>1. q \in Seq(Message) /\ q # <<>> /\ Head(q) \in Message /\ Head(q).type = t /\ k \in live["arbiter"]
    BY <1>0, <1>a, ReadType DEF Reads
  <2>2. In(q) = {Head(q)} \cup In(Tail(q))
    BY <2>1, TailIn
  <2>3. \A j \in Links : net'["arbiter"][j] = IF j = k THEN Tail(q) ELSE net["arbiter"][j]
    BY <1>0, <1>a, ConsumeAt
  <2>4. t # "hello" => peer_channel[k] = k /\ peer_generation["arbiter"] = 1
    BY <1>0, <1>i, <2>1 DEF Known, Awaits
  <2>5. /\ Once(net'["arbiter"][Fast])
        /\ k = Fast /\ t = "data" =>
             \A x \in In(net'["arbiter"][Fast]) : x.type = "data" => x.num # Head(q).num
    <3>1. CASE k = Fast
      BY <1>i, <2>1, <2>3, <3>1, TailOnce
    <3>2. CASE k # Fast
      BY <1>i, <2>3, <3>2
    <3> QED
      BY <3>1, <3>2
  <2>6. \A j \in Links : In(net'["arbiter"][j]) \subseteq In(net["arbiter"][j])
    BY <2>2, <2>3
  <2> HIDE DEF q
  <2>7. /\ q \in Seq(Message) /\ q # <<>> /\ Head(q) \in Message /\ Head(q).type = t
        /\ k \in live["arbiter"] /\ In(q) = {Head(q)} \cup In(Tail(q))
        /\ \A j \in Links : net'["arbiter"][j] = IF j = k THEN Tail(q) ELSE net["arbiter"][j]
        /\ \A j \in Links : In(net'["arbiter"][j]) \subseteq In(net["arbiter"][j])
        /\ t # "hello" => peer_channel[k] = k /\ peer_generation["arbiter"] = 1
        /\ Once(net'["arbiter"][Fast])
        /\ k = Fast /\ t = "data" =>
             \A x \in In(net'["arbiter"][Fast]) : x.type = "data" => x.num # Head(q).num
    BY <2>1, <2>2, <2>3, <2>4, <2>5, <2>6
  <2> QED
    BY <2>7 DEF q
<1>1. CASE sendSegment
  <2> DEFINE m == Msg("data", segs', 0)
  <2>0. /\ segs' = segs + 1 /\ segs < MaxSegs
        /\ UNCHANGED <<live, generation, peer_generation, peer_channel, winner, win, part, beaten>>
    BY <1>1 DEF sendSegment, arbiterVars
  <2>1. m \in Message /\ m.type = "data" /\ m.num = segs' /\ m = Msg("data", m.num, 0)
    BY <1>1, SendAt DEF Msg
  <2>2. \A k \in Links : \/ net'["arbiter"][k] = net["arbiter"][k]
                         \/ net'["arbiter"][k] = Append(net["arbiter"][k], m)
    BY <1>1, SendAt
  <2> HIDE DEF m
  <2>3. winner[segs'] = 0
    BY <1>0, <1>i, <2>0 DEF Winners
  <2>4. \A k \in Links : /\ In(net'["arbiter"][k]) \subseteq In(net["arbiter"][k]) \cup {m}
                         /\ Awaits(k) => Awaits(k)'
    BY <1>0, <2>1, <2>2, AppendIn DEF Awaits
  <2>5. \A k \in Links : Known(k)'
    BY <1>i, <2>0, <2>4 DEF Known
  <2>6. ASSUME NEW k \in Links PROVE UnderWay(k)'
    <3> SUFFICES ASSUME NEW x \in In(net'["arbiter"][k])
                 PROVE  /\ x.type = "hello" => x.num = 1 /\ x.link = k
                        /\ x.type = "data" =>
                             /\ x = Msg("data", x.num, 0) /\ x.num \in 1..segs'
                             /\ k = Fast => winner[x.num] = 0
                             /\ winner[x.num] = Fast => part[Fast] > 0
      BY <2>0 DEF UnderWay
    <3>1. CASE x = m
      BY <1>0, <2>0, <2>1, <2>3, <3>1
    <3>2. CASE x \in In(net["arbiter"][k])
      <4>1. UnderWay(k)
        BY <1>i
      <4> QED
        BY <1>0, <2>0, <3>2, <4>1 DEF UnderWay
    <3> QED
      BY <2>4, <3>1, <3>2
  <2>7. Once(net'["arbiter"][Fast])
    <3>1. \A x \in In(net["arbiter"][Fast]) : x.type = "data" => x.num # m.num
      BY <1>0, <1>i, <2>0, <2>1 DEF UnderWay
    <3>2. Once(Append(net["arbiter"][Fast], m))
      BY <1>0, <1>i, <2>1, <3>1, AppendOnce
    <3> QED
      BY <1>i, <2>2, <3>2
  <2>8. Winners'
    <3>1. segs' <= MaxSegs /\ \A n \in 1..MaxSegs : n <= segs => n <= segs'
      BY <1>0, <2>0
    <3> QED
      BY <1>i, <2>0, <3>1 DEF Winners
  <2>9. Scores'
    BY <1>i, <2>0 DEF Scores
  <2> QED
    BY <2>5, <2>6, <2>7, <2>8, <2>9 DEF BeatenInv
<1>2. ASSUME NEW S \in SUBSET Links, emitFeedback(S) PROVE BeatenInv'
  <2>0. /\ UNCHANGED <<live, generation, peer_generation, peer_channel, winner, segs>>
        /\ win' = [l \in Links |-> win[l] \div 2] /\ part' = [l \in Links |-> part[l] \div 2]
        /\ beaten' = [l \in Links |-> IF beaten[l] = "never" THEN "never" ELSE "before"]
        /\ \A k \in Links : \A i \in DOMAIN net["arbiter"][k] : net["arbiter"][k][i].type # "data"
    BY <1>2 DEF emitFeedback
  <2>1. \A k \in Links : net'["arbiter"][k] = net["arbiter"][k]
    BY <1>2, FeedbackAt
  <2>2. \A k \in Links : Known(k)'
    BY <1>i, <2>0, <2>1 DEF Known, Awaits
  <2>3. \A k \in Links : UnderWay(k)'
    <3>1. \A k \in Links : \A m \in In(net["arbiter"][k]) : m.type # "data"
      BY <2>0 DEF In
    <3> QED
      BY <1>i, <2>1, <3>1 DEF UnderWay
  <2>4. Once(net'["arbiter"][Fast])
    BY <1>i, <2>1
  <2>5. Winners'
    BY <1>i, <2>0 DEF Winners
  <2>6. Scores'
    <3>1. \A c \in Links : beaten'[c] # "now"
      BY <2>0
    <3>2. win'[Fast] = part'[Fast]
      BY <1>i, <2>0 DEF Scores
    <3> QED
      BY <3>1, <3>2 DEF Scores
  <2> QED
    BY <2>2, <2>3, <2>4, <2>5, <2>6 DEF BeatenInv
<1>3. ASSUME NEW k \in Links, onAck(k) PROVE BeatenInv'
  <2>1. \A j \in Links : net'["arbiter"][j] = net["arbiter"][j]
    BY <1>0, <1>3, ConsumeAt DEF onAck
  <2> QED
    BY <1>3, <2>1, BeatenFrame DEF onAck, arbiterVars, counts
<1>4. ASSUME NEW k \in Links, RaceWon(k) PROVE BeatenInv'
  <2> DEFINE q == net["arbiter"][k]
             n == Head(q).num
  <2>0. /\ Reads("arbiter", k, "data") /\ Consume("arbiter", k) /\ InTime(k, n) /\ winner[n] = 0
        /\ winner' = [winner EXCEPT ![n] = k]
        /\ win' = IF peer_channel[k] # 0 THEN [win EXCEPT ![peer_channel[k]] = @ + 1] ELSE win
        /\ part' = IF peer_channel[k] # 0 THEN [part EXCEPT ![peer_channel[k]] = @ + 1] ELSE part
        /\ UNCHANGED <<live, generation, peer_generation, peer_channel, beaten, segs>>
    BY <1>4 DEF RaceWon, counts
  <2>1. /\ q \in Seq(Message) /\ q # <<>> /\ Head(q) \in Message /\ Head(q).type = "data"
        /\ k \in live["arbiter"] /\ In(q) = {Head(q)} \cup In(Tail(q))
        /\ \A j \in Links : net'["arbiter"][j] = IF j = k THEN Tail(q) ELSE net["arbiter"][j]
        /\ \A j \in Links : In(net'["arbiter"][j]) \subseteq In(net["arbiter"][j])
        /\ peer_channel[k] = k /\ peer_generation["arbiter"] = 1
        /\ Once(net'["arbiter"][Fast])
        /\ k = Fast => \A x \in In(net'["arbiter"][Fast]) : x.type = "data" => x.num # n
    BY <2>0, <1>a
  <2> HIDE DEF q
  <2>2. n \in 1..segs /\ n \in 1..MaxSegs
    BY <1>0, <1>i, <2>1 DEF UnderWay, Winners, q
  <2>3. /\ win' = [win EXCEPT ![k] = @ + 1] /\ part' = [part EXCEPT ![k] = @ + 1]
        /\ winner'[n] = k /\ \A i \in 1..MaxSegs : i # n => winner'[i] = winner[i]
    BY <1>0, <2>0, <2>1, <2>2
  <2> HIDE DEF n
  <2>4. \A x \in In(net'["arbiter"][Fast]) : x.type = "data" => x.num # n
    <3>1. CASE k # Fast
      <4>1. \A i \in DOMAIN net["arbiter"][Fast] : net["arbiter"][Fast][i] # Msg("data", n, 0)
        BY <1>0, <2>0, <3>1 DEF InTime
      <4>2. \A x \in In(net["arbiter"][Fast]) : x # Msg("data", n, 0)
        BY <4>1 DEF In
      <4> QED
        BY <1>i, <2>1, <4>2 DEF UnderWay
    <3> QED
      BY <2>1, <3>1
  <2>5. \A j \in Links : Known(j)'
    <3>1. \A j \in Links : j # k /\ Awaits(j) => Awaits(j)'
      BY <2>1 DEF Awaits
    <3> QED
      BY <1>i, <2>0, <2>1, <3>1 DEF Known
  <2>6. ASSUME NEW j \in Links PROVE UnderWay(j)'
    <3>1. part'[Fast] >= part[Fast] /\ (k = Fast => part'[Fast] > 0) /\ part'[Fast] \in Nat /\ part[Fast] \in Nat
      BY <1>0, <2>3
    <3> SUFFICES ASSUME NEW x \in In(net'["arbiter"][j])
                 PROVE  /\ x.type = "hello" => x.num = 1 /\ x.link = j
                        /\ x.type = "data" =>
                             /\ x = Msg("data", x.num, 0) /\ x.num \in 1..segs
                             /\ j = Fast => winner'[x.num] = 0
                             /\ winner'[x.num] = Fast => part'[Fast] > 0
      BY <2>0 DEF UnderWay
    <3>2. /\ x.type = "hello" => x.num = 1 /\ x.link = j
          /\ x.type = "data" =>
               /\ x = Msg("data", x.num, 0) /\ x.num \in 1..segs
               /\ j = Fast => winner[x.num] = 0
               /\ winner[x.num] = Fast => part[Fast] > 0
      BY <1>i, <2>1 DEF UnderWay
    <3>3. x.type = "data" => x.num \in 1..MaxSegs
      BY <1>0, <1>i, <3>2 DEF Winners
    <3>4. x.type = "data" /\ j = Fast => winner'[x.num] = 0
      BY <2>3, <2>4, <3>2, <3>3
    <3>5. x.type = "data" /\ winner'[x.num] = Fast => part'[Fast] > 0
      BY <2>3, <3>1, <3>2, <3>3
    <3> QED
      BY <3>2, <3>4, <3>5
  <2>7. Winners'
    BY <1>0, <1>i, <2>0, <2>1, <2>2, <2>3 DEF Winners
  <2>8. Scores'
    <3>1. win'[Fast] = part'[Fast] /\ part'[Fast] >= part[Fast] /\ part'[Fast] \in Nat
      BY <1>0, <1>i, <2>3 DEF Scores
    <3>2. \A c \in Links : win[c] < part[c] => win'[c] < part'[c]
      BY <1>0, <2>3
    <3> QED
      BY <1>0, <1>i, <2>0, <3>1, <3>2 DEF Scores
  <2> QED
    BY <2>1, <2>5, <2>6, <2>7, <2>8 DEF BeatenInv
<1>5. ASSUME NEW k \in Links, RaceLost(k) PROVE BeatenInv'
  <2> DEFINE q == net["arbiter"][k]
             n == Head(q).num
  <2>0. /\ Reads("arbiter", k, "data") /\ Consume("arbiter", k) /\ winner[n] # 0
        /\ part' = IF peer_channel[k] # 0 THEN [part EXCEPT ![peer_channel[k]] = @ + 1] ELSE part
        /\ beaten' = IF peer_channel[k] # 0 /\ winner[n] = Fast
                     THEN [beaten EXCEPT ![peer_channel[k]] = "now"] ELSE beaten
        /\ UNCHANGED <<live, generation, peer_generation, peer_channel, winner, win, segs>>
    BY <1>5 DEF RaceLost, counts
  <2>1. /\ q \in Seq(Message) /\ q # <<>> /\ Head(q) \in Message /\ Head(q).type = "data"
        /\ k \in live["arbiter"] /\ In(q) = {Head(q)} \cup In(Tail(q))
        /\ \A j \in Links : net'["arbiter"][j] = IF j = k THEN Tail(q) ELSE net["arbiter"][j]
        /\ \A j \in Links : In(net'["arbiter"][j]) \subseteq In(net["arbiter"][j])
        /\ peer_channel[k] = k /\ peer_generation["arbiter"] = 1
        /\ Once(net'["arbiter"][Fast])
    BY <2>0, <1>a
  <2> HIDE DEF q
  <2>2. k # Fast /\ (winner[n] = Fast => part[Fast] > 0)
    BY <1>i, <2>0, <2>1 DEF UnderWay, q
  <2>3. /\ part' = [part EXCEPT ![k] = @ + 1]
        /\ beaten' = IF winner[n] = Fast THEN [beaten EXCEPT ![k] = "now"] ELSE beaten
    BY <1>0, <2>0, <2>1
  <2> HIDE DEF n
  <2>4. part'[Fast] = part[Fast]
    BY <1>0, <2>2, <2>3
  <2>5. \A j \in Links : Known(j)'
    <3>1. \A j \in Links : j # k /\ Awaits(j) => Awaits(j)'
      BY <2>1 DEF Awaits
    <3> QED
      BY <1>i, <2>0, <2>1, <3>1 DEF Known
  <2>6. \A j \in Links : UnderWay(j)'
    BY <1>i, <2>0, <2>1, <2>4 DEF UnderWay
  <2>7. Winners'
    BY <1>i, <2>0 DEF Winners
  <2>8. Scores'
    <3>1. win[k] < part'[k] /\ \A c \in Links : c # k => part'[c] = part[c] /\ beaten'[c] = beaten[c]
      BY <1>0, <2>3
    <3>2. beaten'[k] = "now" => part[Fast] > 0
      BY <1>0, <1>i, <2>2, <2>3 DEF Scores
    <3> QED
      BY <1>0, <1>i, <2>0, <2>4, <3>1, <3>2 DEF Scores
  <2> QED
    BY <2>1, <2>5, <2>6, <2>7, <2>8 DEF BeatenInv
<1>6. ASSUME NEW k \in Links, Reconnect(k) PROVE BeatenInv'
  <2> DEFINE h == Hello("arbiter", k)
  <2>0. /\ UNCHANGED <<generation, peer_generation, winner, win, part, beaten, segs>>
        /\ peer_channel' = [peer_channel EXCEPT ![k] = 0]
    BY <1>6 DEF Reconnect, counts
  <2>1. /\ \A j \in Links : net'["arbiter"][j] = IF j = k THEN h ELSE net["arbiter"][j]
        /\ live'["arbiter"] = live["arbiter"] \cup {k}
    BY <1>0, <1>6, ReconnectAt
  <2>2. /\ In(h) = {Head(h)} /\ h # <<>> /\ Head(h).type = "hello" /\ Head(h).num = 1 /\ Head(h).link = k
        /\ Once(h)
    BY <1>0, <1>i, HelloIn, OnceShort DEF Winners, Peer
  <2> HIDE DEF h
  <2>3. ASSUME NEW j \in Links PROVE Known(j)' /\ UnderWay(j)'
    <3>1. CASE j = k
      <4>1. Known(j)'
        BY <1>0, <2>0, <2>1, <2>2, <3>1 DEF Known, Awaits
      <4>2. \A m \in In(net'["arbiter"][k]) : m.type = "hello" /\ m.num = 1 /\ m.link = k
        BY <2>1, <2>2
      <4>3. UnderWay(j)'
        BY <3>1, <4>2 DEF UnderWay
      <4> QED
        BY <4>1, <4>3
    <3>2. CASE j # k
      <4>1. net'["arbiter"][j] = net["arbiter"][j] /\ peer_channel'[j] = peer_channel[j]
            /\ (j \in live'["arbiter"] => j \in live["arbiter"])
        BY <1>0, <2>0, <2>1, <3>2
      <4>2. Known(j)'
        BY <1>i, <2>0, <4>1 DEF Known, Awaits
      <4>3. UnderWay(j)'
        BY <1>i, <2>0, <4>1 DEF UnderWay
      <4> QED
        BY <4>2, <4>3
    <3> QED
      BY <3>1, <3>2
  <2>4. Once(net'["arbiter"][Fast])
    BY <1>i, <2>1, <2>2
  <2>5. Winners' /\ Scores'
    BY <1>i, <2>0 DEF Winners, Scores
  <2> QED
    BY <2>3, <2>4, <2>5 DEF BeatenInv
<1>7. ASSUME NEW e \in End, NEW k \in Links, onHello(e, k) PROVE BeatenInv'
  <2>0. /\ Reads(e, k, "hello") /\ Consume(e, k)
        /\ peer_generation' = [peer_generation EXCEPT ![e] = Head(net[e][k]).num]
        /\ UNCHANGED <<live, generation, winner, segs>>
    BY <1>7 DEF onHello, counts
  <2>1. CASE e = "sender"
    <3>1. \A j \in Links : net'["arbiter"][j] = net["arbiter"][j]
      BY <1>0, <2>0, <2>1, ConsumeAt
    <3>2. peer_generation'["arbiter"] = peer_generation["arbiter"] /\ UNCHANGED <<peer_channel, win, part, beaten>>
      BY <1>7, <2>0, <2>1 DEF onHello, TypeOK, End
    <3> QED
      BY <2>0, <3>1, <3>2, BeatenFrame
  <2>2. CASE e = "arbiter"
    <3> DEFINE q == net["arbiter"][k]
               m == Head(q)
    <3>1. /\ q \in Seq(Message) /\ q # <<>> /\ m \in Message /\ m.type = "hello" /\ m \in In(q)
          /\ \A j \in Links : net'["arbiter"][j] = IF j = k THEN Tail(q) ELSE net["arbiter"][j]
          /\ \A j \in Links : In(net'["arbiter"][j]) \subseteq In(net["arbiter"][j])
          /\ Once(net'["arbiter"][Fast])
      <4>1. Reads("arbiter", k, "hello") /\ Consume("arbiter", k)
        BY <2>0, <2>2
      <4>2. /\ q \in Seq(Message) /\ q # <<>> /\ m \in Message /\ m.type = "hello"
            /\ In(q) = {m} \cup In(Tail(q))
            /\ \A j \in Links : net'["arbiter"][j] = IF j = k THEN Tail(q) ELSE net["arbiter"][j]
            /\ \A j \in Links : In(net'["arbiter"][j]) \subseteq In(net["arbiter"][j])
            /\ Once(net'["arbiter"][Fast])
        BY <4>1, <1>a
      <4> QED
        BY <4>2
    <3>2. m.num = 1 /\ m.link = k
      BY <1>i, <3>1 DEF UnderWay
    <3>3. /\ peer_generation'["arbiter"] = m.num
          /\ peer_channel' = [peer_channel EXCEPT ![k] = m.link]
          /\ win' = IF m.num # peer_generation["arbiter"] THEN Zero ELSE win
          /\ part' = IF m.num # peer_generation["arbiter"] THEN Zero ELSE part
          /\ beaten' = IF m.num # peer_generation["arbiter"] THEN Never ELSE beaten
      BY <1>0, <1>7, <2>0, <2>2 DEF onHello, TypeOK
    <3> HIDE DEF q, m
    <3>4. ASSUME NEW j \in Links PROVE Known(j)'
      <4>1. CASE j = k
        BY <1>0, <3>2, <3>3, <4>1 DEF Known
      <4>2. CASE j # k
        <5>1. net'["arbiter"][j] = net["arbiter"][j] /\ peer_channel'[j] = peer_channel[j]
          BY <1>0, <3>1, <3>3, <4>2
        <5> QED
          BY <1>i, <2>0, <3>2, <3>3, <5>1 DEF Known, Awaits
      <4> QED
        BY <4>1, <4>2
    <3>5. Winners'
      BY <1>i, <2>0, <3>2, <3>3 DEF Winners
    <3>6. CASE peer_generation["arbiter"] = 1
      <4>1. win' = win /\ part' = part /\ beaten' = beaten
        BY <3>2, <3>3, <3>6
      <4>2. \A j \in Links : UnderWay(j)'
        BY <1>i, <2>0, <3>1, <4>1 DEF UnderWay
      <4>3. Scores'
        BY <1>i, <4>1 DEF Scores
      <4> QED
        BY <3>1, <3>4, <3>5, <4>2, <4>3 DEF BeatenInv
    <3>7. CASE peer_generation["arbiter"] = 0
      <4>1. win' = Zero /\ part' = Zero /\ beaten' = Never
        BY <3>2, <3>3, <3>7
      <4>2. \A i \in 1..segs : winner[i] = 0
        BY <1>0, <1>i, <3>7 DEF Winners
      <4>3. ASSUME NEW j \in Links PROVE UnderWay(j)'
        <5> SUFFICES ASSUME NEW x \in In(net'["arbiter"][j])
                     PROVE  /\ x.type = "hello" => x.num = 1 /\ x.link = j
                            /\ x.type = "data" =>
                                 /\ x = Msg("data", x.num, 0) /\ x.num \in 1..segs
                                 /\ j = Fast => winner[x.num] = 0
                                 /\ winner[x.num] = Fast => part'[Fast] > 0
          BY <2>0 DEF UnderWay
        <5>1. UnderWay(j) /\ x \in In(net["arbiter"][j])
          BY <1>i, <3>1
        <5> QED
          BY <1>0, <4>2, <5>1 DEF UnderWay
      <4>4. Scores'
        BY <4>1 DEF Scores, Zero, Never
      <4> QED
        BY <3>1, <3>4, <3>5, <4>3, <4>4 DEF BeatenInv
    <3> QED
      BY <1>i, <3>6, <3>7 DEF Winners
  <2> QED
    BY <2>1, <2>2 DEF End
<1>8. ASSUME NEW e \in End, NEW k \in Links, LinkDown(e, k) PROVE BeatenInv'
  <2> DEFINE m == Msg("closed", 0, 0)
  <2>0. /\ UNCHANGED <<generation, peer_generation, peer_channel, winner, win, part, beaten, segs>>
        /\ Cut(e, {k}) /\ k \in live["arbiter"]
    BY <1>8 DEF LinkDown, arbiterVars, Peer, End
  <2>1. m \in Message /\ m.type = "closed"
    BY MsgType DEF Msg
  <2>2. /\ live'["arbiter"] \subseteq live["arbiter"]
        /\ \A j \in Links : j # k => net'["arbiter"][j] = net["arbiter"][j]
        /\ \/ net'["arbiter"][k] = <<>> /\ k \notin live'["arbiter"]
           \/ net'["arbiter"][k] = Append(net["arbiter"][k], m)
    <3>1. /\ live' = [live EXCEPT ![e] = @ \ {k}]
          /\ net' = [f \in End |-> [j \in Links |->
                       IF j \notin {k} THEN net[f][j]
                       ELSE IF f = e \/ j \notin live[f] THEN <<>>
                       ELSE Append(net[f][j], m)]]
      BY <2>0 DEF Cut
    <3> HIDE DEF m
    <3> QED
      BY <1>0, <2>0, <3>1
  <2> HIDE DEF m
  <2>3. /\ In(net'["arbiter"][k]) \subseteq In(net["arbiter"][k]) \cup {m}
        /\ k \in live'["arbiter"] => (Awaits(k) => Awaits(k)')
        /\ Once(net["arbiter"][k]) => Once(net'["arbiter"][k])
    <3>1. CASE net'["arbiter"][k] = <<>> /\ k \notin live'["arbiter"]
      BY <3>1, EmptyIn, OnceShort
    <3>2. CASE net'["arbiter"][k] = Append(net["arbiter"][k], m)
      <4>1. Once(net["arbiter"][k]) => Once(Append(net["arbiter"][k], m))
        BY <1>0, <2>1, AppendOnce
      <4> QED
        BY <1>0, <2>1, <3>2, <4>1, AppendIn DEF Awaits
    <3> QED
      BY <2>2, <3>1, <3>2
  <2>4. ASSUME NEW j \in Links PROVE Known(j)' /\ UnderWay(j)'
    <3>1. In(net'["arbiter"][j]) \subseteq In(net["arbiter"][j]) \cup {m}
          /\ (j \in live'["arbiter"] => (Awaits(j) => Awaits(j)'))
      BY <2>2, <2>3 DEF Awaits
    <3>2. Known(j)'
      BY <1>i, <2>0, <2>2, <3>1 DEF Known
    <3>3. UnderWay(j)'
      <4>1. \A x \in In(net'["arbiter"][j]) : x.type = "closed" \/ x \in In(net["arbiter"][j])
        BY <2>1, <3>1
      <4> QED
        BY <1>i, <2>0, <4>1 DEF UnderWay
    <3> QED
      BY <3>2, <3>3
  <2>5. Once(net'["arbiter"][Fast])
    BY <1>i, <2>2, <2>3
  <2>6. Winners' /\ Scores'
    BY <1>i, <2>0 DEF Winners, Scores
  <2> QED
    BY <2>4, <2>5, <2>6 DEF BeatenInv
<1>9. ASSUME NEW e \in End, NEW k \in Links, onClosed(e, k) PROVE BeatenInv'
  <2>0. /\ UNCHANGED <<generation, peer_generation, peer_channel, winner, win, part, beaten, segs>>
        /\ Reads(e, k, "closed") /\ Consume(e, k)
        /\ \A d \in End : live'[d] = IF d = e THEN live[d] \ {k} ELSE live[d]
    BY <1>0, <1>9 DEF onClosed, arbiterVars, counts
  <2>1. CASE e = "sender"
    <3>1. \A j \in Links : net'["arbiter"][j] = net["arbiter"][j]
      BY <1>0, <2>0, <2>1, ConsumeAt
    <3> QED
      BY <1>0, <2>0, <2>1, <3>1, BeatenFrame
  <2>2. CASE e = "arbiter"
    <3>1. /\ \A j \in Links : j # k => net'["arbiter"][j] = net["arbiter"][j]
          /\ \A j \in Links : In(net'["arbiter"][j]) \subseteq In(net["arbiter"][j])
          /\ Once(net'["arbiter"][Fast])
          /\ k \notin live'["arbiter"] /\ live'["arbiter"] \subseteq live["arbiter"]
      <4>1. Reads("arbiter", k, "closed") /\ Consume("arbiter", k)
        BY <2>0, <2>2
      <4>2. live'["arbiter"] = live["arbiter"] \ {k}
        BY <1>0, <2>0, <2>2
      <4>3. /\ \A j \in Links : j # k => net'["arbiter"][j] = net["arbiter"][j]
            /\ \A j \in Links : In(net'["arbiter"][j]) \subseteq In(net["arbiter"][j])
            /\ Once(net'["arbiter"][Fast])
        BY <4>1, <1>a
      <4> QED
        BY <4>2, <4>3
    <3>2. \A j \in Links : Known(j)'
      <4>1. \A j \in Links : j # k /\ Awaits(j) => Awaits(j)'
        BY <3>1 DEF Awaits
      <4> QED
        BY <1>i, <2>0, <3>1, <4>1 DEF Known
    <3>3. \A j \in Links : UnderWay(j)'
      BY <1>i, <2>0, <3>1 DEF UnderWay
    <3>4. Winners' /\ Scores'
      BY <1>i, <2>0 DEF Winners, Scores
    <3> QED
      BY <3>1, <3>2, <3>3, <3>4 DEF BeatenInv
  <2> QED
    BY <2>1, <2>2 DEF End
<1>10. ASSUME NEW e \in End, Restart(e) PROVE BeatenInv'
  BY <1>10 DEF Restart, TypeOK
<1>11. ASSUME UNCHANGED <<live, net, generation, peer_generation, peer_channel, winner, win, part, beaten, segs>>
       PROVE  BeatenInv'
  BY <1>11, BeatenFrame
<1>12. ASSUME NEW S \in SUBSET Links, SenderHeartbeat(S) PROVE BeatenInv'
  BY <1>11, <1>12 DEF SenderHeartbeat, arbiterVars
<1>13. ASSUME NEW e \in End, NEW k \in Links, Recovers(e, k) PROVE BeatenInv'
  BY <1>11, <1>13 DEF Recovers, arbiterVars, counts
<1>14. CASE UNCHANGED vars
  BY <1>11, <1>14 DEF vars, arbiterVars, counts
<1> QED
  BY <1>1, <1>2, <1>3, <1>4, <1>5, <1>6, <1>7, <1>8, <1>9, <1>10, <1>12, <1>13, <1>14 DEF Next

LEMMA BeatenInit == ASSUME Fast \in Links PROVE Init => BeatenInv
<1> SUFFICES ASSUME Init PROVE BeatenInv
  OBVIOUS
<1>0. /\ \A l \in Links : net["arbiter"][l] = Hello("arbiter", l) /\ l \in live["arbiter"]
      /\ generation["sender"] = 1 /\ peer_generation["arbiter"] = 0 /\ peer_channel = Zero /\ winner = Unseen
      /\ win = Zero /\ part = Zero /\ beaten = Never /\ segs = 0
  BY DEF Init, End
<1>1. \A l \in Links :
          /\ In(net["arbiter"][l]) = {Head(net["arbiter"][l])} /\ Awaits(l)
          /\ Head(net["arbiter"][l]).num = 1 /\ Head(net["arbiter"][l]).link = l
          /\ Once(net["arbiter"][l])
  BY <1>0, HelloIn, OnceShort DEF Peer, End, Awaits
<1>2. ASSUME NEW l \in Links PROVE UnderWay(l)
  <2>1. \A m \in In(net["arbiter"][l]) : m = Head(net["arbiter"][l])
    BY <1>1
  <2> QED
    BY <1>1, <2>1 DEF UnderWay, Awaits
<1>3. \A l \in Links : Known(l)
  BY <1>0, <1>1 DEF Known, Zero
<1>4. Winners /\ Scores
  BY <1>0, BoundAssumption DEF Winners, Scores, Zero, Never, Unseen
<1> QED
  BY <1>1, <1>2, <1>3, <1>4 DEF BeatenInv

(* However many links race, are lost and come back, and however often the   *)
(* counters are halved: if one link's copies always come first and arrive   *)
(* before the next heartbeat, no decision goes to a link that has lost to   *)
(* it in the same period (pickPrimaryLocked compares rates, not wins).      *)
THEOREM BeatenNowNotChosenAlways ==
    ASSUME Prompt, Fast \in Links, MaxRestarts = 0
    PROVE  Spec => BeatenNowNotChosen
<1>1. TypeOK /\ BeatenInv /\ [Next]_vars => [DecidesOutside({"now"})]_vars
  <2> SUFFICES ASSUME TypeOK, BeatenInv, Next, Len(decided') > Len(decided)
               PROVE  beaten[decided'[Len(decided')]] # "now"
    BY DEF DecidesOutside
  <2>0. Len(decided) \in Nat /\ decided \in Seq(Links) /\ Scores /\ restarts \in Nat
    BY DEF TypeOK, BeatenInv
  <2>1. ASSUME NEW S \in SUBSET Links, emitFeedback(S) PROVE beaten[decided'[Len(decided')]] # "now"
    <3>1. PICK b \in Measured : decided' = Append(decided, b) /\ \A j \in Measured \ {b} : Better(b, j)
      BY <2>0, <2>1, FeedbackAt
    <3>2. decided'[Len(decided')] = b
      BY <2>0, <3>1 DEF Measured
    <3> QED
      BY <2>0, <3>1, <3>2, BeatenNotBest
  <2>2. CASE \E e \in End : Restart(e)
    BY <2>0, <2>2 DEF Restart
  <2>3. CASE decided' = decided
    BY <2>0, <2>3
  <2> QED
    BY <2>1, <2>2, <2>3 DEF Next, sendSegment, onAck, RaceWon, RaceLost, Reconnect, onHello, LinkDown,
                            onClosed, SenderHeartbeat, Recovers, arbiterVars
<1> QED
  BY <1>1, BeatenInit, BeatenStep, TypeInit, TypeStep, PTL DEF Spec, BeatenNowNotChosen
=============================================================================
