---------------------------- MODULE RacingArbiter ----------------------------
(***************************************************************************)
(* The feedback loop that chooses the primary link (src/src/                *)
(* zfgw_datastream.cpp with LinkSelector): the sender races two copies of   *)
(* every segment, the arbiter at the other end counts which link's copy     *)
(* comes first, and its heartbeat tells the sender which link to prefer.    *)
(*                                                                         *)
(* One direction of the symmetric code.  The sender is the Inport, which    *)
(* dials, so that the ids of its channels are those of the configuration.   *)
(* A segment is a number; its copies have one dedup key, and the ring is    *)
(* large enough (DataStream has the ring).  LinkLiveness has the clock of   *)
(* the stall check; here a heartbeat may find any open link silent.         *)
(***************************************************************************)
EXTENDS Naturals, Sequences, FiniteSets

CONSTANTS
    Links,        \* channel ids of the sender, by rank
    RotMod,       \* see LinkSelector
    Fast,         \* a link whose copies always come first, or 0
    Prompt,       \* whether copies arrive before the next heartbeat
    NewProcess,   \* whether a restart is one of the process (or only mlfStop, mlfStart)
    MaxSegs,      \* bound: segments sent
    MaxTicks,     \* bound: heartbeats of the arbiter
    MaxDowns,     \* bound: link losses
    MaxStalls,    \* bound: heartbeats that find links silent
    MaxRestarts   \* bound: restarts of either end

End == {"sender", "arbiter"}

ASSUME LinksAssumption == Links \subseteq Nat \ {0} /\ IsFiniteSet(Links) /\ RotMod \in Nat \ {0}
ASSUME FastAssumption  == Fast \in Links \cup {0} /\ Prompt \in BOOLEAN /\ NewProcess \in BOOLEAN
ASSUME BoundAssumption == {MaxSegs, MaxTicks, MaxDowns, MaxStalls, MaxRestarts} \subseteq Nat

VARIABLES
    live,              \* live[e]: links that e holds open
    stalled,           \* stalled[e]: those of them that e has marked stalled
    net,               \* net[e][l]: what e has yet to read from l
    generation,        \* fgwProcessGeneration() of each end
    peer_generation,   \* peer_generation_ of each end, 0 for unknown
    primary,           \* sender: LinkSelector's primary_channel_id_
    rotation,          \* sender: LinkSelector's probe_rotation_
    applied_epoch,     \* sender: applied_epoch_
    peer_channel,      \* arbiter: peerChannelId() of each link, 0 for unknown
    winner,            \* arbiter: the link that brought a segment first, 0 for none
    win, part,         \* arbiter: peer_win_count_, peer_part_count_
    feedback_epoch,    \* arbiter: feedback_epoch_
    segs, ticks, downs, stalls, restarts,   \* bounded counts
    decided,           \* history: decisions of this incarnation of the arbiter
    carried,           \* history: links that got the last decision and were not lost since
    beaten             \* history: who lost a race against Fast, and when

senderVars  == <<primary, rotation, applied_epoch>>
arbiterVars == <<peer_channel, winner, win, part, feedback_epoch, decided, beaten>>
counts      == <<segs, ticks, downs, stalls, restarts>>
vars == <<live, stalled, net, generation, peer_generation, senderVars, arbiterVars, counts, carried>>

Peer(e) == IF e = "sender" THEN "arbiter" ELSE "sender"

(* num: the number of a segment, a generation or an epoch; link: the        *)
(* channel_id of a Hello, the recommended_primary of an ACK.                *)
Message == [type : {"hello", "data", "ack", "closed"}, num : Nat, link : Links \cup {0}]

Msg(type, num, link) == [type |-> type, num |-> num, link |-> link]

(* isLive(): open and not marked stalled. *)
liveChannels(e) == live[e] \ stalled[e]

LS == INSTANCE LinkSelector WITH
        mode <- "WEIGHTED", live <- liveChannels("sender"), chosen <- <<>>

Zero == [l \in Links |-> 0]
Never == [l \in Links |-> "never"]
Unseen == [n \in 1..MaxSegs |-> 0]

(* Both ends announce themselves on a link that opens. *)
Hello(e, l) == <<Msg("hello", generation[Peer(e)], IF e = "arbiter" THEN l ELSE 0)>>

Init ==
    /\ generation = [e \in End |-> 1]
    /\ peer_generation = [e \in End |-> 0]
    /\ live = [e \in End |-> Links]
    /\ stalled = [e \in End |-> {}]
    /\ net = [e \in End |-> [l \in Links |-> Hello(e, l)]]
    /\ primary = 0 /\ rotation = 0 /\ applied_epoch = 0
    /\ peer_channel = Zero /\ winner = Unseen
    /\ win = Zero /\ part = Zero /\ feedback_epoch = 0
    /\ segs = 0 /\ ticks = 0 /\ downs = 0 /\ stalls = 0 /\ restarts = 0
    /\ decided = <<>> /\ carried = {} /\ beaten = Never

-----------------------------------------------------------------------------
(* sendSegment: one copy on each link that select() returns. *)
sendSegment ==
    /\ segs < MaxSegs
    /\ segs' = segs + 1
    /\ LET out == LS!select("WEIGHTED", liveChannels("sender"), primary, rotation)
       IN  net' = [net EXCEPT !["arbiter"] = [l \in Links |->
                     IF \E i \in DOMAIN out : out[i] = l
                     THEN IF l \in live["arbiter"] THEN Append(@[l], Msg("data", segs', 0)) ELSE @[l]
                     ELSE @[l]]]
    /\ rotation' = LS!Rotated("WEIGHTED", liveChannels("sender"), rotation)
    /\ UNCHANGED <<live, stalled, carried, generation, peer_generation, primary, applied_epoch,
                   arbiterVars, ticks, downs, stalls, restarts>>

Reads(e, l, type) ==
    /\ l \in live[e]
    /\ net[e][l] # <<>>
    /\ Head(net[e][l]).type = type

(* Bytes that are read end a stall (addRecvBytes). *)
Consume(e, l) ==
    /\ net' = [net EXCEPT ![e][l] = Tail(@)]
    /\ stalled' = [stalled EXCEPT ![e] = @ \ {l}]

(* Fault variant: the comparison state outlives the peer. *)
onHelloKeepsEpoch(e, l) ==
    LET m == Head(net[e][l])
    IN  /\ Reads(e, l, "hello")
        /\ Consume(e, l)
        /\ peer_generation' = [peer_generation EXCEPT ![e] = m.num]
        /\ peer_channel' = IF e = "arbiter" THEN [peer_channel EXCEPT ![l] = m.link] ELSE peer_channel
        /\ UNCHANGED <<live, carried, generation, senderVars, winner, win, part, feedback_epoch, decided,
                       beaten, counts>>

(* A Hello: the peer's id for the link and, when the peer is a new process, *)
(* a reset of what was known of the old one.                                *)
onHello(e, l) ==
    LET m   == Head(net[e][l])
        new == m.num # peer_generation[e]
    IN  /\ Reads(e, l, "hello")
        /\ Consume(e, l)
        /\ peer_generation' = [peer_generation EXCEPT ![e] = m.num]
        /\ IF e = "arbiter"
           THEN /\ peer_channel' = [peer_channel EXCEPT ![l] = m.link]
                /\ win' = IF new THEN Zero ELSE win
                /\ part' = IF new THEN Zero ELSE part
                /\ beaten' = IF new THEN Never ELSE beaten
                /\ UNCHANGED applied_epoch
           ELSE /\ applied_epoch' = IF new THEN 0 ELSE applied_epoch
                /\ UNCHANGED <<peer_channel, win, part, beaten>>
        /\ UNCHANGED <<live, carried, generation, primary, rotation, winner, feedback_epoch, decided, counts>>

(* Fault variant: the feedback that is read last rules. *)
onAckAnyEpoch(l) ==
    LET m == Head(net["sender"][l])
    IN  /\ Reads("sender", l, "ack")
        /\ Consume("sender", l)
        /\ applied_epoch' = m.num
        /\ primary' = m.link
        /\ UNCHANGED <<live, carried, generation, peer_generation, rotation, arbiterVars, counts>>

(* An ACK: adopted if its epoch is newer than the last one applied. *)
onAck(l) ==
    LET m == Head(net["sender"][l])
    IN  /\ Reads("sender", l, "ack")
        /\ Consume("sender", l)
        /\ IF m.num > applied_epoch
           THEN applied_epoch' = m.num /\ primary' = m.link
           ELSE UNCHANGED <<applied_epoch, primary>>
        /\ UNCHANGED <<live, carried, generation, peer_generation, rotation, arbiterVars, counts>>

(* The network: a copy on Fast comes before its twin. *)
InTime(l, n) ==
    l # Fast /\ Fast # 0 => \A i \in DOMAIN net["arbiter"][Fast] : net["arbiter"][Fast][i] # Msg("data", n, 0)

(* Fault variant: a race won is not counted as one taken part in. *)
RaceWonOnly(l) ==
    LET m == Head(net["arbiter"][l])
        c == peer_channel[l]
    IN  /\ Reads("arbiter", l, "data")
        /\ InTime(l, m.num)
        /\ winner[m.num] = 0
        /\ Consume("arbiter", l)
        /\ winner' = [winner EXCEPT ![m.num] = l]
        /\ win' = IF c # 0 THEN [win EXCEPT ![c] = @ + 1] ELSE win
        /\ UNCHANGED <<live, carried, generation, peer_generation, senderVars, peer_channel, part,
                       feedback_epoch, decided, beaten, counts>>

(* onChannelBytes, for a segment that is new: its link won a race. *)
RaceWon(l) ==
    LET m == Head(net["arbiter"][l])
        c == peer_channel[l]
    IN  /\ Reads("arbiter", l, "data")
        /\ InTime(l, m.num)
        /\ winner[m.num] = 0
        /\ Consume("arbiter", l)
        /\ winner' = [winner EXCEPT ![m.num] = l]
        /\ win' = IF c # 0 THEN [win EXCEPT ![c] = @ + 1] ELSE win
        /\ part' = IF c # 0 THEN [part EXCEPT ![c] = @ + 1] ELSE part
        /\ UNCHANGED <<live, carried, generation, peer_generation, senderVars, peer_channel, feedback_epoch,
                       decided, beaten, counts>>

(* ... and for one that is not: its link took part and lost. *)
RaceLost(l) ==
    LET m == Head(net["arbiter"][l])
        c == peer_channel[l]
    IN  /\ Reads("arbiter", l, "data")
        /\ winner[m.num] # 0
        /\ Consume("arbiter", l)
        /\ part' = IF c # 0 THEN [part EXCEPT ![c] = @ + 1] ELSE part
        /\ beaten' = IF c # 0 /\ winner[m.num] = Fast THEN [beaten EXCEPT ![c] = "now"] ELSE beaten
        /\ UNCHANGED <<live, carried, generation, peer_generation, senderVars, peer_channel, winner, win,
                       feedback_epoch, decided, counts>>

(* Fault variant: the most wins, whatever the number of races. *)
BetterRaw(i, j) ==
    \/ win[i] > win[j]
    \/ win[i] = win[j] /\ part[i] > part[j]
    \/ win[i] = win[j] /\ part[i] = part[j] /\ i < j

(* The higher win-rate, then the larger sample, then the order of the map.  *)
Better(i, j) ==
    LET mine == win[i] * part[j]
        its  == win[j] * part[i]
    IN  \/ mine > its
        \/ mine = its /\ part[i] > part[j]
        \/ mine = its /\ part[i] = part[j] /\ i < j

Measured == {l \in Links : part[l] > 0}

pickPrimaryLocked ==
    IF Measured = {} THEN 0
    ELSE CHOOSE i \in Measured : \A j \in Measured \ {i} : Better(i, j)

(* The heartbeat of e marks the open links it has not heard of for the      *)
(* timeout.                                                                 *)
evaluateStall(e, S) ==
    /\ S \subseteq liveChannels(e)
    /\ S # {} => stalls < MaxStalls
    /\ stalls' = IF S = {} THEN stalls ELSE stalls + 1
    /\ stalled' = [stalled EXCEPT ![e] = @ \cup S]

(* The sender's heartbeat; its own feedback is the other direction's. *)
SenderHeartbeat(S) ==
    /\ S # {}
    /\ evaluateStall("sender", S)
    /\ UNCHANGED <<live, carried, net, generation, peer_generation, senderVars, arbiterVars,
                   segs, ticks, downs, restarts>>

(* Any bytes at all, such as the peer's heartbeat, end a stall. *)
Recovers(e, l) ==
    /\ l \in stalled[e]
    /\ stalled' = [stalled EXCEPT ![e] = @ \ {l}]
    /\ UNCHANGED <<live, carried, net, generation, peer_generation, senderVars, arbiterVars, counts>>

(* The arbiter's heartbeat: mark the silent links S, decide, halve the      *)
(* counters, send the decision over every link that is live now.            *)
emitFeedback(S) ==
    LET best == pickPrimaryLocked
        to   == (live["arbiter"] \ stalled'["arbiter"]) \cap live["sender"]
    IN  /\ ticks < MaxTicks
        /\ Prompt => \A l \in Links : \A i \in DOMAIN net["arbiter"][l] : net["arbiter"][l][i].type # "data"
        /\ ticks' = ticks + 1
        /\ evaluateStall("arbiter", S)
        /\ win' = [l \in Links |-> win[l] \div 2]
        /\ part' = [l \in Links |-> part[l] \div 2]
        /\ beaten' = [l \in Links |-> IF beaten[l] = "never" THEN "never" ELSE "before"]
        /\ IF best = 0
           THEN UNCHANGED <<feedback_epoch, decided, carried, net>>
           ELSE /\ feedback_epoch' = feedback_epoch + 1
                /\ decided' = Append(decided, best)
                /\ carried' = to
                /\ net' = [net EXCEPT !["sender"] = [l \in Links |->
                             IF l \in to THEN Append(@[l], Msg("ack", feedback_epoch', best)) ELSE @[l]]]
        /\ UNCHANGED <<live, generation, peer_generation, senderVars, peer_channel, winner,
                       segs, downs, restarts>>

-----------------------------------------------------------------------------
(* The links in S end at e: e drops what it has not read, its peer reads    *)
(* what is on the way and then the end.                                     *)
Cut(e, S) ==
    /\ live' = [live EXCEPT ![e] = @ \ S]
    /\ stalled' = [stalled EXCEPT ![e] = @ \ S]
    /\ carried' = carried \ S
    /\ net' = [f \in End |-> [l \in Links |->
                 IF l \notin S THEN net[f][l]
                 ELSE IF f = e \/ l \notin live[f] THEN <<>>
                 ELSE Append(net[f][l], Msg("closed", 0, 0))]]

(* A connection breaks. *)
LinkDown(e, l) ==
    /\ downs < MaxDowns
    /\ l \in live[e] /\ l \in live[Peer(e)]
    /\ downs' = downs + 1
    /\ Cut(e, {l})
    /\ UNCHANGED <<generation, peer_generation, senderVars, arbiterVars, segs, ticks, stalls, restarts>>

(* The other end reads the end of the connection. *)
onClosed(e, l) ==
    /\ Reads(e, l, "closed")
    /\ Consume(e, l)
    /\ live' = [live EXCEPT ![e] = @ \ {l}]
    /\ carried' = carried \ {l}
    /\ UNCHANGED <<generation, peer_generation, senderVars, arbiterVars, counts>>

(* The Inport redials; both channels are new objects and say Hello. *)
Reconnect(l) ==
    /\ \A e \in End : l \notin live[e]
    /\ live' = [e \in End |-> live[e] \cup {l}]
    /\ net' = [e \in End |-> [net[e] EXCEPT ![l] = Hello(e, l)]]
    /\ peer_channel' = [peer_channel EXCEPT ![l] = 0]
    /\ UNCHANGED <<stalled, carried, generation, peer_generation, senderVars, winner, win, part, feedback_epoch,
                   decided, beaten, counts>>

(* An end stops and starts again, with a new DataStream and a new           *)
(* ChannelManager; the generation is that of the process.                   *)
Restart(e) ==
    /\ restarts < MaxRestarts
    /\ restarts' = restarts + 1
    /\ Cut(e, live[e])
    /\ generation' = IF NewProcess THEN [generation EXCEPT ![e] = @ + 1] ELSE generation
    /\ peer_generation' = [peer_generation EXCEPT ![e] = 0]
    /\ IF e = "sender"
       THEN /\ primary' = 0 /\ rotation' = 0 /\ applied_epoch' = 0
            /\ UNCHANGED arbiterVars
       ELSE /\ peer_channel' = Zero /\ winner' = Unseen /\ win' = Zero /\ part' = Zero
            /\ feedback_epoch' = 0 /\ decided' = <<>> /\ beaten' = Never
            /\ UNCHANGED senderVars
    /\ UNCHANGED <<segs, ticks, downs, stalls>>

Next ==
    \/ sendSegment
    \/ \E S \in SUBSET Links : emitFeedback(S) \/ SenderHeartbeat(S)
    \/ \E l \in Links : onAck(l) \/ RaceWon(l) \/ RaceLost(l) \/ Reconnect(l)
    \/ \E e \in End, l \in Links : onHello(e, l) \/ LinkDown(e, l) \/ onClosed(e, l) \/ Recovers(e, l)
    \/ \E e \in End : Restart(e)

Spec == Init /\ [][Next]_vars

-----------------------------------------------------------------------------
(* Every variable keeps its type, and no link has won more races than it    *)
(* took part in, decay included: a win-rate is never above one.             *)
TypeOK ==
    /\ live \in [End -> SUBSET Links]
    /\ stalled \in [End -> SUBSET Links] /\ carried \subseteq Links
    /\ net \in [End -> [Links -> Seq(Message)]]
    /\ generation \in [End -> Nat] /\ peer_generation \in [End -> Nat]
    /\ primary \in Links \cup {0} /\ rotation \in 0..(RotMod - 1) /\ applied_epoch \in Nat
    /\ peer_channel \in [Links -> Links \cup {0}] /\ winner \in [1..MaxSegs -> Links \cup {0}]
    /\ win \in [Links -> Nat] /\ part \in [Links -> Nat]
    /\ \A l \in Links : win[l] <= part[l]
    /\ feedback_epoch \in Nat /\ {segs, ticks, downs, stalls, restarts} \subseteq Nat
    /\ decided \in Seq(Links) /\ beaten \in [Links -> {"never", "before", "now"}]

(* The sender is in touch with the living arbiter: on some open link it has *)
(* read the Hello.                                                          *)
Greeted ==
    \E l \in live["sender"] \cap live["arbiter"] :
        \A i \in DOMAIN net["sender"][l] : net["sender"][l][i].type # "hello"

(* Once it has been greeted, the sender's epoch is not ahead of the living  *)
(* arbiter's: fresh feedback is never discarded as old, whatever restarts   *)
(* and losses came before (onChannelBytes, Hello and ACK).                  *)
EpochSound == Greeted => applied_epoch <= feedback_epoch

(* Once the sender has read all there is on one link that got the arbiter's *)
(* last decision and was not lost since, it follows that decision: copies   *)
(* of older feedback that come later on other links, links that were        *)
(* stalled when it was sent, and links lost and redialed, do not displace   *)
(* it.                                                                      *)
FollowsLastDecision ==
    (restarts = 0 /\ \E l \in carried : net["sender"][l] = <<>>) => primary = decided[Len(decided)]

(* The links a decision goes to are not in state S of beaten. *)
DecidesOutside(S) ==
    Len(decided') > Len(decided) => beaten[decided'[Len(decided')]] \notin S

(* A decision never goes to a link that has lost a race of this period      *)
(* against the link that never loses, however many races it won against     *)
(* others (pickPrimaryLocked).                                              *)
BeatenNowNotChosen == [][DecidesOutside({"now"})]_vars

(* A consistently faster link is recommended, even if it races less often:  *)
(* no decision ever goes to a link that has lost against it.                *)
BeatenNeverChosen == [][DecidesOutside({"now", "before"})]_vars

=============================================================================
