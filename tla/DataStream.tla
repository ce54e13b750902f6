----------------------------- MODULE DataStream -----------------------------
(***************************************************************************)
(* The session multiplexer of the gateway (src/src/zfgw_datastream.{h,cpp}) *)
(* as two DataStream objects, one in the Inport process and one in the      *)
(* Outport process, joined by several links.                                *)
(*                                                                         *)
(* A link is one TCP channel: it keeps its own order, but the links race    *)
(* one another.  sendSegment copies every segment to the links that the     *)
(* LinkSelector picks; the receiver drops the copies it has seen            *)
(* (dedup_map_), refuses DATA outside its receive window, reorders the rest *)
(* in rx_buffer and hands contiguous runs to the session's handler.         *)
(* Nothing is ever retransmitted.                                           *)
(*                                                                         *)
(* Every operation holds DataStream::lock_ from its first line to its last, *)
(* so it is one action.  What the handlers do in answer to a callback is    *)
(* left to the actions that model their calls (sendSessionData,             *)
(* closeSession), except for onSessionClose, which in both handlers closes  *)
(* the session at once and so belongs to the step that received the FIN.    *)
(***************************************************************************)
EXTENDS Integers, Sequences, FiniteSets

CONSTANTS
    Links,       \* the channels of the bundle
    Keys,        \* session keys: (ingress_id, session_id) pairs
    Payloads,    \* contents of one DATA segment
    RecvWindow,  \* recv_window_
    DedupRing,   \* kDedupRing
    SeqMod,      \* sequence numbers are unsigned of this modulus (2^32)
    Fanout,      \* copies per segment: BEST 1, WEIGHTED 2, ALL one per link
    MaxSegs,     \* bound: DATA segments an end sends in one session
    MaxDowns,    \* bound: how often an end loses a link
    NoPayload,   \* an empty slot of rx_buffer; the payload of SYN and FIN
    NoSession    \* no entry in sessions_

End == {"inport", "outport"}

ASSUME LinksAssumption   == IsFiniteSet(Links)
ASSUME WindowAssumption  == /\ SeqMod \in Nat \ {0}
                            /\ RecvWindow \in 1..SeqMod
                            /\ DedupRing \in Nat \ {0}
ASSUME FanoutAssumption  == Fanout \in Nat \ {0}
ASSUME BoundsAssumption  == MaxSegs \in [End -> Nat] /\ MaxDowns \in Nat
ASSUME PayloadAssumption == NoPayload \notin Payloads

VARIABLES
    sessions,   \* sessions[e][k]: the entry of k in sessions_ at end e
    dedup,      \* dedup[e]: dedup_queue_ (dedup_map_ holds the same keys)
    net,        \* net[e][l]: segments on link l that end e has yet to read
    live,       \* live[e]: the links end e may send on (liveChannels)
    downs,      \* links lost so far
    (* history, written and never read by the code's own steps *)
    sent,       \* sent[e][k]: what handlers at e passed to sendSessionData
    handed,     \* handed[e][k]: what the newest handler of k at e was given
    prior,      \* prior[e][k]: how much earlier handlers of k were given
    instances,  \* instances[e][k]: handlers created for k at e
    eof         \* eof[e][k]: the newest handler was told of a FIN

history == <<sent, handed, prior, instances, eof>>
vars == <<sessions, dedup, net, live, downs, sent, handed, prior, instances, eof>>

-----------------------------------------------------------------------------
(* Sequence numbers: zce_uint32 arithmetic.                                 *)

SeqNum == 0..(SeqMod - 1)

Plus(s, n) == IF s + n < SeqMod THEN s + n ELSE s + n - SeqMod

(* hdr.seq_num - expected, unsigned *)
Rel(s, expected) == IF s >= expected THEN s - expected ELSE s - expected + SeqMod

-----------------------------------------------------------------------------
(* Sessions and segments.                                                   *)

Slot == Payloads \cup {NoPayload}

Session == [next_send_seq   : SeqNum,
            expected_rx_seq : SeqNum,
            rx_buffer       : [SeqNum -> Slot],
            handler         : BOOLEAN]

(* An absent entry of sessions_ is no SessionState. *)
ASSUME SessionAssumption == NoSession \notin Session

Segment == [kind : {"SYN", "DATA", "FIN"}, key : Keys, seq : SeqNum, payload : Slot]

DedupKeyType == [kind : {"SYN", "DATA", "FIN"}, key : Keys, seq : SeqNum]

Peer(e) == IF e = "inport" THEN "outport" ELSE "inport"

(* A fresh SessionState.  The fields opened and closed decide nothing: a    *)
(* session is erased by the same step that sets closed.                     *)
NewSession(h) == [next_send_seq   |-> 0,
                  expected_rx_seq |-> 0,
                  rx_buffer       |-> [i \in SeqNum |-> NoPayload],
                  handler         |-> h]

(* Only OutportService installs unknown_cb_; an Inport that meets an        *)
(* unknown session keeps an entry without a handler.                        *)
unknown_cb(e) == e = "outport"

(* Fault variant: SYN and DATA share one dedup space. *)
DedupKeyOneSpace(seg) ==
    [kind |-> IF seg.kind = "SYN" THEN "DATA" ELSE seg.kind, key |-> seg.key, seq |-> seg.seq]

DedupKey(seg) == [kind |-> seg.kind, key |-> seg.key, seq |-> seg.seq]

Recorded(q) == {q[i] : i \in DOMAIN q}

(* Fault variant: the ring drops its oldest key one entry too late. *)
RememberOneMore(q, dk) == IF Len(q) <= DedupRing THEN Append(q, dk) ELSE Append(Tail(q), dk)

(* push_back, and pop_front once the ring is over its size *)
Remember(q, dk) == IF Len(q) < DedupRing THEN Append(q, dk) ELSE Append(Tail(q), dk)

(* Fault variant: every segment looks new. *)
FreshAlways(e, seg) == TRUE

Fresh(e, seg) == DedupKey(seg) \notin Recorded(dedup[e])

Expected(e, k) ==
    IF sessions[e][k] = NoSession THEN 0 ELSE sessions[e][k].expected_rx_seq

(* Fault variant: the window is one segment too wide. *)
InWindowOffByOne(e, seg) ==
    seg.kind = "DATA" => Rel(seg.seq, Expected(e, seg.key)) <= RecvWindow

InWindow(e, seg) ==
    seg.kind = "DATA" => Rel(seg.seq, Expected(e, seg.key)) < RecvWindow

-----------------------------------------------------------------------------
(* deliverInOrder.  rx_buffer is a std::map, so begin() is the numerically  *)
(* least buffered number; the loop takes it as long as it is the expected   *)
(* one.  Run(s, n) is what n rounds take, CanTake(s, n) that they happen.   *)

Run(s, n) == {Plus(s.expected_rx_seq, i) : i \in 0..(n - 1)}

LeftAfter(s, n) == {i \in SeqNum : s.rx_buffer[i] # NoPayload} \ Run(s, n)

IsBegin(s, n) ==
    LET next == Plus(s.expected_rx_seq, n)
    IN  next \in LeftAfter(s, n) /\ \A i \in LeftAfter(s, n) : next <= i

CanTake(s, n) == \A m \in 0..(n - 1) : IsBegin(s, m)

(* Fault variant: one segment is delivered per call instead of the run. *)
RunLengthOnce(s, n) ==
    IF s.handler /\ IsBegin(s, 0) THEN n = 1 ELSE n = 0

RunLength(s, n) ==
    IF s.handler THEN CanTake(s, n) /\ ~IsBegin(s, n) ELSE n = 0

Taken(s, n) == [i \in 1..n |-> s.rx_buffer[Plus(s.expected_rx_seq, i - 1)]]

(* Fault variant: expected_rx_seq skips over a gap to the next buffered block. *)
deliverInOrderSkipGap(s, n) ==
    [s EXCEPT !.expected_rx_seq =
                  IF \E i \in LeftAfter(s, n) : i = Plus(@, n + 1) THEN Plus(@, n + 1)
                  ELSE Plus(@, n),
              !.rx_buffer = [i \in SeqNum |-> IF i \in Run(s, n) THEN NoPayload ELSE @[i]]]

(* Fault variant: a delivered run moves expected_rx_seq one too far. *)
deliverInOrderTooFar(s, n) ==
    [s EXCEPT !.expected_rx_seq = IF n = 0 THEN @ ELSE Plus(@, n + 1),
              !.rx_buffer = [i \in SeqNum |-> IF i \in Run(s, n) THEN NoPayload ELSE @[i]]]

deliverInOrder(s, n) ==
    [s EXCEPT !.expected_rx_seq = Plus(@, n),
              !.rx_buffer = [i \in SeqNum |-> IF i \in Run(s, n) THEN NoPayload ELSE @[i]]]

(* std::map::emplace keeps what is already there *)
Emplace(s, seg) ==
    [s EXCEPT !.rx_buffer[seg.seq] = IF @ = NoPayload THEN seg.payload ELSE @]

-----------------------------------------------------------------------------
(* sendSegment.  The LinkSelector returns Fanout distinct live links, or    *)
(* all of them when there are fewer; which ones depends on link weights,    *)
(* the fed-back primary and the probe rotation, and is left open here.  A   *)
(* copy written to a link that the other end has already lost is gone.      *)

Selections(e) ==
    {S \in SUBSET live[e] :
        Cardinality(S) = IF Fanout < Cardinality(live[e]) THEN Fanout
                                                          ELSE Cardinality(live[e])}

WithCopies(e, S, seg) ==
    [l \in Links |-> IF l \in S /\ l \in live[Peer(e)]
                     THEN Append(net[Peer(e)][l], seg) ELSE net[Peer(e)][l]]

sendSegment(e, seg) ==
    \E S \in Selections(e) : net' = [net EXCEPT ![Peer(e)] = WithCopies(e, S, seg)]

Marker(kind, k, seq) == [kind |-> kind, key |-> k, seq |-> seq, payload |-> NoPayload]

(* A handler instance begins: the history of k at e starts over. *)
NewHandler(e, k) ==
    /\ instances' = [instances EXCEPT ![e][k] = @ + 1]
    /\ prior'     = [prior     EXCEPT ![e][k] = @ + Len(handed[e][k])]
    /\ eof'       = [eof       EXCEPT ![e][k] = FALSE]

-----------------------------------------------------------------------------
(* Calls of the handlers.                                                   *)

(* InportService accepts a client; session ids are never reused by one      *)
(* Inport, so a key is opened once.                                         *)
openSession(k) ==
    /\ instances["inport"][k] = 0
    /\ sessions["inport"][k] = NoSession
    /\ sessions' = [sessions EXCEPT !["inport"][k] = NewSession(TRUE)]
    /\ sendSegment("inport", Marker("SYN", k, 0))
    /\ NewHandler("inport", k)
    /\ handed' = [handed EXCEPT !["inport"][k] = <<>>]
    /\ UNCHANGED <<dedup, live, downs, sent>>

(* A handler writes one segment's worth of bytes.  The number is consumed   *)
(* even when no link is live.  A relay has nothing to send before the       *)
(* client's first bytes (the SOCKS5 greeting).                              *)
sendSessionData(e, k, p) ==
    /\ sessions[e][k] # NoSession
    /\ sessions[e][k].handler
    /\ Len(sent[e][k]) < MaxSegs[e]
    /\ e = "outport" => handed[e][k] # <<>>
    /\ sendSegment(e, [kind |-> "DATA", key |-> k,
                       seq |-> sessions[e][k].next_send_seq, payload |-> p])
    /\ sessions' = [sessions EXCEPT ![e][k].next_send_seq = Plus(@, 1)]
    /\ sent' = [sent EXCEPT ![e][k] = Append(@, p)]
    /\ UNCHANGED <<dedup, live, downs, handed, prior, instances, eof>>

closeSession(e, k) ==
    /\ sessions[e][k] # NoSession
    /\ sessions[e][k].handler
    /\ sendSegment(e, Marker("FIN", k, sessions[e][k].next_send_seq))
    /\ sessions' = [sessions EXCEPT ![e][k] = NoSession]
    /\ UNCHANGED <<dedup, live, downs, history>>

-----------------------------------------------------------------------------
(* onChannelBytes: one complete session segment read from link l at end e.  *)

Drop(e, l) == net' = [net EXCEPT ![e][l] = Tail(@)]

Record(e, seg) == dedup' = [dedup EXCEPT ![e] = Remember(@, DedupKey(seg))]

(* A segment that passed the duplicate check and the window guard. *)
Accepts(e, l, kind) ==
    /\ net[e][l] # <<>>
    /\ Head(net[e][l]).kind = kind
    /\ Fresh(e, Head(net[e][l]))
    /\ InWindow(e, Head(net[e][l]))
    /\ Record(e, Head(net[e][l]))

ReceiveDuplicate(e, l) ==
    /\ net[e][l] # <<>>
    /\ ~Fresh(e, Head(net[e][l]))
    /\ Drop(e, l)
    /\ UNCHANGED <<sessions, dedup, live, downs, history>>

(* Fault variant: the dedup key is recorded before the window guard. *)
ReceiveOutOfWindowRecorded(e, l) ==
    /\ net[e][l] # <<>>
    /\ Fresh(e, Head(net[e][l]))
    /\ ~InWindow(e, Head(net[e][l]))
    /\ Record(e, Head(net[e][l]))
    /\ Drop(e, l)
    /\ UNCHANGED <<sessions, live, downs, history>>

ReceiveOutOfWindow(e, l) ==
    /\ net[e][l] # <<>>
    /\ Fresh(e, Head(net[e][l]))
    /\ ~InWindow(e, Head(net[e][l]))
    /\ Drop(e, l)
    /\ UNCHANGED <<sessions, dedup, live, downs, history>>

ReceiveSyn(e, l) ==
    LET k == Head(net[e][l]).key IN
    /\ Accepts(e, l, "SYN")
    /\ Drop(e, l)
    /\ IF sessions[e][k] = NoSession
       THEN /\ sessions' = [sessions EXCEPT ![e][k] = NewSession(unknown_cb(e))]
            /\ IF unknown_cb(e)
               THEN NewHandler(e, k) /\ handed' = [handed EXCEPT ![e][k] = <<>>]
               ELSE UNCHANGED <<handed, prior, instances, eof>>
       ELSE UNCHANGED <<sessions, handed, prior, instances, eof>>
    /\ UNCHANGED <<live, downs, sent>>

(* Fault variant: the handler is told of the FIN but never answers it. *)
ReceiveFinNoEcho(e, l) ==
    LET k == Head(net[e][l]).key IN
    /\ Accepts(e, l, "FIN")
    /\ Drop(e, l)
    /\ sessions' = [sessions EXCEPT ![e][k] = NoSession]
    /\ eof' = [eof EXCEPT ![e][k] = @ \/ (sessions[e][k] # NoSession /\ sessions[e][k].handler)]
    /\ UNCHANGED <<live, downs, sent, handed, prior, instances>>

(* onSessionClose of either handler calls closeSession, which answers with  *)
(* a FIN of its own and erases the entry.                                   *)
ReceiveFin(e, l) ==
    LET k == Head(net[e][l]).key
        s == sessions[e][k]
    IN
    /\ Accepts(e, l, "FIN")
    /\ sessions' = [sessions EXCEPT ![e][k] = NoSession]
    /\ IF s # NoSession /\ s.handler
       THEN /\ \E S \in Selections(e) :
                  net' = [net EXCEPT ![e][l] = Tail(@),
                                     ![Peer(e)] = WithCopies(e, S, Marker("FIN", k, s.next_send_seq))]
            /\ eof' = [eof EXCEPT ![e][k] = TRUE]
       ELSE Drop(e, l) /\ UNCHANGED eof
    /\ UNCHANGED <<live, downs, sent, handed, prior, instances>>

ReceiveData(e, l) ==
    LET seg == Head(net[e][l])
        k   == seg.key
        new == sessions[e][k] = NoSession
        s   == Emplace(IF new THEN NewSession(unknown_cb(e)) ELSE sessions[e][k], seg)
    IN
    /\ Accepts(e, l, "DATA")
    /\ Drop(e, l)
    /\ \E n \in 0..SeqMod :
          /\ RunLength(s, n)
          /\ sessions' = [sessions EXCEPT ![e][k] = deliverInOrder(s, n)]
          /\ handed' = [handed EXCEPT ![e][k] =
                            (IF new /\ s.handler THEN <<>> ELSE @) \o Taken(s, n)]
    /\ IF new /\ s.handler THEN NewHandler(e, k)
                           ELSE UNCHANGED <<prior, instances, eof>>
    /\ UNCHANGED <<live, downs, sent>>

-----------------------------------------------------------------------------
(* Links.  An end that loses a link loses what it had not read from it; the *)
(* other end notices on its own.  A reconnected link starts empty.          *)

LinkDown(e, l) ==
    /\ downs < MaxDowns
    /\ l \in live[e]
    /\ downs' = downs + 1
    /\ live' = [live EXCEPT ![e] = @ \ {l}]
    /\ net' = [net EXCEPT ![e][l] = <<>>]
    /\ UNCHANGED <<sessions, dedup, history>>

(* The end that still holds a link whose other side is gone is told so. *)
LinkDownNoticed(e, l) ==
    /\ l \in live[e] /\ l \notin live[Peer(e)]
    /\ live' = [live EXCEPT ![e] = @ \ {l}]
    /\ net' = [net EXCEPT ![e][l] = <<>>]
    /\ UNCHANGED <<sessions, dedup, downs, history>>

LinkUp(l) ==
    /\ \A e \in End : l \notin live[e]
    /\ live' = [e \in End |-> live[e] \cup {l}]
    /\ UNCHANGED <<sessions, dedup, net, downs, history>>

-----------------------------------------------------------------------------
Init ==
    /\ sessions = [e \in End |-> [k \in Keys |-> NoSession]]
    /\ dedup = [e \in End |-> <<>>]
    /\ net = [e \in End |-> [l \in Links |-> <<>>]]
    /\ live = [e \in End |-> Links]
    /\ downs = 0
    /\ sent = [e \in End |-> [k \in Keys |-> <<>>]]
    /\ handed = [e \in End |-> [k \in Keys |-> <<>>]]
    /\ prior = [e \in End |-> [k \in Keys |-> 0]]
    /\ instances = [e \in End |-> [k \in Keys |-> 0]]
    /\ eof = [e \in End |-> [k \in Keys |-> FALSE]]

onChannelBytes(e, l) ==
    \/ ReceiveDuplicate(e, l)
    \/ ReceiveOutOfWindow(e, l)
    \/ ReceiveSyn(e, l)
    \/ ReceiveFin(e, l)
    \/ ReceiveData(e, l)

Next ==
    \/ \E k \in Keys : openSession(k)
    \/ \E e \in End, k \in Keys, p \in Payloads : sendSessionData(e, k, p)
    \/ \E e \in End, k \in Keys : closeSession(e, k)
    \/ \E e \in End, l \in Links : onChannelBytes(e, l)
    \/ \E e \in End, l \in Links : LinkDown(e, l) \/ LinkDownNoticed(e, l)
    \/ \E l \in Links : LinkUp(l)

Spec == Init /\ [][Next]_vars

-----------------------------------------------------------------------------
(* Properties.                                                              *)

(* Every variable keeps its type: sequence numbers stay 32-bit values,      *)
(* rx_buffer holds payloads, the dedup ring never outgrows kDedupRing.      *)
TypeOK ==
    /\ sessions \in [End -> [Keys -> Session \cup {NoSession}]]
    /\ dedup \in [End -> Seq(DedupKeyType)]
    /\ \A e \in End : Len(dedup[e]) <= DedupRing
    /\ net \in [End -> [Links -> Seq(Segment)]]
    /\ live \in [End -> SUBSET Links]
    /\ downs \in Nat
    /\ sent \in [End -> [Keys -> Seq(Payloads)]]
    /\ handed \in [End -> [Keys -> Seq(Payloads)]]
    /\ prior \in [End -> [Keys -> Nat]]
    /\ instances \in [End -> [Keys -> Nat]]
    /\ eof \in [End -> [Keys -> BOOLEAN]]

IsPrefixOf(s, t) == Len(s) <= Len(t) /\ \A i \in 1..Len(s) : s[i] = t[i]

(* What the guard in onChannelBytes promises ("rx_buffer stays capped at    *)
(* recv_window under loss, reordering, or a hostile peer"): everything a    *)
(* session buffers lies in the window that starts at expected_rx_seq, also  *)
(* after deliverInOrder has moved that start.                               *)
WindowBounded ==
    \A e \in End, k \in Keys :
        sessions[e][k] # NoSession =>
            \A i \in SeqNum : sessions[e][k].rx_buffer[i] # NoPayload =>
                Rel(i, sessions[e][k].expected_rx_seq) < RecvWindow

(* A session with a handler never sits on the segment it is waiting for:    *)
(* between two segments deliverInOrder has always taken the whole run.      *)
NothingHeldBack ==
    \A e \in End, k \in Keys :
        (sessions[e][k] # NoSession /\ sessions[e][k].handler) =>
            sessions[e][k].rx_buffer[sessions[e][k].expected_rx_seq] = NoPayload

(* The relay's stream: whatever races, losses, reconnects, evictions from   *)
(* the dedup ring and closes happened, the newest relay of a session was    *)
(* given a prefix of what the client wrote, each segment once and in order. *)
InOrderForward ==
    \A k \in Keys : IsPrefixOf(handed["outport"][k], sent["inport"][k])

(* The same for both directions.  The client's side needs the dedup ring to *)
(* remember the session's keys: a relay started by a replayed session       *)
(* numbers its replies from 0 again.                                        *)
InOrder ==
    \A e \in End, k \in Keys : IsPrefixOf(handed[e][k], sent[Peer(e)][k])

(* The dedup table is not poisoned (the comment above the window guard in   *)
(* onChannelBytes): while the first handler of a session is attached, a     *)
(* DATA key is recorded only for a segment that this handler was given or   *)
(* that waits in its rx_buffer, so no later copy is refused for a segment   *)
(* that nobody kept.                                                        *)
NotPoisoned ==
    \A e \in End, k \in Keys :
        (sessions[e][k] # NoSession /\ sessions[e][k].handler /\ instances[e][k] = 1) =>
            \A dk \in Recorded(dedup[e]) :
                (dk.kind = "DATA" /\ dk.key = k) =>
                    \/ dk.seq < Len(handed[e][k])
                    \/ sessions[e][k].rx_buffer[dk.seq] # NoPayload

(* What an earlier handler of the session was given is never given again to *)
(* a later one: a session is not replayed.                                  *)
AtMostOnce ==
    \A e \in End, k \in Keys : prior[e][k] > 0 => handed[e][k] = <<>>

(* A handler learns of the end of the stream after all of its bytes, as on  *)
(* an ordinary duplex pipe: the step that tells the first handler of a      *)
(* session about a FIN is taken only when that handler has been given       *)
(* everything the peer's first handler wrote.                               *)
CloseAfterData ==
    [][\A e \in End, k \in Keys :
          (~eof[e][k] /\ eof'[e][k] /\ \A d \in End : instances[d][k] = 1)
              => handed[e][k] = sent[Peer(e)][k]]_vars

(* "One instance per logical session": a session key gets one handler in    *)
(* its lifetime.                                                            *)
OneHandlerPerSession ==
    \A e \in End, k \in Keys : instances[e][k] <= 1

(* Nothing of session k is on its way. *)
Drained(k) ==
    \A e \in End, l \in Links :
        \A i \in DOMAIN net[e][l] : net[e][l][i].key # k

(* A session that its client has left behind, with nothing more on the way, *)
(* is gone from the Outport too: the FIN exchange leaks no relay.           *)
NoLeak ==
    \A k \in Keys :
        (instances["inport"][k] > 0 /\ sessions["inport"][k] = NoSession /\ Drained(k))
            => sessions["outport"][k] = NoSession

(* The abstract pipe from the clients to the relays. *)
Pipe == INSTANCE OrderedPipe WITH
            written <- sent["inport"],
            read    <- handed["outport"],
            readers <- instances["outport"]

(* DataStream implements the pipe: every step hands the relay nothing, or   *)
(* the part of the client's stream that follows what it has, or attaches a  *)
(* relay that starts from the beginning.                                    *)
ImplementsPipe == Pipe!Spec

(* Weak fairness of reading on the links in G: the reactor keeps serving    *)
(* every socket that has bytes; a link outside G may be blackholed.         *)
Fairness(G) == \A e \in End, l \in G : WF_vars(onChannelBytes(e, l))

(* The session k is still open at both ends. *)
StillOpen(k) ==
    /\ sessions["inport"][k] # NoSession
    /\ instances["outport"][k] > 0 => sessions["outport"][k] # NoSession

(* Every segment that a client writes reaches the relay, unless one of the  *)
(* two sides closes the session first.                                      *)
Delivery ==
    \A k \in Keys : \A n \in 1..MaxSegs["inport"] :
        (Len(sent["inport"][k]) >= n)
            ~> (Len(handed["outport"][k]) >= n \/ ~StillOpen(k))

=============================================================================
