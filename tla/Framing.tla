------------------------------ MODULE Framing ------------------------------
(***************************************************************************)
(* How segments survive being a byte stream (src/src/zfgw_segment.cpp and   *)
(* the framing in DataStream::onChannelBytes): a sender that encodes whole  *)
(* segments, a connection that delivers their bytes in pieces and may end   *)
(* anywhere, and a receiver that keeps what is incomplete in scratch_.      *)
(* scratch_ is kept by the address of the channel and outlives it: a new    *)
(* channel at that address starts with what the old one left.               *)
(*                                                                         *)
(* Scale: each header field is one byte, and session and number are one     *)
(* field.  A byte is a tuple with a number; the checksum is the tuple of    *)
(* all it covers, so that two contents never share one.                     *)
(***************************************************************************)
EXTENDS Naturals, Sequences

CONSTANTS
    verify_crc, \* enable_crc of the configuration
    Payloads,   \* payloads that are sent, sequences of numbers
    MaxSegs,    \* bound: segments sent over one connection
    MaxConns    \* bound: connections, one after the other

LOCAL INSTANCE SequencesExt

MAGIC == 9
MAX_PAYLOAD == 3

(* Sizes of the headers without and with the checksum's byte.               *)
LEGACY_HEADER_SIZE == 5
HEADER_SIZE == 6
ROUTED_HEADER_SIZE == 7

(* The bits FLAG_HDR_EXT and FLAG_HDR_ROUTE. *)
isHdrExt(f) == f % 2 = 1
isHdrRoute(f) == (f \div 2) % 2 = 1

VARIABLES
    conn,      \* connections so far
    wire,      \* bytes on the connection
    scratch,   \* scratch_[ch].buffer
    sent,      \* history: segments sent over this connection
    got,       \* history: segments accepted from this connection
    ever,      \* history: segments sent over any connection
    clean      \* history: this connection began with an empty scratch

vars == <<conn, wire, scratch, sent, got, ever, clean>>

Byte(n) == <<n>>
Bytes(s) == [i \in DOMAIN s |-> Byte(s[i])]

(* The number in a byte of the wire; no field holds a checksum's value. *)
Val(b) == IF Len(b) = 1 THEN b[1] ELSE 1000

(* A segment as the sender has it and as the receiver decodes it. *)
Seg(routed, num, payload) ==
    [flags |-> IF routed THEN 3 ELSE 1, num |-> num, ingress |-> 1,
     outport |-> IF routed THEN 2 ELSE 0, payload |-> Bytes(payload)]

(* fgwSegmentEncode. *)
fgwSegmentEncode(seg) ==
    LET head == Bytes(<<MAGIC, seg.flags, Len(seg.payload), seg.num, seg.ingress>>
                      \o IF isHdrRoute(seg.flags) THEN <<seg.outport>> ELSE <<>>)
    IN  Append(head, head \o seg.payload) \o seg.payload

(* Fault variant: a routed header is taken for an extended one. *)
fgwSegmentPeekHeaderNoRoute(b) ==
    IF Len(b) < LEGACY_HEADER_SIZE THEN "more"
    ELSE IF Val(b[1]) # MAGIC \/ Val(b[3]) > MAX_PAYLOAD THEN "bad"
    ELSE IF isHdrExt(Val(b[2]))
    THEN IF Len(b) < HEADER_SIZE THEN "more" ELSE "extended"
    ELSE "legacy"

(* fgwSegmentPeekHeader: the kind of header at the start of b, if there is  *)
(* enough of it to know.                                                    *)
fgwSegmentPeekHeader(b) ==
    IF Len(b) < LEGACY_HEADER_SIZE THEN "more"
    ELSE IF Val(b[1]) # MAGIC \/ Val(b[3]) > MAX_PAYLOAD THEN "bad"
    ELSE IF isHdrRoute(Val(b[2]))
    THEN IF Len(b) < ROUTED_HEADER_SIZE THEN "more" ELSE "routed"
    ELSE IF isHdrExt(Val(b[2]))
    THEN IF Len(b) < HEADER_SIZE THEN "more" ELSE "extended"
    ELSE "legacy"

WireSize(kind) ==
    CASE kind = "routed" -> ROUTED_HEADER_SIZE [] kind = "extended" -> HEADER_SIZE
      [] OTHER -> LEGACY_HEADER_SIZE

Decoded(b, hr) ==
    [flags |-> Val(b[2]), num |-> Val(b[4]),
     ingress |-> IF hr = LEGACY_HEADER_SIZE THEN 0 ELSE Val(b[5]),
     outport |-> IF hr = ROUTED_HEADER_SIZE THEN Val(b[6]) ELSE 0,
     payload |-> SubSeq(b, hr + 1, hr + Val(b[3]))]

(* Fault variant: the checksum covers the payload only. *)
crc_okPayloadOnly(b, hr) ==
    LET covered == SubSeq(b, hr + 1, hr + Val(b[3]))
    IN  covered = <<>> \/ (Len(b[hr]) > Len(covered) /\
            SubSeq(b[hr], Len(b[hr]) - Len(covered) + 1, Len(b[hr])) = covered)

(* crc_ok: the checksum is that of the header before it and the payload.    *)
crc_ok(b, hr) == b[hr] = SubSeq(b, 1, hr - 1) \o SubSeq(b, hr + 1, hr + Val(b[3]))

(* The loop of onChannelBytes over the bytes b: the segments it accepts,    *)
(* and what it leaves.  A bad header drops all there is; a segment with a   *)
(* wrong checksum is skipped, by the length that it claims.                 *)
Parse(b) ==
    LET step[pos \in 0..Len(b)] ==
            LET rest  == SubSeq(b, pos + 1, Len(b))
                kind  == fgwSegmentPeekHeader(rest)
                hr    == WireSize(kind)
                total == hr + Val(rest[3])
                after == step[pos + total]
            IN  IF kind = "bad" THEN [segs |-> <<>>, left |-> <<>>]
                ELSE IF kind = "more" \/ total > Len(rest) THEN [segs |-> <<>>, left |-> rest]
                ELSE [segs |-> (IF verify_crc => crc_ok(rest, hr) THEN <<Decoded(rest, hr)>> ELSE <<>>) \o after.segs,
                      left |-> after.left]
    IN  step[0]

Init ==
    /\ conn = 1 /\ wire = <<>> /\ scratch = <<>>
    /\ sent = <<>> /\ got = <<>> /\ ever = {} /\ clean = TRUE

sendSegment(seg) ==
    /\ Len(sent) < MaxSegs
    /\ wire' = wire \o fgwSegmentEncode(seg)
    /\ sent' = Append(sent, seg)
    /\ ever' = ever \cup {seg}
    /\ UNCHANGED <<conn, scratch, got, clean>>

(* A read of n bytes. *)
onChannelBytes(n) ==
    LET p == Parse(scratch \o SubSeq(wire, 1, n))
    IN  /\ wire' = SubSeq(wire, n + 1, Len(wire))
        /\ scratch' = p.left
        /\ got' = got \o p.segs
        /\ UNCHANGED <<conn, sent, ever, clean>>

(* The connection ends with bytes unread; the next one has a channel of its *)
(* own, at another address or at the same.                                  *)
Reconnect ==
    /\ conn < MaxConns /\ conn' = conn + 1
    /\ wire' = <<>> /\ sent' = <<>> /\ got' = <<>>
    /\ scratch' \in {<<>>, scratch}
    /\ clean' = (scratch' = <<>>)
    /\ UNCHANGED ever

Next ==
    \/ \E routed \in BOOLEAN, payload \in Payloads : sendSegment(Seg(routed, conn, payload))
    \/ \E n \in 1..Len(wire) : onChannelBytes(n)
    \/ Reconnect

Spec == Init /\ [][Next]_vars

-----------------------------------------------------------------------------
(* However a connection cuts its bytes into reads, they come out as the     *)
(* segments that went in, in order, up to an incomplete one in scratch: no  *)
(* prefix of a segment is taken for a bad one or for a shorter one.         *)
CleanFraming ==
    clean =>
        /\ got = SubSeq(sent, 1, Len(got))
        /\ FlattenSeq([i \in 1..(Len(sent) - Len(got)) |-> fgwSegmentEncode(sent[Len(got) + i])])
               = scratch \o wire

(* With checksums nothing is accepted that no sender sent, even when half a *)
(* segment of an earlier connection comes before, a header is misread or    *)
(* payload is taken for a header.                                           *)
NothingInvented == \A i \in DOMAIN got : got[i] \in ever
=============================================================================
