---------------------------- MODULE TunnelProofs ----------------------------
(***************************************************************************)
(* Proofs about Tunnel, for any number of sessions, any scripts and any     *)
(* answers: what the target of a relay gets is what the client sent behind  *)
(* the handshake (StreamInv), the two ends of a session agree once nothing  *)
(* is on the way (EndInv), and what the client is told is one of the        *)
(* conversations there are (TalkInv).                                       *)
(***************************************************************************)
EXTENDS Tunnel, SequenceTheorems, TLAPS

-----------------------------------------------------------------------------
(* Types, as far as the proofs need them.                                   *)

(* (The provers do not know of a string that it is one.) *)
Tokens == STRING \cup {"hi1", "hi2", "req1", "req2", "nocmd", "junk",
                       "method", "ok", "notsup", "unreach"}

Bytes == Seq(Tokens)

(* Data are never empty. *)
Segments == {g \in [kind : {"SYN", "DATA", "FIN"}, seq : Nat, bytes : Bytes] :
                g.kind = "DATA" => g.bytes # <<>>}

Relays == [phase : {"METHODS", "REQUEST", "CONNECTING", "RELAYING", "CLOSED"}, buf : Bytes,
           sock : {"none", "connecting", "open"}, entry : BOOLEAN,
           doomed : {"no", "todo", "half"}, late : BOOLEAN]

Clients == [closed : BOOLEAN, tcp : BOOLEAN, entry : BOOLEAN, doomed : BOOLEAN,
            stream : {"none", "open", "orphan"}, seq : Nat, late : BOOLEAN]

Typed ==
    /\ up \in [Sids -> Seq(Segments)] /\ down \in [Sids -> Seq(Segments)]
    /\ sess \in [Sids -> Clients]
    /\ todo \in [Sids -> Bytes] /\ ahead \in [Sids -> Bytes]
    /\ next_id \in Nat /\ half \in Sids \cup {0}
    /\ relay \in [Sids -> Relays]
    /\ rx \in [Sids -> [open : BOOLEAN, exp : Nat]]
    /\ taken \in [Sids -> Bytes] /\ fed \in [Sids -> Bytes]

(* A buffer that begins with a message is that message and the rest. *)
LEMMA BeginsSplit ==
    ASSUME NEW b \in Bytes, NEW a \in Bytes, Out!Begins(b, a)
    PROVE  Out!Rest(b, Len(a)) \in Bytes /\ b = a \o Out!Rest(b, Len(a))
<1>1. Len(a) <= Len(b) /\ SubSeq(a, 1, Len(a)) = SubSeq(b, 1, Len(a))
  BY DEF Out!Begins, Out!IsPrefix
<1> DEFINE c == SubSeq(b, Len(a) + 1, Len(b))
<1>2. Len(a) \in Nat /\ Len(b) \in Nat
  BY DEF Bytes
<1>3. \A i \in 1..Len(a) : a[i] = b[i]
  <2> TAKE i \in 1..Len(a)
  <2>1. SubSeq(a, 1, Len(a))[i] = a[i] /\ SubSeq(b, 1, Len(a))[i] = b[i]
    BY <1>1, <1>2 DEF Bytes
  <2> QED
    BY <1>1, <2>1
<1>4. c \in Seq(Tokens) /\ Len(c) = Len(b) - Len(a)
      /\ \A i \in 1..Len(c) : c[i] = b[Len(a) + i]
  BY <1>1, <1>2 DEF Bytes
<1> HIDE DEF c
<1>5. a \o c \in Seq(Tokens) /\ Len(a \o c) = Len(b)
  BY <1>1, <1>2, <1>4 DEF Bytes
<1>6. \A i \in 1..Len(b) : (a \o c)[i] = b[i]
  BY <1>1, <1>2, <1>3, <1>4 DEF Bytes
<1>7. a \o c = b
  <2> DEFINE d == a \o c
  <2> HIDE DEF d
  <2>1. d \in Seq(Tokens) /\ b \in Seq(Tokens) /\ Len(d) = Len(b) /\ \A i \in 1..Len(d) : d[i] = b[i]
    BY <1>5, <1>6 DEF d, Bytes
  <2>2. d = b
    BY <2>1, SeqEqual
  <2> QED
    BY <2>2 DEF d
<1> QED
  BY <1>4, <1>7 DEF c, Out!Rest, Bytes

Hi == <<"hi1", "hi2">>
Req == <<"req1", "req2">>

(* What feedRx makes of a relay: it leaves it, or takes the greeting, the   *)
(* request or both from the front of the buffer; it gives up only before    *)
(* the request was accepted.                                                *)
Advanced(r, q) ==
    /\ q \in Relays
    /\ q.sock = r.sock /\ q.entry = r.entry /\ q.doomed = r.doomed /\ q.late = r.late
    /\ \/ q = r
       \/ r.phase = "METHODS" /\ q.phase = "REQUEST" /\ r.buf = Hi \o q.buf
       \/ r.phase = "METHODS" /\ q.phase = "CONNECTING" /\ r.buf = Hi \o (Req \o q.buf)
       \/ r.phase = "REQUEST" /\ q.phase = "CONNECTING" /\ r.buf = Req \o q.buf

LEMMA JoinParts ==
    ASSUME NEW a \in Seq(Tokens), NEW b \in Seq(Tokens)
    PROVE  /\ a \o b \in Seq(Tokens) /\ Len(a \o b) = Len(a) + Len(b)
           /\ \A i \in 1..Len(a) : (a \o b)[i] = a[i]
           /\ \A i \in 1..Len(b) : (a \o b)[Len(a) + i] = b[i]
OBVIOUS

LEMMA TwoWords ==
    ASSUME NEW a \in Tokens, NEW b \in Tokens
    PROVE  <<a>> \o <<b>> = <<a, b>> /\ <<>> \o <<b>> = <<b>>
<1> DEFINE u == <<a>>
           v == <<b>>
           w == <<a, b>>
           z == u \o v
<1>1. /\ u \in Seq(Tokens) /\ v \in Seq(Tokens) /\ w \in Seq(Tokens)
      /\ Len(u) = 1 /\ Len(v) = 1 /\ Len(w) = 2 /\ u[1] = a /\ v[1] = b /\ w[1] = a /\ w[2] = b
  OBVIOUS
<1> HIDE DEF u, v, w
<1>2. /\ z \in Seq(Tokens) /\ Len(z) = Len(u) + Len(v)
      /\ \A i \in 1..Len(u) : z[i] = u[i]
      /\ \A i \in 1..Len(v) : z[Len(u) + i] = v[i]
  BY <1>1, JoinParts, Zenon
<1> HIDE DEF z
<1>4. z[1] = a /\ z[1 + 1] = b /\ Len(z) = 2
  BY <1>1, <1>2
<1>5. \A i \in 1..Len(z) : z[i] = w[i]
  BY <1>1, <1>4
<1>6. z = w
  BY <1>1, <1>2, <1>4, <1>5, SeqEqual
<1>7. <<>> \o v = v
  BY <1>1, ConcatProperties
<1> QED
  BY <1>6, <1>7 DEF u, v, w, z

(* What it says meanwhile: w, in one segment. *)
Said(r, q, w, bad) ==
    LET greeted == r.phase = "METHODS" /\ q.phase # "METHODS"
    IN  \/ w = <<>> /\ ~greeted
        \/ w = <<"method">> /\ greeted
        \/ w = <<"notsup">> /\ ~greeted /\ bad /\ r.phase = "REQUEST"
        \/ w = <<"method", "notsup">> /\ greeted /\ bad

LEMMA ParsedFacts ==
    ASSUME NEW r \in Relays
    PROVE  /\ Advanced(r, Out!Parsed(r).relay)
           /\ Said(r, Out!Parsed(r).relay, Out!Parsed(r).says, Out!Parsed(r).bad)
           /\ Out!Parsed(r).bad => r.phase \in {"METHODS", "REQUEST"}
           /\ Out!Parsed(r).bad => Out!Parsed(r).relay.phase \in {"METHODS", "REQUEST"}
           /\ Out!Parsed(r).says \in Bytes
<1> DEFINE greeted == r.phase = "METHODS" /\ Out!Begins(r.buf, <<"hi1", "hi2">>)
           q == IF greeted THEN [r EXCEPT !.phase = "REQUEST", !.buf = Out!Rest(@, 2)] ELSE r
           refuse == q.phase = "REQUEST" /\ Out!Begins(q.buf, <<"nocmd">>)
           asked == q.phase = "REQUEST" /\ Out!Begins(q.buf, <<"req1", "req2">>)
           bad == refuse \/ (q.phase \in {"METHODS", "REQUEST"} /\ Out!Begins(q.buf, <<"junk">>))
           p == IF asked THEN [q EXCEPT !.phase = "CONNECTING", !.buf = Out!Rest(@, 2)] ELSE q
           says == (IF greeted THEN <<"method">> ELSE <<>>) \o (IF refuse THEN <<"notsup">> ELSE <<>>)
<1>1. Out!Parsed(r) = [says |-> says, bad |-> bad, relay |-> p]
  BY DEF Out!Parsed
<1>2. /\ Hi \in Bytes /\ Len(Hi) = 2 /\ Hi = <<"hi1", "hi2">>
      /\ Req \in Bytes /\ Len(Req) = 2 /\ Req = <<"req1", "req2">>
  BY DEF Bytes, Tokens, Hi, Req
<1>3. /\ q \in Relays /\ q.sock = r.sock /\ q.entry = r.entry /\ q.doomed = r.doomed /\ q.late = r.late
      /\ q = r \/ (r.phase = "METHODS" /\ q.phase = "REQUEST" /\ r.buf = Hi \o q.buf)
  <2>1. CASE greeted
    <3>1. Out!Rest(r.buf, 2) \in Bytes /\ r.buf = Hi \o Out!Rest(r.buf, 2)
      BY <1>2, <2>1, BeginsSplit DEF Relays
    <3>2. q = [r EXCEPT !.phase = "REQUEST", !.buf = Out!Rest(@, 2)]
      BY <2>1
    <3> HIDE DEF q
    <3> QED
      BY <2>1, <3>1, <3>2 DEF Relays
  <2>2. CASE ~greeted
    BY <2>2
  <2> QED
    BY <2>1, <2>2
<1>a. (greeted => r.phase = "METHODS" /\ q.phase = "REQUEST") /\ (~greeted => q = r)
  BY <1>3
<1> HIDE DEF q
<1>4. /\ p \in Relays /\ p.sock = q.sock /\ p.entry = q.entry /\ p.doomed = q.doomed /\ p.late = q.late
      /\ p = q \/ (q.phase = "REQUEST" /\ p.phase = "CONNECTING" /\ q.buf = Req \o p.buf)
  <2>1. CASE asked
    <3>1. Out!Rest(q.buf, 2) \in Bytes /\ q.buf = Req \o Out!Rest(q.buf, 2)
      BY <1>2, <1>3, <2>1, BeginsSplit DEF Relays
    <3>2. p = [q EXCEPT !.phase = "CONNECTING", !.buf = Out!Rest(@, 2)]
      BY <2>1
    <3> HIDE DEF p
    <3> QED
      BY <1>3, <2>1, <3>1, <3>2 DEF Relays
  <2>2. CASE ~asked
    BY <1>3, <2>2
  <2> QED
    BY <2>1, <2>2
<1>5. Advanced(r, p)
  <2> HIDE DEF p
  <2> QED
    BY <1>3, <1>4 DEF Advanced
<1>6. bad => q.phase \in {"METHODS", "REQUEST"} /\ r.phase \in {"METHODS", "REQUEST"}
  BY <1>3
<1>7. bad => p.phase \in {"METHODS", "REQUEST"}
  <2> SUFFICES ASSUME bad PROVE ~asked
    BY <1>6
  <2>1. Out!Begins(q.buf, <<"nocmd">>) \/ Out!Begins(q.buf, <<"junk">>)
    OBVIOUS
  <2>2. q.buf \in Bytes
    BY <1>3 DEF Relays
  <2>3. q.buf[1] \in {"nocmd", "junk"}
    <3>1. ASSUME NEW w \in Tokens, Out!Begins(q.buf, <<w>>) PROVE q.buf[1] = w
      <4>1. <<w>> \in Bytes /\ <<w>>[1] = w /\ Len(<<w>>) = 1
        BY DEF Bytes
      <4> DEFINE z == Out!Rest(q.buf, 1)
      <4>2. z \in Bytes /\ q.buf = <<w>> \o z
        BY <2>2, <3>1, <4>1, BeginsSplit
      <4> HIDE DEF z
      <4>3. (<<w>> \o z)[1] = w
        BY <4>1, <4>2 DEF Bytes
      <4> QED
        BY <4>2, <4>3
    <3>2. "nocmd" \in Tokens /\ "junk" \in Tokens
      BY DEF Tokens
    <3> QED
      BY <2>1, <3>1, <3>2
  <2>4. asked => q.buf[1] = "req1"
    <3> SUFFICES ASSUME asked PROVE q.buf[1] = "req1"
      OBVIOUS
    <3> DEFINE z == Out!Rest(q.buf, 2)
    <3>1. z \in Bytes /\ q.buf = Req \o z
      BY <1>2, <2>2, BeginsSplit
    <3> HIDE DEF z
    <3>2. (Req \o z)[1] = "req1"
      BY <1>2, <3>1 DEF Bytes, Req
    <3> QED
      BY <3>1, <3>2
  <2> QED
    BY <2>3, <2>4
<1>8. says \in Bytes
  <2>1. <<"method">> \in Seq(Tokens) /\ <<"notsup">> \in Seq(Tokens) /\ <<>> \in Seq(Tokens)
    BY DEF Tokens
  <2> QED
    BY <2>1, ConcatProperties DEF Bytes
<1>9. Said(r, p, says, bad)
  <2>1. r.phase = "METHODS" /\ p.phase # "METHODS" <=> greeted
    <3> HIDE DEF p, greeted
    <3> QED
      BY <1>3, <1>4, <1>a
  <2>2. refuse => bad /\ (~greeted => r.phase = "REQUEST")
    <3> HIDE DEF greeted
    <3> QED
      BY <1>a
  <2>3. says = IF greeted THEN (IF refuse THEN <<"method", "notsup">> ELSE <<"method">>)
               ELSE (IF refuse THEN <<"notsup">> ELSE <<>>)
    <3> HIDE DEF greeted, refuse
    <3>1. <<"method">> \o <<>> = <<"method">> /\ <<>> \o <<>> = <<>>
      OBVIOUS
    <3>2. <<"method">> \o <<"notsup">> = <<"method", "notsup">> /\ <<>> \o <<"notsup">> = <<"notsup">>
      <4>1. "method" \in Tokens /\ "notsup" \in Tokens
        BY DEF Tokens
      <4> QED
        BY <4>1, TwoWords
    <3> QED
      BY <3>1, <3>2
  <2> HIDE DEF p, greeted, refuse, bad, says
  <2> QED
    BY <2>1, <2>2, <2>3 DEF Said
<1> HIDE DEF p, bad, says
<1> QED
  BY <1>1, <1>5, <1>6, <1>7, <1>8, <1>9

-----------------------------------------------------------------------------
(* Types are kept.                                                          *)

LEMMA SegType ==
    ASSUME NEW kind \in {"SYN", "DATA", "FIN"}, NEW n \in Nat, NEW b \in Bytes,
           kind = "DATA" => b # <<>>
    PROVE  In!Seg(kind, n, b) \in Segments /\ Out!Seg(kind, n, b) \in Segments
BY DEF In!Seg, Out!Seg, Segments

LEMMA NoBytes == <<>> \in Bytes
BY DEF Bytes

LEMMA TypeInit == Init => Typed
<1> SUFFICES ASSUME Init PROVE Typed
  OBVIOUS
<1>1. ASSUME NEW b \in Seq(STRING) PROVE b \in Bytes
  BY SeqMonotonic DEF Bytes, Tokens
<1>2. todo \in [Sids -> Bytes] /\ ahead \in [Sids -> Bytes]
  BY <1>1, ScriptsAssumption DEF Init
<1>3. In!NoClient \in Clients
  BY DEF In!NoClient, Clients
<1>4. [Out!NewRelay EXCEPT !.phase = "CLOSED", !.entry = FALSE] \in Relays
  BY NoBytes DEF Out!NewRelay, Relays
<1> QED
  BY <1>2, <1>3, <1>4, NoBytes DEF Init, In!InInit, Out!OutInit, Typed

(* An Inport's close. *)
LEMMA CloseType ==
    ASSUME Typed, NEW s \in Sids, In!close(s)
    PROVE  sess' \in [Sids -> Clients] /\ up' \in [Sids -> Seq(Segments)]
<1>1. sess[s].seq \in Nat /\ sess[s] \in Clients
  BY DEF Typed, Clients
<1>2. In!Seg("FIN", sess[s].seq, <<>>) \in Segments
  BY <1>1, SegType, NoBytes
<1>3. CASE sess[s].closed
  BY <1>3 DEF In!close, Typed
<1>4. CASE ~sess[s].closed
  <2>1. sess' = [sess EXCEPT ![s] = [sess[s] EXCEPT !.closed = TRUE, !.tcp = FALSE,
                                   !.entry = FALSE, !.doomed = FALSE, !.stream = "none"]]
    BY <1>4 DEF In!close
  <2>2. sess' \in [Sids -> Clients]
    BY <1>1, <2>1 DEF Typed, Clients
  <2>3. up' = up \/ up' = [up EXCEPT ![s] = Append(up[s], In!Seg("FIN", sess[s].seq, <<>>))]
    BY <1>4 DEF In!close
  <2>4. up' \in [Sids -> Seq(Segments)]
    <3>1. up \in [Sids -> Seq(Segments)]
      BY DEF Typed
    <3>2. Append(up[s], In!Seg("FIN", sess[s].seq, <<>>)) \in Seq(Segments)
      BY <1>2, <3>1
    <3> QED
      BY <2>3, <3>1, <3>2
  <2> QED
    BY <2>2, <2>4
<1> QED
  BY <1>3, <1>4

(* The changes that the steps make to a client. *)
LEMMA ClientEdits ==
    ASSUME NEW c \in Clients
    PROVE  /\ [c EXCEPT !.tcp = TRUE, !.entry = TRUE] \in Clients
           /\ [c EXCEPT !.stream = "open", !.late = c.closed] \in Clients
           /\ [c EXCEPT !.stream = IF c.stream = "none" THEN "orphan" ELSE c.stream] \in Clients
           /\ [c EXCEPT !.stream = "none"] \in Clients
           /\ [c EXCEPT !.doomed = c.doomed \/ c.entry, !.entry = FALSE] \in Clients
<1>1. [c EXCEPT !.tcp = TRUE, !.entry = TRUE] \in Clients
  BY DEF Clients
<1>2. [c EXCEPT !.stream = "open", !.late = c.closed] \in Clients
  BY DEF Clients
<1>3. [c EXCEPT !.stream = IF c.stream = "none" THEN "orphan" ELSE c.stream] \in Clients
  BY DEF Clients
<1>4. [c EXCEPT !.stream = "none"] \in Clients
  BY DEF Clients
<1>5. [c EXCEPT !.doomed = c.doomed \/ c.entry, !.entry = FALSE] \in Clients
  <2>1. (c.doomed \/ c.entry) \in BOOLEAN
    OBVIOUS
  <2> QED
    BY <2>1 DEF Clients
<1> QED
  BY <1>1, <1>2, <1>3, <1>4, <1>5

LEMMA InType == ASSUME Typed, Inport PROVE Typed'
<1>0. /\ UNCHANGED <<relay, rx, taken, fed, ahead>>
      /\ up \in [Sids -> Seq(Segments)] /\ down \in [Sids -> Seq(Segments)]
      /\ sess \in [Sids -> Clients] /\ todo \in [Sids -> Bytes]
      /\ next_id \in Nat /\ half \in Sids \cup {0}
  BY DEF Inport, outSide, Typed
<1> DEFINE Goal == /\ up' \in [Sids -> Seq(Segments)] /\ down' \in [Sids -> Seq(Segments)]
                   /\ sess' \in [Sids -> Clients] /\ todo' \in [Sids -> Bytes]
                   /\ next_id' \in Nat /\ half' \in Sids \cup {0}
<1>1. ASSUME In!Accept PROVE Goal
  <2>1. sess' = [sess EXCEPT ![next_id] = [sess[next_id] EXCEPT !.tcp = TRUE, !.entry = TRUE]]
        /\ next_id \in Sids
    BY <1>1 DEF In!Accept
  <2>2. sess' \in [Sids -> Clients]
    <3>1. [sess[next_id] EXCEPT !.tcp = TRUE, !.entry = TRUE] \in Clients
      BY <1>0, <2>1, ClientEdits
    <3> QED
      BY <1>0, <2>1, <3>1
  <2> QED
    BY <1>0, <1>1, <2>2 DEF In!Accept
<1>2. ASSUME In!OpenSession PROVE Goal
  <2>1. half \in Sids
    BY <1>0, <1>2 DEF In!OpenSession
  <2>2. In!Seg("SYN", 0, <<>>) \in Segments
    BY SegType, NoBytes
  <2>3. up' = [up EXCEPT ![half] = Append(up[half], In!Seg("SYN", 0, <<>>))]
    BY <1>2 DEF In!OpenSession
  <2>4. up' \in [Sids -> Seq(Segments)]
    BY <1>0, <2>1, <2>2, <2>3
  <2>5. sess' = [sess EXCEPT ![half] = [sess[half] EXCEPT !.stream = "open", !.late = sess[half].closed]]
    BY <1>2 DEF In!OpenSession
  <2>6. sess' \in [Sids -> Clients]
    <3>1. [sess[half] EXCEPT !.stream = "open", !.late = sess[half].closed] \in Clients
      BY <1>0, <2>1, ClientEdits
    <3> QED
      BY <1>0, <2>5, <3>1
  <2> QED
    BY <1>0, <1>2, <2>4, <2>6 DEF In!OpenSession
<1>3. ASSUME NEW s \in Sids, In!onClientBytes(s) PROVE Goal
  <2>1. todo[s] \in Bytes /\ todo[s] # <<>> /\ sess[s].seq \in Nat
    BY <1>0, <1>3 DEF In!onClientBytes, Clients
  <2>2. Head(todo[s]) \in Tokens /\ Tail(todo[s]) \in Bytes
    BY <2>1 DEF Bytes
  <2>3. <<Head(todo[s])>> \in Bytes /\ <<Head(todo[s])>> # <<>>
    BY <2>2 DEF Bytes
  <2>4. In!Seg("DATA", sess[s].seq, <<Head(todo[s])>>) \in Segments
    BY <2>1, <2>3, SegType
  <2>5. up' = [up EXCEPT ![s] = Append(up[s], In!Seg("DATA", sess[s].seq, <<Head(todo[s])>>))]
    BY <1>3 DEF In!onClientBytes
  <2>6. up' \in [Sids -> Seq(Segments)]
    BY <1>0, <2>4, <2>5
  <2>7. sess' = [sess EXCEPT ![s] = [sess[s] EXCEPT !.seq = sess[s].seq + 1]]
    BY <1>3 DEF In!onClientBytes
  <2>8. sess' \in [Sids -> Clients]
    <3>1. [sess[s] EXCEPT !.seq = sess[s].seq + 1] \in Clients
      <4>1. sess[s] \in Clients /\ sess[s].seq + 1 \in Nat
        BY <1>0, <2>1
      <4> DEFINE c == sess[s]
                 n == sess[s].seq + 1
      <4> HIDE DEF c, n
      <4>2. c \in Clients /\ n \in Nat
        BY <4>1 DEF c, n
      <4>3. [c EXCEPT !.seq = n] \in Clients
        BY <4>2 DEF Clients
      <4> QED
        BY <4>3 DEF c, n
    <3> QED
      BY <1>0, <2>7, <3>1
  <2>9. todo' = [todo EXCEPT ![s] = Tail(todo[s])] /\ UNCHANGED <<down, next_id, half>>
    BY <1>3 DEF In!onClientBytes
  <2>10. todo' \in [Sids -> Bytes]
    BY <1>0, <2>2, <2>9
  <2> QED
    BY <1>0, <2>6, <2>8, <2>9, <2>10
<1>4. ASSUME NEW s \in Sids, In!onClientClose(s) \/ In!StopSession(s) PROVE Goal
  BY <1>0, <1>4, CloseType DEF In!onClientClose, In!StopSession
<1>5. ASSUME NEW s \in Sids, In!onSessionData(s) PROVE Goal
  <2>1. down' = [down EXCEPT ![s] = Tail(down[s])] /\ down[s] # <<>>
    BY <1>5 DEF In!onSessionData
  <2>2. down' \in [Sids -> Seq(Segments)]
    BY <1>0, <2>1
  <2>3. sess' = [sess EXCEPT ![s] = [sess[s] EXCEPT !.stream = IF sess[s].stream = "none" THEN "orphan" ELSE sess[s].stream]]
    BY <1>5 DEF In!onSessionData
  <2>4. sess' \in [Sids -> Clients]
    <3>1. [sess[s] EXCEPT !.stream = IF sess[s].stream = "none" THEN "orphan" ELSE sess[s].stream] \in Clients
      BY <1>0, ClientEdits
    <3> QED
      BY <1>0, <2>3, <3>1
  <2> QED
    BY <1>0, <1>5, <2>2, <2>4 DEF In!onSessionData
<1>6. ASSUME NEW s \in Sids, In!onSessionClose(s) PROVE Goal
  <2>1. down' = [down EXCEPT ![s] = Tail(down[s])] /\ down[s] # <<>> /\ UNCHANGED <<next_id, half, todo>>
    BY <1>6 DEF In!onSessionClose
  <2>2. down' \in [Sids -> Seq(Segments)]
    BY <1>0, <2>1
  <2>3. \/ In!close(s)
        \/ sess' = [sess EXCEPT ![s] = [sess[s] EXCEPT !.stream = "none"]] /\ up' = up
    BY <1>6 DEF In!onSessionClose
  <2>4. sess' \in [Sids -> Clients] /\ up' \in [Sids -> Seq(Segments)]
    <3>1. CASE In!close(s)
      BY <3>1, CloseType
    <3>2. CASE sess' = [sess EXCEPT ![s] = [sess[s] EXCEPT !.stream = "none"]] /\ up' = up
      <4>1. [sess[s] EXCEPT !.stream = "none"] \in Clients
        BY <1>0, ClientEdits
      <4> QED
        BY <1>0, <3>2, <4>1
    <3> QED
      BY <2>3, <3>1, <3>2
  <2> QED
    BY <1>0, <2>1, <2>2, <2>4
<1>7. ASSUME In!stop PROVE Goal
  <2>1. sess' = [s \in Sids |-> [sess[s] EXCEPT !.doomed = sess[s].doomed \/ sess[s].entry, !.entry = FALSE]]
    BY <1>7 DEF In!stop
  <2>2. sess' \in [Sids -> Clients]
    <3>1. ASSUME NEW s \in Sids
          PROVE  [sess[s] EXCEPT !.doomed = sess[s].doomed \/ sess[s].entry, !.entry = FALSE] \in Clients
      BY <1>0, ClientEdits
    <3> QED
      BY <1>0, <2>1, <3>1
  <2> QED
    BY <1>0, <1>7, <2>2 DEF In!stop
<1>8. ASSUME In!StopAccepting PROVE Goal
  BY <1>0, <1>8 DEF In!StopAccepting
<1>9. Goal
  BY <1>1, <1>2, <1>3, <1>4, <1>5, <1>6, <1>7, <1>8 DEF Inport, In!InNext, In!Progress
<1> QED
  BY <1>0, <1>9 DEF Typed

(* The number that the Outport's stream expects next. *)
Exp(s) == IF rx[s].open THEN rx[s].exp ELSE 0

(* The bytes of the first n segments on the way up. *)
Run(s, n) == [i \in 1..n |-> Head(up[s][i].bytes)]

(* What ReceiveData does, with its LETs named: b the bytes that are fed, r  *)
(* the relay with them in its buffer, q what the parsers make of it.        *)
Reply(w, bad) == IF bad THEN Out!Data(w) \o Out!Fin ELSE Out!Data(w)

DataStep(s, n, b, r, q, bad) ==
    /\ Out!Free /\ \A i \in 1..n : up[s][i].kind = "DATA"
    /\ b = IF up[s][1].seq = Exp(s) THEN Run(s, n) ELSE <<>>
    /\ r = [Out!Handler(s) EXCEPT !.buf = Out!Handler(s).buf \o b]
    /\ Advanced(r, q)
    /\ bad => r.phase \in {"METHODS", "REQUEST"} /\ q.phase \in {"METHODS", "REQUEST"}
    /\ up' = [up EXCEPT ![s] = SubSeq(up[s], n + 1, Len(up[s]))]
    /\ fed' = [fed EXCEPT ![s] = IF rx[s].open THEN fed[s] \o b ELSE b]
    /\ taken' = IF r.phase = "RELAYING" /\ r.sock = "open"
                THEN [taken EXCEPT ![s] = taken[s] \o r.buf] ELSE taken
    /\ busy' = IF q.phase = "CONNECTING" /\ r.phase # "CONNECTING" THEN <<s, "dial">> ELSE <<>>
    /\ relay' = [relay EXCEPT ![s] = IF bad THEN [q EXCEPT !.phase = "CLOSED", !.entry = FALSE]
                                     ELSE IF r.phase = "RELAYING" THEN [r EXCEPT !.buf = <<>>] ELSE q]
    /\ rx' = [rx EXCEPT ![s] = [open |-> ~bad, exp |-> IF b = <<>> THEN Exp(s) ELSE Exp(s) + n]]
    /\ \E w \in Bytes : Said(r, q, w, bad) /\ down' = [down EXCEPT ![s] = down[s] \o Reply(w, bad)]
    /\ UNCHANGED ahead

LEMMA HandlerType ==
    ASSUME Typed, NEW s \in Sids
    PROVE  Out!NewRelay \in Relays /\ Out!Handler(s) \in Relays
BY NoBytes DEF Out!Handler, Out!Ensured, Out!NewRelay, Relays, Typed

LEMMA DataSegs == ASSUME NEW b \in Bytes PROVE Out!Data(b) \in Seq(Segments) /\ Out!Fin \in Seq(Segments)
<1>1. b # <<>> => Out!Seg("DATA", 0, b) \in Segments
  BY SegType
<1>2. Out!Seg("FIN", 0, <<>>) \in Segments
  BY SegType, NoBytes
<1> QED
  BY <1>1, <1>2 DEF Out!Data, Out!Fin

LEMMA ReplyType == ASSUME NEW w \in Bytes, NEW bad PROVE Reply(w, bad) \in Seq(Segments)
<1> DEFINE u == Out!Data(w)
           v == Out!Fin
<1>1. u \in Seq(Segments) /\ v \in Seq(Segments)
  BY DataSegs
<1>2. Reply(w, bad) \in {u \o v, u}
  BY DEF Reply
<1> HIDE DEF u, v
<1> QED
  BY <1>1, <1>2, ConcatProperties

LEMMA RunType ==
    ASSUME Typed, NEW s \in Sids, NEW n \in 1..Len(up[s]), \A i \in 1..n : up[s][i].kind = "DATA"
    PROVE  Run(s, n) \in Bytes /\ Len(Run(s, n)) = n /\ n \in Nat
<1>1. up[s] \in Seq(Segments) /\ n \in Nat
  BY DEF Typed
<1>2. ASSUME NEW i \in 1..n PROVE Head(up[s][i].bytes) \in Tokens
  <2>1. up[s][i] \in Segments /\ up[s][i].kind = "DATA"
    BY <1>1
  <2>2. up[s][i].bytes \in Seq(Tokens) /\ up[s][i].bytes # <<>>
    BY <2>1 DEF Segments, Bytes
  <2> QED
    BY <2>2
<1>3. Run(s, n) \in [1..n -> Tokens]
  BY <1>2 DEF Run
<1> QED
  BY <1>1, <1>3 DEF Bytes

LEMMA DataFacts ==
    ASSUME Typed, NEW s \in Sids, NEW n \in 1..Len(up[s]), Out!ReceiveData(s, n)
    PROVE  \E b \in Bytes, r \in Relays, q \in Relays, bad \in BOOLEAN : DataStep(s, n, b, r, q, bad)
<1> DEFINE run == SubSeq(up[s], 1, n)
           exp == IF rx[s].open THEN rx[s].exp ELSE 0
           b == IF run[1].seq = exp THEN [i \in 1..n |-> Head(run[i].bytes)] ELSE <<>>
           r == [Out!Handler(s) EXCEPT !.buf = @ \o b]
           p == Out!Parsed(r)
           q == p.relay
           dial == q.phase = "CONNECTING" /\ r.phase # "CONNECTING"
           opened == [rx EXCEPT ![s] = [open |-> TRUE, exp |-> IF b = <<>> THEN exp ELSE exp + n]]
<1>0. up[s] \in Seq(Segments) /\ n \in Nat /\ n >= 1 /\ n <= Len(up[s]) /\ down[s] \in Seq(Segments)
      /\ rx \in [Sids -> [open : BOOLEAN, exp : Nat]] /\ down \in [Sids -> Seq(Segments)]
  BY DEF Typed
<1>1. \A i \in 1..n : run[i] = up[s][i]
  BY <1>0
<1>2. /\ Out!Free /\ \A i \in 1..n : run[i].kind = "DATA"
      /\ up' = [up EXCEPT ![s] = SubSeq(up[s], n + 1, Len(up[s]))]
      /\ fed' = [fed EXCEPT ![s] = IF rx[s].open THEN fed[s] \o b ELSE b]
      /\ taken' = IF r.phase = "RELAYING" /\ r.sock = "open"
                  THEN [taken EXCEPT ![s] = taken[s] \o r.buf] ELSE taken
      /\ busy' = IF dial THEN <<s, "dial">> ELSE <<>>
      /\ UNCHANGED ahead
  BY DEF Out!ReceiveData, Out!Heard, Out!Consume
<1>3. IF p.bad
      THEN /\ relay' = [relay EXCEPT ![s] = [q EXCEPT !.phase = "CLOSED", !.entry = FALSE]]
           /\ rx' = [opened EXCEPT ![s].open = FALSE]
           /\ down' = [down EXCEPT ![s] = @ \o Out!Data(p.says) \o Out!Fin]
      ELSE /\ relay' = [relay EXCEPT ![s] = IF r.phase = "RELAYING" THEN [r EXCEPT !.buf = <<>>] ELSE q]
           /\ rx' = opened
           /\ down' = [down EXCEPT ![s] = @ \o Out!Data(p.says)]
  BY DEF Out!ReceiveData
<1>4. \A i \in 1..n : up[s][i].kind = "DATA"
  BY <1>1, <1>2
<1>5. exp = Exp(s) /\ b = (IF up[s][1].seq = Exp(s) THEN Run(s, n) ELSE <<>>)
  <2>1. [i \in 1..n |-> Head(run[i].bytes)] = Run(s, n)
    BY <1>1 DEF Run
  <2>2. run[1] = up[s][1]
    BY <1>0, <1>1
  <2> QED
    BY <2>1, <2>2 DEF Exp
<1>6. b \in Bytes
  BY <1>4, <1>5, RunType, NoBytes
<1> HIDE DEF b
<1>7. r \in Relays
  <2>1. Out!Handler(s) \in Relays
    BY HandlerType
  <2>2. Out!Handler(s).buf \o b \in Bytes
    <3>1. Out!Handler(s).buf \in Seq(Tokens) /\ b \in Seq(Tokens)
      BY <1>6, <2>1 DEF Relays, Bytes
    <3> QED
      BY <3>1, ConcatProperties DEF Bytes
  <2> QED
    BY <2>1, <2>2 DEF Relays
<1>8. r = [Out!Handler(s) EXCEPT !.buf = Out!Handler(s).buf \o b]
  OBVIOUS
<1> HIDE DEF r
<1>9. /\ Advanced(r, q) /\ q \in Relays /\ p.says \in Bytes
      /\ p.bad => r.phase \in {"METHODS", "REQUEST"} /\ q.phase \in {"METHODS", "REQUEST"}
  BY <1>7, ParsedFacts DEF Advanced
<1>a. PICK bad \in BOOLEAN : bad <=> p.bad
  OBVIOUS
<1>10. Said(r, q, p.says, bad) /\ down' = [down EXCEPT ![s] = down[s] \o Reply(p.says, bad)]
  <2>0. Said(r, q, p.says, bad)
    <3>1. Said(r, q, p.says, p.bad)
      BY <1>7, ParsedFacts
    <3> QED
      BY <1>a, <3>1 DEF Said
  <2>1. Out!Data(p.says) \in Seq(Segments) /\ Out!Fin \in Seq(Segments)
    BY <1>9, DataSegs
  <2> DEFINE u == Out!Data(p.says)
             v == Out!Fin
  <2>2. u \in Seq(Segments) /\ v \in Seq(Segments)
    BY <2>1
  <2>3. down' = [down EXCEPT ![s] = IF bad THEN (down[s] \o u) \o v ELSE down[s] \o u]
    BY <1>3, <1>a
  <2>5. Reply(p.says, bad) = IF bad THEN u \o v ELSE u
    BY DEF Reply
  <2> HIDE DEF u, v
  <2>4. (down[s] \o u) \o v = down[s] \o (u \o v)
    <3>1. \A w \in Seq(Segments) : (w \o u) \o v = w \o (u \o v)
      BY <2>2, ConcatAssociative
    <3> QED
      BY <1>0, <3>1
  <2> QED
    BY <2>0, <2>3, <2>4, <2>5
<1> HIDE DEF p, q
<1>11. relay' = [relay EXCEPT ![s] = IF bad THEN [q EXCEPT !.phase = "CLOSED", !.entry = FALSE]
                                     ELSE IF r.phase = "RELAYING" THEN [r EXCEPT !.buf = <<>>] ELSE q]
  BY <1>3, <1>a
<1>12. rx' = [rx EXCEPT ![s] = [open |-> ~bad, exp |-> IF b = <<>> THEN Exp(s) ELSE Exp(s) + n]]
  <2> DEFINE e == IF b = <<>> THEN Exp(s) ELSE Exp(s) + n
  <2>1. opened = [rx EXCEPT ![s] = [open |-> TRUE, exp |-> e]]
    BY <1>5
  <2> HIDE DEF e, opened
  <2>2. [opened EXCEPT ![s].open = FALSE] = [rx EXCEPT ![s] = [open |-> FALSE, exp |-> e]]
    BY <1>0, <2>1
  <2>3. CASE bad
    BY <1>3, <1>a, <2>2, <2>3 DEF e
  <2>4. CASE ~bad
    BY <1>3, <1>a, <2>1, <2>4 DEF e
  <2> QED
    BY <2>3, <2>4
<1>13. DataStep(s, n, b, r, q, bad)
  BY <1>2, <1>4, <1>5, <1>8, <1>9, <1>10, <1>11, <1>12, <1>a DEF DataStep
<1> QED
  BY <1>6, <1>7, <1>9, <1>13

LEMMA SendsType ==
    ASSUME Typed, NEW s \in Sids, NEW g \in Seq(Segments)
    PROVE  Out!Sends(s, g) \in [Sids -> Seq(Segments)]
<1>1. down \in [Sids -> Seq(Segments)] /\ down[s] \in Seq(Segments)
  BY DEF Typed
<1>2. \A w \in Seq(Segments) : w \o g \in Seq(Segments)
  BY ConcatProperties
<1>3. down[s] \o g \in Seq(Segments)
  BY <1>1, <1>2
<1> QED
  BY <1>1, <1>3 DEF Out!Sends

(* Replies are bytes. *)
LEMMA Replies == <<>> \in Bytes /\ <<"ok">> \in Bytes /\ <<"unreach">> \in Bytes
BY DEF Bytes, Tokens

(* The part of the state that the Outport's steps on a session change. *)
OutTyped ==
    /\ up' \in [Sids -> Seq(Segments)] /\ down' \in [Sids -> Seq(Segments)]
    /\ ahead' \in [Sids -> Bytes] /\ relay' \in [Sids -> Relays]
    /\ rx' \in [Sids -> [open : BOOLEAN, exp : Nat]]
    /\ taken' \in [Sids -> Bytes] /\ fed' \in [Sids -> Bytes]

(* The changes that the steps make to a relay. *)
LEMMA RelayEdits ==
    ASSUME NEW r \in Relays
    PROVE  /\ [r EXCEPT !.phase = "CLOSED", !.entry = FALSE] \in Relays
           /\ [r EXCEPT !.phase = "CLOSED", !.sock = "none", !.entry = FALSE] \in Relays
           /\ [r EXCEPT !.phase = "CLOSED", !.sock = "none", !.doomed = "half"] \in Relays
           /\ [r EXCEPT !.phase = "RELAYING", !.buf = <<>>] \in Relays
           /\ [r EXCEPT !.buf = <<>>] \in Relays
           /\ [r EXCEPT !.sock = "connecting", !.late = r.phase = "CLOSED"] \in Relays
           /\ [r EXCEPT !.sock = "open"] \in Relays /\ [r EXCEPT !.sock = "none"] \in Relays
           /\ [r EXCEPT !.late = TRUE] \in Relays
           /\ [r EXCEPT !.entry = FALSE, !.doomed = "todo"] \in Relays
           /\ [r EXCEPT !.doomed = "no"] \in Relays
           /\ [r EXCEPT !.doomed = "no", !.entry = FALSE] \in Relays
<1>1. /\ [r EXCEPT !.phase = "CLOSED", !.entry = FALSE] \in Relays
      /\ [r EXCEPT !.phase = "CLOSED", !.sock = "none", !.entry = FALSE] \in Relays
  BY DEF Relays
<1>2. [r EXCEPT !.phase = "CLOSED", !.sock = "none", !.doomed = "half"] \in Relays
  BY DEF Relays
<1>3. /\ [r EXCEPT !.phase = "RELAYING", !.buf = <<>>] \in Relays
      /\ [r EXCEPT !.buf = <<>>] \in Relays
  BY NoBytes DEF Relays
<1>4. [r EXCEPT !.sock = "connecting", !.late = r.phase = "CLOSED"] \in Relays
  BY DEF Relays
<1>5. [r EXCEPT !.sock = "open"] \in Relays /\ [r EXCEPT !.sock = "none"] \in Relays
  BY DEF Relays
<1>6. [r EXCEPT !.late = TRUE] \in Relays
  BY DEF Relays
<1>7. [r EXCEPT !.entry = FALSE, !.doomed = "todo"] \in Relays
  BY DEF Relays
<1>8. /\ [r EXCEPT !.doomed = "no"] \in Relays
      /\ [r EXCEPT !.doomed = "no", !.entry = FALSE] \in Relays
  BY DEF Relays
<1> QED
  BY <1>1, <1>2, <1>3, <1>4, <1>5, <1>6, <1>7, <1>8

LEMMA CloseAfterType ==
    ASSUME Typed, NEW s \in Sids, NEW r \in Relays, NEW w \in Bytes, Out!CloseAfter(s, r, w)
    PROVE  /\ relay' \in [Sids -> Relays] /\ down' \in [Sids -> Seq(Segments)]
           /\ rx' \in [Sids -> [open : BOOLEAN, exp : Nat]]
<1> DEFINE closed == [r EXCEPT !.phase = "CLOSED", !.sock = "none", !.entry = FALSE]
           u == Out!Data(w)
           v == Out!Fin
<1>1. closed \in Relays
  BY RelayEdits
<1>2. u \in Seq(Segments) /\ v \in Seq(Segments)
  BY DataSegs
<1>3. /\ relay' = [relay EXCEPT ![s] = r] \/ relay' = [relay EXCEPT ![s] = closed]
      /\ down' = Out!Sends(s, u) \/ down' = Out!Sends(s, u \o v)
      /\ rx' = rx \/ rx' = [rx EXCEPT ![s].open = FALSE]
  BY DEF Out!CloseAfter
<1> HIDE DEF closed, u, v
<1>4. u \o v \in Seq(Segments)
  BY <1>2, ConcatProperties
<1>5. down' \in [Sids -> Seq(Segments)]
  <2>1. \A g \in Seq(Segments) : Out!Sends(s, g) \in [Sids -> Seq(Segments)]
    BY SendsType
  <2> QED
    BY <1>2, <1>3, <1>4, <2>1
<1>6. relay' \in [Sids -> Relays]
  BY <1>1, <1>3 DEF Typed
<1>7. rx' \in [Sids -> [open : BOOLEAN, exp : Nat]]
  <2>1. rx \in [Sids -> [open : BOOLEAN, exp : Nat]]
    BY DEF Typed
  <2>2. rx' = rx \/ rx' = [rx EXCEPT ![s] = [rx[s] EXCEPT !.open = FALSE]]
    BY <1>3
  <2>3. [rx[s] EXCEPT !.open = FALSE] \in [open : BOOLEAN, exp : Nat]
    BY <2>1
  <2> QED
    BY <2>1, <2>2, <2>3
<1> QED
  BY <1>5, <1>6, <1>7

LEMMA OutType == ASSUME Typed, Outport PROVE Typed'
<1>0. /\ UNCHANGED <<sess, todo, next_id, half>>
      /\ up \in [Sids -> Seq(Segments)] /\ down \in [Sids -> Seq(Segments)]
      /\ ahead \in [Sids -> Bytes] /\ relay \in [Sids -> Relays]
      /\ rx \in [Sids -> [open : BOOLEAN, exp : Nat]]
      /\ taken \in [Sids -> Bytes] /\ fed \in [Sids -> Bytes]
  BY DEF Outport, inSide, Typed
<1>1. ASSUME NEW s \in Sids, Out!ReceiveSyn(s) PROVE OutTyped
  <2>1. up' = [up EXCEPT ![s] = SubSeq(up[s], 2, Len(up[s]))]
    BY <1>0, <1>1 DEF Out!ReceiveSyn, Out!Consume
  <2>2. up' \in [Sids -> Seq(Segments)]
    <3>1. up[s] \in Seq(Segments)
      BY <1>0
    <3>2. SubSeq(up[s], 2, Len(up[s])) \in Seq(Segments)
      BY <3>1
    <3> QED
      BY <1>0, <2>1, <3>2
  <2>3. relay' \in [Sids -> Relays]
    BY <1>0, <1>1, HandlerType DEF Out!ReceiveSyn
  <2>4. rx' \in [Sids -> [open : BOOLEAN, exp : Nat]]
    BY <1>0, <1>1 DEF Out!ReceiveSyn
  <2> QED
    BY <1>0, <1>1, <2>2, <2>3, <2>4 DEF Out!ReceiveSyn, OutTyped
<1>2. ASSUME NEW s \in Sids, Out!ReceiveFin(s) PROVE OutTyped
  <2>1. up' = [up EXCEPT ![s] = SubSeq(up[s], 2, Len(up[s]))]
    BY <1>0, <1>2 DEF Out!ReceiveFin, Out!Consume
  <2>2. up' \in [Sids -> Seq(Segments)]
    <3>1. up[s] \in Seq(Segments)
      BY <1>0
    <3>2. SubSeq(up[s], 2, Len(up[s])) \in Seq(Segments)
      BY <3>1
    <3> QED
      BY <1>0, <2>1, <3>2
  <2>3. /\ relay' \in [Sids -> Relays] /\ down' \in [Sids -> Seq(Segments)]
        /\ rx' \in [Sids -> [open : BOOLEAN, exp : Nat]]
    <3>1. CASE ~rx[s].open
      BY <1>0, <1>2, <3>1 DEF Out!ReceiveFin
    <3>2. CASE rx[s].open /\ relay[s].phase = "CLOSED"
      <4>1. /\ rx' = [rx EXCEPT ![s].open = FALSE]
            /\ relay' = [relay EXCEPT ![s] = [relay[s] EXCEPT !.late = TRUE]] /\ down' = down
        BY <1>2, <3>2 DEF Out!ReceiveFin
      <4>2. [relay[s] EXCEPT !.late = TRUE] \in Relays
        BY <1>0, RelayEdits
      <4> QED
        BY <1>0, <4>1, <4>2
    <3>3. CASE rx[s].open /\ relay[s].phase # "CLOSED"
      <4>1. Out!CloseAfter(s, relay[s], <<>>)
        BY <1>2, <3>3 DEF Out!ReceiveFin
      <4> QED
        BY <1>0, <4>1, CloseAfterType, Replies
    <3> QED
      BY <3>1, <3>2, <3>3
  <2> QED
    BY <1>0, <1>2, <2>2, <2>3 DEF Out!ReceiveFin, OutTyped
<1>3. ASSUME NEW s \in Sids, NEW n \in 1..Len(up[s]), Out!ReceiveData(s, n) PROVE OutTyped
  <2>1. PICK b \in Bytes, r \in Relays, q \in Relays, bad \in BOOLEAN : DataStep(s, n, b, r, q, bad)
    BY <1>3, DataFacts
  <2>2. up' \in [Sids -> Seq(Segments)]
    <3>1. up[s] \in Seq(Segments) /\ n \in Nat
      BY <1>0
    <3>2. SubSeq(up[s], n + 1, Len(up[s])) \in Seq(Segments)
      BY <3>1
    <3> QED
      BY <1>0, <2>1, <3>2 DEF DataStep
  <2>3. down' \in [Sids -> Seq(Segments)]
    <3>0. PICK w \in Bytes : down' = [down EXCEPT ![s] = down[s] \o Reply(w, bad)]
      BY <2>1 DEF DataStep
    <3>1. PICK g \in Seq(Segments) : down' = [down EXCEPT ![s] = down[s] \o g]
      BY <3>0, ReplyType
    <3>2. \A a \in Seq(Segments) : a \o g \in Seq(Segments)
      BY ConcatProperties
    <3> QED
      BY <1>0, <3>1, <3>2
  <2>4. \A u, w \in Bytes : u \o w \in Bytes
    BY ConcatProperties DEF Bytes
  <2>5. fed' \in [Sids -> Bytes]
    BY <1>0, <2>1, <2>4 DEF DataStep
  <2>6. taken' \in [Sids -> Bytes]
    <3>1. r.buf \in Bytes /\ taken[s] \o r.buf \in Bytes
      BY <1>0, <2>4 DEF Relays
    <3> QED
      BY <1>0, <2>1, <3>1 DEF DataStep
  <2>7. relay' \in [Sids -> Relays]
    <3>1. [q EXCEPT !.phase = "CLOSED", !.entry = FALSE] \in Relays /\ [r EXCEPT !.buf = <<>>] \in Relays
      BY RelayEdits
    <3> QED
      BY <1>0, <2>1, <3>1 DEF DataStep
  <2>8. rx' \in [Sids -> [open : BOOLEAN, exp : Nat]]
    <3>1. Exp(s) \in Nat /\ n \in Nat
      BY <1>0 DEF Exp
    <3> DEFINE e == IF b = <<>> THEN Exp(s) ELSE Exp(s) + n
    <3>2. e \in Nat
      BY <3>1
    <3>3. rx' = [rx EXCEPT ![s] = [open |-> ~bad, exp |-> e]]
      BY <2>1 DEF DataStep
    <3> HIDE DEF e
    <3> QED
      BY <1>0, <3>2, <3>3
  <2> QED
    BY <1>0, <2>1, <2>2, <2>3, <2>5, <2>6, <2>7, <2>8 DEF OutTyped, DataStep
<1>4. ASSUME NEW s \in Sids, Out!startConnect(s) PROVE OutTyped
  <2>1. /\ relay' \in [Sids -> Relays] /\ down' \in [Sids -> Seq(Segments)]
        /\ rx' \in [Sids -> [open : BOOLEAN, exp : Nat]]
    <3>1. ASSUME relay' = [relay EXCEPT ![s].sock = "connecting", ![s].late = relay[s].phase = "CLOSED"],
                 UNCHANGED <<down, rx>>
          PROVE  relay' \in [Sids -> Relays]
      <4>1. [relay[s] EXCEPT !.sock = "connecting", !.late = relay[s].phase = "CLOSED"] \in Relays
        BY <1>0, RelayEdits
      <4> QED
        BY <1>0, <3>1, <4>1
    <3> QED
      BY <1>0, <1>4, <3>1, CloseAfterType, Replies DEF Out!startConnect
  <2> QED
    BY <1>0, <1>4, <2>1 DEF Out!startConnect, OutTyped
<1>5. ASSUME NEW s \in Sids, Out!onRemoteOpen(s) PROVE OutTyped
  <2>1. Out!Data(<<"ok">>) \in Seq(Segments)
    BY DataSegs, Replies
  <2>2. down' \in [Sids -> Seq(Segments)]
    BY <1>5, <2>1, SendsType DEF Out!onRemoteOpen
  <2>3. [relay[s] EXCEPT !.sock = "open"] \in Relays
    BY <1>0, RelayEdits
  <2>4. relay' \in [Sids -> Relays]
    BY <1>0, <1>5, <2>3 DEF Out!onRemoteOpen
  <2> QED
    BY <1>0, <1>5, <2>2, <2>4 DEF Out!onRemoteOpen, OutTyped
<1>6. ASSUME NEW s \in Sids, Out!startRelaying(s) PROVE OutTyped
  <2>1. [relay[s] EXCEPT !.phase = "RELAYING", !.buf = <<>>] \in Relays
    BY <1>0, RelayEdits
  <2>2. relay' \in [Sids -> Relays]
    BY <1>0, <1>6, <2>1 DEF Out!startRelaying
  <2>3. \A u, w \in Bytes : u \o w \in Bytes
    BY ConcatProperties DEF Bytes
  <2>4. taken[s] \o relay[s].buf \in Bytes
    BY <1>0, <2>3 DEF Relays
  <2>5. taken' \in [Sids -> Bytes]
    BY <1>0, <1>6, <2>4 DEF Out!startRelaying
  <2> QED
    BY <1>0, <1>6, <2>2, <2>5 DEF Out!startRelaying, OutTyped
<1>7. ASSUME NEW s \in Sids, Out!onRemoteBytes(s) PROVE OutTyped
  <2>1. ahead[s] \in Seq(Tokens) /\ ahead[s] # <<>>
    BY <1>0, <1>7 DEF Out!onRemoteBytes, Bytes
  <2>2. Head(ahead[s]) \in Tokens /\ Tail(ahead[s]) \in Bytes
    BY <2>1 DEF Bytes
  <2>3. <<Head(ahead[s])>> \in Bytes
    BY <2>2 DEF Bytes
  <2>4. Out!Data(<<Head(ahead[s])>>) \in Seq(Segments)
    BY <2>3, DataSegs
  <2>5. down' \in [Sids -> Seq(Segments)]
    BY <1>7, <2>4, SendsType DEF Out!onRemoteBytes
  <2>6. ahead' \in [Sids -> Bytes]
    BY <1>0, <1>7, <2>2 DEF Out!onRemoteBytes
  <2> QED
    BY <1>0, <1>7, <2>5, <2>6 DEF Out!onRemoteBytes, OutTyped
<1>8. ASSUME NEW s \in Sids, Out!onRemoteClose(s) PROVE OutTyped
  <2>1. [relay[s] EXCEPT !.sock = "none"] \in Relays
    BY <1>0, RelayEdits
  <2>2. /\ relay' \in [Sids -> Relays] /\ down' \in [Sids -> Seq(Segments)]
        /\ rx' \in [Sids -> [open : BOOLEAN, exp : Nat]]
    BY <1>8, <2>1, CloseAfterType, Replies DEF Out!onRemoteClose
  <2> QED
    BY <1>0, <1>8, <2>2 DEF Out!onRemoteClose, OutTyped
<1>9. ASSUME Out!stop PROVE OutTyped
  <2>1. relay' \in [Sids -> Relays]
    <3>1. ASSUME NEW s \in Sids PROVE [relay[s] EXCEPT !.entry = FALSE, !.doomed = "todo"] \in Relays
      BY <1>0, RelayEdits
    <3> QED
      BY <1>0, <1>9, <3>1 DEF Out!stop
  <2> QED
    BY <1>0, <1>9, <2>1 DEF Out!stop, OutTyped
<1>10. ASSUME NEW s \in Sids, Out!StopRelay(s) PROVE OutTyped
  <2>1. /\ [relay[s] EXCEPT !.doomed = "no"] \in Relays
        /\ [relay[s] EXCEPT !.phase = "CLOSED", !.sock = "none", !.doomed = "half"] \in Relays
    BY <1>0, RelayEdits
  <2>2. relay' \in [Sids -> Relays]
    BY <1>0, <1>10, <2>1 DEF Out!StopRelay
  <2> QED
    BY <1>0, <1>10, <2>2 DEF Out!StopRelay, OutTyped
<1>11. ASSUME NEW s \in Sids, Out!StopRelaySession(s) PROVE OutTyped
  <2>1. [relay[s] EXCEPT !.doomed = "no", !.entry = FALSE] \in Relays
    BY <1>0, RelayEdits
  <2>2. relay' \in [Sids -> Relays]
    BY <1>0, <1>11, <2>1 DEF Out!StopRelaySession
  <2>3. down' \in [Sids -> Seq(Segments)]
    BY <1>11, SendsType, DataSegs, NoBytes DEF Out!StopRelaySession
  <2>4. rx' \in [Sids -> [open : BOOLEAN, exp : Nat]]
    BY <1>0, <1>11 DEF Out!StopRelaySession
  <2> QED
    BY <1>0, <1>11, <2>2, <2>3, <2>4 DEF Out!StopRelaySession, OutTyped
<1>12. OutTyped
  BY <1>1, <1>2, <1>3, <1>4, <1>5, <1>6, <1>7, <1>8, <1>9, <1>10, <1>11
     DEF Outport, Out!OutNext, Out!Progress
<1> QED
  BY <1>0, <1>12 DEF Typed, OutTyped

LEMMA TypeStep == ASSUME Typed, [Next]_vars PROVE Typed'
<1>1. CASE UNCHANGED vars
  BY <1>1 DEF vars, inSide, outSide, Typed
<1> QED
  BY <1>1, InType, OutType DEF Next

-----------------------------------------------------------------------------
(* The invariant of one session.                                            *)

(* Where the bytes are that relay r of session s was given: f in all, t of  *)
(* them at the target; x is the stream's entry, b what the reactor is at.   *)
Track(s, r, x, f, t, b) ==
    /\ r.entry => x.open /\ r.phase # "CLOSED" /\ r.doomed = "no"
    /\ r.doomed = "half" => r.phase \in {"CLOSED", "RELAYING"}
    /\ r.phase \in {"METHODS", "REQUEST", "CONNECTING"} => x.open
    /\ x.open /\ f = <<>> => x.exp = 0
    /\ r.phase = "METHODS" => r.sock = "none" /\ f = r.buf /\ (f # <<>> => t = <<>>)
    /\ r.phase = "REQUEST" => r.sock = "none" /\ f = Hi \o r.buf /\ t = <<>>
    /\ r.phase = "CONNECTING" => f = Handshake \o r.buf /\ t = <<>>
    /\ r.sock # "none" /\ ~r.late =>
          \/ r.phase = "CONNECTING"
          \/ r.phase = "RELAYING" /\ r.sock = "open" /\ r.buf = <<>> /\ f = Handshake \o t
    /\ r.sock # "none" \/ r.phase \in {"REQUEST", "CONNECTING", "RELAYING"} => f # <<>>
    /\ b = <<s, "dial">> => f # <<>> /\ r.phase \in {"CONNECTING", "CLOSED"}
    /\ b = <<s, "open">> => /\ f # <<>> /\ r.sock \in {"none", "open"}
                            /\ r.sock # "none" /\ ~r.late => r.phase = "CONNECTING"

(* The way up, u: the SYN before anything was heard, then data in the order *)
(* of their numbers, below n.  Once something was taken in, number 0 is     *)
(* gone for good, so a relay that comes to life later is given nothing.     *)
Flow(u, x, f, t, n) ==
    /\ \A i \in 1..Len(u) : u[i].kind = "SYN" => i = 1 /\ f = <<>> /\ t = <<>> /\ ~x.open
    /\ \A i \in 1..Len(u) : u[i].kind = "DATA" => u[i].seq < n
    /\ \A i, j \in 1..Len(u) : i < j /\ u[i].kind = "DATA" /\ u[j].kind = "DATA" =>
          u[i].seq < u[j].seq
    /\ f # <<>> \/ t # <<>> =>
          n > 0 /\ \A i \in 1..Len(u) : u[i].kind = "DATA" => u[i].seq > 0

(* Before its SYN is sent nothing is known of a session anywhere. *)
Early(s) ==
    /\ s >= next_id => ~sess[s].tcp
    /\ half = s => s < next_id
    /\ s >= next_id \/ half = s =>
          /\ up[s] = <<>> /\ down[s] = <<>> /\ fed[s] = <<>> /\ taken[s] = <<>>
          /\ ~rx[s].open /\ sess[s].seq = 0 /\ sess[s].stream = "none"

StreamInv ==
    \A s \in Sids :
        /\ Track(s, relay[s], rx[s], fed[s], taken[s], busy)
        /\ Flow(up[s], rx[s], fed[s], taken[s], sess[s].seq)
        /\ Early(s)

LEMMA BytesJoin ==
    ASSUME NEW u \in Bytes, NEW v \in Bytes, NEW w \in Bytes
    PROVE  (u \o v) \o w = u \o (v \o w)
<1>1. u \in Seq(Tokens) /\ v \in Seq(Tokens) /\ w \in Seq(Tokens)
  BY DEF Bytes
<1> QED
  BY <1>1, ConcatAssociative, SMTT(30)

(* The handshake is the greeting and the request. *)
LEMMA HandshakeParts ==
    ASSUME NEW w \in Bytes
    PROVE  Hi \o (Req \o w) = Handshake \o w /\ Handshake \o w # <<>> /\ Hi \o w # <<>>
<1>1. /\ Hi \in Seq(Tokens) /\ Req \in Seq(Tokens) /\ Handshake \in Seq(Tokens)
      /\ Len(Hi) = 2 /\ Len(Req) = 2 /\ Len(Handshake) = 4
  BY DEF Hi, Req, Handshake, Tokens
<1>2. Hi \o Req = Handshake
  <2> DEFINE d == Hi \o Req
  <2>0. /\ d \in Seq(Tokens) /\ Len(d) = Len(Hi) + Len(Req)
        /\ \A i \in 1..Len(Hi) : d[i] = Hi[i]
        /\ \A i \in 1..Len(Req) : d[Len(Hi) + i] = Req[i]
    BY <1>1, JoinParts, Zenon
  <2>1. d \in Seq(Tokens) /\ Len(d) = 4
    <3> HIDE DEF d
    <3> QED
      BY <1>1, <2>0
  <2>2. d[1] = Hi[1] /\ d[2] = Hi[2] /\ d[3] = Req[1] /\ d[4] = Req[2]
    <3>1. /\ \A i \in 1..2 : d[i] = Hi[i]
          /\ \A i \in 1..2 : d[2 + i] = Req[i]
      <4> HIDE DEF d
      <4> QED
        BY <1>1, <2>0
    <3> HIDE DEF d
    <3> QED
      BY <3>1
  <2> HIDE DEF d
  <2>3. d[1] = Handshake[1] /\ d[2] = Handshake[2] /\ d[3] = Handshake[3] /\ d[4] = Handshake[4]
    BY <2>2 DEF Hi, Req, Handshake
  <2>4. \A i \in 1..Len(d) : d[i] = Handshake[i]
    BY <2>1, <2>3
  <2>5. d = Handshake
    BY <1>1, <2>1, <2>4, SeqEqual
  <2> QED
    BY <2>5 DEF d
<1>3. w \in Seq(Tokens)
  BY DEF Bytes
<1>4. (Hi \o Req) \o w = Hi \o (Req \o w)
  <2>1. Hi \in Bytes /\ Req \in Bytes
    BY <1>1 DEF Bytes
  <2> QED
    BY <2>1, BytesJoin, Zenon
<1>5. Len(Handshake \o w) = 4 + Len(w) /\ Len(Hi \o w) = 2 + Len(w) /\ Len(w) \in Nat
  <2>1. Len(w) \in Nat
    BY <1>3
  <2>2. Len(Handshake \o w) = Len(Handshake) + Len(w) /\ Len(Hi \o w) = Len(Hi) + Len(w)
    BY <1>1, <1>3, JoinParts
  <2> QED
    BY <1>1, <2>1, <2>2
<1> QED
  BY <1>2, <1>4, <1>5

LEMMA InitStream == Init => StreamInv
<1> SUFFICES ASSUME Init, NEW s \in Sids
             PROVE  /\ Track(s, relay[s], rx[s], fed[s], taken[s], busy)
                    /\ Flow(up[s], rx[s], fed[s], taken[s], sess[s].seq)
                    /\ Early(s)
  BY DEF StreamInv
<1>1. /\ up[s] = <<>> /\ down[s] = <<>> /\ fed[s] = <<>> /\ taken[s] = <<>> /\ busy = <<>>
      /\ rx[s] = [open |-> FALSE, exp |-> 0] /\ next_id = 1 /\ half = 0
      /\ relay[s].phase = "CLOSED" /\ ~relay[s].entry /\ relay[s].sock = "none" /\ relay[s].doomed = "no"
  BY DEF Init, In!InInit, Out!OutInit, Out!NewRelay
<1>2. sess[s].seq = 0 /\ sess[s].stream = "none" /\ ~sess[s].tcp
  BY DEF Init, In!InInit, In!NoClient
<1>3. Track(s, relay[s], rx[s], fed[s], taken[s], busy)
  BY <1>1 DEF Track
<1>4. Flow(up[s], rx[s], fed[s], taken[s], sess[s].seq)
  BY <1>1 DEF Flow
<1>5. Early(s)
  BY <1>1, <1>2, SidsAssumption DEF Early
<1> QED
  BY <1>3, <1>4, <1>5

-----------------------------------------------------------------------------
(* A step of the Inport.                                                    *)

(* What it may do to the way up of session s. *)
Offered(s) ==
    \/ up'[s] = up[s] /\ sess'[s].seq = sess[s].seq
    \/ up'[s] = Append(up[s], In!Seg("FIN", sess[s].seq, <<>>)) /\ sess'[s].seq = sess[s].seq
    \/ up'[s] = Append(up[s], In!Seg("SYN", 0, <<>>)) /\ sess'[s].seq = sess[s].seq /\ half = s
    \/ /\ \E w \in Bytes : up'[s] = Append(up[s], In!Seg("DATA", sess[s].seq, w))
       /\ sess'[s].seq = sess[s].seq + 1

LEMMA InClose ==
    ASSUME Typed, NEW s \in Sids, Early(s), In!close(s), half' = half, next_id' = next_id,
           down' = down \/ (s < next_id /\ half # s),
           UNCHANGED <<rx, fed, taken>>
    PROVE  Offered(s) /\ Early(s)'
<1>0. s \in Nat /\ next_id \in Nat /\ (s >= next_id \/ half = s => down' = down)
  BY SidsAssumption DEF Typed
<1>1. CASE sess[s].closed
  <2>1. sess' = sess /\ up' = up
    BY <1>1 DEF In!close
  <2> QED
    BY <1>0, <2>1 DEF Offered, Early
<1>2. CASE ~sess[s].closed
  <2>1. sess' = [sess EXCEPT ![s] = [sess[s] EXCEPT !.closed = TRUE, !.tcp = FALSE,
                                   !.entry = FALSE, !.doomed = FALSE, !.stream = "none"]]
    BY <1>2 DEF In!close
  <2>2. sess'[s].seq = sess[s].seq /\ ~sess'[s].tcp /\ sess'[s].stream = "none"
    BY <2>1 DEF Typed, Clients
  <2>3. \/ sess[s].stream = "none" /\ up' = up
        \/ sess[s].stream # "none" /\ up' = [up EXCEPT ![s] = Append(up[s], In!Seg("FIN", sess[s].seq, <<>>))]
    BY <1>2 DEF In!close
  <2>4. Offered(s)
    BY <2>2, <2>3 DEF Offered, Typed
  <2>5. Early(s)'
    BY <1>0, <2>2, <2>3 DEF Early
  <2> QED
    BY <2>4, <2>5
<1> QED
  BY <1>1, <1>2

(* What leaves session s alone. *)
Untouched(s) ==
    /\ up'[s] = up[s] /\ down'[s] = down[s] /\ relay'[s] = relay[s] /\ rx'[s] = rx[s]
    /\ fed'[s] = fed[s] /\ taken'[s] = taken[s] /\ sess'[s] = sess[s]

LEMMA InUntouched ==
    ASSUME NEW s \in Sids, Early(s), Untouched(s), half' \in {half, 0}, next_id' = next_id
    PROVE  Offered(s) /\ Early(s)'
<1>1. s # 0
  BY SidsAssumption
<1> QED
  BY <1>1 DEF Early, Untouched, Offered

LEMMA InSession ==
    ASSUME Typed, Inport, NEW s \in Sids, Early(s)
    PROVE  Offered(s) /\ Early(s)'
<1>0. /\ UNCHANGED <<relay, rx, taken, fed>>
      /\ up \in [Sids -> Seq(Segments)] /\ down \in [Sids -> Seq(Segments)]
      /\ sess \in [Sids -> Clients] /\ todo \in [Sids -> Bytes]
      /\ next_id \in Nat /\ half \in Sids \cup {0} /\ s \in Nat /\ s # 0
  BY SidsAssumption DEF Inport, outSide, Typed
<1> DEFINE Goal == Offered(s) /\ Early(s)'
<1>1. ASSUME In!Accept PROVE Goal
  <2>1. /\ sess' = [sess EXCEPT ![next_id] = [sess[next_id] EXCEPT !.tcp = TRUE, !.entry = TRUE]]
        /\ next_id \in Sids /\ half = 0 /\ half' = next_id /\ next_id' = next_id + 1
        /\ up' = up /\ down' = down
    BY <1>1 DEF In!Accept, In!Free
  <2>2. sess'[s].seq = sess[s].seq /\ sess'[s].stream = sess[s].stream
        /\ (s # next_id => sess'[s].tcp = sess[s].tcp)
    BY <1>0, <2>1 DEF Clients
  <2>3. Early(s)'
    <3>1. s >= next_id + 1 => s >= next_id /\ s # next_id
      BY <1>0
    <3>2. next_id = s => s >= next_id /\ s < next_id + 1
      BY <1>0
    <3> QED
      BY <1>0, <2>1, <2>2, <3>1, <3>2 DEF Early
  <2> QED
    BY <2>1, <2>2, <2>3 DEF Offered
<1>2. ASSUME In!OpenSession PROVE Goal
  <2>1. half \in Sids
    BY <1>0, <1>2 DEF In!OpenSession
  <2>2. /\ up' = [up EXCEPT ![half] = Append(up[half], In!Seg("SYN", 0, <<>>))]
        /\ sess' = [sess EXCEPT ![half] = [sess[half] EXCEPT !.stream = "open", !.late = sess[half].closed]]
        /\ half' = 0 /\ next_id' = next_id /\ down' = down
    BY <1>2 DEF In!OpenSession
  <2>3. CASE half = s
    <3>1. sess'[s].seq = sess[s].seq
      BY <1>0, <2>1, <2>2, <2>3 DEF Clients
    <3>2. up'[s] = Append(up[s], In!Seg("SYN", 0, <<>>))
      BY <1>0, <2>2, <2>3
    <3>3. ~(s >= next_id)
      BY <1>0, <2>3 DEF Early
    <3>4. Early(s)'
      BY <1>0, <2>2, <3>3 DEF Early
    <3> QED
      BY <2>3, <3>1, <3>2, <3>4 DEF Offered
  <2>4. CASE half # s
    <3>1. Untouched(s)
      BY <1>0, <2>1, <2>2, <2>4 DEF Untouched
    <3> QED
      BY <2>2, <3>1, InUntouched
  <2> QED
    BY <2>3, <2>4
<1>3. ASSUME NEW c \in Sids, In!onClientBytes(c) PROVE Goal
  <2>1. /\ up' = [up EXCEPT ![c] = Append(up[c], In!Seg("DATA", sess[c].seq, <<Head(todo[c])>>))]
        /\ sess' = [sess EXCEPT ![c] = [sess[c] EXCEPT !.seq = sess[c].seq + 1]]
        /\ half = 0 /\ sess[c].tcp /\ todo[c] # <<>>
        /\ half' = half /\ next_id' = next_id /\ down' = down
    BY <1>3 DEF In!onClientBytes, In!Free
  <2>2. CASE c = s
    <3>1. ~(s >= next_id)
      BY <2>1, <2>2 DEF Early
    <3>2. <<Head(todo[s])>> \in Bytes
      BY <1>0, <2>1, <2>2 DEF Bytes
    <3>3. sess'[s].seq = sess[s].seq + 1
      BY <1>0, <2>1, <2>2 DEF Clients
    <3>4. up'[s] = Append(up[s], In!Seg("DATA", sess[s].seq, <<Head(todo[s])>>))
      BY <1>0, <2>1, <2>2
    <3>5. Early(s)'
      BY <1>0, <2>1, <3>1 DEF Early
    <3> QED
      BY <3>2, <3>3, <3>4, <3>5 DEF Offered
  <2>3. CASE c # s
    <3>1. Untouched(s)
      BY <1>0, <2>1, <2>3 DEF Untouched
    <3> QED
      BY <2>1, <3>1, InUntouched
  <2> QED
    BY <2>2, <2>3
<1>4. ASSUME NEW c \in Sids, In!onClientClose(c) \/ In!StopSession(c) PROVE Goal
  <2>1. In!close(c) /\ half' = half /\ next_id' = next_id /\ down' = down
    BY <1>4 DEF In!onClientClose, In!StopSession
  <2>2. CASE c = s
    BY <1>0, <2>1, <2>2, InClose
  <2>3. CASE c # s
    <3>1. up'[s] = up[s] /\ sess'[s] = sess[s]
      BY <1>0, <2>1, <2>3 DEF In!close
    <3>2. Untouched(s)
      BY <1>0, <2>1, <3>1 DEF Untouched
    <3> QED
      BY <2>1, <3>2, InUntouched
  <2> QED
    BY <2>2, <2>3
<1>5. ASSUME NEW c \in Sids, In!onSessionData(c) PROVE Goal
  <2>1. /\ down' = [down EXCEPT ![c] = Tail(down[c])] /\ down[c] # <<>>
        /\ half' = half /\ next_id' = next_id /\ up' = up
        /\ sess' = [sess EXCEPT ![c] = [sess[c] EXCEPT !.stream = IF sess[c].stream = "none" THEN "orphan" ELSE sess[c].stream]]
    BY <1>5 DEF In!onSessionData
  <2>2. CASE c = s
    <3>1. ~(s >= next_id) /\ half # s
      BY <2>1, <2>2 DEF Early
    <3>2. sess'[s].seq = sess[s].seq
      BY <1>0, <2>1, <2>2 DEF Clients
    <3>3. Early(s)'
      BY <1>0, <2>1, <3>1 DEF Early
    <3> QED
      BY <2>1, <3>2, <3>3 DEF Offered
  <2>3. CASE c # s
    <3>1. Untouched(s)
      BY <1>0, <2>1, <2>3 DEF Untouched
    <3> QED
      BY <2>1, <3>1, InUntouched
  <2> QED
    BY <2>2, <2>3
<1>6. ASSUME NEW c \in Sids, In!onSessionClose(c) PROVE Goal
  <2>1. /\ down' = [down EXCEPT ![c] = Tail(down[c])] /\ down[c] # <<>>
        /\ half' = half /\ next_id' = next_id
        /\ \/ In!close(c)
           \/ sess' = [sess EXCEPT ![c] = [sess[c] EXCEPT !.stream = "none"]] /\ up' = up
    BY <1>6 DEF In!onSessionClose
  <2>2. CASE c = s
    <3>1. ~(s >= next_id) /\ half # s
      BY <2>1, <2>2 DEF Early
    <3>2. s < next_id
      BY <1>0, <3>1
    <3>3. CASE In!close(s)
      BY <1>0, <2>1, <3>1, <3>2, <3>3, InClose
    <3>4. CASE sess' = [sess EXCEPT ![s] = [sess[s] EXCEPT !.stream = "none"]] /\ up' = up
      <4>1. sess'[s].seq = sess[s].seq
        BY <1>0, <3>4 DEF Clients
      <4>2. Early(s)'
        BY <1>0, <2>1, <3>1 DEF Early
      <4> QED
        BY <3>4, <4>1, <4>2 DEF Offered
    <3> QED
      BY <2>1, <2>2, <3>3, <3>4
  <2>3. CASE c # s
    <3>1. up'[s] = up[s] /\ sess'[s] = sess[s]
      BY <1>0, <2>1, <2>3 DEF In!close
    <3>2. Untouched(s)
      BY <1>0, <2>1, <2>3, <3>1 DEF Untouched
    <3> QED
      BY <2>1, <3>2, InUntouched
  <2> QED
    BY <2>2, <2>3
<1>7. ASSUME In!stop PROVE Goal
  <2>1. /\ sess'[s] = [sess[s] EXCEPT !.doomed = sess[s].doomed \/ sess[s].entry, !.entry = FALSE]
        /\ UNCHANGED <<up, down, next_id, half>>
    BY <1>7 DEF In!stop
  <2>2. sess'[s].seq = sess[s].seq /\ sess'[s].stream = sess[s].stream /\ sess'[s].tcp = sess[s].tcp
    BY <1>0, <2>1 DEF Clients
  <2> QED
    BY <1>0, <2>1, <2>2 DEF Offered, Early
<1>8. ASSUME In!StopAccepting PROVE Goal
  BY <1>0, <1>8 DEF In!StopAccepting, Offered, Early
<1> QED
  BY <1>1, <1>2, <1>3, <1>4, <1>5, <1>6, <1>7, <1>8 DEF Inport, In!InNext, In!Progress

(* The way up stays in order. *)
LEMMA InFlow ==
    ASSUME Typed, NEW s \in Sids, Offered(s), Early(s),
           Flow(up[s], rx[s], fed[s], taken[s], sess[s].seq)
    PROVE  Flow(up'[s], rx[s], fed[s], taken[s], sess'[s].seq)
<1> DEFINE u == up[s]
           m == sess[s].seq
<1>0. u \in Seq(Segments) /\ m \in Nat /\ Len(u) \in Nat
  BY DEF Typed, Clients
<1>1. ASSUME NEW g PROVE /\ Len(Append(u, g)) = Len(u) + 1 /\ Append(u, g)[Len(u) + 1] = g
                         /\ \A i \in 1..Len(u) : Append(u, g)[i] = u[i]
  BY <1>0
<1>2. CASE up'[s] = up[s] /\ sess'[s].seq = sess[s].seq
  BY <1>2
<1>3. CASE up'[s] = Append(up[s], In!Seg("FIN", sess[s].seq, <<>>)) /\ sess'[s].seq = sess[s].seq
  <2> DEFINE g == In!Seg("FIN", m, <<>>)
             v == Append(u, g)
  <2>1. g.kind = "FIN"
    BY DEF In!Seg
  <2>2. Len(v) = Len(u) + 1 /\ v[Len(u) + 1] = g /\ \A i \in 1..Len(u) : v[i] = u[i]
    BY <1>1
  <2> HIDE DEF v, g
  <2>3. Flow(v, rx[s], fed[s], taken[s], m)
    <3> HIDE DEF u, m
    <3>1. Flow(u, rx[s], fed[s], taken[s], m)
      BY DEF u, m
    <3>2. \A i \in 1..Len(v) : v[i].kind \in {"SYN", "DATA"} => i \in 1..Len(u)
      BY <1>0, <2>1, <2>2
    <3> QED
      BY <1>0, <2>2, <3>1, <3>2 DEF Flow
  <2> QED
    BY <1>3, <2>3 DEF v, g
<1>4. CASE up'[s] = Append(up[s], In!Seg("SYN", 0, <<>>)) /\ sess'[s].seq = sess[s].seq /\ half = s
  <2>1. u = <<>> /\ fed[s] = <<>> /\ taken[s] = <<>> /\ ~rx[s].open
    BY <1>4 DEF Early
  <2>2. up'[s] = <<In!Seg("SYN", 0, <<>>)>>
    BY <1>4, <2>1
  <2>3. Len(up'[s]) = 1 /\ up'[s][1].kind = "SYN"
    BY <2>2 DEF In!Seg
  <2> QED
    BY <2>1, <2>3 DEF Flow
<1>5. ASSUME NEW w \in Bytes, up'[s] = Append(up[s], In!Seg("DATA", sess[s].seq, w)),
             sess'[s].seq = sess[s].seq + 1
      PROVE  Flow(up'[s], rx[s], fed[s], taken[s], sess'[s].seq)
  <2> DEFINE g == In!Seg("DATA", m, w)
             v == Append(u, g)
  <2>1. g.kind = "DATA" /\ g.seq = m
    BY DEF In!Seg
  <2>2. Len(v) = Len(u) + 1 /\ v[Len(u) + 1] = g /\ \A i \in 1..Len(u) : v[i] = u[i]
    BY <1>1
  <2>a. \A i \in 1..Len(u) : u[i].seq \in Nat
    BY <1>0 DEF Segments
  <2> HIDE DEF v, g
  <2>3. Flow(v, rx[s], fed[s], taken[s], m + 1)
    <3> HIDE DEF u, m
    <3>1. Flow(u, rx[s], fed[s], taken[s], m)
      BY DEF u, m
    <3>2. \A i \in 1..Len(v) : i \in 1..Len(u) \/ i = Len(u) + 1
      BY <1>0, <2>2
    <3>3. \A i \in 1..Len(v) : v[i].kind = "SYN" => i = 1 /\ fed[s] = <<>> /\ taken[s] = <<>> /\ ~rx[s].open
      BY <1>0, <2>1, <2>2, <3>1, <3>2 DEF Flow
    <3>4. \A i \in 1..Len(v) : v[i].kind = "DATA" => v[i].seq < m + 1
      BY <1>0, <2>a, <2>1, <2>2, <3>1, <3>2 DEF Flow
    <3>5. \A i, j \in 1..Len(v) : i < j /\ v[i].kind = "DATA" /\ v[j].kind = "DATA" => v[i].seq < v[j].seq
      <4> TAKE i, j \in 1..Len(v)
      <4> HAVE i < j /\ v[i].kind = "DATA" /\ v[j].kind = "DATA"
      <4>1. i \in 1..Len(u)
        BY <1>0, <2>2
      <4>2. v[i] = u[i] /\ u[i].seq < m
        BY <2>2, <3>1, <4>1 DEF Flow
      <4>3. CASE j \in 1..Len(u)
        BY <2>2, <3>1, <4>1, <4>3 DEF Flow
      <4>4. CASE j = Len(u) + 1
        BY <2>1, <2>2, <4>2, <4>4
      <4> QED
        BY <3>2, <4>3, <4>4
    <3>6. fed[s] # <<>> \/ taken[s] # <<>> =>
             m + 1 > 0 /\ \A i \in 1..Len(v) : v[i].kind = "DATA" => v[i].seq > 0
      BY <1>0, <2>a, <2>1, <2>2, <3>1, <3>2 DEF Flow
    <3> QED
      BY <3>3, <3>4, <3>5, <3>6 DEF Flow
  <2> QED
    BY <1>5, <2>3 DEF v, g
<1> QED
  BY <1>2, <1>3, <1>4, <1>5 DEF Offered
-----------------------------------------------------------------------------
(* A step of the Outport.                                                   *)

(* The invariant holds of session s after the step. *)
Kept(s) ==
    /\ Track(s, relay'[s], rx'[s], fed'[s], taken'[s], busy')
    /\ Flow(up'[s], rx'[s], fed'[s], taken'[s], sess'[s].seq)
    /\ Early(s)'

(* Segments are taken from the front of the way up. *)
LEMMA FlowTail ==
    ASSUME NEW u \in Seq(Segments), NEW n \in 1..Len(u), NEW m \in Nat, NEW x, NEW f, NEW t,
           NEW y, NEW g, NEW h, Flow(u, x, f, t, m),
           g # <<>> \/ h # <<>> => f # <<>> \/ t # <<>> \/ u[1].kind = "DATA"
    PROVE  Flow(SubSeq(u, n + 1, Len(u)), y, g, h, m)
<1> DEFINE v == SubSeq(u, n + 1, Len(u))
<1>1. n \in Nat /\ n >= 1 /\ Len(u) \in Nat /\ n <= Len(u)
  OBVIOUS
<1>2. Len(v) = Len(u) - n /\ \A i \in 1..Len(v) : v[i] = u[n + i]
  BY <1>1
<1>3. \A i \in 1..Len(v) : n + i \in 1..Len(u) /\ n + i # 1 /\ 1 < n + i
  BY <1>1, <1>2
<1>a. \A i \in 1..Len(u) : u[i].seq \in Nat
  BY DEF Segments
<1>b. 1 \in 1..Len(u)
  BY <1>1
<1> HIDE DEF v
<1>4. \A i \in 1..Len(v) : v[i].kind # "SYN"
  BY <1>2, <1>3 DEF Flow
<1>5. \A i \in 1..Len(v) : v[i].kind = "DATA" => v[i].seq < m
  BY <1>2, <1>3 DEF Flow
<1>6. \A i, j \in 1..Len(v) : i < j /\ v[i].kind = "DATA" /\ v[j].kind = "DATA" => v[i].seq < v[j].seq
  <2> TAKE i, j \in 1..Len(v)
  <2> HAVE i < j /\ v[i].kind = "DATA" /\ v[j].kind = "DATA"
  <2>1. n + i < n + j /\ n + i \in 1..Len(u) /\ n + j \in 1..Len(u)
    BY <1>1, <1>2, <1>3
  <2> QED
    BY <1>2, <2>1 DEF Flow
<1>7. g # <<>> \/ h # <<>> => m > 0 /\ \A i \in 1..Len(v) : v[i].kind = "DATA" => v[i].seq > 0
  <2> SUFFICES ASSUME g # <<>> \/ h # <<>>
               PROVE  m > 0 /\ \A i \in 1..Len(v) : v[i].kind = "DATA" => v[i].seq > 0
    OBVIOUS
  <2>1. CASE f # <<>> \/ t # <<>>
    BY <1>2, <1>3, <2>1 DEF Flow
  <2>2. CASE u[1].kind = "DATA"
    <3>1. u[1].seq \in Nat /\ u[1].seq < m
      BY <1>a, <1>b, <2>2 DEF Flow
    <3>2. ASSUME NEW i \in 1..Len(v), v[i].kind = "DATA" PROVE v[i].seq > 0
      <4>1. n + i \in 1..Len(u) /\ 1 < n + i /\ u[n + i].kind = "DATA" /\ v[i] = u[n + i]
        BY <1>2, <1>3, <3>2
      <4>2. u[1].seq < u[n + i].seq /\ u[n + i].seq \in Nat
        BY <1>a, <1>b, <2>2, <4>1 DEF Flow
      <4> QED
        BY <3>1, <4>1, <4>2
    <3> QED
      BY <3>1, <3>2
  <2> QED
    BY <2>1, <2>2
<1>8. Flow(v, y, g, h, m)
  BY <1>4, <1>5, <1>6, <1>7 DEF Flow
<1> QED
  BY <1>8 DEF v

LEMMA FlowKept ==
    ASSUME NEW u, NEW m, NEW x, NEW f, NEW t, NEW y, NEW h, Flow(u, x, f, t, m),
           y.open => x.open, h # <<>> => f # <<>> \/ t # <<>>
    PROVE  Flow(u, y, f, h, m)
BY DEF Flow

(* A session that has not begun takes no part. *)
LEMMA OutEarly ==
    ASSUME NEW s \in Sids, Early(s), UNCHANGED inSide,
           s >= next_id \/ half = s =>
              /\ up'[s] = up[s] /\ down'[s] = down[s] /\ fed'[s] = fed[s] /\ taken'[s] = taken[s]
              /\ rx'[s].open => rx[s].open
    PROVE  Early(s)'
BY DEF Early, inSide

(* The steps on session c leave the others alone. *)
Local(c) ==
    /\ \A s \in Sids \ {c} : /\ up'[s] = up[s] /\ down'[s] = down[s] /\ relay'[s] = relay[s]
                            /\ rx'[s] = rx[s] /\ fed'[s] = fed[s] /\ taken'[s] = taken[s]
    /\ busy' \in {busy, <<>>, <<c, "dial">>, <<c, "open">>}

StepAt(c) ==
    \/ Out!ReceiveSyn(c) \/ Out!ReceiveFin(c)
    \/ \E n \in 1..Len(up[c]) : Out!ReceiveData(c, n)
    \/ Out!startConnect(c) \/ Out!onRemoteOpen(c) \/ Out!startRelaying(c)
    \/ Out!StopRelay(c) \/ Out!StopRelaySession(c)
    \/ Out!onRemoteBytes(c) \/ Out!onRemoteClose(c)

LEMMA StepIsLocal == ASSUME Typed, NEW c \in Sids, StepAt(c) PROVE Local(c)
<1>0. /\ up \in [Sids -> Seq(Segments)] /\ down \in [Sids -> Seq(Segments)]
      /\ relay \in [Sids -> Relays]
      /\ rx \in [Sids -> [open : BOOLEAN, exp : Nat]]
      /\ taken \in [Sids -> Bytes] /\ fed \in [Sids -> Bytes]
  BY DEF Typed
<1>1. ASSUME NEW r, NEW w, Out!CloseAfter(c, r, w)
      PROVE  \A s \in Sids \ {c} : down'[s] = down[s] /\ relay'[s] = relay[s] /\ rx'[s] = rx[s]
  BY <1>0, <1>1 DEF Out!CloseAfter, Out!Sends
<1>2. CASE Out!ReceiveSyn(c)
  BY <1>0, <1>2 DEF Out!ReceiveSyn, Out!Consume, Local
<1>3. CASE Out!ReceiveFin(c)
  <2>1. /\ \A s \in Sids \ {c} : down'[s] = down[s] /\ relay'[s] = relay[s] /\ rx'[s] = rx[s]
        /\ up' = [up EXCEPT ![c] = SubSeq(up[c], 2, Len(up[c]))]
        /\ UNCHANGED <<busy, taken, fed>>
    BY <1>0, <1>1, <1>3 DEF Out!ReceiveFin, Out!Consume
  <2> QED
    BY <1>0, <2>1 DEF Local
<1>4. CASE \E n \in 1..Len(up[c]) : Out!ReceiveData(c, n)
  <2>1. PICK n \in 1..Len(up[c]) : Out!ReceiveData(c, n)
    BY <1>4
  <2>2. PICK b \in Bytes, r \in Relays, q \in Relays, bad \in BOOLEAN : DataStep(c, n, b, r, q, bad)
    BY <2>1, DataFacts
  <2> QED
    BY <1>0, <2>2 DEF DataStep, Local
<1>5. CASE Out!startConnect(c)
  BY <1>0, <1>1, <1>5 DEF Out!startConnect, Local
<1>6. CASE Out!onRemoteOpen(c)
  BY <1>0, <1>6 DEF Out!onRemoteOpen, Out!Sends, Local
<1>7. CASE Out!startRelaying(c)
  BY <1>0, <1>7 DEF Out!startRelaying, Local
<1>8. CASE Out!StopRelay(c)
  BY <1>0, <1>8 DEF Out!StopRelay, Local
<1>9. CASE Out!StopRelaySession(c)
  BY <1>0, <1>9 DEF Out!StopRelaySession, Out!Sends, Local
<1>10. CASE Out!onRemoteBytes(c)
  BY <1>0, <1>10 DEF Out!onRemoteBytes, Out!Sends, Local
<1>11. CASE Out!onRemoteClose(c)
  BY <1>0, <1>1, <1>11 DEF Out!onRemoteClose, Local
<1> QED
  BY <1>2, <1>3, <1>4, <1>5, <1>6, <1>7, <1>8, <1>9, <1>10, <1>11 DEF StepAt

LEMMA OthersKept ==
    ASSUME StreamInv, NEW c \in Sids, NEW s \in Sids \ {c}, Local(c), UNCHANGED inSide
    PROVE  Kept(s)
<1>1. /\ up'[s] = up[s] /\ down'[s] = down[s] /\ relay'[s] = relay[s]
      /\ rx'[s] = rx[s] /\ fed'[s] = fed[s] /\ taken'[s] = taken[s] /\ sess'[s] = sess[s]
  BY DEF Local, inSide
<1>2. /\ busy' = <<s, "dial">> => busy = <<s, "dial">>
      /\ busy' = <<s, "open">> => busy = <<s, "open">>
  BY DEF Local
<1>3. /\ Track(s, relay[s], rx[s], fed[s], taken[s], busy)
      /\ Flow(up[s], rx[s], fed[s], taken[s], sess[s].seq) /\ Early(s)
  BY DEF StreamInv
<1>4. Track(s, relay[s], rx[s], fed[s], taken[s], busy')
  BY <1>2, <1>3 DEF Track
<1>5. Early(s)'
  BY <1>1, <1>3, OutEarly
<1> QED
  BY <1>1, <1>3, <1>4, <1>5 DEF Kept

(* What is known of session s before the step. *)
LEMMA Before ==
    ASSUME Typed, StreamInv, NEW s \in Sids
    PROVE  /\ relay[s] \in Relays /\ rx[s] \in [open : BOOLEAN, exp : Nat] /\ up[s] \in Seq(Segments)
           /\ fed[s] \in Bytes /\ taken[s] \in Bytes /\ sess[s].seq \in Nat
           /\ Track(s, relay[s], rx[s], fed[s], taken[s], busy)
           /\ Flow(up[s], rx[s], fed[s], taken[s], sess[s].seq) /\ Early(s)
BY DEF Typed, StreamInv, Clients

(* A relay that is closed has nothing to answer for. *)
LEMMA ClosedTracks ==
    ASSUME NEW s, NEW r \in Relays, NEW x, NEW f, NEW t, NEW b,
           r.phase = "CLOSED", r.sock = "none", ~r.entry, x.open /\ f = <<>> => x.exp = 0,
           b = <<s, "dial">> \/ b = <<s, "open">> => f # <<>>
    PROVE  Track(s, r, x, f, t, b)
BY DEF Track

LEMMA SynKept ==
    ASSUME Typed, StreamInv, UNCHANGED inSide, NEW s \in Sids, Out!ReceiveSyn(s)
    PROVE  Kept(s)
<1>0. /\ relay[s] \in Relays /\ rx[s] \in [open : BOOLEAN, exp : Nat] /\ up[s] \in Seq(Segments)
      /\ fed[s] \in Bytes /\ taken[s] \in Bytes /\ sess[s].seq \in Nat
      /\ Track(s, relay[s], rx[s], fed[s], taken[s], busy)
      /\ Flow(up[s], rx[s], fed[s], taken[s], sess[s].seq) /\ Early(s)
  BY Before
<1>1. up[s] # <<>> /\ Head(up[s]).kind = "SYN" /\ busy = <<>> /\ UNCHANGED <<down, busy, taken, fed>>
      /\ up' = [up EXCEPT ![s] = SubSeq(up[s], 2, Len(up[s]))]
  BY DEF Out!ReceiveSyn, Out!Heard, Out!Free, Out!Consume
<1>2. 1 \in 1..Len(up[s]) /\ up[s][1].kind = "SYN"
  BY <1>0, <1>1
<1>3. fed[s] = <<>> /\ taken[s] = <<>> /\ ~rx[s].open
  BY <1>0, <1>2 DEF Flow
<1>4. ~relay[s].entry
  BY <1>0, <1>3 DEF Track
<1>5. relay'[s] = Out!NewRelay /\ rx'[s] = [open |-> TRUE, exp |-> 0]
  BY <1>3, <1>4 DEF Out!ReceiveSyn, Out!Handler, Out!Ensured, Typed
<1>6. /\ Out!NewRelay.phase = "METHODS" /\ Out!NewRelay.buf = <<>> /\ Out!NewRelay.sock = "none"
      /\ Out!NewRelay.doomed = "no"
  BY DEF Out!NewRelay
<1>7. Track(s, relay'[s], rx'[s], fed'[s], taken'[s], busy')
  BY <1>1, <1>3, <1>5, <1>6 DEF Track
<1>8. Flow(up'[s], rx'[s], fed'[s], taken'[s], sess'[s].seq)
  <2>1. Flow(SubSeq(up[s], 1 + 1, Len(up[s])), rx'[s], fed[s], taken[s], sess[s].seq)
    BY <1>0, <1>2, FlowTail
  <2>2. up'[s] = SubSeq(up[s], 1 + 1, Len(up[s]))
    BY <1>1 DEF Typed
  <2> QED
    BY <1>1, <2>1, <2>2 DEF inSide
<1>9. Early(s)'
  BY <1>0, <1>1, OutEarly DEF Early
<1> QED
  BY <1>7, <1>8, <1>9 DEF Kept

(* FgwRelaySession::close. *)
LEMMA CloseAfterKept ==
    ASSUME Typed, StreamInv, UNCHANGED <<inSide, taken, fed>>, NEW s \in Sids,
           NEW r \in Relays, NEW w, Out!CloseAfter(s, r, w),
           r.phase = relay[s].phase, r.entry = relay[s].entry, r.doomed = relay[s].doomed,
           r.late = relay[s].late, r.buf = relay[s].buf, r.sock \in {"none", relay[s].sock}, busy' = <<>>
    PROVE  /\ Track(s, relay'[s], rx'[s], fed'[s], taken'[s], busy')
           /\ rx'[s].open => rx[s].open
<1>0. /\ relay[s] \in Relays /\ rx[s] \in [open : BOOLEAN, exp : Nat]
      /\ Track(s, relay[s], rx[s], fed[s], taken[s], busy)
  BY Before
<1>1. CASE r.phase = "CLOSED"
  <2>1. relay'[s] = r /\ rx' = rx
    BY <1>1 DEF Out!CloseAfter, Typed
  <2>2. Track(s, r, rx[s], fed[s], taken[s], <<>>)
    BY <1>0, <1>1 DEF Track
  <2> QED
    BY <2>1, <2>2
<1>2. CASE r.phase # "CLOSED"
  <2> DEFINE q == [r EXCEPT !.phase = "CLOSED", !.sock = "none", !.entry = FALSE]
  <2>1. relay'[s] = q /\ rx'[s] = [rx[s] EXCEPT !.open = FALSE]
    BY <1>2 DEF Out!CloseAfter, Typed
  <2>2. q \in Relays /\ q.phase = "CLOSED" /\ q.sock = "none" /\ ~q.entry
    BY DEF Relays
  <2>3. ~rx'[s].open
    BY <1>0, <2>1
  <2> HIDE DEF q
  <2>4. Track(s, q, rx'[s], fed'[s], taken'[s], busy')
    BY <2>2, <2>3, ClosedTracks
  <2> QED
    BY <2>1, <2>3, <2>4
<1> QED
  BY <1>1, <1>2

LEMMA FinKept ==
    ASSUME Typed, StreamInv, UNCHANGED inSide, NEW s \in Sids, Out!ReceiveFin(s)
    PROVE  Kept(s)
<1>0. /\ relay[s] \in Relays /\ rx[s] \in [open : BOOLEAN, exp : Nat] /\ up[s] \in Seq(Segments)
      /\ fed[s] \in Bytes /\ taken[s] \in Bytes /\ sess[s].seq \in Nat
      /\ Track(s, relay[s], rx[s], fed[s], taken[s], busy)
      /\ Flow(up[s], rx[s], fed[s], taken[s], sess[s].seq) /\ Early(s)
  BY Before
<1>1. up[s] # <<>> /\ Head(up[s]).kind = "FIN" /\ busy = <<>> /\ UNCHANGED <<busy, taken, fed>>
      /\ up' = [up EXCEPT ![s] = SubSeq(up[s], 2, Len(up[s]))]
  BY DEF Out!ReceiveFin, Out!Heard, Out!Free, Out!Consume
<1>2. 1 \in 1..Len(up[s])
  BY <1>0, <1>1
<1>3. Track(s, relay'[s], rx'[s], fed'[s], taken'[s], busy')
  <2>1. CASE ~rx[s].open
    BY <1>0, <1>1, <2>1 DEF Out!ReceiveFin
  <2>2. CASE rx[s].open /\ relay[s].phase = "CLOSED"
    <3>1. /\ rx'[s] = [rx[s] EXCEPT !.open = FALSE]
          /\ relay'[s] = [relay[s] EXCEPT !.late = TRUE]
      BY <2>2 DEF Out!ReceiveFin, Typed
    <3>2. ~rx'[s].open /\ relay'[s].late /\ relay'[s].phase = "CLOSED"
          /\ relay'[s].entry = relay[s].entry /\ relay'[s].doomed = relay[s].doomed
          /\ relay'[s].sock = relay[s].sock
      BY <1>0, <2>2, <3>1 DEF Relays
    <3> QED
      BY <1>0, <1>1, <2>2, <3>2 DEF Track
  <2>3. CASE rx[s].open /\ relay[s].phase # "CLOSED"
    <3>1. Out!CloseAfter(s, relay[s], <<>>)
      BY <2>3 DEF Out!ReceiveFin
    <3> QED
      BY <1>0, <1>1, <3>1, CloseAfterKept
  <2> QED
    BY <2>1, <2>2, <2>3
<1>4. Flow(up'[s], rx'[s], fed'[s], taken'[s], sess'[s].seq)
  <2>1. Flow(SubSeq(up[s], 1 + 1, Len(up[s])), rx'[s], fed[s], taken[s], sess[s].seq)
    BY <1>0, <1>2, FlowTail
  <2>2. up'[s] = SubSeq(up[s], 1 + 1, Len(up[s]))
    BY <1>1 DEF Typed
  <2> QED
    BY <1>1, <2>1, <2>2 DEF inSide
<1>5. Early(s)'
  BY <1>0, <1>1, OutEarly DEF Early
<1> QED
  BY <1>3, <1>4, <1>5 DEF Kept

(* The steps between a request and its relay. *)
LEMMA ConnectKept ==
    ASSUME Typed, StreamInv, UNCHANGED inSide, NEW s \in Sids,
           Out!startConnect(s) \/ Out!onRemoteOpen(s) \/ Out!startRelaying(s)
           \/ Out!onRemoteBytes(s) \/ Out!onRemoteClose(s)
    PROVE  Kept(s)
<1>0. /\ relay[s] \in Relays /\ rx[s] \in [open : BOOLEAN, exp : Nat] /\ up[s] \in Seq(Segments)
      /\ fed[s] \in Bytes /\ taken[s] \in Bytes /\ sess[s].seq \in Nat
      /\ Track(s, relay[s], rx[s], fed[s], taken[s], busy)
      /\ Flow(up[s], rx[s], fed[s], taken[s], sess[s].seq) /\ Early(s)
  BY Before
<1>1. fed[s] # <<>> /\ UNCHANGED <<up, fed>>
  BY <1>0 DEF Out!startConnect, Out!onRemoteOpen, Out!startRelaying, Out!onRemoteBytes,
              Out!onRemoteClose, Track
<1>2. Track(s, relay'[s], rx'[s], fed'[s], taken'[s], busy') /\ (rx'[s].open => rx[s].open)
  <2>1. CASE Out!startConnect(s)
    <3>1. busy = <<s, "dial">> /\ busy' = <<>> /\ UNCHANGED taken
      BY <2>1 DEF Out!startConnect
    <3>2. CASE Out!CloseAfter(s, relay[s], <<"unreach">>)
      BY <1>0, <1>1, <3>1, <3>2, CloseAfterKept
    <3>3. CASE /\ relay' = [relay EXCEPT ![s].sock = "connecting", ![s].late = relay[s].phase = "CLOSED"]
               /\ UNCHANGED <<down, rx>>
      <4>1. /\ relay'[s].sock = "connecting" /\ relay'[s].late = (relay[s].phase = "CLOSED")
            /\ relay'[s].phase = relay[s].phase /\ relay'[s].entry = relay[s].entry
            /\ relay'[s].doomed = relay[s].doomed /\ relay'[s].buf = relay[s].buf
        BY <1>0, <3>3 DEF Typed, Relays
      <4>2. relay[s].phase \in {"CONNECTING", "CLOSED"}
        BY <1>0, <3>1 DEF Track
      <4> QED
        BY <1>0, <1>1, <3>1, <3>3, <4>1, <4>2 DEF Track
    <3> QED
      BY <2>1, <3>2, <3>3 DEF Out!startConnect
  <2>2. CASE Out!onRemoteOpen(s)
    <3>1. /\ relay[s].sock = "connecting" /\ busy' = <<s, "open">> /\ UNCHANGED <<rx, taken>>
          /\ relay'[s] = [relay[s] EXCEPT !.sock = "open"]
      BY <2>2 DEF Out!onRemoteOpen, Typed
    <3>2. /\ relay'[s].sock = "open" /\ relay'[s].late = relay[s].late
          /\ relay'[s].phase = relay[s].phase /\ relay'[s].entry = relay[s].entry
          /\ relay'[s].doomed = relay[s].doomed /\ relay'[s].buf = relay[s].buf
      BY <1>0, <3>1 DEF Relays
    <3> QED
      BY <1>0, <1>1, <3>1, <3>2 DEF Track
  <2>3. CASE Out!startRelaying(s)
    <3>1. /\ busy = <<s, "open">> /\ busy' = <<>> /\ UNCHANGED rx
          /\ relay'[s] = [relay[s] EXCEPT !.phase = "RELAYING", !.buf = <<>>]
          /\ taken'[s] = IF relay[s].sock = "open" THEN taken[s] \o relay[s].buf ELSE taken[s]
      BY <2>3 DEF Out!startRelaying, Typed
    <3>2. /\ relay'[s].sock = relay[s].sock /\ relay'[s].late = relay[s].late
          /\ relay'[s].phase = "RELAYING" /\ relay'[s].entry = relay[s].entry
          /\ relay'[s].doomed = relay[s].doomed /\ relay'[s].buf = <<>>
      BY <1>0, <3>1 DEF Relays
    <3>3. relay[s].sock # "none" /\ ~relay[s].late =>
             relay[s].sock = "open" /\ fed[s] = Handshake \o taken'[s]
      <4> SUFFICES ASSUME relay[s].sock # "none", ~relay[s].late
                   PROVE  relay[s].sock = "open" /\ fed[s] = Handshake \o taken'[s]
        OBVIOUS
      <4>1. /\ relay[s].sock = "open" /\ taken[s] = <<>>
            /\ fed[s] = Handshake \o relay[s].buf
        BY <1>0, <3>1 DEF Track
      <4>2. \A v \in Bytes : <<>> \o v = v
        BY DEF Bytes
      <4>3. taken'[s] = relay[s].buf
        BY <1>0, <3>1, <4>1, <4>2 DEF Relays
      <4> QED
        BY <4>1, <4>3
    <3> QED
      BY <1>0, <1>1, <3>1, <3>2, <3>3 DEF Track
  <2>4. CASE Out!onRemoteBytes(s)
    BY <1>0, <1>1, <2>4 DEF Out!onRemoteBytes
  <2>5. CASE Out!onRemoteClose(s)
    <3> DEFINE q == [relay[s] EXCEPT !.sock = "none"]
    <3>1. /\ q \in Relays /\ q.sock = "none" /\ q.late = relay[s].late
          /\ q.phase = relay[s].phase /\ q.entry = relay[s].entry
          /\ q.doomed = relay[s].doomed /\ q.buf = relay[s].buf
      BY <1>0 DEF Relays
    <3>2. Out!CloseAfter(s, q, <<>>) /\ busy' = <<>> /\ UNCHANGED taken
      BY <2>5 DEF Out!onRemoteClose, Out!Free
    <3> HIDE DEF q
    <3> QED
      BY <1>1, <3>1, <3>2, CloseAfterKept
  <2> QED
    BY <2>1, <2>2, <2>3, <2>4, <2>5
<1>3. Flow(up'[s], rx'[s], fed'[s], taken'[s], sess'[s].seq)
  <2>1. Flow(up[s], rx'[s], fed[s], taken'[s], sess[s].seq)
    BY <1>0, <1>1, <1>2, FlowKept
  <2> QED
    BY <1>1, <2>1 DEF inSide
<1>4. Early(s)'
  BY <1>0, <1>1, OutEarly DEF Early
<1> QED
  BY <1>2, <1>3, <1>4 DEF Kept

(* stop() and what it does to a relay. *)
LEMMA StopKept ==
    ASSUME Typed, StreamInv, UNCHANGED inSide, NEW s \in Sids,
           Out!stop \/ Out!StopRelay(s) \/ Out!StopRelaySession(s)
    PROVE  Kept(s)
<1>0. /\ relay[s] \in Relays /\ rx[s] \in [open : BOOLEAN, exp : Nat] /\ up[s] \in Seq(Segments)
      /\ fed[s] \in Bytes /\ taken[s] \in Bytes /\ sess[s].seq \in Nat
      /\ Track(s, relay[s], rx[s], fed[s], taken[s], busy)
      /\ Flow(up[s], rx[s], fed[s], taken[s], sess[s].seq) /\ Early(s)
  BY Before
<1>1. UNCHANGED <<up, fed, taken, busy>>
  BY DEF Out!stop, Out!StopRelay, Out!StopRelaySession
<1>2. /\ Track(s, relay'[s], rx'[s], fed'[s], taken'[s], busy')
      /\ rx'[s].open => rx[s].open
      /\ ~rx[s].open => down'[s] = down[s]
  <2>1. CASE Out!stop
    <3>1. /\ relay'[s] = IF relay[s].entry THEN [relay[s] EXCEPT !.entry = FALSE, !.doomed = "todo"] ELSE relay[s]
          /\ UNCHANGED <<rx, down>>
      BY <2>1 DEF Out!stop
    <3>2. CASE relay[s].entry
      <4>1. /\ relay'[s].sock = relay[s].sock /\ relay'[s].late = relay[s].late
            /\ relay'[s].phase = relay[s].phase /\ ~relay'[s].entry
            /\ relay'[s].doomed = "todo" /\ relay'[s].buf = relay[s].buf
        BY <1>0, <3>1, <3>2 DEF Relays
      <4> QED
        BY <1>0, <1>1, <3>1, <4>1 DEF Track
    <3>3. CASE ~relay[s].entry
      BY <1>0, <1>1, <3>1, <3>3
    <3> QED
      BY <3>2, <3>3
  <2>2. CASE Out!StopRelay(s)
    <3>1. /\ relay[s].doomed = "todo" /\ UNCHANGED <<rx, down>>
          /\ relay'[s] = IF relay[s].phase = "CLOSED" THEN [relay[s] EXCEPT !.doomed = "no"]
                         ELSE [relay[s] EXCEPT !.phase = "CLOSED", !.sock = "none", !.doomed = "half"]
      BY <2>2 DEF Out!StopRelay, Typed
    <3>2. CASE relay[s].phase = "CLOSED"
      <4>1. /\ relay'[s].sock = relay[s].sock /\ relay'[s].late = relay[s].late
            /\ relay'[s].phase = "CLOSED" /\ relay'[s].entry = relay[s].entry
            /\ relay'[s].doomed = "no" /\ relay'[s].buf = relay[s].buf
        BY <1>0, <3>1, <3>2 DEF Relays
      <4> QED
        BY <1>0, <1>1, <3>1, <3>2, <4>1 DEF Track
    <3>3. CASE relay[s].phase # "CLOSED"
      <4>1. /\ relay'[s].sock = "none" /\ relay'[s].late = relay[s].late
            /\ relay'[s].phase = "CLOSED" /\ relay'[s].entry = relay[s].entry
            /\ relay'[s].doomed = "half" /\ relay'[s].buf = relay[s].buf
        BY <1>0, <3>1, <3>3 DEF Relays
      <4> QED
        BY <1>0, <1>1, <3>1, <4>1 DEF Track
    <3> QED
      BY <3>2, <3>3
  <2>3. CASE Out!StopRelaySession(s)
    <3>1. /\ relay[s].doomed = "half" /\ busy # <<s, "dial">>
          /\ relay'[s] = [relay[s] EXCEPT !.doomed = "no", !.entry = FALSE]
          /\ rx'[s] = [rx[s] EXCEPT !.open = FALSE]
          /\ ~rx[s].open => down' = down
      BY <2>3 DEF Out!StopRelaySession, Out!Sends, Typed
    <3>2. /\ relay'[s].sock = relay[s].sock /\ relay'[s].late = relay[s].late
          /\ relay'[s].phase = relay[s].phase /\ ~relay'[s].entry
          /\ relay'[s].doomed = "no" /\ relay'[s].buf = relay[s].buf
          /\ ~rx'[s].open
      BY <1>0, <3>1 DEF Relays
    <3> QED
      BY <1>0, <1>1, <3>1, <3>2 DEF Track
  <2> QED
    BY <2>1, <2>2, <2>3
<1>3. Flow(up'[s], rx'[s], fed'[s], taken'[s], sess'[s].seq)
  <2>1. Flow(up[s], rx'[s], fed[s], taken[s], sess[s].seq)
    BY <1>0, <1>2, FlowKept
  <2> QED
    BY <1>1, <2>1 DEF inSide
<1>4. Early(s)'
  BY <1>0, <1>1, <1>2, OutEarly DEF Early
<1> QED
  BY <1>2, <1>3, <1>4 DEF Kept

(* Bytes b that session s is given: those that are expected, or none. *)
LEMMA Given ==
    ASSUME Typed, StreamInv, NEW s \in Sids, NEW n \in 1..Len(up[s]),
           NEW b \in Bytes, NEW r \in Relays, NEW q \in Relays, NEW bad \in BOOLEAN,
           DataStep(s, n, b, r, q, bad)
    PROVE  /\ b # <<>> /\ ((rx[s].open /\ fed[s] = <<>>) \/ ~rx[s].open) => taken[s] = <<>>
           /\ (b # <<>> => rx'[s].exp = Exp(s) + n) /\ (b = <<>> => rx'[s].exp = Exp(s))
           /\ rx'[s].open = ~bad /\ Exp(s) \in Nat /\ n \in Nat /\ n >= 1
           /\ up[s][1].kind = "DATA" /\ up[s] \in Seq(Segments)
<1>0. /\ relay[s] \in Relays /\ rx[s] \in [open : BOOLEAN, exp : Nat] /\ up[s] \in Seq(Segments)
      /\ fed[s] \in Bytes /\ taken[s] \in Bytes /\ sess[s].seq \in Nat
      /\ Track(s, relay[s], rx[s], fed[s], taken[s], busy)
      /\ Flow(up[s], rx[s], fed[s], taken[s], sess[s].seq) /\ Early(s)
  BY Before
<1>1. n \in Nat /\ n >= 1 /\ 1 \in 1..n /\ 1 \in 1..Len(up[s]) /\ Exp(s) \in Nat
  BY <1>0 DEF Exp
<1>2. up[s][1].kind = "DATA"
  BY <1>1 DEF DataStep
<1>3. b # <<>> => up[s][1].seq = Exp(s)
  BY DEF DataStep
<1>4. ASSUME b # <<>>, (rx[s].open /\ fed[s] = <<>>) \/ ~rx[s].open PROVE taken[s] = <<>>
  <2>1. Exp(s) = 0
    BY <1>0, <1>4 DEF Exp, Track
  <2>2. ~(up[s][1].seq > 0)
    BY <1>3, <1>4, <2>1
  <2> QED
    BY <1>0, <1>1, <1>2, <2>2 DEF Flow
<1>5. rx'[s] = [open |-> ~bad, exp |-> IF b = <<>> THEN Exp(s) ELSE Exp(s) + n]
  BY DEF DataStep, Typed
<1> QED
  BY <1>0, <1>1, <1>2, <1>4, <1>5

(* Where the bytes are once they are in the buffer of relay r: as Track has *)
(* it, but for those that a relay at work has not passed on.                *)
Buffered(r, f, t) ==
    /\ r.entry => r.phase # "CLOSED" /\ r.doomed = "no"
    /\ r.doomed = "half" => r.phase \in {"CLOSED", "RELAYING"}
    /\ r.phase = "METHODS" => r.sock = "none" /\ f = r.buf /\ (f # <<>> => t = <<>>)
    /\ r.phase = "REQUEST" => r.sock = "none" /\ f = Hi \o r.buf /\ t = <<>>
    /\ r.phase = "CONNECTING" => f = Handshake \o r.buf /\ t = <<>>
    /\ r.sock # "none" /\ ~r.late =>
          \/ r.phase = "CONNECTING"
          \/ r.phase = "RELAYING" /\ r.sock = "open" /\ f = Handshake \o (t \o r.buf)
    /\ r.sock # "none" \/ r.phase \in {"REQUEST", "CONNECTING", "RELAYING"} => f # <<>>

LEMMA IntoBuffer ==
    ASSUME Typed, StreamInv, NEW s \in Sids, NEW n \in 1..Len(up[s]),
           NEW b \in Bytes, NEW r \in Relays, NEW q \in Relays, NEW bad \in BOOLEAN,
           DataStep(s, n, b, r, q, bad)
    PROVE  /\ Buffered(r, fed'[s], taken[s]) /\ fed'[s] \in Bytes
           /\ fed'[s] = <<>> => b = <<>> /\ rx'[s].exp = 0
           /\ r.phase = "RELAYING" => fed[s] # <<>>
<1>0. /\ relay[s] \in Relays /\ rx[s] \in [open : BOOLEAN, exp : Nat] /\ up[s] \in Seq(Segments)
      /\ fed[s] \in Bytes /\ taken[s] \in Bytes /\ sess[s].seq \in Nat
      /\ Track(s, relay[s], rx[s], fed[s], taken[s], busy)
      /\ Flow(up[s], rx[s], fed[s], taken[s], sess[s].seq) /\ Early(s)
  BY Before
<1>1. /\ b # <<>> /\ ((rx[s].open /\ fed[s] = <<>>) \/ ~rx[s].open) => taken[s] = <<>>
      /\ (b # <<>> => rx'[s].exp = Exp(s) + n) /\ (b = <<>> => rx'[s].exp = Exp(s))
  BY Given
<1>2. fed'[s] = IF rx[s].open THEN fed[s] \o b ELSE b
  BY DEF DataStep, Typed
<1>3. \A u, v \in Bytes : u \o v \in Bytes /\ (u \o v = <<>> => u = <<>> /\ v = <<>>)
                          /\ u \o <<>> = u /\ <<>> \o v = v
  BY ConcatProperties DEF Bytes
<1>5. CASE ~rx[s].open
  <2>1. Out!Handler(s) = Out!NewRelay
    BY <1>0, <1>5 DEF Out!Handler, Out!Ensured, Track
  <2>2. /\ Out!NewRelay.phase = "METHODS" /\ Out!NewRelay.buf = <<>> /\ Out!NewRelay.sock = "none"
        /\ Out!NewRelay.doomed = "no" /\ Out!NewRelay \in Relays
    BY HandlerType DEF Out!NewRelay
  <2>3. r = [Out!NewRelay EXCEPT !.buf = <<>> \o b]
    BY <2>1, <2>2 DEF DataStep
  <2>4. r.phase = "METHODS" /\ r.buf = b /\ r.sock = "none" /\ r.doomed = "no"
    <3>1. <<>> \o b = b
      BY <1>3, NoBytes
    <3> QED
      BY <2>2, <2>3, <3>1 DEF Relays
  <2>5. Buffered(r, fed'[s], taken[s])
    BY <1>1, <1>2, <1>5, <2>4 DEF Buffered
  <2>6. fed'[s] = <<>> => b = <<>> /\ rx'[s].exp = 0
    BY <1>1, <1>2, <1>5 DEF Exp
  <2> QED
    BY <1>2, <1>5, <2>4, <2>5, <2>6
<1>6. CASE rx[s].open
  <2>1. r = [relay[s] EXCEPT !.buf = relay[s].buf \o b]
    BY <1>6 DEF Out!Handler, DataStep
  <2>2. /\ r.phase = relay[s].phase /\ r.buf = relay[s].buf \o b /\ r.sock = relay[s].sock
        /\ r.doomed = relay[s].doomed /\ r.entry = relay[s].entry /\ r.late = relay[s].late
        /\ relay[s].buf \in Bytes
    BY <1>0, <2>1 DEF Relays
  <2>3. fed'[s] = fed[s] \o b /\ fed'[s] \in Bytes
    BY <1>0, <1>2, <1>3, <1>6
  <2>4. Hi \in Bytes /\ Handshake \in Bytes
    BY DEF Bytes, Hi, Handshake, Tokens
  <2>5. ASSUME NEW h \in Bytes, fed[s] = h \o relay[s].buf PROVE fed'[s] = h \o r.buf
    <3>1. (h \o relay[s].buf) \o b = h \o (relay[s].buf \o b)
      BY <2>2, BytesJoin, Zenon
    <3> QED
      BY <2>2, <2>3, <2>5, <3>1, Zenon
  <2>6. fed'[s] = <<>> => fed[s] = <<>> /\ b = <<>>
    <3>1. fed[s] \in Bytes
      BY <1>0
    <3>2. \A u, v \in Bytes : u \o v = <<>> => u = <<>> /\ v = <<>>
      BY <1>3, Zenon
    <3>3. fed[s] \o b = <<>> => fed[s] = <<>> /\ b = <<>>
      BY <3>1, <3>2, Zenon
    <3> QED
      BY <2>3, <3>3, Zenon
  <2>7. fed'[s] # <<>> /\ fed[s] = <<>> => b # <<>>
    BY <1>3, <2>3, NoBytes
  <2>8. r.phase = "METHODS" => r.sock = "none" /\ fed'[s] = r.buf /\ (fed'[s] # <<>> => taken[s] = <<>>)
    BY <1>0, <1>1, <1>6, <2>2, <2>3, <2>7 DEF Track
  <2>9. r.phase = "REQUEST" => r.sock = "none" /\ fed'[s] = Hi \o r.buf /\ taken[s] = <<>>
    BY <1>0, <2>2, <2>4, <2>5 DEF Track
  <2>10. r.phase = "CONNECTING" => fed'[s] = Handshake \o r.buf /\ taken[s] = <<>>
    BY <1>0, <2>2, <2>4, <2>5 DEF Track
  <2>11. ASSUME r.sock # "none", ~r.late, r.phase # "CONNECTING"
         PROVE  r.phase = "RELAYING" /\ r.sock = "open" /\ fed'[s] = Handshake \o (taken[s] \o r.buf)
    <3>1. /\ r.phase = "RELAYING" /\ r.sock = "open" /\ relay[s].buf = <<>>
          /\ fed[s] = Handshake \o taken[s]
      BY <1>0, <2>2, <2>11 DEF Track
    <3>2. r.buf = b
      BY <1>3, <2>2, <3>1, NoBytes
    <3>3. fed'[s] = Handshake \o (taken[s] \o b)
      <4>0. taken[s] \in Bytes
        BY <1>0
      <4>1. (Handshake \o taken[s]) \o b = Handshake \o (taken[s] \o b)
        <5>1. ASSUME NEW h \in Bytes, NEW v \in Bytes PROVE (h \o v) \o b = h \o (v \o b)
          BY BytesJoin
        <5> QED
          BY <2>4, <4>0, <5>1
      <4> QED
        BY <2>3, <3>1, <4>1, Zenon
    <3> QED
      BY <3>1, <3>2, <3>3
  <2>12. /\ r.entry => r.phase # "CLOSED" /\ r.doomed = "no"
         /\ r.doomed = "half" => r.phase \in {"CLOSED", "RELAYING"}
         /\ r.sock # "none" \/ r.phase \in {"REQUEST", "CONNECTING", "RELAYING"} => fed[s] # <<>>
    BY <1>0, <2>2 DEF Track
  <2>13. Buffered(r, fed'[s], taken[s])
    BY <2>6, <2>8, <2>9, <2>10, <2>11, <2>12 DEF Buffered
  <2>14. fed'[s] = <<>> => b = <<>> /\ rx'[s].exp = 0
    BY <1>0, <1>1, <1>6, <2>6 DEF Exp, Track
  <2> QED
    BY <2>3, <2>12, <2>13, <2>14
<1> QED
  BY <1>5, <1>6

(* feedRx on what is in the buffer. *)
LEMMA FedTracks ==
    ASSUME Typed, NEW s \in Sids, NEW n,
           NEW b \in Bytes, NEW r \in Relays, NEW q \in Relays, NEW bad \in BOOLEAN,
           DataStep(s, n, b, r, q, bad), Buffered(r, fed'[s], taken[s]), rx'[s].open = ~bad,
           fed'[s] = <<>> => rx'[s].exp = 0
    PROVE  Track(s, relay'[s], rx'[s], fed'[s], taken'[s], busy')
<1>0. /\ Advanced(r, q)
      /\ bad => r.phase \in {"METHODS", "REQUEST"} /\ q.phase \in {"METHODS", "REQUEST"}
      /\ busy' = IF q.phase = "CONNECTING" /\ r.phase # "CONNECTING" THEN <<s, "dial">> ELSE <<>>
      /\ relay'[s] = IF bad THEN [q EXCEPT !.phase = "CLOSED", !.entry = FALSE]
                     ELSE IF r.phase = "RELAYING" THEN [r EXCEPT !.buf = <<>>] ELSE q
      /\ taken'[s] = IF r.phase = "RELAYING" /\ r.sock = "open" THEN taken[s] \o r.buf ELSE taken[s]
  <2>1. /\ relay \in [Sids -> Relays] /\ taken \in [Sids -> Bytes]
    BY DEF Typed
  <2>2. /\ taken' = IF r.phase = "RELAYING" /\ r.sock = "open"
                    THEN [taken EXCEPT ![s] = taken[s] \o r.buf] ELSE taken
        /\ Advanced(r, q)
        /\ bad => r.phase \in {"METHODS", "REQUEST"} /\ q.phase \in {"METHODS", "REQUEST"}
        /\ busy' = IF q.phase = "CONNECTING" /\ r.phase # "CONNECTING" THEN <<s, "dial">> ELSE <<>>
        /\ relay' = [relay EXCEPT ![s] = IF bad THEN [q EXCEPT !.phase = "CLOSED", !.entry = FALSE]
                       ELSE IF r.phase = "RELAYING" THEN [r EXCEPT !.buf = <<>>] ELSE q]
    BY DEF DataStep
  <2>3. taken'[s] = IF r.phase = "RELAYING" /\ r.sock = "open" THEN taken[s] \o r.buf ELSE taken[s]
    BY <2>1, <2>2
  <2>4. relay'[s] = IF bad THEN [q EXCEPT !.phase = "CLOSED", !.entry = FALSE]
                    ELSE IF r.phase = "RELAYING" THEN [r EXCEPT !.buf = <<>>] ELSE q
    BY <2>1, <2>2
  <2> QED
    BY <2>2, <2>3, <2>4
<1>1. CASE bad
  <2> DEFINE p == [q EXCEPT !.phase = "CLOSED", !.entry = FALSE]
  <2>1. relay'[s] = p /\ busy' = <<>>
    BY <1>0, <1>1
  <2>2. q.sock = r.sock /\ r.sock = "none"
    BY <1>0, <1>1 DEF Advanced, Buffered
  <2>3. p \in Relays /\ p.phase = "CLOSED" /\ p.sock = "none" /\ ~p.entry
    BY <2>2 DEF Relays
  <2> HIDE DEF p
  <2>4. Track(s, p, rx'[s], fed'[s], taken'[s], <<>>)
    BY <1>1, <2>3, ClosedTracks
  <2> QED
    BY <2>1, <2>4
<1>2. CASE ~bad /\ r.phase = "RELAYING"
  <2>1. /\ relay'[s].phase = "RELAYING" /\ relay'[s].buf = <<>> /\ relay'[s].sock = r.sock
        /\ relay'[s].doomed = r.doomed /\ relay'[s].entry = r.entry /\ relay'[s].late = r.late
    BY <1>0, <1>2 DEF Relays
  <2>2. busy' = <<>>
    BY <1>0, <1>2 DEF Advanced
  <2>3. r.sock # "none" /\ ~r.late => r.sock = "open" /\ fed'[s] = Handshake \o taken'[s]
    BY <1>0, <1>2 DEF Buffered
  <2> QED
    BY <1>2, <2>1, <2>2, <2>3 DEF Buffered, Track
<1>3. CASE ~bad /\ r.phase # "RELAYING"
  <2>1. relay'[s] = q /\ taken'[s] = taken[s]
    BY <1>0, <1>3
  <2>2. /\ q.sock = r.sock /\ q.entry = r.entry /\ q.doomed = r.doomed /\ q.late = r.late /\ q.buf \in Bytes
    BY <1>0 DEF Advanced, Relays
  <2>3. CASE q = r
    <3>1. busy' = <<>>
      BY <1>0, <2>3
    <3> QED
      BY <1>3, <2>1, <2>3, <3>1 DEF Buffered, Track
  <2>4. CASE r.phase = "METHODS" /\ q.phase = "REQUEST" /\ r.buf = Hi \o q.buf
    <3>1. busy' = <<>>
      BY <1>0, <2>4
    <3>2. fed'[s] = Hi \o q.buf /\ fed'[s] # <<>> /\ taken[s] = <<>> /\ q.sock = "none"
      BY <2>2, <2>4, HandshakeParts DEF Buffered
    <3> QED
      BY <1>3, <2>1, <2>2, <2>4, <3>1, <3>2 DEF Buffered, Track
  <2>5. ASSUME q.phase = "CONNECTING", r.phase \in {"METHODS", "REQUEST"}, fed'[s] = Hi \o (Req \o q.buf)
        PROVE  Track(s, relay'[s], rx'[s], fed'[s], taken'[s], busy')
    <3>1. busy' = <<s, "dial">>
      BY <1>0, <2>5
    <3>2. fed'[s] = Handshake \o q.buf /\ fed'[s] # <<>>
      BY <2>2, <2>5, HandshakeParts
    <3>3. taken[s] = <<>> /\ q.sock = "none"
      BY <2>2, <2>5, <3>2 DEF Buffered
    <3> QED
      BY <1>3, <2>1, <2>2, <2>5, <3>1, <3>2, <3>3 DEF Buffered, Track
  <2>6. CASE r.phase = "METHODS" /\ q.phase = "CONNECTING" /\ r.buf = Hi \o (Req \o q.buf)
    BY <2>5, <2>6 DEF Buffered
  <2>7. CASE r.phase = "REQUEST" /\ q.phase = "CONNECTING" /\ r.buf = Req \o q.buf
    BY <2>5, <2>7 DEF Buffered
  <2> QED
    BY <1>0, <2>3, <2>4, <2>6, <2>7 DEF Advanced
<1> QED
  BY <1>1, <1>2, <1>3

LEMMA DataKept ==
    ASSUME Typed, StreamInv, UNCHANGED inSide, NEW s \in Sids, NEW n \in 1..Len(up[s]), Out!ReceiveData(s, n)
    PROVE  Kept(s)
<1>0. /\ rx[s] \in [open : BOOLEAN, exp : Nat] /\ up[s] \in Seq(Segments)
      /\ fed[s] \in Bytes /\ taken[s] \in Bytes /\ sess[s].seq \in Nat
      /\ Flow(up[s], rx[s], fed[s], taken[s], sess[s].seq) /\ Early(s)
  BY Before
<1>1. PICK b \in Bytes, r \in Relays, q \in Relays, bad \in BOOLEAN : DataStep(s, n, b, r, q, bad)
  BY DataFacts
<1>2. /\ Buffered(r, fed'[s], taken[s])
      /\ fed'[s] = <<>> => b = <<>> /\ rx'[s].exp = 0
      /\ r.phase = "RELAYING" => fed[s] # <<>>
  BY <1>1, IntoBuffer
<1>3. rx'[s].open = ~bad /\ up[s][1].kind = "DATA"
  BY <1>1, Given
<1>4. Track(s, relay'[s], rx'[s], fed'[s], taken'[s], busy')
  BY <1>1, <1>2, <1>3, FedTracks
<1>5. Flow(up'[s], rx'[s], fed'[s], taken'[s], sess'[s].seq)
  <2>1. Flow(SubSeq(up[s], n + 1, Len(up[s])), rx'[s], fed'[s], taken'[s], sess[s].seq)
    BY <1>0, <1>3, FlowTail
  <2>2. up'[s] = SubSeq(up[s], n + 1, Len(up[s]))
    BY <1>1 DEF DataStep, Typed
  <2> QED
    BY <2>1, <2>2 DEF inSide
<1>6. Early(s)'
  <2>1. up[s] # <<>>
    BY <1>0
  <2> QED
    BY <1>0, <2>1, OutEarly DEF Early
<1> QED
  BY <1>4, <1>5, <1>6 DEF Kept

-----------------------------------------------------------------------------
LEMMA StreamStep == ASSUME Typed, StreamInv, [Next]_vars PROVE StreamInv'
<1>1. CASE Inport
  <2> SUFFICES ASSUME NEW s \in Sids
               PROVE  /\ Track(s, relay[s], rx[s], fed[s], taken[s], busy)'
                      /\ Flow(up[s], rx[s], fed[s], taken[s], sess[s].seq)'
                      /\ Early(s)'
    BY DEF StreamInv
  <2>1. UNCHANGED <<relay, rx, busy, taken, fed>>
    BY <1>1 DEF Inport, outSide
  <2>2. /\ Track(s, relay[s], rx[s], fed[s], taken[s], busy)
        /\ Flow(up[s], rx[s], fed[s], taken[s], sess[s].seq) /\ Early(s)
    BY Before
  <2>3. Offered(s) /\ Early(s)'
    BY <1>1, <2>2, InSession
  <2>4. Flow(up'[s], rx[s], fed[s], taken[s], sess'[s].seq)
    BY <2>2, <2>3, InFlow
  <2> QED
    BY <2>1, <2>2, <2>3, <2>4
<1>2. CASE Outport
  <2>0. UNCHANGED inSide
    BY <1>2 DEF Outport
  <2>1. Out!stop \/ \E c \in Sids : StepAt(c)
    BY <1>2 DEF Outport, Out!OutNext, Out!Progress, StepAt
  <2>2. ASSUME NEW s \in Sids PROVE Kept(s)
    <3>1. CASE Out!stop
      BY <2>0, <3>1, StopKept
    <3>2. CASE \E c \in Sids : StepAt(c)
      <4>1. PICK c \in Sids : StepAt(c)
        BY <3>2
      <4>2. CASE c = s
        BY <2>0, <4>1, <4>2, SynKept, FinKept, DataKept, ConnectKept, StopKept DEF StepAt
      <4>3. CASE c # s
        BY <2>0, <4>1, <4>3, StepIsLocal, OthersKept
      <4> QED
        BY <4>2, <4>3
    <3> QED
      BY <2>1, <3>1, <3>2
  <2> QED
    BY <2>2 DEF Kept, StreamInv
<1>3. CASE UNCHANGED vars
  BY <1>3 DEF vars, inSide, outSide, StreamInv, Early, Track, Flow
<1> QED
  BY <1>1, <1>2, <1>3 DEF Next

LEMMA StreamHolds == ASSUME Typed, StreamInv PROVE TargetStream
<1> SUFFICES ASSUME NEW s \in Sids, relay[s].sock # "none", ~relay[s].late
             PROVE  /\ fed[s] = Handshake \o taken[s] \o relay[s].buf
                    /\ relay[s].phase = "RELAYING" => relay[s].buf = <<>>
  BY DEF TargetStream
<1>1. /\ relay[s] \in Relays /\ taken[s] \in Bytes
      /\ Track(s, relay[s], rx[s], fed[s], taken[s], busy)
  BY Before
<1>2. \/ relay[s].phase = "CONNECTING" /\ fed[s] = Handshake \o relay[s].buf /\ taken[s] = <<>>
      \/ relay[s].phase = "RELAYING" /\ relay[s].buf = <<>> /\ fed[s] = Handshake \o taken[s]
  BY <1>1 DEF Track
<1>3. \A u, v \in Bytes : u \o v \in Bytes /\ u \o <<>> = u
  BY ConcatProperties DEF Bytes
<1>4. Handshake \in Bytes
  BY DEF Bytes, Handshake, Tokens
<1>5. Handshake \o <<>> = Handshake /\ (Handshake \o taken[s]) \o <<>> = Handshake \o taken[s]
  BY <1>1, <1>3, <1>4
<1> QED
  BY <1>2, <1>5

(* TargetStream for any number of sessions, any scripts and answers and any *)
(* interleaving of reads, connects, closes and stop() on both sides: a      *)
(* relay with a socket has given its target what it was fed behind the      *)
(* handshake, in order, and keeps the rest (feedRx, startConnect,           *)
(* onRemoteOpen, close).                                                    *)
THEOREM TargetStreamAlways == Spec => []TargetStream
<1>1. Init => Typed /\ StreamInv
  BY TypeInit, InitStream
<1>2. (Typed /\ StreamInv) /\ [Next]_vars => (Typed /\ StreamInv)'
  BY TypeStep, StreamStep
<1>3. Typed /\ StreamInv => TargetStream
  BY StreamHolds
<1> QED
  BY <1>1, <1>2, <1>3, PTL DEF Spec

-----------------------------------------------------------------------------
(* Both ends of a session, and what is on the way between them.             *)

Finishing(d) == \E i \in 1..Len(d) : d[i].kind = "FIN"

(* The relay met the client's FIN while stop() was closing it. *)
Lost(s, c, u, r, b) == u = <<>> /\ c.closed /\ r.late /\ b # <<s, "dial">>

(* The client's side c of a session: known once it is accepted, on once its *)
(* SYN is sent.  Its FIN is the last thing that it sends.                   *)
ClientEnd(c, u, known, on) ==
    /\ ~known => ~c.closed /\ ~c.tcp /\ ~c.entry /\ ~c.doomed
    /\ known /\ ~c.closed => c.tcp
    /\ c.closed => ~c.tcp
    /\ c.late => c.closed
    /\ on /\ ~c.closed => c.stream = "open"
    /\ c.closed /\ ~c.late => c.stream # "open"
    /\ \A i \in 1..Len(u) : u[i].kind = "FIN" => i = Len(u) /\ c.closed

(* A closed client's FIN is on the way, or the relay's side has ended; an   *)
(* open one has a relay, or will get one, or a FIN is on the way back; and  *)
(* whatever the relay said is followed by a FIN when its side ends.         *)
Ending(s, c, u, d, x, r, b, on) ==
    /\ on /\ c.closed /\ ~c.late => IF u = <<>> THEN ~x.open ELSE u[Len(u)].kind = "FIN"
    /\ on /\ ~c.closed => x.open \/ Finishing(d) \/ (u # <<>> /\ u[1].kind = "SYN")
    /\ \A i \in 1..Len(d) : d[i].kind = "DATA" =>
          x.open \/ (\E j \in 1..Len(d) : i < j /\ d[j].kind = "FIN") \/ Lost(s, c, u, r, b)
    /\ c.stream = "orphan" => x.open \/ Finishing(d) \/ Lost(s, c, u, r, b)
    /\ r.sock # "none" /\ ~r.late => x.open
    /\ r.doomed = "half" /\ r.sock # "none" => r.late

Begun(s) == s < next_id /\ half # s

EndInv ==
    \A s \in Sids :
        /\ ClientEnd(sess[s], up[s], s < next_id, Begun(s))
        /\ Ending(s, sess[s], up[s], down[s], rx[s], relay[s], busy, Begun(s))

LEMMA EndInit == Init => EndInv
<1> SUFFICES ASSUME Init, NEW s \in Sids
             PROVE  /\ ClientEnd(sess[s], up[s], s < next_id, Begun(s))
                    /\ Ending(s, sess[s], up[s], down[s], rx[s], relay[s], busy, Begun(s))
  BY DEF EndInv
<1>1. /\ up[s] = <<>> /\ down[s] = <<>> /\ ~rx[s].open /\ relay[s].sock = "none"
      /\ sess[s] = In!NoClient /\ next_id = 1 /\ s \in Nat \ {0}
  BY SidsAssumption DEF Init, In!InInit, Out!OutInit, Out!NewRelay
<1>2. ~(s < next_id) /\ ~Begun(s)
  BY <1>1 DEF Begun
<1>3. /\ ~In!NoClient.closed /\ ~In!NoClient.late /\ In!NoClient.stream = "none"
      /\ ~In!NoClient.tcp /\ ~In!NoClient.entry /\ ~In!NoClient.doomed
  BY DEF In!NoClient
<1>4. ClientEnd(sess[s], up[s], s < next_id, Begun(s))
  BY <1>1, <1>2, <1>3 DEF ClientEnd
<1>5. Ending(s, sess[s], up[s], down[s], rx[s], relay[s], busy, Begun(s))
  BY <1>1, <1>2, <1>3 DEF Ending
<1> QED
  BY <1>4, <1>5

(* The invariant holds of session s after the step. *)
EndKept(s) ==
    /\ ClientEnd(sess'[s], up'[s], s < next_id', s < next_id' /\ half' # s)
    /\ Ending(s, sess'[s], up'[s], down'[s], rx'[s], relay'[s], busy', s < next_id' /\ half' # s)

(* What is known of both ends before the step. *)
LEMMA BothEnds ==
    ASSUME Typed, StreamInv, EndInv, NEW s \in Sids
    PROVE  /\ relay[s] \in Relays /\ rx[s] \in [open : BOOLEAN, exp : Nat] /\ sess[s] \in Clients
           /\ up[s] \in Seq(Segments) /\ down[s] \in Seq(Segments)
           /\ Len(up[s]) \in Nat /\ Len(down[s]) \in Nat
           /\ Track(s, relay[s], rx[s], fed[s], taken[s], busy)
           /\ Flow(up[s], rx[s], fed[s], taken[s], sess[s].seq) /\ Early(s)
           /\ ClientEnd(sess[s], up[s], s < next_id, Begun(s))
           /\ Ending(s, sess[s], up[s], down[s], rx[s], relay[s], busy, Begun(s))
BY Before DEF Typed, EndInv

-----------------------------------------------------------------------------
(* Both ends, over a step of the Outport on the session.  There are four    *)
(* ways in which it can leave them.                                         *)

(* What it leaves on the way up: everything, or all but a part in front     *)
(* that holds no FIN.                                                       *)
LEMMA StillOpen ==
    ASSUME NEW s, NEW c, NEW u, NEW d, NEW x, NEW r, NEW b, NEW on,
           x.open, r.doomed = "half" /\ r.sock # "none" => r.late,
           on /\ c.closed /\ ~c.late => u # <<>> /\ u[Len(u)].kind = "FIN"
    PROVE  Ending(s, c, u, d, x, r, b, on)
BY DEF Ending

LEMMA NowEnded ==
    ASSUME NEW s, NEW c, NEW u, NEW d \in Seq(Segments), NEW x, NEW r, NEW b, NEW on,
           ~x.open, d # <<>>, d[Len(d)].kind = "FIN", r.sock # "none" => r.late,
           on /\ c.closed /\ ~c.late /\ u # <<>> => u[Len(u)].kind = "FIN"
    PROVE  Ending(s, c, u, d, x, r, b, on)
<1>1. Len(d) \in Nat /\ Len(d) \in 1..Len(d)
  OBVIOUS
<1>2. Finishing(d)
  BY <1>1 DEF Finishing
<1>3. \A i \in 1..Len(d) : d[i].kind = "DATA" => \E j \in 1..Len(d) : i < j /\ d[j].kind = "FIN"
  <2> TAKE i \in 1..Len(d)
  <2> HAVE d[i].kind = "DATA"
  <2>1. i # Len(d)
    OBVIOUS
  <2>2. i < Len(d)
    BY <1>1, <2>1
  <2> QED
    BY <1>1, <2>2
<1> QED
  BY <1>2, <1>3 DEF Ending

LEMMA StillEnded ==
    ASSUME NEW s, NEW c, NEW u, NEW d, NEW x, NEW y, NEW r, NEW q, NEW b, NEW e, NEW on,
           Ending(s, c, u, d, x, r, b, on), ~x.open, ~y.open, q.sock # "none" => q.late,
           Lost(s, c, u, r, b) => Lost(s, c, u, q, e)
    PROVE  Ending(s, c, u, d, y, q, e, on)
BY DEF Ending

(* The client's FIN was the last thing on the way. *)
LEMMA FinTaken ==
    ASSUME NEW s, NEW c, NEW u, NEW d, NEW x, NEW y, NEW r, NEW q, NEW b, NEW e, NEW on,
           Ending(s, c, u, d, x, r, b, on), u # <<>>, c.closed, ~y.open,
           q.sock # "none" => q.late, x.open => q.late, e # <<s, "dial">>
    PROVE  Ending(s, c, <<>>, d, y, q, e, on)
<1>1. ~Lost(s, c, u, r, b)
  BY DEF Lost
<1>2. x.open => Lost(s, c, <<>>, q, e)
  BY DEF Lost
<1> QED
  BY <1>1, <1>2 DEF Ending

(* What is put on the way back. *)
LEMMA SentFin ==
    ASSUME NEW d \in Seq(Segments), NEW w \in Bytes, NEW e,
           e = d \o (Out!Data(w) \o Out!Fin) \/ e = d \o Out!Fin
    PROVE  e \in Seq(Segments) /\ e # <<>> /\ e[Len(e)].kind = "FIN"
<1> DEFINE f == Out!Fin
           v == Out!Data(w)
<1>1. f \in Seq(Segments) /\ v \in Seq(Segments)
  BY DataSegs
<1>2. Len(f) = 1 /\ f[1].kind = "FIN"
  BY DEF Out!Fin, Out!Seg
<1> HIDE DEF f, v
<1>3. ASSUME NEW a \in Seq(Segments)
      PROVE  a \o f \in Seq(Segments) /\ a \o f # <<>> /\ (a \o f)[Len(a \o f)].kind = "FIN"
  <2>0. Len(a) \in Nat /\ Len(f) \in Nat
    BY <1>1
  <2>1. a \o f \in Seq(Segments) /\ Len(a \o f) = Len(a) + Len(f)
    BY <1>1, ConcatProperties
  <2>2. (a \o f)[Len(a) + 1] = f[1]
    <3>1. \A i \in 1..Len(f) : (a \o f)[Len(a) + i] = f[i]
      BY <1>1
    <3>2. 1 \in 1..Len(f)
      BY <1>2
    <3> QED
      BY <3>1, <3>2
  <2> QED
    BY <1>2, <2>0, <2>1, <2>2
<1>4. d \o v \in Seq(Segments)
  BY <1>1, ConcatProperties
<1>5. d \o (v \o f) = (d \o v) \o f
  BY <1>1, ConcatAssociative, SMTT(30)
<1> QED
  BY <1>3, <1>4, <1>5 DEF f, v

(* A part that holds no FIN is taken from the front. *)
LEMMA FrontTaken ==
    ASSUME NEW u \in Seq(Segments), NEW n \in 1..Len(u), \A i \in 1..n : u[i].kind # "FIN",
           u[Len(u)].kind = "FIN", NEW v, v = SubSeq(u, n + 1, Len(u))
    PROVE  v # <<>> /\ v[Len(v)].kind = "FIN"
<1>1. n \in Nat /\ n >= 1 /\ Len(u) \in Nat /\ n <= Len(u)
  OBVIOUS
<1>2. n # Len(u) /\ n < Len(u)
  BY <1>1
<1>3. Len(v) = Len(u) - n /\ \A i \in 1..Len(v) : v[i] = u[n + i]
  BY <1>1
<1>4. Len(v) \in 1..Len(v) /\ n + Len(v) = Len(u)
  BY <1>1, <1>2, <1>3
<1>5. v[Len(v)] = u[Len(u)]
  BY <1>3, <1>4, Zenon
<1>6. Len(v) # 0
  BY <1>4
<1> QED
  BY <1>5, <1>6

(* The rest of the way up is still the client's. *)
LEMMA ClientTail ==
    ASSUME NEW c, NEW u \in Seq(Segments), NEW n \in 1..Len(u), NEW known, NEW on,
           ClientEnd(c, u, known, on), NEW v, v = SubSeq(u, n + 1, Len(u))
    PROVE  ClientEnd(c, v, known, on)
<1>1. n \in Nat /\ n >= 1 /\ Len(u) \in Nat /\ n <= Len(u)
  OBVIOUS
<1>2. Len(v) = Len(u) - n /\ \A i \in 1..Len(v) : v[i] = u[n + i] /\ n + i \in 1..Len(u)
  BY <1>1
<1>3. \A i \in 1..Len(v) : v[i].kind = "FIN" => i = Len(v) /\ c.closed
  BY <1>1, <1>2 DEF ClientEnd
<1> QED
  BY <1>3 DEF ClientEnd

(* A relay's close, with word w to the client. *)
LEMMA CloseEffect ==
    ASSUME Typed, NEW s \in Sids, NEW r \in Relays, NEW w, Out!CloseAfter(s, r, w)
    PROVE  \/ /\ r.phase = "CLOSED" /\ relay'[s] = r /\ rx'[s] = rx[s]
              /\ down'[s] = IF rx[s].open THEN down[s] \o Out!Data(w) ELSE down[s]
           \/ /\ r.phase # "CLOSED" /\ ~rx'[s].open
              /\ relay'[s].sock = "none" /\ relay'[s].phase = "CLOSED" /\ relay'[s].late = r.late
              /\ down'[s] = IF rx[s].open THEN down[s] \o (Out!Data(w) \o Out!Fin) ELSE down[s]
<1>0. relay \in [Sids -> Relays] /\ rx \in [Sids -> [open : BOOLEAN, exp : Nat]]
      /\ down \in [Sids -> Seq(Segments)]
  BY DEF Typed
<1>1. CASE r.phase = "CLOSED"
  BY <1>0, <1>1 DEF Out!CloseAfter, Out!Sends
<1>2. CASE r.phase # "CLOSED"
  <2> DEFINE q == [r EXCEPT !.phase = "CLOSED", !.sock = "none", !.entry = FALSE]
  <2>1. /\ relay'[s] = q /\ rx'[s] = [rx[s] EXCEPT !.open = FALSE]
        /\ down'[s] = IF rx[s].open THEN down[s] \o (Out!Data(w) \o Out!Fin) ELSE down[s]
    BY <1>0, <1>2 DEF Out!CloseAfter, Out!Sends
  <2>2. q.sock = "none" /\ q.phase = "CLOSED" /\ q.late = r.late
    BY DEF Relays
  <2>3. ~rx'[s].open
    BY <1>0, <2>1
  <2> QED
    BY <1>2, <2>1, <2>2, <2>3
<1> QED
  BY <1>1, <1>2

LEMMA CloseEnds ==
    ASSUME Typed, StreamInv, EndInv, UNCHANGED inSide, NEW s \in Sids, NEW r \in Relays,
           NEW w \in Bytes, Out!CloseAfter(s, r, w), UNCHANGED up,
           r.late = relay[s].late, r.doomed = relay[s].doomed, r.sock \in {"none", relay[s].sock},
           busy' = <<>>
    PROVE  EndKept(s)
<1>0. /\ relay[s] \in Relays /\ rx[s] \in [open : BOOLEAN, exp : Nat] /\ sess[s] \in Clients
      /\ up[s] \in Seq(Segments) /\ down[s] \in Seq(Segments)
      /\ ClientEnd(sess[s], up[s], s < next_id, Begun(s))
      /\ Ending(s, sess[s], up[s], down[s], rx[s], relay[s], busy, Begun(s))
  BY BothEnds
<1>1. \/ /\ r.phase = "CLOSED" /\ relay'[s] = r /\ rx'[s] = rx[s]
         /\ down'[s] = IF rx[s].open THEN down[s] \o Out!Data(w) ELSE down[s]
      \/ /\ r.phase # "CLOSED" /\ ~rx'[s].open
         /\ relay'[s].sock = "none" /\ relay'[s].phase = "CLOSED" /\ relay'[s].late = r.late
         /\ down'[s] = IF rx[s].open THEN down[s] \o (Out!Data(w) \o Out!Fin) ELSE down[s]
  BY CloseEffect
<1>2. Ending(s, sess[s], up[s], down'[s], rx'[s], relay'[s], busy', Begun(s))
  <2>0. Lost(s, sess[s], up[s], relay[s], busy) /\ relay'[s].late = relay[s].late =>
          Lost(s, sess[s], up[s], relay'[s], busy')
    BY DEF Lost
  <2>1. CASE rx[s].open /\ rx'[s].open
    <3>1. relay'[s] = r
      BY <1>1, <2>1
    <3> QED
      BY <1>0, <2>1, <3>1, StillOpen DEF Ending
  <2>2. CASE rx[s].open /\ ~rx'[s].open
    <3>1. down'[s] = down[s] \o (Out!Data(w) \o Out!Fin) /\ relay'[s].sock = "none"
      BY <1>1, <2>2
    <3>2. /\ down'[s] \in Seq(Segments) /\ down'[s] # <<>>
          /\ down'[s][Len(down'[s])].kind = "FIN"
      BY <1>0, <3>1, SentFin
    <3>3. Begun(s) /\ sess[s].closed /\ ~sess[s].late /\ up[s] # <<>> => up[s][Len(up[s])].kind = "FIN"
      BY <1>0 DEF Ending
    <3> QED
      BY <2>2, <3>1, <3>2, <3>3, NowEnded
  <2>3. CASE ~rx[s].open
    <3>1. down'[s] = down[s] /\ ~rx'[s].open /\ relay'[s].late = relay[s].late
          /\ (relay'[s].sock = "none" \/ relay'[s].sock = relay[s].sock)
      BY <1>1, <2>3
    <3>2. relay'[s].sock # "none" => relay'[s].late
      BY <1>0, <2>3, <3>1 DEF Ending
    <3> QED
      BY <1>0, <2>0, <2>3, <3>1, <3>2, StillEnded
  <2> QED
    BY <1>0, <2>1, <2>2, <2>3
<1> QED
  BY <1>0, <1>2 DEF EndKept, inSide, Begun

LEMMA SynEnds ==
    ASSUME Typed, StreamInv, EndInv, UNCHANGED inSide, NEW s \in Sids, Out!ReceiveSyn(s)
    PROVE  EndKept(s)
<1>0. /\ relay[s] \in Relays /\ rx[s] \in [open : BOOLEAN, exp : Nat] /\ sess[s] \in Clients
      /\ up[s] \in Seq(Segments) /\ down[s] \in Seq(Segments)
      /\ Track(s, relay[s], rx[s], fed[s], taken[s], busy)
      /\ Flow(up[s], rx[s], fed[s], taken[s], sess[s].seq)
      /\ ClientEnd(sess[s], up[s], s < next_id, Begun(s))
      /\ Ending(s, sess[s], up[s], down[s], rx[s], relay[s], busy, Begun(s))
  BY BothEnds
<1>1. up[s] # <<>> /\ Head(up[s]).kind = "SYN" /\ UNCHANGED <<down, busy>>
      /\ up'[s] = SubSeq(up[s], 1 + 1, Len(up[s]))
  BY DEF Out!ReceiveSyn, Out!Heard, Out!Free, Out!Consume, Typed
<1>2. 1 \in 1..Len(up[s]) /\ up[s][1].kind = "SYN" /\ \A i \in 1..1 : up[s][i].kind # "FIN"
  BY <1>0, <1>1
<1>3. ~rx[s].open
  BY <1>0, <1>2 DEF Flow
<1>4. ~relay[s].entry
  BY <1>0, <1>3 DEF Track
<1>5. relay'[s] = Out!NewRelay /\ rx'[s] = [open |-> TRUE, exp |-> 0]
  BY <1>3, <1>4 DEF Out!ReceiveSyn, Out!Handler, Out!Ensured, Typed
<1>6. rx'[s].open /\ relay'[s].sock = "none"
  BY <1>5 DEF Out!NewRelay
<1>7. Begun(s) /\ sess[s].closed /\ ~sess[s].late =>
         up'[s] # <<>> /\ up'[s][Len(up'[s])].kind = "FIN"
  <2>1. Begun(s) /\ sess[s].closed /\ ~sess[s].late => up[s][Len(up[s])].kind = "FIN"
    BY <1>0, <1>1 DEF Ending
  <2> QED
    BY <1>0, <1>1, <1>2, <2>1, FrontTaken
<1>8. Ending(s, sess[s], up'[s], down'[s], rx'[s], relay'[s], busy', Begun(s))
  BY <1>6, <1>7, StillOpen
<1>9. ClientEnd(sess[s], up'[s], s < next_id, Begun(s))
  BY <1>0, <1>1, <1>2, ClientTail
<1> QED
  BY <1>8, <1>9 DEF EndKept, inSide, Begun

LEMMA FinEnds ==
    ASSUME Typed, StreamInv, EndInv, UNCHANGED inSide, NEW s \in Sids, Out!ReceiveFin(s)
    PROVE  EndKept(s)
<1>0. /\ relay[s] \in Relays /\ rx[s] \in [open : BOOLEAN, exp : Nat] /\ sess[s] \in Clients
      /\ up[s] \in Seq(Segments) /\ down[s] \in Seq(Segments) /\ Len(up[s]) \in Nat
      /\ ClientEnd(sess[s], up[s], s < next_id, Begun(s))
      /\ Ending(s, sess[s], up[s], down[s], rx[s], relay[s], busy, Begun(s))
  BY BothEnds
<1>1. /\ up[s] # <<>> /\ Head(up[s]).kind = "FIN" /\ busy = <<>> /\ busy' = <<>>
      /\ up'[s] = SubSeq(up[s], 1 + 1, Len(up[s]))
  BY DEF Out!ReceiveFin, Out!Heard, Out!Free, Out!Consume, Typed
<1>2. 1 \in 1..Len(up[s]) /\ up[s][1].kind = "FIN"
  BY <1>0, <1>1
<1>3. sess[s].closed /\ Len(up[s]) = 1
  BY <1>0, <1>2 DEF ClientEnd
<1>4. up'[s] = <<>>
  BY <1>0, <1>1, <1>3
<1>5. Ending(s, sess[s], <<>>, down'[s], rx'[s], relay'[s], busy', Begun(s))
  <2>1. CASE ~rx[s].open
    <3>1. relay' = relay /\ rx' = rx /\ down' = down
      BY <2>1 DEF Out!ReceiveFin
    <3>2. relay[s].sock # "none" => relay[s].late
      BY <1>0, <2>1 DEF Ending
    <3> QED
      BY <1>0, <1>1, <1>3, <2>1, <3>1, <3>2, FinTaken
  <2>2. CASE rx[s].open /\ relay[s].phase = "CLOSED"
    <3>1. /\ rx'[s] = [rx[s] EXCEPT !.open = FALSE] /\ down' = down
          /\ relay'[s] = [relay[s] EXCEPT !.late = TRUE]
      BY <2>2 DEF Out!ReceiveFin, Typed
    <3>2. ~rx'[s].open /\ relay'[s].late
      BY <1>0, <3>1 DEF Relays
    <3> QED
      BY <1>0, <1>1, <1>3, <3>1, <3>2, FinTaken
  <2>3. CASE rx[s].open /\ relay[s].phase # "CLOSED"
    <3>1. Out!CloseAfter(s, relay[s], <<>>)
      BY <2>3 DEF Out!ReceiveFin
    <3>2. /\ ~rx'[s].open /\ relay'[s].sock = "none"
          /\ down'[s] = down[s] \o (Out!Data(<<>>) \o Out!Fin)
      BY <1>0, <2>3, <3>1, CloseEffect
    <3>3. /\ down'[s] \in Seq(Segments) /\ down'[s] # <<>>
          /\ down'[s][Len(down'[s])].kind = "FIN"
      BY <1>0, <3>2, SentFin, NoBytes
    <3> QED
      BY <3>2, <3>3, NowEnded
  <2> QED
    BY <1>0, <2>1, <2>2, <2>3
<1>6. ClientEnd(sess[s], up'[s], s < next_id, Begun(s))
  BY <1>0, <1>1, <1>2, ClientTail
<1> QED
  BY <1>4, <1>5, <1>6 DEF EndKept, inSide, Begun

(* A step that sends what it likes while the session is open, and leaves a  *)
(* session that is not. *)
LEMMA NothingEnds ==
    ASSUME Typed, StreamInv, EndInv, UNCHANGED inSide, NEW s \in Sids,
           UNCHANGED <<up, rx>>, ~rx[s].open => down'[s] = down[s],
           relay'[s].doomed = "half" /\ relay'[s].sock # "none" => relay'[s].late,
           relay'[s].sock # "none" /\ ~relay'[s].late => rx[s].open,
           relay[s].late /\ busy # <<s, "dial">> => relay'[s].late /\ busy' # <<s, "dial">>
    PROVE  EndKept(s)
<1>0. /\ rx[s] \in [open : BOOLEAN, exp : Nat]
      /\ ClientEnd(sess[s], up[s], s < next_id, Begun(s))
      /\ Ending(s, sess[s], up[s], down[s], rx[s], relay[s], busy, Begun(s))
  BY BothEnds
<1>1. Lost(s, sess[s], up[s], relay[s], busy) => Lost(s, sess[s], up[s], relay'[s], busy')
  BY DEF Lost
<1>2. Ending(s, sess[s], up[s], down'[s], rx[s], relay'[s], busy', Begun(s))
  <2>1. CASE rx[s].open
    <3>1. Begun(s) /\ sess[s].closed /\ ~sess[s].late => up[s] # <<>> /\ up[s][Len(up[s])].kind = "FIN"
      BY <1>0, <2>1 DEF Ending
    <3> QED
      BY <2>1, <3>1, StillOpen
  <2>2. CASE ~rx[s].open
    BY <1>0, <1>1, <2>2, StillEnded
  <2> QED
    BY <1>0, <2>1, <2>2
<1> QED
  BY <1>0, <1>2 DEF EndKept, inSide, Begun

LEMMA ConnectEnds ==
    ASSUME Typed, StreamInv, EndInv, UNCHANGED inSide, NEW s \in Sids,
           Out!startConnect(s) \/ Out!onRemoteOpen(s) \/ Out!startRelaying(s)
           \/ Out!onRemoteBytes(s) \/ Out!onRemoteClose(s)
    PROVE  EndKept(s)
<1>0. /\ relay[s] \in Relays /\ rx[s] \in [open : BOOLEAN, exp : Nat] /\ sess[s] \in Clients
      /\ Track(s, relay[s], rx[s], fed[s], taken[s], busy)
      /\ Ending(s, sess[s], up[s], down[s], rx[s], relay[s], busy, Begun(s))
  BY BothEnds
<1>1. CASE Out!startConnect(s)
  <2>1. busy = <<s, "dial">> /\ busy' = <<>> /\ up' = up
    BY <1>1 DEF Out!startConnect
  <2>2. CASE Out!CloseAfter(s, relay[s], <<"unreach">>)
    BY <1>0, <2>1, <2>2, CloseEnds, Replies
  <2>3. CASE /\ relay' = [relay EXCEPT ![s].sock = "connecting", ![s].late = relay[s].phase = "CLOSED"]
             /\ UNCHANGED <<down, rx>>
    <3>1. /\ relay'[s].sock = "connecting" /\ relay'[s].late = (relay[s].phase = "CLOSED")
          /\ relay'[s].doomed = relay[s].doomed
      BY <1>0, <2>3 DEF Typed, Relays
    <3>2. /\ relay[s].phase \in {"CONNECTING", "CLOSED"}
          /\ relay[s].phase = "CONNECTING" => rx[s].open
          /\ relay[s].doomed = "half" => relay[s].phase = "CLOSED"
      BY <1>0, <2>1 DEF Track
    <3> QED
      BY <2>1, <2>3, <3>1, <3>2, NothingEnds
  <2> QED
    BY <1>1, <2>2, <2>3 DEF Out!startConnect
<1>2. CASE Out!onRemoteOpen(s)
  <2>1. /\ relay[s].sock = "connecting" /\ busy = <<>> /\ busy' = <<s, "open">> /\ UNCHANGED <<up, rx>>
        /\ relay'[s] = [relay[s] EXCEPT !.sock = "open"]
        /\ ~rx[s].open => down'[s] = down[s]
    BY <1>2 DEF Out!onRemoteOpen, Out!Free, Out!Sends, Typed
  <2>2. /\ relay'[s].sock = "open" /\ relay'[s].late = relay[s].late
        /\ relay'[s].doomed = relay[s].doomed
    BY <1>0, <2>1 DEF Relays
  <2> QED
    BY <1>0, <2>1, <2>2, NothingEnds DEF Ending
<1>3. CASE Out!startRelaying(s)
  <2>1. /\ busy = <<s, "open">> /\ busy' = <<>> /\ UNCHANGED <<up, rx, down>>
        /\ relay'[s] = [relay[s] EXCEPT !.phase = "RELAYING", !.buf = <<>>]
    BY <1>3 DEF Out!startRelaying, Typed
  <2>2. /\ relay'[s].sock = relay[s].sock /\ relay'[s].late = relay[s].late
        /\ relay'[s].doomed = relay[s].doomed
    BY <1>0, <2>1 DEF Relays
  <2> QED
    BY <1>0, <2>1, <2>2, NothingEnds DEF Ending
<1>4. CASE Out!onRemoteBytes(s)
  <2>1. /\ UNCHANGED <<up, rx, relay, busy>>
        /\ ~rx[s].open => down'[s] = down[s]
    BY <1>4 DEF Out!onRemoteBytes, Out!Sends
  <2> QED
    BY <1>0, <2>1, NothingEnds DEF Ending
<1>5. CASE Out!onRemoteClose(s)
  <2> DEFINE q == [relay[s] EXCEPT !.sock = "none"]
  <2>1. q \in Relays /\ q.sock = "none" /\ q.late = relay[s].late /\ q.doomed = relay[s].doomed
    BY <1>0 DEF Relays
  <2>2. Out!CloseAfter(s, q, <<>>) /\ busy' = <<>> /\ up' = up
    BY <1>5 DEF Out!onRemoteClose, Out!Free
  <2> HIDE DEF q
  <2> QED
    BY <2>1, <2>2, CloseEnds, NoBytes
<1> QED
  BY <1>1, <1>2, <1>3, <1>4, <1>5

LEMMA StopEnds ==
    ASSUME Typed, StreamInv, EndInv, UNCHANGED inSide, NEW s \in Sids,
           Out!stop \/ Out!StopRelay(s) \/ Out!StopRelaySession(s)
    PROVE  EndKept(s)
<1>0. /\ relay[s] \in Relays /\ rx[s] \in [open : BOOLEAN, exp : Nat] /\ sess[s] \in Clients
      /\ up[s] \in Seq(Segments) /\ down[s] \in Seq(Segments)
      /\ ClientEnd(sess[s], up[s], s < next_id, Begun(s))
      /\ Ending(s, sess[s], up[s], down[s], rx[s], relay[s], busy, Begun(s))
  BY BothEnds
<1>1. CASE Out!stop
  <2>1. /\ relay'[s] = IF relay[s].entry THEN [relay[s] EXCEPT !.entry = FALSE, !.doomed = "todo"] ELSE relay[s]
        /\ UNCHANGED <<up, rx, down, busy>>
    BY <1>1 DEF Out!stop
  <2>2. /\ relay'[s].sock = relay[s].sock /\ relay'[s].late = relay[s].late
        /\ relay'[s].doomed = "half" => relay[s].doomed = "half"
    BY <1>0, <2>1 DEF Relays
  <2> QED
    BY <1>0, <2>1, <2>2, NothingEnds DEF Ending
<1>2. CASE Out!StopRelay(s)
  <2>1. /\ UNCHANGED <<up, rx, down, busy>>
        /\ relay'[s] = IF relay[s].phase = "CLOSED" THEN [relay[s] EXCEPT !.doomed = "no"]
                       ELSE [relay[s] EXCEPT !.phase = "CLOSED", !.sock = "none", !.doomed = "half"]
    BY <1>2 DEF Out!StopRelay, Typed
  <2>2. /\ relay'[s].sock = "none" \/ (relay'[s].sock = relay[s].sock /\ relay'[s].doomed = "no")
        /\ relay'[s].late = relay[s].late
    BY <1>0, <2>1 DEF Relays
  <2> QED
    BY <1>0, <2>1, <2>2, NothingEnds DEF Ending
<1>3. CASE Out!StopRelaySession(s)
  <2>1. /\ relay[s].doomed = "half" /\ UNCHANGED <<up, busy>>
        /\ relay'[s] = [relay[s] EXCEPT !.doomed = "no", !.entry = FALSE]
        /\ rx'[s] = [rx[s] EXCEPT !.open = FALSE]
        /\ down'[s] = IF rx[s].open THEN down[s] \o Out!Fin ELSE down[s]
    BY <1>3 DEF Out!StopRelaySession, Out!Sends, Typed
  <2>2. relay'[s].sock = relay[s].sock /\ relay'[s].late = relay[s].late /\ ~rx'[s].open
    BY <1>0, <2>1 DEF Relays
  <2>3. relay'[s].sock # "none" => relay'[s].late
    BY <1>0, <2>1, <2>2 DEF Ending
  <2>4. CASE rx[s].open
    <3>1. /\ down'[s] \in Seq(Segments) /\ down'[s] # <<>>
          /\ down'[s][Len(down'[s])].kind = "FIN"
      BY <1>0, <2>1, <2>4, SentFin, NoBytes
    <3>2. Begun(s) /\ sess[s].closed /\ ~sess[s].late /\ up[s] # <<>> => up[s][Len(up[s])].kind = "FIN"
      BY <1>0 DEF Ending
    <3>3. Ending(s, sess[s], up[s], down'[s], rx'[s], relay'[s], busy', Begun(s))
      BY <2>2, <2>3, <3>1, <3>2, NowEnded
    <3> QED
      BY <1>0, <2>1, <3>3 DEF EndKept, inSide, Begun
  <2>5. CASE ~rx[s].open
    <3>1. Lost(s, sess[s], up[s], relay[s], busy) => Lost(s, sess[s], up[s], relay'[s], busy)
      BY <2>2 DEF Lost
    <3>2. Ending(s, sess[s], up[s], down[s], rx'[s], relay'[s], busy, Begun(s))
      BY <1>0, <2>2, <2>3, <2>5, <3>1, StillEnded
    <3> QED
      BY <1>0, <2>1, <2>5, <3>2 DEF EndKept, inSide, Begun
  <2> QED
    BY <1>0, <2>4, <2>5
<1> QED
  BY <1>1, <1>2, <1>3

LEMMA DataEnds ==
    ASSUME Typed, StreamInv, EndInv, UNCHANGED inSide, NEW s \in Sids, NEW n \in 1..Len(up[s]),
           Out!ReceiveData(s, n)
    PROVE  EndKept(s)
<1>0. /\ relay[s] \in Relays /\ rx[s] \in [open : BOOLEAN, exp : Nat] /\ sess[s] \in Clients
      /\ up[s] \in Seq(Segments) /\ down[s] \in Seq(Segments) /\ Len(up[s]) \in Nat
      /\ Track(s, relay[s], rx[s], fed[s], taken[s], busy)
      /\ ClientEnd(sess[s], up[s], s < next_id, Begun(s))
      /\ Ending(s, sess[s], up[s], down[s], rx[s], relay[s], busy, Begun(s))
  BY BothEnds
<1>1. PICK b \in Bytes, r \in Relays, q \in Relays, bad \in BOOLEAN : DataStep(s, n, b, r, q, bad)
  BY DataFacts
<1>2. rx'[s].open = ~bad
  BY <1>1, Given
<1>3. /\ up'[s] = SubSeq(up[s], n + 1, Len(up[s]))
      /\ \A i \in 1..n : up[s][i].kind # "FIN"
  BY <1>1 DEF DataStep, Typed
<1>4. up[s] # <<>>
  BY <1>0
<1>5. Begun(s) /\ sess[s].closed /\ ~sess[s].late =>
         up'[s] # <<>> /\ up'[s][Len(up'[s])].kind = "FIN"
  <2>1. Begun(s) /\ sess[s].closed /\ ~sess[s].late => up[s][Len(up[s])].kind = "FIN"
    BY <1>0, <1>4 DEF Ending
  <2> QED
    BY <1>0, <1>3, <2>1, FrontTaken
<1>6. /\ r.sock # "none" /\ r.doomed = "half" => r.late
      /\ r.phase \in {"METHODS", "REQUEST"} => r.sock = "none"
  <2>1. Out!Handler(s) \in {relay[s], Out!NewRelay} /\ Out!Handler(s) \in Relays
    BY HandlerType DEF Out!Handler, Out!Ensured
  <2>2. /\ Out!NewRelay.sock = "none" /\ Out!NewRelay.phase = "METHODS" /\ Out!NewRelay.doomed = "no"
        /\ relay[s].phase \in {"METHODS", "REQUEST"} => relay[s].sock = "none"
        /\ relay[s].sock # "none" /\ relay[s].doomed = "half" => relay[s].late
    BY <1>0 DEF Out!NewRelay, Track, Ending
  <2> DEFINE h == Out!Handler(s)
  <2>3. /\ h \in Relays /\ r = [h EXCEPT !.buf = h.buf \o b]
        /\ h.sock # "none" /\ h.doomed = "half" => h.late
        /\ h.phase \in {"METHODS", "REQUEST"} => h.sock = "none"
    BY <1>1, <2>1, <2>2 DEF DataStep
  <2> HIDE DEF h
  <2>4. r.sock = h.sock /\ r.doomed = h.doomed /\ r.late = h.late /\ r.phase = h.phase
    BY <2>3 DEF Relays
  <2> QED
    BY <2>3, <2>4
<1>7. Ending(s, sess[s], up'[s], down'[s], rx'[s], relay'[s], busy', Begun(s))
  <2>1. CASE ~bad
    <3>1. relay'[s] \in {[r EXCEPT !.buf = <<>>], q}
      BY <1>1, <2>1 DEF DataStep, Typed
    <3>2. q.sock = r.sock /\ q.doomed = r.doomed /\ q.late = r.late
      BY <1>1 DEF DataStep, Advanced
    <3>3. relay'[s].sock = r.sock /\ relay'[s].doomed = r.doomed /\ relay'[s].late = r.late
      BY <3>1, <3>2 DEF Relays
    <3> QED
      BY <1>2, <1>5, <1>6, <2>1, <3>3, StillOpen
  <2>2. CASE bad
    <3>1. relay'[s] = [q EXCEPT !.phase = "CLOSED", !.entry = FALSE]
      BY <1>1, <2>2 DEF DataStep, Typed
    <3>2. relay'[s].sock = "none"
      <4>1. q.sock = r.sock /\ r.phase \in {"METHODS", "REQUEST"}
        BY <1>1, <2>2 DEF DataStep, Advanced
      <4>2. relay'[s].sock = q.sock
        BY <3>1 DEF Relays
      <4> QED
        BY <1>6, <4>1, <4>2
    <3>3. PICK w \in Bytes : down'[s] = down[s] \o (Out!Data(w) \o Out!Fin)
      BY <1>1, <2>2 DEF DataStep, Reply, Typed
    <3>4. /\ down'[s] \in Seq(Segments) /\ down'[s] # <<>>
          /\ down'[s][Len(down'[s])].kind = "FIN"
      BY <1>0, <3>3, SentFin
    <3> QED
      BY <1>2, <1>5, <2>2, <3>2, <3>4, NowEnded
  <2> QED
    BY <2>1, <2>2
<1>8. ClientEnd(sess[s], up'[s], s < next_id, Begun(s))
  BY <1>0, <1>3, ClientTail
<1> QED
  BY <1>7, <1>8 DEF EndKept, inSide, Begun

LEMMA OthersEnd ==
    ASSUME Typed, StreamInv, EndInv, NEW c \in Sids, NEW s \in Sids \ {c}, Local(c), UNCHANGED inSide
    PROVE  EndKept(s)
<1>1. /\ up'[s] = up[s] /\ down'[s] = down[s] /\ relay'[s] = relay[s]
      /\ rx'[s] = rx[s] /\ sess'[s] = sess[s]
  BY DEF Local, inSide
<1>2. busy' = <<s, "dial">> => busy = <<s, "dial">>
  BY DEF Local
<1>3. /\ ClientEnd(sess[s], up[s], s < next_id, Begun(s))
      /\ Ending(s, sess[s], up[s], down[s], rx[s], relay[s], busy, Begun(s))
  BY BothEnds
<1>4. Lost(s, sess[s], up[s], relay[s], busy) => Lost(s, sess[s], up[s], relay[s], busy')
  BY <1>2 DEF Lost
<1>5. Ending(s, sess[s], up[s], down[s], rx[s], relay[s], busy', Begun(s))
  BY <1>3, <1>4 DEF Ending
<1> QED
  BY <1>1, <1>3, <1>5 DEF EndKept, inSide, Begun

(* A step of the Outport keeps both ends. *)
LEMMA OutEnds ==
    ASSUME Typed, StreamInv, EndInv, Outport, NEW s \in Sids
    PROVE  EndKept(s)
<1>0. UNCHANGED inSide
  BY DEF Outport
<1>1. Out!stop \/ \E c \in Sids : StepAt(c)
  BY DEF Outport, Out!OutNext, Out!Progress, StepAt
<1>2. CASE Out!stop
  BY <1>0, <1>2, StopEnds
<1>3. CASE \E c \in Sids : StepAt(c)
  <2>1. PICK c \in Sids : StepAt(c)
    BY <1>3
  <2>2. CASE c = s
    BY <1>0, <2>1, <2>2, SynEnds, FinEnds, DataEnds, ConnectEnds, StopEnds DEF StepAt
  <2>3. CASE c # s
    BY <1>0, <2>1, <2>3, StepIsLocal, OthersEnd
  <2> QED
    BY <2>2, <2>3
<1> QED
  BY <1>1, <1>2, <1>3

-----------------------------------------------------------------------------
(* Both ends, over a step of the Inport.                                    *)

LEMMA TailParts ==
    ASSUME NEW d \in Seq(Segments), d # <<>>
    PROVE  /\ Tail(d) \in Seq(Segments) /\ Len(d) \in Nat /\ Len(d) >= 1 /\ Len(Tail(d)) = Len(d) - 1
           /\ Head(d) = d[1]
           /\ \A i \in 1..Len(Tail(d)) : Tail(d)[i] = d[i + 1]
OBVIOUS

(* The first segment on the way back is taken. *)
LEMMA BackTaken ==
    ASSUME NEW d \in Seq(Segments), d # <<>>, NEW P,
           \A i \in 1..Len(d) : d[i].kind = "DATA" => P \/ \E j \in 1..Len(d) : i < j /\ d[j].kind = "FIN"
    PROVE  /\ \A i \in 1..Len(Tail(d)) : Tail(d)[i].kind = "DATA" =>
                 P \/ \E j \in 1..Len(Tail(d)) : i < j /\ Tail(d)[j].kind = "FIN"
           /\ Finishing(d) /\ Head(d).kind # "FIN" => Finishing(Tail(d))
           /\ Head(d).kind = "DATA" => P \/ Finishing(Tail(d))
<1> DEFINE e == Tail(d)
           m == Len(d)
<1>1. /\ e \in Seq(Segments) /\ m \in Nat /\ m >= 1 /\ Len(e) = m - 1
      /\ Head(d) = d[1] /\ \A i \in 1..Len(e) : e[i] = d[i + 1]
  BY TailParts
<1> HIDE DEF e
<1>2. \A j \in 1..m : j > 1 => j - 1 \in 1..Len(e) /\ e[j - 1] = d[j]
  <2> TAKE j \in 1..m
  <2> HAVE j > 1
  <2>1. j \in Nat /\ j - 1 \in 1..Len(e) /\ (j - 1) + 1 = j
    BY <1>1
  <2> QED
    BY <1>1, <2>1
<1>3. \A i \in 1..Len(e) : e[i].kind = "DATA" => P \/ \E j \in 1..Len(e) : i < j /\ e[j].kind = "FIN"
  <2> SUFFICES ASSUME NEW i \in 1..Len(e), e[i].kind = "DATA", ~P
               PROVE  \E j \in 1..Len(e) : i < j /\ e[j].kind = "FIN"
    OBVIOUS
  <2>1. i + 1 \in 1..m /\ d[i + 1].kind = "DATA"
    BY <1>1
  <2>2. PICK j \in 1..m : i + 1 < j /\ d[j].kind = "FIN"
    BY <2>1
  <2>3. j - 1 \in 1..Len(e) /\ e[j - 1] = d[j] /\ i < j - 1
    BY <1>1, <1>2, <2>2
  <2> QED
    BY <2>2, <2>3
<1>4. Finishing(d) /\ Head(d).kind # "FIN" => Finishing(e)
  <2> SUFFICES ASSUME Finishing(d), Head(d).kind # "FIN" PROVE Finishing(e)
    OBVIOUS
  <2>1. PICK j \in 1..m : d[j].kind = "FIN"
    BY DEF Finishing
  <2>2. j > 1
    BY <1>1, <2>1
  <2> QED
    BY <1>2, <2>1, <2>2 DEF Finishing
<1>5. Head(d).kind = "DATA" => P \/ Finishing(e)
  <2> SUFFICES ASSUME Head(d).kind = "DATA", ~P PROVE Finishing(e)
    OBVIOUS
  <2>1. 1 \in 1..m /\ d[1].kind = "DATA"
    BY <1>1
  <2>2. PICK j \in 1..m : 1 < j /\ d[j].kind = "FIN"
    BY <2>1
  <2> QED
    BY <1>2, <2>2 DEF Finishing
<1> QED
  BY <1>3, <1>4, <1>5 DEF e

(* A session that the step does not concern. *)
LEMMA Unmoved ==
    ASSUME EndInv, NEW s \in Sids, up'[s] = up[s], down'[s] = down[s], sess'[s] = sess[s],
           s < next_id' <=> s < next_id, half' = s <=> half = s, UNCHANGED <<rx, relay, busy>>
    PROVE  EndKept(s)
<1>1. /\ ClientEnd(sess[s], up[s], s < next_id, Begun(s))
      /\ Ending(s, sess[s], up[s], down[s], rx[s], relay[s], busy, Begun(s))
  BY DEF EndInv
<1>2. ClientEnd(sess'[s], up'[s], s < next_id', s < next_id' /\ half' # s)
  BY <1>1 DEF ClientEnd, Begun
<1>3. Ending(s, sess'[s], up'[s], down'[s], rx'[s], relay'[s], busy', s < next_id' /\ half' # s)
  BY <1>1 DEF Ending, Begun
<1> QED
  BY <1>2, <1>3 DEF EndKept

(* FgwSession::close of a session that is accepted and not closed. *)
LEMMA ClientCloses ==
    ASSUME NEW s, NEW c, NEW u \in Seq(Segments), NEW d, NEW x, NEW r, NEW b, NEW known, NEW on,
           ClientEnd(c, u, known, on), Ending(s, c, u, d, x, r, b, on), known, ~c.closed,
           NEW e \in Clients, e.closed, ~e.tcp, e.stream = "none", e.late = c.late, NEW n,
           NEW v, v = IF c.stream = "none" THEN u ELSE Append(u, In!Seg("FIN", n, <<>>))
    PROVE  ClientEnd(e, v, known, on) /\ Ending(s, e, v, d, x, r, b, on)
<1> DEFINE g == In!Seg("FIN", n, <<>>)
<1>0. g.kind = "FIN"
  BY DEF In!Seg
<1>1. Len(u) \in Nat /\ \A i \in 1..Len(u) : u[i].kind # "FIN"
  BY DEF ClientEnd
<1>2. on => v = Append(u, g)
  BY DEF ClientEnd
<1>3. v = u \/ v = Append(u, g)
  OBVIOUS
<1> HIDE DEF g
<1>4. v = Append(u, g) => /\ Len(v) = Len(u) + 1 /\ v[Len(v)] = g /\ v # <<>>
                          /\ \A i \in 1..Len(u) : v[i] = u[i]
  BY <1>1
<1>5. \A i \in 1..Len(v) : v[i].kind = "FIN" => i = Len(v)
  BY <1>1, <1>3, <1>4
<1>6. ClientEnd(e, v, known, on)
  BY <1>5 DEF ClientEnd
<1>7. ~Lost(s, c, u, r, b)
  BY DEF Lost
<1>8. Ending(s, e, v, d, x, r, b, on)
  BY <1>0, <1>2, <1>4, <1>7 DEF Ending
<1> QED
  BY <1>6, <1>8

(* The segment at the front of the way back is taken by an open client. *)
LEMMA BackEnding ==
    ASSUME NEW s, NEW c \in Clients, NEW u, NEW d \in Seq(Segments), d # <<>>, NEW x, NEW r, NEW b, NEW on,
           Ending(s, c, u, d, x, r, b, on), NEW e, e = Tail(d)
    PROVE  /\ \A i \in 1..Len(e) : e[i].kind = "DATA" =>
                 \/ x.open \/ Lost(s, c, u, r, b)
                 \/ \E j \in 1..Len(e) : i < j /\ e[j].kind = "FIN"
           /\ Finishing(d) /\ Head(d).kind # "FIN" => Finishing(e)
           /\ Head(d).kind = "DATA" => x.open \/ Lost(s, c, u, r, b) \/ Finishing(e)
<1> DEFINE P == x.open \/ Lost(s, c, u, r, b)
<1>1. \A i \in 1..Len(d) : d[i].kind = "DATA" => P \/ \E j \in 1..Len(d) : i < j /\ d[j].kind = "FIN"
  BY DEF Ending
<1> HIDE DEF P
<1>2. /\ \A i \in 1..Len(Tail(d)) : Tail(d)[i].kind = "DATA" =>
            P \/ \E j \in 1..Len(Tail(d)) : i < j /\ Tail(d)[j].kind = "FIN"
      /\ Finishing(d) /\ Head(d).kind # "FIN" => Finishing(Tail(d))
      /\ Head(d).kind = "DATA" => P \/ Finishing(Tail(d))
  BY <1>1, BackTaken
<1> QED
  BY <1>2 DEF P

(* close of session s, with down' either down or its rest. *)
LEMMA CloseEnd ==
    ASSUME Typed, StreamInv, EndInv, NEW s \in Sids, In!close(s), s < next_id,
           UNCHANGED <<next_id, half, rx, relay, busy>>,
           \/ down'[s] = down[s]
           \/ down[s] # <<>> /\ down'[s] = Tail(down[s]) /\ ~sess[s].closed
    PROVE  EndKept(s)
<1>0. /\ sess[s] \in Clients /\ up[s] \in Seq(Segments) /\ down[s] \in Seq(Segments)
      /\ sess \in [Sids -> Clients] /\ up \in [Sids -> Seq(Segments)]
      /\ ClientEnd(sess[s], up[s], s < next_id, Begun(s))
      /\ Ending(s, sess[s], up[s], down[s], rx[s], relay[s], busy, Begun(s))
  BY BothEnds DEF Typed
<1>1. CASE sess[s].closed
  <2>1. sess' = sess /\ up' = up
    BY <1>1 DEF In!close
  <2> QED
    BY <1>1, <2>1, Unmoved
<1>2. CASE ~sess[s].closed
  <2> DEFINE e == [sess[s] EXCEPT !.closed = TRUE, !.tcp = FALSE,
                                  !.entry = FALSE, !.doomed = FALSE, !.stream = "none"]
  <2>1. /\ sess'[s] = e
        /\ up'[s] = IF sess[s].stream = "none" THEN up[s]
                    ELSE Append(up[s], In!Seg("FIN", sess[s].seq, <<>>))
    BY <1>0, <1>2 DEF In!close
  <2>2. e \in Clients /\ e.closed /\ ~e.tcp /\ e.stream = "none" /\ e.late = sess[s].late
    BY <1>0 DEF Clients
  <2> HIDE DEF e
  <2>3. /\ ClientEnd(e, up'[s], s < next_id, Begun(s))
        /\ Ending(s, e, up'[s], down[s], rx[s], relay[s], busy, Begun(s))
    BY <1>0, <1>2, <2>1, <2>2, ClientCloses
  <2>4. Ending(s, e, up'[s], down'[s], rx[s], relay[s], busy, Begun(s))
    <3>1. CASE down'[s] = down[s]
      BY <2>3, <3>1
    <3>2. CASE down[s] # <<>> /\ down'[s] = Tail(down[s])
      <4>0. down[s] \in Seq(Segments) /\ down[s] # <<>> /\ down'[s] = Tail(down[s]) /\ e \in Clients
        BY <1>0, <2>2, <3>2
      <4>1. /\ \A i \in 1..Len(down'[s]) : down'[s][i].kind = "DATA" =>
                 \/ rx[s].open \/ Lost(s, e, up'[s], relay[s], busy)
                 \/ \E j \in 1..Len(down'[s]) : i < j /\ down'[s][j].kind = "FIN"
            /\ Finishing(down[s]) /\ Head(down[s]).kind # "FIN" => Finishing(down'[s])
            /\ Head(down[s]).kind = "DATA" =>
                 rx[s].open \/ Lost(s, e, up'[s], relay[s], busy) \/ Finishing(down'[s])
        BY <2>3, <4>0, BackEnding, Zenon
      <4> QED
        BY <2>2, <2>3, <3>2, <4>1 DEF Ending
    <3> QED
      BY <3>1, <3>2
  <2> QED
    BY <2>1, <2>3, <2>4 DEF EndKept, Begun
<1> QED
  BY <1>1, <1>2

LEMMA AcceptEnds ==
    ASSUME Typed, StreamInv, EndInv, UNCHANGED outSide, NEW s \in Sids, In!Accept \/ In!OpenSession
    PROVE  EndKept(s)
<1>0. /\ UNCHANGED <<rx, relay, busy>> /\ s \in Nat /\ s # 0 /\ next_id \in Nat /\ half \in Sids \cup {0}
      /\ sess[s] \in Clients /\ sess \in [Sids -> Clients] /\ up \in [Sids -> Seq(Segments)]
      /\ Early(s)
      /\ ClientEnd(sess[s], up[s], s < next_id, Begun(s))
      /\ Ending(s, sess[s], up[s], down[s], rx[s], relay[s], busy, Begun(s))
  BY BothEnds, SidsAssumption DEF outSide, Typed
<1>1. CASE In!Accept
  <2>1. /\ sess' = [sess EXCEPT ![next_id] = [sess[next_id] EXCEPT !.tcp = TRUE, !.entry = TRUE]]
        /\ next_id \in Sids /\ half = 0 /\ half' = next_id /\ next_id' = next_id + 1
        /\ up' = up /\ down' = down
    BY <1>1 DEF In!Accept, In!Free
  <2>2. CASE s = next_id
    <3>1. ~(s < next_id) /\ s < next_id' /\ half' = s
      BY <1>0, <2>1, <2>2
    <3>2. up[s] = <<>> /\ down[s] = <<>>
      BY <1>0, <3>1 DEF Early
    <3>3. ~sess[s].closed /\ ~sess[s].late /\ sess[s].stream = "none"
      BY <1>0, <3>1 DEF ClientEnd, Early
    <3>4. ~sess'[s].closed /\ ~sess'[s].late /\ sess'[s].stream = "none" /\ sess'[s].tcp
      BY <1>0, <2>1, <2>2, <3>3 DEF Clients
    <3>5. ClientEnd(sess'[s], up'[s], s < next_id', s < next_id' /\ half' # s)
      BY <2>1, <3>1, <3>2, <3>4 DEF ClientEnd
    <3>6. Ending(s, sess'[s], up'[s], down'[s], rx[s], relay[s], busy, s < next_id' /\ half' # s)
      BY <1>0, <2>1, <3>1, <3>2, <3>4 DEF Ending
    <3> QED
      BY <1>0, <3>5, <3>6 DEF EndKept
  <2>3. CASE s # next_id
    <3>1. (s < next_id' <=> s < next_id) /\ (half' = s <=> half = s)
      BY <1>0, <2>1, <2>3
    <3>2. sess'[s] = sess[s]
      BY <1>0, <2>1, <2>3
    <3> QED
      BY <1>0, <2>1, <3>1, <3>2, Unmoved
  <2> QED
    BY <2>2, <2>3
<1>2. CASE In!OpenSession
  <2>1. /\ half \in Sids
        /\ up' = [up EXCEPT ![half] = Append(up[half], In!Seg("SYN", 0, <<>>))]
        /\ sess' = [sess EXCEPT ![half] = [sess[half] EXCEPT !.stream = "open", !.late = sess[half].closed]]
        /\ half' = 0 /\ next_id' = next_id /\ down' = down
    BY <1>0, <1>2 DEF In!OpenSession
  <2>2. CASE half = s
    <3>1. up[s] = <<>> /\ down[s] = <<>> /\ s < next_id
      BY <1>0, <2>2 DEF Early
    <3>2. up'[s] = <<In!Seg("SYN", 0, <<>>)>>
      BY <1>0, <2>1, <2>2, <3>1
    <3>3. Len(up'[s]) = 1 /\ up'[s][1].kind = "SYN" /\ up'[s] # <<>>
      BY <3>2 DEF In!Seg
    <3>4. /\ sess'[s].closed = sess[s].closed /\ sess'[s].late = sess[s].closed
          /\ sess'[s].stream = "open" /\ sess'[s].tcp = sess[s].tcp
      BY <1>0, <2>1, <2>2 DEF Clients
    <3>5. ClientEnd(sess'[s], up'[s], s < next_id', s < next_id' /\ half' # s)
      BY <1>0, <2>1, <3>1, <3>3, <3>4 DEF ClientEnd
    <3>6. Ending(s, sess'[s], up'[s], down'[s], rx[s], relay[s], busy, s < next_id' /\ half' # s)
      BY <1>0, <2>1, <3>1, <3>3, <3>4 DEF Ending
    <3> QED
      BY <1>0, <3>5, <3>6 DEF EndKept
  <2>3. CASE half # s
    <3>1. sess'[s] = sess[s] /\ up'[s] = up[s]
      BY <1>0, <2>1, <2>3
    <3> QED
      BY <1>0, <2>1, <2>3, <3>1, Unmoved
  <2> QED
    BY <2>2, <2>3
<1> QED
  BY <1>1, <1>2

LEMMA BytesEnd ==
    ASSUME Typed, StreamInv, EndInv, UNCHANGED outSide, NEW s \in Sids, In!onClientBytes(s)
    PROVE  EndKept(s)
<1>0. /\ UNCHANGED <<rx, relay, busy>>
      /\ sess[s] \in Clients /\ up[s] \in Seq(Segments) /\ Len(up[s]) \in Nat
      /\ ClientEnd(sess[s], up[s], s < next_id, Begun(s))
      /\ Ending(s, sess[s], up[s], down[s], rx[s], relay[s], busy, Begun(s))
  BY BothEnds DEF outSide
<1> DEFINE g == In!Seg("DATA", sess[s].seq, <<Head(todo[s])>>)
<1>1. /\ up'[s] = Append(up[s], g)
      /\ sess'[s] = [sess[s] EXCEPT !.seq = sess[s].seq + 1]
      /\ ~sess[s].closed /\ UNCHANGED <<half, next_id, down>>
  BY DEF In!onClientBytes, Typed
<1>2. g.kind = "DATA"
  BY DEF In!Seg
<1> HIDE DEF g
<1>3. /\ Len(up'[s]) = Len(up[s]) + 1 /\ up'[s][Len(up[s]) + 1] = g
      /\ \A i \in 1..Len(up[s]) : up'[s][i] = up[s][i]
  BY <1>0, <1>1
<1>4. /\ sess'[s].closed = sess[s].closed /\ sess'[s].late = sess[s].late
      /\ sess'[s].stream = sess[s].stream /\ sess'[s].tcp = sess[s].tcp
  BY <1>0, <1>1 DEF Clients
<1>5. \A i \in 1..Len(up[s]) : up[s][i].kind # "FIN"
  BY <1>0, <1>1 DEF ClientEnd
<1>6. \A i \in 1..Len(up'[s]) : up'[s][i].kind # "FIN"
  BY <1>0, <1>2, <1>3, <1>5
<1>7. s < next_id
  <2>1. sess[s].tcp
    BY DEF In!onClientBytes
  <2> QED
    BY <1>0, <2>1 DEF ClientEnd
<1>8. ClientEnd(sess'[s], up'[s], s < next_id, Begun(s))
  BY <1>0, <1>4, <1>6, <1>7 DEF ClientEnd
<1>9. up[s] # <<>> /\ up[s][1].kind = "SYN" => up'[s] # <<>> /\ up'[s][1].kind = "SYN"
  <2>1. up[s] # <<>> => 1 \in 1..Len(up[s])
    BY <1>0
  <2>2. up'[s] # <<>>
    BY <1>0, <1>1
  <2> QED
    BY <1>3, <2>1, <2>2
<1>10. ~Lost(s, sess[s], up[s], relay[s], busy)
  BY <1>1 DEF Lost
<1>11. Ending(s, sess'[s], up'[s], down[s], rx[s], relay[s], busy, Begun(s))
  BY <1>0, <1>1, <1>4, <1>9, <1>10 DEF Ending
<1> QED
  BY <1>0, <1>1, <1>8, <1>11 DEF EndKept, Begun

(* The session's own steps on what comes back. *)
LEMMA BackEnds ==
    ASSUME Typed, StreamInv, EndInv, UNCHANGED outSide, NEW s \in Sids,
           In!onSessionData(s) \/ In!onSessionClose(s)
    PROVE  EndKept(s)
<1>0. /\ UNCHANGED <<rx, relay, busy>> /\ s \in Nat /\ next_id \in Nat
      /\ sess[s] \in Clients /\ sess \in [Sids -> Clients]
      /\ down[s] \in Seq(Segments) /\ down \in [Sids -> Seq(Segments)] /\ Early(s)
      /\ ClientEnd(sess[s], up[s], s < next_id, Begun(s))
      /\ Ending(s, sess[s], up[s], down[s], rx[s], relay[s], busy, Begun(s))
  BY BothEnds, SidsAssumption DEF outSide, Typed
<1>1. down[s] # <<>> /\ down'[s] = Tail(down[s]) /\ UNCHANGED <<next_id, half>>
  BY <1>0 DEF In!onSessionData, In!onSessionClose
<1>2. Begun(s) /\ s < next_id
  BY <1>0, <1>1 DEF Early, Begun
<1>3. /\ \A i \in 1..Len(down'[s]) : down'[s][i].kind = "DATA" =>
           \/ rx[s].open \/ Lost(s, sess[s], up[s], relay[s], busy)
           \/ \E j \in 1..Len(down'[s]) : i < j /\ down'[s][j].kind = "FIN"
      /\ Finishing(down[s]) /\ Head(down[s]).kind # "FIN" => Finishing(down'[s])
      /\ Head(down[s]).kind = "DATA" =>
           rx[s].open \/ Lost(s, sess[s], up[s], relay[s], busy) \/ Finishing(down'[s])
  BY <1>0, <1>1, BackEnding, Zenon
<1>4. CASE In!onSessionData(s)
  <2>1. /\ Head(down[s]).kind = "DATA" /\ up' = up
        /\ sess'[s] = [sess[s] EXCEPT !.stream = IF sess[s].stream = "none" THEN "orphan" ELSE sess[s].stream]
    BY <1>0, <1>4 DEF In!onSessionData
  <2>2. /\ sess'[s].closed = sess[s].closed /\ sess'[s].late = sess[s].late /\ sess'[s].tcp = sess[s].tcp
        /\ sess'[s].stream = IF sess[s].stream = "none" THEN "orphan" ELSE sess[s].stream
    BY <1>0, <2>1 DEF Clients
  <2>3. ClientEnd(sess'[s], up[s], s < next_id, Begun(s))
    BY <1>0, <1>2, <2>2 DEF ClientEnd
  <2>4. Lost(s, sess[s], up[s], relay[s], busy) <=> Lost(s, sess'[s], up[s], relay[s], busy)
    BY <2>2 DEF Lost
  <2>5. Ending(s, sess'[s], up[s], down'[s], rx[s], relay[s], busy, Begun(s))
    BY <1>0, <1>3, <2>1, <2>2, <2>4 DEF Ending
  <2> QED
    BY <1>0, <1>1, <2>1, <2>3, <2>5 DEF EndKept, Begun
<1>5. CASE In!onSessionClose(s)
  <2>1. CASE sess[s].stream = "open" /\ ~sess[s].closed
    <3>1. In!close(s)
      BY <1>5, <2>1 DEF In!onSessionClose
    <3> QED
      BY <1>0, <1>1, <1>2, <2>1, <3>1, CloseEnd
  <2>2. CASE ~(sess[s].stream = "open" /\ ~sess[s].closed)
    <3>1. up' = up /\ sess'[s] = [sess[s] EXCEPT !.stream = "none"]
      BY <1>0, <1>5, <2>2 DEF In!onSessionClose
    <3>2. sess[s].closed
      BY <1>0, <1>2, <2>2 DEF ClientEnd
    <3>3. /\ sess'[s].closed = sess[s].closed /\ sess'[s].late = sess[s].late
          /\ sess'[s].tcp = sess[s].tcp /\ sess'[s].stream = "none"
      BY <1>0, <3>1 DEF Clients
    <3>4. ClientEnd(sess'[s], up[s], s < next_id, Begun(s))
      BY <1>0, <1>2, <3>2, <3>3 DEF ClientEnd
    <3>5. Lost(s, sess[s], up[s], relay[s], busy) <=> Lost(s, sess'[s], up[s], relay[s], busy)
      BY <3>3 DEF Lost
    <3>6. Ending(s, sess'[s], up[s], down'[s], rx[s], relay[s], busy, Begun(s))
      BY <1>0, <1>3, <3>2, <3>3, <3>5 DEF Ending
    <3> QED
      BY <1>0, <1>1, <3>1, <3>4, <3>6 DEF EndKept, Begun
  <2> QED
    BY <2>1, <2>2
<1> QED
  BY <1>4, <1>5

(* stop() marks the sessions that it takes out of the table. *)
LEMMA MarkEnds ==
    ASSUME Typed, StreamInv, EndInv, UNCHANGED outSide, NEW s \in Sids, In!stop
    PROVE  EndKept(s)
<1>0. /\ UNCHANGED <<rx, relay, busy>> /\ sess[s] \in Clients
      /\ ClientEnd(sess[s], up[s], s < next_id, Begun(s))
      /\ Ending(s, sess[s], up[s], down[s], rx[s], relay[s], busy, Begun(s))
  BY BothEnds DEF outSide
<1>1. /\ sess'[s] = [sess[s] EXCEPT !.doomed = sess[s].doomed \/ sess[s].entry, !.entry = FALSE]
      /\ UNCHANGED <<up, down, next_id, half>>
  BY DEF In!stop
<1>2. /\ sess'[s].closed = sess[s].closed /\ sess'[s].late = sess[s].late
      /\ sess'[s].tcp = sess[s].tcp /\ sess'[s].stream = sess[s].stream
  BY <1>0, <1>1 DEF Clients
<1>3. ~sess'[s].entry /\ (sess'[s].doomed <=> sess[s].doomed \/ sess[s].entry)
  BY <1>0, <1>1 DEF Clients
<1>4. ClientEnd(sess'[s], up[s], s < next_id, Begun(s))
  BY <1>0, <1>2, <1>3 DEF ClientEnd
<1>5. Lost(s, sess[s], up[s], relay[s], busy) <=> Lost(s, sess'[s], up[s], relay[s], busy)
  BY <1>2 DEF Lost
<1>6. Ending(s, sess'[s], up[s], down[s], rx[s], relay[s], busy, Begun(s))
  BY <1>0, <1>2, <1>5 DEF Ending
<1> QED
  BY <1>0, <1>1, <1>4, <1>6 DEF EndKept, Begun

(* A step of the Inport keeps both ends. *)
LEMMA InEnds ==
    ASSUME Typed, StreamInv, EndInv, Inport, NEW s \in Sids
    PROVE  EndKept(s)
<1>0. /\ UNCHANGED outSide /\ UNCHANGED <<rx, relay, busy>>
      /\ up \in [Sids -> Seq(Segments)] /\ down \in [Sids -> Seq(Segments)] /\ sess \in [Sids -> Clients]
  BY DEF Inport, outSide, Typed
<1>1. CASE In!Accept \/ In!OpenSession
  BY <1>0, <1>1, AcceptEnds
<1>2. ASSUME NEW c \in Sids, In!onClientBytes(c) PROVE EndKept(s)
  <2>1. CASE c = s
    BY <1>0, <1>2, <2>1, BytesEnd
  <2>2. CASE c # s
    <3>1. up'[s] = up[s] /\ sess'[s] = sess[s] /\ UNCHANGED <<down, half, next_id>>
      BY <1>0, <1>2, <2>2 DEF In!onClientBytes
    <3> QED
      BY <1>0, <3>1, Unmoved
  <2> QED
    BY <2>1, <2>2
<1>3. ASSUME NEW c \in Sids, In!onClientClose(c) \/ In!StopSession(c) PROVE EndKept(s)
  <2>1. In!close(c) /\ half' = half /\ next_id' = next_id /\ down' = down
    BY <1>3 DEF In!onClientClose, In!StopSession
  <2>2. CASE c = s
    <3>1. sess[s].tcp \/ sess[s].doomed
      BY <1>3, <2>2 DEF In!onClientClose, In!StopSession
    <3>2. s < next_id
      <4>1. ClientEnd(sess[s], up[s], s < next_id, Begun(s))
        BY BothEnds
      <4> QED
        BY <3>1, <4>1 DEF ClientEnd
    <3> QED
      BY <1>0, <2>1, <2>2, <3>2, CloseEnd
  <2>3. CASE c # s
    <3>1. up'[s] = up[s] /\ sess'[s] = sess[s]
      BY <1>0, <2>1, <2>3 DEF In!close
    <3> QED
      BY <1>0, <2>1, <3>1, Unmoved
  <2> QED
    BY <2>2, <2>3
<1>4. ASSUME NEW c \in Sids, In!onSessionData(c) \/ In!onSessionClose(c) PROVE EndKept(s)
  <2>1. CASE c = s
    BY <1>0, <1>4, <2>1, BackEnds
  <2>2. CASE c # s
    <3>1. up'[s] = up[s] /\ sess'[s] = sess[s] /\ down'[s] = down[s] /\ UNCHANGED <<half, next_id>>
      BY <1>0, <1>4, <2>2 DEF In!onSessionData, In!onSessionClose, In!close
    <3> QED
      BY <1>0, <3>1, Unmoved
  <2> QED
    BY <2>1, <2>2
<1>5. CASE In!stop
  BY <1>0, <1>5, MarkEnds
<1>6. CASE In!StopAccepting
  <2>1. UNCHANGED <<up, down, sess, next_id, half>>
    BY <1>6 DEF In!StopAccepting
  <2> QED
    BY <1>0, <2>1, Unmoved
<1> QED
  BY <1>1, <1>2, <1>3, <1>4, <1>5, <1>6 DEF Inport, In!InNext, In!Progress

LEMMA EndStep == ASSUME Typed, StreamInv, EndInv, [Next]_vars PROVE EndInv'
<1>1. ASSUME NEW s \in Sids PROVE EndKept(s)
  <2>1. CASE UNCHANGED vars
    <3>1. UNCHANGED <<up, down, sess, next_id, half, rx, relay, busy>>
      BY <2>1 DEF vars, inSide, outSide
    <3> QED
      BY <3>1, Unmoved
  <2> QED
    BY <2>1, InEnds, OutEnds DEF Next
<1> QED
  BY <1>1 DEF EndKept, EndInv, Begun

LEMMA EndHolds == ASSUME Typed, StreamInv, EndInv PROVE NoHalfOpen
<1> SUFFICES ASSUME NEW s \in Sids, Quiet(s), ~sess[s].late, ~relay[s].late
             PROVE  /\ sess[s].stream = (IF rx[s].open THEN "open" ELSE "none")
                    /\ relay[s].entry => rx[s].open
                    /\ relay[s].sock # "none" => rx[s].open
                    /\ sess[s].tcp = rx[s].open
  BY DEF NoHalfOpen
<1>0. /\ relay[s] \in Relays /\ rx[s] \in [open : BOOLEAN, exp : Nat] /\ sess[s] \in Clients
      /\ sess[s].tcp \in BOOLEAN /\ rx[s].open \in BOOLEAN /\ sess[s].stream \in {"none", "open", "orphan"}
      /\ Track(s, relay[s], rx[s], fed[s], taken[s], busy) /\ Early(s)
      /\ ClientEnd(sess[s], up[s], s < next_id, Begun(s))
      /\ Ending(s, sess[s], up[s], down[s], rx[s], relay[s], busy, Begun(s))
  BY BothEnds DEF Clients
<1>1. relay[s].entry => rx[s].open
  BY <1>0 DEF Track
<1>2. relay[s].sock # "none" => rx[s].open
  BY <1>0 DEF Ending
<1>3. up[s] = <<>> /\ down[s] = <<>> /\ half # s /\ ~Finishing(down[s])
      /\ ~Lost(s, sess[s], up[s], relay[s], busy)
  BY DEF Quiet, Finishing, Lost
<1>4. CASE ~(s < next_id)
  <2>1. s >= next_id
    BY <1>4, SidsAssumption DEF Typed
  <2>2. ~rx[s].open /\ ~sess[s].tcp /\ sess[s].stream = "none"
    BY <1>0, <2>1 DEF Early
  <2> QED
    BY <1>0, <1>1, <1>2, <2>2
<1>5. CASE s < next_id /\ sess[s].closed
  <2>1. Begun(s)
    BY <1>3, <1>5 DEF Begun
  <2>2. ~rx[s].open /\ ~sess[s].tcp /\ sess[s].stream = "none"
    BY <1>0, <1>3, <1>5, <2>1 DEF Ending, ClientEnd
  <2> QED
    BY <1>0, <1>1, <1>2, <2>2
<1>6. CASE s < next_id /\ ~sess[s].closed
  <2>1. Begun(s)
    BY <1>3, <1>6 DEF Begun
  <2>2. rx[s].open /\ sess[s].tcp /\ sess[s].stream = "open"
    BY <1>0, <1>3, <1>6, <2>1 DEF Ending, ClientEnd
  <2> QED
    BY <1>0, <1>1, <1>2, <2>2
<1> QED
  BY <1>4, <1>5, <1>6

(* NoHalfOpen for any number of sessions, any scripts and answers and any   *)
(* interleaving of accepts, closes, connects and stop() on both sides: when *)
(* nothing is on the way for a session its two ends agree, so the FINs that *)
(* FgwSession::close and FgwRelaySession::close send, and the entries that  *)
(* the streams drop, leave nothing half open.                               *)
THEOREM NoHalfOpenAlways == Spec => []NoHalfOpen
<1>1. Init => Typed /\ StreamInv /\ EndInv
  BY TypeInit, InitStream, EndInit
<1>2. (Typed /\ StreamInv /\ EndInv) /\ [Next]_vars => (Typed /\ StreamInv /\ EndInv)'
  BY TypeStep, StreamStep, EndStep
<1>3. Typed /\ StreamInv /\ EndInv => NoHalfOpen
  BY EndHolds
<1> QED
  BY <1>1, <1>2, <1>3, PTL DEF Spec

-----------------------------------------------------------------------------
(* What the client is told.                                                 *)

Good == <<"method", "ok">> \o Answers
Refusals == {<<"method", "notsup">>, <<"method", "unreach">>}

(* The first i segments on the way back, d, are data. *)
Upto(d, i) == \A j \in 1..i : d[j].kind = "DATA"

(* The client has got n and is to get the data in front of d: so far, w. *)
Says(w, n, d) ==
    /\ Len(n) <= Len(w) /\ \A i \in 1..Len(n) : n[i] = w[i]
    /\ \A i \in 1..Len(d) : Upto(d, i) => Len(n) + i <= Len(w) /\ d[i].bytes = <<w[Len(n) + i]>>

(* One of the conversations there are; the refusal of a request that came   *)
(* with the greeting is a single segment.                                   *)
Told(n, d) ==
    \/ Says(Good, n, d)
    \/ \E w \in Refusals : Says(w, n, d)
    \/ n = <<>> /\ Len(d) >= 2 /\ d[1].bytes = <<"method", "notsup">> /\ d[2].kind = "FIN"

(* Nothing more comes from the relay but a FIN. *)
Mute(s, r, b) == r.sock = "none" /\ r.phase \in {"CLOSED", "RELAYING"} /\ b # <<s, "dial">>

(* How far a relay that may still speak has come; a is what the target has  *)
(* yet to send.                                                             *)
Speaking(n, d, r, a) ==
    /\ Says(Good, n, d)
    /\ IF r.sock = "open"
       THEN /\ Len(n) + Len(d) >= 2 /\ Len(n) + Len(d) + Len(a) = Len(Good)
            /\ \A j \in 1..Len(a) : a[j] = Good[Len(n) + Len(d) + j]
       ELSE a = Answers /\ Len(n) + Len(d) = IF r.phase = "METHODS" THEN 0 ELSE 1

Talk(s, n, d, x, r, b, a) ==
    /\ ~x.open => n = <<>> /\ d = <<>> /\ a = Answers
    /\ b = <<s, "dial">> => r.sock = "none"
    /\ x.open /\ ~Mute(s, r, b) => Speaking(n, d, r, a)

Live(c) == c.stream = "open" /\ c.tcp /\ ~c.closed

Saw(n) == IsPrefix(n, Good) \/ n \in Refusals

TalkInv ==
    /\ seen \in [Sids -> Bytes]
    /\ \A s \in Sids :
          /\ Saw(seen[s])
          /\ s >= next_id \/ half = s => seen[s] = <<>> /\ ahead[s] = Answers
          /\ Live(sess[s]) =>
                /\ Told(seen[s], down[s])
                /\ Finishing(down[s]) \/ Talk(s, seen[s], down[s], rx[s], relay[s], busy, ahead[s])

-----------------------------------------------------------------------------
(* The conversations. *)

LEMMA GoodFacts ==
    /\ Answers \in Bytes /\ Good \in Bytes /\ Len(Good) = 2 + Len(Answers)
    /\ Good[1] = "method" /\ Good[2] = "ok" /\ \A i \in 1..Len(Answers) : Good[2 + i] = Answers[i]
<1> DEFINE g == <<"method", "ok">>
<1>1. Answers \in Seq(Tokens)
  BY ScriptsAssumption, SeqMonotonic DEF Tokens
<1>2. g \in Seq(Tokens) /\ Len(g) = 2 /\ g[1] = "method" /\ g[2] = "ok" /\ Good = g \o Answers
  BY DEF Tokens, Good
<1> HIDE DEF g
<1>3. /\ g \o Answers \in Seq(Tokens) /\ Len(g \o Answers) = Len(g) + Len(Answers)
      /\ \A i \in 1..Len(g) : (g \o Answers)[i] = g[i]
      /\ \A i \in 1..Len(Answers) : (g \o Answers)[Len(g) + i] = Answers[i]
  BY <1>1, <1>2, JoinParts, Zenon
<1>4. 1 \in 1..Len(g) /\ 2 \in 1..Len(g)
  BY <1>2
<1>5. Good[1] = "method" /\ Good[2] = "ok"
  BY <1>2, <1>3, <1>4, Zenon
<1> QED
  BY <1>1, <1>2, <1>3, <1>5 DEF Bytes

LEMMA RefusalFacts ==
    ASSUME NEW w \in Refusals
    PROVE  w \in Bytes /\ Len(w) = 2 /\ w[1] = "method" /\ w[2] \in {"notsup", "unreach"}
<1>1. "method" \in Tokens /\ "notsup" \in Tokens /\ "unreach" \in Tokens
  BY DEF Tokens
<1>2. CASE w = <<"method", "notsup">>
  BY <1>1, <1>2 DEF Bytes
<1>3. CASE w = <<"method", "unreach">>
  BY <1>1, <1>3 DEF Bytes
<1> QED
  BY <1>2, <1>3 DEF Refusals

(* The empty conversation. *)
LEMMA SaysNothing == Says(Good, <<>>, <<>>)
BY GoodFacts DEF Says, Bytes

(* e is d with a word, or with a FIN, behind it. *)
Spoke(d, e, w) ==
    /\ e \in Seq(Segments) /\ Len(e) = Len(d) + 1 /\ \A i \in 1..Len(d) : e[i] = d[i]
    /\ e[Len(e)].kind = "DATA" /\ e[Len(e)].bytes = w

Ended(d, e) ==
    /\ e \in Seq(Segments) /\ Len(e) = Len(d) + 1 /\ \A i \in 1..Len(d) : e[i] = d[i]
    /\ e[Len(e)].kind = "FIN"

LEMMA SaysWord ==
    ASSUME NEW w, NEW n, Len(n) \in Nat, NEW d \in Seq(Segments), NEW e, Says(w, n, d),
           Len(n) + Len(d) < Len(w), Len(w) \in Nat, Spoke(d, e, <<w[Len(n) + Len(d) + 1]>>)
    PROVE  Says(w, n, e)
<1>0. Len(d) \in Nat /\ Len(e) = Len(d) + 1
  BY DEF Spoke
<1>1. ASSUME NEW i \in 1..Len(e), Upto(e, i)
      PROVE  Len(n) + i <= Len(w) /\ e[i].bytes = <<w[Len(n) + i]>>
  <2>1. CASE i \in 1..Len(d)
    <3>1. Upto(d, i) /\ e[i] = d[i]
      BY <1>0, <1>1, <2>1 DEF Upto, Spoke
    <3> QED
      BY <2>1, <3>1 DEF Says
  <2>2. CASE i = Len(e)
    <3>1. Len(n) + i = Len(n) + Len(d) + 1
      BY <1>0, <2>2
    <3> QED
      BY <1>0, <2>2, <3>1 DEF Spoke
  <2> QED
    BY <1>0, <2>1, <2>2
<1> QED
  BY <1>1 DEF Says

LEMMA SaysFin ==
    ASSUME NEW w, NEW n, NEW d \in Seq(Segments), NEW e, Says(w, n, d), Ended(d, e)
    PROVE  Says(w, n, e)
<1>0. Len(d) \in Nat /\ Len(e) = Len(d) + 1
  BY DEF Ended
<1>1. ASSUME NEW i \in 1..Len(e), Upto(e, i)
      PROVE  Len(n) + i <= Len(w) /\ e[i].bytes = <<w[Len(n) + i]>>
  <2>1. i # Len(e)
    BY <1>0, <1>1 DEF Upto, Ended
  <2>2. i \in 1..Len(d)
    BY <1>0, <2>1
  <2>3. Upto(d, i) /\ e[i] = d[i]
    BY <1>0, <1>1, <2>2 DEF Upto, Ended
  <2> QED
    BY <2>2, <2>3 DEF Says
<1> QED
  BY <1>1 DEF Says

(* Nothing counts behind a FIN. *)
LEMMA SaysBehind ==
    ASSUME NEW w, NEW n, NEW d \in Seq(Segments), NEW e \in Seq(Segments), Says(w, n, d), Finishing(d),
           Len(d) <= Len(e), \A i \in 1..Len(d) : e[i] = d[i]
    PROVE  Says(w, n, e)
<1>1. PICK k \in 1..Len(d) : d[k].kind = "FIN"
  BY DEF Finishing
<1>0. Len(d) \in Nat /\ Len(e) \in Nat /\ k \in Nat /\ k >= 1 /\ k <= Len(d) /\ e[k].kind = "FIN"
  BY <1>1
<1>2. ASSUME NEW i \in 1..Len(e), Upto(e, i)
      PROVE  Len(n) + i <= Len(w) /\ e[i].bytes = <<w[Len(n) + i]>>
  <2>1. ~(k \in 1..i)
    BY <1>0, <1>2 DEF Upto
  <2>2. i \in 1..Len(d)
    BY <1>0, <2>1
  <2>3. Upto(d, i) /\ e[i] = d[i]
    BY <1>0, <1>2, <2>2 DEF Upto
  <2> QED
    BY <2>2, <2>3 DEF Says
<1> QED
  BY <1>2 DEF Says

(* A conversation of at most one word may still become any of them. *)
LEMMA SaysTurns ==
    ASSUME NEW n \in Bytes, NEW d \in Seq(Segments), Says(Good, n, d), Len(n) + Len(d) <= 1,
           NEW w \in Refusals
    PROVE  Says(w, n, d)
<1>0. Len(n) \in Nat /\ Len(d) \in Nat
  BY DEF Bytes
<1>1. Good[1] = "method" /\ w[1] = "method" /\ Len(w) = 2
  BY GoodFacts, RefusalFacts
<1>2. Len(n) <= Len(w)
  BY <1>0, <1>1
<1>3. ASSUME NEW i \in 1..Len(n) PROVE n[i] = w[i]
  <2>1. i = 1 /\ n[i] = Good[i]
    BY <1>0 DEF Says
  <2> QED
    BY <1>1, <2>1
<1>4. ASSUME NEW i \in 1..Len(d), Upto(d, i)
      PROVE  Len(n) + i <= Len(w) /\ d[i].bytes = <<w[Len(n) + i]>>
  <2>1. i = 1 /\ Len(n) = 0 /\ Len(n) + i = 1
    BY <1>0
  <2>2. d[i].bytes = <<Good[Len(n) + i]>>
    BY <1>4 DEF Says
  <2> QED
    BY <1>1, <2>1, <2>2
<1> QED
  BY <1>2, <1>3, <1>4 DEF Says

LEMMA Shifted == ASSUME NEW a \in Nat, NEW b \in Nat, b = a + 1 PROVE \A i \in Nat : a + (i + 1) = b + i
OBVIOUS

LEMMA BelowTwo ==
    ASSUME NEW a \in Nat, a <= 2, a # 2 PROVE a <= 1 /\ \A i \in 1..a : i = 1
OBVIOUS

(* The client takes the word in front. *)
LEMMA SaysTaken ==
    ASSUME NEW w \in Bytes, NEW n \in Bytes, NEW d \in Seq(Segments), d # <<>>, Says(w, n, d),
           Head(d).kind = "DATA", NEW m, m = n \o Head(d).bytes, NEW e, e = Tail(d)
    PROVE  m \in Bytes /\ Len(m) = Len(n) + 1 /\ Len(m) <= Len(w) /\ Says(w, m, e)
<1>0. /\ e \in Seq(Segments) /\ Len(d) \in Nat /\ Len(d) >= 1 /\ Len(e) = Len(d) - 1
      /\ Head(d) = d[1] /\ \A i \in 1..Len(e) : e[i] = d[i + 1]
  BY TailParts
<1>1. Len(n) \in Nat /\ Len(w) \in Nat
  BY DEF Bytes
<1>2. 1 \in 1..Len(d) /\ Upto(d, 1)
  BY <1>0 DEF Upto
<1>3. Len(n) + 1 <= Len(w) /\ d[1].bytes = <<w[Len(n) + 1]>>
  BY <1>2 DEF Says
<1> DEFINE t == w[Len(n) + 1]
           v == <<t>>
<1>4. t \in Tokens
  BY <1>1, <1>3 DEF Bytes
<1>5. v \in Seq(Tokens) /\ Len(v) = 1 /\ v[1] = t
  <2> HIDE DEF t
  <2> QED
    BY <1>4
<1>a. m = n \o v
  <2>1. Head(d).bytes = v
    BY <1>0, <1>3, Zenon DEF v, t
  <2> HIDE DEF v
  <2> QED
    BY <2>1
<1> HIDE DEF t, v
<1>6. /\ m \in Seq(Tokens) /\ Len(m) = Len(n) + Len(v)
      /\ \A i \in 1..Len(n) : m[i] = n[i]
      /\ \A i \in 1..Len(v) : m[Len(n) + i] = v[i]
  <2>1. n \in Seq(Tokens)
    BY DEF Bytes
  <2>2. /\ n \o v \in Seq(Tokens) /\ Len(n \o v) = Len(n) + Len(v)
        /\ \A i \in 1..Len(n) : (n \o v)[i] = n[i]
        /\ \A i \in 1..Len(v) : (n \o v)[Len(n) + i] = v[i]
    BY <1>5, <2>1, JoinParts, Zenon
  <2> QED
    BY <1>a, <2>2, Zenon
<1>7. Len(m) = Len(n) + 1 /\ m[Len(n) + 1] = t
  <2>1. 1 \in 1..Len(v)
    BY <1>5
  <2> QED
    BY <1>5, <1>6, <2>1
<1>8. \A i \in 1..Len(m) : m[i] = w[i]
  <2> TAKE i \in 1..Len(m)
  <2>1. CASE i \in 1..Len(n)
    BY <1>6, <2>1 DEF Says
  <2>2. CASE i = Len(n) + 1
    BY <1>7, <2>2 DEF t
  <2> QED
    BY <1>1, <1>7, <2>1, <2>2
<1>9. ASSUME NEW i \in 1..Len(e), Upto(e, i)
      PROVE  Len(m) + i <= Len(w) /\ e[i].bytes = <<w[Len(m) + i]>>
  <2>1. i + 1 \in 1..Len(d) /\ e[i] = d[i + 1]
    BY <1>0
  <2>2. Upto(d, i + 1)
    <3> SUFFICES ASSUME NEW j \in 1..(i + 1) PROVE d[j].kind = "DATA"
      BY DEF Upto
    <3>1. CASE j = 1
      BY <1>0, <3>1
    <3>2. CASE j # 1
      <4>1. j - 1 \in 1..i /\ j - 1 \in 1..Len(e) /\ (j - 1) + 1 = j
        BY <1>0, <3>2
      <4>2. e[j - 1] = d[j] /\ e[j - 1].kind = "DATA"
        BY <1>0, <1>9, <4>1 DEF Upto
      <4> QED
        BY <4>2
    <3> QED
      BY <3>1, <3>2
  <2>3. Len(n) + (i + 1) <= Len(w) /\ d[i + 1].bytes = <<w[Len(n) + (i + 1)]>>
    BY <2>1, <2>2 DEF Says
  <2>4. Len(n) + (i + 1) = Len(m) + i
    <3>1. i \in Nat
      BY <1>0
    <3>2. Len(m) \in Nat
      BY <1>1, <1>7
    <3> QED
      BY <1>1, <1>7, <3>1, <3>2, Shifted, Zenon
  <2> QED
    BY <2>1, <2>3, <2>4
<1> QED
  BY <1>1, <1>3, <1>6, <1>7, <1>8, <1>9 DEF Says, Bytes

(* What the client has got of a conversation. *)
LEMMA SaysSaw ==
    ASSUME NEW n \in Bytes, NEW d, NEW w, w = Good \/ w \in Refusals, Says(w, n, d)
    PROVE  Saw(n)
<1>0. Len(n) \in Nat /\ Len(Good) \in Nat /\ Good \in Bytes /\ Len(Good) >= 2 /\ Good[1] = "method"
  <2>1. Len(Answers) \in Nat /\ Len(n) \in Nat
    BY GoodFacts DEF Bytes
  <2> QED
    BY <2>1, GoodFacts
<1>1. ASSUME Len(n) <= Len(Good), \A i \in 1..Len(n) : n[i] = Good[i] PROVE IsPrefix(n, Good)
  <2> DEFINE u == SubSeq(n, 1, Len(n))
             v == SubSeq(Good, 1, Len(n))
  <2>1. u \in Seq(Tokens) /\ Len(u) = Len(n) /\ \A i \in 1..Len(u) : u[i] = n[i]
    BY <1>0 DEF Bytes
  <2>2. v \in Seq(Tokens) /\ Len(v) = Len(n) /\ \A i \in 1..Len(v) : v[i] = Good[i]
    BY <1>0, <1>1 DEF Bytes
  <2> HIDE DEF u, v
  <2>3. u = v
    <3>1. \A i \in 1..Len(u) : u[i] = v[i]
      BY <1>1, <2>1, <2>2
    <3> QED
      BY <2>1, <2>2, <3>1, SeqEqual
  <2> QED
    BY <1>1, <2>3 DEF u, v, IsPrefix
<1>2. CASE w = Good
  BY <1>1, <1>2 DEF Says, Saw
<1>3. CASE w \in Refusals
  <2>1. w \in Bytes /\ Len(w) = 2 /\ w[1] = "method"
    BY <1>3, RefusalFacts
  <2>2. Len(n) <= 2 /\ \A i \in 1..Len(n) : n[i] = w[i]
    BY <2>1 DEF Says
  <2>3. CASE Len(n) = 2
    <3>1. n \in Seq(Tokens) /\ w \in Seq(Tokens) /\ Len(n) = Len(w)
      BY <2>1, <2>3 DEF Bytes
    <3>2. n = w
      BY <2>2, <3>1, SeqEqual
    <3> QED
      BY <1>3, <3>2 DEF Saw
  <2>4. CASE Len(n) # 2
    <3>0. Len(n) <= 1 /\ \A i \in 1..Len(n) : i = 1
      BY <1>0, <2>2, <2>4, BelowTwo, Zenon
    <3>1. Len(n) <= Len(Good) /\ \A i \in 1..Len(n) : i = 1
      BY <1>0, <3>0
    <3>2. \A i \in 1..Len(n) : n[i] = Good[i]
      BY <1>0, <2>1, <2>2, <3>1
    <3> QED
      BY <1>1, <3>1, <3>2 DEF Saw
  <2> QED
    BY <2>3, <2>4
<1> QED
  BY <1>2, <1>3

(* The way back grows, and what was told is told. *)
LEMMA ToldBehind ==
    ASSUME NEW n, NEW d \in Seq(Segments), NEW e \in Seq(Segments), Told(n, d), Finishing(d),
           Len(d) <= Len(e), \A i \in 1..Len(d) : e[i] = d[i]
    PROVE  Told(n, e) /\ Finishing(e)
<1>0. Len(d) \in Nat /\ Len(e) \in Nat /\ \A i \in 1..Len(d) : i \in 1..Len(e)
  OBVIOUS
<1>1. Finishing(e)
  BY <1>0 DEF Finishing
<1>2. CASE Says(Good, n, d)
  <2>1. Says(Good, n, e)
    BY <1>2, SaysBehind
  <2> QED
    BY <1>1, <2>1 DEF Told
<1>3. CASE \E w \in Refusals : Says(w, n, d)
  <2>1. PICK w \in Refusals : Says(w, n, d)
    BY <1>3
  <2>2. Says(w, n, e)
    BY <2>1, SaysBehind
  <2> QED
    BY <1>1, <2>2 DEF Told
<1>4. CASE n = <<>> /\ Len(d) >= 2 /\ d[1].bytes = <<"method", "notsup">> /\ d[2].kind = "FIN"
  <2>1. 1 \in 1..Len(d) /\ 2 \in 1..Len(d) /\ Len(e) >= 2
    BY <1>0, <1>4
  <2>2. e[1] = d[1] /\ e[2] = d[2]
    BY <2>1
  <2> QED
    BY <1>1, <1>4, <2>1, <2>2 DEF Told
<1> QED
  BY <1>2, <1>3, <1>4 DEF Told

LEMMA ToldEnded ==
    ASSUME NEW n, NEW d \in Seq(Segments), NEW e, Told(n, d), Ended(d, e)
    PROVE  Told(n, e) /\ Finishing(e)
<1>0. Len(d) \in Nat /\ e \in Seq(Segments) /\ Len(e) = Len(d) + 1 /\ Len(e) \in 1..Len(e)
      /\ (\A i \in 1..Len(d) : e[i] = d[i]) /\ e[Len(e)].kind = "FIN"
  BY DEF Ended
<1>1. Finishing(e)
  BY <1>0 DEF Finishing
<1>2. CASE Says(Good, n, d)
  <2>1. Says(Good, n, e)
    BY <1>2, SaysFin
  <2> QED
    BY <1>1, <2>1 DEF Told
<1>3. CASE \E w \in Refusals : Says(w, n, d)
  <2>1. PICK w \in Refusals : Says(w, n, d)
    BY <1>3
  <2>2. Says(w, n, e)
    BY <2>1, SaysFin
  <2> QED
    BY <1>1, <2>2 DEF Told
<1>4. CASE n = <<>> /\ Len(d) >= 2 /\ d[1].bytes = <<"method", "notsup">> /\ d[2].kind = "FIN"
  <2>1. 1 \in 1..Len(d) /\ 2 \in 1..Len(d) /\ Len(e) >= 2
    BY <1>0, <1>4
  <2>2. e[1] = d[1] /\ e[2] = d[2]
    BY <1>0, <2>1
  <2> QED
    BY <1>1, <1>4, <2>1, <2>2 DEF Told
<1> QED
  BY <1>2, <1>3, <1>4 DEF Told

(* A refusal after one word. *)
LEMMA ToldRefused ==
    ASSUME NEW n \in Bytes, NEW d \in Seq(Segments), NEW e, Says(Good, n, d), Len(n) + Len(d) = 1,
           NEW t \in {"notsup", "unreach"}, Spoke(d, e, <<t>>)
    PROVE  Told(n, e)
<1> DEFINE w == <<"method", t>>
<1>1. w \in Refusals /\ Len(w) = 2 /\ w[1 + 1] = t
  BY DEF Refusals
<1> HIDE DEF w
<1>2. Says(w, n, d)
  BY <1>1, SaysTurns
<1>3. Len(n) \in Nat /\ Len(d) \in Nat
  BY DEF Bytes
<1>4. Len(n) + Len(d) < Len(w) /\ Len(w) \in Nat /\ Spoke(d, e, <<w[Len(n) + Len(d) + 1]>>)
  BY <1>1
<1>5. Says(w, n, e)
  BY <1>2, <1>3, <1>4, SaysWord
<1> QED
  BY <1>1, <1>5 DEF Told

-----------------------------------------------------------------------------
(* What the relay puts on the way back. *)

LEMMA JoinSegs ==
    ASSUME NEW a \in Seq(Segments), NEW b \in Seq(Segments)
    PROVE  /\ a \o b \in Seq(Segments) /\ Len(a \o b) = Len(a) + Len(b)
           /\ \A i \in 1..Len(a) : (a \o b)[i] = a[i]
           /\ \A i \in 1..Len(b) : (a \o b)[Len(a) + i] = b[i]
OBVIOUS

LEMMA OneBehind ==
    ASSUME NEW d \in Seq(Segments), NEW g \in Segments, NEW e, e = d \o <<g>>
    PROVE  /\ Len(d) \in Nat /\ e \in Seq(Segments) /\ Len(e) = Len(d) + 1
           /\ \A i \in 1..Len(d) : e[i] = d[i]
           /\ e[Len(d) + 1] = g
<1> DEFINE v == <<g>>
<1>1. v \in Seq(Segments) /\ Len(v) = 1 /\ v[1] = g /\ Len(d) \in Nat
  OBVIOUS
<1>2. e = d \o v
  OBVIOUS
<1> HIDE DEF v
<1>3. /\ d \o v \in Seq(Segments) /\ Len(d \o v) = Len(d) + Len(v)
      /\ \A i \in 1..Len(d) : (d \o v)[i] = d[i]
      /\ \A i \in 1..Len(v) : (d \o v)[Len(d) + i] = v[i]
  BY <1>1, JoinSegs, Zenon
<1>4. 1 \in 1..Len(v)
  BY <1>1
<1>5. e[Len(d) + 1] = g
  BY <1>1, <1>2, <1>3, <1>4, Zenon
<1> QED
  BY <1>1, <1>2, <1>3, <1>5, Zenon

LEMMA SentWord ==
    ASSUME NEW d \in Seq(Segments), NEW w \in Bytes, w # <<>>, NEW e, e = d \o Out!Data(w)
    PROVE  Spoke(d, e, w)
<1> DEFINE g == Out!Seg("DATA", 0, w)
<1>1. g \in Segments /\ g.kind = "DATA" /\ g.bytes = w
  BY SegType DEF Out!Seg
<1>2. e = d \o <<g>>
  BY DEF Out!Data
<1> HIDE DEF g
<1>3. /\ Len(d) \in Nat /\ e \in Seq(Segments) /\ Len(e) = Len(d) + 1
      /\ \A i \in 1..Len(d) : e[i] = d[i]
      /\ e[Len(d) + 1] = g
  BY <1>1, <1>2, OneBehind, Zenon
<1> QED
  BY <1>1, <1>3 DEF Spoke

LEMMA SentNothing == ASSUME NEW d \in Seq(Segments) PROVE d \o Out!Data(<<>>) = d
BY ConcatProperties DEF Out!Data

LEMMA SentEnd ==
    ASSUME NEW d \in Seq(Segments), NEW e, e = d \o Out!Fin
    PROVE  Ended(d, e)
<1> DEFINE g == Out!Seg("FIN", 0, <<>>)
<1>1. g \in Segments /\ g.kind = "FIN"
  BY SegType, NoBytes DEF Out!Seg
<1>2. e = d \o <<g>>
  BY DEF Out!Fin
<1> HIDE DEF g
<1>3. /\ Len(d) \in Nat /\ e \in Seq(Segments) /\ Len(e) = Len(d) + 1
      /\ \A i \in 1..Len(d) : e[i] = d[i]
      /\ e[Len(d) + 1] = g
  BY <1>1, <1>2, OneBehind, Zenon
<1> QED
  BY <1>1, <1>3 DEF Ended

(* A word and then the FIN. *)
LEMMA SentBoth ==
    ASSUME NEW d \in Seq(Segments), NEW w \in Bytes, NEW e, e = d \o (Out!Data(w) \o Out!Fin)
    PROVE  \E f \in Seq(Segments) : /\ Ended(f, e)
                                    /\ w = <<>> => f = d
                                    /\ w # <<>> => Spoke(d, f, w)
<1> DEFINE u == Out!Data(w)
           v == Out!Fin
           f == d \o u
<1>1. u \in Seq(Segments) /\ v \in Seq(Segments)
  BY DataSegs
<1>2. w # <<>> => Spoke(d, f, w)
  BY SentWord
<1>3. w = <<>> => f = d
  BY SentNothing
<1>4. \A g : g = f \o v => (f \in Seq(Segments) => Ended(f, g))
  BY SentEnd
<1> HIDE DEF u, v
<1>5. d \o (u \o v) = (d \o u) \o v /\ d \o u \in Seq(Segments)
  BY <1>1, ConcatAssociative, ConcatProperties, SMTT(30)
<1>6. e = f \o v /\ f \in Seq(Segments)
  BY <1>5 DEF u, v
<1> HIDE DEF f
<1> QED
  BY <1>2, <1>3, <1>4, <1>6

-----------------------------------------------------------------------------
(* The conversation of session s, over a step.                              *)

TalksOn(s, n, e, y, q, c, z) == Told(n, e) /\ (Finishing(e) \/ Talk(s, n, e, y, q, c, z))

LEMMA SpokenTold ==
    ASSUME NEW n, NEW d, NEW r, NEW a, Speaking(n, d, r, a)
    PROVE  Says(Good, n, d) /\ Told(n, d)
BY DEF Speaking, Told

(* Nothing is said, and nothing more will be. *)
LEMMA TalkMute ==
    ASSUME NEW s, NEW n, NEW d, NEW y, NEW q, NEW c, NEW a, Told(n, d), y.open, Mute(s, q, c)
    PROVE  TalksOn(s, n, d, y, q, c, a)
BY DEF TalksOn, Talk, Mute

LEMMA TalkEnds ==
    ASSUME NEW s, NEW n, NEW d \in Seq(Segments), NEW e, NEW y, NEW q, NEW c, NEW a,
           Told(n, d), Ended(d, e)
    PROVE  TalksOn(s, n, e, y, q, c, a)
BY ToldEnded DEF TalksOn

LEMMA TalkSpeaks ==
    ASSUME NEW s, NEW n, NEW e, NEW y, NEW q, NEW c, NEW a, Speaking(n, e, q, a), y.open,
           c = <<s, "dial">> => q.sock = "none"
    PROVE  TalksOn(s, n, e, y, q, c, a)
BY SpokenTold DEF TalksOn, Talk

(* What is known of a live client's conversation before a step. *)
LEMMA TalkBefore ==
    ASSUME Typed, StreamInv, EndInv, TalkInv, NEW s \in Sids, Live(sess[s]), ~Finishing(down[s])
    PROVE  /\ relay[s] \in Relays /\ rx[s] \in [open : BOOLEAN, exp : Nat]
           /\ up[s] \in Seq(Segments) /\ down[s] \in Seq(Segments) /\ seen[s] \in Bytes /\ ahead[s] \in Bytes
           /\ Len(up[s]) \in Nat /\ Len(down[s]) \in Nat /\ Len(seen[s]) \in Nat
           /\ Track(s, relay[s], rx[s], fed[s], taken[s], busy)
           /\ Told(seen[s], down[s])
           /\ Talk(s, seen[s], down[s], rx[s], relay[s], busy, ahead[s])
           /\ \A i \in 1..Len(up[s]) : up[s][i].kind # "FIN"
           /\ rx[s].open => \A i \in 1..Len(up[s]) : up[s][i].kind # "SYN"
           /\ ~rx[s].open => /\ up[s] # <<>> /\ up[s][1].kind = "SYN"
                             /\ relay[s].phase = "CLOSED" /\ relay[s].sock = "none"
                             /\ ~relay[s].entry /\ busy # <<s, "dial">> /\ busy # <<s, "open">>
<1>0. /\ relay[s] \in Relays /\ rx[s] \in [open : BOOLEAN, exp : Nat] /\ sess[s] \in Clients
      /\ up[s] \in Seq(Segments) /\ down[s] \in Seq(Segments) /\ ahead[s] \in Bytes
      /\ Len(up[s]) \in Nat /\ Len(down[s]) \in Nat
      /\ Track(s, relay[s], rx[s], fed[s], taken[s], busy)
      /\ Flow(up[s], rx[s], fed[s], taken[s], sess[s].seq) /\ Early(s)
      /\ ClientEnd(sess[s], up[s], s < next_id, Begun(s))
      /\ Ending(s, sess[s], up[s], down[s], rx[s], relay[s], busy, Begun(s))
  BY BothEnds DEF Typed
<1>1. /\ seen[s] \in Bytes /\ Told(seen[s], down[s])
      /\ Talk(s, seen[s], down[s], rx[s], relay[s], busy, ahead[s])
  BY DEF TalkInv
<1>2. Len(seen[s]) \in Nat
  BY <1>1 DEF Bytes
<1>3. s \in Nat /\ next_id \in Nat
  BY SidsAssumption DEF Typed
<1>4. Begun(s) /\ ~sess[s].closed
  BY <1>0, <1>3 DEF Begun, Early, Live
<1>5. \A i \in 1..Len(up[s]) : up[s][i].kind # "FIN"
  BY <1>0, <1>4 DEF ClientEnd
<1>6. rx[s].open => \A i \in 1..Len(up[s]) : up[s][i].kind # "SYN"
  BY <1>0 DEF Flow
<1>7. ASSUME ~rx[s].open
      PROVE  /\ up[s] # <<>> /\ up[s][1].kind = "SYN"
             /\ relay[s].phase = "CLOSED" /\ relay[s].sock = "none"
             /\ ~relay[s].entry /\ busy # <<s, "dial">> /\ busy # <<s, "open">>
  <2>1. up[s] # <<>> /\ up[s][1].kind = "SYN"
    BY <1>0, <1>4, <1>7 DEF Ending
  <2>2. 1 \in 1..Len(up[s])
    BY <1>0, <2>1
  <2>3. fed[s] = <<>>
    BY <1>0, <2>1, <2>2 DEF Flow
  <2>4. relay[s].sock = "none" /\ ~relay[s].entry /\ busy # <<s, "dial">> /\ busy # <<s, "open">>
        /\ relay[s].phase \notin {"METHODS", "REQUEST", "CONNECTING", "RELAYING"}
    BY <1>0, <1>7, <2>3 DEF Track
  <2> QED
    BY <1>0, <2>1, <2>4 DEF Relays
<1> QED
  BY <1>0, <1>1, <1>2, <1>5, <1>6, <1>7

TalkOut(s) == TalksOn(s, seen[s], down'[s], rx'[s], relay'[s], busy', ahead'[s])

(* Nothing is said, and the relay is where it was. *)
LEMMA TalkSame ==
    ASSUME NEW s \in Sids, Told(seen[s], down[s]),
           Talk(s, seen[s], down[s], rx[s], relay[s], busy, ahead[s]),
           down'[s] = down[s], ahead'[s] = ahead[s], rx'[s].open <=> rx[s].open,
           relay'[s].sock = relay[s].sock, relay'[s].phase = relay[s].phase,
           busy' = <<s, "dial">> => busy = <<s, "dial">>
    PROVE  TalkOut(s)
<1>1. Mute(s, relay[s], busy) => Mute(s, relay'[s], busy')
  BY DEF Mute
<1>2. Speaking(seen[s], down[s], relay[s], ahead[s]) => Speaking(seen[s], down'[s], relay'[s], ahead'[s])
  BY DEF Speaking
<1> QED
  BY <1>1, <1>2 DEF TalkOut, TalksOn, Talk

(* A relay's close, without a word or with the refusal of the connect. *)
LEMMA CloseTalks ==
    ASSUME Typed, NEW s \in Sids, NEW r \in Relays, NEW w \in Bytes, Out!CloseAfter(s, r, w),
           rx[s].open, busy' = <<>>, r.phase = "CLOSED" => r.sock = "none",
           seen[s] \in Bytes, Told(seen[s], down[s]),
           \/ w = <<>>
           \/ w = <<"unreach">> /\ Says(Good, seen[s], down[s]) /\ Len(seen[s]) + Len(down[s]) = 1
    PROVE  TalkOut(s)
<1>0. down[s] \in Seq(Segments)
  BY DEF Typed
<1>1. \/ /\ r.phase = "CLOSED" /\ relay'[s] = r /\ rx'[s] = rx[s]
         /\ down'[s] = IF rx[s].open THEN down[s] \o Out!Data(w) ELSE down[s]
      \/ /\ r.phase # "CLOSED" /\ ~rx'[s].open
         /\ relay'[s].sock = "none" /\ relay'[s].phase = "CLOSED" /\ relay'[s].late = r.late
         /\ down'[s] = IF rx[s].open THEN down[s] \o (Out!Data(w) \o Out!Fin) ELSE down[s]
  BY CloseEffect
<1>2. ASSUME NEW f, w = <<>> => f = down[s], w # <<>> => Spoke(down[s], f, w)
      PROVE  Told(seen[s], f)
  <2>1. CASE w = <<>>
    BY <1>2, <2>1
  <2>2. CASE w # <<>>
    <3>1. w = <<"unreach">> /\ Says(Good, seen[s], down[s]) /\ Len(seen[s]) + Len(down[s]) = 1
      BY <2>2
    <3>2. Spoke(down[s], f, <<"unreach">>)
      BY <1>2, <2>2, <3>1
    <3>3. \A t \in {"notsup", "unreach"} : Spoke(down[s], f, <<t>>) => Told(seen[s], f)
      BY <1>0, <3>1, ToldRefused
    <3> QED
      BY <3>2, <3>3
  <2> QED
    BY <2>1, <2>2
<1>3. CASE r.phase = "CLOSED"
  <2>1. relay'[s] = r /\ rx'[s].open /\ down'[s] = down[s] \o Out!Data(w)
    BY <1>1, <1>3
  <2>2. Told(seen[s], down'[s])
    BY <1>0, <1>2, <2>1, SentNothing, SentWord
  <2>3. Mute(s, relay'[s], busy')
    BY <1>3, <2>1 DEF Mute
  <2> QED
    BY <2>1, <2>2, <2>3, TalkMute DEF TalkOut
<1>4. CASE r.phase # "CLOSED"
  <2>1. down'[s] = down[s] \o (Out!Data(w) \o Out!Fin)
    BY <1>1, <1>4
  <2>2. PICK f \in Seq(Segments) : Ended(f, down'[s]) /\ (w = <<>> => f = down[s])
                                   /\ (w # <<>> => Spoke(down[s], f, w))
    BY <1>0, <2>1, SentBoth
  <2>3. Told(seen[s], f)
    BY <1>2, <2>2
  <2> QED
    BY <2>2, <2>3, TalkEnds DEF TalkOut
<1> QED
  BY <1>3, <1>4

LEMMA SynTalks ==
    ASSUME Typed, StreamInv, EndInv, TalkInv, NEW s \in Sids, Live(sess[s]), ~Finishing(down[s]),
           Out!ReceiveSyn(s)
    PROVE  TalkOut(s)
<1>0. /\ up[s] \in Seq(Segments) /\ Len(up[s]) \in Nat
      /\ Talk(s, seen[s], down[s], rx[s], relay[s], busy, ahead[s])
      /\ rx[s].open => \A i \in 1..Len(up[s]) : up[s][i].kind # "SYN"
      /\ ~rx[s].open => ~relay[s].entry
  BY TalkBefore
<1>1. up[s] # <<>> /\ Head(up[s]).kind = "SYN" /\ UNCHANGED <<down, ahead, busy>> /\ busy = <<>>
  BY DEF Out!ReceiveSyn, Out!Heard, Out!Free
<1>2. 1 \in 1..Len(up[s]) /\ up[s][1].kind = "SYN"
  BY <1>0, <1>1
<1>3. ~rx[s].open /\ ~relay[s].entry
  BY <1>0, <1>2
<1>4. relay'[s] = Out!NewRelay /\ rx'[s] = [open |-> TRUE, exp |-> 0]
  BY <1>3 DEF Out!ReceiveSyn, Out!Handler, Out!Ensured, Typed
<1>5. rx'[s].open /\ relay'[s].sock = "none" /\ relay'[s].phase = "METHODS"
  BY <1>4 DEF Out!NewRelay
<1>6. seen[s] = <<>> /\ down'[s] = <<>> /\ ahead'[s] = Answers
  BY <1>0, <1>1, <1>3 DEF Talk
<1>7. Speaking(seen[s], down'[s], relay'[s], ahead'[s])
  BY <1>5, <1>6, SaysNothing DEF Speaking
<1> QED
  BY <1>5, <1>7, TalkSpeaks DEF TalkOut

(* The connect is reported; the target's bytes follow. *)
LEMMA OkSpoken ==
    ASSUME NEW n \in Bytes, NEW d \in Seq(Segments), NEW e, Says(Good, n, d), Len(n) + Len(d) = 1,
           Spoke(d, e, <<"ok">>), NEW q, q.sock = "open"
    PROVE  Speaking(n, e, q, Answers)
<1>0. Len(n) \in Nat /\ Len(d) \in Nat /\ Len(Answers) \in Nat /\ Len(Good) \in Nat /\ Len(Good) >= 2
  <2>1. Len(n) \in Nat /\ Len(d) \in Nat /\ Len(Answers) \in Nat
    BY GoodFacts DEF Bytes
  <2> QED
    BY <2>1, GoodFacts
<1>1. Good[1 + 1] = "ok" /\ Len(n) + Len(d) < Len(Good)
  BY <1>0, GoodFacts
<1>2. Spoke(d, e, <<Good[Len(n) + Len(d) + 1]>>)
  BY <1>1
<1>3. Says(Good, n, e)
  BY <1>0, <1>1, <1>2, SaysWord
<1>4. Len(e) = Len(d) + 1
  BY DEF Spoke
<1>5. Len(n) + Len(e) = 2
  BY <1>0, <1>4
<1>6. /\ Len(n) + Len(e) >= 2 /\ Len(n) + Len(e) + Len(Answers) = Len(Good)
      /\ \A j \in 1..Len(Answers) : Answers[j] = Good[Len(n) + Len(e) + j]
  BY <1>0, <1>5, GoodFacts
<1> QED
  BY <1>3, <1>6 DEF Speaking

LEMMA ByteSpoken ==
    ASSUME NEW n \in Bytes, NEW d \in Seq(Segments), NEW e, NEW r,
           NEW a \in Bytes, a # <<>>, NEW z, z = Tail(a),
           Speaking(n, d, r, a), r.sock = "open", Spoke(d, e, <<Head(a)>>)
    PROVE  Speaking(n, e, r, z)
<1> DEFINE k == Len(n) + Len(d)
<1>0. /\ Len(n) \in Nat /\ Len(d) \in Nat /\ Len(a) \in Nat /\ Len(a) >= 1 /\ k \in Nat
      /\ Len(z) = Len(a) - 1 /\ Head(a) = a[1] /\ \A j \in 1..Len(z) : z[j] = a[j + 1]
  BY DEF Bytes
<1>1. /\ Says(Good, n, d) /\ k >= 2 /\ k + Len(a) = Len(Good)
      /\ \A j \in 1..Len(a) : a[j] = Good[k + j]
  BY DEF Speaking
<1>2. Len(e) = Len(d) + 1
  BY DEF Spoke
<1>3. Len(n) + Len(e) = k + 1
  BY <1>0, <1>2
<1>4. Head(a) = Good[k + 1]
  <2>1. 1 \in 1..Len(a)
    BY <1>0
  <2> QED
    BY <1>0, <1>1, <2>1, Zenon
<1>5. Spoke(d, e, <<Good[Len(n) + Len(d) + 1]>>)
  BY <1>4
<1> HIDE DEF k
<1>6. k < Len(Good) /\ Len(Good) \in Nat
  BY <1>0, <1>1
<1>7. Says(Good, n, e)
  BY <1>0, <1>1, <1>5, <1>6, SaysWord DEF k
<1>8. k + 1 >= 2 /\ (k + 1) + Len(z) = Len(Good)
  BY <1>0, <1>1
<1>9. \A j \in 1..Len(z) : z[j] = Good[(k + 1) + j]
  <2> TAKE j \in 1..Len(z)
  <2>1. j \in Nat /\ j + 1 \in 1..Len(a) /\ k + (j + 1) = (k + 1) + j
    BY <1>0
  <2> QED
    BY <1>0, <1>1, <2>1, Zenon
<1> QED
  BY <1>3, <1>7, <1>8, <1>9 DEF Speaking

LEMMA DialTalks ==
    ASSUME Typed, StreamInv, EndInv, TalkInv, NEW s \in Sids, Live(sess[s]), ~Finishing(down[s]),
           Out!startConnect(s)
    PROVE  TalkOut(s)
<1>0. /\ relay[s] \in Relays /\ down[s] \in Seq(Segments) /\ seen[s] \in Bytes
      /\ Track(s, relay[s], rx[s], fed[s], taken[s], busy)
      /\ Told(seen[s], down[s]) /\ Talk(s, seen[s], down[s], rx[s], relay[s], busy, ahead[s])
      /\ ~rx[s].open => busy # <<s, "dial">>
  BY TalkBefore
<1>1. busy = <<s, "dial">> /\ busy' = <<>> /\ ahead' = ahead /\ busy' # <<s, "dial">>
  BY DEF Out!startConnect
<1>2. rx[s].open /\ relay[s].sock = "none" /\ relay[s].phase \in {"CONNECTING", "CLOSED"}
  BY <1>0, <1>1 DEF Track, Talk
<1>3. /\ Speaking(seen[s], down[s], relay[s], ahead[s])
  BY <1>0, <1>1, <1>2 DEF Talk, Mute
<1>4. /\ Says(Good, seen[s], down[s]) /\ ahead[s] = Answers
      /\ Len(seen[s]) + Len(down[s]) = 1
  BY <1>2, <1>3 DEF Speaking
<1>5. CASE Out!CloseAfter(s, relay[s], <<"unreach">>)
  BY <1>0, <1>1, <1>2, <1>4, <1>5, CloseTalks, Replies
<1>6. CASE /\ relay' = [relay EXCEPT ![s].sock = "connecting", ![s].late = relay[s].phase = "CLOSED"]
           /\ UNCHANGED <<down, rx>>
  <2>1. relay'[s].sock = "connecting" /\ relay'[s].phase = relay[s].phase
    BY <1>0, <1>6 DEF Typed, Relays
  <2>2. Speaking(seen[s], down'[s], relay'[s], ahead'[s])
    BY <1>1, <1>2, <1>4, <1>6, <2>1 DEF Speaking
  <2> QED
    BY <1>1, <1>2, <1>6, <2>2, TalkSpeaks DEF TalkOut
<1> QED
  BY <1>5, <1>6 DEF Out!startConnect

LEMMA OpenTalks ==
    ASSUME Typed, StreamInv, EndInv, TalkInv, NEW s \in Sids, Live(sess[s]), ~Finishing(down[s]),
           Out!onRemoteOpen(s)
    PROVE  TalkOut(s)
<1>0. /\ relay[s] \in Relays /\ down[s] \in Seq(Segments) /\ seen[s] \in Bytes
      /\ Track(s, relay[s], rx[s], fed[s], taken[s], busy)
      /\ Talk(s, seen[s], down[s], rx[s], relay[s], busy, ahead[s])
      /\ ~rx[s].open => relay[s].sock = "none"
      /\ rx[s] \in [open : BOOLEAN, exp : Nat]
  BY TalkBefore
<1>1. /\ relay[s].sock = "connecting" /\ busy' = <<s, "open">> /\ UNCHANGED <<rx, ahead>>
      /\ relay'[s] = [relay[s] EXCEPT !.sock = "open"]
      /\ down' = Out!Sends(s, Out!Data(<<"ok">>))
  BY DEF Out!onRemoteOpen, Typed
<1>2. rx[s].open /\ relay[s].phase # "METHODS"
  BY <1>0, <1>1 DEF Track
<1>3. Speaking(seen[s], down[s], relay[s], ahead[s])
  BY <1>0, <1>1, <1>2 DEF Talk, Mute
<1>4. /\ Says(Good, seen[s], down[s]) /\ ahead[s] = Answers
      /\ Len(seen[s]) + Len(down[s]) = 1
  BY <1>1, <1>2, <1>3 DEF Speaking
<1>5. down'[s] = down[s] \o Out!Data(<<"ok">>)
  BY <1>1, <1>2 DEF Out!Sends, Typed
<1>6. <<"ok">> # <<>>
  OBVIOUS
<1>7. Spoke(down[s], down'[s], <<"ok">>)
  BY <1>0, <1>5, <1>6, SentWord, Replies
<1>8. relay'[s].sock = "open"
  BY <1>0, <1>1 DEF Relays
<1>9. Speaking(seen[s], down'[s], relay'[s], ahead'[s])
  BY <1>0, <1>1, <1>4, <1>7, <1>8, OkSpoken
<1>10. busy' # <<s, "dial">>
  BY <1>1
<1> QED
  BY <1>1, <1>2, <1>9, <1>10, TalkSpeaks DEF TalkOut

LEMMA RelayTalks ==
    ASSUME Typed, StreamInv, EndInv, TalkInv, NEW s \in Sids, Live(sess[s]), ~Finishing(down[s]),
           Out!startRelaying(s) \/ Out!onRemoteBytes(s) \/ Out!onRemoteClose(s)
    PROVE  TalkOut(s)
<1>0. /\ relay[s] \in Relays /\ down[s] \in Seq(Segments) /\ seen[s] \in Bytes /\ ahead[s] \in Bytes
      /\ Track(s, relay[s], rx[s], fed[s], taken[s], busy)
      /\ Told(seen[s], down[s]) /\ Talk(s, seen[s], down[s], rx[s], relay[s], busy, ahead[s])
      /\ ~rx[s].open => relay[s].sock = "none" /\ busy # <<s, "open">>
      /\ rx[s] \in [open : BOOLEAN, exp : Nat]
  BY TalkBefore
<1>1. CASE Out!startRelaying(s)
  <2>1. /\ busy = <<s, "open">> /\ busy' = <<>> /\ UNCHANGED <<rx, down, ahead>>
        /\ relay'[s] = [relay[s] EXCEPT !.phase = "RELAYING", !.buf = <<>>]
    BY <1>1 DEF Out!startRelaying, Typed
  <2>2. relay'[s].sock = relay[s].sock /\ relay'[s].phase = "RELAYING" /\ rx[s].open
        /\ relay[s].sock \in {"none", "open"} /\ busy # <<s, "dial">> /\ busy' # <<s, "dial">>
    BY <1>0, <2>1 DEF Relays, Track
  <2>3. CASE relay[s].sock = "none"
    <3>1. Mute(s, relay'[s], busy')
      BY <2>2, <2>3 DEF Mute
    <3> QED
      BY <1>0, <2>1, <2>2, <3>1, TalkMute DEF TalkOut
  <2>4. CASE relay[s].sock = "open"
    <3>1. Speaking(seen[s], down[s], relay[s], ahead[s])
      BY <1>0, <2>2, <2>4 DEF Talk, Mute
    <3>2. Speaking(seen[s], down'[s], relay'[s], ahead'[s])
      BY <2>1, <2>2, <2>4, <3>1 DEF Speaking
    <3> QED
      BY <2>1, <2>2, <3>2, TalkSpeaks DEF TalkOut
  <2> QED
    BY <2>2, <2>3, <2>4
<1>2. CASE Out!onRemoteBytes(s)
  <2>1. /\ relay[s].sock = "open" /\ ahead[s] # <<>> /\ UNCHANGED <<rx, relay, busy>> /\ busy = <<>>
        /\ ahead'[s] = Tail(ahead[s])
        /\ down' = Out!Sends(s, Out!Data(<<Head(ahead[s])>>))
    BY <1>2 DEF Out!onRemoteBytes, Out!Free, Typed
  <2>2. rx[s].open
    BY <1>0, <2>1
  <2>3. Speaking(seen[s], down[s], relay[s], ahead[s])
    BY <1>0, <2>1, <2>2 DEF Talk, Mute
  <2>4. down'[s] = down[s] \o Out!Data(<<Head(ahead[s])>>)
    BY <2>1, <2>2 DEF Out!Sends, Typed
  <2>5. <<Head(ahead[s])>> \in Bytes /\ <<Head(ahead[s])>> # <<>>
    BY <1>0, <2>1 DEF Bytes
  <2>6. Spoke(down[s], down'[s], <<Head(ahead[s])>>)
    BY <1>0, <2>4, <2>5, SentWord
  <2>7. Speaking(seen[s], down'[s], relay[s], ahead'[s])
    BY <1>0, <2>1, <2>3, <2>6, ByteSpoken
  <2>8. busy' # <<s, "dial">>
    BY <2>1
  <2> QED
    BY <2>1, <2>2, <2>7, <2>8, TalkSpeaks DEF TalkOut
<1>3. CASE Out!onRemoteClose(s)
  <2> DEFINE q == [relay[s] EXCEPT !.sock = "none"]
  <2>1. q \in Relays /\ q.sock = "none"
    BY <1>0 DEF Relays
  <2>2. Out!CloseAfter(s, q, <<>>) /\ busy' = <<>> /\ relay[s].sock # "none"
    BY <1>3 DEF Out!onRemoteClose, Out!Free
  <2> HIDE DEF q
  <2>3. rx[s].open
    BY <1>0, <2>2
  <2> QED
    BY <1>0, <2>1, <2>2, <2>3, CloseTalks, NoBytes
<1> QED
  BY <1>1, <1>2, <1>3

LEMMA StopTalks ==
    ASSUME Typed, StreamInv, EndInv, TalkInv, NEW s \in Sids, Live(sess[s]), ~Finishing(down[s]),
           Out!stop \/ Out!StopRelay(s) \/ Out!StopRelaySession(s)
    PROVE  TalkOut(s)
<1>0. /\ relay[s] \in Relays /\ down[s] \in Seq(Segments) /\ seen[s] \in Bytes
      /\ Track(s, relay[s], rx[s], fed[s], taken[s], busy)
      /\ Told(seen[s], down[s]) /\ Talk(s, seen[s], down[s], rx[s], relay[s], busy, ahead[s])
      /\ ~rx[s].open => relay[s].phase = "CLOSED"
      /\ rx[s] \in [open : BOOLEAN, exp : Nat]
  BY TalkBefore
<1>1. CASE Out!stop
  <2>1. /\ relay'[s] = IF relay[s].entry THEN [relay[s] EXCEPT !.entry = FALSE, !.doomed = "todo"] ELSE relay[s]
        /\ UNCHANGED <<rx, down, busy, ahead>>
    BY <1>1 DEF Out!stop
  <2>2. relay'[s].sock = relay[s].sock /\ relay'[s].phase = relay[s].phase
    BY <1>0, <2>1 DEF Relays
  <2> QED
    BY <1>0, <2>1, <2>2, TalkSame
<1>2. CASE Out!StopRelay(s)
  <2>1. /\ UNCHANGED <<rx, down, busy, ahead>>
        /\ relay'[s] = IF relay[s].phase = "CLOSED" THEN [relay[s] EXCEPT !.doomed = "no"]
                       ELSE [relay[s] EXCEPT !.phase = "CLOSED", !.sock = "none", !.doomed = "half"]
    BY <1>2 DEF Out!StopRelay, Typed
  <2>2. CASE relay[s].phase = "CLOSED"
    <3>1. relay'[s].sock = relay[s].sock /\ relay'[s].phase = relay[s].phase
      BY <1>0, <2>1, <2>2 DEF Relays
    <3> QED
      BY <1>0, <2>1, <3>1, TalkSame
  <2>3. CASE relay[s].phase # "CLOSED"
    <3>1. relay'[s].sock = "none" /\ relay'[s].phase = "CLOSED" /\ rx[s].open
      BY <1>0, <2>1, <2>3 DEF Relays
    <3>2. CASE busy = <<s, "dial">>
      <4>1. relay[s].phase = "CONNECTING" /\ relay[s].sock = "none"
        BY <1>0, <2>3, <3>2 DEF Track, Talk
      <4>2. Speaking(seen[s], down[s], relay[s], ahead[s])
        BY <1>0, <3>1, <3>2 DEF Talk, Mute
      <4>3. Speaking(seen[s], down'[s], relay'[s], ahead'[s])
        BY <2>1, <3>1, <4>1, <4>2 DEF Speaking
      <4> QED
        BY <2>1, <3>1, <4>3, TalkSpeaks DEF TalkOut
    <3>3. CASE busy # <<s, "dial">>
      <4>1. Mute(s, relay'[s], busy')
        BY <2>1, <3>1, <3>3 DEF Mute
      <4> QED
        BY <1>0, <2>1, <3>1, <4>1, TalkMute DEF TalkOut
    <3> QED
      BY <3>2, <3>3
  <2> QED
    BY <2>2, <2>3
<1>3. CASE Out!StopRelaySession(s)
  <2>1. /\ UNCHANGED <<busy, ahead>>
        /\ relay'[s] = [relay[s] EXCEPT !.doomed = "no", !.entry = FALSE]
        /\ rx'[s] = [rx[s] EXCEPT !.open = FALSE]
        /\ down'[s] = IF rx[s].open THEN down[s] \o Out!Fin ELSE down[s]
    BY <1>3 DEF Out!StopRelaySession, Out!Sends, Typed
  <2>2. relay'[s].sock = relay[s].sock /\ relay'[s].phase = relay[s].phase /\ ~rx'[s].open
    BY <1>0, <2>1 DEF Relays
  <2>3. CASE rx[s].open
    BY <1>0, <2>1, <2>3, SentEnd, TalkEnds DEF TalkOut
  <2>4. CASE ~rx[s].open
    <3>1. down'[s] = down[s] /\ (rx'[s].open <=> rx[s].open)
      BY <2>1, <2>2, <2>4
    <3> QED
      BY <1>0, <2>1, <2>2, <3>1, TalkSame
  <2> QED
    BY <1>0, <2>3, <2>4
<1> QED
  BY <1>1, <1>2, <1>3

(* The client's words, as feedRx answers them. *)
Answering(n, d, e, r, q, a, w, bad) ==
    /\ n \in Bytes /\ d \in Seq(Segments) /\ w \in Bytes /\ bad \in BOOLEAN
    /\ Speaking(n, d, r, a) /\ r.sock = "none" /\ q.sock = "none" /\ r.phase \in {"METHODS", "REQUEST"}
    /\ q.phase \in {"METHODS", "REQUEST", "CONNECTING"} /\ (r.phase = "REQUEST" => q.phase # "METHODS")
    /\ Said(r, q, w, bad) /\ e = d \o Reply(w, bad)

LEMMA WordsTold ==
    ASSUME NEW n, NEW d, NEW e, NEW r, NEW q, NEW a, NEW bad, NEW w, Answering(n, d, e, r, q, a, w, bad)
    PROVE  Told(n, e) /\ (bad => Finishing(e)) /\ (~bad => Speaking(n, e, q, a))
<1> USE DEF Answering
<1>0. Len(n) \in Nat /\ Len(d) \in Nat /\ Good[0 + 1] = "method" /\ Len(Good) \in Nat /\ Len(Good) >= 2
  <2>1. Len(n) \in Nat /\ Len(d) \in Nat /\ Len(Answers) \in Nat
    BY GoodFacts DEF Bytes
  <2> QED
    BY <2>1, GoodFacts
<1>1. /\ Says(Good, n, d) /\ Told(n, d) /\ a = Answers
      /\ Len(n) + Len(d) = IF r.phase = "METHODS" THEN 0 ELSE 1
  BY SpokenTold DEF Speaking
<1>2. ASSUME NEW f, r.phase = "METHODS", Spoke(d, f, <<"method">>)
      PROVE  Says(Good, n, f) /\ Told(n, f) /\ Len(n) + Len(f) = 1
  <2>1. Len(n) + Len(d) = 0 /\ Len(n) + Len(d) < Len(Good)
    BY <1>0, <1>1, <1>2
  <2>2. Spoke(d, f, <<Good[Len(n) + Len(d) + 1]>>)
    BY <1>0, <1>2, <2>1
  <2>3. Says(Good, n, f)
    BY <1>0, <1>1, <2>1, <2>2, SaysWord
  <2>4. Len(f) = Len(d) + 1
    BY <1>2 DEF Spoke
  <2> QED
    BY <1>0, <2>1, <2>3, <2>4 DEF Told
<1>3. <<"method">> # <<>> /\ <<"notsup">> # <<>> /\ <<"method", "notsup">> # <<>>
  OBVIOUS
<1>4. CASE ~bad
  <2>1. e = d \o Out!Data(w)
    BY <1>4 DEF Reply
  <2>2. CASE w = <<>>
    <3>1. e = d /\ (r.phase = "METHODS" <=> q.phase = "METHODS")
      BY <1>4, <2>1, <2>2, <1>3, SentNothing DEF Said
    <3>2. Speaking(n, e, q, a)
      BY <1>1, <3>1 DEF Speaking
    <3> QED
      BY <1>4, <3>2, SpokenTold
  <2>3. CASE w # <<>>
    <3>1. w = <<"method">> /\ r.phase = "METHODS" /\ q.phase # "METHODS"
      BY <1>4, <2>3 DEF Said
    <3>2. Spoke(d, e, <<"method">>)
      BY <2>1, <2>3, <3>1, SentWord
    <3>3. Says(Good, n, e) /\ Told(n, e) /\ Len(n) + Len(e) = 1
      BY <1>2, <3>1, <3>2
    <3>4. Speaking(n, e, q, a)
      BY <1>1, <3>1, <3>3 DEF Speaking
    <3> QED
      BY <1>4, <3>3, <3>4
  <2> QED
    BY <2>2, <2>3
<1>5. CASE bad
  <2>1. e = d \o (Out!Data(w) \o Out!Fin)
    BY <1>5 DEF Reply
  <2>2. PICK f \in Seq(Segments) : Ended(f, e) /\ (w = <<>> => f = d) /\ (w # <<>> => Spoke(d, f, w))
    BY <2>1, SentBoth
  <2>3. Told(n, f) => Told(n, e) /\ Finishing(e)
    BY <2>2, ToldEnded
  <2>4. CASE w = <<>>
    BY <1>1, <1>5, <2>2, <2>3, <2>4
  <2>5. CASE w = <<"method">> /\ r.phase = "METHODS"
    <3>1. Spoke(d, f, <<"method">>)
      BY <1>3, <2>2, <2>5
    <3> QED
      BY <1>2, <1>5, <2>3, <2>5, <3>1
  <2>6. CASE w = <<"notsup">> /\ r.phase = "REQUEST"
    <3>1. Spoke(d, f, <<"notsup">>) /\ Len(n) + Len(d) = 1
      BY <1>1, <1>3, <2>2, <2>6
    <3>2. \A t \in {"notsup", "unreach"} : Spoke(d, f, <<t>>) => Told(n, f)
      BY <1>1, <3>1, ToldRefused
    <3> QED
      BY <1>5, <2>3, <3>1, <3>2
  <2>7. CASE w = <<"method", "notsup">> /\ r.phase = "METHODS"
    <3>1. Len(n) = 0 /\ Len(d) = 0
      BY <1>0, <1>1, <2>7
    <3>2. Spoke(d, f, w)
      BY <1>3, <2>2, <2>7
    <3>3. Len(f) = 1 /\ f[1].bytes = w
      BY <3>1, <3>2 DEF Spoke
    <3>4. Len(e) = 2 /\ e[1] = f[1] /\ e[2].kind = "FIN"
      BY <2>2, <3>3 DEF Ended
    <3>5. n = <<>>
      BY <3>1 DEF Bytes
    <3>6. Told(n, e)
      BY <2>7, <3>3, <3>4, <3>5 DEF Told
    <3>7. Finishing(e)
      BY <3>4 DEF Finishing
    <3> QED
      BY <1>5, <3>6, <3>7
  <2> QED
    BY <2>4, <2>5, <2>6, <2>7 DEF Said
<1> QED
  BY <1>4, <1>5

LEMMA DataTalks ==
    ASSUME Typed, StreamInv, EndInv, TalkInv, NEW s \in Sids, Live(sess[s]), ~Finishing(down[s]),
           NEW n \in 1..Len(up[s]), Out!ReceiveData(s, n)
    PROVE  TalkOut(s)
<1>0. /\ relay[s] \in Relays /\ down[s] \in Seq(Segments) /\ seen[s] \in Bytes
      /\ rx[s] \in [open : BOOLEAN, exp : Nat]
      /\ Track(s, relay[s], rx[s], fed[s], taken[s], busy)
      /\ Told(seen[s], down[s]) /\ Talk(s, seen[s], down[s], rx[s], relay[s], busy, ahead[s])
      /\ ~rx[s].open => up[s][1].kind = "SYN"
  BY TalkBefore
<1>1. PICK b \in Bytes, r \in Relays, q \in Relays, bad \in BOOLEAN : DataStep(s, n, b, r, q, bad)
  BY DataFacts
<1>2. rx'[s].open = ~bad /\ up[s][1].kind = "DATA"
  BY <1>1, Given
<1>3. rx[s].open /\ busy = <<>> /\ busy # <<s, "dial">> /\ ahead'[s] = ahead[s]
  BY <1>0, <1>1, <1>2 DEF DataStep, Out!Free
<1>4. r.sock = relay[s].sock /\ r.phase = relay[s].phase
  <2>1. r = [relay[s] EXCEPT !.buf = relay[s].buf \o b]
    BY <1>1, <1>3 DEF DataStep, Out!Handler
  <2> QED
    BY <1>0, <2>1 DEF Relays
<1>5. /\ q.sock = r.sock
      /\ q.phase = r.phase \/ (r.phase \in {"METHODS", "REQUEST"} /\ q.phase \in {"REQUEST", "CONNECTING"})
      /\ r.phase = "REQUEST" => q.phase # "METHODS"
  BY <1>1 DEF DataStep, Advanced
<1>6. PICK w \in Bytes : Said(r, q, w, bad) /\ down' = [down EXCEPT ![s] = down[s] \o Reply(w, bad)]
  BY <1>1 DEF DataStep
<1>7. down'[s] = down[s] \o Reply(w, bad)
  BY <1>6 DEF Typed
<1>8. /\ bad => r.phase \in {"METHODS", "REQUEST"}
      /\ busy' = <<s, "dial">> => r.phase # q.phase
      /\ ~bad => relay'[s] = IF r.phase = "RELAYING" THEN [r EXCEPT !.buf = <<>>] ELSE q
  <2>1. bad => r.phase \in {"METHODS", "REQUEST"}
    BY <1>1 DEF DataStep
  <2>2. busy' = <<s, "dial">> => r.phase # q.phase
    BY <1>1 DEF DataStep
  <2> QED
    BY <1>1, <2>1, <2>2 DEF DataStep, Typed
<1>9. ~bad => relay'[s].sock = q.sock /\ relay'[s].phase = q.phase
  BY <1>5, <1>8 DEF Relays
<1>10. CASE r.phase \in {"METHODS", "REQUEST"}
  <2>1. relay[s].sock = "none" /\ relay[s].phase \in {"METHODS", "REQUEST"}
    BY <1>0, <1>4, <1>10 DEF Track
  <2>2. Speaking(seen[s], down[s], relay[s], ahead[s])
    BY <1>0, <1>3, <2>1 DEF Talk, Mute
  <2>3. Speaking(seen[s], down[s], r, ahead[s])
    BY <1>4, <2>2 DEF Speaking
  <2>4. r.sock = "none" /\ q.sock = "none" /\ q.phase \in {"METHODS", "REQUEST", "CONNECTING"}
    BY <1>4, <1>5, <1>10, <2>1
  <2>5. /\ Told(seen[s], down'[s]) /\ (bad => Finishing(down'[s]))
        /\ (~bad => Speaking(seen[s], down'[s], q, ahead[s]))
    <3>1. Answering(seen[s], down[s], down'[s], r, q, ahead[s], w, bad)
      BY <1>0, <1>5, <1>6, <1>7, <1>10, <2>3, <2>4 DEF Answering
    <3> QED
      BY <3>1, WordsTold, Zenon
  <2>6. CASE bad
    BY <2>5, <2>6 DEF TalkOut, TalksOn
  <2>7. CASE ~bad
    <3>1. Speaking(seen[s], down'[s], relay'[s], ahead'[s])
      BY <1>3, <1>9, <2>5, <2>7 DEF Speaking
    <3>2. rx'[s].open /\ relay'[s].sock = "none"
      BY <1>2, <1>9, <2>4, <2>7
    <3> QED
      BY <3>1, <3>2, TalkSpeaks DEF TalkOut
  <2> QED
    BY <2>6, <2>7
<1>11. CASE r.phase \notin {"METHODS", "REQUEST"}
  <2>1. ~bad /\ q.phase = r.phase /\ busy' # <<s, "dial">>
    BY <1>5, <1>8, <1>11
  <2>2. w = <<>>
    BY <1>6, <1>11, <2>1 DEF Said
  <2>3. down'[s] = down[s]
    BY <1>0, <1>7, <2>1, <2>2, SentNothing DEF Reply
  <2>4. rx'[s].open <=> rx[s].open
    BY <1>2, <1>3, <2>1
  <2>5. relay'[s].sock = relay[s].sock /\ relay'[s].phase = relay[s].phase
    BY <1>4, <1>5, <1>9, <2>1
  <2> QED
    BY <1>0, <1>3, <2>1, <2>3, <2>4, <2>5, TalkSame
<1> QED
  BY <1>10, <1>11

(* The way back only grows at its end. *)
LEMMA OutGrows ==
    ASSUME Typed, StreamInv, NEW s \in Sids, StepAt(s)
    PROVE  /\ down'[s] \in Seq(Segments) /\ Len(down[s]) <= Len(down'[s])
           /\ \A i \in 1..Len(down[s]) : down'[s][i] = down[s][i]
<1>0. down[s] \in Seq(Segments) /\ down \in [Sids -> Seq(Segments)] /\ relay[s] \in Relays
  BY DEF Typed
<1> DEFINE Grown == \E g \in Seq(Segments) : down'[s] = down[s] \o g
           Same == down'[s] = down[s]
<1>1. \A w \in Bytes : Out!Data(w) \in Seq(Segments) /\ Out!Fin \in Seq(Segments)
                       /\ Out!Data(w) \o Out!Fin \in Seq(Segments)
  <2> TAKE w \in Bytes
  <2> DEFINE u == Out!Data(w)
             v == Out!Fin
  <2>1. u \in Seq(Segments) /\ v \in Seq(Segments)
    BY DataSegs
  <2> HIDE DEF u, v
  <2>2. u \o v \in Seq(Segments)
    BY <2>1, ConcatProperties
  <2> QED
    BY <2>1, <2>2 DEF u, v
<1>2. ASSUME NEW r \in Relays, NEW w \in Bytes, Out!CloseAfter(s, r, w) PROVE Same \/ Grown
  <2>1. Same \/ down'[s] = down[s] \o Out!Data(w) \/ down'[s] = down[s] \o (Out!Data(w) \o Out!Fin)
    BY <1>2, CloseEffect
  <2> QED
    BY <1>1, <2>1
<1>3. ASSUME NEW g \in Seq(Segments), down' = Out!Sends(s, g) PROVE Same \/ Grown
  BY <1>0, <1>3 DEF Out!Sends
<1>4. Same \/ Grown
  <2>1. CASE Out!ReceiveSyn(s) \/ Out!startRelaying(s) \/ Out!StopRelay(s)
    BY <2>1 DEF Out!ReceiveSyn, Out!startRelaying, Out!StopRelay
  <2>2. CASE Out!ReceiveFin(s)
    <3>1. Same \/ Out!CloseAfter(s, relay[s], <<>>)
      BY <2>2 DEF Out!ReceiveFin
    <3> QED
      BY <1>0, <1>2, <3>1, NoBytes
  <2>3. ASSUME NEW n \in 1..Len(up[s]), Out!ReceiveData(s, n) PROVE Grown
    <3>1. PICK b \in Bytes, r \in Relays, q \in Relays, bad \in BOOLEAN : DataStep(s, n, b, r, q, bad)
      BY <2>3, DataFacts
    <3>2. PICK w \in Bytes : down' = [down EXCEPT ![s] = down[s] \o Reply(w, bad)]
      BY <3>1 DEF DataStep
    <3> QED
      BY <1>0, <3>2, ReplyType
  <2>4. CASE Out!startConnect(s)
    <3>1. Same \/ Out!CloseAfter(s, relay[s], <<"unreach">>)
      BY <2>4 DEF Out!startConnect
    <3> QED
      BY <1>0, <1>2, <3>1, Replies
  <2>5. CASE Out!onRemoteOpen(s)
    BY <1>1, <1>3, <2>5, Replies DEF Out!onRemoteOpen
  <2>6. CASE Out!StopRelaySession(s)
    BY <1>1, <1>3, <2>6, NoBytes DEF Out!StopRelaySession
  <2>7. CASE Out!onRemoteBytes(s)
    <3>1. <<Head(ahead[s])>> \in Bytes
      BY <2>7 DEF Out!onRemoteBytes, Typed, Bytes
    <3> QED
      BY <1>1, <1>3, <2>7, <3>1 DEF Out!onRemoteBytes
  <2>8. CASE Out!onRemoteClose(s)
    <3> DEFINE q == [relay[s] EXCEPT !.sock = "none"]
    <3>1. q \in Relays /\ Out!CloseAfter(s, q, <<>>)
      BY <1>0, <2>8 DEF Out!onRemoteClose, Relays
    <3> HIDE DEF q
    <3> QED
      BY <1>2, <3>1, NoBytes
  <2> QED
    BY <2>1, <2>2, <2>3, <2>4, <2>5, <2>6, <2>7, <2>8 DEF StepAt
<1>5. CASE Same
  BY <1>0, <1>5
<1>6. CASE Grown
  <2>1. PICK g \in Seq(Segments) : down'[s] = down[s] \o g
    BY <1>6
  <2>2. /\ down[s] \o g \in Seq(Segments) /\ Len(down[s] \o g) = Len(down[s]) + Len(g)
        /\ \A i \in 1..Len(down[s]) : (down[s] \o g)[i] = down[s][i]
    BY <1>0, JoinSegs, Zenon
  <2>3. Len(down[s]) \in Nat /\ Len(g) \in Nat
    BY <1>0
  <2>4. Len(down[s]) <= Len(down'[s])
    BY <2>1, <2>2, <2>3
  <2> QED
    BY <2>1, <2>2, <2>4, Zenon
<1> HIDE DEF Same, Grown
<1> QED
  BY <1>4, <1>5, <1>6

(* The invariant holds of session s after the step. *)
TalkKept(s) ==
    /\ seen'[s] \in Bytes /\ Saw(seen'[s])
    /\ s >= next_id' \/ half' = s => seen'[s] = <<>> /\ ahead'[s] = Answers
    /\ Live(sess'[s]) => TalksOn(s, seen'[s], down'[s], rx'[s], relay'[s], busy', ahead'[s])

LEMMA TalkOf ==
    ASSUME TalkInv, NEW s \in Sids
    PROVE  /\ seen[s] \in Bytes /\ Saw(seen[s])
           /\ s >= next_id \/ half = s => seen[s] = <<>> /\ ahead[s] = Answers
           /\ Live(sess[s]) => TalksOn(s, seen[s], down[s], rx[s], relay[s], busy, ahead[s])
BY DEF TalkInv, TalksOn

(* Only the target's bytes change what it has yet to send. *)
LEMMA AheadKept ==
    ASSUME Typed, NEW c \in Sids, StepAt(c), NEW s \in Sids, s # c \/ relay[s].sock # "open"
    PROVE  ahead'[s] = ahead[s]
<1>1. CASE Out!onRemoteBytes(c)
  BY <1>1 DEF Out!onRemoteBytes, Typed
<1>2. ASSUME NEW n \in 1..Len(up[c]), Out!ReceiveData(c, n) PROVE ahead' = ahead
  BY <1>2 DEF Out!ReceiveData
<1>3. CASE \/ Out!ReceiveSyn(c) \/ Out!ReceiveFin(c) \/ Out!startConnect(c) \/ Out!onRemoteOpen(c)
           \/ Out!startRelaying(c) \/ Out!StopRelay(c) \/ Out!StopRelaySession(c) \/ Out!onRemoteClose(c)
  BY <1>3 DEF Out!ReceiveSyn, Out!ReceiveFin, Out!startConnect, Out!onRemoteOpen,
              Out!startRelaying, Out!StopRelay, Out!StopRelaySession, Out!onRemoteClose
<1> QED
  BY <1>1, <1>2, <1>3 DEF StepAt

(* A step of the Outport keeps the conversations. *)
LEMMA OutTalks ==
    ASSUME Typed, StreamInv, EndInv, TalkInv, Outport, NEW s \in Sids
    PROVE  TalkKept(s)
<1>0. UNCHANGED inSide /\ UNCHANGED <<seen, next_id, half, sess>>
  BY DEF Outport, inSide
<1>1. Out!stop \/ \E c \in Sids : StepAt(c)
  BY DEF Outport, Out!OutNext, Out!Progress, StepAt
<1>2. /\ seen[s] \in Bytes /\ Saw(seen[s])
      /\ s >= next_id \/ half = s => seen[s] = <<>> /\ ahead[s] = Answers
      /\ Live(sess[s]) => TalksOn(s, seen[s], down[s], rx[s], relay[s], busy, ahead[s])
  BY TalkOf
<1>3. s >= next_id \/ half = s => relay[s].sock # "open"
  <2>1. Track(s, relay[s], rx[s], fed[s], taken[s], busy) /\ Early(s)
    BY BothEnds
  <2> QED
    BY <2>1 DEF Track, Early
<1>4. s >= next_id \/ half = s => ahead'[s] = ahead[s]
  <2>1. CASE Out!stop
    BY <2>1 DEF Out!stop
  <2>2. CASE \E c \in Sids : StepAt(c)
    BY <1>3, <2>2, AheadKept
  <2> QED
    BY <1>1, <2>1, <2>2
<1>5. ASSUME Live(sess[s]) PROVE TalkOut(s)
  <2>0. Told(seen[s], down[s]) /\ down[s] \in Seq(Segments)
    BY <1>2, <1>5 DEF TalksOn, Typed
  <2>1. CASE Out!stop
    <3>1. CASE Finishing(down[s])
      <4>1. down' = down
        BY <2>1 DEF Out!stop
      <4> QED
        BY <2>0, <3>1, <4>1 DEF TalkOut, TalksOn
    <3> QED
      BY <1>5, <2>1, <3>1, StopTalks
  <2>2. ASSUME StepAt(s) PROVE TalkOut(s)
    <3>1. CASE Finishing(down[s])
      <4>1. /\ down'[s] \in Seq(Segments) /\ Len(down[s]) <= Len(down'[s])
            /\ \A i \in 1..Len(down[s]) : down'[s][i] = down[s][i]
        BY <2>2, OutGrows
      <4>2. Told(seen[s], down'[s]) /\ Finishing(down'[s])
        BY <2>0, <3>1, <4>1, ToldBehind
      <4> QED
        BY <4>2 DEF TalkOut, TalksOn
    <3>2. CASE ~Finishing(down[s])
      <4>1. ~Out!ReceiveFin(s)
        <5>1. up[s] \in Seq(Segments) /\ Len(up[s]) \in Nat /\ \A i \in 1..Len(up[s]) : up[s][i].kind # "FIN"
          BY <1>5, <3>2, TalkBefore
        <5>2. up[s] # <<>> => Head(up[s]).kind # "FIN"
          BY <5>1
        <5> QED
          BY <5>2 DEF Out!ReceiveFin, Out!Heard
      <4> QED
        BY <1>5, <2>2, <3>2, <4>1, SynTalks, DataTalks, DialTalks, OpenTalks, RelayTalks, StopTalks DEF StepAt
    <3> QED
      BY <3>1, <3>2
  <2>3. ASSUME NEW c \in Sids, c # s, StepAt(c) PROVE TalkOut(s)
    <3>1. Local(c) /\ ahead'[s] = ahead[s]
      BY <2>3, StepIsLocal, AheadKept
    <3>2. /\ down'[s] = down[s] /\ relay'[s] = relay[s] /\ rx'[s] = rx[s]
          /\ busy' = <<s, "dial">> => busy = <<s, "dial">>
      BY <2>3, <3>1 DEF Local
    <3>3. CASE Finishing(down[s])
      BY <2>0, <3>2, <3>3 DEF TalkOut, TalksOn
    <3>4. CASE ~Finishing(down[s])
      <4>1. Talk(s, seen[s], down[s], rx[s], relay[s], busy, ahead[s])
        BY <1>2, <1>5, <3>4 DEF TalksOn
      <4> QED
        BY <2>0, <3>1, <3>2, <4>1, TalkSame
    <3> QED
      BY <3>3, <3>4
  <2> QED
    BY <1>1, <2>1, <2>2, <2>3
<1>6. Live(sess'[s]) => TalksOn(s, seen'[s], down'[s], rx'[s], relay'[s], busy', ahead'[s])
  BY <1>0, <1>5 DEF TalkOut
<1> QED
  BY <1>0, <1>2, <1>4, <1>6 DEF TalkKept

-----------------------------------------------------------------------------
(* The conversation, over a step of the Inport.                             *)

LEMMA InSame ==
    ASSUME TalkInv, NEW s \in Sids, UNCHANGED outSide, seen'[s] = seen[s],
           Live(sess'[s]) => Live(sess[s]) /\ down'[s] = down[s],
           s >= next_id' \/ half' = s => s >= next_id \/ half = s
    PROVE  TalkKept(s)
<1>1. /\ seen[s] \in Bytes /\ Saw(seen[s])
      /\ s >= next_id \/ half = s => seen[s] = <<>> /\ ahead[s] = Answers
      /\ Live(sess[s]) => TalksOn(s, seen[s], down[s], rx[s], relay[s], busy, ahead[s])
  BY TalkOf
<1>2. UNCHANGED <<rx, relay, busy, ahead>>
  BY DEF outSide
<1> QED
  BY <1>1, <1>2 DEF TalkKept

(* The client is given the segment in front. *)
LEMMA ToldTaken ==
    ASSUME NEW n \in Bytes, NEW d \in Seq(Segments), d # <<>>, Told(n, d),
           Head(d).kind = "DATA", NEW m, m = n \o Head(d).bytes, NEW e, e = Tail(d)
    PROVE  m \in Bytes /\ Saw(m) /\ Told(m, e)
<1>0. /\ e \in Seq(Segments) /\ Len(d) \in Nat /\ Len(d) >= 1 /\ Len(e) = Len(d) - 1
      /\ Head(d) = d[1] /\ \A i \in 1..Len(e) : e[i] = d[i + 1]
  BY TailParts
<1>1. CASE Says(Good, n, d)
  <2>1. m \in Bytes /\ Says(Good, m, e)
    BY <1>1, GoodFacts, SaysTaken
  <2>2. Saw(m)
    BY <2>1, SaysSaw
  <2> QED
    BY <2>1, <2>2 DEF Told
<1>2. CASE \E w \in Refusals : Says(w, n, d)
  <2>1. PICK w \in Refusals : Says(w, n, d)
    BY <1>2
  <2>2. w \in Bytes
    BY RefusalFacts
  <2>3. m \in Bytes /\ Says(w, m, e)
    BY <2>1, <2>2, SaysTaken
  <2>4. Saw(m)
    BY <2>3, SaysSaw
  <2> QED
    BY <2>3, <2>4 DEF Told
<1>3. CASE n = <<>> /\ Len(d) >= 2 /\ d[1].bytes = <<"method", "notsup">> /\ d[2].kind = "FIN"
  <2> DEFINE w == <<"method", "notsup">>
  <2>1. w \in Refusals /\ Head(d).bytes = w
    BY <1>0, <1>3 DEF Refusals
  <2> HIDE DEF w
  <2>2. w \in Bytes /\ Len(w) = 2
    BY <2>1, RefusalFacts
  <2>3. m = w
    BY <1>3, <2>1, <2>2, ConcatProperties DEF Bytes
  <2>4. 1 \in 1..Len(e) /\ e[1] = d[1 + 1] /\ e[1].kind = "FIN"
    BY <1>0, <1>3
  <2>5. ASSUME NEW i \in 1..Len(e) PROVE ~Upto(e, i)
    <3>1. 1 \in 1..i
      BY <1>0
    <3> QED
      BY <2>4, <3>1 DEF Upto
  <2>6. Says(w, m, e)
    <3>1. Len(m) <= Len(w) /\ \A i \in 1..Len(m) : m[i] = w[i]
      <4>1. Len(w) <= Len(w)
        BY <2>2
      <4> QED
        BY <2>3, <4>1, Zenon
    <3> QED
      BY <2>5, <3>1, Zenon DEF Says
  <2> QED
    BY <2>1, <2>2, <2>3, <2>6 DEF Told, Saw
<1> QED
  BY <1>1, <1>2, <1>3 DEF Told

LEMMA SpeakingTaken ==
    ASSUME NEW n \in Bytes, NEW d \in Seq(Segments), d # <<>>, NEW r, NEW a, Speaking(n, d, r, a),
           Head(d).kind = "DATA", NEW m, m = n \o Head(d).bytes, NEW e, e = Tail(d)
    PROVE  Speaking(m, e, r, a)
<1>0. Len(d) \in Nat /\ Len(d) >= 1 /\ Len(e) = Len(d) - 1 /\ Len(n) \in Nat
  BY TailParts DEF Bytes
<1>1. Says(Good, n, d)
  BY DEF Speaking
<1>2. Good \in Bytes
  BY GoodFacts
<1>3. m \in Bytes /\ Len(m) = Len(n) + 1 /\ Len(m) <= Len(Good) /\ Says(Good, m, e)
  <2>1. \A w : w \in Bytes /\ Says(w, n, d) =>
                 m \in Bytes /\ Len(m) = Len(n) + 1 /\ Len(m) <= Len(w) /\ Says(w, m, e)
    <3> TAKE w
    <3> HAVE w \in Bytes /\ Says(w, n, d)
    <3>1. d # <<>> /\ Head(d).kind = "DATA" /\ n \in Bytes /\ d \in Seq(Segments)
      OBVIOUS
    <3>2. m = n \o Head(d).bytes /\ e = Tail(d)
      OBVIOUS
    <3> QED
      BY <3>1, <3>2, SaysTaken, Zenon
  <2> QED
    BY <1>1, <1>2, <2>1, Zenon
<1>4. Len(m) + Len(e) = Len(n) + Len(d)
  <2>1. \A a1, b1 \in Nat : (a1 + 1) + (b1 - 1) = a1 + b1
    OBVIOUS
  <2> QED
    BY <1>0, <1>3, <2>1, Zenon
<1> QED
  BY <1>3, <1>4 DEF Speaking

LEMMA TakeTalks ==
    ASSUME Typed, StreamInv, EndInv, TalkInv, UNCHANGED outSide, NEW s \in Sids, In!onSessionData(s)
    PROVE  TalkKept(s)
<1>0. /\ seen[s] \in Bytes /\ Saw(seen[s]) /\ sess[s] \in Clients
      /\ s >= next_id \/ half = s => seen[s] = <<>> /\ ahead[s] = Answers
      /\ Live(sess[s]) => TalksOn(s, seen[s], down[s], rx[s], relay[s], busy, ahead[s])
      /\ down[s] \in Seq(Segments) /\ UNCHANGED <<rx, relay, busy, ahead>>
  BY TalkOf DEF Typed, outSide
<1>1. /\ down[s] # <<>> /\ Head(down[s]).kind = "DATA" /\ down'[s] = Tail(down[s])
      /\ sess'[s] = [sess[s] EXCEPT !.stream = IF sess[s].stream = "none" THEN "orphan" ELSE sess[s].stream]
      /\ UNCHANGED <<next_id, half>>
      /\ seen' = IF Live(sess[s]) THEN [seen EXCEPT ![s] = seen[s] \o Head(down[s]).bytes] ELSE seen
  BY DEF In!onSessionData, Typed, Live
<1>2. /\ sess'[s].closed = sess[s].closed /\ sess'[s].tcp = sess[s].tcp
      /\ sess'[s].stream = IF sess[s].stream = "none" THEN "orphan" ELSE sess[s].stream
  BY <1>0, <1>1 DEF Clients
<1>3. Live(sess'[s]) => Live(sess[s])
  BY <1>2 DEF Live
<1>4. CASE ~Live(sess[s])
  <2>1. seen'[s] = seen[s]
    BY <1>1, <1>4
  <2> QED
    BY <1>1, <1>3, <1>4, <2>1, InSame
<1>5. CASE Live(sess[s])
  <2>1. seen'[s] = seen[s] \o Head(down[s]).bytes
    BY <1>1, <1>5 DEF TalkInv
  <2>2. Told(seen[s], down[s])
    BY <1>0, <1>5 DEF TalksOn
  <2>3. seen'[s] \in Bytes /\ Saw(seen'[s]) /\ Told(seen'[s], down'[s])
    BY <1>0, <1>1, <2>1, <2>2, ToldTaken
  <2>4. ~(s >= next_id \/ half = s)
    <3>1. Early(s)
      BY BothEnds
    <3> QED
      BY <1>1, <3>1 DEF Early
  <2>5. Finishing(down'[s]) \/ Talk(s, seen'[s], down'[s], rx[s], relay[s], busy, ahead[s])
    <3>1. CASE Finishing(down[s])
      <4>1. Finishing(down'[s])
        <5>1. Ending(s, sess[s], up[s], down[s], rx[s], relay[s], busy, Begun(s))
          BY BothEnds
        <5> QED
          BY <1>0, <1>1, <3>1, <5>1, BackEnding
      <4> QED
        BY <4>1
    <3>2. CASE ~Finishing(down[s])
      <4>1. Talk(s, seen[s], down[s], rx[s], relay[s], busy, ahead[s])
        BY <1>0, <1>5, <3>2 DEF TalksOn
      <4>2. rx[s].open
        BY <1>1, <4>1 DEF Talk
      <4>3. Speaking(seen[s], down[s], relay[s], ahead[s]) => Speaking(seen'[s], down'[s], relay[s], ahead[s])
        BY <1>0, <1>1, <2>1, SpeakingTaken
      <4> QED
        BY <4>1, <4>2, <4>3 DEF Talk
    <3> QED
      BY <3>1, <3>2
  <2>6. TalksOn(s, seen'[s], down'[s], rx'[s], relay'[s], busy', ahead'[s])
    BY <1>0, <2>3, <2>5 DEF TalksOn
  <2> QED
    BY <1>1, <2>3, <2>4, <2>6 DEF TalkKept
<1> QED
  BY <1>4, <1>5

LEMMA AcceptTalks ==
    ASSUME Typed, StreamInv, EndInv, TalkInv, UNCHANGED outSide, NEW s \in Sids, In!Accept \/ In!OpenSession
    PROVE  TalkKept(s)
<1>0. /\ s \in Nat /\ s # 0 /\ next_id \in Nat /\ half \in Sids \cup {0} /\ sess \in [Sids -> Clients]
      /\ sess[s] \in Clients /\ Early(s) /\ Track(s, relay[s], rx[s], fed[s], taken[s], busy)
      /\ UNCHANGED <<rx, relay, busy, ahead>>
  BY BothEnds, SidsAssumption DEF Typed, outSide
<1>1. CASE In!Accept
  <2>1. /\ sess' = [sess EXCEPT ![next_id] = [sess[next_id] EXCEPT !.tcp = TRUE, !.entry = TRUE]]
        /\ next_id \in Sids /\ half = 0 /\ half' = next_id /\ next_id' = next_id + 1
        /\ down' = down /\ seen' = seen
    BY <1>1 DEF In!Accept, In!Free
  <2>2. s >= next_id' \/ half' = s => s >= next_id \/ half = s
    BY <1>0, <2>1
  <2>3. Live(sess'[s]) => Live(sess[s])
    <3>1. CASE s = next_id
      <4>1. sess[s].stream = "none" /\ sess'[s].stream = sess[s].stream
        BY <1>0, <2>1, <3>1 DEF Early, Clients
      <4> QED
        BY <4>1 DEF Live
    <3>2. CASE s # next_id
      BY <1>0, <2>1, <3>2
    <3> QED
      BY <3>1, <3>2
  <2> QED
    BY <2>1, <2>2, <2>3, InSame
<1>2. CASE In!OpenSession
  <2>1. /\ half \in Sids
        /\ sess' = [sess EXCEPT ![half] = [sess[half] EXCEPT !.stream = "open", !.late = sess[half].closed]]
        /\ half' = 0 /\ next_id' = next_id /\ down' = down /\ seen' = seen
    BY <1>0, <1>2 DEF In!OpenSession
  <2>2. CASE half # s
    <3>1. sess'[s] = sess[s]
      BY <1>0, <2>1, <2>2
    <3>2. s >= next_id' \/ half' = s => s >= next_id \/ half = s
      BY <1>0, <2>1
    <3> QED
      BY <2>1, <3>1, <3>2, InSame
  <2>3. CASE half = s
    <3>1. /\ seen[s] \in Bytes /\ Saw(seen[s]) /\ seen[s] = <<>> /\ ahead[s] = Answers
      BY <2>3, TalkOf
    <3>2. down[s] = <<>> /\ fed[s] = <<>> /\ ~rx[s].open
      BY <1>0, <2>3 DEF Early
    <3>3. busy # <<s, "dial">>
      BY <1>0, <3>2 DEF Track
    <3>4. Told(seen[s], down[s])
      BY <3>1, <3>2, SaysNothing DEF Told
    <3>5. TalksOn(s, seen[s], down[s], rx[s], relay[s], busy, ahead[s])
      BY <3>1, <3>2, <3>3, <3>4 DEF TalksOn, Talk
    <3> QED
      BY <1>0, <2>1, <3>1, <3>5 DEF TalkKept
  <2> QED
    BY <2>2, <2>3
<1> QED
  BY <1>1, <1>2

LEMMA CloseQuiet ==
    ASSUME Typed, NEW s \in Sids, In!close(s)
    PROVE  ~Live(sess'[s])
<1>0. sess \in [Sids -> Clients] /\ sess[s] \in Clients
  BY DEF Typed
<1>1. CASE sess[s].closed
  BY <1>1 DEF In!close, Live
<1>2. CASE ~sess[s].closed
  <2>1. sess'[s] = [sess[s] EXCEPT !.closed = TRUE, !.tcp = FALSE,
                                   !.entry = FALSE, !.doomed = FALSE, !.stream = "none"]
    BY <1>0, <1>2 DEF In!close
  <2>2. sess'[s].closed
    BY <1>0, <2>1 DEF Clients
  <2> QED
    BY <2>2 DEF Live
<1> QED
  BY <1>1, <1>2

LEMMA InTalks ==
    ASSUME Typed, StreamInv, EndInv, TalkInv, Inport, NEW s \in Sids
    PROVE  TalkKept(s)
<1>0. /\ UNCHANGED outSide /\ sess \in [Sids -> Clients] /\ sess[s] \in Clients
      /\ down \in [Sids -> Seq(Segments)]
  BY DEF Inport, Typed
<1>1. CASE In!Accept \/ In!OpenSession
  BY <1>0, <1>1, AcceptTalks
<1>2. ASSUME NEW c \in Sids, In!onClientBytes(c) PROVE TalkKept(s)
  <2>1. /\ sess' = [sess EXCEPT ![c] = [sess[c] EXCEPT !.seq = sess[c].seq + 1]]
        /\ UNCHANGED <<down, half, next_id, seen>>
    BY <1>2 DEF In!onClientBytes
  <2>2. Live(sess'[s]) => Live(sess[s])
    <3>1. CASE c # s
      BY <1>0, <2>1, <3>1
    <3>2. CASE c = s
      <4>1. /\ sess'[s].closed = sess[s].closed /\ sess'[s].tcp = sess[s].tcp
            /\ sess'[s].stream = sess[s].stream
        BY <1>0, <2>1, <3>2 DEF Clients
      <4> QED
        BY <4>1 DEF Live
    <3> QED
      BY <3>1, <3>2
  <2> QED
    BY <1>0, <2>1, <2>2, InSame
<1>3. ASSUME NEW c \in Sids, In!onClientClose(c) \/ In!StopSession(c) PROVE TalkKept(s)
  <2>1. In!close(c) /\ UNCHANGED <<half, next_id, down, seen>>
    BY <1>3 DEF In!onClientClose, In!StopSession
  <2>2. Live(sess'[s]) => Live(sess[s])
    <3>1. CASE c = s
      BY <2>1, <3>1, CloseQuiet
    <3>2. CASE c # s
      <4>1. sess'[s] = sess[s]
        BY <1>0, <2>1, <3>2 DEF In!close
      <4> QED
        BY <4>1
    <3> QED
      BY <3>1, <3>2
  <2> QED
    BY <1>0, <2>1, <2>2, InSame
<1>4. ASSUME NEW c \in Sids, In!onSessionData(c) PROVE TalkKept(s)
  <2>1. CASE c = s
    BY <1>0, <1>4, <2>1, TakeTalks
  <2>2. CASE c # s
    <3>1. seen'[s] = seen[s] /\ sess'[s] = sess[s] /\ down'[s] = down[s] /\ UNCHANGED <<half, next_id>>
      BY <1>0, <1>4, <2>2 DEF In!onSessionData
    <3> QED
      BY <1>0, <3>1, InSame
  <2> QED
    BY <2>1, <2>2
<1>5. ASSUME NEW c \in Sids, In!onSessionClose(c) PROVE TalkKept(s)
  <2>1. UNCHANGED <<half, next_id, seen>>
    BY <1>5 DEF In!onSessionClose
  <2>2. Live(sess'[s]) => Live(sess[s]) /\ down'[s] = down[s]
    <3>1. CASE c # s
      <4>1. sess'[s] = sess[s] /\ down'[s] = down[s]
        BY <1>0, <1>5, <3>1 DEF In!onSessionClose, In!close
      <4> QED
        BY <4>1
    <3>2. CASE c = s
      <4>1. In!close(s) \/ sess' = [sess EXCEPT ![s].stream = "none"]
        BY <1>5, <3>2 DEF In!onSessionClose
      <4>2. sess' = [sess EXCEPT ![s].stream = "none"] => sess'[s].stream = "none"
        BY <1>0 DEF Clients
      <4> QED
        BY <4>1, <4>2, CloseQuiet DEF Live
    <3> QED
      BY <3>1, <3>2
  <2> QED
    BY <1>0, <2>1, <2>2, InSame
<1>6. CASE In!stop
  <2>1. /\ sess'[s] = [sess[s] EXCEPT !.doomed = sess[s].doomed \/ sess[s].entry, !.entry = FALSE]
        /\ UNCHANGED <<down, next_id, half, seen>>
    BY <1>6 DEF In!stop
  <2>2. /\ sess'[s].closed = sess[s].closed /\ sess'[s].tcp = sess[s].tcp /\ sess'[s].stream = sess[s].stream
    BY <1>0, <2>1 DEF Clients
  <2>3. Live(sess'[s]) => Live(sess[s])
    BY <2>2 DEF Live
  <2> QED
    BY <1>0, <2>1, <2>3, InSame
<1>7. CASE In!StopAccepting
  <2>1. UNCHANGED <<down, sess, next_id, half, seen>>
    BY <1>7 DEF In!StopAccepting
  <2> QED
    BY <1>0, <2>1, InSame
<1> QED
  BY <1>1, <1>2, <1>3, <1>4, <1>5, <1>6, <1>7 DEF Inport, In!InNext, In!Progress

LEMMA TalkInit == Init => TalkInv
<1> SUFFICES ASSUME Init PROVE TalkInv
  OBVIOUS
<1>1. seen = [s \in Sids |-> <<>>] /\ ahead = [s \in Sids |-> Answers] /\ sess = [s \in Sids |-> In!NoClient]
  BY DEF Init, In!InInit
<1>2. In!NoClient.stream = "none"
  BY DEF In!NoClient
<1>3. seen \in [Sids -> Bytes]
  BY <1>1, NoBytes
<1>4. ASSUME NEW s \in Sids
      PROVE  seen[s] = <<>> /\ ahead[s] = Answers /\ ~Live(sess[s]) /\ Saw(seen[s])
  <2>1. seen[s] = <<>> /\ ahead[s] = Answers /\ ~Live(sess[s])
    BY <1>1, <1>2 DEF Live
  <2>2. Saw(<<>>)
    BY SaysNothing, SaysSaw, NoBytes
  <2> QED
    BY <2>1, <2>2
<1> QED
  BY <1>3, <1>4 DEF TalkInv

LEMMA TalkStep == ASSUME Typed, StreamInv, EndInv, TalkInv, [Next]_vars PROVE TalkInv'
<1>1. ASSUME NEW s \in Sids PROVE TalkKept(s)
  <2>1. CASE UNCHANGED vars
    <3>1. UNCHANGED outSide /\ UNCHANGED <<seen, sess, down, next_id, half>>
      BY <2>1 DEF vars, inSide, outSide
    <3> QED
      BY <3>1, InSame
  <2> QED
    BY <2>1, InTalks, OutTalks DEF Next
<1>2. \E f : seen' = f /\ DOMAIN f = Sids /\ f = [s \in Sids |-> f[s]]
  <2>0. seen = [s \in Sids |-> seen[s]] /\ DOMAIN seen = Sids
    BY DEF TalkInv
  <2>1. CASE seen' = seen
    BY <2>0, <2>1
  <2>2. CASE \E s \in Sids : \E w : seen' = [seen EXCEPT ![s] = w]
    BY <2>0, <2>2
  <2>3. seen' = seen \/ \E s \in Sids : In!onSessionData(s)
    BY DEF Next, vars, inSide, Inport, Outport, In!InNext, In!Progress, In!OpenSession, In!StopAccepting,
           In!stop, In!onSessionClose, In!StopSession, In!Accept, In!onClientBytes, In!onClientClose
  <2> QED
    BY <2>1, <2>2, <2>3 DEF In!onSessionData
<1>3. seen' \in [Sids -> Bytes]
  <2>1. \A s \in Sids : seen'[s] \in Bytes
    BY <1>1 DEF TalkKept
  <2> QED
    BY <1>2, <2>1
<1> QED
  BY <1>1, <1>3 DEF TalkKept, TalksOn, TalkInv

(* ClientStream for any number of sessions, any scripts and answers and any *)
(* interleaving of both sides: whatever a client sends and whoever closes,  *)
(* what FgwSession writes to it is one of the conversations that feedRx,    *)
(* startConnect and onRemoteOpen hold, cut off at any point; no byte of the *)
(* target comes before the success that onRemoteOpen reports.               *)
THEOREM ClientStreamAlways == Spec => []ClientStream
<1>1. Init => Typed /\ StreamInv /\ EndInv /\ TalkInv
  BY TypeInit, InitStream, EndInit, TalkInit
<1>2. (Typed /\ StreamInv /\ EndInv /\ TalkInv) /\ [Next]_vars => (Typed /\ StreamInv /\ EndInv /\ TalkInv)'
  BY TypeStep, StreamStep, EndStep, TalkStep
<1>3. TalkInv => ClientStream
  BY DEF TalkInv, Saw, Good, Refusals, ClientStream
<1> QED
  BY <1>1, <1>2, <1>3, PTL DEF Spec
=============================================================================
