------------------------------- MODULE Outport -------------------------------
(***************************************************************************)
(* The target side of the tunnel (src/src/zfgw_outport.cpp): a relay per    *)
(* session that speaks SOCKS5 with the client, connects to the target and   *)
(* passes bytes both ways.                                                  *)
(*                                                                         *)
(* Bytes are tokens: a greeting and a request come in two parts each, so    *)
(* that a read may end inside them.  The reactor runs session and socket    *)
(* callbacks; stop() runs on the machine's thread, and its close() may fall *)
(* between the two steps of startConnect and of onRemoteOpen.               *)
(***************************************************************************)
EXTENDS Naturals, Sequences, SequencesExt

CONSTANT Sids

VARIABLES
    up, down,   \* as in Inport
    relay,      \* FgwRelaySession objects and their entries in sessions_
    rx,         \* the stream's entry: whether there is one, and its expected_rx_seq
    busy,       \* the reactor is between two steps for relay s: <<s, step>>, or <<>>
    svc,        \* progress of stop()
    ahead,      \* external: what the target has yet to send
    taken,      \* external: what the target was given
    fed         \* history: what the relay was given

outVars == <<relay, rx, busy, svc, ahead, taken, fed>>

Seg(kind, seq, bytes) == [kind |-> kind, seq |-> seq, bytes |-> bytes]

(* entry: in sessions_; doomed: taken out by stop() ("todo"), closed as far *)
(* as its socket ("half"); sock: remote_tcp_; late: connects, or meets its  *)
(* FIN, while stop() is in the middle of closing it.                        *)
NewRelay == [phase |-> "METHODS", buf |-> <<>>, sock |-> "none", entry |-> TRUE,
             doomed |-> "no", late |-> FALSE]

OutInit ==
    /\ relay = [s \in Sids |-> [NewRelay EXCEPT !.phase = "CLOSED", !.entry = FALSE]]
    /\ rx = [s \in Sids |-> [open |-> FALSE, exp |-> 0]]
    /\ busy = <<>> /\ svc = "up"
    /\ taken = [s \in Sids |-> <<>>] /\ fed = [s \in Sids |-> <<>>]

Free == busy = <<>>

(* What the stream puts on the way back: nothing once the entry is gone. *)
Sends(s, segs) == IF rx[s].open THEN [down EXCEPT ![s] = @ \o segs] ELSE down
Data(tokens) == IF tokens = <<>> THEN <<>> ELSE <<Seg("DATA", 0, tokens)>>

Fin == <<Seg("FIN", 0, <<>>)>>

(* Fault variant: the entry of the stream stays. *)
CloseAfterKeeping(s, r, tokens) ==
    /\ relay' = [relay EXCEPT ![s] = [r EXCEPT !.phase = "CLOSED", !.sock = "none", !.entry = FALSE]]
    /\ down' = Sends(s, Data(tokens))
    /\ UNCHANGED rx

(* FgwRelaySession::close on the reactor, after a reply: relay r of session *)
(* s gives up its socket, its session and its entry.                        *)
CloseAfter(s, r, tokens) ==
    IF r.phase = "CLOSED"
    THEN relay' = [relay EXCEPT ![s] = r] /\ down' = Sends(s, Data(tokens)) /\ UNCHANGED rx
    ELSE /\ relay' = [relay EXCEPT ![s] = [r EXCEPT !.phase = "CLOSED", !.sock = "none", !.entry = FALSE]]
         /\ down' = Sends(s, Data(tokens) \o Fin)
         /\ rx' = [rx EXCEPT ![s].open = FALSE]

-----------------------------------------------------------------------------
(* A segment for a session without an entry: unknown_cb_, ensureSession.    *)
Ensured(s) == IF relay[s].entry THEN relay[s] ELSE NewRelay
Handler(s) == IF rx[s].open THEN relay[s] ELSE Ensured(s)
Heard(s) == Free /\ svc # "gone" /\ up[s] # <<>>
Consume(s, n) == up' = [up EXCEPT ![s] = SubSeq(@, n + 1, Len(@))]

ReceiveSyn(s) ==
    /\ Heard(s) /\ Head(up[s]).kind = "SYN"
    /\ Consume(s, 1)
    /\ relay' = [relay EXCEPT ![s] = Handler(s)]
    /\ rx' = [rx EXCEPT ![s] = IF @.open THEN @ ELSE [open |-> TRUE, exp |-> 0]]
    /\ UNCHANGED <<down, busy, svc, ahead, taken, fed>>

ReceiveFin(s) ==
    /\ Heard(s) /\ Head(up[s]).kind = "FIN"
    /\ Consume(s, 1)
    /\ IF ~rx[s].open THEN UNCHANGED <<relay, rx, down>>
       ELSE IF relay[s].phase = "CLOSED"
       THEN /\ rx' = [rx EXCEPT ![s].open = FALSE]
            /\ relay' = [relay EXCEPT ![s].late = TRUE] /\ UNCHANGED down
       ELSE CloseAfter(s, relay[s], <<>>)
    /\ UNCHANGED <<busy, svc, ahead, taken, fed>>

(* The parsers look at the front of the buffer.                             *)
Begins(b, tokens) == IsPrefix(tokens, b)
Rest(b, n) == SubSeq(b, n + 1, Len(b))

(* Fault variant: one message per read. *)
ParsedOnce(r) ==
    IF r.phase = "METHODS" /\ Begins(r.buf, <<"hi1", "hi2">>)
    THEN [says |-> <<"method">>, bad |-> FALSE, relay |-> [r EXCEPT !.phase = "REQUEST", !.buf = Rest(@, 2)]]
    ELSE [says |-> <<>>, bad |-> Begins(r.buf, <<"junk">>) \/ Begins(r.buf, <<"nocmd">>),
          relay |-> IF r.phase = "REQUEST" /\ Begins(r.buf, <<"req1", "req2">>)
                    THEN [r EXCEPT !.phase = "CONNECTING", !.buf = Rest(@, 2)] ELSE r]

(* The loop of feedRx up to the point where it waits, closes or connects:   *)
(* tryParseMethods, tryParseRequest; what it says to the client, whether it *)
(* gives up.                                                                *)
Parsed(r) ==
    LET greeted == r.phase = "METHODS" /\ Begins(r.buf, <<"hi1", "hi2">>)
        q       == IF greeted THEN [r EXCEPT !.phase = "REQUEST", !.buf = Rest(@, 2)] ELSE r
        refuse  == q.phase = "REQUEST" /\ Begins(q.buf, <<"nocmd">>)
    IN  [says  |-> (IF greeted THEN <<"method">> ELSE <<>>) \o (IF refuse THEN <<"notsup">> ELSE <<>>),
         bad   |-> refuse \/ (q.phase \in {"METHODS", "REQUEST"} /\ Begins(q.buf, <<"junk">>)),
         relay |-> IF q.phase = "REQUEST" /\ Begins(q.buf, <<"req1", "req2">>)
                   THEN [q EXCEPT !.phase = "CONNECTING", !.buf = Rest(@, 2)] ELSE q]

(* deliverInOrder and feedRx: a run of n segments goes to the handler that  *)
(* the session had at its start, even if that closes on the first of them.  *)
(* A number that is not the expected one stays in rx_buffer.  A segment     *)
(* brings one token.                                                        *)
ReceiveData(s, n) ==
    LET run   == SubSeq(up[s], 1, n)
        exp   == IF rx[s].open THEN rx[s].exp ELSE 0
        bytes == IF run[1].seq = exp THEN [i \in 1..n |-> Head(run[i].bytes)] ELSE <<>>
        r     == [Handler(s) EXCEPT !.buf = @ \o bytes]
        p     == Parsed(r)
        dial  == p.relay.phase = "CONNECTING" /\ r.phase # "CONNECTING"
        opened == [rx EXCEPT ![s] = [open |-> TRUE, exp |-> IF bytes = <<>> THEN exp ELSE exp + n]]
        relays == r.phase = "RELAYING"
    IN  /\ Heard(s) /\ \A i \in 1..n : run[i].kind = "DATA"
        /\ Consume(s, n)
        /\ fed' = [fed EXCEPT ![s] = IF rx[s].open THEN @ \o bytes ELSE bytes]
        /\ taken' = IF relays /\ r.sock = "open" THEN [taken EXCEPT ![s] = @ \o r.buf] ELSE taken
        /\ busy' = IF dial THEN <<s, "dial">> ELSE <<>>
        /\ IF p.bad
           THEN /\ relay' = [relay EXCEPT ![s] = [p.relay EXCEPT !.phase = "CLOSED", !.entry = FALSE]]
                /\ rx' = [opened EXCEPT ![s].open = FALSE]
                /\ down' = [down EXCEPT ![s] = @ \o Data(p.says) \o Fin]
           ELSE /\ relay' = [relay EXCEPT ![s] = IF relays THEN [r EXCEPT !.buf = <<>>] ELSE p.relay]
                /\ rx' = opened
                /\ down' = [down EXCEPT ![s] = @ \o Data(p.says)]
        /\ UNCHANGED <<svc, ahead>>

(* Fault variant: success is reported when the connect is started. *)
startConnectEager(s) ==
    /\ busy = <<s, "dial">> /\ busy' = <<>>
    /\ \/ /\ relay' = [relay EXCEPT ![s].sock = "connecting"]
          /\ down' = Sends(s, Data(<<"ok">>)) /\ UNCHANGED rx
       \/ CloseAfter(s, relay[s], <<"unreach">>)
    /\ UNCHANGED <<up, svc, ahead, taken, fed>>

(* startConnect, still inside the callback; it may fail at once. *)
startConnect(s) ==
    /\ busy = <<s, "dial">> /\ busy' = <<>>
    /\ \/ /\ relay' = [relay EXCEPT ![s].sock = "connecting", ![s].late = relay[s].phase = "CLOSED"]
          /\ UNCHANGED <<down, rx>>
       \/ CloseAfter(s, relay[s], <<"unreach">>)
    /\ UNCHANGED <<up, svc, ahead, taken, fed>>

(* onRemoteOpen: the reply, then the phase and the bytes that waited. *)
onRemoteOpen(s) ==
    /\ Free /\ relay[s].sock = "connecting"
    /\ relay' = [relay EXCEPT ![s].sock = "open"]
    /\ down' = Sends(s, Data(<<"ok">>))
    /\ busy' = <<s, "open">>
    /\ UNCHANGED <<up, rx, svc, ahead, taken, fed>>

(* Fault variant: the bytes that waited stay in the buffer. *)
startRelayingUnflushed(s) ==
    /\ busy = <<s, "open">> /\ busy' = <<>>
    /\ relay' = [relay EXCEPT ![s].phase = "RELAYING"]
    /\ UNCHANGED <<up, down, rx, svc, ahead, taken, fed>>

startRelaying(s) ==
    /\ busy = <<s, "open">> /\ busy' = <<>>
    /\ relay' = [relay EXCEPT ![s].phase = "RELAYING", ![s].buf = <<>>]
    /\ taken' = IF relay[s].sock = "open" THEN [taken EXCEPT ![s] = @ \o relay[s].buf] ELSE taken
    /\ UNCHANGED <<up, down, rx, svc, ahead, fed>>

onRemoteBytes(s) ==
    /\ Free /\ relay[s].sock = "open" /\ ahead[s] # <<>>
    /\ ahead' = [ahead EXCEPT ![s] = Tail(@)]
    /\ down' = Sends(s, Data(<<Head(ahead[s])>>))
    /\ UNCHANGED <<up, relay, rx, busy, svc, taken, fed>>

(* The target closes, or the connect fails later on. *)
onRemoteClose(s) ==
    /\ Free /\ relay[s].sock # "none"
    /\ CloseAfter(s, [relay[s] EXCEPT !.sock = "none"], <<>>)
    /\ UNCHANGED <<up, busy, svc, ahead, taken, fed>>

-----------------------------------------------------------------------------
(* stop() takes the relays out of the table and closes them; the destructor *)
(* calls it again, and the stream goes after it.                            *)
stop ==
    /\ \/ svc = "up" /\ svc' = "stopping"
       \/ svc = "stopping" /\ svc' = "gone" /\ \A s \in Sids : relay[s].doomed = "no"
    /\ relay' = [s \in Sids |-> IF relay[s].entry
                   THEN [relay[s] EXCEPT !.entry = FALSE, !.doomed = "todo"] ELSE relay[s]]
    /\ UNCHANGED <<up, down, rx, busy, ahead, taken, fed>>

(* close() on the machine's thread: phase and socket ... *)
StopRelay(s) ==
    /\ relay[s].doomed = "todo"
    /\ relay' = [relay EXCEPT ![s] = IF @.phase = "CLOSED" THEN [@ EXCEPT !.doomed = "no"]
                   ELSE [@ EXCEPT !.phase = "CLOSED", !.sock = "none", !.doomed = "half"]]
    /\ UNCHANGED <<up, down, rx, busy, svc, ahead, taken, fed>>

(* ... then the session, for which it waits while a callback of the stream  *)
(* is running.                                                              *)
StopRelaySession(s) ==
    /\ relay[s].doomed = "half"
    /\ ~\E r \in Sids : busy = <<r, "dial">>
    /\ relay' = [relay EXCEPT ![s].doomed = "no", ![s].entry = FALSE]
    /\ down' = Sends(s, Fin)
    /\ rx' = [rx EXCEPT ![s].open = FALSE]
    /\ UNCHANGED <<up, busy, svc, ahead, taken, fed>>

(* The steps that come by themselves. *)
Progress ==
    \/ svc = "stopping" /\ stop
    \/ \E s \in Sids :
          \/ ReceiveSyn(s) \/ ReceiveFin(s)
          \/ \E n \in 1..Len(up[s]) : ReceiveData(s, n)
          \/ startConnect(s) \/ onRemoteOpen(s) \/ startRelaying(s)
          \/ StopRelay(s) \/ StopRelaySession(s)

OutNext == Progress \/ stop \/ \E s \in Sids : onRemoteBytes(s) \/ onRemoteClose(s)
=============================================================================
