------------------------------- MODULE Tunnel -------------------------------
(***************************************************************************)
(* Inport and Outport joined by the streams of their sessions: the path of  *)
(* a SOCKS5 client's connection from its accept to the target and back.     *)
(*                                                                         *)
(* The pipes are in order and lose nothing, a FIN comes after the data:     *)
(* what DataStream gives when every segment takes every link (stream_live). *)
(***************************************************************************)
EXTENDS Naturals, Sequences, SequencesExt

CONSTANTS
    Sids,      \* session ids, from 1
    Scripts,   \* what a client may send
    Answers    \* what a target sends

ASSUME SidsAssumption    == Sids \subseteq Nat \ {0}
ASSUME ScriptsAssumption == Scripts \subseteq Seq(STRING) /\ Answers \in Seq(STRING)

VARIABLES up, down, sess, next_id, half, isvc, todo, seen,
          relay, rx, busy, osvc, ahead, taken, fed

inSide  == <<sess, next_id, half, isvc, todo, seen>>
outSide == <<relay, rx, busy, osvc, ahead, taken, fed>>
vars == <<up, down, inSide, outSide>>

In  == INSTANCE Inport WITH svc <- isvc
Out == INSTANCE Outport WITH svc <- osvc

Init ==
    /\ up = [s \in Sids |-> <<>>] /\ down = [s \in Sids |-> <<>>]
    /\ todo \in [Sids -> Scripts] /\ ahead = [s \in Sids |-> Answers]
    /\ In!InInit /\ Out!OutInit

Inport  == In!InNext /\ UNCHANGED outSide
Outport == Out!OutNext /\ UNCHANGED inSide

Next == Inport \/ Outport

(* On either side the threads go on with what they have: the reactor serves *)
(* what has arrived, a connect ends one way or the other (the connector has *)
(* a timeout), and a stop() that has begun goes on.                         *)
Fairness == WF_vars(In!Progress /\ UNCHANGED outSide) /\ WF_vars(Out!Progress /\ UNCHANGED inSide)

Spec == Init /\ [][Next]_vars /\ Fairness

-----------------------------------------------------------------------------
Handshake == <<"hi1", "hi2", "req1", "req2">>

(* No byte is lost, doubled or moved on its way through the relay: what it  *)
(* was given is the handshake, what the target has, and what still waits    *)
(* for the connect; once it relays nothing waits (feedRx, onRemoteOpen).    *)
TargetStream ==
    \A s \in Sids :
        LET r == relay[s]
        IN  r.sock # "none" /\ ~r.late =>
                /\ fed[s] = Handshake \o taken[s] \o r.buf
                /\ r.phase = "RELAYING" => r.buf = <<>>

(* The client sees the answer to its greeting, one answer to its request,   *)
(* and the target's bytes only after the latter was a success.              *)
ClientStream ==
    \A s \in Sids :
        \/ IsPrefix(seen[s], <<"method", "ok">> \o Answers)
        \/ seen[s] \in {<<"method", "notsup">>, <<"method", "unreach">>}

(* Nothing is on the way for session s and its accept is not half done. *)
Quiet(s) == up[s] = <<>> /\ down[s] = <<>> /\ half # s

(* No half-open session is left behind by any order of closes, errors, late *)
(* bytes and stops: whenever nothing is on the way, the two streams agree   *)
(* on whether the session is open, a relay and a socket belong to an open   *)
(* session, and so does a client.  Excepted: a session that stop() closes   *)
(* in the middle of its accept, of its connect or of the peer's close.      *)
NoHalfOpen ==
    \A s \in Sids : Quiet(s) /\ ~sess[s].late /\ ~relay[s].late =>
        /\ sess[s].stream = (IF rx[s].open THEN "open" ELSE "none")
        /\ relay[s].entry => rx[s].open
        /\ relay[s].sock # "none" => rx[s].open
        /\ sess[s].tcp = rx[s].open

(* A client that has sent its whole request is answered or disconnected.    *)
Requested(s) == sess[s].tcp /\ Len(fed[s]) >= 4
Answered ==
    \A s \in Sids : Requested(s) ~> (Len(seen[s]) >= 2 \/ ~sess[s].tcp)

(* The end of either connection reaches the other: no client hangs on a     *)
(* target that is gone, no target is held open for a client that is gone.   *)
EndReachesOther ==
    \A s \in Sids :
        /\ (s < next_id /\ sess[s].closed) ~> (relay[s].sock = "none" \/ relay[s].late \/ sess[s].late)
        /\ (relay[s].phase = "CLOSED" /\ s < next_id /\ fed[s] # <<>>) ~> (~sess[s].tcp)
=============================================================================
