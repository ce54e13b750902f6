------------------------------- MODULE Inport -------------------------------
(***************************************************************************)
(* The client side of the tunnel (src/src/zfgw_inport.cpp): an acceptor, a  *)
(* session per client connection, and the entry that its DataStream keeps   *)
(* for the session.  What the stream carries to the Outport is `up', what   *)
(* it brings back `down': the pipes that DataStream is shown to implement.  *)
(*                                                                         *)
(* Threads.  The reactor runs the acceptor's factory, socket callbacks and  *)
(* session callbacks, one at a time.  The machine's thread runs stop().     *)
(***************************************************************************)
EXTENDS Naturals, Sequences, FiniteSets

CONSTANT Sids   \* session ids, from 1

VARIABLES
    up, down,   \* per session: segments on their way out and back
    sess,       \* FgwSession objects and their entries in sessions_ and the stream
    next_id,    \* next_session_id_
    half,       \* the session whose accept is between its two steps, or 0
    svc,        \* progress of stop()
    todo,       \* external: what the client has yet to send
    seen        \* external: what the client was given

inVars == <<sess, next_id, half, svc, todo, seen>>

Seg(kind, seq, bytes) == [kind |-> kind, seq |-> seq, bytes |-> bytes]

(* tcp: client_tcp_; entry: in sessions_; doomed: taken out by stop(), to   *)
(* be closed; stream: the DataStream's entry ("orphan": without a handler); *)
(* late: opened in the stream after stop() had closed it.                   *)
NoClient == [closed |-> FALSE, tcp |-> FALSE, entry |-> FALSE, doomed |-> FALSE,
             stream |-> "none", seq |-> 0, late |-> FALSE]

InInit ==
    /\ sess = [s \in Sids |-> NoClient]
    /\ next_id = 1 /\ half = 0 /\ svc = "up"
    /\ seen = [s \in Sids |-> <<>>]

(* The reactor is between two callbacks. *)
Free == half = 0

(* The factory: a fresh id, the session bound to its socket and listed ...  *)
Accept ==
    /\ Free /\ svc \in {"up", "stopping"} /\ next_id \in Sids
    /\ sess' = [sess EXCEPT ![next_id].tcp = TRUE, ![next_id].entry = TRUE]
    /\ half' = next_id
    /\ next_id' = next_id + 1
    /\ UNCHANGED <<up, down, svc, todo, seen>>

(* ... then opened in the stream, whatever became of it meanwhile. *)
OpenSession ==
    /\ half # 0
    /\ sess' = [sess EXCEPT ![half].stream = "open", ![half].late = sess[half].closed]
    /\ up' = [up EXCEPT ![half] = Append(@, Seg("SYN", 0, <<>>))]
    /\ half' = 0
    /\ UNCHANGED <<down, next_id, svc, todo, seen>>

(* The client's bytes, a token at a time: the Outport is given runs of any  *)
(* length.                                                                  *)
onClientBytes(s) ==
    LET x == sess[s]
    IN  /\ Free /\ x.tcp /\ ~x.closed /\ todo[s] # <<>>
        /\ up' = [up EXCEPT ![s] = Append(@, Seg("DATA", x.seq, <<Head(todo[s])>>))]
        /\ sess' = [sess EXCEPT ![s].seq = @ + 1]
        /\ todo' = [todo EXCEPT ![s] = Tail(@)]
        /\ UNCHANGED <<down, next_id, half, svc, seen>>

(* Fault variant: the peer is not told. *)
closeSilently(s) ==
    /\ sess' = [sess EXCEPT ![s] = IF @.closed THEN @ ELSE
                  [@ EXCEPT !.closed = TRUE, !.tcp = FALSE, !.entry = FALSE, !.doomed = FALSE,
                            !.stream = "none"]]
    /\ UNCHANGED up

(* FgwSession::close: once, with a FIN if the stream still has the session. *)
close(s) ==
    LET x == sess[s]
    IN  IF x.closed THEN UNCHANGED <<sess, up>>
        ELSE /\ sess' = [sess EXCEPT ![s] = [@ EXCEPT !.closed = TRUE, !.tcp = FALSE,
                                   !.entry = FALSE, !.doomed = FALSE, !.stream = "none"]]
             /\ up' = IF x.stream = "none" THEN up
                      ELSE [up EXCEPT ![s] = Append(@, Seg("FIN", x.seq, <<>>))]

onClientClose(s) ==
    /\ Free /\ sess[s].tcp
    /\ close(s)
    /\ UNCHANGED <<down, next_id, half, svc, todo, seen>>

(* Bytes from the Outport.  The stream has no callback for unknown sessions *)
(* here: late bytes make an entry without a handler.                        *)
onSessionData(s) ==
    LET x == sess[s]
    IN  /\ Free /\ svc # "gone"
        /\ down[s] # <<>> /\ Head(down[s]).kind = "DATA"
        /\ down' = [down EXCEPT ![s] = Tail(@)]
        /\ sess' = [sess EXCEPT ![s].stream = IF @ = "none" THEN "orphan" ELSE @]
        /\ seen' = IF x.stream = "open" /\ x.tcp /\ ~x.closed
                   THEN [seen EXCEPT ![s] = @ \o Head(down[s]).bytes] ELSE seen
        /\ UNCHANGED <<up, next_id, half, svc, todo>>

(* A FIN from the Outport: the handler closes, and the entry goes. *)
onSessionClose(s) ==
    LET x == sess[s]
    IN  /\ Free /\ svc # "gone"
        /\ down[s] # <<>> /\ Head(down[s]).kind = "FIN"
        /\ down' = [down EXCEPT ![s] = Tail(@)]
        /\ IF x.stream = "open" /\ ~x.closed THEN close(s)
           ELSE sess' = [sess EXCEPT ![s].stream = "none"] /\ UNCHANGED up
        /\ UNCHANGED <<next_id, half, svc, todo, seen>>

(* stop() takes all sessions out of the table; the destructor calls it      *)
(* again, and the stream goes after it.                                     *)
stop ==
    /\ \/ svc = "up" /\ svc' = "stopping"
       \/ svc = "closed" /\ svc' = "gone" /\ \A s \in Sids : ~sess[s].doomed
    /\ sess' = [s \in Sids |-> [sess[s] EXCEPT !.doomed = @ \/ sess[s].entry, !.entry = FALSE]]
    /\ UNCHANGED <<up, down, next_id, half, todo, seen>>

StopAccepting ==
    /\ svc = "stopping" /\ svc' = "closed"
    /\ UNCHANGED <<up, down, sess, next_id, half, todo, seen>>

StopSession(s) ==
    /\ svc \in {"closed", "gone"} /\ sess[s].doomed
    /\ close(s)
    /\ UNCHANGED <<down, next_id, half, svc, todo, seen>>

(* The steps that come by themselves. *)
Progress ==
    \/ OpenSession \/ StopAccepting \/ (svc = "closed" /\ stop)
    \/ \E s \in Sids : onSessionData(s) \/ onSessionClose(s) \/ StopSession(s)

InNext == Progress \/ Accept \/ stop \/ \E s \in Sids : onClientBytes(s) \/ onClientClose(s)
=============================================================================
