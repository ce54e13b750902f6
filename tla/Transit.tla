------------------------------ MODULE Transit ------------------------------
(***************************************************************************)
(* The relay in the middle (src/src/zfgw_transit.cpp): links accepted from  *)
(* Inports, links dialed to Outports, and two tables by which whole         *)
(* segments are passed on.  It keeps no sessions.                           *)
(*                                                                         *)
(* Links are known by their address, which a new link may have again once   *)
(* nothing holds the old one; a closed link is taken out of the tables by a *)
(* timer that remembers only the address.  Every operation holds lock_.     *)
(***************************************************************************)
EXTENDS Naturals, FiniteSets

CONSTANTS
    Inports,    \* ingress ids
    Outports,   \* outport ids, one configured channel each
    Addrs,      \* bound: addresses of channels
    MaxTimers,  \* bound: closes of a link at one address that wait for their timer
    None        \* no link

(* peer is who is at the other end of the connection. *)
Link == [peer : Inports \cup Outports, chan : {"dialing", "failed", "open", "closed"}]

ASSUME TransitAssumption ==
    /\ Cardinality(Addrs) > Cardinality(Outports) + 1 /\ MaxTimers \in Nat
    /\ None \notin Addrs \cup Inports \cup Outports \cup Link /\ Inports \cap Outports = {}

VARIABLES
    svc,        \* "up" or "stopped"
    links,      \* links_: for each address what the channel there is, or None
    outbound,   \* outbound_by_outport_
    inbound,    \* inbound_by_ingress_
    dials,      \* dials due for each Outport: the one of start(), and timers
    reaps,      \* reaps[a]: timers of onLinkClosed that wait for address a
    sent        \* history: the last segment passed on: its kind, to whom, whom its header names

vars == <<svc, links, outbound, inbound, dials, reaps, sent>>

(* What a link may bring: control of this hop, or data with the header's    *)
(* ingress_id and outport_id.                                               *)
Segment == [kind : {"hello", "control"}, ingress : Inports, outport : {None}]
           \cup [kind : {"data"}, ingress : Inports, outport : Outports]

IsOut(a) == links[a].peer \in Outports
Held(a)  == links[a] # None \/ \E o \in Outports : outbound[o] = a \/ \E i \in Inports : inbound[i] = a
Fresh == {a \in Addrs : ~Held(a)}

Init ==
    /\ svc = "up"
    /\ links = [a \in Addrs |-> None]
    /\ outbound = [o \in Outports |-> None]
    /\ inbound = [i \in Inports |-> None]
    /\ dials = [o \in Outports |-> 1]
    /\ reaps = [a \in Addrs |-> 0]
    /\ sent = None

(* Fault variant: a connect that fails at once is not tried again. *)
dialOneOutportOnce(o) ==
    /\ dials[o] > 0
    /\ \E a \in Fresh, failed \in BOOLEAN :
          /\ links' = [b \in Addrs |->
                IF b = a THEN [peer |-> o, chan |-> IF failed THEN "failed" ELSE "dialing"]
                ELSE IF b = outbound[o] THEN None ELSE links[b]]
          /\ outbound' = [outbound EXCEPT ![o] = a]
    /\ dials' = [dials EXCEPT ![o] = @ - 1]
    /\ UNCHANGED <<svc, inbound, reaps, sent>>

(* dialOneOutport, from start() or from a redial timer, which stop() does   *)
(* not cancel: a new channel in the place of a stale one.  When the connect *)
(* fails at once there is no callback, and a timer is set right here.       *)
dialOneOutport(o) ==
    /\ dials[o] > 0
    /\ \E a \in Fresh, failed \in BOOLEAN :
          /\ links' = [b \in Addrs |->
                IF b = a THEN [peer |-> o, chan |-> IF failed THEN "failed" ELSE "dialing"]
                ELSE IF b = outbound[o] THEN None ELSE links[b]]
          /\ outbound' = [outbound EXCEPT ![o] = a]
          /\ dials' = [dials EXCEPT ![o] = IF failed THEN @ ELSE @ - 1]
    /\ UNCHANGED <<svc, inbound, reaps, sent>>

LinkOpened(a) ==
    /\ links[a] # None /\ links[a].chan = "dialing"
    /\ links' = [links EXCEPT ![a].chan = "open"]
    /\ UNCHANGED <<svc, outbound, inbound, dials, reaps, sent>>

(* An Inport connects; an address is kept for every Outport, and one more   *)
(* for the channel that replaces a stale one.                               *)
makeInboundChannel(i) ==
    /\ svc = "up"
    /\ Cardinality({a \in Addrs : links[a] # None /\ ~IsOut(a)}) < Cardinality(Addrs) - Cardinality(Outports) - 1
    /\ \E a \in Fresh : links' = [links EXCEPT ![a] = [peer |-> i, chan |-> "open"]]
    /\ UNCHANGED <<svc, outbound, inbound, dials, reaps, sent>>

-----------------------------------------------------------------------------
Learn(a, seg) == inbound' = [inbound EXCEPT ![seg.ingress] = a]
PassOn(a, to, seg) ==
    sent' = IF to = None THEN sent ELSE [kind |-> seg.kind, to |-> links[to].peer,
                                         named |-> IF IsOut(a) THEN seg.ingress ELSE seg.outport]

(* A peer sends only what is its own: an Inport its ingress id. *)
Sends(a, seg) ==
    /\ links[a] # None /\ links[a].chan = "open"
    /\ ~IsOut(a) => seg.ingress = links[a].peer

(* Fault variant: control of one hop is passed on to the next. *)
onLinkBytesForwarding(a, seg) ==
    /\ Sends(a, seg)
    /\ IF IsOut(a) THEN PassOn(a, inbound[seg.ingress], seg) /\ UNCHANGED inbound
       ELSE Learn(a, seg) /\ \E o \in Outports : PassOn(a, outbound[o], seg)
    /\ UNCHANGED <<svc, links, outbound, dials, reaps>>

(* onLinkBytes, for one whole segment.  A route is learnt from the Hello    *)
(* and from every segment of an Inport; what has no route is dropped.       *)
onLinkBytes(a, seg) ==
    /\ Sends(a, seg)
    /\ IF IsOut(a)
       THEN /\ IF seg.kind = "data" THEN PassOn(a, inbound[seg.ingress], seg) ELSE UNCHANGED sent
            /\ UNCHANGED inbound
       ELSE /\ IF seg.kind \in {"hello", "data"} THEN Learn(a, seg) ELSE UNCHANGED inbound
            /\ IF seg.kind = "data" THEN PassOn(a, outbound[seg.outport], seg) ELSE UNCHANGED sent
    /\ UNCHANGED <<svc, links, outbound, dials, reaps>>

(* A connection ends or a connect fails: removal is put off to a timer. *)
onLinkClosed(a) ==
    /\ links[a] # None /\ links[a].chan \in {"dialing", "open"} /\ reaps[a] < MaxTimers
    /\ links' = [links EXCEPT ![a].chan = "closed"]
    /\ reaps' = [reaps EXCEPT ![a] = @ + 1]
    /\ UNCHANGED <<svc, outbound, inbound, dials, sent>>

(* Fault variant: the way back is not taken out of its table. *)
ReapLinkOneTable(a) ==
    /\ reaps[a] > 0
    /\ reaps' = [reaps EXCEPT ![a] = @ - 1]
    /\ links' = [links EXCEPT ![a] = None]
    /\ outbound' = [o \in Outports |-> IF outbound[o] = a THEN None ELSE outbound[o]]
    /\ dials' = [o \in Outports |-> IF outbound[o] = a THEN dials[o] + 1 ELSE dials[o]]
    /\ UNCHANGED <<svc, inbound, sent>>

(* The timer: whatever is at the address now goes out of all tables, and an *)
(* Outport that it served is dialed again later.                            *)
ReapLink(a) ==
    LET served == {o \in Outports : links[a] # None /\ outbound[o] = a}
    IN  /\ reaps[a] > 0
        /\ reaps' = [reaps EXCEPT ![a] = @ - 1]
        /\ links' = [links EXCEPT ![a] = None]
        /\ outbound' = [o \in Outports |-> IF o \in served THEN None ELSE outbound[o]]
        /\ inbound' = [i \in Inports |-> IF links[a] # None /\ inbound[i] = a THEN None ELSE inbound[i]]
        /\ dials' = [o \in Outports |-> IF o \in served THEN dials[o] + 1 ELSE dials[o]]
        /\ UNCHANGED <<svc, sent>>

(* stop() lets go of every link and leaves the timers. *)
stop ==
    /\ svc = "up" /\ svc' = "stopped"
    /\ links' = [a \in Addrs |-> None]
    /\ outbound' = [o \in Outports |-> None]
    /\ inbound' = [i \in Inports |-> None]
    /\ UNCHANGED <<dials, reaps, sent>>

Next ==
    \/ stop
    \/ \E o \in Outports : dialOneOutport(o)
    \/ \E i \in Inports : makeInboundChannel(i)
    \/ \E a \in Addrs : LinkOpened(a) \/ onLinkClosed(a) \/ ReapLink(a)
    \/ \E a \in Addrs, seg \in Segment : onLinkBytes(a, seg)

(* Timers fire; an Outport that is dialed again and again is reached. *)
Fairness ==
    /\ \A a \in Addrs : WF_vars(ReapLink(a))
    /\ \A o \in Outports :
          /\ SF_vars(dialOneOutport(o) /\ links'[outbound'[o]].chan = "dialing")
          /\ SF_vars(\E a \in Addrs : outbound[o] = a /\ LinkOpened(a))

Spec == Init /\ [][Next]_vars /\ Fairness

-----------------------------------------------------------------------------
(* A table leads to the peer it names, over a link that the Transit holds,  *)
(* whatever closed, came back and got the address of another link.          *)
TableSound ==
    /\ \A a \in Addrs : links[a] \in Link \cup {None}
    /\ \A o \in Outports : outbound[o] # None => links[outbound[o]] # None /\ links[outbound[o]].peer = o
    /\ \A i \in Inports : inbound[i] # None => links[inbound[i]] # None /\ links[inbound[i]].peer = i

(* A segment that is passed on is data and goes to the peer that its header *)
(* names: hop-local control never crosses (onLinkBytes).                    *)
RightWay ==
    sent # None => sent.kind = "data" /\ sent.to = sent.named

(* While the Transit is up there is exactly one effort per Outport: a dial  *)
(* that is due, or a link that is being dialed, works, or waits for its     *)
(* removal.  No route is forgotten, and none is dialed twice.               *)
OneAttempt ==
    svc = "up" => \A o \in Outports :
        LET a == outbound[o]
            working == a # None /\ links[a].chan \in {"dialing", "open"}
            leaving == a # None /\ links[a].chan = "closed" /\ reaps[a] = 1
        IN  dials[o] = IF working \/ leaving THEN 0 ELSE 1

(* The route to an Outport heals, without an operator. *)
RouteHeals ==
    \A o \in Outports :
        []<>(svc = "stopped" \/ \E a \in Addrs : outbound[o] = a /\ links[a].chan = "open")
=============================================================================
