--------------------------- MODULE TransitProofs ---------------------------
(***************************************************************************)
(* Proofs about Transit, for any Inports, Outports and addresses and any    *)
(* order of dials, closes, timers and reused addresses.                     *)
(***************************************************************************)
EXTENDS Transit, TLAPS

(* The shapes of the tables and of the timers. *)
Shape ==
    /\ links \in [Addrs -> Link \cup {None}]
    /\ outbound \in [Outports -> Addrs \cup {None}]
    /\ inbound \in [Inports -> Addrs \cup {None}]
    /\ dials \in [Outports -> Nat]
    /\ reaps \in [Addrs -> Nat]

TablesInv == Shape /\ TableSound /\ RightWay

LEMMA NoneIsNoLink == None \notin Addrs /\ None \notin Link
  BY TransitAssumption

LEMMA Disjoint == \A i \in Inports, o \in Outports : i # o
  BY TransitAssumption

LEMMA InitTables == Init => TablesInv
  BY NoneIsNoLink DEF Init, TablesInv, Shape, TableSound, RightWay

(* A new channel has a free address, and the one it replaces was in no      *)
(* table but its own.                                                       *)
LEMMA DialKeepsTables ==
    ASSUME TablesInv, NEW o \in Outports, dialOneOutport(o)
    PROVE  TablesInv'
<1>1. PICK a \in Fresh, failed \in BOOLEAN :
          /\ links' = [b \in Addrs |->
                IF b = a THEN [peer |-> o, chan |-> IF failed THEN "failed" ELSE "dialing"]
                ELSE IF b = outbound[o] THEN None ELSE links[b]]
          /\ outbound' = [outbound EXCEPT ![o] = a]
          /\ dials' = [dials EXCEPT ![o] = IF failed THEN @ ELSE @ - 1]
  BY DEF dialOneOutport
<1>2. a \in Addrs /\ ~Held(a)
  BY <1>1 DEF Fresh
<1>3. UNCHANGED <<svc, inbound, reaps, sent>> /\ dials[o] > 0
  BY DEF dialOneOutport
<1>4. [peer |-> o, chan |-> IF failed THEN "failed" ELSE "dialing"] \in Link
  BY DEF Link
<1>5. Shape'
  BY <1>1, <1>2, <1>3, <1>4 DEF TablesInv, Shape
<1>6. TableSound'
  <2>1. \A b \in Addrs : links'[b] \in Link \cup {None}
    BY <1>5 DEF Shape
  <2>2. ASSUME NEW p \in Outports, outbound'[p] # None
        PROVE  links'[outbound'[p]] # None /\ links'[outbound'[p]].peer = p
    <3>1. CASE p = o
      BY <1>1, <1>2, <1>4, <3>1, NoneIsNoLink DEF TablesInv, Shape
    <3>2. CASE p # o
      <4>1. outbound'[p] = outbound[p] /\ outbound[p] \in Addrs /\ outbound[p] # a
        BY <1>1, <1>2, <2>2, <3>2 DEF TablesInv, Shape, Held
      <4>2. links[outbound[p]].peer = p /\ links[outbound[p]] # None
        BY <2>2, <4>1 DEF TablesInv, TableSound
      <4>3. outbound[p] # outbound[o]
        BY <3>2, <4>1, <4>2, NoneIsNoLink DEF TablesInv, TableSound
      <4> QED BY <1>1, <4>1, <4>2, <4>3
    <3> QED BY <3>1, <3>2
  <2>3. ASSUME NEW i \in Inports, inbound'[i] # None
        PROVE  links'[inbound'[i]] # None /\ links'[inbound'[i]].peer = i
    <3>1. inbound'[i] = inbound[i] /\ inbound[i] \in Addrs /\ inbound[i] # a
      BY <1>2, <1>3, <2>3 DEF TablesInv, Shape, Held
    <3>2. links[inbound[i]].peer = i /\ links[inbound[i]] # None
      BY <2>3, <3>1 DEF TablesInv, TableSound
    <3>3. inbound[i] # outbound[o]
      BY <3>1, <3>2, Disjoint, NoneIsNoLink DEF TablesInv, TableSound
    <3> QED BY <1>1, <3>1, <3>2, <3>3
  <2> QED BY <2>1, <2>2, <2>3 DEF TableSound
<1>7. RightWay'
  BY <1>3 DEF TablesInv, RightWay
<1> QED BY <1>5, <1>6, <1>7 DEF TablesInv

LEMMA AcceptKeepsTables ==
    ASSUME TablesInv, NEW i \in Inports, makeInboundChannel(i)
    PROVE  TablesInv'
<1>1. PICK a \in Fresh : links' = [links EXCEPT ![a] = [peer |-> i, chan |-> "open"]]
  BY DEF makeInboundChannel
<1>2. a \in Addrs /\ ~Held(a) /\ [peer |-> i, chan |-> "open"] \in Link
  BY <1>1 DEF Fresh, Link
<1>3. UNCHANGED <<svc, outbound, inbound, dials, reaps, sent>>
  BY DEF makeInboundChannel
<1>4. Shape'
  BY <1>1, <1>2, <1>3 DEF TablesInv, Shape
<1>5. TableSound'
  BY <1>1, <1>2, <1>3, <1>4 DEF TablesInv, Shape, TableSound, Held
<1>6. RightWay'
  BY <1>3 DEF TablesInv, RightWay
<1> QED BY <1>4, <1>5, <1>6 DEF TablesInv

(* A channel that changes its state stays whose it was. *)
LEMMA ChannelKeepsTables ==
    ASSUME TablesInv, NEW a \in Addrs, LinkOpened(a) \/ onLinkClosed(a)
    PROVE  TablesInv'
<1>1. PICK c \in {"open", "closed"} : links' = [links EXCEPT ![a].chan = c]
  BY DEF LinkOpened, onLinkClosed
<1>2. links[a] # None /\ links[a] \in Link
  BY DEF TablesInv, Shape, LinkOpened, onLinkClosed
<1>3. UNCHANGED <<svc, outbound, inbound, dials, sent>>
  BY DEF LinkOpened, onLinkClosed
<1>4. reaps' \in [Addrs -> Nat]
  BY DEF TablesInv, Shape, LinkOpened, onLinkClosed
<1>5. /\ links'[a] \in Link /\ links'[a].peer = links[a].peer
      /\ links' \in [Addrs -> Link \cup {None}]
      /\ \A b \in Addrs : b # a => links'[b] = links[b]
  BY <1>1, <1>2 DEF TablesInv, Shape, Link
<1>6. links'[a] # None
  BY <1>5, NoneIsNoLink
<1> QED BY <1>2, <1>3, <1>4, <1>5, <1>6 DEF TablesInv, Shape, TableSound, RightWay

(* What the timer takes out of links_ it takes out of both tables. *)
LEMMA ReapKeepsTables ==
    ASSUME TablesInv, NEW a \in Addrs, ReapLink(a)
    PROVE  TablesInv'
<1> DEFINE served == {o \in Outports : links[a] # None /\ outbound[o] = a}
<1>1. /\ reaps[a] > 0
      /\ reaps' = [reaps EXCEPT ![a] = @ - 1]
      /\ links' = [links EXCEPT ![a] = None]
      /\ outbound' = [o \in Outports |-> IF o \in served THEN None ELSE outbound[o]]
      /\ inbound' = [i \in Inports |-> IF links[a] # None /\ inbound[i] = a THEN None ELSE inbound[i]]
      /\ dials' = [o \in Outports |-> IF o \in served THEN dials[o] + 1 ELSE dials[o]]
      /\ UNCHANGED <<svc, sent>>
  BY DEF ReapLink
<1>2. Shape'
  BY <1>1 DEF TablesInv, Shape
<1>3. TableSound'
  <2>1. ASSUME NEW o \in Outports, outbound'[o] # None
        PROVE  links'[outbound'[o]] # None /\ links'[outbound'[o]].peer = o
    <3>1. outbound'[o] = outbound[o] /\ outbound[o] \in Addrs
      BY <1>1, <2>1 DEF TablesInv, Shape
    <3>2. links[outbound[o]] # None /\ links[outbound[o]].peer = o
      BY <2>1, <3>1 DEF TablesInv, TableSound
    <3>3. outbound[o] # a
      BY <1>1, <2>1, <3>1, <3>2
    <3> QED BY <1>1, <3>1, <3>2, <3>3 DEF TablesInv, Shape
  <2>2. ASSUME NEW i \in Inports, inbound'[i] # None
        PROVE  links'[inbound'[i]] # None /\ links'[inbound'[i]].peer = i
    <3>1. inbound'[i] = inbound[i] /\ inbound[i] \in Addrs
      BY <1>1, <2>2 DEF TablesInv, Shape
    <3>2. links[inbound[i]] # None /\ links[inbound[i]].peer = i
      BY <2>2, <3>1 DEF TablesInv, TableSound
    <3>3. inbound[i] # a
      BY <1>1, <2>2, <3>1, <3>2
    <3> QED BY <1>1, <3>1, <3>2, <3>3 DEF TablesInv, Shape
  <2> QED BY <1>2, <2>1, <2>2 DEF Shape, TableSound
<1>4. RightWay'
  BY <1>1 DEF TablesInv, RightWay
<1> QED BY <1>2, <1>3, <1>4 DEF TablesInv

(* A route is learnt from the peer it will lead to, and data is passed on   *)
(* by a table that is sound.                                                *)
LEMMA BytesKeepTables ==
    ASSUME TablesInv, NEW a \in Addrs, NEW seg \in Segment, onLinkBytes(a, seg)
    PROVE  TablesInv'
<1>1. links[a] # None /\ links[a] \in Link /\ UNCHANGED <<svc, links, outbound, dials, reaps>>
  BY DEF TablesInv, Shape, onLinkBytes, Sends
<1>2. seg.ingress \in Inports /\ (seg.kind = "data" => seg.outport \in Outports)
  BY DEF Segment
<1>3. CASE IsOut(a)
  <2>1. UNCHANGED inbound
    BY <1>3 DEF onLinkBytes
  <2>2. RightWay'
    <3>1. CASE seg.kind = "data" /\ inbound[seg.ingress] # None
      <4>1. sent' = [kind |-> "data", to |-> links[inbound[seg.ingress]].peer, named |-> seg.ingress]
        BY <1>3, <3>1 DEF onLinkBytes, PassOn
      <4>2. links[inbound[seg.ingress]].peer = seg.ingress
        BY <1>2, <3>1 DEF TablesInv, TableSound
      <4> QED BY <4>1, <4>2 DEF RightWay
    <3>2. CASE ~(seg.kind = "data" /\ inbound[seg.ingress] # None)
      BY <1>3, <3>2 DEF onLinkBytes, PassOn, TablesInv, RightWay
    <3> QED BY <3>1, <3>2
  <2> QED BY <1>1, <2>1, <2>2 DEF TablesInv, Shape, TableSound
<1>4. CASE ~IsOut(a)
  <2>1. seg.ingress = links[a].peer
    BY <1>4 DEF onLinkBytes, Sends
  <2>2. UNCHANGED inbound \/ inbound' = [inbound EXCEPT ![seg.ingress] = a]
    BY <1>4 DEF onLinkBytes, Learn
  <2>3. Shape' /\ TableSound'
    BY <1>1, <1>2, <2>1, <2>2 DEF TablesInv, Shape, TableSound
  <2>4. RightWay'
    <3>1. CASE seg.kind = "data" /\ outbound[seg.outport] # None
      <4>1. sent' = [kind |-> "data", to |-> links[outbound[seg.outport]].peer, named |-> seg.outport]
        BY <1>4, <3>1 DEF onLinkBytes, PassOn
      <4>2. links[outbound[seg.outport]].peer = seg.outport
        BY <1>2, <3>1 DEF TablesInv, TableSound
      <4> QED BY <4>1, <4>2 DEF RightWay
    <3>2. CASE ~(seg.kind = "data" /\ outbound[seg.outport] # None)
      BY <1>4, <3>2 DEF onLinkBytes, PassOn, TablesInv, RightWay
    <3> QED BY <3>1, <3>2
  <2> QED BY <2>3, <2>4 DEF TablesInv
<1> QED BY <1>3, <1>4

LEMMA NextTables == TablesInv /\ [Next]_vars => TablesInv'
<1> SUFFICES ASSUME TablesInv, [Next]_vars PROVE TablesInv'
  OBVIOUS
<1>1. CASE stop
  BY <1>1 DEF stop, TablesInv, Shape, TableSound, RightWay
<1>2. ASSUME NEW o \in Outports, dialOneOutport(o) PROVE TablesInv'
  BY <1>2, DialKeepsTables
<1>3. ASSUME NEW i \in Inports, makeInboundChannel(i) PROVE TablesInv'
  BY <1>3, AcceptKeepsTables
<1>4. ASSUME NEW a \in Addrs, LinkOpened(a) \/ onLinkClosed(a) PROVE TablesInv'
  BY <1>4, ChannelKeepsTables
<1>5. ASSUME NEW a \in Addrs, ReapLink(a) PROVE TablesInv'
  BY <1>5, ReapKeepsTables
<1>6. ASSUME NEW a \in Addrs, NEW seg \in Segment, onLinkBytes(a, seg) PROVE TablesInv'
  BY <1>6, BytesKeepTables
<1>7. CASE UNCHANGED vars
  BY <1>7 DEF vars, TablesInv, Shape, TableSound, RightWay
<1> QED BY <1>1, <1>2, <1>3, <1>4, <1>5, <1>6, <1>7 DEF Next

(* In every behaviour the tables of a Transit lead to the peers they name,  *)
(* although links come and go and addresses are used again.                 *)
THEOREM TableSoundAlways == Spec => []TableSound
<1>1. TablesInv => TableSound
  BY DEF TablesInv
<1> QED BY InitTables, NextTables, <1>1, PTL DEF Spec

(* What a Transit passes on is data, and goes to the peer that the header   *)
(* names.                                                                   *)
THEOREM RightWayAlways == Spec => []RightWay
<1>1. TablesInv => RightWay
  BY DEF TablesInv
<1> QED BY InitTables, NextTables, <1>1, PTL DEF Spec

-----------------------------------------------------------------------------
(* While the Transit is up, a timer waits for an address exactly as long as *)
(* a closed link is listed there: a reused address has no old timer.        *)
TimersSound ==
    svc = "up" => \A a \in Addrs :
        reaps[a] = IF links[a] # None /\ links[a].chan = "closed" THEN 1 ELSE 0

EffortInv == TablesInv /\ TimersSound /\ OneAttempt

(* The effort for Outport o, as OneAttempt has it. *)
Effort(o) ==
    \/ outbound[o] # None /\ links[outbound[o]].chan \in {"dialing", "open"}
    \/ outbound[o] # None /\ links[outbound[o]].chan = "closed" /\ reaps[outbound[o]] = 1

LEMMA OneAttemptEffort ==
    OneAttempt <=> (svc = "up" => \A o \in Outports : dials[o] = IF Effort(o) THEN 0 ELSE 1)
  BY DEF OneAttempt, Effort

LEMMA OneAttemptEffortPrime ==
    OneAttempt' <=> (svc' = "up" => \A o \in Outports : dials'[o] = IF Effort(o)' THEN 0 ELSE 1)
  BY DEF OneAttempt, Effort

(* A step that leaves the link, the timers and the dials of an Outport      *)
(* alone leaves its effort as it is.                                        *)
LEMMA SameEffort ==
    ASSUME NEW p \in Outports, outbound'[p] = outbound[p],
           outbound[p] # None => /\ links'[outbound[p]] = links[outbound[p]]
                                 /\ reaps'[outbound[p]] = reaps[outbound[p]]
    PROVE  Effort(p)' <=> Effort(p)
  BY DEF Effort

LEMMA DialKeepsEffort ==
    ASSUME EffortInv, svc = "up", NEW o \in Outports, dialOneOutport(o)
    PROVE  TimersSound' /\ OneAttempt'
<1>1. PICK a \in Fresh, failed \in BOOLEAN :
          /\ links' = [b \in Addrs |->
                IF b = a THEN [peer |-> o, chan |-> IF failed THEN "failed" ELSE "dialing"]
                ELSE IF b = outbound[o] THEN None ELSE links[b]]
          /\ outbound' = [outbound EXCEPT ![o] = a]
          /\ dials' = [dials EXCEPT ![o] = IF failed THEN @ ELSE @ - 1]
  BY DEF dialOneOutport
<1>2. a \in Addrs /\ ~Held(a) /\ links[a] = None /\ a # None
  BY <1>1, NoneIsNoLink DEF Fresh, Held
<1>3. UNCHANGED <<svc, inbound, reaps, sent>> /\ dials[o] > 0
  BY DEF dialOneOutport
<1>4. dials[o] = 1 /\ ~Effort(o)
  BY <1>3, OneAttemptEffort DEF EffortInv
<1>5. outbound[o] # None => outbound[o] \in Addrs /\ reaps[outbound[o]] = 0
  <2> SUFFICES ASSUME outbound[o] # None PROVE outbound[o] \in Addrs /\ reaps[outbound[o]] = 0
    OBVIOUS
  <2>1. outbound[o] \in Addrs
    BY DEF EffortInv, TablesInv, Shape
  <2>2. links[outbound[o]].chan # "closed"
    BY <1>4, <2>1 DEF Effort, EffortInv, TimersSound, TablesInv, TableSound
  <2> QED BY <2>1, <2>2 DEF EffortInv, TimersSound
<1>6. TimersSound'
  <2> SUFFICES ASSUME NEW b \in Addrs
               PROVE  reaps'[b] = IF links'[b] # None /\ links'[b].chan = "closed" THEN 1 ELSE 0
    BY DEF TimersSound
  <2>1. CASE b = a
    BY <1>1, <1>2, <1>3, <2>1 DEF EffortInv, TimersSound
  <2>2. CASE b # a /\ b = outbound[o]
    BY <1>1, <1>3, <1>5, <2>2, NoneIsNoLink
  <2>3. CASE b # a /\ b # outbound[o]
    BY <1>1, <1>3, <2>3 DEF EffortInv, TimersSound
  <2> QED BY <2>1, <2>2, <2>3
<1>7. ASSUME NEW p \in Outports PROVE dials'[p] = IF Effort(p)' THEN 0 ELSE 1
  <2>1. CASE p = o
    <3>1. outbound'[o] = a /\ links'[a].chan = (IF failed THEN "failed" ELSE "dialing")
      BY <1>1, <1>2 DEF EffortInv, TablesInv, Shape
    <3>2. dials'[o] = IF failed THEN 1 ELSE 0
      BY <1>1, <1>4 DEF EffortInv, TablesInv, Shape
    <3> QED BY <1>2, <2>1, <3>1, <3>2 DEF Effort
  <2>2. CASE p # o
    <3>1. outbound'[p] = outbound[p] /\ dials'[p] = dials[p]
      BY <1>1, <2>2 DEF EffortInv, TablesInv, Shape
    <3>2. ASSUME outbound[p] # None
          PROVE  links'[outbound[p]] = links[outbound[p]] /\ reaps'[outbound[p]] = reaps[outbound[p]]
      <4>1. outbound[p] \in Addrs /\ outbound[p] # a
        BY <1>2, <3>2 DEF EffortInv, TablesInv, Shape, Held
      <4>2. outbound[p] # outbound[o]
        BY <2>2, <3>2 DEF EffortInv, TablesInv, TableSound
      <4> QED BY <1>1, <1>3, <4>1, <4>2
    <3>3. Effort(p)' <=> Effort(p)
      BY <3>1, <3>2, SameEffort
    <3> QED BY <3>1, <3>3, OneAttemptEffort DEF EffortInv
  <2> QED BY <2>1, <2>2
<1> QED BY <1>6, <1>7, OneAttemptEffortPrime

LEMMA AcceptKeepsEffort ==
    ASSUME EffortInv, svc = "up", NEW i \in Inports, makeInboundChannel(i)
    PROVE  TimersSound' /\ OneAttempt'
<1>1. PICK a \in Fresh : links' = [links EXCEPT ![a] = [peer |-> i, chan |-> "open"]]
  BY DEF makeInboundChannel
<1>2. a \in Addrs /\ ~Held(a) /\ links[a] = None
  BY <1>1 DEF Fresh, Held
<1>3. UNCHANGED <<svc, outbound, inbound, dials, reaps, sent>>
  BY DEF makeInboundChannel
<1>4. TimersSound'
  BY <1>1, <1>2, <1>3 DEF EffortInv, TimersSound, TablesInv, Shape
<1>5. ASSUME NEW p \in Outports PROVE dials'[p] = IF Effort(p)' THEN 0 ELSE 1
  <2>1. outbound[p] # None => links'[outbound[p]] = links[outbound[p]]
    BY <1>1, <1>2 DEF Held, EffortInv, TablesInv, Shape
  <2>2. Effort(p)' <=> Effort(p)
    BY <1>3, <2>1, SameEffort
  <2> QED BY <1>3, <2>2, OneAttemptEffort DEF EffortInv
<1> QED BY <1>4, <1>5, OneAttemptEffortPrime

LEMMA ChannelKeepsEffort ==
    ASSUME EffortInv, svc = "up", NEW a \in Addrs, LinkOpened(a) \/ onLinkClosed(a)
    PROVE  TimersSound' /\ OneAttempt'
<1>1. /\ links[a] # None /\ links[a] \in Link /\ links[a].chan \in {"dialing", "open"}
      /\ UNCHANGED <<svc, outbound, inbound, dials, sent>>
  BY DEF LinkOpened, onLinkClosed, EffortInv, TablesInv, Shape
<1>2. reaps[a] = 0
  BY <1>1 DEF EffortInv, TimersSound
<1>3. \/ links'[a].chan = "open" /\ reaps'[a] = 0
      \/ links'[a].chan = "closed" /\ reaps'[a] = 1
  BY <1>1, <1>2 DEF LinkOpened, onLinkClosed, EffortInv, TablesInv, Shape, Link
<1>4. /\ \A b \in Addrs : b # a => links'[b] = links[b] /\ reaps'[b] = reaps[b]
      /\ links'[a] \in Link
  BY <1>1 DEF LinkOpened, onLinkClosed, EffortInv, TablesInv, Shape, Link
<1>5. TimersSound'
  BY <1>1, <1>3, <1>4, NoneIsNoLink DEF EffortInv, TimersSound
<1>6. ASSUME NEW p \in Outports PROVE dials'[p] = IF Effort(p)' THEN 0 ELSE 1
  <2>1. CASE outbound[p] = a
    BY <1>1, <1>3, <2>1, NoneIsNoLink, OneAttemptEffort DEF EffortInv, Effort
  <2>2. CASE outbound[p] # a
    <3>1. outbound[p] # None => outbound[p] \in Addrs
      BY DEF EffortInv, TablesInv, Shape
    <3>2. Effort(p)' <=> Effort(p)
      BY <1>1, <1>4, <2>2, <3>1, SameEffort
    <3> QED BY <1>1, <3>2, OneAttemptEffort DEF EffortInv
  <2> QED BY <2>1, <2>2
<1> QED BY <1>5, <1>6, OneAttemptEffortPrime

(* A timer finds the closed link it was set for, and turns the effort that  *)
(* was waiting for it into a dial.                                          *)
LEMMA ReapKeepsEffort ==
    ASSUME EffortInv, svc = "up", NEW a \in Addrs, ReapLink(a)
    PROVE  TimersSound' /\ OneAttempt'
<1> DEFINE served == {o \in Outports : links[a] # None /\ outbound[o] = a}
<1>1. /\ reaps[a] > 0
      /\ reaps' = [reaps EXCEPT ![a] = @ - 1]
      /\ links' = [links EXCEPT ![a] = None]
      /\ outbound' = [o \in Outports |-> IF o \in served THEN None ELSE outbound[o]]
      /\ dials' = [o \in Outports |-> IF o \in served THEN dials[o] + 1 ELSE dials[o]]
      /\ UNCHANGED svc
  BY DEF ReapLink
<1>2. links[a] # None /\ links[a].chan = "closed" /\ reaps[a] = 1
  BY <1>1 DEF EffortInv, TimersSound
<1>3. TimersSound'
  BY <1>1, <1>2 DEF EffortInv, TimersSound, TablesInv, Shape
<1>4. ASSUME NEW p \in Outports PROVE dials'[p] = IF Effort(p)' THEN 0 ELSE 1
  <2>1. CASE outbound[p] = a
    <3>1. Effort(p)
      BY <1>2, <2>1, NoneIsNoLink DEF Effort
    <3>2. dials[p] = 0
      BY <3>1, OneAttemptEffort DEF EffortInv
    <3>3. dials'[p] = 1 /\ outbound'[p] = None
      BY <1>1, <1>2, <2>1, <3>2
    <3> QED BY <3>3 DEF Effort
  <2>2. CASE outbound[p] # a
    <3>1. outbound'[p] = outbound[p] /\ dials'[p] = dials[p]
      BY <1>1, <2>2
    <3>2. outbound[p] # None => outbound[p] \in Addrs
      BY DEF EffortInv, TablesInv, Shape
    <3>3. outbound[p] # None => links'[outbound[p]] = links[outbound[p]] /\ reaps'[outbound[p]] = reaps[outbound[p]]
      BY <1>1, <2>2, <3>2 DEF EffortInv, TablesInv, Shape
    <3>4. Effort(p)' <=> Effort(p)
      BY <3>1, <3>3, SameEffort
    <3> QED BY <3>1, <3>4, OneAttemptEffort DEF EffortInv
  <2> QED BY <2>1, <2>2
<1> QED BY <1>3, <1>4, OneAttemptEffortPrime

(* In every behaviour a running Transit has exactly one effort under way    *)
(* for each Outport.  OneAttempt needs TimersSound, which says that a timer *)
(* only ever meets the link it was set for, and the sound tables, by which  *)
(* a dial replaces no link of another peer.                                 *)
THEOREM OneAttemptAlways == Spec => []OneAttempt
<1>1. Init => EffortInv
  BY InitTables DEF Init, EffortInv, TimersSound, OneAttempt
<1>2. EffortInv /\ [Next]_vars => EffortInv'
  <2> SUFFICES ASSUME EffortInv, [Next]_vars PROVE TimersSound' /\ OneAttempt'
    BY NextTables DEF EffortInv
  <2>1. CASE svc # "up"
    <3>1. svc' # "up"
      BY <2>1 DEF Next, vars, stop, dialOneOutport, makeInboundChannel, LinkOpened,
                  onLinkClosed, ReapLink, onLinkBytes
    <3> QED BY <3>1 DEF TimersSound, OneAttempt
  <2>2. CASE svc = "up"
    <3>1. CASE stop
      BY <3>1 DEF stop, TimersSound, OneAttempt
    <3>2. ASSUME NEW o \in Outports, dialOneOutport(o) PROVE TimersSound' /\ OneAttempt'
      BY <2>2, <3>2, DialKeepsEffort
    <3>3. ASSUME NEW i \in Inports, makeInboundChannel(i) PROVE TimersSound' /\ OneAttempt'
      BY <2>2, <3>3, AcceptKeepsEffort
    <3>4. ASSUME NEW a \in Addrs, LinkOpened(a) \/ onLinkClosed(a) PROVE TimersSound' /\ OneAttempt'
      BY <2>2, <3>4, ChannelKeepsEffort
    <3>5. ASSUME NEW a \in Addrs, ReapLink(a) PROVE TimersSound' /\ OneAttempt'
      BY <2>2, <3>5, ReapKeepsEffort
    <3>6. ASSUME NEW a \in Addrs, NEW seg \in Segment, onLinkBytes(a, seg) PROVE TimersSound' /\ OneAttempt'
      BY <3>6 DEF onLinkBytes, EffortInv, TimersSound, OneAttempt
    <3>7. CASE UNCHANGED vars
      BY <3>7 DEF vars, EffortInv, TimersSound, OneAttempt
    <3> QED BY <3>1, <3>2, <3>3, <3>4, <3>5, <3>6, <3>7 DEF Next
  <2> QED BY <2>1, <2>2
<1>3. EffortInv => OneAttempt
  BY DEF EffortInv
<1> QED BY <1>1, <1>2, <1>3, PTL DEF Spec
=============================================================================
