------------------------ MODULE ChannelManagerProofs ------------------------
(* Theorems about the pool of links, for every set of configured, added and *)
(* removable links and any number of RPCs and accepted links.               *)
EXTENDS ChannelManager, TLAPS

-----------------------------------------------------------------------------
(* What the helpers return.                                                 *)

(* The three kinds of ids: an accepted link is never a dialed one. *)
LEMMA IdFacts ==
    /\ Configured \subseteq Dialed /\ Added \subseteq Dialed
    /\ Dialed \subseteq Ids /\ Accepted \subseteq Ids
    /\ Dialed \cap Accepted = {} /\ Removable \subseteq Ids
BY IdsAssumption DEF Dialed, Ids

(* addChannel leaves a channel that dials or one that failed; none if and   *)
(* only if it refuses the kind.                                             *)
LEMMA InsertedType ==
    /\ \A known \in BOOLEAN : Inserted(known) \subseteq {"dialing", "failed", "absent"}
    /\ Inserted(TRUE) \subseteq {"dialing", "failed"}
    /\ \A id : Known(id) \in BOOLEAN
BY DEF Inserted, Dials, Known

(* What start leaves in the pool. *)
LEMMA StartAt ==
    ASSUME start, pool \in [Ids -> ChannelState]
    PROVE  /\ pool' \in [Ids -> ChannelState]
           /\ \A id \in Ids \ Configured : pool'[id] = pool[id]
           /\ \A id \in Configured : pool'[id] \in {"dialing", "failed", "absent"}
           /\ \A id \in Redialable : pool'[id] \in {"dialing", "failed"}
<1>1. PICK d \in [Configured -> Inserted(TRUE) \cup Inserted(FALSE)] :
          /\ \A id \in Configured : d[id] \in Inserted(Known(id))
          /\ pool' = [id \in Ids |-> IF id \in Configured THEN d[id] ELSE pool[id]]
  BY DEF start
<1>2. /\ \A id \in Configured : d[id] \in {"dialing", "failed", "absent"}
      /\ \A id \in Redialable : d[id] \in {"dialing", "failed"}
  BY <1>1, InsertedType DEF Redialable, Known
<1> QED
  BY <1>1, <1>2, IdFacts DEF ChannelState, Redialable

(* The release of a timer's closure keeps the pool a pool. *)
LEMMA ReleasedType ==
    ASSUME NEW p \in [Ids -> ChannelState]
    PROVE  Released(p) \in [Ids -> ChannelState]
BY DEF Released, ChannelState

-----------------------------------------------------------------------------
(* Type correctness.                                                        *)

LEMMA TypeInit == Init => TypeOK
BY DEF Init, TypeOK, ChannelState, Endpoint, Redialed

LEMMA TypeStep == TypeOK /\ [Next]_vars => TypeOK'
<1> SUFFICES ASSUME TypeOK, [Next]_vars PROVE TypeOK'
  OBVIOUS
<1> USE DEF TypeOK
<1>1. CASE start
  <2>1. pool' \in [Ids -> ChannelState]
    BY <1>1, StartAt
  <2> QED
    BY <1>1, <2>1 DEF start, Endpoint
<1>2. CASE stop
  BY <1>2 DEF stop, ChannelState
<1>3. ASSUME NEW id \in Dialed, NEW known \in BOOLEAN, NEW r \in Given(id), addChannel(id, r, known) PROVE TypeOK'
  <2>1. r \in {"configured", "other"}
    BY DEF Given
  <2>2. pool' \in [Ids -> ChannelState] /\ asked' \in [Dialed -> {"configured", "other", "none"}]
    BY <1>3, <2>1, InsertedType DEF addChannel, ChannelState
  <2>3. endpoint' \in [Ids -> Endpoint]
    BY <1>3, <2>1 DEF addChannel, Endpoint
  <2> QED
    BY <1>3, <2>2, <2>3 DEF addChannel
<1>4. ASSUME NEW id \in Removable, removeChannel(id) PROVE TypeOK'
  BY <1>4, IdFacts DEF removeChannel, ChannelState
<1>5. CASE makeAcceptedChannel
  BY <1>5, IdFacts DEF makeAcceptedChannel, ChannelState
<1>6. ASSUME NEW id \in Dialed, onChannelConnected(id) PROVE TypeOK'
  BY <1>6, IdFacts DEF onChannelConnected, ChannelState
<1>7. ASSUME NEW id \in Ids, onChannelClosed(id) PROVE TypeOK'
  <2>1. pool' \in [Ids -> ChannelState]
    BY <1>7 DEF onChannelClosed, ChannelState
  <2>2. reaps' \in [Ids -> Nat]
    <3>1. reaps[id] + 1 \in Nat
      OBVIOUS
    <3> QED
      BY <1>7, <3>1 DEF onChannelClosed, scheduleReconnect
  <2>3. timers' \in [Ids -> [Redialed -> Nat]]
    <3> DEFINE r == IF id \in Configured THEN "configured" ELSE "empty"
    <3>1. timers[id][r] + 1 \in Nat
      BY DEF Redialed
    <3>2. [timers EXCEPT ![id][r] = timers[id][r] + 1] \in [Ids -> [Redialed -> Nat]]
      BY <3>1
    <3> QED
      BY <1>7, <3>2 DEF onChannelClosed, scheduleReconnect
  <2> QED
    BY <1>7, <2>1, <2>2, <2>3 DEF onChannelClosed
<1>8. ASSUME NEW id \in Dialed, NEW r \in Redialed, ReconnectTimer(id, r) PROVE TypeOK'
  <2>1. PICK d \in Inserted(Known(id)) : pool' = Released([pool EXCEPT ![id] = d])
    BY <1>8 DEF ReconnectTimer
  <2>2. [pool EXCEPT ![id] = d] \in [Ids -> ChannelState]
    BY InsertedType DEF ChannelState
  <2>3. pool' \in [Ids -> ChannelState]
    BY <2>1, <2>2, ReleasedType
  <2>4. timers' \in [Ids -> [Redialed -> Nat]] /\ endpoint' \in [Ids -> Endpoint]
    <3>1. timers[id][r] - 1 \in Nat
      BY <1>8, IdFacts DEF ReconnectTimer
    <3> QED
      BY <1>8, <3>1 DEF ReconnectTimer, Redialed, Endpoint
  <2> QED
    BY <1>8, <2>3, <2>4 DEF ReconnectTimer
<1>9. ASSUME NEW id \in Accepted, ReapTimer(id) PROVE TypeOK'
  <2>1. [pool EXCEPT ![id] = "absent"] \in [Ids -> ChannelState]
    BY DEF ChannelState
  <2>2. pool' \in [Ids -> ChannelState]
    BY <1>9, <2>1, ReleasedType DEF ReapTimer
  <2>3. reaps[id] - 1 \in Nat
    BY <1>9, IdFacts DEF ReapTimer
  <2> QED
    BY <1>9, <2>2, <2>3 DEF ReapTimer
<1>10. CASE UNCHANGED vars
  BY <1>10 DEF vars
<1> QED
  BY <1>1, <1>2, <1>3, <1>4, <1>5, <1>6, <1>7, <1>8, <1>9, <1>10 DEF Next

(* The pool, the timers and the ids keep their types in every behaviour of  *)
(* the manager; no timer count ever goes below zero.                        *)
THEOREM TypeCorrect == Spec => []TypeOK
BY TypeInit, TypeStep, PTL DEF Spec

-----------------------------------------------------------------------------
(* A closed channel always has a timer.                                     *)

(* The effect of a timer's release on one channel. *)
LEMMA ReleasedAt ==
    ASSUME NEW p \in [Ids -> ChannelState], NEW i \in Ids
    PROVE  Released(p)[i] = p[i] \/ (phase = "stopped" /\ Released(p)[i] = "absent")
BY DEF Released

LEMMA ClosedStep == TypeOK /\ ClosedIsHandled /\ [Next]_vars => ClosedIsHandled'
<1> SUFFICES ASSUME TypeOK, ClosedIsHandled, [Next]_vars,
                    NEW i \in Ids, pool'[i] = "closed"
             PROVE  (Pending(i) + reaps[i] > 0)'
  BY DEF ClosedIsHandled
<1>0. /\ timers[i]["configured"] \in Nat /\ timers[i]["empty"] \in Nat /\ reaps[i] \in Nat
      /\ pool[i] = "closed" => Pending(i) + reaps[i] > 0
  BY DEF TypeOK, Redialed, ClosedIsHandled
<1> USE DEF Pending
<1>1. CASE start
  <2>1. pool[i] = "closed"
    BY <1>1, StartAt DEF TypeOK
  <2> QED
    BY <1>0, <1>1, <2>1 DEF start
<1>2. CASE stop
  BY <1>2 DEF stop
<1>3. ASSUME NEW id \in Dialed, NEW known \in BOOLEAN, NEW r \in Given(id), addChannel(id, r, known)
      PROVE  (Pending(i) + reaps[i] > 0)'
  BY <1>0, <1>3, IdFacts, InsertedType DEF addChannel, TypeOK
<1>4. ASSUME NEW id \in Removable, removeChannel(id) PROVE (Pending(i) + reaps[i] > 0)'
  BY <1>0, <1>4, IdFacts DEF removeChannel, TypeOK
<1>5. CASE makeAcceptedChannel
  BY <1>0, <1>5, IdFacts DEF makeAcceptedChannel, TypeOK
<1>6. ASSUME NEW id \in Dialed, onChannelConnected(id) PROVE (Pending(i) + reaps[i] > 0)'
  BY <1>0, <1>6, IdFacts DEF onChannelConnected, TypeOK
<1>7. ASSUME NEW id \in Ids, onChannelClosed(id) PROVE (Pending(i) + reaps[i] > 0)'
  BY <1>0, <1>7 DEF onChannelClosed, scheduleReconnect, TypeOK, Redialed
<1>8. ASSUME NEW id \in Dialed, NEW r \in Redialed, ReconnectTimer(id, r)
      PROVE  (Pending(i) + reaps[i] > 0)'
  <2>1. PICK d \in Inserted(Known(id)) : pool' = Released([pool EXCEPT ![id] = d])
    BY <1>8 DEF ReconnectTimer
  <2>2. [pool EXCEPT ![id] = d] \in [Ids -> ChannelState]
    BY InsertedType DEF ChannelState, TypeOK
  <2>3. i # id /\ pool[i] = "closed"
    BY <2>1, <2>2, ReleasedAt, InsertedType, IdFacts DEF TypeOK
  <2>4. timers'[i] = timers[i] /\ reaps' = reaps
    BY <1>8, <2>3 DEF ReconnectTimer, TypeOK
  <2> QED
    BY <1>0, <2>3, <2>4
<1>9. ASSUME NEW id \in Accepted, ReapTimer(id) PROVE (Pending(i) + reaps[i] > 0)'
  <2>1. [pool EXCEPT ![id] = "absent"] \in [Ids -> ChannelState]
    BY DEF ChannelState, TypeOK
  <2>2. i # id /\ pool[i] = "closed"
    BY <1>9, <2>1, ReleasedAt, IdFacts DEF ReapTimer, TypeOK
  <2>3. timers' = timers /\ reaps'[i] = reaps[i]
    BY <1>9, <2>2 DEF ReapTimer, TypeOK
  <2> QED
    BY <1>0, <2>2, <2>3
<1>10. CASE UNCHANGED vars
  BY <1>0, <1>10 DEF vars
<1> QED
  BY <1>1, <1>2, <1>3, <1>4, <1>5, <1>6, <1>7, <1>8, <1>9, <1>10 DEF Next

(* However RPCs, callbacks and timers interleave, a channel that was lost   *)
(* has a pending timer that will replace or remove it (onChannelClosed,     *)
(* scheduleReconnect, the deferred removal).                                *)
THEOREM ClosedIsHandledAlways == Spec => []ClosedIsHandled
<1>1. Init => ClosedIsHandled
  BY DEF Init, ClosedIsHandled
<1> QED
  BY <1>1, ClosedStep, TypeCorrect, PTL DEF Spec

-----------------------------------------------------------------------------
(* A deferred removal never hits a working channel.  ReapsOnlyDead is not   *)
(* inductive: makeAcceptedChannel would break it if the id it takes had a   *)
(* removal pending.  That ids only grow is what rules this out.             *)

(* No accepted channel, and no removal, has an id that is not given out yet. *)
UnusedIds == \A id \in Accepted : id >= next_id => reaps[id] = 0 /\ pool[id] = "absent"

ReapInv == UnusedIds /\ ReapsOnlyDead

LEMMA ReapStep == TypeOK /\ ReapInv /\ [Next]_vars => ReapInv'
<1> SUFFICES ASSUME TypeOK, ReapInv, [Next]_vars, NEW i \in Accepted
             PROVE  /\ (i >= next_id => reaps[i] = 0 /\ pool[i] = "absent")'
                    /\ (reaps[i] > 0 => pool[i] \in {"closed", "absent"})'
  BY DEF ReapInv, UnusedIds, ReapsOnlyDead
<1> DEFINE Goal == /\ (i >= next_id => reaps[i] = 0 /\ pool[i] = "absent")
                   /\ (reaps[i] > 0 => pool[i] \in {"closed", "absent"})
<1>0. /\ i \in Ids /\ i \notin Dialed /\ i \in Nat /\ i \notin Configured
      /\ reaps[i] \in Nat /\ next_id \in Nat /\ Goal
  BY IdFacts DEF TypeOK, ReapInv, UnusedIds, ReapsOnlyDead, Accepted
<1>1. CASE start
  BY <1>0, <1>1, StartAt DEF start, TypeOK
<1>2. CASE stop
  BY <1>0, <1>2 DEF stop
<1>3. ASSUME NEW id \in Dialed, NEW known \in BOOLEAN, NEW r \in Given(id), addChannel(id, r, known) PROVE Goal'
  BY <1>0, <1>3, IdFacts DEF addChannel, TypeOK
<1>4. ASSUME NEW id \in Removable, removeChannel(id) PROVE Goal'
  BY <1>0, <1>4, IdFacts DEF removeChannel, TypeOK
<1>5. CASE makeAcceptedChannel
  BY <1>0, <1>5, IdFacts DEF makeAcceptedChannel, TypeOK
<1>6. ASSUME NEW id \in Dialed, onChannelConnected(id) PROVE Goal'
  BY <1>0, <1>6, IdFacts DEF onChannelConnected, TypeOK
<1>7. ASSUME NEW id \in Ids, onChannelClosed(id) PROVE Goal'
  BY <1>0, <1>7 DEF onChannelClosed, TypeOK
<1>8. ASSUME NEW id \in Dialed, NEW r \in Redialed, ReconnectTimer(id, r) PROVE Goal'
  <2>1. PICK d \in Inserted(Known(id)) : pool' = Released([pool EXCEPT ![id] = d])
    BY <1>8 DEF ReconnectTimer
  <2>2. [pool EXCEPT ![id] = d] \in [Ids -> ChannelState]
    BY InsertedType DEF ChannelState, TypeOK
  <2>3. pool'[i] = pool[i] \/ pool'[i] = "absent"
    BY <1>0, <2>1, <2>2, ReleasedAt DEF TypeOK
  <2> QED
    BY <1>0, <1>8, <2>3 DEF ReconnectTimer
<1>9. ASSUME NEW id \in Accepted, ReapTimer(id) PROVE Goal'
  <2>1. [pool EXCEPT ![id] = "absent"] \in [Ids -> ChannelState]
    BY DEF ChannelState, TypeOK
  <2>2. pool'[i] = pool[i] \/ pool'[i] = "absent"
    BY <1>0, <1>9, <2>1, ReleasedAt DEF ReapTimer, TypeOK
  <2>3. /\ next_id' = next_id
        /\ reaps'[i] = reaps[i] \/ (i = id /\ reaps[i] > 0 /\ reaps'[i] = reaps[i] - 1)
    BY <1>0, <1>9 DEF ReapTimer, TypeOK
  <2> QED
    BY <1>0, <2>2, <2>3
<1>10. CASE UNCHANGED vars
  BY <1>0, <1>10 DEF vars
<1> QED
  BY <1>1, <1>2, <1>3, <1>4, <1>5, <1>6, <1>7, <1>8, <1>9, <1>10 DEF Next

(* Although the removal timer of an accepted channel names it by its id     *)
(* only, and mlfRemoveChannel may have come first, it never removes a       *)
(* working channel: ids of accepted channels are not used twice.            *)
THEOREM ReapsOnlyDeadAlways == Spec => []ReapsOnlyDead
<1>1. Init => ReapInv
  BY IdFacts DEF Init, ReapInv, UnusedIds, ReapsOnlyDead
<1>2. ReapInv => ReapsOnlyDead
  BY DEF ReapInv
<1> QED
  BY <1>1, <1>2, ReapStep, TypeCorrect, PTL DEF Spec

-----------------------------------------------------------------------------
(* A wanted link is never stranded.                                         *)

(* What WantedIsServed needs to be inductive: the timers of a configured    *)
(* link know its address, and a link is wanted only while the service runs, *)
(* so that no release of a timer empties the pool under it.                 *)
Homed == \A id \in Configured : timers[id]["empty"] = 0

WantedWhileRunning == Wanted # {} => phase = "running"

ServedInv == Homed /\ WantedWhileRunning /\ WantedIsServed

LEMMA ServedStep == TypeOK /\ ServedInv /\ [Next]_vars => ServedInv'
<1> SUFFICES ASSUME TypeOK, ServedInv, [Next]_vars PROVE ServedInv'
  OBVIOUS
<1> DEFINE Served(id) == \/ pool[id] = "failed"
                         \/ pool[id] \in {"dialing", "open"} /\ endpoint[id] \in {asked[id], "configured"}
                         \/ timers[id]["configured"] > 0
<1>0. /\ \A id \in Configured : id \in Dialed /\ id \in Ids /\ id \notin Accepted
      /\ \A id \in Redialable : id \in Configured /\ id \in Dialed /\ Known(id)
      /\ Homed /\ WantedWhileRunning /\ \A id \in Wanted \cap Redialable : Served(id)
  BY IdFacts DEF ServedInv, WantedIsServed, Redialable, Known
<1>q. ASSUME Homed', WantedWhileRunning', \A id \in Wanted' \cap Redialable : Served(id)'
      PROVE  ServedInv'
  BY <1>q DEF ServedInv, WantedIsServed
(* A step that leaves the timers, the phase and what is wanted alone, and   *)
(* no wanted link worse off.                                                *)
<1>s. ASSUME UNCHANGED <<phase, timers, asked>>, \A id \in Wanted \cap Redialable : Served(id) => Served(id)'
      PROVE  ServedInv'
  BY <1>0, <1>q, <1>s DEF Homed, WantedWhileRunning, Wanted
<1>1. CASE start
  <2>1. \A id \in Redialable : pool'[id] \in {"dialing", "failed"} /\ endpoint'[id] = "configured"
    BY <1>0, <1>1, StartAt DEF start, TypeOK
  <2> QED
    BY <1>0, <1>1, <2>1, <1>q DEF start, Homed, WantedWhileRunning
<1>2. CASE stop
  <2>1. Wanted' = {} /\ Homed'
    BY <1>0, <1>2 DEF stop, Wanted, Homed
  <2> QED
    BY <2>1, <1>q DEF WantedWhileRunning
<1>3. ASSUME NEW id \in Dialed, NEW known \in BOOLEAN, NEW r \in Given(id), addChannel(id, r, known)
      PROVE  ServedInv'
  <2>0. Homed' /\ WantedWhileRunning' /\ id \in Ids
    BY <1>0, <1>3, IdFacts DEF addChannel, Homed, WantedWhileRunning
  <2>1. PICK d \in Inserted(known) :
            /\ pool' = [pool EXCEPT ![id] = d]
            /\ asked' = IF d = "dialing" THEN [asked EXCEPT ![id] = r] ELSE asked
    BY <1>3 DEF addChannel
  <2>2. d = "dialing" => endpoint' = [endpoint EXCEPT ![id] = r]
    BY <1>3, <2>1 DEF addChannel, Inserted
  <2>3. /\ d \in {"dialing", "failed", "absent"} /\ timers' = timers /\ pool[id] = "absent"
        /\ \A i \in Ids : i # id => endpoint'[i] = endpoint[i]
    BY <1>3, <2>1, InsertedType DEF addChannel, TypeOK
  <2>4. ASSUME NEW i \in Wanted' \cap Redialable PROVE Served(i)'
    <3>0. i \in Dialed /\ i \in Ids
      BY <1>0, IdFacts
    <3>1. CASE i = id /\ d = "dialing"
      BY <2>0, <2>1, <2>2, <3>0, <3>1 DEF TypeOK
    <3>2. CASE i = id /\ d # "dialing"
      <4>1. Served(i)
        BY <1>0, <2>1, <2>4, <3>2 DEF Wanted
      <4> QED
        BY <2>3, <3>2, <4>1
    <3>3. CASE i # id
      <4>1. asked'[i] = asked[i] /\ pool'[i] = pool[i]
        BY <2>1, <3>0, <3>3 DEF TypeOK
      <4>2. Served(i)
        BY <1>0, <2>4, <3>0, <4>1 DEF Wanted
      <4> QED
        BY <2>3, <3>0, <3>3, <4>1, <4>2
    <3> QED
      BY <3>1, <3>2, <3>3
  <2> QED
    BY <2>0, <2>4, <1>q
<1>4. ASSUME NEW id \in Removable, removeChannel(id) PROVE ServedInv'
  <2>1. /\ Homed' /\ Wanted' = Wanted \ {id} /\ phase' = "running"
        /\ \A i \in Wanted' : asked'[i] = asked[i]
    BY <1>0, <1>4 DEF removeChannel, Homed, Wanted
  <2>2. ASSUME NEW i \in Wanted' \cap Redialable PROVE Served(i)'
    BY <1>0, <1>4, <2>1, <2>2 DEF removeChannel, TypeOK
  <2> QED
    BY <2>1, <2>2, <1>q DEF WantedWhileRunning
<1>5. CASE makeAcceptedChannel
  BY <1>0, <1>5, <1>s, IdFacts DEF makeAcceptedChannel, TypeOK
<1>6. ASSUME NEW id \in Dialed, onChannelConnected(id) PROVE ServedInv'
  BY <1>0, <1>6, <1>s, IdFacts DEF onChannelConnected, TypeOK
<1>7. ASSUME NEW id \in Ids, onChannelClosed(id) PROVE ServedInv'
  <2>1. Homed' /\ WantedWhileRunning' /\ Wanted' = Wanted
    BY <1>0, <1>7 DEF onChannelClosed, scheduleReconnect, Homed, WantedWhileRunning, Wanted, TypeOK, Redialed
  <2>2. ASSUME NEW i \in Wanted' \cap Redialable PROVE Served(i)'
    <3>1. CASE i = id
      <4>1. timers[id]["configured"] \in Nat /\ timers'[id]["configured"] = timers[id]["configured"] + 1
        BY <1>0, <1>7, <3>1 DEF onChannelClosed, scheduleReconnect, TypeOK, Redialed
      <4> QED
        BY <3>1, <4>1
    <3>2. CASE i # id
      BY <1>0, <1>7, <2>1, <3>2 DEF onChannelClosed, scheduleReconnect, TypeOK, Redialed
    <3> QED
      BY <3>1, <3>2
  <2> QED
    BY <2>1, <2>2, <1>q
<1>8. ASSUME NEW id \in Dialed, NEW r \in Redialed, ReconnectTimer(id, r) PROVE ServedInv'
  <2>0. id \in Configured => r = "configured"
    BY <1>0, <1>8 DEF ReconnectTimer, Homed, Redialed
  <2>1. Homed' /\ WantedWhileRunning' /\ Wanted' = Wanted
    BY <1>0, <1>8, <2>0, IdFacts DEF ReconnectTimer, Homed, WantedWhileRunning, Wanted, TypeOK, Redialed
  <2>2. ASSUME NEW i \in Wanted' \cap Redialable PROVE Served(i)'
    <3>1. i \in Wanted \cap Redialable /\ i \in Ids /\ phase # "stopped" /\ asked' = asked
      BY <1>0, <1>8, <2>1 DEF ReconnectTimer, WantedWhileRunning
    <3>2. PICK d \in Inserted(Known(id)) : pool' = Released([pool EXCEPT ![id] = d])
      BY <1>8 DEF ReconnectTimer
    <3>3. pool' = [pool EXCEPT ![id] = d]
      BY <3>1, <3>2 DEF Released
    <3>4. CASE i = id
      <4>1. d \in {"dialing", "failed"}
        BY <1>0, <3>1, <3>2, <3>4, InsertedType
      <4>2. endpoint'[i] = "configured"
        BY <1>0, <1>8, <2>0, <3>1, <3>4 DEF ReconnectTimer, TypeOK
      <4> QED
        BY <3>1, <3>3, <3>4, <4>1, <4>2 DEF TypeOK
    <3>5. CASE i # id
      BY <1>0, <1>8, <3>1, <3>3, <3>5 DEF ReconnectTimer, TypeOK
    <3> QED
      BY <3>4, <3>5
  <2> QED
    BY <2>1, <2>2, <1>q
<1>9. ASSUME NEW id \in Accepted, ReapTimer(id) PROVE ServedInv'
  <2>1. ASSUME NEW i \in Wanted \cap Redialable, Served(i) PROVE Served(i)'
    <3>1. i # id /\ phase # "stopped"
      BY <1>0 DEF WantedWhileRunning
    <3>2. pool' = [pool EXCEPT ![id] = "absent"]
      BY <1>9, <3>1 DEF ReapTimer, Released
    <3> QED
      BY <1>0, <1>9, <2>1, <3>1, <3>2 DEF ReapTimer, TypeOK
  <2> QED
    BY <1>9, <2>1, <1>s DEF ReapTimer
<1>10. CASE UNCHANGED vars
  BY <1>10, <1>s DEF vars
<1> QED
  BY <1>1, <1>2, <1>3, <1>4, <1>5, <1>6, <1>7, <1>8, <1>9, <1>10 DEF Next

(* No RPC, loss or stale timer strands a configured link of a known kind:   *)
(* while it is wanted it is up or dialed where it was last asked for or     *)
(* where the configuration has it, or has a timer that will dial the latter *)
(* (or its connect failed at once, which nothing retries).                  *)
THEOREM WantedIsServedAlways == Spec => []WantedIsServed
<1>1. Init => ServedInv
  BY IdFacts DEF Init, ServedInv, Homed, WantedWhileRunning, WantedIsServed, Wanted, Redialed
<1>2. ServedInv => WantedIsServed
  BY DEF ServedInv
<1> QED
  BY <1>1, <1>2, ServedStep, TypeCorrect, PTL DEF Spec
=============================================================================
