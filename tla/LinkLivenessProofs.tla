------------------------- MODULE LinkLivenessProofs -------------------------
(* Theorems about stall detection, for every width of the tick counter,     *)
(* every link_timeout and heartbeat_interval.                               *)
EXTENDS LinkLiveness, TLAPS

(* A link's silence is explored up to less than one turn of the counter     *)
(* (2^32 ms are 49 days).  Past a whole turn the code itself takes a silent *)
(* link for a fresh one until the next link_timeout.                        *)
WithinOneTurn == MaxSilence < TickMod

(* The receive clock of this link runs. *)
Running == reactor = "done" /\ connected

(* now_tick - last_rx_tick as the code computes it. *)
Elapsed == IF now >= last_rx_tick THEN now - last_rx_tick ELSE now - last_rx_tick + TickMod

-----------------------------------------------------------------------------
(* Type correctness.                                                        *)

LEMMA TypeInit == Init => TypeOK
<1>1. Init => connected \in BOOLEAN /\ stalled \in BOOLEAN
  BY DEF Init
<1> QED
  BY <1>1, TimeAssumption DEF Init, TypeOK, Ticks

LEMMA TypeStep == TypeOK /\ [Next]_vars => TypeOK'
<1> SUFFICES ASSUME TypeOK, [Next]_vars PROVE TypeOK'
  OBVIOUS
<1> USE TimeAssumption DEF TypeOK, Ticks
<1>1. CASE MarkConnected
  BY <1>1 DEF MarkConnected
<1>2. CASE BaselineClock
  BY <1>2 DEF BaselineClock
<1>3. CASE addRecvBytes
  <2>1. stalled' \in BOOLEAN
    BY <1>3, Zenon DEF addRecvBytes
  <2> QED
    BY <1>3, <2>1 DEF addRecvBytes
<1>4. CASE markClosed
  BY <1>4 DEF markClosed
<1>5. CASE close
  BY <1>5 DEF close
<1>6. CASE Reconnect
  <2>1. stalled' \in BOOLEAN
    BY <1>6, Zenon DEF Reconnect
  <2> QED
    BY <1>6, <2>1 DEF Reconnect
<1>7. CASE HeartbeatSkip
  BY <1>7 DEF HeartbeatSkip
<1>8. CASE HeartbeatSend
  BY <1>8 DEF HeartbeatSend
<1>9. CASE evaluateStall
  <2>1. stalled' \in BOOLEAN
    BY <1>9 DEF evaluateStall, fgwLinkStalled
  <2> QED
    BY <1>9, <2>1 DEF evaluateStall
<1>10. CASE Tick
  BY <1>10 DEF Tick
<1>11. CASE UNCHANGED vars
  BY <1>11 DEF vars
<1> QED
  BY <1>1, <1>2, <1>3, <1>4, <1>5, <1>6, <1>7, <1>8, <1>9, <1>10, <1>11 DEF Next

(* Ticks stay values of their width and the heartbeat stays punctual in     *)
(* every behaviour, wherever the counter wraps.                             *)
THEOREM TypeCorrect == Spec => []TypeOK
BY TypeInit, TypeStep, PTL DEF Spec

-----------------------------------------------------------------------------
(* The difference of two 32-bit ticks against the true silence.             *)

(* The difference is never more than the true silence ... *)
ClockInv == Running => Elapsed <= silence

(* ... and, within one turn of the counter, equal to it. *)
ExactInv == Running => Elapsed = silence

(* A tick moves the difference up by one, or from the last value to 0. *)
LEMMA ElapsedTick ==
    ASSUME TypeOK, Tick
    PROVE  /\ Elapsed \in 0..(TickMod - 1) /\ silence' = silence + 1
           /\ Elapsed' = Elapsed + 1 \/ (Elapsed = TickMod - 1 /\ Elapsed' = 0)
BY TimeAssumption DEF TypeOK, Ticks, Tick, Elapsed

(* A step that starts the clock or moves it starts from nothing; any other  *)
(* step but a tick leaves it alone.                                         *)
LEMMA ClockMoves ==
    ASSUME TypeOK, [Next]_vars, ~Tick, Running'
    PROVE  \/ Elapsed' = 0 /\ silence' = 0
           \/ Running /\ Elapsed' = Elapsed /\ silence' = silence
<1> USE TimeAssumption DEF TypeOK, Ticks, Running, Elapsed
<1>1. CASE MarkConnected
  BY <1>1 DEF MarkConnected
<1>2. CASE BaselineClock
  BY <1>2 DEF BaselineClock
<1>3. CASE addRecvBytes
  BY <1>3 DEF addRecvBytes
<1>4. CASE markClosed
  BY <1>4 DEF markClosed
<1>5. CASE close
  BY <1>5 DEF close
<1>6. CASE Reconnect
  BY <1>6 DEF Reconnect
<1>7. CASE HeartbeatSkip
  BY <1>7 DEF HeartbeatSkip
<1>8. CASE HeartbeatSend
  BY <1>8 DEF HeartbeatSend
<1>9. CASE evaluateStall
  BY <1>9 DEF evaluateStall
<1>10. CASE UNCHANGED vars
  BY <1>10 DEF vars
<1> QED
  BY <1>1, <1>2, <1>3, <1>4, <1>5, <1>6, <1>7, <1>8, <1>9, <1>10 DEF Next

LEMMA ClockStep == TypeOK /\ ClockInv /\ [Next]_vars => ClockInv'
<1> SUFFICES ASSUME TypeOK, ClockInv, [Next]_vars, Running' PROVE Elapsed' <= silence'
  BY DEF ClockInv
<1>1. CASE Tick
  <2>1. Running /\ silence \in Nat
    BY <1>1, TimeAssumption DEF Tick, Running, TypeOK
  <2> QED
    BY <1>1, <2>1, ElapsedTick, TimeAssumption DEF ClockInv
<1>2. CASE ~Tick
  BY <1>2, ClockMoves DEF ClockInv
<1> QED
  BY <1>1, <1>2

LEMMA ExactStep ==
    ASSUME WithinOneTurn
    PROVE  TypeOK /\ ExactInv /\ [Next]_vars => ExactInv'
<1> SUFFICES ASSUME TypeOK, ExactInv, [Next]_vars, Running' PROVE Elapsed' = silence'
  BY DEF ExactInv
<1>1. CASE Tick
  <2>1. Running /\ silence < MaxSilence /\ silence \in Nat
    BY <1>1, TimeAssumption DEF Tick, Running, TypeOK
  <2>2. Elapsed # TickMod - 1
    BY <2>1, TimeAssumption DEF ExactInv, WithinOneTurn
  <2> QED
    BY <1>1, <2>1, <2>2, ElapsedTick DEF ExactInv
<1>2. CASE ~Tick
  BY <1>2, ClockMoves DEF ExactInv
<1> QED
  BY <1>1, <1>2

LEMMA ClockAlways == Spec => [](TypeOK /\ ClockInv)
<1>1. Init => ClockInv
  BY DEF Init, ClockInv, Running
<1> QED
  BY <1>1, ClockStep, TypeCorrect, PTL DEF Spec

LEMMA ExactAlways == ASSUME WithinOneTurn PROVE Spec => [](TypeOK /\ ExactInv)
<1>1. Init => ExactInv
  BY DEF Init, ExactInv, Running
<1>2. TypeOK /\ ExactInv /\ [Next]_vars => ExactInv'
  BY ExactStep
<1> QED
  BY <1>1, <1>2, TypeCorrect, PTL DEF Spec

-----------------------------------------------------------------------------
(* No false alarm.                                                          *)

(* Of all steps only the heartbeat's verdict marks a running link. *)
LEMMA OnlyVerdictStalls ==
    ASSUME TypeOK, [Next]_vars, Running, ~stalled, stalled'
    PROVE  fgwLinkStalled(now, last_rx_tick, Timeout)
BY DEF TypeOK, Next, vars, Running, MarkConnected, BaselineClock, addRecvBytes, markClosed, close,
       Reconnect, HeartbeatSkip, HeartbeatSend, evaluateStall, Tick

(* evaluateStall marks a link that is up, and past both steps of            *)
(* markConnected, only when it has really been silent for longer than       *)
(* link_timeout: however reception, reconnects and the heartbeat            *)
(* interleave, wherever the counter wraps and however long the silence.     *)
THEOREM StallOnlyIfSilentAlways == Spec => StallOnlyIfSilent
<1>1. TypeOK /\ ClockInv /\ [Next]_vars =>
          [(reactor = "done" /\ connected /\ ~stalled /\ stalled') => silence > Timeout]_vars
  <2> SUFFICES ASSUME TypeOK, ClockInv, [Next]_vars, Running, ~stalled, stalled'
               PROVE  silence > Timeout
    BY DEF Running
  <2>1. Elapsed > Timeout
    BY OnlyVerdictStalls DEF fgwLinkStalled, Elapsed
  <2>2. Elapsed <= silence /\ Elapsed \in Int /\ silence \in Int
    BY TimeAssumption DEF ClockInv, TypeOK, Ticks, Elapsed
  <2> QED
    BY <2>1, <2>2, TimeAssumption
<1> QED
  BY <1>1, ClockAlways, PTL DEF Spec, StallOnlyIfSilent

-----------------------------------------------------------------------------
(* No missed one.                                                           *)

(* DetectedInTime made inductive: what the last heartbeat, `since' ticks    *)
(* ago, must have seen it has acted upon.                                   *)
SeenInv == Running /\ silence - since > Timeout => stalled

LEMMA SeenStep ==
    ASSUME WithinOneTurn
    PROVE  TypeOK /\ ExactInv /\ SeenInv /\ [Next]_vars => SeenInv'
<1> SUFFICES ASSUME TypeOK, ExactInv, SeenInv, [Next]_vars,
                    Running', silence' - since' > Timeout
             PROVE  stalled'
  BY DEF SeenInv
<1> USE TimeAssumption DEF TypeOK, SeenInv, Running
<1>1. CASE MarkConnected
  BY <1>1 DEF MarkConnected
<1>2. CASE BaselineClock
  BY <1>2 DEF BaselineClock
<1>3. CASE addRecvBytes
  BY <1>3 DEF addRecvBytes
<1>4. CASE markClosed
  BY <1>4 DEF markClosed
<1>5. CASE close
  BY <1>5 DEF close
<1>6. CASE Reconnect
  BY <1>6 DEF Reconnect
<1>7. CASE HeartbeatSkip
  BY <1>7 DEF HeartbeatSkip
<1>8. CASE HeartbeatSend
  BY <1>8 DEF HeartbeatSend
<1>9. CASE evaluateStall
  <2>1. Running /\ silence > Timeout
    BY <1>9 DEF evaluateStall
  <2>2. Elapsed > Timeout
    BY <2>1 DEF ExactInv
  <2> QED
    BY <1>9, <2>2 DEF evaluateStall, fgwLinkStalled, Elapsed
<1>10. CASE Tick
  BY <1>10 DEF Tick
<1>11. CASE UNCHANGED vars
  BY <1>11 DEF vars
<1> QED
  BY <1>1, <1>2, <1>3, <1>4, <1>5, <1>6, <1>7, <1>8, <1>9, <1>10, <1>11 DEF Next

(* A link that is up but blackholed is out of live selection at the latest  *)
(* one heartbeat after link_timeout (evaluateStall, onHeartbeatTick), for   *)
(* every timeout and interval and wherever the counter wraps.               *)
THEOREM DetectedInTimeAlways == ASSUME WithinOneTurn PROVE Spec => []DetectedInTime
<1>1. Init => SeenInv
  BY DEF Init, SeenInv, Running
<1>2. TypeOK /\ ExactInv /\ SeenInv /\ [Next]_vars => SeenInv'
  BY SeenStep
<1>3. TypeOK /\ SeenInv => DetectedInTime
  BY TimeAssumption DEF TypeOK, SeenInv, Running, DetectedInTime
<1>4. Spec => [](TypeOK /\ ExactInv)
  BY ExactAlways
<1> QED
  BY <1>1, <1>2, <1>3, <1>4, PTL DEF Spec

(* "excluded from live selection until traffic resumes": a link that is up, *)
(* stalled and silent for longer than link_timeout comes back through       *)
(* traffic only, not through a heartbeat, a probe or the passing of time.   *)
THEOREM StaysStalledAlways == ASSUME WithinOneTurn PROVE Spec => StaysStalled
<1>1. TypeOK /\ ExactInv /\ [Next]_vars =>
        [(reactor = "done" /\ connected /\ connected' /\ stalled /\ ~stalled' /\ silence > Timeout)
            => silence' = 0]_vars
  <2> SUFFICES ASSUME TypeOK, ExactInv, [Next]_vars, Running, connected', stalled, ~stalled',
                      silence > Timeout
               PROVE  silence' = 0
    BY DEF Running
  <2>1. CASE evaluateStall
    <3>1. Elapsed > Timeout
      BY DEF ExactInv
    <3> QED
      BY <2>1, <3>1 DEF evaluateStall, fgwLinkStalled, Elapsed
  <2>2. CASE ~evaluateStall
    BY <2>2 DEF TypeOK, Next, vars, Running, MarkConnected, BaselineClock, addRecvBytes, markClosed,
             close, Reconnect, HeartbeatSkip, HeartbeatSend, Tick
  <2> QED
    BY <2>1, <2>2
<1>2. Spec => [](TypeOK /\ ExactInv)
  BY ExactAlways
<1> QED
  BY <1>1, <1>2, PTL DEF Spec, StaysStalled
=============================================================================
