---------------------------- MODULE LinkLiveness ----------------------------
(***************************************************************************)
(* Stall detection on one link (IFgwChannel in src/src/zfgw_channel.h and   *)
(* the heartbeat of src/src/zfgw_channel_manager.cpp).                      *)
(*                                                                         *)
(* Two threads share a channel: the reactor runs the socket callbacks       *)
(* (on_open, on_read_data, on_close) and the manager's sync queue runs the  *)
(* heartbeat timer.  last_rx_tick and stalled_ are guarded by quality_lock_ *)
(* but connected_ is not, so on_open and the heartbeat are split at the     *)
(* points where the other thread can see them half done.                    *)
(*                                                                         *)
(* Time is zce_tick() cast to 32 bits: it wraps at TickMod.                 *)
(***************************************************************************)
EXTENDS Integers

CONSTANTS
    TickMod,    \* zce_tick() wraps at this value (2^32 ms)
    Timeout,    \* link_timeout, in ticks
    Interval,   \* heartbeat_interval, in ticks
    MaxSilence  \* bound: the longest time without traffic that is explored

ASSUME TimeAssumption == /\ TickMod \in Nat \ {0}
                         /\ Timeout \in Nat /\ Timeout < TickMod
                         /\ Interval \in Nat \ {0}
                         /\ MaxSilence \in Nat

VARIABLES
    now,           \* zce_tick()
    reactor,       \* where on_open stands: "dialing", "opening" or "done"
    connected,     \* connected_
    last_rx_tick,  \* quality_.last_rx_tick
    stalled,       \* stalled_
    heartbeat,     \* where onHeartbeatTick stands: "idle" or "checked"
    since,         \* ticks since the heartbeat timer last fired
    silence        \* history: ticks since the link opened or last brought bytes

vars == <<now, reactor, connected, last_rx_tick, stalled, heartbeat, since, silence>>

Ticks == 0..(TickMod - 1)

(* Fault variant: a signed difference, negative after the clock has wrapped. *)
fgwLinkStalledSigned(n, last, timeout) == n - last > timeout

(* now_tick - last_rx_tick, unsigned, against the timeout *)
fgwLinkStalled(n, last, timeout) ==
    (IF n >= last THEN n - last ELSE n - last + TickMod) > timeout

(* A channel object that has just been created; the clock may show anything. *)
Init ==
    /\ reactor = "dialing"
    /\ connected = FALSE
    /\ last_rx_tick = 0
    /\ stalled = FALSE
    /\ now \in Ticks
    /\ heartbeat = "idle"
    /\ since = 0
    /\ silence = 0

(* on_open, markConnected(true): the flag is set first ...                  *)
MarkConnected ==
    /\ reactor = "dialing"
    /\ reactor' = "opening"
    /\ connected' = TRUE
    /\ silence' = 0
    /\ UNCHANGED <<now, last_rx_tick, stalled, heartbeat, since>>

(* ... and the receive clock is started under quality_lock_ afterwards.     *)
BaselineClock ==
    /\ reactor = "opening"
    /\ reactor' = "done"
    /\ last_rx_tick' = now
    /\ silence' = 0
    /\ UNCHANGED <<now, connected, stalled, heartbeat, since>>

(* Fault variant: bytes clear the stall but do not move the receive clock. *)
addRecvBytesNoClock ==
    /\ reactor = "done" /\ connected
    /\ stalled' = FALSE
    /\ silence' = 0
    /\ UNCHANGED <<now, reactor, connected, last_rx_tick, heartbeat, since>>

(* on_read_data *)
addRecvBytes ==
    /\ reactor = "done" /\ connected
    /\ last_rx_tick' = now
    /\ stalled' = FALSE
    /\ silence' = 0
    /\ UNCHANGED <<now, reactor, connected, heartbeat, since>>

(* The socket closes: markClosed, on the reactor.                           *)
markClosed ==
    /\ reactor = "done" /\ connected
    /\ connected' = FALSE
    /\ UNCHANGED <<now, reactor, last_rx_tick, stalled, heartbeat, since, silence>>

(* close() from stop() or removeChannel, on the sync queue like the         *)
(* heartbeat, at any point of on_open.  It clears the handler's owner, so   *)
(* an on_open that has not begun does nothing; one that has begun goes on.  *)
close ==
    /\ heartbeat = "idle"
    /\ reactor # "done" \/ connected
    /\ reactor' = IF reactor = "dialing" THEN "done" ELSE reactor
    /\ connected' = FALSE
    /\ UNCHANGED <<now, last_rx_tick, stalled, heartbeat, since, silence>>

(* The reconnect timer, on the sync queue too, puts a new channel object in *)
(* the place of the closed one.                                             *)
Reconnect ==
    /\ heartbeat = "idle"
    /\ reactor = "done" /\ ~connected
    /\ reactor' = "dialing"
    /\ last_rx_tick' = 0
    /\ stalled' = FALSE
    /\ silence' = 0
    /\ UNCHANGED <<now, connected, heartbeat, since>>

(* onHeartbeatTick: a channel that is not connected is skipped ...          *)
HeartbeatSkip ==
    /\ heartbeat = "idle"
    /\ ~connected
    /\ since' = 0
    /\ UNCHANGED <<now, reactor, connected, last_rx_tick, stalled, heartbeat, silence>>

(* Fault variant: a stalled link is given another chance when probed. *)
HeartbeatSendForgives ==
    /\ heartbeat = "idle"
    /\ connected
    /\ heartbeat' = "checked"
    /\ stalled' = FALSE
    /\ UNCHANGED <<now, reactor, connected, last_rx_tick, since, silence>>

(* ... to a connected one a heartbeat is sent ...                           *)
HeartbeatSend ==
    /\ heartbeat = "idle"
    /\ connected
    /\ heartbeat' = "checked"
    /\ UNCHANGED <<now, reactor, connected, last_rx_tick, stalled, since, silence>>

(* ... and evaluateStall samples the clock and decides under quality_lock_. *)
evaluateStall ==
    /\ heartbeat = "checked"
    /\ heartbeat' = "idle"
    /\ stalled' = fgwLinkStalled(now, last_rx_tick, Timeout)
    /\ since' = 0
    /\ UNCHANGED <<now, reactor, connected, last_rx_tick, silence>>

(* Fault variant: the tick is not cut to 32 bits. *)
TickNoWrap ==
    /\ since < Interval
    /\ silence < MaxSilence
    /\ now' = now + 1
    /\ since' = since + 1
    /\ silence' = silence + 1
    /\ UNCHANGED <<reactor, connected, last_rx_tick, stalled, heartbeat>>

(* Time passes.  A heartbeat runs at least once per Interval: the repeating *)
(* timer is punctual, its phase and its jitter to the early side are open.  *)
Tick ==
    /\ since < Interval
    /\ silence < MaxSilence
    /\ now' = IF now = TickMod - 1 THEN 0 ELSE now + 1
    /\ since' = since + 1
    /\ silence' = silence + 1
    /\ UNCHANGED <<reactor, connected, last_rx_tick, stalled, heartbeat>>

Next ==
    \/ MarkConnected \/ BaselineClock \/ addRecvBytes \/ markClosed \/ close \/ Reconnect
    \/ HeartbeatSkip \/ HeartbeatSend \/ evaluateStall
    \/ Tick

Spec == Init /\ [][Next]_vars

-----------------------------------------------------------------------------
(* Every variable keeps its type: ticks stay 32-bit values. *)
TypeOK ==
    /\ now \in Ticks
    /\ reactor \in {"dialing", "opening", "done"}
    /\ connected \in BOOLEAN
    /\ last_rx_tick \in Ticks
    /\ stalled \in BOOLEAN
    /\ heartbeat \in {"idle", "checked"}
    /\ since \in 0..Interval
    /\ silence \in 0..MaxSilence

(* "the heartbeat timer cannot overwrite this recovery" (addRecvBytes): a   *)
(* link whose receive clock runs is marked stalled only when it has really  *)
(* been silent for longer than link_timeout, however reception, reconnects  *)
(* and the heartbeat interleave and wherever the clock wraps.               *)
StallOnlyIfSilent ==
    [][(reactor = "done" /\ connected /\ ~stalled /\ stalled') => silence > Timeout]_vars

(* A link that is open but blackholed leaves live selection at the latest   *)
(* one heartbeat after link_timeout ("a link that comes up but is           *)
(* blackholed still stalls after one link_timeout"): the sender never keeps *)
(* relying on it for longer.                                                *)
DetectedInTime ==
    (reactor = "done" /\ connected /\ silence > Timeout + Interval) => stalled

(* "excluded from live selection until traffic resumes": an open link that  *)
(* stalled for silence comes back through traffic only.                     *)
StaysStalled ==
    [][(reactor = "done" /\ connected /\ connected' /\ stalled /\ ~stalled' /\ silence > Timeout)
          => silence' = 0]_vars

=============================================================================
