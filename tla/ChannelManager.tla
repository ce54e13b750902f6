--------------------------- MODULE ChannelManager ---------------------------
(***************************************************************************)
(* The pool of links (src/src/zfgw_channel_manager.cpp) under the RPCs of   *)
(* src/src/zfgw_vm.cpp: channels are dialed, accepted, added, removed, lost *)
(* and redialed by one-shot timers that nothing cancels.                    *)
(*                                                                         *)
(* RPCs and timers run one after the other on the sync queue, the callbacks *)
(* of sockets on the reactor; each takes lock_, so each is one action.      *)
(* A pending timer keeps the manager alive: a stopped manager is destroyed, *)
(* and stops once more, when its last timer has run.                        *)
(***************************************************************************)
EXTENDS Naturals, FiniteSets

CONSTANTS
    Configured,     \* ids of FgwConfig.channels at start
    UnknownKind,    \* those of them whose kind is neither TCP nor UTP
    Added,          \* further ids that mlfAddChannel may bring
    Removable,      \* ids that mlfRemoveChannel may take away
    SyncFailures,   \* whether start_connect may fail at once
    MaxAccepted,    \* bound: links accepted
    MaxRpcs,        \* bound: mlfAddChannel and mlfRemoveChannel calls
    MayStop         \* whether mlfStop may be called

Dialed   == Configured \cup Added
Accepted == 1..MaxAccepted
Ids      == Dialed \cup Accepted

ASSUME IdsAssumption  == Configured \cap Added = {} /\ Dialed \cap Accepted = {} /\ Removable \subseteq Ids
                         /\ UnknownKind \subseteq Configured
ASSUME BoundAssumption == MaxAccepted \in Nat /\ MaxRpcs \in Nat
ASSUME FlagAssumption == SyncFailures \in BOOLEAN /\ MayStop \in BOOLEAN

VARIABLES
    phase,     \* "idle", "running" or "stopped"
    pool,      \* channels_: "absent", or what became of the channel's connect
    endpoint,  \* endpoint[id]: where the channel of id dials
    timers,    \* timers[id][r]: pending reconnect timers of id towards r
    reaps,     \* reaps[id]: pending deferred removals of an accepted channel
    next_id,   \* accepted_id_seq_
    rpcs,      \* RPCs so far
    asked      \* history: the address the operator has last asked for id at, or "none"

vars == <<phase, pool, endpoint, timers, reaps, next_id, rpcs, asked>>

(* "configured" is the address of the id in the manager's own copy of the   *)
(* configuration, taken at start; "other" one that only an RPC brings;      *)
(* "empty" a default FgwEndpoint.                                           *)
Endpoint == {"configured", "other", "empty"}

(* The addresses an RPC may bring. *)
Given(id) == IF id \in Configured THEN {"configured", "other"} ELSE {"other"}

(* "failed": start_connect returned an error, so no callback will come.     *)
ChannelState == {"absent", "dialing", "failed", "open", "closed"}

(* What connect() leaves behind. *)
Dials == IF SyncFailures THEN {"dialing", "failed"} ELSE {"dialing"}

(* ... and addChannel(cfg), which refuses a kind it does not know           *)
(* (INVALIDCONFIG) before it inserts anything.                              *)
Inserted(known) == IF known THEN Dials ELSE {"absent"}

(* Where a redial goes, and with which kind: what the configuration has for *)
(* the id, TCP and nowhere if it has nothing.                               *)
Redialed  == {"configured", "empty"}
Known(id) == id \notin UnknownKind

Pending(id) == timers[id]["configured"] + timers[id]["empty"]

Wanted == {id \in Dialed : asked[id] # "none"}

Init ==
    /\ phase = "idle"
    /\ pool = [id \in Ids |-> "absent"]
    /\ endpoint = [id \in Ids |-> "empty"]
    /\ timers = [id \in Ids |-> [r \in Redialed |-> 0]]
    /\ reaps = [id \in Ids |-> 0]
    /\ next_id = 1
    /\ rpcs = 0
    /\ asked = [id \in Dialed |-> "none"]

(* start: every configured channel is added; one that cannot be, or whose   *)
(* connect fails, is logged.                                                *)
start ==
    /\ phase = "idle"
    /\ phase' = "running"
    /\ \E d \in [Configured -> Inserted(TRUE) \cup Inserted(FALSE)] :
          /\ \A id \in Configured : d[id] \in Inserted(Known(id))
          /\ pool' = [id \in Ids |-> IF id \in Configured THEN d[id] ELSE pool[id]]
    /\ endpoint' = [id \in Ids |-> IF id \in Configured THEN "configured" ELSE endpoint[id]]
    /\ asked' = [id \in Dialed |-> IF id \in Configured THEN "configured" ELSE "none"]
    /\ UNCHANGED <<timers, reaps, next_id, rpcs>>

(* stop: closing a channel fires no callback; timers stay.                  *)
stop ==
    /\ MayStop
    /\ phase = "running"
    /\ phase' = "stopped"
    /\ pool' = [id \in Ids |-> "absent"]
    /\ asked' = [id \in Dialed |-> "none"]
    /\ UNCHANGED <<endpoint, timers, reaps, next_id, rpcs>>

(* mlfAddChannel, for an id that is not in the pool (CHANNELEXISTS), at the *)
(* address r and with a kind that is known or not.                          *)
addChannel(id, r, known) ==
    /\ phase = "running"
    /\ rpcs < MaxRpcs
    /\ pool[id] = "absent"
    /\ rpcs' = rpcs + 1
    /\ \E d \in Inserted(known) :
          /\ pool' = [pool EXCEPT ![id] = d]
          /\ asked' = IF d = "dialing" THEN [asked EXCEPT ![id] = r] ELSE asked
    /\ endpoint' = IF known THEN [endpoint EXCEPT ![id] = r] ELSE endpoint
    /\ UNCHANGED <<phase, timers, reaps, next_id>>

(* mlfRemoveChannel, for an id that is in the pool (CHANNELNOTFOUND). *)
removeChannel(id) ==
    /\ phase = "running"
    /\ rpcs < MaxRpcs
    /\ pool[id] # "absent"
    /\ rpcs' = rpcs + 1
    /\ pool' = [pool EXCEPT ![id] = "absent"]
    /\ asked' = [i \in Dialed |-> IF i = id THEN "none" ELSE asked[i]]
    /\ UNCHANGED <<phase, endpoint, timers, reaps, next_id>>

(* Fault variant: an accepted channel takes the lowest id that is free. *)
makeAcceptedChannelReusing ==
    /\ phase = "running"
    /\ \E id \in Accepted :
          /\ pool[id] = "absent"
          /\ \A j \in Accepted : pool[j] = "absent" => id <= j
          /\ pool' = [pool EXCEPT ![id] = "open"]
    /\ UNCHANGED <<phase, endpoint, timers, reaps, next_id, rpcs, asked>>

(* The acceptor's factory, and on_open of the accepted socket. *)
makeAcceptedChannel ==
    /\ phase = "running"
    /\ next_id \in Accepted
    /\ pool' = [pool EXCEPT ![next_id] = "open"]
    /\ next_id' = next_id + 1
    /\ UNCHANGED <<phase, endpoint, timers, reaps, rpcs, asked>>

(* on_open; an empty endpoint leads nowhere. *)
onChannelConnected(id) ==
    /\ pool[id] = "dialing"
    /\ endpoint[id] # "empty"
    /\ pool' = [pool EXCEPT ![id] = "open"]
    /\ UNCHANGED <<phase, endpoint, timers, reaps, next_id, rpcs, asked>>

(* Fault variant: the address of the lost link is not looked up. *)
scheduleReconnectBlind(id) == timers' = [timers EXCEPT ![id]["empty"] = @ + 1]

(* scheduleReconnect, towards the address that the manager's own copy of    *)
(* the configuration has for the id, if it has one; the address the lost    *)
(* channel was dialed at does not matter.                                   *)
scheduleReconnect(id) ==
    LET r == IF id \in Configured THEN "configured" ELSE "empty"
    IN  timers' = [timers EXCEPT ![id][r] = @ + 1]

(* Fault variant: a link that the configuration does not name is not redialed. *)
onChannelClosedUnlisted(id) ==
    /\ pool[id] \in {"dialing", "open"}
    /\ pool' = [pool EXCEPT ![id] = "closed"]
    /\ IF id \in Accepted
       THEN reaps' = [reaps EXCEPT ![id] = @ + 1] /\ UNCHANGED timers
       ELSE IF id \in Configured THEN scheduleReconnect(id) /\ UNCHANGED reaps
                                 ELSE UNCHANGED <<timers, reaps>>
    /\ UNCHANGED <<phase, endpoint, next_id, rpcs, asked>>

(* on_close of an open link or of one whose connect did not succeed: an     *)
(* accepted channel is removed on the next turn, a dialed one redialed.     *)
onChannelClosed(id) ==
    /\ pool[id] \in {"dialing", "open"}
    /\ pool' = [pool EXCEPT ![id] = "closed"]
    /\ IF id \in Accepted
       THEN reaps' = [reaps EXCEPT ![id] = @ + 1] /\ UNCHANGED timers
       ELSE scheduleReconnect(id) /\ UNCHANGED reaps
    /\ UNCHANGED <<phase, endpoint, next_id, rpcs, asked>>

(* The closure of a timer is released; it may have been the last reference  *)
(* to a stopped manager, whose destructor calls stop().                     *)
Released(p) ==
    IF /\ phase = "stopped"
       /\ \A id \in Ids : reaps'[id] = 0 /\ \A r \in Redialed : timers'[id][r] = 0
    THEN [id \in Ids |-> "absent"]
    ELSE p

(* Fault variant: the timer removes the lost channel and adds nothing. *)
ReconnectTimerDrops(id, r) ==
    /\ timers[id][r] > 0
    /\ timers' = [timers EXCEPT ![id][r] = @ - 1]
    /\ UNCHANGED reaps
    /\ pool' = Released([pool EXCEPT ![id] = "absent"])
    /\ UNCHANGED <<phase, endpoint, next_id, rpcs, asked>>

(* The reconnect timer: removeChannel(id), then addChannel(cfg), which may  *)
(* refuse the kind.                                                         *)
ReconnectTimer(id, r) ==
    /\ timers[id][r] > 0
    /\ timers' = [timers EXCEPT ![id][r] = @ - 1]
    /\ UNCHANGED reaps
    /\ \E d \in Inserted(Known(id)) : pool' = Released([pool EXCEPT ![id] = d])
    /\ endpoint' = [endpoint EXCEPT ![id] = r]
    /\ UNCHANGED <<phase, next_id, rpcs, asked>>

(* Fault variant: the removal is a repeating timer. *)
ReapTimerRepeats(id) ==
    /\ next_id > id
    /\ reaps' = [reaps EXCEPT ![id] = @ - 1]
    /\ UNCHANGED timers
    /\ pool' = Released([pool EXCEPT ![id] = "absent"])
    /\ UNCHANGED <<phase, endpoint, next_id, rpcs, asked>>

(* The deferred removal of an accepted channel. *)
ReapTimer(id) ==
    /\ reaps[id] > 0
    /\ reaps' = [reaps EXCEPT ![id] = @ - 1]
    /\ UNCHANGED timers
    /\ pool' = Released([pool EXCEPT ![id] = "absent"])
    /\ UNCHANGED <<phase, endpoint, next_id, rpcs, asked>>

Next ==
    \/ start
    \/ stop
    \/ \E id \in Dialed, known \in BOOLEAN : \E r \in Given(id) : addChannel(id, r, known)
    \/ \E id \in Removable : removeChannel(id)
    \/ makeAcceptedChannel
    \/ \E id \in Dialed : onChannelConnected(id)
    \/ \E id \in Ids : onChannelClosed(id)
    \/ \E id \in Dialed, r \in Redialed : ReconnectTimer(id, r)
    \/ \E id \in Accepted : ReapTimer(id)

Spec == Init /\ [][Next]_vars

(* Timers fire, and a peer that can be reached again and again at its       *)
(* configured address is reached.                                           *)
Fairness ==
    /\ WF_vars(start)
    /\ \A id \in Dialed : SF_vars(endpoint[id] = "configured" /\ onChannelConnected(id))
    /\ \A id \in Dialed, r \in Redialed : WF_vars(ReconnectTimer(id, r))

FairSpec == Spec /\ Fairness

-----------------------------------------------------------------------------
(* Every variable keeps its type. *)
TypeOK ==
    /\ phase \in {"idle", "running", "stopped"}
    /\ pool \in [Ids -> ChannelState]
    /\ endpoint \in [Ids -> Endpoint]
    /\ timers \in [Ids -> [Redialed -> Nat]]
    /\ reaps \in [Ids -> Nat]
    /\ next_id \in Nat
    /\ rpcs \in Nat
    /\ asked \in [Dialed -> {"configured", "other", "none"}]

(* A channel that was lost never waits for nothing: whatever RPCs, timers   *)
(* and callbacks came before, a closed channel has a pending timer that     *)
(* will replace or remove it.                                               *)
ClosedIsHandled ==
    \A id \in Ids : pool[id] = "closed" => Pending(id) + reaps[id] > 0

(* The deferred removal of an accepted channel (onChannelClosed) never hits *)
(* a working one, although it names the channel by its id only and the RPC  *)
(* may have removed that channel in the meantime.                           *)
ReapsOnlyDead ==
    \A id \in Accepted : reaps[id] > 0 => pool[id] \in {"closed", "absent"}

(* Links that a redial finds in the configuration, and can insert. *)
Redialable == Configured \ UnknownKind

(* Self-healing: a link asked for at its configured address is up again and *)
(* again, as long as it is not removed, nor added at another address, and   *)
(* the service is not stopped; only a connect that fails at once, which     *)
(* nothing retries, ends this.                                              *)
SelfHealing ==
    \A id \in Redialable :
        (asked[id] = "configured") ~> (pool[id] \in {"open", "failed"} \/ asked[id] # "configured")

(* No RPC, loss or old timer leaves a configured link of a known kind       *)
(* stranded, or attached to an address that was given up: as long as it is  *)
(* wanted, it is up or dialed at the address it was last asked for at or at *)
(* its configured one, or waits for a timer that will dial the latter (or   *)
(* its connect failed at once).                                             *)
WantedIsServed ==
    \A id \in Wanted \cap Redialable :
        \/ pool[id] = "failed"
        \/ pool[id] \in {"dialing", "open"} /\ endpoint[id] \in {asked[id], "configured"}
        \/ timers[id]["configured"] > 0

(* A wanted link is up or dialed at the address it was last asked for at.   *)
ServedAsAsked ==
    \A id \in Wanted \cap Redialable :
        pool[id] \in {"dialing", "open"} => endpoint[id] = asked[id]

(* A link removed by mlfRemoveChannel stays away.  (Without synchronous     *)
(* failures, whose channels stay in the pool although the RPC reported one.) *)
RemovedStaysAway ==
    phase = "running" => \A id \in Dialed \ Wanted : pool[id] = "absent"

=============================================================================
