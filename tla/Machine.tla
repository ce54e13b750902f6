------------------------------ MODULE Machine ------------------------------
(***************************************************************************)
(* The machine that hosts the gateway (src/src/zfgw_vm.cpp, zfgw.cpp): its  *)
(* RPCs bring the services of a role up and down, change the configuration  *)
(* and save it to a file, from which a restarted process starts again.      *)
(*                                                                         *)
(* RPCs run one after the other on the machine's queue.  The process may    *)
(* die at any step, also in the middle of a bring-up and between the        *)
(* truncation of the file and the write.                                    *)
(***************************************************************************)
EXTENDS Naturals, FiniteSets

CONSTANTS
    Configs,   \* configurations an operator may set
    Chans,     \* entries of a channel list: an id and whether the kind is known
    Default,   \* the configuration of a machine that was never given one
    None,      \* no file, no role, nothing to save
    Short,     \* a file that was cut short: zds_unpack refuses it
    Foreign    \* a file of another layout: fgwConfigVersionOk refuses it

(* listen: outport_listen_port is not 0. *)
Config == [role : STRING, listen : BOOLEAN, chans : SUBSET Chans]

ASSUME MachineAssumption == Configs \subseteq Config /\ Default \in Config

VARIABLES
    alive,     \* the process runs
    running,   \* running_
    config,    \* config_
    comps,     \* what exists: inport_, outport_, transit_, manager_ and its listener, stream_
    bringup,   \* what doBringup does next, "none" when it is not under way
    pool,      \* channel ids in the manager's pool
    file,      \* config.zds: absent, cut short, of another layout, or a configuration
    saving,    \* the configuration that zfgw_save_config is writing, or None
    up,        \* history: the configuration that running_ was set for
    accepted,  \* history: the last configuration that mlfSetConfig answered for
    unsaved,   \* history: its file could not be opened for writing
    changed    \* history: mlfSetConfig since the services were brought up

vars == <<alive, running, config, comps, bringup, pool, file, saving, up, accepted, unsaved, changed>>

services == <<running, comps, bringup, pool, up>>
disk == <<file, saving, accepted, unsaved>>

Unreadable == {None, Short, Foreign}

(* What a configuration needs to be served. *)
Parts(c) == CASE c.role = "INPORT"  -> {"manager", "stream", "inport"}
              [] c.role = "OUTPORT" -> {"manager", "stream", "outport"}
                                       \cup (IF c.listen THEN {"listener"} ELSE {})
              [] c.role = "TRANSIT" -> {"transit"}
              [] OTHER              -> {}

(* The ids that addChannel takes of a list: those of a known kind. *)
Pooled(chans) == {ch.id : ch \in {ch \in chans : ch.known}}

Init ==
    /\ alive = FALSE /\ running = FALSE /\ comps = {} /\ bringup = "none" /\ pool = {} /\ up = None
    /\ config = Default /\ saving = None
    /\ file \in {None, Foreign} /\ accepted = None
    /\ unsaved = FALSE /\ changed = FALSE

(* Every service that exists is stopped and dropped, the manager with its   *)
(* pool and its listener.                                                   *)
doTeardown == running' = FALSE /\ comps' = {} /\ pool' = {} /\ up' = None

-----------------------------------------------------------------------------
(* The bring-up, service by service.                                        *)

(* The starts that can fail: those that listen on a port.                   *)
(* ChannelManager::start returns 0 whatever its channels do, and so does    *)
(* OutportService::start.                                                   *)
MayFail == {"transit", "inport", "listener"}

Results(part) == IF part \in MayFail THEN BOOLEAN ELSE {TRUE}

(* doBringup, up to its first service. *)
doBringup(c) == bringup' = IF c.role = "TRANSIT" THEN "transit" ELSE "manager"

Continue(next) == bringup' = next /\ UNCHANGED <<running, up>>
Complete == bringup' = "none" /\ running' = TRUE /\ up' = config
Build(parts) == comps' = comps \cup parts

startTransit ==
    /\ bringup = "transit" /\ Build({"transit"})
    /\ \E ok \in Results("transit") : IF ok THEN Complete ELSE Continue("teardown")
    /\ UNCHANGED <<alive, config, pool, disk, changed>>

(* A failure of the manager is returned without a teardown; a role that is  *)
(* neither Inport nor Outport is noticed when manager and stream exist.     *)
startManager ==
    /\ bringup = "manager" /\ pool' = Pooled(config.chans)
    /\ \E ok \in Results("manager") :
         IF ok
         THEN /\ Build({"manager", "stream"})
              /\ Continue(CASE config.role = "INPORT"  -> "inport"
                            [] config.role = "OUTPORT" -> "outport"
                            [] OTHER                   -> "teardown")
         ELSE Build({"manager"}) /\ Continue("none")
    /\ UNCHANGED <<alive, config, disk, changed>>

startInport ==
    /\ bringup = "inport" /\ Build({"inport"})
    /\ \E ok \in Results("inport") : IF ok THEN Complete ELSE Continue("teardown")
    /\ UNCHANGED <<alive, config, pool, disk, changed>>

startOutport ==
    /\ bringup = "outport" /\ Build({"outport"})
    /\ \E ok \in Results("outport") :
         IF ~ok THEN Continue("teardown")
         ELSE IF config.listen THEN Continue("listener") ELSE Complete
    /\ UNCHANGED <<alive, config, pool, disk, changed>>

(* Fault variant: a port in use ends the bring-up where it is, as a failure *)
(* of the manager does.                                                     *)
startLinkListenerReturns ==
    /\ bringup = "listener"
    /\ \E ok \in Results("listener") :
         IF ok THEN Build({"listener"}) /\ Complete
         ELSE Continue("none") /\ UNCHANGED comps
    /\ UNCHANGED <<alive, config, pool, disk, changed>>

startLinkListener ==
    /\ bringup = "listener"
    /\ \E ok \in Results("listener") :
         IF ok THEN Build({"listener"}) /\ Complete
         ELSE Continue("teardown") /\ UNCHANGED comps
    /\ UNCHANGED <<alive, config, pool, disk, changed>>

(* The teardown after a service that did not start. *)
BringupFails ==
    /\ bringup = "teardown" /\ bringup' = "none" /\ doTeardown
    /\ UNCHANGED <<alive, config, disk, changed>>

-----------------------------------------------------------------------------
(* The process.                                                             *)

(* ZfgwMachine::start in a new process: load, and bring up what was loaded. *)
Boot ==
    /\ ~alive /\ alive' = TRUE
    /\ IF file \in Unreadable
       THEN config' = Default /\ UNCHANGED bringup
       ELSE config' = file /\ doBringup(file)
    /\ changed' = FALSE
    /\ UNCHANGED <<running, comps, pool, up, disk>>

(* The process ends, in whatever it was doing. *)
Crash ==
    /\ alive /\ alive' = FALSE
    /\ running' = FALSE /\ comps' = {} /\ bringup' = "none" /\ pool' = {} /\ up' = None
    /\ config' = Default /\ saving' = None /\ changed' = FALSE
    /\ UNCHANGED <<file, accepted, unsaved>>

-----------------------------------------------------------------------------
(* The RPCs.                                                                *)

Rpc == alive /\ saving = None /\ bringup = "none"

mlfStart(force) ==
    /\ Rpc /\ (running => force)
    /\ IF running THEN doTeardown ELSE UNCHANGED <<running, comps, pool, up>>
    /\ doBringup(config)
    /\ changed' = FALSE
    /\ UNCHANGED <<alive, config, disk>>

mlfStop ==
    /\ Rpc /\ doTeardown
    /\ UNCHANGED <<alive, config, bringup, disk, changed>>

(* Fault variant: the configuration is written before the new one is taken. *)
mlfSetConfigLate(c) ==
    /\ Rpc
    /\ config' = c /\ changed' = TRUE /\ accepted' = c
    /\ \/ file' = Short /\ saving' = config /\ unsaved' = FALSE
       \/ unsaved' = TRUE /\ UNCHANGED <<file, saving>>
    /\ UNCHANGED <<alive, services>>

(* mlfSetConfig takes the new configuration, also under running services,   *)
(* and saves it: the file is emptied, if it can be opened.  A request of    *)
(* another layout is refused and changes nothing.                           *)
mlfSetConfig(c) ==
    /\ Rpc
    /\ config' = c /\ changed' = TRUE /\ accepted' = c
    /\ \/ file' = Short /\ saving' = c /\ unsaved' = FALSE
       \/ unsaved' = TRUE /\ UNCHANGED <<file, saving>>
    /\ UNCHANGED <<alive, services>>

(* The rest of zfgw_save_config: all bytes are written, or some; the RPC    *)
(* answers the same.                                                        *)
SaveWritten ==
    /\ alive /\ saving # None /\ saving' = None
    /\ file' \in {saving, Short}
    /\ UNCHANGED <<alive, config, services, accepted, unsaved, changed>>

(* mlfAddChannel: a new id of a known kind goes into the pool, and if its   *)
(* connect did not fail at once into config_ too.  Nothing is saved.        *)
mlfAddChannel(ch) ==
    /\ Rpc /\ "manager" \in comps /\ ch.known /\ ch.id \notin pool
    /\ pool' = pool \cup {ch.id}
    /\ \/ config' = [config EXCEPT !.chans = @ \cup {ch}]
       \/ UNCHANGED config
    /\ UNCHANGED <<alive, running, comps, bringup, up, disk, changed>>

(* Fault variant: the channel leaves the pool only. *)
mlfRemoveChannelPoolOnly(id) ==
    /\ Rpc /\ "manager" \in comps /\ id \in pool
    /\ pool' = pool \ {id}
    /\ UNCHANGED <<alive, running, config, comps, bringup, up, disk, changed>>

(* mlfRemoveChannel: every entry of the id leaves config_ with the channel. *)
mlfRemoveChannel(id) ==
    /\ Rpc /\ "manager" \in comps /\ id \in pool
    /\ pool' = pool \ {id}
    /\ config' = [config EXCEPT !.chans = {ch \in @ : ch.id # id}]
    /\ UNCHANGED <<alive, running, comps, bringup, up, disk, changed>>

Bringup == startTransit \/ startManager \/ startInport \/ startOutport \/ startLinkListener \/ BringupFails

Next ==
    \/ Boot \/ Crash \/ Bringup \/ mlfStop \/ SaveWritten
    \/ \E force \in BOOLEAN : mlfStart(force)
    \/ \E c \in Configs : mlfSetConfig(c)
    \/ \E ch \in Chans : mlfAddChannel(ch) \/ mlfRemoveChannel(ch.id)

Spec == Init /\ [][Next]_vars

-----------------------------------------------------------------------------
(* Whenever no bring-up is under way, running_ says what is there: every    *)
(* service of the configuration that was brought up, or nothing, with no    *)
(* manager, pool or port left by a bring-up that failed half way or by the  *)
(* role before it (doBringup's error returns, doTeardown).                  *)
AllOrNothing ==
    bringup = "none" =>
        /\ comps = IF running THEN Parts(up) ELSE {}
        /\ "manager" \notin comps => pool = {}

(* What a process would start from is the last configuration accepted or    *)
(* nothing, never an older or a mixed one, whatever crashed or failed in    *)
(* between.  Excepted: that the file could not be opened to save it.        *)
NeverOlder ==
    file \notin Unreadable /\ ~unsaved => file = accepted

(* The links of a known kind that config_ lists are in the pool, until      *)
(* mlfSetConfig changes the one under the other: what AddChannel and        *)
(* RemoveChannel do to the two agrees, failures included.  A link of        *)
(* another kind is refused by addChannel, and start() only logs that.       *)
ConfigServed ==
    "manager" \in comps /\ ~changed => Pooled(config.chans) \subseteq pool
=============================================================================
