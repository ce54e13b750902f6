--------------------------- MODULE MachineProofs ---------------------------
(***************************************************************************)
(* Proofs about Machine, for any configurations, channels and sequence of   *)
(* RPCs, failures and crashes.                                              *)
(***************************************************************************)
EXTENDS Machine, TLAPS

(* What exists at each step of a bring-up, and that running_ is not set     *)
(* before it ends.                                                          *)
Built ==
    /\ bringup \in {"none", "transit", "manager", "inport", "outport", "listener", "teardown"}
    /\ bringup # "none" => alive /\ ~running
    /\ ~alive => ~running
    /\ bringup = "transit" => comps = {} /\ config.role = "TRANSIT"
    /\ bringup = "manager" => comps = {} /\ config.role # "TRANSIT"
    /\ bringup = "inport" => comps = {"manager", "stream"} /\ config.role = "INPORT"
    /\ bringup = "outport" => comps = {"manager", "stream"} /\ config.role = "OUTPORT"
    /\ bringup = "listener" => /\ comps = {"manager", "stream", "outport"}
                               /\ config.role = "OUTPORT" /\ config.listen

NoPool == "manager" \notin comps => pool = {}

ServicesInv == Built /\ NoPool /\ AllOrNothing

(* A bring-up starts on a machine that is down, and with the service that   *)
(* its role comes first to.                                                 *)
LEMMA BringupBegins ==
    ASSUME NEW c, config' = c, doBringup(c), alive', ~running', comps' = {}, pool' = {}
    PROVE  ServicesInv'
  BY DEF doBringup, ServicesInv, Built, NoPool, AllOrNothing

(* Each step of a bring-up builds on what the steps before it left, and     *)
(* ends with everything or leads to the teardown.                           *)
LEMMA BringupStep == ServicesInv /\ Bringup => ServicesInv'
<1> SUFFICES ASSUME ServicesInv, Bringup PROVE ServicesInv'
  OBVIOUS
<1> USE DEF ServicesInv, Built, NoPool, AllOrNothing, Build, Continue
<1>1. CASE startTransit
  BY <1>1 DEF startTransit, Complete, Parts
<1>2. CASE startManager
  BY <1>2 DEF startManager, Results, MayFail
<1>3. CASE startInport
  BY <1>3 DEF startInport, Complete, Parts
<1>4. CASE startOutport
  BY <1>4 DEF startOutport, Complete, Parts
<1>5. CASE startLinkListener
  BY <1>5 DEF startLinkListener, Complete, Parts
<1>6. CASE BringupFails
  BY <1>6 DEF BringupFails, doTeardown
<1> QED BY <1>1, <1>2, <1>3, <1>4, <1>5, <1>6 DEF Bringup

-----------------------------------------------------------------------------
(* What holds of the services at every step of a bring-up and after it.     *)
LEMMA ServicesAlways == Spec => []ServicesInv
<1>1. Init => ServicesInv
  BY DEF Init, ServicesInv, Built, NoPool, AllOrNothing
<1>2. ServicesInv /\ [Next]_vars => ServicesInv'
  <2> SUFFICES ASSUME ServicesInv, [Next]_vars PROVE ServicesInv'
    OBVIOUS
  <2>1. CASE Boot
    <3>1. bringup = "none" /\ ~running /\ comps = {} /\ pool = {}
      BY <2>1 DEF Boot, ServicesInv, Built, NoPool, AllOrNothing
    <3>2. CASE file \in Unreadable
      BY <2>1, <3>1, <3>2 DEF Boot, ServicesInv, Built, NoPool, AllOrNothing
    <3>3. CASE file \notin Unreadable
      BY <2>1, <3>1, <3>3, BringupBegins DEF Boot
    <3> QED BY <3>2, <3>3
  <2>2. CASE Crash
    BY <2>2 DEF Crash, ServicesInv, Built, NoPool, AllOrNothing
  <2>3. CASE mlfStop
    BY <2>3 DEF mlfStop, Rpc, doTeardown, ServicesInv, Built, NoPool, AllOrNothing
  <2>4. CASE SaveWritten
    BY <2>4 DEF SaveWritten, services, ServicesInv, Built, NoPool, AllOrNothing
  <2>5. CASE Bringup
    BY <2>5, BringupStep
  <2>6. ASSUME NEW force \in BOOLEAN, mlfStart(force) PROVE ServicesInv'
    <3>1. ~running' /\ comps' = {} /\ pool' = {} /\ alive' /\ config' = config
      BY <2>6 DEF mlfStart, Rpc, doTeardown, ServicesInv, NoPool, AllOrNothing
    <3> QED BY <2>6, <3>1, BringupBegins DEF mlfStart
  <2>7. ASSUME NEW c \in Configs, mlfSetConfig(c) PROVE ServicesInv'
    BY <2>7 DEF mlfSetConfig, Rpc, services, ServicesInv, Built, NoPool, AllOrNothing
  <2>8. ASSUME NEW ch \in Chans, mlfAddChannel(ch) PROVE ServicesInv'
    BY <2>8 DEF mlfAddChannel, Rpc, ServicesInv, Built, NoPool, AllOrNothing
  <2>9. ASSUME NEW ch \in Chans, mlfRemoveChannel(ch.id) PROVE ServicesInv'
    BY <2>9 DEF mlfRemoveChannel, Rpc, ServicesInv, Built, NoPool, AllOrNothing
  <2>10. CASE UNCHANGED vars
    BY <2>10 DEF vars, ServicesInv, Built, NoPool, AllOrNothing
  <2> QED BY <2>1, <2>2, <2>3, <2>4, <2>5, <2>6, <2>7, <2>8, <2>9, <2>10 DEF Next
<1> QED BY <1>1, <1>2, PTL DEF Spec

(* Whenever no bring-up is under way the services of a configuration are    *)
(* all there or none is.  Built says what the steps of a bring-up rely on;  *)
(* a failure of the manager's start returns without a teardown, and the     *)
(* theorem holds because that start does not fail (MayFail).                *)
THEOREM AllOrNothingAlways == Spec => []AllOrNothing
<1>1. ServicesInv => AllOrNothing
  BY DEF ServicesInv
<1> QED BY <1>1, ServicesAlways, PTL
-----------------------------------------------------------------------------
(* While a file is being written it is a cut one, and what is being written *)
(* is the last configuration accepted.                                      *)
SavingInv == saving # None => file = Short /\ saving = accepted

FileInv == SavingInv /\ NeverOlder

(* No step of a bring-up touches the file. *)
LEMMA BringupKeepsDisk == Bringup => UNCHANGED disk
BY DEF Bringup, startTransit, startManager, startInport, startOutport, startLinkListener, BringupFails

(* A process never starts from an older configuration than the last one     *)
(* accepted, wherever it crashed, unless the file could not be opened.      *)
(* NeverOlder needs SavingInv: the second half of a save writes what the    *)
(* first half had in hand.                                                  *)
THEOREM NeverOlderAlways == Spec => []NeverOlder
<1>1. Init => FileInv
  BY DEF Init, FileInv, SavingInv, NeverOlder, Unreadable
<1>2. FileInv /\ [Next]_vars => FileInv'
  <2> SUFFICES ASSUME FileInv, [Next]_vars PROVE FileInv'
    OBVIOUS
  <2> USE DEF FileInv, SavingInv, NeverOlder, Unreadable, disk
  <2>1. CASE Boot
    BY <2>1 DEF Boot
  <2>2. CASE Crash
    BY <2>2 DEF Crash
  <2>3. CASE mlfStop
    BY <2>3 DEF mlfStop
  <2>4. CASE SaveWritten
    BY <2>4 DEF SaveWritten
  <2>5. CASE Bringup
    BY <2>5, BringupKeepsDisk
  <2>6. ASSUME NEW force \in BOOLEAN, mlfStart(force) PROVE FileInv'
    BY <2>6 DEF mlfStart
  <2>7. ASSUME NEW c \in Configs, mlfSetConfig(c) PROVE FileInv'
    BY <2>7 DEF mlfSetConfig, Rpc
  <2>8. ASSUME NEW ch \in Chans, mlfAddChannel(ch) PROVE FileInv'
    BY <2>8 DEF mlfAddChannel
  <2>9. ASSUME NEW ch \in Chans, mlfRemoveChannel(ch.id) PROVE FileInv'
    BY <2>9 DEF mlfRemoveChannel
  <2>10. CASE UNCHANGED vars
    BY <2>10 DEF vars
  <2> QED BY <2>1, <2>2, <2>3, <2>4, <2>5, <2>6, <2>7, <2>8, <2>9, <2>10 DEF Next
<1>3. FileInv => NeverOlder
  BY DEF FileInv
<1> QED BY <1>1, <1>2, <1>3, PTL DEF Spec

-----------------------------------------------------------------------------
(* What is run, stored or being stored is a configuration. *)
ConfigInv ==
    /\ config \in Config
    /\ file \in Config \cup Unreadable
    /\ saving \in Config \cup {None}

ServedInv == ConfigInv /\ ConfigServed

(* The manager's start takes every link of a known kind, and no other step  *)
(* of a bring-up builds a manager.                                          *)
LEMMA BringupServes == ServicesInv /\ ServedInv /\ Bringup => ServedInv'
<1> SUFFICES ASSUME ServicesInv, ServedInv, Bringup PROVE ServedInv'
  OBVIOUS
<1>1. ConfigInv'
  BY BringupKeepsDisk DEF ServedInv, ConfigInv, disk, Bringup, startTransit, startManager, startInport,
       startOutport, startLinkListener, BringupFails
<1>2. ConfigServed'
  <2> USE DEF ServedInv, ConfigServed, Pooled, Build, Continue
  <2>1. CASE startTransit
    BY <2>1 DEF startTransit, ServicesInv, Built
  <2>2. CASE startManager
    BY <2>2 DEF startManager
  <2>3. CASE startInport
    BY <2>3 DEF startInport
  <2>4. CASE startOutport
    BY <2>4 DEF startOutport
  <2>5. CASE startLinkListener
    BY <2>5 DEF startLinkListener
  <2>6. CASE BringupFails
    BY <2>6 DEF BringupFails, doTeardown
  <2> QED BY <2>1, <2>2, <2>3, <2>4, <2>5, <2>6 DEF Bringup
<1> QED BY <1>1, <1>2 DEF ServedInv

(* The links of config_ that have a known kind are in the pool as long as   *)
(* nobody replaces config_ under running services, whatever connects fail   *)
(* and links are removed.  The other steps need ServicesInv to know that a  *)
(* start finds no manager of an earlier one.                                *)
THEOREM ConfigServedAlways == Spec => []ConfigServed
<1>1. Init => ServedInv
  BY MachineAssumption DEF Init, ServedInv, ConfigInv, ConfigServed, Unreadable
<1>2. ServicesInv /\ ServedInv /\ [Next]_vars => ServedInv'
  <2> SUFFICES ASSUME ServicesInv, ServedInv, [Next]_vars PROVE ServedInv'
    OBVIOUS
  <2> USE DEF ServedInv, ConfigInv, ConfigServed, disk
  <2>1. CASE Boot
    <3>1. "manager" \notin comps'
      BY <2>1 DEF Boot, ServicesInv, Built, AllOrNothing
    <3>2. ConfigInv'
      BY <2>1, MachineAssumption DEF Boot
    <3> QED BY <3>1, <3>2
  <2>2. CASE Crash
    BY <2>2, MachineAssumption DEF Crash
  <2>3. CASE mlfStop
    BY <2>3 DEF mlfStop, doTeardown
  <2>4. CASE SaveWritten
    BY <2>4 DEF SaveWritten, services, Unreadable
  <2>5. CASE Bringup
    BY <2>5, BringupServes
  <2>6. ASSUME NEW force \in BOOLEAN, mlfStart(force) PROVE ServedInv'
    <3>1. "manager" \notin comps'
      BY <2>6 DEF mlfStart, Rpc, doTeardown, ServicesInv, AllOrNothing
    <3> QED BY <2>6, <3>1 DEF mlfStart
  <2>7. ASSUME NEW c \in Configs, mlfSetConfig(c) PROVE ServedInv'
    BY <2>7, MachineAssumption DEF mlfSetConfig, Unreadable
  <2>8. ASSUME NEW ch \in Chans, mlfAddChannel(ch) PROVE ServedInv'
    <3>1. config' \in Config
      BY <2>8 DEF mlfAddChannel, Config
    <3>2. config'.chans \subseteq config.chans \cup {ch}
      BY <2>8 DEF mlfAddChannel, Config
    <3>3. ConfigServed'
      BY <2>8, <3>2 DEF mlfAddChannel, Pooled
    <3> QED BY <2>8, <3>1, <3>3 DEF mlfAddChannel
  <2>9. ASSUME NEW ch \in Chans, mlfRemoveChannel(ch.id) PROVE ServedInv'
    <3>1. config' \in Config /\ config'.chans = {d \in config.chans : d.id # ch.id}
      BY <2>9 DEF mlfRemoveChannel, Config
    <3>2. ConfigServed'
      BY <2>9, <3>1 DEF mlfRemoveChannel, Pooled
    <3> QED BY <2>9, <3>1, <3>2 DEF mlfRemoveChannel
  <2>10. CASE UNCHANGED vars
    BY <2>10 DEF vars, Pooled
  <2> QED BY <2>1, <2>2, <2>3, <2>4, <2>5, <2>6, <2>7, <2>8, <2>9, <2>10 DEF Next
<1>3. ServedInv => ConfigServed
  BY DEF ServedInv
<1> QED BY <1>1, <1>2, <1>3, ServicesAlways, PTL DEF Spec
=============================================================================
