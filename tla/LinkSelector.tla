---------------------------- MODULE LinkSelector ----------------------------
(***************************************************************************)
(* LinkSelector (src/src/zfgw_channel_manager.cpp): which links carry the   *)
(* next segment.  One selector serves every DataStream; its primary is set  *)
(* by the feedback of the peer and its probe rotates.                       *)
(*                                                                         *)
(* A link is the number of its rank.  The weight of a link is its priority  *)
(* (nothing in the code sets a round trip time or a loss rate), so the rank *)
(* of a link never changes; the smallest number is the best.                *)
(***************************************************************************)
EXTENDS Naturals, Sequences, FiniteSets

CONSTANTS
    Links,   \* the links, by rank
    RotMod   \* rotation is kept modulo this number (2^64 in the code)

ASSUME LinksAssumption == Links \subseteq Nat \ {0} /\ IsFiniteSet(Links) /\ Links # {}

(* The counter is only read modulo a number of links, so a multiple of all  *)
(* those numbers loses nothing.                                             *)
ASSUME RotAssumption   == RotMod \in Nat \ {0}
                          /\ \A n \in 1..Cardinality(Links) : RotMod % n = 0

VARIABLES
    mode,      \* mode_, set when the service starts
    live,      \* the pool: the links that isLive()
    primary,   \* primary_channel_id_, 0 for none
    rotation,  \* probe_rotation_
    chosen     \* what select() returned last

Modes == {"BEST", "WEIGHTED", "ALL"}

vars == <<mode, live, primary, rotation, chosen>>

(* ranked[i] *)
Ranked(S, i) == CHOOSE l \in S : Cardinality({k \in S : k < l}) = i

(* Its inverse. *)
Rank(S, l) == Cardinality({k \in S : k < l})

(* The index of the fed-back link if it is live, else that of the best.     *)
PrimaryIndex(S, want) == IF want \in S THEN Rank(S, want) ELSE 0

(* Fault variant: the probe may fall on the primary. *)
ProbeIndexAny(S, want, rot) == rot % (Cardinality(S) - 1)

(* The index of the probe: the rotation counts the links but the primary.   *)
ProbeIndex(S, want, rot) ==
    LET r == rot % (Cardinality(S) - 1)
    IN  IF r < PrimaryIndex(S, want) THEN r ELSE r + 1

(* select(pool) *)
select(md, S, want, rot) ==
    IF S = {} THEN <<>>
    ELSE CASE md = "BEST" -> <<Ranked(S, 0)>>
           [] md = "ALL"  -> [i \in 1..Cardinality(S) |-> Ranked(S, i - 1)]
           [] md = "WEIGHTED" ->
                <<Ranked(S, PrimaryIndex(S, want))>>
                \o (IF Cardinality(S) > 1 THEN <<Ranked(S, ProbeIndex(S, want, rot))>> ELSE <<>>)

(* probe_rotation_ after select(). *)
Rotated(md, S, rot) ==
    IF md = "WEIGHTED" /\ Cardinality(S) > 1 THEN (rot + 1) % RotMod ELSE rot

Init ==
    /\ mode \in Modes
    /\ live \in SUBSET Links
    /\ primary = 0
    /\ rotation = 0
    /\ chosen = <<>>

(* Fault variant: the rotation restarts when the primary is confirmed. *)
SelectRestarting ==
    /\ chosen' = select(mode, live, primary, rotation)
    /\ rotation' = IF primary \in live THEN 0 ELSE Rotated(mode, live, rotation)
    /\ UNCHANGED <<mode, live, primary>>

(* A segment is sent (sendSegment). *)
Select ==
    /\ chosen' = select(mode, live, primary, rotation)
    /\ rotation' = Rotated(mode, live, rotation)
    /\ UNCHANGED <<mode, live, primary>>

(* Feedback names a link of ours, which may be down by now. *)
setPrimaryChannel(l) ==
    /\ primary' = l
    /\ UNCHANGED <<mode, live, rotation, chosen>>

(* A link connects, recovers, stalls or closes. *)
LinkChange(l) ==
    /\ live' = IF l \in live THEN live \ {l} ELSE live \cup {l}
    /\ UNCHANGED <<mode, primary, rotation, chosen>>

Next ==
    \/ Select
    \/ \E l \in Links : setPrimaryChannel(l) \/ LinkChange(l)

Spec == Init /\ [][Next]_vars

(* Segments keep being sent. *)
FairSpec == Spec /\ WF_vars(Select)

-----------------------------------------------------------------------------
(* Every variable keeps its type (what the proofs rest on). *)
TypeOK ==
    /\ mode \in Modes
    /\ live \subseteq Links
    /\ primary \in Links \cup {0}
    /\ rotation \in 0..(RotMod - 1)
    /\ chosen \in Seq(Links)

(* How many copies a mode sends over n links. *)
Copies(n) ==
    IF n = 0 THEN 0
    ELSE CASE mode = "BEST"     -> 1
           [] mode = "ALL"      -> n
           [] mode = "WEIGHTED" -> IF n = 1 THEN 1 ELSE 2

(* However links came and went since the counter was last used, a segment   *)
(* leaves in as many copies as the mode asks for, each over another live    *)
(* link, so that no probe is wasted on the primary; and in WEIGHTED mode    *)
(* the fed-back link carries one of them if it is live (select).            *)
CopiesOnDistinctLinks ==
    [][Select => LET used == {chosen'[i] : i \in DOMAIN chosen'}
                 IN  /\ used \subseteq live
                     /\ Cardinality(used) = Copies(Cardinality(live))
                     /\ (mode = "WEIGHTED" /\ primary \in live) => primary \in used]_vars

(* The rotating probe exercises every live link again and again, once the   *)
(* links and the feedback have settled.                                     *)
EveryLinkProbed ==
    (mode = "WEIGHTED" /\ <>[][UNCHANGED <<live, primary>>]_<<live, primary>>) =>
        \A l \in Links : []<>(l \notin live \/ \E i \in DOMAIN chosen : chosen[i] = l)

=============================================================================
