---------------------------- MODULE OrderedPipe ----------------------------
(***************************************************************************)
(* What DataStream promises the relay of a session, without links,          *)
(* segments, duplicates or windows: a one-way pipe.  The client appends to  *)
(* it; the reader that is attached takes it from the start, in order and    *)
(* without a gap.  A new reader starts over, with some prefix of what was   *)
(* written (a session key whose entry was erased gets a new relay when a    *)
(* late segment of it arrives).  The pipe does not promise that everything  *)
(* is read: segments may be lost.                                           *)
(***************************************************************************)
EXTENDS Naturals, Sequences

CONSTANTS Keys, Payloads

VARIABLES written,  \* written[k]: what the client of k wrote
          read,     \* read[k]: what the newest reader of k was given
          readers   \* readers[k]: how many readers k has had

pipe == <<written, read, readers>>

Init ==
    /\ written = [k \in Keys |-> <<>>]
    /\ read = [k \in Keys |-> <<>>]
    /\ readers = [k \in Keys |-> 0]

Write(k, p) ==
    /\ written' = [written EXCEPT ![k] = Append(@, p)]
    /\ UNCHANGED <<read, readers>>

(* The reader takes what follows the part it has. *)
Read(k) ==
    /\ \E n \in Len(read[k])..Len(written[k]) :
          read' = [read EXCEPT ![k] = SubSeq(written[k], 1, n)]
    /\ UNCHANGED <<written, readers>>

(* A reader is attached, and may be given a first part at once. *)
Attach(k) ==
    /\ readers' = [readers EXCEPT ![k] = @ + 1]
    /\ \E n \in 0..Len(written[k]) :
          read' = [read EXCEPT ![k] = SubSeq(written[k], 1, n)]
    /\ UNCHANGED written

Next ==
    \E k \in Keys :
        \/ \E p \in Payloads : Write(k, p)
        \/ Read(k)
        \/ Attach(k)

Spec == Init /\ [][Next]_pipe
=============================================================================
