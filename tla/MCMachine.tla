----------------------------- MODULE MCMachine -----------------------------
(* The instance of Machine for TLC: two configurations of the Inport's, one *)
(* with a link of unknown kind, the Outport's with and without a listener,  *)
(* the Transit's, and one of a role that does not exist.                    *)
EXTENDS Machine

MCChans == [id : {1, 2}, known : BOOLEAN]

L(id, known) == [id |-> id, known |-> known]
C(role, listen, chans) == [role |-> role, listen |-> listen, chans |-> chans]

MCDefault == C("INPORT", FALSE, {})
MCConfigs ==
    {C("INPORT", FALSE, {L(1, TRUE)}), C("INPORT", FALSE, {L(1, TRUE), L(2, FALSE)}),
     C("OUTPORT", TRUE, {}), C("OUTPORT", FALSE, {L(2, TRUE)}),
     C("TRANSIT", TRUE, {L(2, TRUE)}), C("unknown", FALSE, {L(1, TRUE)})}
=============================================================================
