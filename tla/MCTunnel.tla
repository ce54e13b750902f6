------------------------------ MODULE MCTunnel ------------------------------
(* The instance of Tunnel for TLC: what clients and targets send.           *)
EXTENDS Tunnel

MCScripts == {<<"hi1", "hi2", "req1", "req2", "d1", "d2">>,
              <<"hi1", "hi2", "nocmd", "d1">>, <<"hi1", "hi2", "junk">>, <<"junk", "d1">>}
MCAnswers == <<"t1", "t2">>
=============================================================================
