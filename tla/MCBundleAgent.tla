---------------------------- MODULE MCBundleAgent ----------------------------
(* BundleAgent on small instances: message 1 has two outputs (ACK, RESULT), *)
(* message 2 one, message 3, where there is one, is a health check.         *)
EXTENDS BundleAgent

MCOutputCount == [m \in Msg |-> IF m = 1 THEN 2 ELSE IF m = 2 THEN 1 ELSE 0]
MCThird == {3}
=============================================================================
