---------------------------- MODULE MCSocketAgent ----------------------------
(* SocketAgent with two valid messages around one that is rejected, one     *)
(* whose responses cannot be built and one that cannot be answered.         *)
EXTENDS SocketAgent

MCKind == <<"valid", "rejected", "unbuildable", "valid", "unreplyable">>
=============================================================================
