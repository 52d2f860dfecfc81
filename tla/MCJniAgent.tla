------------------------------ MODULE MCJniAgent ------------------------------
(* JniAgent with one message of each kind. *)
EXTENDS JniAgent

MCKind == <<"valid", "unreplyable", "rejected", "health">>
=============================================================================
