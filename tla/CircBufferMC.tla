---------------------------- MODULE CircBufferMC ----------------------------
(* Instance of CircBuffer: a ring of the given length, pushes of up to      *)
(* length + 1 bytes.                                                        *)
EXTENDS CircBuffer

MCData == UNION {[1 .. n -> Byte] : n \in 0 .. length + 1}
=============================================================================
