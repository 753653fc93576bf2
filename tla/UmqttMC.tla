------------------------------ MODULE UmqttMC ------------------------------
(* Umqtt for TLC, which evaluates the assumption once a run.                *)
EXTENDS Umqtt

(* What umqtt encodes it decodes again, for every length a 16-bit int can   *)
(* hold, though its arithmetic overflows; the encoding fits into remlen[4]  *)
(* and is as short as can be.                                               *)
ASSUME RoundTrip ==
  \A len \in 0 .. 32767 :
    LET remlen == umqtt_encode_length(len)
    IN /\ umqtt_decode_length(remlen) = len
       /\ Len(remlen) <= 4
       /\ Len(remlen) > 1 => remlen[Len(remlen)] # 0
=============================================================================
