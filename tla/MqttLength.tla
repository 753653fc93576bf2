----------------------------- MODULE MqttLength -----------------------------
(***************************************************************************)
(* The remaining length of an MQTT packet as umqtt/umqtt.c encodes and     *)
(* decodes it.  An int of the AVR has 16 bits; a value beyond them, which  *)
(* C leaves undefined, is computed modulo 2^16 as the compiled code does.  *)
(***************************************************************************)
EXTENDS Integers, Sequences

(* the 16-bit int with the bit pattern of n *)
int(n) == ((n + 32768) % 65536) - 32768

(* The lengths an int holds.  Their encodings fit into remlen[4].           *)
Lengths == 0 .. 32767

(* umqtt_encode_length: seven bits a byte, lowest first, 128 if more follow *)
digits[len \in Lengths] ==
  IF len < 128 THEN <<len>> ELSE <<128 + (len % 128)>> \o digits[len \div 128]
encodeUnmarked(len) ==               \* variant: the mark of a byte is lost
  IF len < 128 THEN <<len>> ELSE <<len % 128>> \o digits[len \div 128]
umqtt_encode_length(len) == digits[len]

(* umqtt_decode_length: the weight of byte i, the last byte, the sum        *)
mul[i \in 1 .. 4] == IF i = 1 THEN 1 ELSE int(mul[i - 1] * 128)

(* From the fourth byte on the weight is 0: where the loop ends is without  *)
(* effect.                                                                  *)
LastByte(data) ==
  CHOOSE i \in DOMAIN data :
    (data[i] < 128 \/ i = 4) /\ \A j \in 1 .. i - 1 : data[j] >= 128

umqtt_decode_length(data) ==
  LET val[i \in 0 .. 4] ==
        IF i = 0 THEN 0 ELSE int(val[i - 1] + int((data[i] % 128) * mul[i]))
  IN val[LastByte(data)]
=============================================================================
