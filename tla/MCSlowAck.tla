------------------------------ MODULE MCSlowAck ------------------------------
(* SlowAck with a delay of two frames, an 8-valued counter, a size left to  *)
(* the client, a size of as many bytes as the default one and a larger one. *)
EXTENDS SlowAck

MCSizes == {<<0, 0>>, <<400, 300>>, <<400, 400>>}
=============================================================================
