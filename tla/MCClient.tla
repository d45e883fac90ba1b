------------------------------ MODULE MCClient ------------------------------
(* The programs with a size left to the client, the transpose of the default *)
(* size (as many bytes), and a larger one.  resize-loop turns round at the   *)
(* first step up and at the first step down.                                 *)
EXTENDS Programs

MCSizes == {<<0, 0>>, <<400, 300>>, <<400, 400>>}
=============================================================================
