---------------------------- MODULE MCCopyTransfers ----------------------------
(* CopyTransfers with two descriptors and pipes of two buffers. *)
EXTENDS CopyTransfers
================================================================================
