----------------------------- MODULE MCCopySource -----------------------------
(* CopySource with two selections in a row. *)
EXTENDS CopySource
===============================================================================
