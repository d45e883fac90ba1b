----------------------------- MODULE ShmGeometry -----------------------------
(***************************************************************************)
(* Sizes of ARGB8888 shared-memory buffers, as pool-buffer.c computes them *)
(* in 32-bit integers that the sizes asked for are taken to fit.           *)
(***************************************************************************)
EXTENDS Integers

(* cairo_format_stride_for_width for CAIRO_FORMAT_ARGB32: 4 bytes a pixel, *)
(* and -1 for a width that is negative.                                    *)
Stride(w) == IF w < 0 THEN -1 ELSE 4 * w

(* stride * height, the byte size that get_next_buffer compares and that   *)
(* create_buffer and resize_buffer hand to ftruncate, mmap and wl_shm.  It *)
(* is negative if one of the two is, and positive if both are.             *)
Bytes(w, h) == Stride(w) * h
==============================================================================
