------------------------------ MODULE Segments ------------------------------
(***************************************************************************)
(* How transfer_request() (src/transfer/receiver.c) splits a file of       *)
(* `size' bytes among its sources: one segment per source, never more      *)
(* segments than bytes, all of them of the same length except the last,    *)
(* which takes the remainder.  Bytes are numbered from 0 and byte_end is    *)
(* inclusive, as on the wire.                                              *)
(***************************************************************************)
EXTENDS Integers

ActiveCount(size, peers) == IF peers > size THEN size ELSE peers

BaseLen(size, n) == size \div n

ByteStart(size, n, i) == i * BaseLen(size, n)

ByteEnd(size, n, i) ==
  IF i + 1 = n THEN size - 1
  ELSE ByteStart(size, n, i) + BaseLen(size, n) - 1

(* The bytes segment i is responsible for. *)
Segment(size, n, i) == ByteStart(size, n, i) .. ByteEnd(size, n, i)
=============================================================================
