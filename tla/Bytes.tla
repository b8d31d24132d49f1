------------------------------- MODULE Bytes -------------------------------
(***************************************************************************)
(* The byte buffers the parsers and writers share: flv_util.cpp, the       *)
(* read_/write_ helpers of the protocol classes.  A buffer is a sequence   *)
(* of bytes; a parser's answer is a record, Refused when a check fails.    *)
(***************************************************************************)
EXTENDS Naturals, Sequences, SequencesExt

Byte == 0..255
Refused == [ok |-> FALSE]
From(b, i) == SubSeq(b, i, Len(b))

(* read_2byte ... read_4byte, read_nbyte(buffer_t, uint32_t): big endian. *)
Number(b) ==
  LET number[i \in 0..Len(b)] == IF i = 0 THEN 0 ELSE 256 * number[i - 1] + b[i]
  IN number[Len(b)]

(* to_vector, write_2byte ... write_4byte: the n bytes of v, the most
   significant first. *)
Octets(n, v) == [i \in 1..n |-> (v \div 256^(n - i)) % 256]
=============================================================================
