------------------------------- MODULE Bitmap -------------------------------
(***************************************************************************)
(* lib/kernel/bitmap.c.  A bitmap is memory: a byte is the set of the      *)
(* positions of its 1 bits; the bitmap owns bits[0..btmp_bytes_len-1].     *)
(* The memory behind it is part of the model because bitmap_scan reads it  *)
(* and bitmap_set may write it.                                            *)
(***************************************************************************)
EXTENDS Integers

CONSTANTS W,    \* bits in a byte: 8 in the code
          btmp_bytes_len

ASSUME BitmapAssumption ==
  /\ W \in Nat \ {0}
  /\ btmp_bytes_len \in Nat \ {0}

Size  == btmp_bytes_len * W
Byte  == SUBSET (0..(W - 1))
Bytes == 0..Size  \* the bytes a search can touch: those of the bitmap and some behind

Least(S) == CHOOSE x \in S : \A y \in S : x <= y

Used(b, i) == i % W \in b[i \div W]
-----------------------------------------------------------------------------
bitmap_init(b) == [i \in Bytes |-> IF i < btmp_bytes_len THEN {} ELSE b[i]]

(* bits[bit_idx], not bits[byte_idx].                                      *)
bitmap_scan_test(b, i) == i % W \in b[i]

(* The bits of S, one after the other, as the callers do in their loops.   *)
Bits(S, n) == {k \in 0..(W - 1) : n * W + k \in S}

bitmap_set(b, S, v) ==
  [n \in Bytes |-> IF v = 1 THEN b[n] \cup Bits(S, n) ELSE b[n] \ Bits(S, n)]

(* The first byte with a free bit.  Without one the ASSERT fails.          *)
NotFull(b) == {i \in 0..(btmp_bytes_len - 1) : b[i] # 0..(W - 1)}
Full(b)    == NotFull(b) = {}

FirstFree(b) ==
  LET i == Least(NotFull(b)) IN i * W + Least(0..(W - 1) \ b[i])

(* The search for more than one bit counts on from the first free one,     *)
(* and ends at the first position that closes a run of cnt.                *)
RunEnds(b, cnt) ==
  LET start == FirstFree(b) IN
  {n \in (start + 1)..Size :
     /\ n - cnt + 1 >= start
     /\ \A i \in (n - cnt + 1)..n : i = start \/ ~bitmap_scan_test(b, i)}

bitmap_scan(b, cnt) ==
  IF cnt = 1 THEN FirstFree(b)
  ELSE IF RunEnds(b, cnt) = {} THEN -1
  ELSE Least(RunEnds(b, cnt)) - cnt + 1
=============================================================================
