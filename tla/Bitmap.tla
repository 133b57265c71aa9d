------------------------------- MODULE Bitmap -------------------------------
(***************************************************************************)
(* The free-bit searches of src/ctfs_bitmap.c, as operators over a bitmap  *)
(* given as the set of its set bits.  WordBits is the width of the words   *)
(* find_free_bit scans (64 in the code).  Used by PggAlloc (sub-PMD        *)
(* packages) and InodeAlloc (the inode bitmap).                            *)
(***************************************************************************)
EXTENDS Integers, FiniteSets

\* Smallest element of a non-empty set of naturals.
Least(S) == CHOOSE x \in S : \A y \in S : x <= y

\* The bits of word w.
WordAt(w, WordBits) == (w * WordBits)..((w + 1) * WordBits - 1)

\* find_free_bit_tiny: the lowest clear bit below size, or -1.
FindFreeBitTiny(bmp, size) ==
    IF (0..(size - 1)) \ bmp = {} THEN -1 ELSE Least((0..(size - 1)) \ bmp)

\* find_free_bit: scan the words from the one holding hint up to the limit,
\* then (unless the scan began at word 0) wrap to word 0 and go on until the
\* starting word comes round again; in the first word that is not all ones
\* return its lowest clear bit.  -1 when no word was found.
FindFreeBit(bmp, size, hint, WordBits) ==
    LET limit == size \div WordBits
        start == hint \div WordBits
        open  == {w \in 0..(limit - 1) : WordAt(w, WordBits) \ bmp # {}}
        ahead == {w \in open : w >= start}
        behind == IF start = 0 THEN {} ELSE {w \in open : w < start}
        w == IF ahead # {} THEN Least(ahead) ELSE Least(behind)
    IN IF ahead = {} /\ behind = {} THEN -1
       ELSE Least(WordAt(w, WordBits) \ bmp)
=============================================================================
