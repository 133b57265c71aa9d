---------------------------- MODULE MC_InodeAlloc ----------------------------
(* Instantiation of InodeAlloc for TLC: a bitmap of three pages of four     *)
(* bits in words of two bits (the code: 130944 pages of 32768 bits, words   *)
(* of 64).  Two words per page keep the word-wise search of find_free_bit   *)
(* distinct from a bit-wise one.                                            *)
EXTENDS InodeAlloc

MCPageBits == 4
MCWordBits == 2
MCMaxInode == 12
=============================================================================
