------------------------------ MODULE MC_FdTable ------------------------------
(***************************************************************************)
(* Two threads of three calls each on a table of two slots, so that a     *)
(* third open finds the table full; two names, opened with and without    *)
(* O_CREAT and unlinked; three inode numbers, one more than the names.      *)
(* Two host descriptors below an offset of 2 (in the code CT_FD_OFFSET and *)
(* the default RLIMIT_NOFILE are both 1024).                               *)
(***************************************************************************)
EXTENDS FdTable

CONSTANTS a, b    \* the two names, model values

MCInodes == 1 .. 3

Call(k, n, c, p) == [kind |-> k, name |-> n, creat |-> c, path |-> p]

\* The calls of the passing run: relative opens and unlink of a, which
\* fall back to the host, and a '\'-prefixed open of b, which does not.
\* ctfs_openat, whose return value is the hazard at ctfs_func.c:243, is
\* left out.
MCCalls ==
    {Call("open", a, TRUE, "rel"), Call("open", a, FALSE, "rel"),
     Call("open", b, TRUE, "ct"), Call("unlink", a, FALSE, "rel")}

\* Every call, ctfs_openat of '\/b' included.
MCAllCalls == MCCalls \cup {Call("openat", b, TRUE, "ct")}
=============================================================================
