---------------------------- MODULE PageSwapSpec ----------------------------
(***************************************************************************)
(* What the page-swap primitive promises its callers (spec.md, section 1, *)
(* swap_pages): the physical backing of two equal-length page ranges is   *)
(* exchanged, and nothing else changes.  Each call is one atomic step; a   *)
(* call may also change nothing (a rejected request).                      *)
(***************************************************************************)
EXTENDS Naturals

CONSTANTS
    Pages,      \* the page numbers of the mapped region
    Requests    \* records [first, second, npgs] a caller may issue

VARIABLE mapping   \* page number -> physical frame behind it

\* The mapping after the ranges [first, first+npgs) and
\* [second, second+npgs) exchange their frames.
Swapped(m, r) ==
    [v \in DOMAIN m |->
        IF v >= r.first /\ v < r.first + r.npgs
        THEN m[v - r.first + r.second]
        ELSE IF v >= r.second /\ v < r.second + r.npgs
             THEN m[v - r.second + r.first]
             ELSE m[v]]

Init == mapping = [v \in Pages |-> v]

\* The first conjunct follows from the second; it lets a model checker
\* discard a request by looking at one page.
Swap(r) ==
    /\ r.npgs > 0 => mapping'[r.first] = mapping[r.second]
    /\ mapping' = Swapped(mapping, r)

Next == \E r \in Requests : Swap(r)

Spec == Init /\ [][Next]_mapping

=============================================================================
