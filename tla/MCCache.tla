------------------------------- MODULE MCCache -------------------------------
(***************************************************************************)
(* Two caches of two MHSRs and of one, with an L2 of two: as in            *)
(* parameters.cc, where the L2 has as many as the larger of its two users. *)
(***************************************************************************)
EXTENDS Cache

Each(ic, dc, l2) == [c \in Caches |-> CASE c = "IC" -> ic [] c = "DC" -> dc [] OTHER -> l2]
MCWays    == Each(2, 1, 2)
MCMHSRFew == Each(2, 1, 2)
MCOne     == Each(1, 1, 1)
=============================================================================
