--------------------------- MODULE MCReviewServer ---------------------------
(***************************************************************************)
(* ReviewServer for TLC.  Two writers of different runs, one of which is   *)
(* larger than the server reads.                                           *)
(***************************************************************************)
EXTENDS ReviewServer

CONSTANTS p1, p2, r1, r2, d, large

MCReviewInit ==
    /\ ReviewInit
    /\ job[p1] = [run_id |-> r1, digest |-> d]
    /\ job[p2].run_id = r2

MCReviewSpec == MCReviewInit /\ [][ReviewNext]_reviewVars
=============================================================================
