-------------------------- MODULE MCRunPublication --------------------------
(***************************************************************************)
(* RunPublication for TLC: two invocations package the same run with       *)
(* different content (the same inputs seen by two versions of the tool),   *)
(* a third packages either that run again or another one.                  *)
(***************************************************************************)
EXTENDS RunPublication

CONSTANTS p1, p2, p3, r1, r2, d1, d2

MCInit ==
    /\ Init
    /\ job[p1] = [run_id |-> r1, digest |-> d1]
    /\ job[p2] = [run_id |-> r1, digest |-> d2]
    /\ job[p3] \in [run_id: {r1, r2}, digest: {d1}]

MCSpec == MCInit /\ [][Next]_vars /\ \A p \in Process : WF_vars(Program(p))
=============================================================================
