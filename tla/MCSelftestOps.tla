--------------------------- MODULE MCSelftestOps ---------------------------
(***************************************************************************)
(* SelftestOps for TLC.  p1 clears r1; p2 clears the same run, backs it    *)
(* up, or clears another run; p3 restores a backup of r1.                  *)
(***************************************************************************)
EXTENDS SelftestOps

CONSTANTS p1, p2, p3, r1, r2, ra, rb, k, x, y,
          SharedReceipt   \* whether both clears are given the same --receipt

Task(op, r, receipt) == [op |-> op, run |-> r, receipt |-> receipt, backup |-> k, anchor |-> x]

MCInit ==
    /\ Init
    /\ job[p1] = Task("clear", r1, ra)
    /\ job[p2] \in {Task("clear", r1, IF SharedReceipt THEN ra ELSE rb),
                    Task("clear", r2, IF SharedReceipt THEN ra ELSE rb),
                    Task("backup", r1, rb)}
    /\ job[p3] = Task("restore", r1, rb)
    /\ run[r1] = x /\ run[r2] = y
    /\ backups[k] \in {Nothing, [payload |-> x, manifest |-> x]}

MCSpec == MCInit /\ [][Next]_vars
=============================================================================
