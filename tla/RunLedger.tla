----------------------------- MODULE RunLedger -----------------------------
(***************************************************************************)
(* What publication of evidence runs promises to the readers of a data     *)
(* root.  A reader sees the data root through runs.json: a run is a        *)
(* registry entry together with the package directory the entry names.     *)
(* The promise is that the two appear together, in one step, once per run  *)
(* identity, and are never changed afterwards.                             *)
(*                                                                         *)
(* The specification is implemented by RunPublication (pack.py), where a   *)
(* publication is a dozen file-system steps of concurrent processes that   *)
(* may fail or die in between.                                             *)
(***************************************************************************)
CONSTANTS RunId,    \* run identities
          Digest    \* SHA-256 values of dashboard.json, one per package content

VARIABLES ledger,   \* the entries a reader finds in runs.json
          visible   \* [run_id, digest]: the package a reader reaches for each of them

vars == <<ledger, visible>>

Entry == [run_id: RunId, digest: Digest]

Init == ledger = {} /\ visible = {}

\* A run identity that no entry uses appears with its package, in one step.
Publish(e) ==
    /\ \A x \in ledger : x.run_id # e.run_id
    /\ ledger' = ledger \cup {e}
    /\ visible' = visible \cup {e}

Next == \E e \in Entry : Publish(e)

Spec == Init /\ [][Next]_vars
=============================================================================
