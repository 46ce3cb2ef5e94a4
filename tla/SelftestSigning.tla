--------------------------- MODULE SelftestSigning ---------------------------
(***************************************************************************)
(* The commands sign-selftest-pack and verify-signature, _execute_sign and *)
(* _execute_verify in cli.py with signing.py, on the package in the output *)
(* root of a self-test.                                                    *)
(*                                                                         *)
(* cosign writes the signature of the in-toto statement into the package,  *)
(* over whatever is there, and both commands make a working directory for  *)
(* it in the package.  Signing looks for a signature before it calls       *)
(* cosign; nothing excludes a second signing meanwhile.  cosign is a child *)
(* process: it outlives a command that is killed, and signs all the same.  *)
(* ECDSA signatures of one statement differ, so a signature is named by    *)
(* the call it is of.                                                      *)
(***************************************************************************)
EXTENDS SelftestScan

CONSTANTS Signer,      \* calls of sign-selftest-pack
          SignFaults   \* what the environment may do: "io" and "kill"

ASSUME SignFaultsAssumption == SignFaults \subseteq {"io", "kill"}

VARIABLES signing,   \* the step each signing takes next
          checking,  \* the step the verification of each receipt takes next
          signature, \* ite6-statement.json.sig
          signed,    \* the receipt each signing has written
          overlap    \* the signings that were active at the same time as each

signVars == <<signing, checking, signature, signed, overlap>>

SignInit ==
    /\ signing = [c \in Signer |-> "start"]
    /\ checking = [c \in Signer |-> "idle"]
    /\ signature = Absent
    /\ signed = [c \in Signer |-> Absent]
    /\ overlap = [c \in Signer |-> {}]

\* A signing is active as long as its command or its cosign runs.
Commands(c) == signing[c] \in {"environment", "cosign", "binding"}
Signs(c) == Commands(c) \/ signing[c] = "orphan"
Sealed == root # Absent /\ root.package # Absent
Advance(c, step) == signing' = [signing EXCEPT ![c] = step]
Stray(names) == root' = [root EXCEPT !.package.extra = @ \cup names]
ScanIdle == UNCHANGED <<pc, todo, job, World, scanned>>

-----------------------------------------------------------------------------
(* sign-selftest-pack *)

\* Faulty variant: without the look at the signature.
BeginSignAnyway(c) ==
    /\ signing[c] = "start" /\ Sealed
    /\ Advance(c, "environment")
    /\ LET others == {d \in Signer \ {c} : Signs(d)}
       IN overlap' = [d \in Signer |->
              IF d = c THEN others ELSE IF d \in others THEN overlap[d] \cup {c} ELSE overlap[d]]
    /\ UNCHANGED <<root, checking, signature, signed>> /\ ScanIdle

\* The checks up to signature_path.exists().
BeginSign(c) ==
    /\ signing[c] = "start" /\ Sealed
    /\ signature = Absent
    /\ Advance(c, "environment")
    /\ LET others == {d \in Signer \ {c} : Signs(d)}
       IN overlap' = [d \in Signer |->
              IF d = c THEN others ELSE IF d \in others THEN overlap[d] \cup {c} ELSE overlap[d]]
    /\ UNCHANGED <<root, checking, signature, signed>> /\ ScanIdle

SignRefused(c) ==
    /\ signing[c] = "start" /\ Sealed
    /\ signature # Absent
    /\ Advance(c, "refused")
    /\ UNCHANGED <<root, checking, signature, signed, overlap>> /\ ScanIdle

\* _minimal_process_environment makes .cosign-runtime in the package.
MakeRuntime(c) ==
    /\ signing[c] = "environment"
    /\ Stray({".cosign-runtime"})
    /\ Advance(c, "cosign")
    /\ UNCHANGED <<checking, signature, signed, overlap>> /\ ScanIdle

\* cosign sign-blob --output-signature, with or without a command that waits for it.
RunCosign(c) ==
    /\ signing[c] \in {"cosign", "orphan"}
    /\ signature' = [by |-> c, of |-> root.package.ite6]
    /\ Stray({"ite6-statement.json.sig"})
    /\ Advance(c, IF signing[c] = "cosign" THEN "binding" ELSE "dead")
    /\ UNCHANGED <<checking, signed, overlap>> /\ ScanIdle

\* build_receipt hashes the statement and the signature that are there now, and
\* write_json_atomic writes to a path of the caller's that is new.
WriteSignatureReceipt(c) ==
    /\ signing[c] = "binding"
    /\ signed' = [signed EXCEPT ![c] = [subject |-> root.package.ite6, signature |-> signature]]
    /\ Advance(c, "signed")
    /\ UNCHANGED <<root, checking, signature, overlap>> /\ ScanIdle

\* cosign fails or runs too long, when subprocess.run kills it, or the receipt
\* cannot be written.
SigningFails(c) ==
    /\ "io" \in SignFaults
    /\ Commands(c)
    /\ Advance(c, "failed")
    /\ UNCHANGED <<root, checking, signature, signed, overlap>> /\ ScanIdle

\* The command is killed while it waits for cosign, or before; or the cosign that it
\* has left behind is.
SigningDies(c) ==
    /\ "kill" \in SignFaults
    /\ Signs(c)
    /\ Advance(c, IF signing[c] = "cosign" THEN "orphan" ELSE "dead")
    /\ UNCHANGED <<root, checking, signature, signed, overlap>> /\ ScanIdle

-----------------------------------------------------------------------------
(* verify-signature, with the receipt of signing c *)

ReceiptBinds(c) ==
    /\ signed[c].subject = root.package.ite6
    /\ signed[c].signature = signature

BeginVerify(c) ==
    /\ checking[c] = "idle" /\ signed[c] # Absent
    /\ IF ReceiptBinds(c)
       THEN checking' = [checking EXCEPT ![c] = "cosign"] /\ Stray({".cosign-runtime"})
       ELSE checking' = [checking EXCEPT ![c] = "rejected"] /\ UNCHANGED root
    /\ UNCHANGED <<signing, signature, signed, overlap>> /\ ScanIdle

\* cosign verify-blob
EndVerify(c) ==
    /\ checking[c] = "cosign"
    /\ checking' = [checking EXCEPT ![c] =
                       IF signature.of = root.package.ite6 THEN "verified" ELSE "rejected"]
    /\ UNCHANGED <<root, signing, signature, signed, overlap>> /\ ScanIdle

SignNext ==
    \E c \in Signer :
        \/ BeginSign(c) \/ SignRefused(c) \/ MakeRuntime(c) \/ RunCosign(c)
        \/ WriteSignatureReceipt(c) \/ SigningFails(c) \/ SigningDies(c)
        \/ BeginVerify(c) \/ EndVerify(c)

-----------------------------------------------------------------------------
(* Properties *)

\* A receipt that a signing has written binds the signature in the package, and
\* goes on binding it, unless a second signing, or the cosign that one left behind
\* when it was killed, ran at the same time and replaced that signature after the
\* first was hashed.
SignatureStaysBound ==
    \A c \in Signer :
        signed[c] # Absent /\ overlap[c] = {} => ReceiptBinds(c) /\ checking[c] # "rejected"

\* Signing leaves a sealed package that verifies: it adds to the evidence and
\* takes nothing away.
SignedRootVerifies ==
    \A c \in Signer : signing[c] = "signed" => RootVerifies(root)
=============================================================================
