------------------------------- MODULE Handoff -------------------------------
(***************************************************************************)
(* euvd_handoff.py: a copy of one CycloneDX document for the EUVD matcher. *)
(*                                                                         *)
(* prepare_euvd_handoff copies a file the caller names;                    *)
(* prepare_verified_selftest_euvd_handoff copies a raw document of an      *)
(* output root that verifies.  The second reads the root many times, and   *)
(* the root may be removed and scanned anew, or damaged, in between.  A    *)
(* handoff is staged and renamed into place; it is compared with its       *)
(* source afterwards, so that a call can fail and leave a handoff.         *)
(***************************************************************************)
EXTENDS SelftestSigning

CONSTANTS Sender,        \* calls that prepare a handoff
          SendFaults,    \* what the environment may do: "io" and "kill"
          MaxReplaced    \* bound on how often the root or the named file is replaced

ASSUME HandoffAssumption ==
    /\ SendFaults \subseteq {"io", "kill"}
    /\ MaxReplaced \in Nat

VARIABLES sending,   \* the step each call takes next
          binding,   \* "DECLARED" or "VERIFIED", per call
          draft,     \* what each call has read so far
          candidate, \* the file that declared handoffs are made of
          handoffs,  \* the handoff directories: an identity and a document
          replaced   \* how often the root or the candidate was replaced

handoffVars == <<sending, binding, draft, candidate, handoffs, replaced>>

SourceProfile == "SOURCE_DIRECTORY"
NoDraft == [run |-> Absent, completion |-> Absent, sbom |-> Absent]

\* The complete root of a scan that printed one document for every profile.
RootOf ==
    [d \in {d \in Document : WellFormed(d)} |->
        CompleteRoot([p \in Profile |-> Observation(p, 0, d)],
                     [p \in Profile |-> [f \in Format |->
                         IF f = "cyclonedx" THEN d ELSE <<f, p, 0>>]])]

HandoffInit ==
    /\ sending = [s \in Sender |-> "start"]
    /\ binding \in [Sender -> {"DECLARED", "VERIFIED"}]
    /\ draft = [s \in Sender |-> NoDraft]
    /\ candidate \in DOMAIN RootOf
    /\ handoffs = {}
    /\ replaced = 0

SendTo(s, step) == sending' = [sending EXCEPT ![s] = step]
Sends(s) == sending[s] \notin {"start", "sent", "refused", "failed", "dead"}

\* raw.cyclonedx.json of the root, or the file the caller named.
SourceOf(s) ==
    IF binding[s] = "VERIFIED"
    THEN IF root.raw[SourceProfile] = Absent THEN Absent ELSE root.raw[SourceProfile]["cyclonedx"]
    ELSE candidate

\* handoff_id, from the fixed inputs.
Identity(s) ==
    [run |-> draft[s].run, binding |-> binding[s], completion |-> draft[s].completion,
     sbom |-> draft[s].sbom]
Taken(id) == \E h \in handoffs : h.id = id

HandoffUnchanged == UNCHANGED <<binding, candidate, replaced, root>>

-----------------------------------------------------------------------------
(* One call *)

\* The caller's run identifier is checked for its form only, and left out here.
Declare(s) ==
    /\ sending[s] = "start" /\ binding[s] = "DECLARED"
    /\ SendTo(s, "reading")
    /\ UNCHANGED <<draft, handoffs>> /\ HandoffUnchanged

\* verify_selftest_root; the run identifier is what it returns.
VerifyRoot(s) ==
    /\ sending[s] = "start" /\ binding[s] = "VERIFIED"
    /\ IF RootVerifies(root)
       THEN draft' = [draft EXCEPT ![s].run = root.complete.run] /\ SendTo(s, "completion")
       ELSE UNCHANGED draft /\ SendTo(s, "failed")
    /\ UNCHANGED handoffs /\ HandoffUnchanged

\* sha256_file of SELFTEST_COMPLETE.json
ReadCompletion(s) ==
    /\ sending[s] = "completion"
    /\ draft' = [draft EXCEPT ![s].completion = root.complete]
    /\ SendTo(s, "reading")
    /\ UNCHANGED handoffs /\ HandoffUnchanged

\* _read_regular, _parse_cyclonedx, and destination.exists().
ReadSource(s) ==
    /\ sending[s] = "reading"
    /\ draft' = [draft EXCEPT ![s].sbom = SourceOf(s)]
    /\ SendTo(s, IF WellFormed(SourceOf(s)) THEN "looking" ELSE "failed")
    /\ UNCHANGED handoffs /\ HandoffUnchanged

Look(s) ==
    /\ sending[s] = "looking"
    /\ SendTo(s, IF Taken(Identity(s)) THEN "refused" ELSE "staged")
    /\ UNCHANGED <<draft, handoffs>> /\ HandoffUnchanged

\* The stage is written; os.replace refuses a directory that is not empty.
Publish(s) ==
    /\ sending[s] = "staged"
    /\ IF Taken(Identity(s))
       THEN SendTo(s, "failed") /\ UNCHANGED handoffs
       ELSE /\ handoffs' = handoffs \cup {[id |-> Identity(s), sbom |-> draft[s].sbom]}
            /\ SendTo(s, "comparing")
    /\ UNCHANGED draft /\ HandoffUnchanged

\* The source is read again.  The handoff stays if it has changed.
CompareSource(s) ==
    /\ sending[s] = "comparing"
    /\ SendTo(s, IF SourceOf(s) # draft[s].sbom THEN "failed"
                 ELSE IF binding[s] = "VERIFIED" THEN "revalidating" ELSE "sent")
    /\ UNCHANGED <<draft, handoffs>> /\ HandoffUnchanged

\* validate_euvd_handoff with the root: first verify_selftest_root again ...
Revalidate(s) ==
    /\ sending[s] = "revalidating"
    /\ SendTo(s, IF RootVerifies(root) /\ root.complete.run = draft[s].run
                 THEN "rehashing" ELSE "failed")
    /\ UNCHANGED <<draft, handoffs>> /\ HandoffUnchanged

\* Faulty variant: the completion hash is not compared.
RehashNothing(s) ==
    /\ sending[s] = "rehashing"
    /\ SendTo(s, "resealing")
    /\ UNCHANGED <<draft, handoffs>> /\ HandoffUnchanged

\* ... then the hash of SELFTEST_COMPLETE.json ...
RehashCompletion(s) ==
    /\ sending[s] = "rehashing"
    /\ SendTo(s, IF root.complete = draft[s].completion THEN "resealing" ELSE "failed")
    /\ UNCHANGED <<draft, handoffs>> /\ HandoffUnchanged

\* ... and that of the raw document.
RehashSource(s) ==
    /\ sending[s] = "resealing"
    /\ SendTo(s, IF SourceOf(s) = draft[s].sbom THEN "sent" ELSE "failed")
    /\ UNCHANGED <<draft, handoffs>> /\ HandoffUnchanged

\* An exception before the rename removes the stage.
SendFails(s) ==
    /\ "io" \in SendFaults
    /\ Sends(s)
    /\ SendTo(s, "failed")
    /\ UNCHANGED <<draft, handoffs>> /\ HandoffUnchanged

SendDies(s) ==
    /\ "kill" \in SendFaults
    /\ Sends(s)
    /\ SendTo(s, "dead")
    /\ UNCHANGED <<draft, handoffs>> /\ HandoffUnchanged

-----------------------------------------------------------------------------
(* The environment *)

\* The root is removed, while nobody signs in it, and the self-test run again.
Rescan(d) ==
    /\ replaced < MaxReplaced
    /\ signature = Absent /\ \A c \in Signer : ~ Signs(c)
    /\ root # RootOf[d]
    /\ root' = RootOf[d]
    /\ replaced' = replaced + 1
    /\ UNCHANGED <<sending, binding, draft, candidate, handoffs>>

EditCandidate(d) ==
    /\ replaced < MaxReplaced
    /\ candidate # d
    /\ candidate' = d
    /\ replaced' = replaced + 1
    /\ UNCHANGED <<sending, binding, draft, handoffs, root>>

\* A file of the root, or of its package, is put back from a copy of another root.
Restore(d) ==
    LET other == RootOf[d]
    IN \/ \E f \in {"raw", "registry", "receipt", "complete"} :
              root' = [root EXCEPT ![f] = other[f]]
       \/ \E f \in DOMAIN root.package :
              root' = [root EXCEPT !.package[f] = other.package[f]]

HandoffNext ==
    \/ \E s \in Sender :
          \/ Declare(s) \/ VerifyRoot(s) \/ ReadCompletion(s) \/ ReadSource(s) \/ Look(s)
          \/ Publish(s) \/ CompareSource(s) \/ Revalidate(s) \/ RehashCompletion(s)
          \/ RehashSource(s)
          \/ SendFails(s) \/ SendDies(s)
    \/ \E d \in DOMAIN RootOf : Rescan(d) \/ EditCandidate(d)

-----------------------------------------------------------------------------
(* Properties *)

\* A verified handoff that was returned to its caller has the document that the
\* root named by its completion hash sealed, and that root's run identifier,
\* though the call looked at the root at seven moments.  Three replacements of the
\* root during one call can still mix two of them.
VerifiedHandoffIsOfOneRoot ==
    \A s \in Sender :
        sending[s] = "sent" /\ binding[s] = "VERIFIED" /\ replaced < 3 =>
            /\ draft[s].run = draft[s].completion.run
            /\ draft[s].completion.receipt.raw[SourceProfile]["cyclonedx"] = draft[s].sbom
            /\ [id |-> Identity(s), sbom |-> draft[s].sbom] \in handoffs

\* Files of several roots do not make a root that verifies, whatever is put back
\* and in whatever order: one that verifies is the root of one scan, and its
\* completion hash tells which.
OneRootVerifies ==
    root # Absent /\ RootVerifies(root) =>
        \A d \in DOMAIN RootOf :
            root.complete = RootOf[d].complete => root = RootOf[d]
=============================================================================
