-------------------------- MODULE NarrowedDecisions --------------------------
(***************************************************************************)
(* VEX intake and narrowing: _execute_intake_vex and                       *)
(* _execute_intake_narrowed in cli.py, with vex_consume.py and             *)
(* narrowing_reconcile.py.                                                 *)
(*                                                                         *)
(* An intake lets cosign verify the VEX document of an issuer against its  *)
(* signature, reads the document, and writes a receipt.  A reconciliation  *)
(* reads a handoff, the receipt, the document again and the hits of the    *)
(* matcher, and records one decision per hit: narrowed if the document     *)
(* says of the vulnerability and the package "not_affected" and nothing    *)
(* else.  If document and receipt do not agree, no hit is narrowed, and    *)
(* that is recorded.  The directory of a record is named by hashes of the  *)
(* handoff, of what the receipt says of the document, and of the hits.     *)
(*                                                                         *)
(* The issuer publishes a document and its signature as two files and in   *)
(* place; files can be edited or damaged while they are read.              *)
(***************************************************************************)
EXTENDS Handoff

CONSTANTS VexDocument,   \* VEX documents, the unreadable included
          Statements,    \* the statements in each; {} in an unreadable one
          Intake,        \* calls of intake-vex
          Reconciler,    \* calls of intake-narrowed
          HitList,       \* what a matcher may report: sets of hits
          NarrowFaults,  \* what the environment may do: "io" and "kill"
          MaxChanges     \* bound on the changes of document, signature and hits

ASSUME NarrowAssumption ==
    /\ NarrowFaults \subseteq {"io", "kill"}
    /\ MaxChanges \in Nat

VARIABLES taking,    \* the step each intake takes next
          taken,     \* what each intake has read
          intakes,   \* the receipt each intake has written
          vex,       \* the VEX document
          vexSig,    \* the document that the signature file is of, or Absent
          hits,      \* matcher-hits.json: a list, and the handoff it is for
          changes,   \* how often these files were changed
          unverified,\* the intakes during which the document changed
          narrowing, \* the step each reconciliation takes next
          request,   \* its handoff, its intake and the issuer it names
          found,     \* what it has read and decided
          records    \* the directories under narrowed/

narrowVars == <<taking, taken, intakes, vex, vexSig, hits, changes, unverified,
                narrowing, request, found, records>>

-----------------------------------------------------------------------------
(* What is in the files *)

\* _ref_to_purl keeps the qualifiers arch and distro and drops package-id.
Canonical(purl) == [base |-> purl.base, version |-> purl.version, arch |-> purl.arch]

\* The references of a statement that are package URLs.
Products(st) == {Canonical(r) : r \in st.products \ {Absent}}

\* validate_vex_statement: the status is a known one, and even a statement that
\* narrows nothing needs a standard justification and a package URL.
ValidStatement(st) ==
    /\ st.status \in {"affected", "not_affected", "fixed", "unknown"}
    /\ st.justified
    /\ Products(st) # {}

\* parse_vex_document and the validation of every statement.
ValidVex(v) == Statements[v] # {} /\ \A st \in Statements[v] : ValidStatement(st)

\* The components of a document, without its root: what hits may be of.
ComponentPurls(d) ==
    {Canonical(c.purl) : c \in {c \in Elements(Content[d].components) : c.purl # Absent}}

Hits(list) == {[vulnerability |-> h.vulnerability, purl |-> Canonical(h.purl)] : h \in list}

Matching(hit, v) ==
    {st \in Statements[v] : st.vulnerability = hit.vulnerability /\ hit.purl \in Products(st)}

\* Faulty variant: one statement is enough.
NarrowsIfAny(hit, v) == \E st \in Matching(hit, v) : st.status = "not_affected"

\* narrow_one_hit
Narrows(hit, v) ==
    /\ Matching(hit, v) # {}
    /\ \A st \in Matching(hit, v) : st.status = "not_affected"

\* The decisions, of which only the outcome is kept; bound is FALSE if the
\* binding of document and receipt failed.
Decisions(list, v, bound) ==
    [hit \in Hits(list) |-> bound /\ Narrows(hit, v)]

\* Faulty variant: the receipt is only looked at for its form.
BoundByForm(receipt, v, named) == ValidVex(v)

\* verify_vex_intake_binding: the caller names the issuer of the receipt, and the
\* hashes of the document and of its statements are those in the receipt.
Bound(receipt, v, named) == named /\ receipt.document = v /\ ValidVex(v)

\* Faulty variant: the statements are left out.
RecordIdOfHits(handoff, receipt, file) ==
    [handoff |-> handoff, statements |-> Absent, hits |-> file]

\* reconcile_id_of; the hash of the statements includes that of their document.
RecordId(handoff, receipt, file) ==
    [handoff |-> handoff, statements |-> receipt.document, hits |-> file]

-----------------------------------------------------------------------------

NothingFound == [receipt |-> Absent, document |-> Absent, bound |-> FALSE, id |-> Absent,
                 decisions |-> Absent]

NarrowInit ==
    /\ taking = [i \in Intake |-> "start"]
    /\ taken = [i \in Intake |-> Absent]
    /\ intakes = [i \in Intake |-> Absent]
    /\ vex \in {v \in VexDocument : Statements[v] # {}}
    /\ vexSig = vex
    /\ changes = 0
    /\ unverified = {}
    /\ narrowing = [r \in Reconciler |-> "start"]
    /\ found = [r \in Reconciler |-> NothingFound]
    /\ records = {}
    /\ hits \in [list: HitList, handoff: {h.id : h \in handoffs}]
    /\ request \in [Reconciler ->
                       [handoff: {h.id : h \in handoffs}, intake: Intake, named: BOOLEAN]]

TakeTo(i, step) == taking' = [taking EXCEPT ![i] = step]
NarrowTo(r, step) == narrowing' = [narrowing EXCEPT ![r] = step]

IntakeFiles == <<vex, vexSig, hits, changes>>
IntakeOnly == UNCHANGED <<IntakeFiles, unverified, request, narrowing, found, records>>
ReconcilerOnly == UNCHANGED <<IntakeFiles, unverified, request, taking, taken, intakes>>

-----------------------------------------------------------------------------
(* intake-vex *)

\* The issuer is admitted and its key is the pinned one; cosign verify-blob reads
\* document and signature.
VerifyDocument(i) ==
    /\ taking[i] = "start"
    /\ TakeTo(i, IF vexSig = vex THEN "reading" ELSE "failed")
    /\ UNCHANGED <<taken, intakes>> /\ IntakeOnly

\* vex_path.read_bytes(), and the validation of what was read.
ReadDocument(i) ==
    /\ taking[i] = "reading"
    /\ IF ValidVex(vex)
       THEN taken' = [taken EXCEPT ![i] = vex] /\ TakeTo(i, "writing")
       ELSE TakeTo(i, "failed") /\ UNCHANGED taken
    /\ UNCHANGED intakes /\ IntakeOnly

\* build_vex_intake_receipt hashes the signature file as it is by then; the output
\* file is new.
WriteIntake(i) ==
    /\ taking[i] = "writing"
    /\ intakes' = [intakes EXCEPT ![i] = [document |-> taken[i], signature |-> vexSig]]
    /\ TakeTo(i, "taken")
    /\ UNCHANGED taken /\ IntakeOnly

IntakeFails(i) ==
    /\ NarrowFaults # {}
    /\ taking[i] \in {"reading", "writing"}
    /\ TakeTo(i, "failed")
    /\ UNCHANGED <<taken, intakes>> /\ IntakeOnly

-----------------------------------------------------------------------------
(* intake-narrowed *)

HandoffOf(r) == CHOOSE h \in handoffs : h.id = request[r].handoff

\* validate_euvd_handoff, load_cyclonedx, and the receipt of the intake.
ReadReceipt(r) ==
    /\ narrowing[r] = "start"
    /\ intakes[request[r].intake] # Absent
    /\ found' = [found EXCEPT ![r].receipt = intakes[request[r].intake]]
    /\ NarrowTo(r, "document")
    /\ UNCHANGED records /\ ReconcilerOnly

\* The document is read again.  That it is not the receipt's is no error.
BindDocument(r) ==
    /\ narrowing[r] = "document"
    /\ found' = [found EXCEPT ![r].document = vex,
                              ![r].bound = Bound(found[r].receipt, vex, request[r].named)]
    /\ NarrowTo(r, "hits")
    /\ UNCHANGED records /\ ReconcilerOnly

\* The hits are of this handoff and of packages in it; one decision each, and
\* build_narrowed_receipt.
Decide(r) ==
    /\ narrowing[r] = "hits"
    /\ IF /\ hits.handoff = request[r].handoff
          /\ \A hit \in Hits(hits.list) : hit.purl \in ComponentPurls(HandoffOf(r).sbom)
       THEN /\ found' = [found EXCEPT
                  ![r].id = RecordId(hits.handoff, found[r].receipt, hits),
                  ![r].decisions = Decisions(hits.list, found[r].document, found[r].bound)]
            /\ NarrowTo(r, "looking")
       ELSE NarrowTo(r, "failed") /\ UNCHANGED found
    /\ UNCHANGED records /\ ReconcilerOnly

RecordedBefore(r) == \E x \in records : x.id = found[r].id

\* narrowed_dir.exists()
LookForRecord(r) ==
    /\ narrowing[r] = "looking"
    /\ NarrowTo(r, IF RecordedBefore(r) THEN "refused" ELSE "making")
    /\ UNCHANGED <<found, records>> /\ ReconcilerOnly

\* mkdir(exist_ok=False)
MakeRecord(r) ==
    /\ narrowing[r] = "making"
    /\ IF RecordedBefore(r)
       THEN NarrowTo(r, "refused") /\ UNCHANGED records
       ELSE /\ records' = records \cup
                  {[id |-> found[r].id, by |-> r, decisions |-> Absent, receipt |-> Absent]}
            /\ NarrowTo(r, "deciding")
    /\ UNCHANGED found /\ ReconcilerOnly

\* Faulty variant: the receipt first.
WriteReceiptFirst(r) ==
    /\ narrowing[r] = "deciding"
    /\ records' = {IF x.by = r THEN [x EXCEPT !.receipt = found[r].decisions] ELSE x : x \in records}
    /\ NarrowTo(r, "receipt")
    /\ UNCHANGED found /\ ReconcilerOnly

\* decisions.json
WriteDecisions(r) ==
    /\ narrowing[r] = "deciding"
    /\ records' = {IF x.by = r THEN [x EXCEPT !.decisions = found[r].decisions] ELSE x : x \in records}
    /\ NarrowTo(r, "receipt")
    /\ UNCHANGED found /\ ReconcilerOnly

\* narrowed-reconcile-receipt.json, with the hash of the decisions.
WriteNarrowedReceipt(r) ==
    /\ narrowing[r] = "receipt"
    /\ records' = {IF x.by = r THEN [x EXCEPT !.receipt = found[r].decisions] ELSE x : x \in records}
    /\ NarrowTo(r, "recorded")
    /\ UNCHANGED found /\ ReconcilerOnly

\* An error, or death: neither removes what has been written.
NarrowingStops(r) ==
    /\ NarrowFaults # {}
    /\ narrowing[r] \in {"document", "hits", "looking", "making", "deciding", "receipt"}
    /\ NarrowTo(r, "failed")
    /\ UNCHANGED <<found, records>> /\ ReconcilerOnly

-----------------------------------------------------------------------------
(* The environment *)

ChangeFiles ==
    /\ changes < MaxChanges
    /\ changes' = changes + 1
    /\ unverified' = unverified \cup {i \in Intake : taking[i] \in {"reading", "writing"}}
    /\ UNCHANGED <<request, taking, taken, intakes, narrowing, found, records>>

\* The issuer publishes a document in place, or the file is damaged.
ChangeDocument(v) ==
    /\ v # vex
    /\ vex' = v
    /\ ChangeFiles
    /\ UNCHANGED <<vexSig, hits>>

\* The signature of that document follows.
ChangeSignature ==
    /\ vexSig # vex /\ Statements[vex] # {}
    /\ vexSig' = vex
    /\ ChangeFiles
    /\ UNCHANGED <<vex, hits>>

\* The matcher runs again.
ChangeHits(list) ==
    /\ hits.list # list
    /\ hits' = [hits EXCEPT !.list = list]
    /\ ChangeFiles
    /\ UNCHANGED <<vex, vexSig>>

NarrowNext ==
    \/ \E i \in Intake :
          VerifyDocument(i) \/ ReadDocument(i) \/ WriteIntake(i) \/ IntakeFails(i)
    \/ \E r \in Reconciler :
          \/ ReadReceipt(r) \/ BindDocument(r) \/ Decide(r) \/ LookForRecord(r)
          \/ MakeRecord(r) \/ WriteDecisions(r) \/ WriteNarrowedReceipt(r) \/ NarrowingStops(r)
    \/ \E v \in VexDocument : ChangeDocument(v)
    \/ ChangeSignature
    \/ \E list \in HitList : ChangeHits(list)

-----------------------------------------------------------------------------
(* Properties *)

\* package-id apart, two package URLs are of one package.
SamePackage(p, q) == p.base = q.base /\ p.version = q.version /\ p.arch = q.arch

Says(st, hit) ==
    st.vulnerability = hit.vulnerability
    /\ \E p \in st.products \ {Absent} : SamePackage(p, hit.purl)

\* A recorded decision narrows a hit only if the package is in the handed-off SBOM,
\* a document that cosign verified says "not_affected" of it, and no statement in
\* that document says anything else; unless the document was changed between its
\* verification and the receipt of the intake, which then is of another document.
NarrowedIsJustified ==
    \A x \in records : x.decisions # Absent =>
        \A hit \in {h \in DOMAIN x.decisions : x.decisions[h]} :
            LET v == x.id.statements
                about == {st \in Statements[v] : Says(st, hit)}
            IN /\ \E i \in Intake :
                      /\ intakes[i] # Absent /\ intakes[i].document = v
                      /\ intakes[i].signature = v \/ i \in unverified
               /\ about # {} /\ \A st \in about : st.status = "not_affected"
               /\ \E h \in handoffs :
                      /\ h.id = x.id.handoff
                      /\ \E c \in Elements(Content[h.sbom].components) :
                             c.purl # Absent /\ SamePackage(c.purl, hit.purl)

\* A receipt is never without the decisions whose hash it has, in whatever order
\* calls that record the same question run, fail and die.
ReceiptHasItsDecisions ==
    \A x \in records : x.receipt # Absent => x.receipt = x.decisions

\* A reconciliation that is refused, because its directory exists, finds there the
\* record it would have made; or one without a receipt, of a call that is still at
\* work or has failed; or, since the name does not tell whether document and receipt
\* agreed, the record of a call that found otherwise.
RefusedIsRecorded ==
    \A r \in Reconciler : narrowing[r] = "refused" =>
        \E x \in records :
            /\ x.id = found[r].id
            /\ \/ x.receipt = found[r].decisions
               \/ x.receipt = Absent /\ narrowing[x.by] \in {"deciding", "receipt", "failed"}
               \/ found[x.by].bound # found[r].bound
=============================================================================
