----------------------------- MODULE FounderEdits -----------------------------
(***************************************************************************)
(* The three documents a founder edits under a version number: the overlay *)
(* of the validation report, the launch kit and the recorded decision.  A  *)
(* browser loads a document with its version and sends its edit back; the  *)
(* handler reads the row, compares the versions in memory, and commits the *)
(* changed columns at the end of its transaction.  Only the decision is    *)
(* read FOR UPDATE.  The launch kit is also generated by a task and        *)
(* rewritten in part by the model; the research pipeline replaces the      *)
(* report under its overlay.                                               *)
(*                                                                         *)
(* A document is a map from its parts to the request that wrote them.  The *)
(* prose, the checks on a patch and the models are left out.               *)
(***************************************************************************)
EXTENDS Naturals, FiniteSets

CONSTANTS
  Requests,   \* the edits of the founder's browsers, generations and rewrites
  Parts,      \* the parts of a document: surfaces, fields, the checklist
  DocsOf      \* bound: the documents each request may be about

Docs == {"report", "kit", "decision"}
Raw == "raw"               \* what the pipeline wrote before the first edit
NoReq == "none"

ASSUME EditBounds ==
  /\ {Raw, NoReq} \cap Requests = {} /\ DocsOf \in [Requests -> SUBSET Docs]
  /\ Parts # {}

VARIABLES
  doc,      \* [Docs -> Doc]: the committed rows
  lock,     \* the request that holds the row of the experiment, or NoReq
  req,      \* [Requests -> Request]
  edits,    \* history: edits of each document committed since it exists
  overtaken, \* history: documents committed between the read and the commit of another
  rendered, \* history: the raw report changed under a browser that had loaded it
  blind     \* history: documents with an edit accepted over text its browser never saw

editVars == <<doc, lock, req, edits, overtaken, rendered, blind>>

DocText == [Parts -> Requests \cup {Raw}]
Doc == [exists : BOOLEAN, version : Nat, text : DocText]
Kinds == {"patch", "variant", "generate", "research"}
Request == [pc : {"idle", "loaded", "writing", "over"}, kind : Kinds, of : Docs,
            parts : SUBSET Parts, base : Nat, seen : DocText, read : Doc]

RawText == [p \in Parts |-> Raw]
NewDoc == [exists |-> TRUE, version |-> 0, text |-> RawText]
NoKit == [exists |-> FALSE, version |-> 0, text |-> RawText]
NoRequest == [pc |-> "idle", kind |-> "patch", of |-> "report", parts |-> {},
              base |-> 0, seen |-> RawText, read |-> NoKit]

EditInit ==
  /\ doc = [d \in Docs |-> IF d = "kit" THEN NoKit ELSE NewDoc]
  /\ lock = NoReq
  /\ req = [r \in Requests |-> NoRequest]
  /\ edits = [d \in Docs |-> 0]
  /\ overtaken = {} /\ rendered = FALSE /\ blind = {}

Writing(r, d) == req[r].pc = "writing" /\ req[r].of = d
EndEdit(r) == [req EXCEPT ![r] = [NoRequest EXCEPT !.pc = "over"]]

\* What a patch may change: some parts of the kit, the whole of the others.
Patches(d) == IF d = "kit" THEN {{p} : p \in Parts} ELSE {Parts}

-----------------------------------------------------------------------------
(* A browser loads a document, and later sends an edit of it.              *)

Load(r, d, parts) ==
  /\ req[r].pc = "idle" /\ d \in DocsOf[r] /\ doc[d].exists /\ parts \in Patches(d)
  /\ req' = [req EXCEPT ![r] = [NoRequest EXCEPT
       !.pc = "loaded", !.of = d, !.parts = parts,
       !.base = doc[d].version, !.seen = doc[d].text]]
  /\ UNCHANGED <<doc, lock, edits, overtaken, rendered, blind>>

\* The handler reads the row and compares; the decision is read under the lock.
Locks(d) == d = "decision"

\* Mutant of ReadRow: the versions are not compared.
ReadRowUnchecked(r) ==
  LET d == req[r].of IN
  /\ req[r].pc = "loaded" /\ (Locks(d) => lock = NoReq)
  /\ req' = [req EXCEPT ![r].pc = "writing", ![r].read = doc[d]]
  /\ lock' = IF Locks(d) THEN r ELSE lock
  /\ UNCHANGED <<doc, edits, overtaken, rendered, blind>>

ReadRow(r) ==
  LET d == req[r].of IN
  /\ req[r].pc = "loaded" /\ (Locks(d) => lock = NoReq)
  /\ req[r].base = doc[d].version
  /\ req' = [req EXCEPT ![r].pc = "writing", ![r].read = doc[d]]
  /\ lock' = IF Locks(d) THEN r ELSE lock
  /\ UNCHANGED <<doc, edits, overtaken, rendered, blind>>

\* 409: the browser gives up or loads the document again.
Conflict(r) ==
  LET d == req[r].of IN
  /\ req[r].pc = "loaded" /\ (Locks(d) => lock = NoReq)
  /\ req[r].base # doc[d].version
  /\ req' = [req EXCEPT ![r] = NoRequest]
  /\ UNCHANGED <<doc, lock, edits, overtaken, rendered, blind>>

\* Rewriting one surface reads the kit and then waits for the model.
ReadForVariant(r, p) ==
  /\ req[r].pc = "idle" /\ "kit" \in DocsOf[r] /\ doc["kit"].exists
  /\ req' = [req EXCEPT ![r] = [NoRequest EXCEPT
       !.pc = "writing", !.kind = "variant", !.of = "kit", !.parts = {p},
       !.read = doc["kit"]]]
  /\ UNCHANGED <<doc, lock, edits, overtaken, rendered, blind>>

\* The task that generates the kit looks for the row when the model has answered.
ReadForKit(r) ==
  /\ req[r].pc = "idle" /\ "kit" \in DocsOf[r]
  /\ req' = [req EXCEPT ![r] = [NoRequest EXCEPT
       !.pc = "writing", !.kind = "generate", !.of = "kit", !.parts = Parts,
       !.read = doc["kit"]]]
  /\ UNCHANGED <<doc, lock, edits, overtaken, rendered, blind>>

-----------------------------------------------------------------------------
(* The commits.                                                            *)

Unlocked(r) == lock' = IF lock = r THEN NoReq ELSE lock

\* What another handler has read of the document is now old.
Overtakes(r, d) ==
  overtaken' = IF \E q \in Requests \ {r} : Writing(q, d)
               THEN overtaken \cup {d} ELSE overtaken

\* Mutant of Written: the version the row was read with.
WrittenSameVersion(r) ==
  [exists |-> TRUE, version |-> req[r].read.version,
   text |-> [p \in Parts |-> IF p \in req[r].parts THEN r ELSE req[r].read.text[p]]]

\* The columns the session changed: the text it read with its own parts, and the
\* version it read plus one.
Written(r) ==
  [exists |-> TRUE, version |-> req[r].read.version + 1,
   text |-> [p \in Parts |-> IF p \in req[r].parts THEN r ELSE req[r].read.text[p]]]

\* Two first generations insert the same key: the second fails.
Collides(r) == req[r].kind = "generate" /\ ~req[r].read.exists /\ doc["kit"].exists

CommitEdit(r) ==
  LET d == req[r].of IN
  /\ req[r].pc = "writing" /\ ~Collides(r)
  /\ doc' = [doc EXCEPT ![d] = Written(r)]
  /\ edits' = [edits EXCEPT ![d] = edits[d] + 1]
  /\ Overtakes(r, d) /\ Unlocked(r) /\ req' = EndEdit(r)
  /\ blind' = IF req[r].kind = "patch" /\ req[r].seen # doc[d].text
              THEN blind \cup {d} ELSE blind
  /\ UNCHANGED rendered

\* The row cannot be edited (a decision on an archived experiment is refused), the
\* insert collides, the model fails, the session is rolled back, the process dies.
RollbackEdit(r) ==
  /\ req[r].pc \in {"loaded", "writing"}
  /\ Unlocked(r) /\ req' = EndEdit(r)
  /\ UNCHANGED <<doc, edits, overtaken, rendered, blind>>

\* The research pipeline upserts the report: the overlay and its version stay, and
\* a report that was never edited is rendered from the new text.
WriteReport(r) ==
  /\ req[r].pc = "idle" /\ "report" \in DocsOf[r]
  /\ doc' = IF doc["report"].version = 0
            THEN [doc EXCEPT !["report"].text = [p \in Parts |-> r]] ELSE doc
  /\ rendered' = (rendered \/ \E q \in Requests :
                    req[q].pc \in {"loaded", "writing"} /\ req[q].of = "report")
  /\ req' = EndEdit(r)
  /\ UNCHANGED <<lock, edits, overtaken, blind>>

EditNext ==
  \E r \in Requests :
    \/ \E d \in Docs, parts \in SUBSET Parts : Load(r, d, parts)
    \/ ReadRow(r) \/ Conflict(r) \/ ReadForKit(r) \/ \E p \in Parts : ReadForVariant(r, p)
    \/ CommitEdit(r) \/ RollbackEdit(r) \/ WriteReport(r)

EditSpec == EditInit /\ [][EditNext]_editVars

-----------------------------------------------------------------------------
(* Properties.                                                             *)

EditTypeOK ==
  /\ doc \in [Docs -> Doc] /\ lock \in Requests \cup {NoReq}
  /\ req \in [Requests -> Request] /\ edits \in [Docs -> Nat]
  /\ overtaken \subseteq Docs /\ rendered \in BOOLEAN /\ blind \subseteq Docs

\* The version counts the edits that were accepted, unless one was committed
\* between the read and the commit of another; the lock keeps the decision from
\* that ("incremented on every successful PATCH", validation_report.py).
EditsCounted ==
  /\ "decision" \notin overtaken
  /\ \A d \in Docs \ overtaken : doc[d].version = edits[d]

\* An accepted edit replaces the very text its browser had loaded, unless edits
\* raced or the research replaced a report that was not yet edited: a version that
\* is met twice never hides two texts.
AcceptedAsSeen ==
  /\ blind \subseteq overtaken \cup (IF rendered THEN {"report"} ELSE {})
  /\ "decision" \notin blind

\* "incremented on every successful PATCH": the version counts the edits.
EveryEditCounts == \A d \in Docs : doc[d].version = edits[d]

\* "Other surfaces and metadata are preserved" (regenerate_variant_endpoint): the
\* rewrite of a surface leaves the others as they are when it commits.
VariantKeepsOthers ==
  [][\A r \in Requests :
       (/\ req[r].kind = "variant" /\ req[r].pc = "writing"
        /\ edits' # edits /\ req' = EndEdit(r)) =>
         \A p \in Parts \ req[r].parts : doc'["kit"].text[p] = doc["kit"].text[p]]_editVars

-----------------------------------------------------------------------------
(* The inductive invariant of the proofs.                                  *)

\* What a request may rely on: the lock of the decision, the version it has read and,
\* for the edit of a browser, that the version it loaded is not met again under
\* another text.
Standing(q, r) ==
  /\ q.pc = "writing" /\ q.of = "decision" => lock = r
  /\ q.pc = "writing" /\ q.of \notin overtaken => q.read.version = doc[q.of].version
  /\ q.pc = "loaded" => q.kind = "patch"
  /\ q.pc = "writing" /\ q.kind = "patch" => q.base = q.read.version
  /\ (/\ q.pc \in {"loaded", "writing"} /\ q.kind = "patch"
      /\ q.of \notin overtaken /\ (q.of = "report" => ~rendered)) =>
       /\ q.base <= doc[q.of].version
       /\ q.base = doc[q.of].version => q.seen = doc[q.of].text

EditInv ==
  EditTypeOK /\ EditsCounted /\ AcceptedAsSeen /\ \A r \in Requests : Standing(req[r], r)

=============================================================================
