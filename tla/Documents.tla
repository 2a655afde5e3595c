------------------------------ MODULE Documents ------------------------------
(***************************************************************************)
(* The documentation pipeline for one subject (server/documents and        *)
(* application/publishing.py): versions are drafted from the sources and   *)
(* finalised after a verdict, reviewed, published to a destination and     *)
(* archived.  A version is a row, an Event of the document's stream and a  *)
(* file that is written once, before the transaction commits; publishing   *)
(* calls the destination before it commits.  A crash may fall in between.  *)
(* The text of a version is what it was built from: sources and verdict.   *)
(* Narrative, redaction counts and provenance rows are written with the    *)
(* version and add no state of their own.                                  *)
(***************************************************************************)
EXTENDS Integers, Sequences, FiniteSets

CONSTANTS
  Scribes,      \* transactions in flight
  DocKeys,      \* idempotency keys
  Places,       \* publish destinations
  Subjects,     \* "task" or "other" (brainstorm, schedule run or period)
  MaxSource,    \* bound of the changes of the sources
  MaxRevision,  \* bound of the verdicts
  MaxReviews,   \* bound of the reviews
  MaxDocCrashes \* bound of the crashes

ASSUME DocumentsAssumption ==
  /\ Subjects \subseteq {"task", "other"} /\ IsFiniteSet(DocKeys) /\ "nobody" \notin Scribes
  /\ MaxSource \in Nat \ {0} /\ {MaxRevision, MaxReviews, MaxDocCrashes} \subseteq Nat

VARIABLES
  subject,      \* what the document is about
  source,       \* how far the subject's Events have come
  verdict,      \* verification_runs: revision and result
  docVersions,  \* document_versions: status, text, key
  docStream,    \* Events of the document
  files,        \* the canonical store: version -> text
  docLock,      \* holder of the documents row (or of its insert)
  scribe,       \* the transaction of each scribe
  reviews,      \* publish_reviews in order
  publication,  \* published_documents: destination -> version -> state
  outside,      \* what each destination holds: version -> text
  docCrashes

docVars == <<subject, source, verdict, docVersions, docStream, files, docLock, scribe,
             reviews, publication, outside, docCrashes>>

Text(src, stage, rev) == [source |-> src, stage |-> stage, revision |-> rev]

\* The skeletons: build_skeleton of a Task's frozen sources, and
\* build_subject_skeleton of a brainstorm, a schedule run or a period.
TaskSkeleton(src, stage, rev) == Text(src, stage, rev)
SubjectSkeleton(src) == Text(src, "DRAFT", 0)
MaxVersion == 3 * Cardinality(DocKeys)
NoScribe == "nobody"
Asleep == [op |-> "idle", key |-> "none", text |-> Text(0, "none", 0), version |-> 0,
           place |-> "none", quiet |-> FALSE]

DocInit ==
  /\ subject \in Subjects /\ source = 1 /\ verdict = [revision |-> 0, result |-> "none"]
  /\ docVersions = <<>> /\ docStream = <<>> /\ files = <<>>
  /\ docLock = NoScribe /\ scribe = [a \in Scribes |-> Asleep]
  /\ reviews = <<>> /\ publication = [d \in Places |-> <<>>]
  /\ outside = [d \in Places |-> <<>>] /\ docCrashes = 0

PutAt(f, k, v) == [x \in DOMAIN f \cup {k} |-> IF x = k THEN v ELSE f[x]]
DropAt(f, k) == [x \in DOMAIN f \ {k} |-> f[x]]
ScribeFree(a) == scribe[a].op = "idle"
ScribeBecomes(a, t) == scribe' = [scribe EXCEPT ![a] = t]

-----------------------------------------------------------------------------
\* The subject's own progress, and verdicts of its verification run.
SourceChanges ==
  /\ source < MaxSource /\ source' = source + 1
  /\ UNCHANGED <<subject, verdict, docVersions, docStream, files, docLock, scribe,
                 reviews, publication, outside, docCrashes>>

VerdictGiven(result) ==
  /\ subject = "task" /\ verdict.revision < MaxRevision /\ verdict.result # "PASSED"
  /\ verdict' = [revision |-> verdict.revision + 1, result |-> result]
  /\ UNCHANGED <<subject, source, docVersions, docStream, files, docLock, scribe,
                 reviews, publication, outside, docCrashes>>

\* _replay: a version Event with this scope and key exists.
Replayed(stage, k) ==
  \E i \in DOMAIN docStream : docStream[i].type = stage /\ docStream[i].key = k

Unchanged == /\ docVersions # <<>>
             /\ LET last == docVersions[Len(docVersions)]
                IN  last.text.stage = "DRAFT" /\ last.text.source = source

\* What both drafting operations do up to the row lock: nothing for a replayed
\* key or an unchanged text, else the text is built from the frozen sources.
ReadForDraft(a, k, text, quiet) ==
  /\ ScribeFree(a) /\ ~Replayed("DRAFT", k) /\ ~Unchanged
  /\ ScribeBecomes(a, [Asleep EXCEPT !.op = "lock", !.key = k, !.text = text, !.quiet = quiet])
  /\ UNCHANGED <<subject, source, verdict, docVersions, docStream, files, docLock,
                 reviews, publication, outside, docCrashes>>

\* collect_task_sources and its siblings: what the document is built from.
TaskSources == source
SubjectSources == source

\* draft_document, called by the command and by on_implementation_submitted.
DraftDocument(a, k) ==
  /\ subject = "task"
  /\ ReadForDraft(a, k, TaskSkeleton(TaskSources, "DRAFT", 0), FALSE)

\* draft_subject, called by auto_draft_subject.
DraftSubject(a, k) ==
  /\ subject = "other" /\ ReadForDraft(a, k, SubjectSkeleton(SubjectSources), TRUE)

\* ensure_task_document, the hook of a terminal Task: only when no documents
\* row exists, and a refusal of the store is recorded, not raised.
EnsureTaskDocument(a, k) ==
  /\ subject = "task" /\ docStream = <<>>
  /\ ReadForDraft(a, k, TaskSkeleton(TaskSources, "DRAFT", 0), TRUE)

\* Mutant of FinalStage: the stage is named after the verdict.
FinalStageAsResult(result) == result

FinalStage(result) == IF result = "PASSED" THEN "FINALIZED" ELSE "ATTEMPT_FINALIZED"

HasFinal(rev) == \E i \in DOMAIN docVersions : docVersions[i].text.revision = rev

\* finalize_attempt up to the row lock: the run's result, and nothing to do
\* when this revision has its version.
FinalizeAttempt(a, k) ==
  /\ ScribeFree(a) /\ verdict.revision > 0 /\ ~HasFinal(verdict.revision)
  /\ ~Replayed(FinalStage(verdict.result), k)
  /\ ScribeBecomes(a, [Asleep EXCEPT !.op = "lock", !.key = k,
                  !.text = TaskSkeleton(TaskSources, FinalStage(verdict.result),
                                        verdict.revision)])
  /\ UNCHANGED <<subject, source, verdict, docVersions, docStream, files, docLock,
                 reviews, publication, outside, docCrashes>>

\* _ensure_document: FOR UPDATE and the next version number.
EnsureDocument(a) ==
  /\ scribe[a].op = "lock" /\ docLock = NoScribe /\ docLock' = a
  /\ ScribeBecomes(a, [scribe[a] EXCEPT !.op = "append", !.version = Len(docVersions) + 1])
  /\ UNCHANGED <<subject, source, verdict, docVersions, docStream, files,
                 reviews, publication, outside, docCrashes>>

\* An append of another transaction to the stream is not committed yet.
StreamHeld == \E a \in Scribes : scribe[a].op = "stored"

VersionFits(v) == v = Len(docStream) + 1

\* What the store's append asks: a fresh key (another version under a used
\* one is IDEMPOTENCY_CONFLICT) and the expected sequence number.
Appends(a) == VersionFits(scribe[a].version) /\ ~Replayed(scribe[a].text.stage, scribe[a].key)

\* write_version refuses a version whose files exist.
WriteOnce(v) == v \notin DOMAIN files

\* The version's Event, with expected_seq = version, and the file, which a
\* rollback leaves behind.
StoreVersion(a) ==
  /\ scribe[a].op = "append" /\ Appends(a) /\ WriteOnce(scribe[a].version)
  /\ files' = PutAt(files, scribe[a].version, scribe[a].text)
  /\ ScribeBecomes(a, [scribe[a] EXCEPT !.op = "stored"])
  /\ UNCHANGED <<subject, source, verdict, docVersions, docStream, docLock,
                 reviews, publication, outside, docCrashes>>

VersionEvent(a) == [type |-> scribe[a].text.stage, key |-> scribe[a].key,
                    version |-> scribe[a].version]

\* _persist_version and the commit of the command around it.
PersistVersion(a) ==
  /\ scribe[a].op = "stored"
  /\ docVersions' = Append(docVersions, [text |-> scribe[a].text, key |-> scribe[a].key])
  /\ docStream' = Append(docStream, VersionEvent(a))
  /\ docLock' = NoScribe /\ ScribeBecomes(a, Asleep)
  /\ UNCHANGED <<subject, source, verdict, files, reviews, publication, outside, docCrashes>>

\* auto_draft_subject and ensure_task_document catch the refusal of the store,
\* record the failure and let the transaction commit: the Event stays without
\* its version.
RecordFailure(a) ==
  /\ scribe[a].op = "append" /\ scribe[a].quiet
  /\ Appends(a) /\ ~WriteOnce(scribe[a].version)
  /\ docStream' = Append(docStream, VersionEvent(a))
  /\ docLock' = NoScribe /\ ScribeBecomes(a, Asleep)
  /\ UNCHANGED <<subject, source, verdict, docVersions, files, reviews, publication,
                 outside, docCrashes>>

\* A version refused on the way (SEQUENCE_CONFLICT, IDEMPOTENCY_CONFLICT,
\* DOCUMENT_VERSION_EXISTS): rollback.
DocumentRefused(a) ==
  /\ scribe[a].op = "append"
  /\ ~Appends(a) \/ (~WriteOnce(scribe[a].version) /\ ~scribe[a].quiet)
  /\ docLock' = NoScribe /\ ScribeBecomes(a, Asleep)
  /\ UNCHANGED <<subject, source, verdict, docVersions, docStream, files, reviews,
                 publication, outside, docCrashes>>

\* The process stops, or the command around the pipeline fails later on.
ScribeCrash(a) ==
  /\ ~ScribeFree(a) /\ docCrashes < MaxDocCrashes /\ docCrashes' = docCrashes + 1
  /\ docLock' = (IF docLock = a THEN NoScribe ELSE docLock)
  /\ ScribeBecomes(a, Asleep)
  /\ UNCHANGED <<subject, source, verdict, docVersions, docStream, files, reviews,
                 publication, outside>>

-----------------------------------------------------------------------------
IsFinalized(v) == v \in DOMAIN docVersions /\ docVersions[v].text.stage = "FINALIZED"

\* review_document: one append and one row, in one transaction.
ReviewDocument(v, decision) ==
  /\ Len(reviews) < MaxReviews /\ IsFinalized(v) /\ ~StreamHeld
  /\ docStream' = Append(docStream, [type |-> "REVIEWED", key |-> "none", version |-> v])
  /\ reviews' = Append(reviews, [version |-> v, decision |-> decision])
  /\ UNCHANGED <<subject, source, verdict, docVersions, files, docLock, scribe,
                 publication, outside, docCrashes>>

\* Mutant of ApprovedReview: the latest review of any version.
ApprovedReviewOfAny(v) == reviews # <<>> /\ reviews[Len(reviews)].decision = "APPROVED"

\* _approved_review: the latest review of this version.
ApprovedReview(v) ==
  \E i \in DOMAIN reviews :
    /\ reviews[i] = [version |-> v, decision |-> "APPROVED"]
    /\ \A j \in DOMAIN reviews : reviews[j].version = v => j <= i

\* publish_document up to the call of the publisher.
ReadForPublish(a, d, v) ==
  /\ ScribeFree(a) /\ IsFinalized(v) /\ v \notin DOMAIN publication[d] /\ ApprovedReview(v)
  /\ v \in DOMAIN files
  /\ ScribeBecomes(a, [Asleep EXCEPT !.op = "publish", !.version = v, !.place = d, !.text = files[v]])
  /\ UNCHANGED <<subject, source, verdict, docVersions, docStream, files, docLock,
                 reviews, publication, outside, docCrashes>>

\* publisher.publish: the destination replaces the files of that version.
PublishOutside(a) ==
  /\ scribe[a].op = "publish"
  /\ outside' = [outside EXCEPT ![scribe[a].place] = PutAt(@, scribe[a].version, scribe[a].text)]
  /\ ScribeBecomes(a, [scribe[a] EXCEPT !.op = "record"])
  /\ UNCHANGED <<subject, source, verdict, docVersions, docStream, files, docLock,
                 reviews, publication, docCrashes>>

\* The destination refuses or is down; the attempt row rolls back with the rest.
PublishRefused(a) ==
  /\ scribe[a].op = "publish" /\ ScribeBecomes(a, Asleep)
  /\ UNCHANGED <<subject, source, verdict, docVersions, docStream, files, docLock,
                 reviews, publication, outside, docCrashes>>

\* The rest of publish_document; the unique index refuses the loser of two.
RecordPublication(a) ==
  LET d == scribe[a].place
      v == scribe[a].version
      first == v \notin DOMAIN publication[d]
  IN  /\ scribe[a].op = "record" /\ ~StreamHeld
      /\ publication' = IF first THEN [publication EXCEPT ![d] = PutAt(@, v, "published")]
                        ELSE publication
      /\ docStream' = IF first THEN Append(docStream, [type |-> "PUBLISHED", key |-> "none",
                                                       version |-> v])
                      ELSE docStream
      /\ ScribeBecomes(a, Asleep)
      /\ UNCHANGED <<subject, source, verdict, docVersions, files, docLock, reviews,
                     outside, docCrashes>>

\* archive_published: the row is locked, the destination called, the row
\* marked.  A destination that does not hold the version refuses.
ArchiveOutside(a, d, v) ==
  /\ ScribeFree(a) /\ v \in DOMAIN publication[d] /\ publication[d][v] = "published"
  /\ v \in DOMAIN outside[d]
  /\ \A b \in Scribes : ~(scribe[b].op = "archive" /\ scribe[b].place = d /\ scribe[b].version = v)
  /\ outside' = [outside EXCEPT ![d] = DropAt(@, v)]
  /\ ScribeBecomes(a, [Asleep EXCEPT !.op = "archive", !.version = v, !.place = d])
  /\ UNCHANGED <<subject, source, verdict, docVersions, docStream, files, docLock,
                 reviews, publication, docCrashes>>

RecordArchive(a) ==
  /\ scribe[a].op = "archive"
  /\ publication' = [publication EXCEPT ![scribe[a].place][scribe[a].version] = "archived"]
  /\ ScribeBecomes(a, Asleep)
  /\ UNCHANGED <<subject, source, verdict, docVersions, docStream, files, docLock, reviews,
                 outside, docCrashes>>

DocNext ==
  \/ SourceChanges
  \/ \E r \in {"FAILED", "PASSED"} : VerdictGiven(r)
  \/ \E a \in Scribes :
       \/ \E k \in DocKeys : DraftDocument(a, k) \/ DraftSubject(a, k)
                             \/ EnsureTaskDocument(a, k) \/ FinalizeAttempt(a, k)
       \/ EnsureDocument(a) \/ StoreVersion(a) \/ PersistVersion(a) \/ RecordFailure(a)
       \/ DocumentRefused(a) \/ ScribeCrash(a)
       \/ \E d \in Places, v \in 1..MaxVersion : ReadForPublish(a, d, v) \/ ArchiveOutside(a, d, v)
       \/ PublishOutside(a) \/ PublishRefused(a) \/ RecordPublication(a) \/ RecordArchive(a)
  \/ \E v \in 1..MaxVersion, r \in {"APPROVED", "REJECTED"} : ReviewDocument(v, r)

DocSpec == DocInit /\ [][DocNext]_docVars

-----------------------------------------------------------------------------
DocTypeOK ==
  /\ source \in 1..MaxSource /\ verdict.revision \in 0..MaxRevision
  /\ verdict.result \in {"none", "PASSED", "FAILED"}
  /\ \A i \in DOMAIN docVersions :
       docVersions[i].text.stage \in {"DRAFT", "ATTEMPT_FINALIZED", "FINALIZED"}
  /\ docLock \in Scribes \cup {NoScribe} /\ Len(docVersions) <= MaxVersion
  /\ \A d \in Places : \A v \in DOMAIN publication[d] :
       publication[d][v] \in {"published", "archived"}

\* What a destination shows and what a version says, with concurrent drafts,
\* finalisations, reviews and publications and a crash between a file and its
\* commit: every version row has its Event and its own text on disk, a final
\* version says what the verdict of its revision said, every destination
\* holds only the text of final versions that were approved, and a version
\* recorded as published is there unless an archive was interrupted
\* (_persist_version, write_version, finalize_attempt, publish_document,
\* archive_published).
OnlyApprovedIsOutside ==
  /\ \A i \in DOMAIN docVersions :
       /\ i \in DOMAIN files /\ files[i] = docVersions[i].text
       /\ \E j \in DOMAIN docStream : docStream[j].version = i
                                      /\ docStream[j].type = docVersions[i].text.stage
       /\ docVersions[i].text.stage = "FINALIZED" =>
            verdict.result = "PASSED" /\ docVersions[i].text.revision = verdict.revision
  /\ \A d \in Places :
       /\ \A v \in DOMAIN outside[d] :
            /\ IsFinalized(v) /\ outside[d][v] = docVersions[v].text
            /\ \E i \in DOMAIN reviews : reviews[i] = [version |-> v, decision |-> "APPROVED"]
       /\ \A v \in DOMAIN publication[d] :
            publication[d][v] = "published" /\ docCrashes = 0 =>
              \/ v \in DOMAIN outside[d]
              \/ \E a \in Scribes : scribe[a].op = "archive" /\ scribe[a].version = v
==============================================================================
