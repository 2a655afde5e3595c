------------------------------- MODULE Artifacts -------------------------------
(***************************************************************************)
(* Artifacts: bytes are streamed to a temporary file and moved to a place  *)
(* named by their hash (server/artifacts/storage.py); an upload then       *)
(* registers, reads back, scans and perhaps quarantines or links them in   *)
(* one transaction (server/api/v1/artifacts_upload.py), a command only     *)
(* registers them (server/application/artifacts.py).  A blob is named by   *)
(* its bytes; an Artifact by the idempotency key of its registration.  The *)
(* names, types and permissions a request is checked for only refuse it    *)
(* before a byte is stored.  Hard delete, the one remover of blobs, is the *)
(* subject of HardDelete.                                                  *)
(***************************************************************************)
EXTENDS Integers, FiniteSets

CONSTANTS
  Uploaders,      \* requests in flight
  Bytes,          \* contents an upload may carry
  ArtKeys,        \* idempotency keys of one account
  SniffOf,        \* what the first bytes of a content look like
  LinkSubjects,   \* subjects of the active handlers that exist
  MaxArtCrashes,  \* bound: processes that die
  MaxUploads      \* bound: requests begun

NoBytes == "none"
\* The families that sniff answers.
Families == {"text", "zip", "image", "binary", "executable"}

ASSUME ArtifactsAssumption ==
  /\ NoBytes \notin Bytes /\ SniffOf \in [Bytes -> Families]
  /\ MaxArtCrashes \in Nat /\ MaxUploads \in Nat

VARIABLES
  blob,       \* the file at <root>/<workspace>/<sha256>, per content
  artifact,   \* rows of artifacts
  ledger,     \* artifact_quarantine: none, open or released
  scans,      \* artifact_scan_results: verdicts recorded per Artifact
  links,      \* artifact_links
  uploader,   \* the request of each process
  artCrashes, \* processes that have died
  uploads     \* requests begun

artifactsVars == <<blob, artifact, ledger, scans, links, uploader, artCrashes, uploads>>

\* Declared types by what the checks tell apart.
DeclaredTypes == {"text", "json", "zip", "docx", "image", "binary", "script"}

ScanVerdicts == {"clean", "infected", "error"}
ArtStatuses == {"registered", "verified", "quarantined", "archived"}
NoArtifact == [status |-> "none", bytes |-> NoBytes, origin |-> "none"]
NoUpload == [at |-> "idle", via |-> "none", key |-> "none", bytes |-> NoBytes,
             typed |-> FALSE, row |-> NoArtifact, scanned |-> {}, held |-> FALSE, subject |-> "none"]

ArtifactsInit ==
  /\ blob = [b \in Bytes |-> "none"]
  /\ artifact = [k \in ArtKeys |-> NoArtifact]
  /\ ledger = [k \in ArtKeys |-> "none"]
  /\ scans = [k \in ArtKeys |-> {}]
  /\ links = {}
  /\ uploader = [u \in Uploaders |-> NoUpload]
  /\ artCrashes = 0 /\ uploads = 0

UploaderBecomes(u, r) == uploader' = [uploader EXCEPT ![u] = r]
EndUpload(u) == UploaderBecomes(u, NoUpload)
rowsUnchanged == UNCHANGED <<artifact, ledger, scans, links>>

-----------------------------------------------------------------------------
\* What streaming leaves at the final place: nothing, the bytes go to a
\* temporary file of the writer's own.  (StreamedInPlace: the plausible
\* wrong variant, a writer that opens the final path.)
StreamedInPlace(b) == [blob EXCEPT ![b] = IF @ = "none" THEN "partial" ELSE @]
WhileStreaming(b) == blob

\* validate_mime: types that are programs are refused before any byte.
TypeAllowed(d) == d # "script"

\* mime_matches: an archive may be any of the container formats, text any
\* textual type or none, bytes of no known kind anything but text; a
\* program agrees with nothing, other families with themselves.
MimeMatches(d, family) ==
  CASE family = "zip"        -> d \in {"zip", "docx"}
    [] family = "text"       -> d \in {"text", "json", "binary"}
    [] family = "binary"     -> d # "text"
    [] family = "executable" -> FALSE
    [] OTHER                 -> d = family

\* POST /upload and RegisterArtifact with content: the name and the type
\* are settled, mkstemp opens a file, the stream is read.
BeginUpload(u, via, k, b, d, s) ==
  /\ uploader[u].at = "idle" /\ uploads < MaxUploads /\ TypeAllowed(d)
  /\ via = "register" => s = "none"
  /\ uploads' = uploads + 1
  /\ UploaderBecomes(u, [NoUpload EXCEPT !.at = "streaming", !.via = via, !.key = k,
                                         !.bytes = b, !.subject = s,
                                         !.typed = via = "register" \/ MimeMatches(d, SniffOf[b])])
  /\ blob' = WhileStreaming(b)
  /\ rowsUnchanged /\ UNCHANGED artCrashes

\* ARTIFACT_TOO_LARGE: the temporary file is unlinked, nothing is kept.
TooLarge(u) ==
  /\ uploader[u].at = "streaming" /\ EndUpload(u)
  /\ rowsUnchanged /\ UNCHANGED <<blob, artCrashes, uploads>>

\* The end of write: fsync, then one rename, unless the place is taken.
MovedIntoPlace(b) == [blob EXCEPT ![b] = IF @ = "none" THEN "whole" ELSE @]
\* An upload whose content does not look like the type it declares is
\* refused only now: its blob stays, with no row.
FinishWrite(u) ==
  LET r == uploader[u] IN
  /\ r.at = "streaming"
  /\ blob' = MovedIntoPlace(r.bytes)
  /\ IF ~r.typed THEN EndUpload(u)
     ELSE UploaderBecomes(u, [r EXCEPT !.at = "stored"])
  /\ rowsUnchanged /\ UNCHANGED <<artCrashes, uploads>>

\* store.append holds the lock of the Artifact's stream to the end of the
\* transaction, for a replay too.
ArtStreamFree(k, u) ==
  \A v \in Uploaders \ {u} : uploader[v].key = k => uploader[v].at \notin {"registered", "checked"}

\* register_artifact: a key that is used replays its Artifact, or conflicts
\* when the body differs; a fresh one inserts the row, seen at commit.
RegisterArtifact(u) ==
  LET r == uploader[u] IN
  /\ r.at = "stored" /\ ArtStreamFree(r.key, u)
  /\ LET row == artifact[r.key] IN
     IF row.status = "none"
     THEN UploaderBecomes(u, [r EXCEPT !.at = "registered",
            !.row = [status |-> "registered", bytes |-> r.bytes, origin |-> r.via]])
     ELSE IF row.bytes = r.bytes
     THEN UploaderBecomes(u, [r EXCEPT !.at = "registered"])
     ELSE EndUpload(u)
  /\ rowsUnchanged /\ UNCHANGED <<blob, artCrashes, uploads>>

\* storage.verify, readback_hash: the file exists and hashes to the bytes.
ReadsBack(b) == blob[b] = "whole"
\* A file that does not read back is not scanned; a scan answers any of the
\* verdicts, for the signatures change and the daemon may be unreachable.
CheckOutcomes(b) ==
  IF ReadsBack(b)
  THEN {[scanned |-> {v}, held |-> v # "clean"] : v \in ScanVerdicts}
  ELSE {[scanned |-> {}, held |-> TRUE]}
CheckSkipped(b) == {[scanned |-> {}, held |-> FALSE]}
CheckStored(u) ==
  LET r == uploader[u] IN
  /\ r.at = "registered"
  /\ \E o \in IF r.via = "upload" THEN CheckOutcomes(r.bytes) ELSE CheckSkipped(r.bytes) :
       UploaderBecomes(u, [r EXCEPT !.at = "checked", !.scanned = o.scanned, !.held = o.held])
  /\ rowsUnchanged /\ UNCHANGED <<blob, artCrashes, uploads>>

\* link_artifact_cmd and link_artifact: a quarantined Artifact and a link
\* that exists are refused, and the refusal rolls the whole upload back.
LinkRefused(r) ==
  LET row == IF r.row = NoArtifact THEN artifact[r.key] ELSE r.row
  IN row.status = "quarantined" \/ <<r.key, r.subject>> \in links

\* record_scan: provenance is only ever added.
RecordScan(k, verdicts) == [scans EXCEPT ![k] = @ \cup verdicts]

\* The commit of the upload's transaction: the row, the scan, the
\* quarantine (status, ledger, audit) or the link, all at once.
CommitUpload(u) ==
  LET r == uploader[u]
      k == r.key
      row == IF r.row = NoArtifact THEN artifact[k] ELSE r.row
      linking == ~r.held /\ r.subject # "none" IN
  /\ r.at = "checked" /\ EndUpload(u)
  /\ IF linking /\ LinkRefused(r) THEN rowsUnchanged ELSE
     /\ artifact' = [artifact EXCEPT ![k] = [row EXCEPT !.status = IF r.held THEN "quarantined" ELSE row.status]]
     /\ ledger' = [ledger EXCEPT ![k] = IF r.held THEN "open" ELSE @]
     /\ scans' = RecordScan(k, r.scanned)
     /\ links' = IF linking THEN links \cup {<<k, r.subject>>} ELSE links
  /\ UNCHANGED <<blob, artCrashes, uploads>>

\* RegisterArtifact with storage_uri, sha256 and size: the file is
\* somebody else's, nothing is looked at.
RegisterExternal(k, b) ==
  /\ artifact[k].status = "none" /\ uploads < MaxUploads
  /\ \A v \in Uploaders : uploader[v].key = k => uploader[v].at \notin {"registered", "checked"}
  /\ artifact' = [artifact EXCEPT ![k] = [status |-> "registered", bytes |-> b, origin |-> "external"]]
  /\ uploads' = uploads + 1
  /\ UNCHANGED <<blob, ledger, scans, links, uploader, artCrashes>>

-----------------------------------------------------------------------------
\* verify_artifact: the row is loaded without a lock, the file is hashed
\* and scanned, and what it said is written over whatever the row says by
\* then.  It writes no ledger row: nothing can release what it quarantines.
LoadForVerify(u, k) ==
  /\ uploader[u].at = "idle" /\ uploads < MaxUploads
  /\ artifact[k].status \notin {"none", "archived"}
  /\ uploads' = uploads + 1
  /\ UploaderBecomes(u, [NoUpload EXCEPT !.at = "verifying", !.key = k, !.bytes = artifact[k].bytes])
  /\ rowsUnchanged /\ UNCHANGED <<blob, artCrashes>>
VerifyArtifact(u) ==
  LET r == uploader[u] IN
  /\ r.at = "verifying" /\ ArtStreamFree(r.key, u) /\ EndUpload(u)
  /\ \E o \in CheckOutcomes(r.bytes) :
       artifact' = [artifact EXCEPT ![r.key].status = IF o.held THEN "quarantined" ELSE "verified"]
  /\ UNCHANGED <<blob, ledger, scans, links, artCrashes, uploads>>

\* An upload that quarantines holds the row it has updated.
ArtRowFree(k) == \A v \in Uploaders : ~(uploader[v].key = k /\ uploader[v].at = "checked" /\ uploader[v].held)

\* archive_artifact: any status but archived, quarantined ones included.
ArchiveArtifact(k) ==
  /\ artifact[k].status \notin {"none", "archived"} /\ ArtRowFree(k)
  /\ artifact' = [artifact EXCEPT ![k].status = "archived"]
  /\ UNCHANGED <<blob, ledger, scans, links, uploader, artCrashes, uploads>>

\* quarantine.release: the open ledger row is closed, and the Artifact is
\* registered again whatever its status had become.
ReleaseQuarantine(k) ==
  /\ ledger[k] = "open" /\ ArtRowFree(k)
  /\ ledger' = [ledger EXCEPT ![k] = "released"]
  /\ artifact' = [artifact EXCEPT ![k].status = "registered"]
  /\ UNCHANGED <<blob, scans, links, uploader, artCrashes, uploads>>

\* LinkArtifact as a command of its own.
LinkArtifact(k, s) ==
  /\ artifact[k].status \notin {"none", "quarantined"} /\ <<k, s>> \notin links
  /\ links' = links \cup {<<k, s>>}
  /\ UNCHANGED <<blob, artifact, ledger, scans, uploader, artCrashes, uploads>>

\* The process dies: the transaction is gone, the files stay.
CrashUploader(u) ==
  /\ uploader[u].at # "idle" /\ artCrashes < MaxArtCrashes
  /\ artCrashes' = artCrashes + 1 /\ EndUpload(u)
  /\ rowsUnchanged /\ UNCHANGED <<blob, uploads>>

ArtifactsNext ==
  \/ \E u \in Uploaders :
       \/ \E via \in {"upload", "register"}, k \in ArtKeys, b \in Bytes,
             d \in DeclaredTypes, s \in LinkSubjects \cup {"none"} : BeginUpload(u, via, k, b, d, s)
       \/ TooLarge(u) \/ FinishWrite(u) \/ RegisterArtifact(u) \/ CheckStored(u) \/ CommitUpload(u)
       \/ \E k \in ArtKeys : LoadForVerify(u, k)
       \/ VerifyArtifact(u) \/ CrashUploader(u)
  \/ \E k \in ArtKeys :
       \/ \E b \in Bytes : RegisterExternal(k, b)
       \/ ArchiveArtifact(k) \/ ReleaseQuarantine(k)
       \/ \E s \in LinkSubjects : LinkArtifact(k, s)
ArtifactsSpec == ArtifactsInit /\ [][ArtifactsNext]_artifactsVars

-----------------------------------------------------------------------------
\* Every variable keeps its shape.
ArtifactsTypeOK ==
  /\ blob \in [Bytes -> {"none", "partial", "whole"}]
  /\ \A k \in ArtKeys :
       /\ artifact[k] = NoArtifact \/ (artifact[k].status \in ArtStatuses /\ artifact[k].bytes \in Bytes)
       /\ ledger[k] \in {"none", "open", "released"} /\ scans[k] \subseteq ScanVerdicts
  /\ links \subseteq ArtKeys \X LinkSubjects
  /\ \A u \in Uploaders : uploader[u].at \in {"idle", "streaming", "stored", "registered", "checked", "verifying"}
  /\ artCrashes \in 0..MaxArtCrashes /\ uploads \in 0..MaxUploads

\* An Artifact whose bytes the server took in has its whole file on disk,
\* through crashes in the middle of a write and writers of the same bytes;
\* and an upload in status registered was scanned clean or released by an
\* administrator: no reader sees it between its registration and its scan
\* (storage.write and the upload handler's single transaction).
TakenInIsSound ==
  \A k \in ArtKeys :
    LET row == artifact[k] IN
    /\ row.origin \in {"upload", "register"} => blob[row.bytes] = "whole"
    /\ (row.origin = "upload" /\ row.status = "registered")
         => ("clean" \in scans[k] \/ ledger[k] = "released")
=============================================================================
