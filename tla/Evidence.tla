------------------------------ MODULE Evidence ------------------------------
(***************************************************************************)
(* The evidence of a case and the documents stored for it.                 *)
(*                                                                         *)
(* A verifier's request decides on a copy of the row it has read through   *)
(* the connection pool; the transaction that writes the copy back locks    *)
(* the row and checks the transition again.  A document is a row and a     *)
(* file: the file is written before the row is inserted and removed before *)
(* the row is deleted, and nothing makes the two one.  A transaction is a  *)
(* single step, every call of the storage provider is one or two.          *)
(***************************************************************************)
EXTENDS Naturals, Sequences

CONSTANTS
    Items,      \* pieces of evidence
    Documents,  \* rows of evidence_documents that may be inserted
    Suffixes,   \* of a storage key: day of the upload and extension of the name
    Handlers,   \* concurrently running requests
    MaxTime,    \* bound on the clock: the verifications that are started
    None,       \* no row, no file, no value
    Deleted     \* a document's row that is gone

VerificationStatus == {"UNVERIFIED", "NEEDS_REVIEW", "VERIFIED", "REJECTED"}

ASSUME NoneIsNoValue ==
    /\ MaxTime \in Nat
    /\ None \notin VerificationStatus \cup (Items \X Suffixes)
    /\ \A D \in SUBSET Documents : D # None
    /\ Deleted \notin {None} \cup (Items \X Suffixes)

VARIABLES
    evidence,  \* evidence: the verification status of each row
    history,   \* evidence_verification_history, in the order of insertion
    clock,     \* the time the next verification is stamped with
    document,  \* evidence_documents: the storage key of each row
    file,      \* storage: the documents whose bytes the file of a key holds
    apart,     \* keys at which a request was broken off between file and row
    handler    \* local variables of each request

rows == <<evidence, history, clock>>
stored == <<document, file, apart>>
evidenceVars == <<evidence, history, clock, document, file, apart, handler>>

-----------------------------------------------------------------------------
(* GenerateStorageKey: nothing in a key tells two documents of one piece   *)
(* of evidence apart but the day and the extension.                        *)
GenerateStorageKey(e, s) == <<e, s>>

Keys == {GenerateStorageKey(e, s) : e \in Items, s \in Suffixes}

IsValidVerificationTransition(from, to) ==
    /\ to \in VerificationStatus \ {from, "UNVERIFIED"}
    /\ from \in VerificationStatus

(* Local variables: the item and the status it is to get, the time that    *)
(* was stamped on it; the document, its key, and whether the file that is  *)
(* open for writing is still the one found under that key.                 *)
AtRest == [pc |-> "idle", item |-> None, to |-> None, at |-> 0,
         document |-> None, key |-> None, linked |-> FALSE]

EvidenceInit ==
    /\ evidence = [e \in Items |-> None]
    /\ history = [e \in Items |-> <<>>]
    /\ clock = 0
    /\ document = [d \in Documents |-> None]
    /\ file = [k \in Keys |-> None]
    /\ apart = {}
    /\ handler = [p \in Handlers |-> AtRest]

IsAt(p, label) == handler[p].pc = label

(* FindByID, FindDocumentByID: there is such a row.                        *)
Exists(e) == evidence[e] # None

Listed(d) == document[d] \in Keys

Begin(p, r) ==
    /\ IsAt(p, "idle")
    /\ handler' = [handler EXCEPT ![p] = r]
    /\ UNCHANGED stored

GoTo(p, label) == handler' = [handler EXCEPT ![p] = [@ EXCEPT !.pc = label]]

Done(p) == handler' = [handler EXCEPT ![p] = AtRest]

-----------------------------------------------------------------------------
(* Evidence and its verification.                                          *)

(* NewEvidence: whatever the source, it is yet to be verified.             *)
NewEvidence == "UNVERIFIED"

(* saveEvidence is an INSERT; a row with that id refuses it.               *)
InsertEvidence(e) ==
    evidence' = IF Exists(e) THEN evidence
                ELSE [evidence EXCEPT ![e] = NewEvidence]

AddEvidence(e) ==
    /\ ~Exists(e)
    /\ InsertEvidence(e)
    /\ UNCHANGED <<history, clock, stored, handler>>

(* The copy that has been moved to a status and stamped.                   *)
Moved(e, to, at) ==
    [AtRest EXCEPT !.pc = "verifying", !.item = e, !.to = to, !.at = at]

(* The copy is made before the transaction.                                *)
StartVerification(p, e, to) ==
    /\ Exists(e)
    /\ IsValidVerificationTransition(evidence[e], to)
    /\ clock < MaxTime
    /\ clock' = clock + 1
    /\ Begin(p, Moved(e, to, clock + 1))
    /\ UNCHANGED <<evidence, history>>

VerifyEvidence(p, e) == StartVerification(p, e, "VERIFIED")

RejectEvidence(p, e) == StartVerification(p, e, "REJECTED")

MarkEvidenceForReview(p, e) == StartVerification(p, e, "NEEDS_REVIEW")

(* saveVerificationHistory is called twice for one transition, by the      *)
(* repository's update and by the service.                                 *)
SaveVerificationHistory(e, status, at) ==
    LET record == [status |-> status, at |-> at] IN
    history' = [history EXCEPT ![e] = @ \o <<record, record>>]

(* The row is read again FOR UPDATE; and an update that trusts the copy.   *)
UpdateUnchecked(e, to, at) ==
    /\ evidence' = [evidence EXCEPT ![e] = to]
    /\ SaveVerificationHistory(e, to, at)
UpdateVerificationTx(e, to, at) ==
    IF IsValidVerificationTransition(evidence[e], to)
    THEN /\ evidence' = [evidence EXCEPT ![e] = to]
         /\ SaveVerificationHistory(e, to, at)
    ELSE UNCHANGED <<evidence, history>>

UpdateVerification(p) ==
    /\ IsAt(p, "verifying")
    /\ UpdateVerificationTx(handler[p].item, handler[p].to, handler[p].at)
    /\ Done(p)
    /\ UNCHANGED <<clock, stored>>

(* The new metadata is written with the INSERT of a new row, under the id  *)
(* of the row that is there: the primary key refuses every such request.   *)
UpdateEvidenceMetadata(p, e) ==
    /\ Exists(e)
    /\ Begin(p, [AtRest EXCEPT !.pc = "inserting", !.item = e])
    /\ UNCHANGED rows

SaveEvidence(p) ==
    /\ IsAt(p, "inserting")
    /\ InsertEvidence(handler[p].item)
    /\ Done(p)
    /\ UNCHANGED <<history, clock, stored>>

-----------------------------------------------------------------------------
(* The local storage provider.                                             *)

(* Removing a name leaves those who write to the file with a file that     *)
(* nobody finds.  label is where p goes on.                                *)
Remove(p, k, label) ==
    /\ file' = [file EXCEPT ![k] = None]
    /\ handler' = [q \in Handlers |->
          IF q = p THEN IF label = "idle" THEN AtRest
                        ELSE [handler[p] EXCEPT !.pc = label]
          ELSE IF handler[q].key = k THEN [handler[q] EXCEPT !.linked = FALSE]
          ELSE handler[q]]

(* Create the file, or truncate what another document put there.           *)
OpenFile(p) ==
    LET r == handler[p] IN
    /\ IsAt(p, "opening")
    /\ file' = [file EXCEPT ![r.key] = {r.document}]
    /\ handler' = [handler EXCEPT ![p] = [@ EXCEPT !.pc = "writing", !.linked = TRUE]]
    /\ UNCHANGED <<rows, document, apart>>

(* Two that write to one file leave a mixture.                             *)
WriteFile(p) ==
    LET r == handler[p] IN
    /\ IsAt(p, "writing")
    /\ file' = IF r.linked THEN [file EXCEPT ![r.key] = @ \cup {r.document}]
                           ELSE file
    /\ handler' = [handler EXCEPT ![p] = [@ EXCEPT !.pc = "saving", !.linked = FALSE]]
    /\ UNCHANGED <<rows, document, apart>>

-----------------------------------------------------------------------------
(* Documents.                                                              *)

(* The upload handler makes up the identifier of the document; the name    *)
(* and the day are the client's.                                           *)
StartUpload(p, e, d, s) ==
    /\ Exists(e)
    /\ document[d] = None
    /\ \A q \in Handlers : handler[q].document # d
    /\ Begin(p, [AtRest EXCEPT !.pc = "opening", !.document = d,
                             !.key = GenerateStorageKey(e, s)])
    /\ UNCHANGED rows

UploadDocument(p, e) ==
    \E d \in Documents, s \in Suffixes : StartUpload(p, e, d, s)

(* The write fails; or size, content type or name are not accepted, which  *)
(* is found out when the file is there.                                    *)
RefuseUpload(p) ==
    /\ IsAt(p, "writing") \/ IsAt(p, "saving")
    /\ GoTo(p, "discarding")
    /\ UNCHANGED <<rows, stored>>

(* The unique index on the storage key: a failed insert discards the file. *)
(* When the connection is lost at COMMIT the row is there and the file is  *)
(* discarded all the same.  And an upload that only returns the error.     *)
SaveAndReturn(p) ==
    LET r == handler[p] IN
    /\ IsAt(p, "saving")
    /\ document' = IF \E d \in Documents : document[d] = r.key THEN document
                   ELSE [document EXCEPT ![r.document] = r.key]
    /\ Done(p)
    /\ UNCHANGED <<rows, file, apart>>
SaveDocument(p) ==
    LET r == handler[p]
        taken == \E d \in Documents : document[d] = r.key IN
    /\ IsAt(p, "saving")
    /\ \/ /\ ~taken
          /\ document' = [document EXCEPT ![r.document] = r.key]
          /\ Done(p)
          /\ UNCHANGED apart
       \/ /\ ~taken
          /\ document' = [document EXCEPT ![r.document] = r.key]
          /\ apart' = apart \cup {r.key}
          /\ GoTo(p, "discarding")
       \/ /\ taken
          /\ GoTo(p, "discarding")
          /\ UNCHANGED <<document, apart>>
    /\ UNCHANGED <<rows, file>>

DiscardFile(p) ==
    /\ IsAt(p, "discarding")
    /\ Remove(p, handler[p].key, "idle")
    /\ UNCHANGED <<rows, document, apart>>

StartDelete(p, d) ==
    /\ Listed(d)
    /\ Begin(p, [AtRest EXCEPT !.pc = "removing", !.document = d,
                             !.key = document[d]])
    /\ UNCHANGED rows

DeleteRequest(p) == \E d \in Documents : StartDelete(p, d)

RemoveFile(p) ==
    /\ IsAt(p, "removing")
    /\ Remove(p, handler[p].key, "unlisting")
    /\ UNCHANGED <<rows, document, apart>>

(* A row that is gone already makes the request an error and no more.      *)
DeleteDocument(p) ==
    /\ IsAt(p, "unlisting")
    /\ document' = [document EXCEPT ![handler[p].document] = Deleted]
    /\ Done(p)
    /\ UNCHANGED <<rows, file, apart>>

-----------------------------------------------------------------------------
(* An error before a commit, a file that cannot be removed, a process that *)
(* dies: the request ends where it is and nothing is undone.               *)
BreakOff(p) ==
    LET r == handler[p] IN
    /\ r.pc # "idle"
    /\ apart' = IF r.key # None /\ ~IsAt(p, "opening") /\ ~IsAt(p, "removing")
                THEN apart \cup {r.key} ELSE apart
    /\ Done(p)
    /\ UNCHANGED <<rows, document, file>>

(* A client sends a request.                                               *)
Receive(p) ==
    \/ \E e \in Items :
          \/ VerifyEvidence(p, e) \/ RejectEvidence(p, e)
          \/ MarkEvidenceForReview(p, e) \/ UpdateEvidenceMetadata(p, e)
          \/ UploadDocument(p, e)
    \/ DeleteRequest(p)

(* What a started request does next on its own.                            *)
Step(p) ==
    \/ UpdateVerification(p) \/ SaveEvidence(p)
    \/ OpenFile(p) \/ WriteFile(p) \/ SaveDocument(p) \/ DiscardFile(p)
    \/ RemoveFile(p) \/ DeleteDocument(p)

EvidenceNext ==
    \/ \E e \in Items : AddEvidence(e)
    \/ \E p \in Handlers : Receive(p) \/ Step(p) \/ RefuseUpload(p) \/ BreakOff(p)

EvidenceSpec == EvidenceInit /\ [][EvidenceNext]_evidenceVars

-----------------------------------------------------------------------------
(* Type invariant.                                                         *)

Record == [status : VerificationStatus \ {"UNVERIFIED"}, at : 1..MaxTime]

Handler ==
    [pc : {"idle", "verifying", "inserting", "opening", "writing", "saving",
           "discarding", "removing", "unlisting"},
     item : Items \cup {None}, to : VerificationStatus \cup {None},
     at : 0..MaxTime, document : Documents \cup {None},
     key : Keys \cup {None}, linked : BOOLEAN]

(* Every row, file and request-local variable holds a value the code can   *)
(* store in it; a file that is open for writing and not unlinked exists.   *)
EvidenceTypeOK ==
    /\ evidence \in [Items -> VerificationStatus \cup {None}]
    /\ history \in [Items -> Seq(Record)]
    /\ clock \in 0..MaxTime
    /\ document \in [Documents -> Keys \cup {None, Deleted}]
    /\ file \in [Keys -> (SUBSET Documents) \cup {None}]
    /\ apart \subseteq Keys
    /\ handler \in [Handlers -> Handler]
    /\ \A p \in Handlers : handler[p].linked => file[handler[p].key] # None

-----------------------------------------------------------------------------
(* Safety and liveness.                                                    *)

(* The history is the walk the status has made, each transition recorded   *)
(* twice: of two verifiers who both saw the same status and came to the    *)
(* same result one is refused, and no decision is lost.                    *)
HistoryIsTheWalk ==
    \A e \in Items :
        LET h == history[e] IN
        /\ evidence[e] \in {None, "UNVERIFIED"} <=> h = <<>>
        /\ h # <<>> => h[Len(h)].status = evidence[e]
        /\ \A i \in 1..(Len(h) - 1) :
              IF i % 2 = 1 THEN h[i + 1] = h[i]
              ELSE IsValidVerificationTransition(h[i].status, h[i + 1].status)

(* A file that no row names is being uploaded, unless a request was broken *)
(* off at its key: whatever is refused after it was stored is removed.     *)
FilesHaveRows ==
    \A k \in Keys \ apart :
        file[k] # None =>
            \/ \E d \in Documents : document[d] = k
            \/ \E p \in Handlers : handler[p].key = k
=============================================================================
