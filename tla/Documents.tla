------------------------------- MODULE Documents -------------------------------
(***************************************************************************)
(* Documents of an employee and the links to them: DocumentsService.       *)
(*                                                                         *)
(* A slot is a member and a type of document.  upload soft-deletes what is *)
(* active in the slot and inserts the new row, two statements that each    *)
(* see what is committed when they start.  A link is a signed token that   *)
(* names one row; nothing of it is stored, and it ends by itself.          *)
(***************************************************************************)
EXTENDS Rows

CONSTANTS
    Slots,
    Documents,      \* rows of documents
    Uploaders       \* requests served at the same time

ASSUME DocumentsAssumption == None \notin Slots \cup Documents

VARIABLES
    document,       \* documents: their slot, and whether they are deleted
    link,           \* rows named by links that have not expired
    uploader,       \* what each handler is doing
    sent,           \* the last answer to a link, and what was active then
    mixed           \* history: slots last uploaded to across another upload

documentsVars == <<document, link, uploader, sent, mixed>>

NotUploaded == [slot |-> None, deleted |-> FALSE]

NothingSent == [document |-> None, active |-> {}, mixed |-> FALSE]

NoUpload == [pc |-> "rest", slot |-> None, saw |-> {}, overtaken |-> FALSE]

(* deletedAt is null. *)
Active(s) == {d \in Documents : document[d].slot = s /\ ~document[d].deleted}

-----------------------------------------------------------------------------
(* upload. *)

(* The updateMany starts: it will delete what is active now.               *)
SoftDelete(h, s) ==
    /\ uploader[h].pc = "rest"
    /\ uploader' = [uploader EXCEPT ![h] =
            [pc |-> "upload", slot |-> s, saw |-> Active(s), overtaken |-> FALSE]]
    /\ UNCHANGED <<document, link, sent, mixed>>

ReplaceDocument(h, d) ==
    document' = [e \in Documents |->
        IF e = d THEN [slot |-> uploader[h].slot, deleted |-> FALSE]
        ELSE IF e \in uploader[h].saw THEN [document[e] EXCEPT !.deleted = TRUE]
        ELSE document[e]]

(* The insert, the audit and the commit. *)
Upload(h, d) ==
    LET s == uploader[h].slot
    IN  /\ uploader[h].pc = "upload"
        /\ document[d] = NotUploaded
        /\ ReplaceDocument(h, d)
        /\ mixed' = IF uploader[h].overtaken THEN mixed \cup {s} ELSE mixed \ {s}
        /\ uploader' = [k \in Uploaders |->
                IF k = h THEN NoUpload
                ELSE IF uploader[k].pc = "upload" /\ uploader[k].slot = s
                THEN [uploader[k] EXCEPT !.overtaken = TRUE]
                ELSE uploader[k]]
        /\ UNCHANGED <<link, sent>>

(* The process stops, or a statement fails and the transaction with it.    *)
UploaderDies(h) ==
    /\ uploader[h].pc = "upload"
    /\ uploader' = [uploader EXCEPT ![h] = NoUpload]
    /\ UNCHANGED <<document, link, sent, mixed>>

-----------------------------------------------------------------------------
(* Links. *)

(* issueDownloadToken: for the owner or a Super Admin; findFirst takes any *)
(* row that is active.                                                     *)
IssueDownloadToken(d) ==
    /\ \E s \in Slots : d \in Active(s)
    /\ link' = link \cup {d}
    /\ UNCHANGED <<document, uploader, sent, mixed>>

(* After five minutes. *)
LinkExpires(d) ==
    /\ d \in link
    /\ link' = link \ {d}
    /\ UNCHANGED <<document, uploader, sent, mixed>>

(* Mutant: the row the link names, deleted or not. *)
NamedByLink(d) == d \in link

Resolves(d) == d \in link /\ ~document[d].deleted

(* resolveDownload: no session, the link is all there is. *)
ResolveDownload(d) ==
    /\ Resolves(d)
    /\ LET s == document[d].slot
       IN  sent' = [document |-> d, active |-> Active(s), mixed |-> s \in mixed]
    /\ UNCHANGED <<document, link, uploader, mixed>>

-----------------------------------------------------------------------------
DocumentsInit ==
    /\ document = [d \in Documents |-> NotUploaded]
    /\ link = {}
    /\ uploader = [h \in Uploaders |-> NoUpload]
    /\ sent = NothingSent
    /\ mixed = {}

DocumentsNext ==
    \/ \E h \in Uploaders :
        \/ \E s \in Slots : SoftDelete(h, s)
        \/ \E d \in Documents : Upload(h, d)
        \/ UploaderDies(h)
    \/ \E d \in Documents : IssueDownloadToken(d) \/ LinkExpires(d) \/ ResolveDownload(d)

DocumentsSpec == DocumentsInit /\ [][DocumentsNext]_documentsVars

-----------------------------------------------------------------------------
(* Properties. *)

(* "At most one row per (membershipId, type) has deletedAt = null;         *)
(* enforced here, not by a DB constraint" (upload): so a link, whenever it *)
(* was issued, sends the one document of the slot that was active when it  *)
(* was followed, and nothing that had been replaced.  Not so from two      *)
(* uploads across each other to the next undisturbed one.                  *)
SentIsCurrent ==
    sent.document # None /\ ~sent.mixed => sent.active = {sent.document}
=============================================================================
