----------------------- MODULE CertificateVerification -----------------------
(***************************************************************************)
(* The queries of internal/application/queries.go that read more than once *)
(* next to the commands of CommandStore: VerifyCertificate reads the batch,*)
(* the certificate and the audit trail, GetAudit the trail and, if it is   *)
(* empty, whether the batch exists.  They run outside any transaction, and *)
(* a command may commit between two reads.  A query reads only, so one at  *)
(* a time stands for any number of them.                                   *)
(***************************************************************************)
EXTENDS CommandStore

VARIABLE query   (* the query: where it is, its process and batch, the         *)
                 (* revisions of the batch that clients had been told of and   *)
                 (* the one it had when the query began, the rows read, and    *)
                 (* what the last one found                                    *)

NoQuery == [at |-> "idle", process |-> None, batch |-> None, told |-> {}, began |-> 0,
            row |-> None, certificate |-> None, verdict |-> None, view |-> None]

\* The revisions of batch b that clients have been told of.
Told(b) == {answer[2] : answer \in {a \in heard : a[1].batch = b}}

\* A query that begins on process p about batch b.
Begun(p, b, at) ==
  [at |-> at, process |-> p, batch |-> b, told |-> Told(b), began |-> Revision(b, db),
   row |-> None, certificate |-> None, verdict |-> None, view |-> None]

\* The answer to query q: a trail of the batch, or that there is no such batch.
View(q, found, events) ==
  [NoQuery EXCEPT !.view = [batch |-> q.batch, found |-> found, events |-> events,
                            told |-> q.told, began |-> q.began]]

\* Generator.Verify: the row must be the final state that the payload names, and the
\* audit trail must end where the certificate sealed it.
Verify(row, certificate, root) ==
  [batchStateValid |-> row.status = "approved_sealed" /\ row.revision = certificate.revision,
   auditRootValid  |-> certificate.root = root]

Valid(verdict) == verdict.batchStateValid /\ verdict.auditRootValid

-----------------------------------------------------------------------------
\* A query takes a connection of its process and a SHARED lock for as long as it runs.
MayQuery(p) ==
  /\ phase[p] \in {"serving", "draining"} /\ MayRead
  /\ Cardinality(Connected(p)) < MaxOpenConns

\* GetBatch; a batch that does not exist is not found.
ReadBatch(p, b) ==
  /\ query.at = "idle" /\ MayQuery(p) /\ phase[p] = "serving"
  /\ query' = LET q == Begun(p, b, "certificate") IN
       IF db.batches[b] = None
       THEN View(q, FALSE, <<>>)
       ELSE [q EXCEPT !.row = db.batches[b]]
  /\ UNCHANGED vars

\* GetCertificate.
ReadCertificate ==
  /\ query.at = "certificate" /\ MayQuery(query.process)
  /\ query' = IF db.certificates[query.batch] = None THEN NoQuery
              ELSE [query EXCEPT !.at = "audit", !.certificate = db.certificates[query.batch]]
  /\ UNCHANGED vars

\* Mutant: the trail is not read to its end.
ReadSomeAudit ==
  /\ query.at = "audit" /\ MayQuery(query.process)
  /\ \E n \in DOMAIN db.audit[query.batch] :
       query' = [query EXCEPT !.at = "idle", !.verdict =
                   Verify(query.row, query.certificate, Digest(db.audit[query.batch][n]))]
  /\ UNCHANGED vars

\* VerifyAudit, then Verify.
ReadAudit ==
  /\ query.at = "audit" /\ MayQuery(query.process)
  /\ query' = [query EXCEPT !.at = "idle", !.verdict =
                 Verify(query.row, query.certificate, AuditRoot(db.audit[query.batch]))]
  /\ UNCHANGED vars

\* Mutant: the trail is not returned to its end.
ReadEventsLate(p, b) ==
  /\ query.at = "idle" /\ MayQuery(p) /\ phase[p] = "serving"
  /\ \E n \in 0 .. Len(db.audit[b]) :
       query' = View(Begun(p, b, "count"), TRUE, SubSeq(db.audit[b], 1, n))
  /\ UNCHANGED vars

\* The first read of AuditTimeline; events are an answer, none are not one yet.
ReadEvents(p, b) ==
  /\ query.at = "idle" /\ MayQuery(p) /\ phase[p] = "serving"
  /\ query' = LET q == Begun(p, b, "count") IN
       IF db.audit[b] = <<>> THEN q ELSE View(q, TRUE, db.audit[b])
  /\ UNCHANGED vars

\* The second read of AuditTimeline: the batch is not found, or it was created in between
\* and is answered without events, as the first read saw it.
CountBatches ==
  /\ query.at = "count" /\ MayQuery(query.process)
  /\ query' = View(query, db.batches[query.batch] # None, <<>>)
  /\ UNCHANGED vars

\* The client goes away, or a query meets a COMMIT (SQLITE_BUSY).
Abandon == query.at # "idle" /\ query' = NoQuery /\ UNCHANGED vars

\* A step of the store; a crash ends the queries of its process too.
Store ==
  /\ Next
  /\ query' = IF query.process # None /\ phase'[query.process] = "down" THEN NoQuery ELSE query

VerificationInit == Init /\ query = NoQuery

VerificationNext ==
  \/ Store
  \/ \E p \in Processes, b \in Batches : ReadBatch(p, b) \/ ReadEvents(p, b)
  \/ ReadCertificate \/ ReadAudit \/ CountBatches \/ Abandon

VerificationSpec == VerificationInit /\ [][VerificationNext]_<<vars, query>>

-----------------------------------------------------------------------------
\* A verification that ends with an invalid certificate has read the batch before its
\* approval; one that began after the approval finds the certificate valid, and no
\* verification ever finds the audit root wrong, whatever is committed meanwhile.
OnlyStaleRowsRefute ==
  query.verdict # None =>
    /\ query.verdict.auditRootValid
    /\ Valid(query.verdict) <=> query.row.status = "approved_sealed"

\* Whoever asks for an audit trail sees every event that any client had been told of
\* before, from whichever process, as an intact chain with which the trail begins, and
\* only of a batch that exists.  "Not found", and a batch without events, are answered
\* only of a batch that had none when the query began: if it is found it was created
\* between the two reads (AuditTimeline, GetBatch).
AuditShowsWhatWasTold ==
  query.view # None => LET view == query.view IN
    /\ VerifyEvents(view.events)
    /\ \A i \in DOMAIN view.events :
         i \in DOMAIN db.audit[view.batch] /\ view.events[i] = db.audit[view.batch][i]
    /\ view.found => db.batches[view.batch] # None
    /\ view.began <= Len(view.events)
    /\ \A n \in view.told : n <= Len(view.events)

\* BENZHI_README.md:13 "合格批次生成可验证的阶段转换证书并进入只读封存状态": an issued
\* certificate that nobody tampers with is found valid whenever it is verified.
IssuedCertificatesVerify == query.verdict # None => Valid(query.verdict)
=============================================================================
