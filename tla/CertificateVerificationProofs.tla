--------------------- MODULE CertificateVerificationProofs ---------------------
(***************************************************************************)
(* The queries beside the store, for any number of processes, batches and  *)
(* commands: what a query still has to compare was true when it was read,  *)
(* and of an approved batch nothing changes any more.                      *)
(***************************************************************************)
EXTENDS CertificateVerification, CommandStoreProofs

\* An approved batch keeps its row, its certificate and its trail.
LEMMA ApprovedStays ==
  ASSUME TablesInv, StoreStep, NEW b \in Batches, db.certificates[b] # None
  PROVE  /\ db'.batches[b] = db.batches[b] /\ db'.certificates[b] = db.certificates[b]
         /\ db'.audit[b] = db.audit[b]
<1>1. /\ TypeOK /\ Isolation
      /\ db.batches[b] # None /\ db.batches[b].status = "approved_sealed"
  BY DEF TablesInv, CertificateSealsTrail
<1>2. db.batches[b] \in BatchRows  BY <1>1, TableFields DEF TypeOK
<1>3. ASSUME NEW c \in Commands, Effect(c)
      PROVE  b # c.batch
  <2>1. CASE c.kind = "create"
    BY <1>1, <1>2, <1>3, <2>1 DEF Effect, AsExpected, Revision, BatchRows
  <2>2. CASE c.kind # "create"
    BY <1>1, <1>3, <2>2 DEF Effect, Sealed
  <2> QED BY <2>1, <2>2
<1>4. ASSUME NEW c \in Commands, Effect(c)
      PROVE  /\ db'.batches[b] = db.batches[b] /\ db'.certificates[b] = db.certificates[b]
             /\ db'.audit[b] = db.audit[b]
  BY <1>1, <1>3, <1>4, EffectOnBatches
<1> QED BY <1>1, <1>4, OnlyCommits

\* What a client has been told of is on the trail.
LEMMA ToldIsOnTrail ==
  ASSUME TablesInv, RepliesHold, NEW b \in Batches, NEW n \in Told(b)
  PROVE  n \in DOMAIN db.audit[b]
<1>1. PICK answer \in heard : answer[1].batch = b /\ answer[2] = n
  BY DEF Told
<1>2. answer[1] \in Commands /\ answer[2] \in Nat /\ answer[1].request \in Requests
  BY CommandFields DEF TablesInv, TypeOK
<1> DEFINE row == [command |-> answer[1], response |-> answer[2]]
<1>3. db.idempotency[answer[1].request] = row  BY DEF RepliesHold, Holds
<1>4. row # None  BY <1>2, StoreAssumption DEF StoredAnswers
<1>5. row.command = answer[1] /\ row.response = n  BY <1>1
<1> HIDE DEF row
<1> QED BY <1>1, <1>2, <1>3, <1>4, <1>5 DEF TablesInv, RowsAndEvents

\* What a query in progress has found, as far as it still matters.
QueryInv ==
  /\ query = [at |-> query.at, process |-> query.process, batch |-> query.batch,
              told |-> query.told, began |-> query.began, row |-> query.row,
              certificate |-> query.certificate, verdict |-> query.verdict, view |-> query.view]
  /\ query.at # "idle" => query.batch \in Batches /\ query.verdict = None /\ query.view = None
  /\ query.at \in {"certificate", "audit"} =>
       /\ query.row # None
       /\ query.row.status = "approved_sealed" => query.row = db.batches[query.batch]
  /\ query.at = "audit" =>
       /\ db.certificates[query.batch] # None
       /\ query.certificate = db.certificates[query.batch]
  /\ query.at = "count" => query.told = {} /\ query.began = 0
  /\ query.view # None => query.view.batch \in Batches
  /\ OnlyStaleRowsRefute /\ AuditShowsWhatWasTold

LEMMA NoQueryInv ==
  ASSUME query' = NoQuery
  PROVE  QueryInv'
BY DEF QueryInv, NoQuery, OnlyStaleRowsRefute, AuditShowsWhatWasTold

\* A query that has ended with this view.
LEMMA ViewInv ==
  ASSUME NEW q, NEW found \in BOOLEAN, NEW events, q.batch \in Batches, VerifyEvents(events),
         \A i \in DOMAIN events :
           i \in DOMAIN db'.audit[q.batch] /\ events[i] = db'.audit[q.batch][i],
         found => db'.batches[q.batch] # None,
         q.began <= Len(events), \A n \in q.told : n <= Len(events),
         query' = View(q, found, events)
  PROVE  QueryInv'
<1> DEFINE view == [batch |-> q.batch, found |-> found, events |-> events, told |-> q.told,
                    began |-> q.began]
<1>1. query' = [at |-> "idle", process |-> None, batch |-> None, told |-> {}, began |-> 0,
                row |-> None, certificate |-> None, verdict |-> None, view |-> view]
  BY DEF NoQuery, View
<1>2. /\ view.batch = q.batch /\ view.found = found /\ view.events = events
      /\ view.told = q.told /\ view.began = q.began
  OBVIOUS
<1> HIDE DEF view
<1>3. /\ query'.at = "idle" /\ query'.verdict = None /\ query'.view = view
  BY <1>1
<1>4. OnlyStaleRowsRefute'  BY <1>3 DEF OnlyStaleRowsRefute
<1>5. AuditShowsWhatWasTold'  BY <1>2, <1>3 DEF AuditShowsWhatWasTold
<1> QED BY <1>1, <1>2, <1>3, <1>4, <1>5 DEF QueryInv

LEMMA EmptyView == VerifyEvents(<<>>) /\ Len(<<>>) = 0 /\ DOMAIN <<>> = {}
BY DEF VerifyEvents

\* What a query that begins has found.
LEMMA BegunFields ==
  ASSUME NEW p, NEW b, NEW at
  PROVE  /\ Begun(p, b, at) = [at |-> at, process |-> p, batch |-> b, told |-> Told(b),
                                began |-> Revision(b, db), row |-> None, certificate |-> None,
                                verdict |-> None, view |-> None]
         /\ Begun(p, b, at).batch = b /\ Begun(p, b, at).told = Told(b)
         /\ Begun(p, b, at).began = Revision(b, db)
BY DEF Begun

\* A query that has ended without events.
LEMMA EmptyViewInv ==
  ASSUME NEW q, NEW found \in BOOLEAN, q.batch \in Batches, q.began = 0, q.told = {},
         found => db'.batches[q.batch] # None, query' = View(q, found, <<>>)
  PROVE  QueryInv'
<1> DEFINE events == <<>>
<1>1. /\ VerifyEvents(events) /\ q.began <= Len(events)
      /\ \A i \in DOMAIN events :
           i \in DOMAIN db'.audit[q.batch] /\ events[i] = db'.audit[q.batch][i]
      /\ \A n \in q.told : n <= Len(events)
      /\ query' = View(q, found, events)
  BY EmptyView
<1> HIDE DEF events
<1> QED BY <1>1, ViewInv

LEMMA ReadBatchInv ==
  ASSUME TablesInv, RepliesHold, QueryInv, NEW p \in Processes, NEW b \in Batches, ReadBatch(p, b)
  PROVE  QueryInv'
<1> DEFINE q == Begun(p, b, "certificate")
<1>1. UNCHANGED db  BY DEF ReadBatch, vars
<1>2. CASE db.batches[b] = None
  <2>1. Revision(b, db) = 0  BY <1>2 DEF Revision
  <2>2. Len(db.audit[b]) = 0  BY <2>1 DEF TablesInv, TrailTellsRevisions
  <2>3. db.audit[b] \in Seq(EventRows)  BY TableFields DEF TablesInv, TypeOK
  <2>4. Told(b) = {}  BY <2>2, <2>3, ToldIsOnTrail
  <2>5. query' = View(q, FALSE, <<>>)  BY <1>2 DEF ReadBatch
  <2>6. q.batch = b /\ q.told = Told(b) /\ q.began = 0  BY <2>1, BegunFields
  <2> HIDE DEF q
  <2> QED BY <2>4, <2>5, <2>6, EmptyViewInv
<1>3. CASE db.batches[b] # None
  <2>1. query' = [q EXCEPT !.row = db.batches[b]]  BY <1>3 DEF ReadBatch
  <2>2. query' = [at |-> "certificate", process |-> p, batch |-> b, told |-> Told(b),
                  began |-> Revision(b, db), row |-> db.batches[b], certificate |-> None,
                  verdict |-> None, view |-> None]
    BY <2>1, BegunFields
  <2> QED BY <1>1, <1>3, <2>2 DEF QueryInv, OnlyStaleRowsRefute, AuditShowsWhatWasTold
<1> QED BY <1>2, <1>3

LEMMA ReadEventsInv ==
  ASSUME TablesInv, RepliesHold, QueryInv, NEW p \in Processes, NEW b \in Batches, ReadEvents(p, b)
  PROVE  QueryInv'
<1> DEFINE q == Begun(p, b, "count")
<1>1. UNCHANGED db  BY DEF ReadEvents, vars
<1>2. db.audit[b] \in Seq(EventRows) /\ Revision(b, db) = Len(db.audit[b])
  BY TableFields DEF TablesInv, TypeOK, TrailTellsRevisions
<1>3. \A n \in Told(b) : n \in 1 .. Len(db.audit[b])  BY <1>2, ToldIsOnTrail
<1>4. CASE db.audit[b] = <<>>
  <2>1. Told(b) = {} /\ Revision(b, db) = 0  BY <1>2, <1>3, <1>4
  <2>2. query' = [at |-> "count", process |-> p, batch |-> b, told |-> Told(b),
                  began |-> Revision(b, db), row |-> None, certificate |-> None, verdict |-> None,
                  view |-> None]
    BY <1>4, BegunFields DEF ReadEvents
  <2> QED BY <1>1, <2>1, <2>2 DEF QueryInv, OnlyStaleRowsRefute, AuditShowsWhatWasTold
<1>5. CASE db.audit[b] # <<>>
  <2>1. VerifyEvents(db.audit[b])  BY DEF TablesInv, TrailTellsRevisions
  <2>2. query' = View(q, TRUE, db.audit[b])  BY <1>5 DEF ReadEvents
  <2>3. (\A n \in Told(b) : n <= Len(db.audit[b])) /\ Revision(b, db) <= Len(db.audit[b])
    BY <1>2, <1>3
  <2>4. db.batches[b] # None
    BY <1>2, <1>5 DEF Revision
  <2>5. q.batch = b /\ q.told = Told(b) /\ q.began = Revision(b, db)  BY BegunFields
  <2> HIDE DEF q
  <2> QED BY <1>1, <2>1, <2>2, <2>3, <2>4, <2>5, ViewInv
<1> QED BY <1>4, <1>5

LEMMA ReadCertificateInv ==
  ASSUME QueryInv, ReadCertificate
  PROVE  QueryInv'
<1>1. UNCHANGED db  BY DEF ReadCertificate, vars
<1>2. CASE db.certificates[query.batch] = None
  BY <1>2, NoQueryInv DEF ReadCertificate
<1>3. CASE db.certificates[query.batch] # None
  <2>1. query' = [at |-> "audit", process |-> query.process, batch |-> query.batch,
                  told |-> query.told, began |-> query.began, row |-> query.row,
                  certificate |-> db.certificates[query.batch],
                  verdict |-> query.verdict, view |-> query.view]
    BY <1>3 DEF ReadCertificate, QueryInv
  <2>2. query.at = "certificate"  BY DEF ReadCertificate
  <2> QED BY <1>1, <1>3, <2>1, <2>2 DEF QueryInv, OnlyStaleRowsRefute, AuditShowsWhatWasTold
<1> QED BY <1>2, <1>3

\* The certificate seals the trail as it is, and a batch row that is approved is the
\* row as it is.
LEMMA ReadAuditInv ==
  ASSUME TablesInv, QueryInv, ReadAudit
  PROVE  QueryInv'
<1> DEFINE b    == query.batch
           root == AuditRoot(db.audit[b])
           v    == Verify(query.row, query.certificate, root)
<1>1. b \in Batches /\ query.at = "audit" /\ query.view = None
  BY DEF ReadAudit, QueryInv
<1>2. query.certificate = [revision |-> Len(db.audit[b]), root |-> root]
  BY <1>1 DEF TablesInv, CertificateSealsTrail, QueryInv
<1>3. query.certificate.revision = Len(db.audit[b]) /\ query.certificate.root = root
  BY <1>2
<1>4. query.row.status = "approved_sealed" => query.row.revision = Len(db.audit[b])
  <2> SUFFICES ASSUME query.row.status = "approved_sealed"
               PROVE  query.row.revision = Len(db.audit[b])
    OBVIOUS
  <2>1. query.row = db.batches[b] /\ db.batches[b] # None  BY <1>1 DEF QueryInv
  <2>2. Revision(b, db) = query.row.revision  BY <2>1 DEF Revision
  <2> QED BY <1>1, <2>2 DEF TablesInv, TrailTellsRevisions
<1>5. /\ v.batchStateValid = (query.row.status = "approved_sealed"
                              /\ query.row.revision = query.certificate.revision)
      /\ v.auditRootValid = (query.certificate.root = root)
  BY DEF Verify
<1>6. /\ v.auditRootValid
      /\ v.batchStateValid <=> query.row.status = "approved_sealed"
  BY <1>3, <1>4, <1>5
<1>7. query' = [at |-> "idle", process |-> query.process, batch |-> b, told |-> query.told,
                began |-> query.began, row |-> query.row, certificate |-> query.certificate, verdict |-> v,
                view |-> query.view]
  BY DEF ReadAudit, QueryInv
<1> HIDE DEF v, b, root
<1>8. query'.at = "idle" /\ query'.row = query.row /\ query'.verdict = v /\ query'.view = None
  BY <1>1, <1>7
<1>9. OnlyStaleRowsRefute'  BY <1>6, <1>8 DEF OnlyStaleRowsRefute, Valid
<1>10. AuditShowsWhatWasTold'  BY <1>8 DEF AuditShowsWhatWasTold
<1> QED BY <1>7, <1>8, <1>9, <1>10 DEF QueryInv

LEMMA CountBatchesInv ==
  ASSUME QueryInv, CountBatches
  PROVE  QueryInv'
<1>1. query.told = {} /\ query.began = 0 /\ query.batch \in Batches
  BY DEF QueryInv, CountBatches
<1>2. query' = View(query, db.batches[query.batch] # None, <<>>) /\ UNCHANGED db
  BY DEF CountBatches, vars
<1> DEFINE found == db.batches[query.batch] # None
<1>3. found \in BOOLEAN /\ query' = View(query, found, <<>>)
      /\ (found => db'.batches[query.batch] # None)
  BY <1>2
<1> HIDE DEF found
<1> QED BY <1>1, <1>3, EmptyViewInv

\* The trail of a batch grows at its end.
LEMMA TrailGrows ==
  ASSUME TablesInv, StoreStep, NEW b \in Batches
  PROVE  /\ db.batches[b] # None => db'.batches[b] # None
         /\ \A i \in DOMAIN db.audit[b] :
              i \in DOMAIN db'.audit[b] /\ db'.audit[b][i] = db.audit[b][i]
<1>1. TypeOK /\ Isolation  BY DEF TablesInv
<1>2. CASE UNCHANGED db
  BY <1>2
<1>3. ASSUME NEW c \in Commands, Effect(c)
      PROVE  /\ db.batches[b] # None => db'.batches[b] # None
             /\ \A i \in DOMAIN db.audit[b] :
                  i \in DOMAIN db'.audit[b] /\ db'.audit[b][i] = db.audit[b][i]
  <2>1. db.audit[b] \in Seq(EventRows)  BY <1>1, TableFields DEF TypeOK
  <2>2. CASE b # c.batch
    BY <1>1, <1>3, <2>2, EffectOnBatches
  <2>3. CASE b = c.batch
    <3>1. Event(c, db) \in EventRows  BY <1>1, EventType DEF TypeOK
    <3>2. db'.audit[b] = Append(db.audit[b], Event(c, db)) /\ db'.batches[b] # None
      BY <1>1, <1>3, <2>3, EffectOnBatches
    <3> QED BY <2>1, <3>1, <3>2
  <2> QED BY <2>2, <2>3
<1> QED BY <1>1, <1>2, <1>3, OnlyCommits

\* What a query has read of an approved batch stays true.
LEMMA StoreKeepsQuery ==
  ASSUME TablesInv, QueryInv, StoreStep, query' = query
  PROVE  QueryInv'
<1>1. ASSUME query.at \in {"certificate", "audit"}, query.row.status = "approved_sealed"
      PROVE  query.row = db'.batches[query.batch]
  <2>1. query.batch \in Batches /\ query.row = db.batches[query.batch] /\ query.row # None
    BY <1>1 DEF QueryInv
  <2>2. db.certificates[query.batch] # None
    BY <1>1, <2>1 DEF TablesInv, CertificateSealsTrail
  <2> QED BY <2>1, <2>2, ApprovedStays
<1>2. ASSUME query.at = "audit"
      PROVE  /\ db'.certificates[query.batch] # None
             /\ query.certificate = db'.certificates[query.batch]
  BY <1>2, ApprovedStays DEF QueryInv
<1>3. OnlyStaleRowsRefute' /\ AuditShowsWhatWasTold'
  BY TrailGrows DEF QueryInv, OnlyStaleRowsRefute, AuditShowsWhatWasTold
<1> QED BY <1>1, <1>2, <1>3 DEF QueryInv

VerificationInv == TablesInv /\ RepliesHold /\ QueryInv

LEMMA VerificationStep ==
  ASSUME VerificationInv, [VerificationNext]_<<vars, query>>
  PROVE  VerificationInv'
<1> USE DEF VerificationInv
<1>0. TypeOK  BY DEF TablesInv
<1>1. StoreStep
  <2>1. Next \/ UNCHANGED vars
    BY DEF VerificationNext, Store, ReadBatch, ReadEvents, ReadCertificate, ReadAudit,
           CountBatches, Abandon
  <2> QED BY <1>0, <2>1, NextSteps
<1>2. TablesInv' /\ RepliesHold'  BY <1>1, TablesStep, RepliesStep
<1>3. CASE Store
  BY <1>1, <1>2, <1>3, StoreKeepsQuery, NoQueryInv DEF Store
<1>4. CASE Abandon
  BY <1>2, <1>4, NoQueryInv DEF Abandon
<1>5. CASE UNCHANGED <<vars, query>>
  BY <1>1, <1>2, <1>5, StoreKeepsQuery
<1> QED BY <1>2, <1>3, <1>4, <1>5, ReadBatchInv, ReadEventsInv, ReadCertificateInv, ReadAuditInv,
           CountBatchesInv DEF VerificationNext

LEMMA VerificationInvariant == VerificationSpec => []VerificationInv
<1>1. VerificationInit => VerificationInv
  <2> SUFFICES ASSUME VerificationInit PROVE VerificationInv
    OBVIOUS
  <2>1. TablesInv /\ RepliesHold  BY InitStarts, InitTables, InitReplies DEF VerificationInit
  <2>2. QueryInv
    BY DEF VerificationInit, QueryInv, NoQuery, OnlyStaleRowsRefute, AuditShowsWhatWasTold
  <2> QED BY <2>1, <2>2 DEF VerificationInv
<1> QED BY <1>1, VerificationStep, PTL DEF VerificationSpec

\* Whatever is committed between its reads, a verification fails only if it read the
\* batch before the approval (VerifyCertificate, Generator.Verify).
THEOREM OnlyStaleRows == VerificationSpec => []OnlyStaleRowsRefute
<1>1. VerificationInv => OnlyStaleRowsRefute  BY DEF VerificationInv, QueryInv
<1> QED BY <1>1, VerificationInvariant, PTL

\* An audit trail that is shown begins the trail of a batch that exists and lacks no
\* event that any client had been told of, and no batch is missed or shown without
\* events that had any when the query began (AuditTimeline, GetBatch, execute).
THEOREM TrailsShowAll == VerificationSpec => []AuditShowsWhatWasTold
<1>1. VerificationInv => AuditShowsWhatWasTold  BY DEF VerificationInv, QueryInv
<1> QED BY <1>1, VerificationInvariant, PTL
=============================================================================
