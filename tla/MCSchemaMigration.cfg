\* Three processes on a new, a current, an older and a foreign file.
CONSTANTS
  Processes = {"p1", "p2", "p3"}
  Objects = {"schema_version", "batches", "idempotency"}
  Statements <- MCStatements
  InitialFiles <- MCInitialFiles
SPECIFICATION FairSpec
INVARIANTS TypeOK OpenOnWholeSchema
PROPERTIES ForeignFilesAreKept StartsFailForCause EveryStartEnds
