------------------------- MODULE MCSchemaMigration -------------------------
(* Constant values for the run of SchemaMigration. *)
EXTENDS SchemaMigration

\* The first, one of the middle and the last statement stand for the eleven.
MCStatements == <<"schema_version", "batches", "idempotency">>

File(objects, versions) == [objects |-> objects, versions |-> versions]

\* New, made by this program, by an earlier or by a later one.
MCInitialFiles ==
  {File({}, <<>>), File(Objects, <<1>>), File({"schema_version", "batches"}, <<1>>),
   File({"schema_version", "batches"}, <<2>>)}
=============================================================================
