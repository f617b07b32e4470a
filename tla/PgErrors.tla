------------------------------ MODULE PgErrors ------------------------------
(***************************************************************************)
(* errorsManager of infra/pgw: applications register processors for the    *)
(* violations of constraints and of not-null columns, concurrently, and    *)
(* ParsePgError, which every failed query goes through, picks one.         *)
(*                                                                         *)
(* One table and one constraint of each kind are followed; a processor is  *)
(* named after the goroutine that registers it, which makes one call.  The *)
(* maps are thread-safe: each access is a step.                            *)
(***************************************************************************)
EXTENDS Naturals, Sequences

CONSTANTS Registrars, NullColumns, NoProc

Constraints == {"foreignKey", "unique", "check"}

\* A column is told apart from a kind of constraint by its name.
ASSUME ErrorsAssumption == NoProc \notin Registrars /\ NullColumns \cap Constraints = {}

VARIABLES
  tableMap,     \* notNullViolations of the table: its map of columns, or 0
  columnMaps,   \* the maps of columns that were made
  violations,   \* uniqueViolations, foreignKeyViolations, checkViolations
  reg,          \* the registrations: step, column, map, and what was returned
  overlapped    \* history: two registrations of columns were under way at once

errorsVars == <<tableMap, columnMaps, violations, reg, overlapped>>

Running(r) == reg[r].pc \notin {"idle", "ok", "taken"}

ErrorsInit ==
  /\ tableMap = 0 /\ columnMaps = <<>>
  /\ violations = [k \in Constraints |-> NoProc]
  /\ reg \in [Registrars -> [pc : {"idle"}, of : NullColumns \cup Constraints, map : {0}]]
  /\ overlapped = FALSE

At(r, pc) == reg[r].pc = pc
Goes(r, pc) == reg' = [reg EXCEPT ![r].pc = pc]

-----------------------------------------------------------------------------
\* RegisterUniqueViolation, RegisterForeignKeyViolation, RegisterCheckViolation: the
\* last one stands.
RegisterConstraint(r) ==
  /\ At(r, "idle") /\ reg[r].of \in Constraints
  /\ violations' = [violations EXCEPT ![reg[r].of] = r]
  /\ Goes(r, "ok")
  /\ UNCHANGED <<tableMap, columnMaps, overlapped>>

\* RegisterNotNullViolationProcessor: the map of the table is read,
GetColumnsMap(r) ==
  /\ At(r, "idle") /\ reg[r].of \in NullColumns
  /\ reg' = [reg EXCEPT ![r].pc = IF tableMap = 0 THEN "create" ELSE "test",
                        ![r].map = tableMap]
  /\ overlapped' = (overlapped \/ \E o \in Registrars : Running(o))
  /\ UNCHANGED <<tableMap, columnMaps, violations>>

\* made and stored if it was not there,
SetColumnsMap(r) ==
  /\ At(r, "create")
  /\ columnMaps' = Append(columnMaps, [c \in NullColumns |-> NoProc])
  /\ tableMap' = Len(columnMaps')
  /\ reg' = [reg EXCEPT ![r].pc = "test", ![r].map = tableMap']
  /\ UNCHANGED <<violations, overlapped>>

\* A registration that does not look for an earlier one.
TestColumn_Never(r) ==
  /\ At(r, "test")
  /\ Goes(r, "set")
  /\ UNCHANGED <<tableMap, columnMaps, violations, overlapped>>

\* and a column that has a processor keeps it: the call returns an error.
TestColumn(r) ==
  /\ At(r, "test")
  /\ Goes(r, IF columnMaps[reg[r].map][reg[r].of] # NoProc THEN "taken" ELSE "set")
  /\ UNCHANGED <<tableMap, columnMaps, violations, overlapped>>

SetColumn(r) ==
  /\ At(r, "set")
  /\ columnMaps' = [columnMaps EXCEPT ![reg[r].map][reg[r].of] = r]
  /\ Goes(r, "ok")
  /\ UNCHANGED <<tableMap, violations, overlapped>>

ErrorsNext ==
  \E r \in Registrars :
    \/ RegisterConstraint(r)
    \/ GetColumnsMap(r) \/ SetColumnsMap(r) \/ TestColumn(r) \/ SetColumn(r)

ErrorsSpec == ErrorsInit /\ [][ErrorsNext]_errorsVars

-----------------------------------------------------------------------------
(* ParsePgError.  An error is nil, one that is not PostgreSQL's, or one of *)
(* PostgreSQL's by the class of its code; of a not-null violation, the     *)
(* column counts.  The result is nil, the error itself, one of the         *)
(* package's own errors, or what a processor returns.                      *)

PgErrs == [class : {"nil", "other", "connection", "unlisted"}]
          \cup [class : Constraints] \cup [class : {"notNull"}, column : NullColumns]

getNotNullViolation(column) ==
  IF tableMap = 0 THEN NoProc ELSE columnMaps[tableMap][column]

parseViolation(proc) ==
  IF proc # NoProc THEN <<"processor", proc>> ELSE <<"DataExceptionError">>

ParsePgError(err) ==
  CASE err.class = "nil" -> <<"nil">>
    [] err.class \in {"other", "unlisted"} -> <<"same">>
    [] err.class = "connection" -> <<"ConnectionExceptionError">>
    [] err.class = "notNull" -> parseViolation(getNotNullViolation(err.column))
    [] err.class \in Constraints -> parseViolation(violations[err.class])

-----------------------------------------------------------------------------
\* The maps of columns are the ones that were made.
ErrorsTypeOK ==
  /\ tableMap \in 0..Len(columnMaps)
  /\ \A r \in Registrars : reg[r].map \in 0..Len(columnMaps)

\* ParsePgError uses the processor of a column from the moment its registration has
\* returned nil, for good, and a registration is refused only for a column that has
\* one; registrations of one table that overlap are the exception, since the table's
\* map is looked up and stored in two steps.  A violation never meets a processor that
\* was registered for something else, whatever overlaps.
ProcessorsKept ==
  /\ \A r \in Registrars :
       /\ reg[r].of \in NullColumns /\ At(r, "ok") /\ ~overlapped =>
            ParsePgError([class |-> "notNull", column |-> reg[r].of]) = <<"processor", r>>
       /\ At(r, "taken") =>
            \E o \in Registrars \ {r} : At(o, "ok") /\ reg[o].of = reg[r].of
  /\ \A e \in PgErrs :
       LET res == ParsePgError(e)
           of  == IF e.class = "notNull" THEN e.column ELSE e.class
       IN  res[1] = "processor" => At(res[2], "ok") /\ reg[res[2]].of = of
=============================================================================
