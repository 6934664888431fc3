-------------------------- MODULE SchemaMigrations --------------------------
(***************************************************************************)
(* main.rs, run_migrations: the scanner brings its database up to date at  *)
(* every start.  sqlx runs each pending migration and its row in           *)
(* _sqlx_migrations as one transaction; when one fails because a column is *)
(* already there, somebody added it by hand, and the loop writes the row   *)
(* itself and starts over.  The process may be killed between any two      *)
(* transactions, and while it is down an operator may alter the tables;    *)
(* Startup composes it with the rest of the start.                         *)
(***************************************************************************)
EXTENDS Integers, FiniteSetsExt

CONSTANT ByHand   \* sets of columns an operator may add in one go

Columns == {"detection_latency_us", "p1_windows_24h", "p2_windows_24h"}
Versions == 1..3

MigrationConstants == ByHand \subseteq SUBSET Columns

VARIABLES at,       \* "run", "apply", "mark", "ready" or "down"
          tables,   \* the tables of migration 1 exist
          columns,  \* the columns of migrations 2 and 3 that exist
          applied,  \* versions in _sqlx_migrations
          typed     \* history: the columns an operator has added

vars == <<at, tables, columns, applied, typed>>

\* What each migration adds; 1 only creates what does not exist yet.
Adds(v) == CASE v = 1 -> {}
             [] v = 2 -> {"detection_latency_us"}
             [] v = 3 -> {"p1_windows_24h", "p2_windows_24h"}

Pending == Versions \ applied

-----------------------------------------------------------------------------

\* migrator.run lists what is applied.
ListApplied ==
  /\ at = "run"
  /\ at' = IF Pending = {} THEN "ready" ELSE "apply"
  /\ UNCHANGED <<tables, columns, applied>>

Duplicate(v) == Adds(v) \cap columns # {}

\* The next pending migration, in one transaction.  An ALTER for a column
\* that exists rolls back all of its statements.
ApplyMigration ==
  /\ at = "apply"
  /\ LET v == Min(Pending)
     IN  IF Duplicate(v)
           THEN at' = "mark" /\ UNCHANGED <<tables, columns, applied>>
           ELSE /\ tables' = TRUE
                /\ columns' = columns \cup Adds(v)
                /\ applied' = applied \cup {v}
                /\ at' = IF Pending = {v} THEN "ready" ELSE "apply"

\* Mutant of Marked: the newest migration is marked instead of the one named.
MarkedNewest(v) == applied \cup {Max(Versions)}

Marked(v) == applied \cup {v}

\* "duplicate column": the row is inserted for the version in the message.
MarkApplied ==
  /\ at = "mark"
  /\ applied' = Marked(Min(Pending))
  /\ at' = "run"
  /\ UNCHANGED <<tables, columns>>

\* ALTER TABLE ... ADD COLUMN typed by an operator.
AlterByHand(added) ==
  /\ at = "down" /\ tables
  /\ added # {} /\ added \cap columns = {}
  /\ columns' = columns \cup added
  /\ typed' = typed \cup added
  /\ UNCHANGED <<at, tables, applied>>

\* An empty database file, or tables created by hand from the first migration.
\* connect does not create a file: with none at all every start ends before it
\* gets here (main.rs 91).
Init ==
  /\ at = "run"
  /\ tables \in BOOLEAN
  /\ columns = {} /\ applied = {} /\ typed = {}

Startup ==
  /\ ListApplied \/ ApplyMigration \/ MarkApplied
  /\ UNCHANGED typed

-----------------------------------------------------------------------------
(* Properties.                                                              *)

\* main.rs 68 says of a marked migration "already applied (column exists)".
\* What of a recorded migration is missing, the scanner has not skipped of its
\* own: every column is there, whatever was altered by hand and wherever the
\* process was killed, unless an operator had added another column of the same
\* migration.  Then the migration is marked although it never ran (59-83): one
\* column of migration 3 typed by hand leaves the other one missing for good.
\* The scorer's and the writer's statements name these columns.
AppliedColumnsExplained ==
  \A v \in applied : Adds(v) \subseteq columns \/ Adds(v) \cap typed # {}
=============================================================================
