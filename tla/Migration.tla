------------------------------ MODULE Migration ------------------------------
(***************************************************************************)
(* openDatabase (src/src/infrastructure/database.ts): the ladder from any  *)
(* version of the schema to V6.  Only V2->V3 is a transaction; the other   *)
(* steps are handed to SQLite as several statements, each of which commits *)
(* by itself, so that a crash may fall between any two of them.            *)
(***************************************************************************)
EXTENDS Naturals, Sequences

CONSTANT MaxCrashes     \* BOUND

Latest == 6

\* What a schema is made of, as far as versions differ in it; "base" are the
\* tables there have always been.
Part == {"base", "outputSchema", "nullableRepository", "completedIndex", "metadata", "sentinel"}

\* The parts of a database that was created by, or brought to, version v.
PartsOf(v) ==
  (IF v >= 1 THEN {"base"} ELSE {})
    \cup (IF v >= 2 THEN {"outputSchema"} ELSE {})
    \cup (IF v >= 3 THEN {"nullableRepository"} ELSE {})
    \cup (IF v >= 4 THEN {"completedIndex"} ELSE {})
    \cup (IF v >= 5 THEN {"metadata"} ELSE {})
    \cup (IF v >= 6 THEN {"sentinel"} ELSE {})

VARIABLES
  schema,     \* the parts that are in the file
  version,    \* PRAGMA user_version
  process,    \* what openDatabase is at
  crashes

vars == <<schema, version, process, crashes>>

\* A statement adds parts, tolerates that they are there (IF NOT EXISTS), and
\* sets the version or does not (0).
Statement == [adds: SUBSET Part, tolerant: BOOLEAN, sets: 0..Latest]

MigrationTypeOK ==
  /\ schema \subseteq Part
  /\ version \in 0..Latest + 1
  /\ process \in [at: {"down", "migrating", "open", "refused"}, todo: Seq(Statement)]
  /\ process.at # "migrating" => process.todo = <<>>
  /\ crashes \in 0..MaxCrashes

Add(parts) == [adds |-> parts, tolerant |-> FALSE, sets |-> 0]
\* Faulty: IF NOT EXISTS is left out.
AddOnce(parts) == Add(parts)

AddMissing(parts) == [adds |-> parts, tolerant |-> TRUE, sets |-> 0]
SetVersion(v) == [adds |-> {}, tolerant |-> TRUE, sets |-> v]

\* The tables of version 0 come with all columns.
Create ==
  <<AddMissing({"base", "outputSchema", "nullableRepository"}),
    AddMissing({"completedIndex"}), AddMissing({"metadata", "sentinel"}), SetVersion(Latest)>>

\* Faulty: the version is set before the statement it stands for.
RungVersionFirst(v) ==
  CASE v = 1 -> <<SetVersion(2), Add({"outputSchema"})>>
    [] v = 2 -> <<[adds |-> {"nullableRepository"}, tolerant |-> TRUE, sets |-> 3]>>
    [] v = 3 -> <<SetVersion(4), AddMissing({"completedIndex"})>>
    [] v = 4 -> <<SetVersion(5), AddMissing({"metadata"})>>
    [] v = 5 -> <<SetVersion(6), Add({"sentinel"})>>

\* From version v to the next.  migrateV2ToV3 rebuilds its tables and sets the
\* version in one transaction.
Rung(v) ==
  CASE v = 1 -> <<Add({"outputSchema"}), SetVersion(2)>>
    [] v = 2 -> <<[adds |-> {"nullableRepository"}, tolerant |-> TRUE, sets |-> 3]>>
    [] v = 3 -> <<AddMissing({"completedIndex"}), SetVersion(4)>>
    [] v = 4 -> <<AddMissing({"metadata"}), SetVersion(5)>>
    [] v = 5 -> <<Add({"sentinel"}), SetVersion(6)>>

\* Faulty: what can be repeated is repeated.
LadderRepeated(v) ==
  (IF v <= 1 THEN Rung(1) ELSE <<>>) \o (IF v <= 2 THEN Rung(2) ELSE <<>>)
    \o (IF v <= 5 THEN Rung(3) \o Rung(4) \o Rung(5) ELSE <<>>)

\* All rungs from v on, chosen by the version that was read at the start.
Ladder(v) ==
  (IF v <= 1 THEN Rung(1) ELSE <<>>) \o (IF v <= 2 THEN Rung(2) ELSE <<>>)
    \o (IF v <= 3 THEN Rung(3) ELSE <<>>) \o (IF v <= 4 THEN Rung(4) ELSE <<>>)
    \o (IF v <= 5 THEN Rung(5) ELSE <<>>)

\* A newer schema, and tables without a version, are refused.
Open ==
  /\ process.at = "down"
  /\ process' =
       IF version > Latest \/ (version = 0 /\ schema # {})
         THEN [at |-> "refused", todo |-> <<>>]
         ELSE [at |-> "migrating", todo |-> IF version = 0 THEN Create ELSE Ladder(version)]
  /\ UNCHANGED <<schema, version, crashes>>

\* The next statement commits, or throws because a column is there already.
Execute ==
  /\ process.at = "migrating" /\ process.todo # <<>>
  /\ LET next == Head(process.todo) IN
     \/ /\ next.tolerant \/ next.adds \cap schema = {}
        /\ schema' = schema \cup next.adds
        /\ version' = IF next.sets = 0 THEN version ELSE next.sets
        /\ process' = [process EXCEPT !.todo = Tail(@)]
     \/ /\ ~next.tolerant /\ next.adds \cap schema # {}
        /\ process' = [at |-> "refused", todo |-> <<>>]
        /\ UNCHANGED <<schema, version>>
  /\ UNCHANGED crashes

Opened ==
  /\ process.at = "migrating" /\ process.todo = <<>>
  /\ process' = [process EXCEPT !.at = "open"]
  /\ UNCHANGED <<schema, version, crashes>>

Crash ==
  /\ process.at \in {"migrating", "open"} /\ crashes < MaxCrashes
  /\ process' = [at |-> "down", todo |-> <<>>]
  /\ crashes' = crashes + 1
  /\ UNCHANGED <<schema, version>>

\* The handle is closed, or openDatabase has thrown: the next start begins again.
Close ==
  /\ process.at \in {"open", "refused"}
  /\ process' = [at |-> "down", todo |-> <<>>]
  /\ UNCHANGED <<schema, version, crashes>>

\* A database of any version, one of a later gateway included, or an empty file.
Init ==
  /\ version \in 0..Latest + 1
  /\ schema = PartsOf(version)
  /\ process = [at |-> "down", todo |-> <<>>]
  /\ crashes = 0

Next == Open \/ Execute \/ Opened \/ Crash \/ Close

Spec == Init /\ [][Next]_vars

-----------------------------------------------------------------------------
(* Properties *)

\* What a version number promises is in the file at all times, whatever the
\* crashes cut short: no start skips a rung that has not been climbed.
VersionTruthful == version <= Latest => PartsOf(version) \subseteq schema

\* The gateway runs on the complete schema, or does not run.
OpenIsComplete == process.at = "open" => schema = Part /\ version = Latest

\* The variables are typed, the version is true, and an open database complete.
MigrationInv == MigrationTypeOK /\ VersionTruthful /\ OpenIsComplete

\* A database no start will open: of a later version, or cut short by a crash
\* where the step is not repeatable, which are tables that were created without a
\* version and a column that was added without one.
Stuck ==
  \/ version > Latest
  \/ version = 0 /\ schema # {}
  \/ version = 1 /\ "outputSchema" \in schema
  \/ version = 5 /\ "sentinel" \in schema
=============================================================================
