------------------------------- MODULE Startup -------------------------------
(***************************************************************************)
(* One database file and who opens it: the gateway (src/src/index.ts),     *)
(* which opens it, compares its key and listens, and the script that       *)
(* rotates the key (src/scripts/rotate-encryption-key.ts), which opens it  *)
(* the same way.  The schema is that of Migration, the key that of         *)
(* EncryptionKey; here they share the process, its crashes and the file.   *)
(***************************************************************************)
EXTENDS EncryptionKey, Naturals, Sequences

CONSTANT MaxCrashes     \* BOUND

ASSUME MaxCrashesAssumption == MaxCrashes \in Nat

\* process is the file handle: that of the gateway, or, while the gateway is
\* down, that of the script.
VARIABLES schema, version, process, crashes

Schema == INSTANCE Migration

file == <<schema, version, process, crashes>>

all == <<vars, file>>

-----------------------------------------------------------------------------
(* The gateway *)

\* loadConfig takes the key, openDatabase reads the version.
Starts == Launch /\ Schema!Open

\* The ladder, of whoever climbs it.
Climbs == (Schema!Execute \/ Schema!Opened) /\ UNCHANGED vars

\* main waits for the key to be compared, and listens or closes.
ChecksKey ==
  /\ process.at = "open"
  /\ AssertEncryptionKey
  /\ IF gateway'.at = "up" THEN UNCHANGED file ELSE Schema!Close

\* The end of a process: a stop, or openDatabase has thrown.
Stops ==
  /\ Schema!Close
  /\ IF gateway.at = "down" THEN UNCHANGED vars ELSE Ends

Crashes ==
  /\ Schema!Crash
  /\ IF gateway.at = "down" THEN UNCHANGED vars ELSE Ends

Serves ==
  /\ \E j \in Jobs : Submit(j) \/ Write(j) \/ Prune(j)
  /\ UNCHANGED file

-----------------------------------------------------------------------------
(* The operator *)

ScriptOpens ==
  /\ gateway.at = "down"
  /\ Schema!Open
  /\ UNCHANGED vars

ScriptRotates ==
  /\ process.at = "open"
  /\ \E current, next \in Keys : Rotate(current, next)
  /\ UNCHANGED file

Replaces == (\E k \in Keys : ReplaceKey(k)) /\ UNCHANGED file

-----------------------------------------------------------------------------
\* A sentinel is in a file that has the column for it; a file without tables
\* has no jobs.
StartInit ==
  /\ Init /\ Schema!Init
  /\ sentinel # NoKey => "sentinel" \in schema
  /\ schema = {} => Stored = {}

StartNext ==
  \/ Starts \/ Climbs \/ ChecksKey \/ Stops \/ Crashes \/ Serves
  \/ ScriptOpens \/ ScriptRotates \/ Replaces

StartSpec == StartInit /\ [][StartNext]_all

\* launchd starts the gateway again, a start goes on, and one that was refused is
\* over; nobody owes the database an end of service or a rotation.
StartFairSpec ==
  /\ StartSpec
  /\ WF_all(Starts)
  /\ WF_all(Climbs)
  /\ WF_all(process.at = "refused" /\ Stops)

-----------------------------------------------------------------------------
(* Properties *)

\* A gateway that serves has the whole schema under it, at the version of this
\* binary, and has left its key in the file; nobody else writes there meanwhile,
\* and no row is ever written into a schema that is not complete.
ServesOnComplete ==
  /\ gateway.at = "up" =>
       /\ process.at = "open"
       /\ schema = Schema!Part /\ version = Schema!Latest
       /\ sentinel = gateway.key
  /\ sentinel # NoKey => "sentinel" \in schema

\* Every version is true of the file, and the gateway serves on a complete one.
StartupInv == Schema!MigrationInv /\ ServesOnComplete

\* No start takes a database back, and none touches that of a later gateway, nor
\* what is stored in it.
NeverDowngrades ==
  [][/\ schema \subseteq schema'
     /\ version <= version'
     /\ version > Schema!Latest =>
          UNCHANGED <<schema, version, prompt, others, digest, sentinel>>]_all

\* Every database is opened again and again, after whatever crashes, unless one of
\* them fell into the three places no start gets out of.
OpensUnlessStuck == []<>(process.at = "open") \/ <>[]Schema!Stuck
=============================================================================
