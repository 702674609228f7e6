----------------------------- MODULE Deployment -----------------------------
(***************************************************************************)
(* The resident installation: `pnpm local:install', which builds a release *)
(* and activates it or goes back to the one before it                      *)
(* (src/scripts/local-production.ts), and gatewayctl, which starts, stops, *)
(* backs up and rolls back (src/scripts/local-production/gatewayctl.sh).   *)
(* One operator gives one command at a time; launchd, the gateway and      *)
(* whatever else may listen on the port go on meanwhile.                   *)
(*                                                                         *)
(* A command is a sequence of steps, each of which may fail, and may be    *)
(* killed between any two of them.                                         *)
(***************************************************************************)
EXTENDS Naturals, Sequences

CONSTANTS
  Releases,     \* BOUND: the releases that are built, each once
  NoRelease,
  Supports      \* the schema each of them brings a database to

ASSUME ReleasesAssumption ==
  /\ NoRelease \notin Releases
  /\ Supports \in [Releases -> Nat]

VARIABLES
  status,       \* of the directory: proven is pending without .pending-activation
  order,        \* the visible directories, the one modified last first
  current,      \* where the symbolic link points
  plist,        \* whether the LaunchAgent is installed
  service,      \* what launchd knows of it
  process,      \* its process, and the release that was current when it started
  database,     \* the version of the schema
  foreign,      \* a gateway that somebody has started by hand has the port
  op,           \* the command under way
  wasReady,     \* releases that have answered /readyz
  loose         \* current was left unproven by a command that was killed or said so

vars == <<status, order, current, plist, service, process, database, foreign, op, wasReady, loose>>

disk == <<status, order, current, plist>>
machine == <<service, process, database, foreign, wasReady>>

Job == {"install", "start", "stop", "restart", "backup", "rollback", "uninstall"}

\* activate .. mark: activateRelease, and in its catch (`back') once more up to
\* ready, then quarantine.  stop .. rest: gatewayctl.
Step ==
  {"idle", "prepare", "activate", "plist", "bootout", "port", "bootstrap", "kickstart",
   "ready", "mark", "dropCurrent", "dropPlist", "quarantine",
   "stop", "check", "copying", "copied", "start", "kick", "answer", "remove"}

Report == {"none", "ok", "failed", "stranded", "error", "killed"}

Op ==
  [job: Job, at: Step, candidate: Releases \cup {NoRelease},
   previous: Releases \cup {NoRelease}, back: BOOLEAN, restore: BOOLEAN, report: Report]

DeploymentTypeOK ==
  /\ status \in [Releases -> {"absent", "pending", "proven", "failed"}]
  /\ order \in Seq(Releases)
  /\ current \in Releases \cup {NoRelease}
  /\ plist \in BOOLEAN
  /\ service \in {"absent", "loaded", "removing"}
  /\ process \in [at: {"none", "starting", "ready", "ending"},
                  release: Releases \cup {NoRelease}]
  /\ database \in Nat
  /\ foreign \in BOOLEAN
  /\ op \in Op
  /\ wasReady \subseteq Releases
  /\ loose \in BOOLEAN

NoProcess == [at |-> "none", release |-> NoRelease]

-----------------------------------------------------------------------------
(* launchd and the gateway *)

\* KeepAlive and RunAtLoad: a loaded service without a process gets one, of the
\* release that is current now.
Launches ==
  /\ service = "loaded" /\ process.at = "none" /\ current # NoRelease
  /\ process' = [at |-> "starting", release |-> current]
  /\ UNCHANGED <<disk, service, database, foreign, op, wasReady, loose>>

\* openDatabase, which refuses a newer schema.
Migrates ==
  /\ process.at = "starting" /\ database < Supports[process.release]
  /\ database' = Supports[process.release]
  /\ UNCHANGED <<disk, service, process, foreign, op, wasReady, loose>>

BecomesReady ==
  /\ process.at = "starting" /\ database = Supports[process.release] /\ ~foreign
  /\ process' = [process EXCEPT !.at = "ready"]
  /\ wasReady' = wasReady \cup {process.release}
  /\ UNCHANGED <<disk, service, database, foreign, op, loose>>

\* A process ends, at any time, or because it was told to.
Dies ==
  /\ process.at # "none"
  /\ process' = NoProcess
  /\ service' = IF service = "removing" THEN "absent" ELSE service
  /\ UNCHANGED <<disk, database, foreign, op, wasReady, loose>>

\* Between the look at the port and the answer of an installation nobody starts a
\* gateway by hand: the port would say nothing about the release.
Quiet == op.job = "install" /\ op.at \in {"bootstrap", "kickstart", "ready"}

ForeignComes ==
  /\ ~foreign /\ process.at = "none" /\ ~Quiet
  /\ foreign' = TRUE
  /\ UNCHANGED <<disk, service, process, database, op, wasReady, loose>>

ForeignLeaves ==
  /\ foreign
  /\ foreign' = FALSE
  /\ UNCHANGED <<disk, service, process, database, op, wasReady, loose>>

\* launchctl bootout returns while the process may still be ending.
Bootout ==
  /\ service' = IF process.at = "none" THEN "absent" ELSE "removing"
  /\ process' = IF process.at = "none" THEN process ELSE [process EXCEPT !.at = "ending"]

\* launchctl bootstrap refuses a label it still knows.
CanBootstrap == plist /\ service = "absent"

\* launchctl kickstart -k puts a new process in the place of the old one.
Kickstart ==
  /\ service = "loaded"
  /\ process' =
       IF current = NoRelease THEN NoProcess ELSE [at |-> "starting", release |-> current]

\* GET /readyz on the port, whoever has it.
Answers == foreign \/ process.at = "ready"

-----------------------------------------------------------------------------
(* Commands *)

Begin(job, step, candidate, previous) ==
  op' = [job |-> job, at |-> step, candidate |-> candidate, previous |-> previous,
         back |-> FALSE, restore |-> FALSE, report |-> "none"]

Goes(step) == op' = [op EXCEPT !.at = step]

\* The command is over, and says how.
Ends(report) ==
  op' = [op EXCEPT !.at = "idle", !.back = FALSE, !.restore = FALSE,
                   !.candidate = NoRelease, !.previous = NoRelease, !.report = report]

CurrentProven == current = NoRelease \/ status[current] = "proven"

LeavesBehind == loose' = (loose \/ ~CurrentProven)

\* The directories without that of r, which is one of them.
Without(r) ==
  [i \in 1 .. Len(order) - 1 |->
    IF \E k \in 1 .. i : order[k] = r THEN order[i + 1] ELSE order[i]]

Idle == op.at = "idle"

\* Ctrl-C, a closed terminal, a reboot.
Killed == ~Idle /\ Ends("killed") /\ LeavesBehind /\ UNCHANGED <<disk, machine>>

-----------------------------------------------------------------------------
(* install *)

\* Everything up to renameSync(staging, release) leaves nothing visible behind.
Build ==
  /\ Idle
  /\ \E r \in Releases :
       /\ status[r] = "absent"
       /\ status' = [status EXCEPT ![r] = "pending"]
       /\ order' = <<r>> \o order
       /\ Begin("install", "prepare", r, current)
  /\ UNCHANGED <<current, plist, machine, loose>>

At(step) == op.job = "install" /\ op.at = step

\* The secrets, the assets of a legacy release and the links in bin, none of which
\* is guarded by the catch.
Prepares ==
  /\ At("prepare")
  /\ Goes("activate") \/ Ends("error")
  /\ UNCHANGED <<disk, machine, loose>>

\* What comes after a step of the try, and of the catch.
AfterOf(back) ==
  IF ~back
    THEN [activate |-> "plist", plist |-> "bootout", bootout |-> "port", port |-> "bootstrap",
          bootstrap |-> "kickstart", kickstart |-> "ready", ready |-> "mark"]
    ELSE [bootout |-> IF op.previous = NoRelease THEN "dropCurrent" ELSE "activate",
          activate |-> "port", port |-> "bootstrap", bootstrap |-> "kickstart",
          kickstart |-> "ready", ready |-> "quarantine",
          dropCurrent |-> "dropPlist", dropPlist |-> "quarantine"]

Onwards == Goes(AfterOf(op.back)[op.at]) /\ UNCHANGED loose

\* A step throws: the catch of activateRelease, or that of its rollback, which
\* boots out once more and says that the previous release could not be restarted.
\* removeCurrent and removePlist stand in no further catch.
Throws ==
  /\ op.job = "install"
  /\ IF ~op.back
       THEN /\ op.at \in {"activate", "plist", "port", "bootstrap", "kickstart", "ready", "mark"}
            /\ op' = [op EXCEPT !.at = "bootout", !.back = TRUE]
            /\ UNCHANGED <<service, process, loose>>
       ELSE \/ /\ op.at \in {"activate", "port", "bootstrap", "kickstart", "ready"}
               /\ Bootout /\ Ends("stranded") /\ LeavesBehind
            \/ /\ op.at \in {"dropCurrent", "dropPlist"}
               /\ Ends("stranded") /\ LeavesBehind /\ UNCHANGED <<service, process>>
  /\ UNCHANGED <<disk, database, foreign, wasReady>>

Activates ==
  /\ At("activate")
  /\ current' = IF op.back THEN op.previous ELSE op.candidate
  /\ Onwards
  /\ UNCHANGED <<status, order, plist, machine>>

WritesPlist ==
  /\ At("plist")
  /\ plist' = TRUE
  /\ Onwards
  /\ UNCHANGED <<status, order, current, machine>>

BootsOut ==
  /\ At("bootout")
  /\ Bootout
  /\ Onwards
  /\ UNCHANGED <<disk, database, foreign, wasReady>>

\* Faulty: the candidate is started without a look at the port.
PortUnchecked == At("port") /\ Onwards /\ UNCHANGED <<disk, machine>>

\* Nobody listens.  A process that is ending may have closed its port already.
PortFree ==
  /\ At("port")
  /\ ~foreign /\ process.at \in {"none", "ending"}
  /\ Onwards
  /\ UNCHANGED <<disk, machine>>

Bootstraps ==
  /\ At("bootstrap") /\ CanBootstrap
  /\ service' = "loaded"
  /\ Onwards
  /\ UNCHANGED <<disk, process, database, foreign, wasReady>>

Kickstarts ==
  /\ At("kickstart") /\ Kickstart
  /\ Onwards
  /\ UNCHANGED <<disk, service, database, foreign, wasReady>>

\* Faulty: the release that was restored is not waited for.
IsReadyOnce == At("ready") /\ (op.back \/ Answers) /\ Onwards /\ UNCHANGED <<disk, machine>>

IsReady == At("ready") /\ Answers /\ Onwards /\ UNCHANGED <<disk, machine>>

\* Removing .pending-activation touches the directory.
MarksActive ==
  /\ At("mark")
  /\ status' = [status EXCEPT ![op.candidate] = "proven"]
  /\ order' = <<op.candidate>> \o Without(op.candidate)
  /\ Ends("ok") /\ loose' = FALSE
  /\ UNCHANGED <<current, plist, machine>>

DropsCurrent ==
  /\ At("dropCurrent")
  /\ current' = NoRelease
  /\ Onwards
  /\ UNCHANGED <<status, order, plist, machine>>

DropsPlist ==
  /\ At("dropPlist")
  /\ plist' = FALSE
  /\ Onwards
  /\ UNCHANGED <<status, order, current, machine>>

\* The rename, after which the directory is hidden; or it throws, and the error
\* says that the candidate could not be removed.
Quarantines ==
  /\ At("quarantine")
  /\ \/ /\ status' = [status EXCEPT ![op.candidate] = "failed"]
        /\ order' = Without(op.candidate)
        /\ Ends("failed")
     \/ Ends("error") /\ UNCHANGED <<status, order>>
  /\ UNCHANGED <<current, plist, machine, loose>>

Install ==
  \/ Prepares \/ Throws \/ Activates \/ WritesPlist \/ BootsOut \/ PortFree \/ Bootstraps
  \/ Kickstarts \/ IsReady \/ MarksActive \/ DropsCurrent \/ DropsPlist \/ Quarantines

-----------------------------------------------------------------------------
(* gatewayctl *)

Order(job, step) ==
  /\ Idle
  /\ Begin(job, step, NoRelease, NoRelease)
  /\ UNCHANGED <<disk, machine, loose>>

Commands ==
  \/ Order("start", "start") \/ Order("stop", "stop") \/ Order("restart", "stop")
  \/ Order("uninstall", "stop") \/ Order("backup", "stop")

\* Faulty: the last directory is taken, activated or not.
SelectsLast ==
  {i \in DOMAIN order : order[i] # current}

\* The directories `rollback' may go to.
Selectable ==
  {i \in DOMAIN order : status[order[i]] # "pending" /\ order[i] # current}

\* rollback: the one of them that was modified last.
Selects ==
  /\ Idle
  /\ \E i \in Selectable :
       /\ \A k \in Selectable : i <= k
       /\ current' = order[i]
  /\ Begin("rollback", "stop", NoRelease, NoRelease)
  /\ loose' = FALSE
  /\ UNCHANGED <<status, order, plist, machine>>

\* set -e, which does not hold in the condition the start after a backup stands in.
Strict == op.job # "backup"

\* Of a backup a step that fails first starts again what was loaded (the trap).
Trapped == op' = [op EXCEPT !.at = "start", !.back = TRUE]

Fails ==
  /\ \/ op.at \in {"start", "kick"} /\ Strict /\ Ends("error")
     \/ op.at \in {"answer", "remove"} /\ Ends("error")
     \/ /\ op.at = "stop" /\ service # "absent"
        /\ IF op.job = "backup" THEN Trapped ELSE Ends("error")
  /\ UNCHANGED <<disk, machine, loose>>

\* What stop is followed by.
AfterStop ==
  IF op.job \in {"restart", "rollback"} THEN Goes("start")
  ELSE IF op.job = "uninstall" THEN Goes("remove")
  ELSE IF op.job = "backup" THEN op' = [op EXCEPT !.at = "check", !.restore = (service # "absent")]
  ELSE Ends("ok")

Stops ==
  /\ op.at = "stop"
  /\ Bootout
  /\ AfterStop
  /\ UNCHANGED <<disk, database, foreign, wasReady, loose>>

Starts ==
  /\ op.at = "start"
  /\ \/ service # "absent" /\ UNCHANGED service
     \/ CanBootstrap /\ service' = "loaded"
     \/ ~Strict /\ UNCHANGED service
  /\ Goes("kick")
  /\ UNCHANGED <<disk, process, database, foreign, wasReady, loose>>

Kicks ==
  /\ op.at = "kick"
  /\ Kickstart \/ (~Strict /\ UNCHANGED process)
  /\ Goes("answer")
  /\ UNCHANGED <<disk, service, database, foreign, wasReady, loose>>

IsAnswered ==
  /\ op.at = "answer" /\ Answers
  /\ Ends(IF op.back THEN "error" ELSE "ok")
  /\ UNCHANGED <<disk, machine, loose>>

RemovesPlist ==
  /\ op.at = "remove"
  /\ plist' = FALSE
  /\ Ends("ok")
  /\ UNCHANGED <<status, order, current, machine, loose>>

\* "Gateway is still loaded; refusing an inconsistent backup".
Checks ==
  /\ op.at = "check"
  /\ IF service = "absent" THEN Goes("copying") ELSE Trapped
  /\ UNCHANGED <<disk, machine, loose>>

\* The database, then its companions; or the destination cannot be written.
Copies ==
  /\ op.at \in {"copying", "copied"}
  /\ \/ op.at = "copying" /\ Goes("copied")
     \/ op.at = "copied" /\ op.restore /\ Goes("start")
     \/ op.at = "copied" /\ ~op.restore /\ Ends("ok")
     \/ op.restore /\ Trapped
     \/ ~op.restore /\ Ends("error")
  /\ UNCHANGED <<disk, machine, loose>>

Gatewayctl ==
  \/ Commands \/ Selects \/ Fails \/ Stops \/ Starts \/ Kicks \/ IsAnswered
  \/ RemovesPlist \/ Checks \/ Copies

-----------------------------------------------------------------------------
\* Nothing is installed; a database may be there.
Init ==
  /\ status = [r \in Releases |-> "absent"]
  /\ order = <<>>
  /\ current = NoRelease
  /\ plist = FALSE
  /\ service = "absent"
  /\ process = NoProcess
  /\ database \in {0} \cup {Supports[r] : r \in Releases}
  /\ foreign \in BOOLEAN
  /\ op = [job |-> "stop", at |-> "idle", candidate |-> NoRelease, previous |-> NoRelease,
           back |-> FALSE, restore |-> FALSE, report |-> "none"]
  /\ wasReady = {}
  /\ loose = FALSE

Next ==
  \/ Launches \/ Migrates \/ BecomesReady \/ Dies \/ ForeignComes \/ ForeignLeaves
  \/ Killed \/ Build \/ Install \/ Gatewayctl

Spec == Init /\ [][Next]_vars

-----------------------------------------------------------------------------
(* Properties *)

\* Only a release that has itself answered /readyz is marked, so that a rollback
\* can never go to one that has not: the answer an installation waits for comes
\* neither from the process it has replaced nor from somebody else on the port.
ProvenWasReady == \A r \in Releases : status[r] = "proven" => r \in wasReady

\* Between two commands `current' points to a release that was once ready, or to
\* none, unless a command was killed or said it could not restore the one before.
CurrentStands == Idle => CurrentProven \/ loose

\* An installation that reports a failure, and not that it could not go back, has
\* gone back: the release before is current, loaded, and able to open the database
\* whatever the candidate did to it, or nothing is installed where nothing was;
\* and no rollback finds the candidate.
FailureRestores ==
  [][op.at = "quarantine" /\ op'.report = "failed" =>
       /\ current' = op.previous
       /\ ~\E i \in DOMAIN order' : order'[i] = op.candidate
       /\ IF op.previous = NoRelease
            THEN ~plist' /\ service' # "loaded"
            ELSE service' = "loaded" /\ database' <= Supports[op.previous]]_vars

\* "Do not copy a live SQLite database or omit its WAL state": while gatewayctl copies, no process of the
\* service has the database open, the one it has just stopped included.
BackupIsCold == op.at \in {"copying", "copied"} => process.at = "none" /\ service = "absent"

\* The variables are typed, the selection stands, and backups are cold.
DeploymentInv == DeploymentTypeOK /\ CurrentStands /\ BackupIsCold
=============================================================================
